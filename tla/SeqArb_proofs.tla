---------------------------- MODULE SeqArb_proofs ----------------------------
(***************************************************************************)
(* Arithmetic on the ring of sequence numbers, for every number of them,   *)
(* and the correctness of SeqAge.v: on the ring that starts at the oldest  *)
(* number, is_older is "comes before".  Then the correctness of what       *)
(* chooses by it, the arbiter and the squash units, for every number of    *)
(* wires.                                                                  *)
(*                                                                         *)
(* A tree or a chain of wires is a recursive function.  What such a        *)
(* function is, and what holds of all of its wires, is shown with the      *)
(* least wire of which it does not hold (LeastNat).                        *)
(***************************************************************************)
EXTENDS SeqArb, FiniteSetTheorems, FunctionTheorems, WellFoundedInduction, TLAPS

\* Moving on the ring of sequence numbers ends at a sequence number.
LEMMA PlusType ==
  ASSUME NEW s \in SeqNum, NEW k \in 0 .. NSeq
  PROVE  Plus(s, k) \in SeqNum
BY NSeqAssumption, SMT DEF Plus, SeqNum

\* The distance of two sequence numbers on the ring is less than its length.
LEMMA MinusType ==
  ASSUME NEW a \in SeqNum, NEW b \in SeqNum
  PROVE  Minus(a, b) \in SeqNum
BY NSeqAssumption, SMT DEF Minus, SeqNum

\* The number k places after o is at distance k from o.
LEMMA MinusPlus ==
  ASSUME NEW o \in SeqNum, NEW k \in SeqNum
  PROVE  Minus(Plus(o, k), o) = k
BY NSeqAssumption, SMT DEF Plus, Minus, SeqNum

\* Every number is reached from o by its distance from o.
LEMMA PlusMinus ==
  ASSUME NEW o \in SeqNum, NEW s \in SeqNum
  PROVE  Plus(o, Minus(s, o)) = s
BY NSeqAssumption, SMT DEF Plus, Minus, SeqNum

\* Stepping the base of a window by one.
LEMMA PlusPlus ==
  ASSUME NEW o \in SeqNum, NEW k \in Nat, k + 1 < NSeq
  PROVE  Plus(Plus(o, 1), k) = Plus(o, k + 1)
BY NSeqAssumption, SMT DEF Plus, SeqNum

\* A window of len numbers from o grows at its end and shrinks at its base.
LEMMA WindowGrows ==
  ASSUME NEW o \in SeqNum, NEW s \in SeqNum, NEW len \in Nat, len < NSeq
  PROVE  Minus(s, o) < len + 1 <=> Minus(s, o) < len \/ s = Plus(o, len)
BY NSeqAssumption, SMT DEF Plus, Minus, SeqNum

\* A window of numbers without its first one is the window from the next.
LEMMA WindowShrinks ==
  ASSUME NEW o \in SeqNum, NEW s \in SeqNum, NEW len \in Nat, 0 < len, len <= NSeq
  PROVE  Minus(s, Plus(o, 1)) < len - 1 <=> Minus(s, o) < len /\ s # o
BY NSeqAssumption, SMT DEF Plus, Minus, SeqNum

\* The three comparisons of is_older decide the order of two numbers on the
\* ring that starts at the oldest one, for every width of sequence number.
THEOREM IsOlderIsPrecedes ==
  ASSUME NEW o \in SeqNum, NEW a \in SeqNum, NEW b \in SeqNum
  PROVE  IsOlder(o, a, b) <=> Precedes(o, a, b)
BY NSeqAssumption, SMT DEF IsOlder, Precedes, Minus, SeqNum

-----------------------------------------------------------------------------
(* Natural numbers.                                                        *)

LessNat == {pair \in Nat \X Nat : pair[1] < pair[2]}

\* Every nonempty set of natural numbers has a least element.
LEMMA LeastNat ==
  ASSUME NEW S, S \subseteq Nat, S # {}
  PROVE  \E m \in S : \A n \in S : m <= n
<1>1. IsWellFoundedOn(LessNat, Nat)
  BY NatLessThanWellFounded, Zenon DEF OpToRel, LessNat
<1>2. \E x \in S : \A y \in S : ~ (<<y, x>> \in LessNat)
  BY <1>1, WFMin
<1>3. \A x, y \in S : ~ (<<y, x>> \in LessNat) => x <= y
  BY DEF LessNat
<1>. QED  BY <1>2, <1>3

\* A set of natural numbers below a bound has a greatest element.
LEMMA GreatestNat ==
  ASSUME NEW b \in Nat, NEW S, S \subseteq 0 .. b, S # {}
  PROVE  \E m \in S : \A n \in S : n <= m
<1> DEFINE T == {d \in 0 .. b : b - d \in S}
<1>1. PICK s \in S : TRUE
  OBVIOUS
<1>2. b - s \in T
  BY <1>1
<1>3. PICK d \in T : \A e \in T : d <= e
  <2>1. T \subseteq Nat
    OBVIOUS
  <2> HIDE DEF T
  <2>. QED  BY <2>1, <1>2, LeastNat
<1>4. ASSUME NEW n \in S PROVE n <= b - d
  <2>1. b - n \in T
    OBVIOUS
  <2>. QED  BY <2>1, <1>3
<1>. QED  BY <1>3, <1>4

\* One more bit doubles the number of words: a set with one more element has
\* twice as many subsets, those with the element and those without.
LEMMA PowerStep ==
  ASSUME NEW n \in Nat
  PROVE  /\ 2 ^ n \in Nat
         /\ 2 ^ (n + 1) = 2 * 2 ^ n
<1> DEFINE S == 1 .. n
           A == SUBSET S
           B == {s \cup {n + 1} : s \in A}
<1>1. /\ IsFiniteSet(S) /\ Cardinality(S) = n
      /\ IsFiniteSet(1 .. n + 1) /\ Cardinality(1 .. n + 1) = n + 1
  BY FS_Interval
<1>2. /\ IsFiniteSet(A) /\ Cardinality(A) = 2 ^ n
      /\ Cardinality(SUBSET (1 .. n + 1)) = 2 ^ (n + 1)
  BY <1>1, FS_SUBSET
<1>3. SUBSET (1 .. n + 1) = A \cup B
  <2>1. ASSUME NEW t \in SUBSET (1 .. n + 1) PROVE t \in A \cup B
    <3>1. CASE n + 1 \in t
      <4>1. t \ {n + 1} \in A
        OBVIOUS
      <4>2. t = (t \ {n + 1}) \cup {n + 1}
        BY <3>1
      <4>. QED  BY <4>1, <4>2
    <3>2. CASE n + 1 \notin t
      BY <3>2
    <3>. QED  BY <3>1, <3>2
  <2>2. A \subseteq SUBSET (1 .. n + 1)
    OBVIOUS
  <2>3. ASSUME NEW s \in A PROVE s \cup {n + 1} \in SUBSET (1 .. n + 1)
    OBVIOUS
  <2>4. B \subseteq SUBSET (1 .. n + 1)
    BY <2>3
  <2> HIDE DEF A, B
  <2>. QED  BY <2>1, <2>2, <2>4
<1>4. A \cap B = {}
  OBVIOUS
<1>5. IsFiniteSet(B) /\ Cardinality(B) = Cardinality(A)
  <2> DEFINE f == [s \in A |-> s \cup {n + 1}]
  <2>1. f \in Bijection(A, B)
    <3>1. \A s, t \in A : f[s] = f[t] => s = t
      <4>1. \A s \in A : f[s] \ {n + 1} = s
        OBVIOUS
      <4>. QED  BY <4>1
    <3>2. f \in [A -> B] /\ \A b \in B : \E s \in A : f[s] = b
      OBVIOUS
    <3> HIDE DEF f, A, B
    <3>. QED  BY <3>1, <3>2, Fun_IsBij
  <2> HIDE DEF A, B, f
  <2>. QED  BY <2>1, <1>2, FS_Bijection DEF ExistsBijection
<1>6. Cardinality(A \cup B) = Cardinality(A) + Cardinality(B) - Cardinality(A \cap B)
  <2> HIDE DEF A, B
  <2>. QED  BY <1>2, <1>5, FS_Union
<1>7. Cardinality(A) \in Nat /\ Cardinality({}) = 0
  <2> HIDE DEF A
  <2>. QED  BY <1>2, FS_CardinalityType, FS_EmptySet
<1> HIDE DEF A, B
<1>8. Cardinality(A \cup B) = 2 * Cardinality(A)
  <2>1. Cardinality(A \cup B) = Cardinality(A) + Cardinality(A) - 0
    BY <1>4, <1>5, <1>6, <1>7, Zenon
  <2>. QED  BY <2>1, <1>7
<1>9. Cardinality(A \cup B) = 2 ^ (n + 1)
  BY <1>2, <1>3, Zenon
<1>. QED  BY <1>2, <1>7, <1>8, <1>9, Zenon

-----------------------------------------------------------------------------
(* The tree.                                                               *)

\* The tree has a leaf for every request.
LEMMA EnoughLeaves ==
  ASSUME NEW n \in Nat \ {0}
  PROVE  /\ 2 ^ NumLevels(n) \in Nat
         /\ n <= 2 ^ NumLevels(n)
<1>1. \A k \in Nat : k < 2 ^ k
  <2> DEFINE T == {k \in Nat : ~(k < 2 ^ k)}
  <2>1. SUFFICES ASSUME T # {} PROVE FALSE
    OBVIOUS
  <2>2. PICK k \in T : \A j \in T : k <= j
    <3>1. T \subseteq Nat
      OBVIOUS
    <3> HIDE DEF T
    <3>. QED  BY <2>1, <3>1, LeastNat
  <2>3. k # 0
    <3>1. 0 < 2 ^ 0
      OBVIOUS
    <3>. QED  BY <2>2, <3>1, Zenon
  <2>4. k - 1 \in Nat /\ k - 1 \notin T
    BY <2>2, <2>3
  <2>5. k - 1 < 2 ^ (k - 1)
    BY <2>4
  <2>6. 2 ^ (k - 1) \in Nat /\ 2 ^ ((k - 1) + 1) = 2 * 2 ^ (k - 1)
    BY <2>4, PowerStep, Zenon
  <2>7. (k - 1) + 1 = k
    BY <2>2
  <2>8. 2 ^ k = 2 * 2 ^ (k - 1)
    BY <2>6, <2>7, Zenon
  <2>9. k < 2 ^ k
    <3> DEFINE half == 2 ^ (k - 1)
    <3>1. k - 1 < half /\ half \in Nat /\ 2 ^ k = 2 * half
      BY <2>5, <2>6, <2>8
    <3> HIDE DEF half
    <3>. QED  BY <2>2, <2>3, <3>1
  <2>. QED  BY <2>2, <2>9
<1> DEFINE S == {l \in Nat : 2 ^ l >= n}
<1>2. n \in S
  <2>1. 2 ^ n \in Nat /\ n < 2 ^ n
    BY <1>1, PowerStep
  <2>. QED  BY <2>1
<1>3. PICK l \in S : \A j \in S : l <= j
  <2>1. S \subseteq Nat
    OBVIOUS
  <2> HIDE DEF S
  <2>. QED  BY <2>1, <1>2, LeastNat
<1>4. l \in 0 .. n /\ 2 ^ l >= n
  BY <1>2, <1>3
<1>5. ASSUME NEW m \in 0 .. l - 1 PROVE 2 ^ m < n
  <2>1. m \in Nat /\ m \notin S
    BY <1>3
  <2>2. 2 ^ m \in Nat
    BY <2>1, PowerStep
  <2>. QED  BY <2>1, <2>2
<1>6. NumLevels(n) \in 0 .. n /\ 2 ^ NumLevels(n) >= n
  BY <1>4, <1>5, Zenon DEF NumLevels
<1>7. 2 ^ NumLevels(n) \in Nat
  BY <1>6, PowerStep
<1>. QED  BY <1>6, <1>7

\* What drives wire k of a tree, when f is on its wires.
Driver(oldest, req, n, leaves, f, k) ==
  LET p == 2 * leaves - 1
  IN  IF k < leaves
      THEN IF k < n THEN req[k] ELSE Idle
      ELSE Helper(oldest, f[2 * k - p], f[2 * k - p - 1])

\* There is no loop in the tree: every wire is what drives it.
LEMMA TreeWires ==
  ASSUME NEW oldest, NEW req, NEW n, NEW leaves \in Nat \ {0},
         NEW k \in 0 .. 2 * leaves - 2
  PROVE  LET tree == Tree(oldest, req, n, leaves)
         IN  tree[k] = Driver(oldest, req, n, leaves, tree, k)
<1> DEFINE p == 2 * leaves - 1
           D(f, j) == Driver(oldest, req, n, leaves, f, j)
           IsTree(f, m) == f = [j \in 0 .. m - 1 |-> D(f, j)]
           S == {m \in 0 .. p : ~ \E f : IsTree(f, m)}
<1>1. ASSUME NEW m \in 1 .. p, NEW f, IsTree(f, m - 1)
      PROVE  IsTree([j \in 0 .. m - 1 |-> D(f, j)], m)
  <2> DEFINE g == [j \in 0 .. m - 1 |-> D(f, j)]
  <2>1. \A j \in 0 .. m - 2 : f[j] = g[j]
    <3>1. \A j \in 0 .. m - 2 : f[j] = D(f, j)
      <4> HIDE DEF D
      <4>. QED  BY <1>1
    <3> HIDE DEF D
    <3>. QED  BY <3>1
  <2>2. ASSUME NEW j \in 0 .. m - 1 PROVE D(f, j) = D(g, j)
    <3>1. CASE j < leaves
      BY <3>1 DEF Driver
    <3>2. CASE leaves <= j
      <4>1. 2 * j - p \in 0 .. m - 2 /\ 2 * j - p - 1 \in 0 .. m - 2
        BY <3>2
      <4>2. f[2 * j - p] = g[2 * j - p] /\ f[2 * j - p - 1] = g[2 * j - p - 1]
        <5> HIDE DEF g, p
        <5>. QED  BY <4>1, <2>1
      <4> HIDE DEF g
      <4>. QED  BY <4>2, Zenon DEF Driver
    <3>. QED  BY <3>1, <3>2
  <2> HIDE DEF D
  <2>. QED  BY <2>2
<1>2. \E f : IsTree(f, 0)
  <2> HIDE DEF D
  <2> DEFINE f == [j \in 0 .. -1 |-> 0]
  <2>1. f = [j \in 0 .. 0 - 1 |-> D(f, j)]
    OBVIOUS
  <2>. QED  BY <2>1
<1> HIDE DEF D
<1>3. S = {}
  <2>1. SUFFICES ASSUME S # {} PROVE FALSE
    OBVIOUS
  <2>2. PICK m \in S : \A j \in S : m <= j
    <3>1. S \subseteq Nat
      OBVIOUS
    <3> HIDE DEF S
    <3>. QED  BY <2>1, <3>1, LeastNat
  <2> HIDE DEF IsTree
  <2>3. m # 0
    BY <1>2, <2>2
  <2>4. m \in 1 .. p /\ m - 1 \in 0 .. p /\ m - 1 \notin S
    BY <2>2, <2>3
  <2>5. PICK f : IsTree(f, m - 1)
    BY <2>4
  <2>. QED  BY <1>1, <2>2, <2>4, <2>5
<1>4. \E f : IsTree(f, p)
  <2>1. p \in 0 .. p
    OBVIOUS
  <2> HIDE DEF IsTree
  <2>. QED  BY <1>3, <2>1, Zenon
<1> DEFINE tree == Tree(oldest, req, n, leaves)
<1>5. tree = [j \in 0 .. p - 1 |-> D(tree, j)]
  BY <1>4, Zenon DEF Tree, D, Driver
<1> HIDE DEF tree
<1>6. k \in 0 .. p - 1
  OBVIOUS
<1>. QED  BY <1>5, <1>6, Zenon DEF tree, D

\* Requests of instructions in flight: they carry different numbers.
Requests(req, n) ==
  /\ \A i \in 0 .. n - 1 : req[i].val \in BOOLEAN /\ req[i].seq_num \in SeqNum
  /\ \A i, j \in 0 .. n - 1 :
       req[i].val /\ req[j].val /\ req[i].seq_num = req[j].seq_num => i = j

\* A number is told from the others by its distance from the oldest.
LEMMA DistanceTells ==
  ASSUME NEW o \in SeqNum, NEW a \in SeqNum, NEW b \in SeqNum, Minus(a, o) = Minus(b, o)
  PROVE  a = b
BY NSeqAssumption, SMT DEF Minus, SeqNum

\* A helper passes on one of its requests, and of two valid ones the older.
LEMMA HelperChooses ==
  ASSUME NEW o \in SeqNum, NEW a, NEW b,
         a.val \in BOOLEAN, b.val \in BOOLEAN, a.seq_num \in SeqNum, b.seq_num \in SeqNum
  PROVE  LET h == Helper(o, a, b)
         IN  /\ h = a \/ h = b
             /\ h.val <=> a.val \/ b.val
             /\ a.val => Minus(h.seq_num, o) <= Minus(a.seq_num, o)
             /\ b.val => Minus(h.seq_num, o) <= Minus(b.seq_num, o)
<1> DEFINE da == Minus(a.seq_num, o)
           db == Minus(b.seq_num, o)
<1>1. da \in Int /\ db \in Int
  <2>1. da \in SeqNum /\ db \in SeqNum
    BY MinusType, Zenon
  <2> HIDE DEF da, db
  <2>. QED  BY <2>1 DEF SeqNum
<1>2. IsOlder(o, a.seq_num, b.seq_num) <=> da < db
  BY IsOlderIsPrecedes, Zenon DEF Precedes
<1> HIDE DEF da, db
<1>3. da <= da /\ db <= db /\ (da < db => da <= db) /\ (~(da < db) => db <= da)
  BY <1>1
<1>4. CASE ~a.val
  BY <1>3, <1>4, Zenon DEF Helper, da, db
<1>5. CASE a.val /\ ~b.val
  BY <1>3, <1>5, Zenon DEF Helper, da, db
<1>6. CASE a.val /\ b.val /\ da < db
  BY <1>2, <1>3, <1>6, Zenon DEF Helper, da, db
<1>7. CASE a.val /\ b.val /\ ~(da < db)
  BY <1>2, <1>3, <1>7, Zenon DEF Helper, da, db
<1>. QED  BY <1>4, <1>5, <1>6, <1>7, Zenon

\* Nothing is on a wire but a request, or nothing at all.
LEMMA WireIsRequest ==
  ASSUME NEW o \in SeqNum, NEW n \in Nat \ {0}, NEW req, Requests(req, n),
         NEW leaves \in Nat \ {0}, NEW k \in 0 .. 2 * leaves - 2
  PROVE  LET tree == Tree(o, req, n, leaves)
         IN  tree[k] = Idle \/ \E i \in 0 .. n - 1 : tree[k] = req[i]
<1> DEFINE tree == Tree(o, req, n, leaves)
           p    == 2 * leaves - 1
           Good(j) == tree[j] = Idle \/ \E i \in 0 .. n - 1 : tree[j] = req[i]
           S    == {j \in 0 .. p - 1 : ~Good(j)}
<1>1. SUFFICES ASSUME S # {} PROVE FALSE
  <2>1. S = {} => Good(k)
    <3> HIDE DEF Good
    <3>. QED  OBVIOUS
  <2>. QED  BY <2>1
<1>2. PICK j \in S : \A m \in S : j <= m
  <2>1. S \subseteq Nat
    OBVIOUS
  <2> HIDE DEF S
  <2>. QED  BY <1>1, <2>1, LeastNat
<1>3. tree[j] = Driver(o, req, n, leaves, tree, j)
  BY TreeWires
<1> HIDE DEF tree
<1>4. CASE j < leaves
  <2>1. CASE j < n
    <3>1. tree[j] = req[j] /\ j \in 0 .. n - 1
      BY <1>3, <1>4, <2>1 DEF Driver
    <3>. QED  BY <3>1, <1>2
  <2>2. CASE ~(j < n)
    BY <1>2, <1>3, <1>4, <2>2 DEF Driver
  <2>. QED  BY <2>1, <2>2
<1>5. CASE leaves <= j
  <2> DEFINE a == 2 * j - p
             b == 2 * j - p - 1
  <2>1. a \in 0 .. j - 1 /\ b \in 0 .. j - 1
    BY <1>5
  <2>2. tree[j] = Helper(o, tree[a], tree[b])
    BY <1>3, <1>5 DEF Driver
  <2>3. tree[j] = tree[a] \/ tree[j] = tree[b]
    BY <2>2, Zenon DEF Helper
  <2>4. Good(a) /\ Good(b)
    <3>1. a \in 0 .. p - 1 /\ b \in 0 .. p - 1 /\ a \notin S /\ b \notin S
      BY <2>1, <1>2
    <3> HIDE DEF Good, a, b
    <3>. QED  BY <3>1
  <2>5. Good(j)
    <3> HIDE DEF a, b
    <3>. QED  BY <2>3, <2>4
  <2>. QED  BY <2>5, <1>2
<1>. QED  BY <1>4, <1>5

\* From every leaf with a request, the requests on the way to the root become
\* no younger: the last wire with one that is as old is the root.
LEMMA RootIsNoYounger ==
  ASSUME NEW o \in SeqNum, NEW n \in Nat \ {0}, NEW req, Requests(req, n),
         NEW leaves \in Nat \ {0}, n <= leaves,
         NEW i \in 0 .. n - 1, req[i].val
  PROVE  LET root == Tree(o, req, n, leaves)[2 * leaves - 2]
         IN  root.val /\ Minus(root.seq_num, o) <= Minus(req[i].seq_num, o)
<1> DEFINE tree == Tree(o, req, n, leaves)
           p    == 2 * leaves - 1
           Old(k) == tree[k].val /\ Minus(tree[k].seq_num, o) <= Minus(req[i].seq_num, o)
           S    == {k \in 0 .. p - 1 : Old(k)}
<1>1. \A k \in 0 .. p - 1 : tree[k] = Driver(o, req, n, leaves, tree, k)
  BY TreeWires
<1>2. \A k \in 0 .. p - 1 : tree[k].val \in BOOLEAN /\ tree[k].seq_num \in SeqNum
  <2>1. Idle.val \in BOOLEAN /\ Idle.seq_num \in SeqNum
    BY NSeqAssumption DEF Idle, SeqNum
  <2>2. \A k \in 0 .. p - 1 : tree[k] = Idle \/ \E j \in 0 .. n - 1 : tree[k] = req[j]
    BY WireIsRequest
  <2> HIDE DEF tree
  <2>. QED  BY <2>1, <2>2, Zenon DEF Requests
<1> HIDE DEF tree
<1>3. \A s \in SeqNum : Minus(s, o) \in Int
  BY MinusType DEF SeqNum
<1>4. i \in S
  <2>1. i \in 0 .. p - 1 /\ tree[i] = req[i]
    BY <1>1 DEF Driver
  <2>2. Minus(req[i].seq_num, o) \in Int
    BY <1>3 DEF Requests
  <2>. QED  BY <2>1, <2>2
<1>5. PICK k \in S : \A m \in S : m <= k
  <2>1. S \subseteq 0 .. p - 1 /\ p - 1 \in Nat
    OBVIOUS
  <2> HIDE DEF S
  <2>. QED  BY <1>4, <2>1, GreatestNat
<1>6. CASE k = p - 1
  BY <1>5, <1>6 DEF tree
<1>7. CASE k # p - 1
  <2>1. PICK q \in leaves .. p - 1 : k < q /\ (2 * q - p = k \/ 2 * q - p - 1 = k)
    <3>1. k \in 0 .. p - 2
      BY <1>5, <1>7
    <3>2. PICK h \in Nat : k = 2 * h \/ k = 2 * h + 1
      <4>1. k \div 2 \in Nat /\ (k = 2 * (k \div 2) \/ k = 2 * (k \div 2) + 1)
        BY <3>1
      <4>. QED  BY <4>1
    <3>3. leaves + h \in leaves .. p - 1 /\ k < leaves + h
      BY <3>1, <3>2
    <3>4. 2 * (leaves + h) - p = 2 * h + 1
      OBVIOUS
    <3>5. \/ 2 * (leaves + h) - p = k
          \/ 2 * (leaves + h) - p - 1 = k
      BY <3>2, <3>4
    <3> HIDE DEF p
    <3>. QED  BY <3>3, <3>5
  <2> DEFINE a == 2 * q - p
             b == 2 * q - p - 1
  <2>2. a \in 0 .. p - 1 /\ b \in 0 .. p - 1 /\ q \in 0 .. p - 1
    BY <2>1
  <2>3. tree[q] = Helper(o, tree[a], tree[b])
    BY <1>1, <2>1, <2>2 DEF Driver
  <2>4. /\ tree[q].val <=> tree[a].val \/ tree[b].val
        /\ tree[a].val => Minus(tree[q].seq_num, o) <= Minus(tree[a].seq_num, o)
        /\ tree[b].val => Minus(tree[q].seq_num, o) <= Minus(tree[b].seq_num, o)
    <3> HIDE DEF a, b
    <3>. QED  BY <1>2, <2>2, <2>3, HelperChooses
  <2>5. k = a \/ k = b
    BY <2>1
  <2> HIDE DEF a, b
  <2>6. /\ Minus(tree[q].seq_num, o) \in Int /\ Minus(tree[k].seq_num, o) \in Int
        /\ Minus(req[i].seq_num, o) \in Int
    BY <1>2, <1>3, <2>2, <2>5 DEF Requests
  <2>7. Old(k)
    BY <1>5
  <2>8. Old(q)
    BY <2>4, <2>5, <2>6, <2>7
  <2>. QED  BY <2>1, <2>2, <2>8, <1>5
<1>. QED  BY <1>6, <1>7

\* g is one of the first n requests and no other of them is older, if there is
\* a valid one.
NoYounger(o, req, n, g) ==
  /\ g.val \in BOOLEAN
  /\ g.val => \E i \in 0 .. n - 1 : req[i] = g
  /\ \A i \in 0 .. n - 1 :
       req[i].val => g.val /\ Minus(g.seq_num, o) <= Minus(req[i].seq_num, o)

\* A wire with a request that is no younger than any other has the oldest.
LEMMA NoYoungerIsOldest ==
  ASSUME NEW o \in SeqNum, NEW n \in Nat, NEW req, Requests(req, n), NEW g,
         NoYounger(o, req, n, g)
  PROVE  IsOldest(o, req, n, g)
<1> USE DEF NoYounger
<1> DEFINE valid == {i \in 0 .. n - 1 : req[i].val}
<1>1. g.val <=> valid # {}
  OBVIOUS
<1>2. ASSUME g.val
      PROVE  \E i \in valid : /\ req[i] = g
                              /\ \A j \in valid \ {i} : Precedes(o, g.seq_num, req[j].seq_num)
  <2>1. PICK i \in 0 .. n - 1 : req[i] = g
    BY <1>2
  <2>2. i \in valid
    BY <1>2, <2>1
  <2>3. ASSUME NEW j \in valid \ {i} PROVE Precedes(o, g.seq_num, req[j].seq_num)
    <3>1. g.seq_num \in SeqNum /\ req[j].seq_num \in SeqNum /\ g.seq_num # req[j].seq_num
      BY <2>1, <2>2 DEF Requests
    <3>2. Minus(g.seq_num, o) <= Minus(req[j].seq_num, o)
      OBVIOUS
    <3>3. Minus(g.seq_num, o) # Minus(req[j].seq_num, o)
      BY <3>1, DistanceTells
    <3>4. Minus(g.seq_num, o) \in Int /\ Minus(req[j].seq_num, o) \in Int
      <4>1. Minus(g.seq_num, o) \in SeqNum /\ Minus(req[j].seq_num, o) \in SeqNum
        BY <3>1, MinusType, Zenon
      <4>. QED  BY <4>1 DEF SeqNum
    <3>. QED  BY <3>2, <3>3, <3>4 DEF Precedes
  <2> HIDE DEF valid
  <2>. QED  BY <2>1, <2>2, <2>3
<1>. QED  BY <1>1, <1>2, Zenon DEF IsOldest

\* The root of the arbiter's tree is the oldest request, for every number of
\* wires and every number of sequence numbers.
THEOREM RootIsOldest ==
  ASSUME NEW o \in SeqNum, NEW n \in Nat \ {0}, NEW req, Requests(req, n)
  PROVE  IsOldest(o, req, n, Arbitrate(o, req, n))
<1> DEFINE leaves == 2 ^ NumLevels(n)
           root   == Arbitrate(o, req, n)
<1>1. leaves \in Nat \ {0} /\ n <= leaves
  BY EnoughLeaves
<1> HIDE DEF leaves
<1>2. root = Tree(o, req, n, leaves)[2 * leaves - 2]
  BY Zenon DEF Arbitrate, leaves
<1> HIDE DEF root
<1>3. root = Idle \/ \E i \in 0 .. n - 1 : root = req[i]
  <2>1. 2 * leaves - 2 \in 0 .. 2 * leaves - 2
    BY <1>1
  <2>. QED  BY <1>1, <1>2, <2>1, WireIsRequest
<1>4. \A i \in 0 .. n - 1 :
        req[i].val => root.val /\ Minus(root.seq_num, o) <= Minus(req[i].seq_num, o)
  BY <1>1, <1>2, RootIsNoYounger
<1>5. root.val \in BOOLEAN /\ (root.val => \E i \in 0 .. n - 1 : req[i] = root)
  <2>1. Idle.val = FALSE
    BY DEF Idle
  <2>. QED  BY <1>3, <2>1, Zenon DEF Requests
<1>. QED  BY <1>4, <1>5, NoYoungerIsOldest DEF root, NoYounger

\* The number at the root singles out the oldest request: the arbiter grants
\* that one and no other, and one whenever there is a request.
THEOREM GrantIsOldest ==
  ASSUME NEW o \in SeqNum, NEW n \in Nat \ {0}, NEW req, Requests(req, n)
  PROVE  GrantsOldest(o, req, n, Granted(o, req, n))
<1> DEFINE root    == Arbitrate(o, req, n)
           granted == Granted(o, req, n)
<1>1. IsOldest(o, req, n, root)
  BY RootIsOldest
<1>2. granted = {i \in 0 .. n - 1 : req[i].val /\ req[i].seq_num = root.seq_num}
  BY DEF Granted
<1> HIDE DEF root, granted
<1>3. CASE ~root.val
  <2>1. \A i \in 0 .. n - 1 : ~req[i].val
    BY <1>1, <1>3 DEF IsOldest
  <2>2. granted = {}
    BY <1>2, <2>1
  <2>. QED  BY <2>1, <2>2 DEF GrantsOldest, granted
<1>4. CASE root.val
  <2>1. PICK i \in 0 .. n - 1 :
          /\ req[i].val /\ req[i] = root
          /\ \A j \in 0 .. n - 1 : req[j].val /\ j # i => Precedes(o, root.seq_num, req[j].seq_num)
    BY <1>1, <1>4 DEF IsOldest
  <2>2. granted = {i}
    BY <1>2, <2>1 DEF Requests
  <2>. QED  BY <2>1, <2>2 DEF GrantsOldest, granted
<1>. QED  BY <1>1, <1>3, <1>4 DEF IsOldest

\* The tree of a squash unit passes on the oldest notification, also when it
\* has one wire only and is no tree.
THEOREM TreeRootIsOldest ==
  ASSUME NEW o \in SeqNum, NEW n \in Nat \ {0}, NEW req, Requests(req, n)
  PROVE  IsOldest(o, req, n, SquashUnitL1(o, req, n))
<1>1. CASE n = 1
  <2>1. req[0].val \in BOOLEAN /\ req[0].seq_num \in SeqNum
    BY <1>1 DEF Requests
  <2>2. Minus(req[0].seq_num, o) \in Int
    BY <2>1, MinusType DEF SeqNum
  <2>3. NoYounger(o, req, n, req[0])
    BY <1>1, <2>1, <2>2 DEF NoYounger
  <2>. QED  BY <1>1, <2>3, NoYoungerIsOldest DEF SquashUnitL1
<1>2. CASE n # 1
  BY <1>2, RootIsOldest DEF SquashUnitL1
<1>. QED  BY <1>1, <1>2

-----------------------------------------------------------------------------
(* The chain.                                                              *)

\* What link i passes on, when f is what the links pass on.
Link(oldest, arb, f, i) ==
  IF i = 0 THEN arb[0]
  ELSE IF /\ arb[i].val
          /\ ~f[i - 1].val \/ IsOlder(oldest, arb[i].seq_num, f[i - 1].seq_num)
    THEN arb[i]
  ELSE f[i - 1]

\* Every link passes on what it makes of the link before it.
LEMMA ChainLinks ==
  ASSUME NEW oldest, NEW arb, NEW n \in Nat \ {0}, NEW k \in 0 .. n - 1
  PROVE  LET chain == Chain(oldest, arb, n)
         IN  chain[k] = Link(oldest, arb, chain, k)
<1> DEFINE D(f, j) == Link(oldest, arb, f, j)
           IsChain(f, m) == f = [j \in 0 .. m - 1 |-> D(f, j)]
           S == {m \in 0 .. n : ~ \E f : IsChain(f, m)}
<1>1. ASSUME NEW m \in 1 .. n, NEW f, IsChain(f, m - 1)
      PROVE  IsChain([j \in 0 .. m - 1 |-> D(f, j)], m)
  <2> DEFINE g == [j \in 0 .. m - 1 |-> D(f, j)]
  <2>1. \A j \in 0 .. m - 2 : f[j] = g[j]
    <3>1. \A j \in 0 .. m - 2 : f[j] = D(f, j)
      <4> HIDE DEF D
      <4>. QED  BY <1>1
    <3> HIDE DEF D
    <3>. QED  BY <3>1
  <2>2. ASSUME NEW j \in 0 .. m - 1 PROVE D(f, j) = D(g, j)
    <3>1. CASE j = 0
      BY <3>1 DEF Link
    <3>2. CASE j # 0
      <4>1. j - 1 \in 0 .. m - 2
        BY <3>2
      <4>2. f[j - 1] = g[j - 1]
        <5> HIDE DEF g
        <5>. QED  BY <4>1, <2>1
      <4> HIDE DEF g
      <4>. QED  BY <4>2, Zenon DEF Link
    <3>. QED  BY <3>1, <3>2
  <2> HIDE DEF D
  <2>. QED  BY <2>2
<1>2. \E f : IsChain(f, 0)
  <2> HIDE DEF D
  <2> DEFINE f == [j \in 0 .. -1 |-> 0]
  <2>1. f = [j \in 0 .. 0 - 1 |-> D(f, j)]
    OBVIOUS
  <2>. QED  BY <2>1
<1> HIDE DEF D
<1>3. S = {}
  <2>1. SUFFICES ASSUME S # {} PROVE FALSE
    OBVIOUS
  <2>2. PICK m \in S : \A j \in S : m <= j
    <3>1. S \subseteq Nat
      OBVIOUS
    <3> HIDE DEF S
    <3>. QED  BY <2>1, <3>1, LeastNat
  <2> HIDE DEF IsChain
  <2>3. m # 0
    BY <1>2, <2>2
  <2>4. m \in 1 .. n /\ m - 1 \in 0 .. n /\ m - 1 \notin S
    BY <2>2, <2>3
  <2>5. PICK f : IsChain(f, m - 1)
    BY <2>4
  <2>. QED  BY <1>1, <2>2, <2>4, <2>5
<1>4. \E f : IsChain(f, n)
  <2>1. n \in 0 .. n
    OBVIOUS
  <2> HIDE DEF IsChain
  <2>. QED  BY <1>3, <2>1, Zenon
<1> DEFINE chain == Chain(oldest, arb, n)
<1>5. chain = [j \in 0 .. n - 1 |-> D(chain, j)]
  BY <1>4, Zenon DEF Chain, D, Link
<1> HIDE DEF chain
<1>. QED  BY <1>5, Zenon DEF chain, D

\* A link that is no younger than the requests before it is followed by one
\* that is no younger than one request more.
LEMMA LinkStep ==
  ASSUME NEW o \in SeqNum, NEW n \in Nat, NEW req, Requests(req, n),
         NEW m \in 1 .. n - 1, NEW f, NoYounger(o, req, m, f[m - 1])
  PROVE  NoYounger(o, req, m + 1, Link(o, req, f, m))
<1> DEFINE c == f[m - 1]
           g == Link(o, req, f, m)
           d(r) == Minus(r.seq_num, o)
<1>1. \A i \in 0 .. m : req[i].val \in BOOLEAN /\ req[i].seq_num \in SeqNum
  BY DEF Requests
<1>2. c.val \in BOOLEAN /\ (c.val => c.seq_num \in SeqNum)
  BY <1>1 DEF NoYounger
<1>3. \A s \in SeqNum : Minus(s, o) \in Int
  BY MinusType DEF SeqNum
<1>4. g = IF req[m].val /\ (~c.val \/ IsOlder(o, req[m].seq_num, c.seq_num))
          THEN req[m] ELSE c
  BY DEF Link
<1>5. c.val => (IsOlder(o, req[m].seq_num, c.seq_num) <=> d(req[m]) < d(c))
  BY <1>1, <1>2, IsOlderIsPrecedes DEF Precedes
<1>6. \A i \in 0 .. m : d(req[i]) \in Int
  BY <1>1, <1>3
<1>7. c.val => d(c) \in Int
  BY <1>2, <1>3
<1>8. /\ c.val => \E i \in 0 .. m - 1 : req[i] = c
      /\ \A i \in 0 .. m - 1 : req[i].val => c.val /\ d(c) <= d(req[i])
  BY DEF NoYounger
<1> HIDE DEF c, g, d
<1>9. /\ m \in 0 .. m
      /\ \A i \in 0 .. m - 1 : i \in 0 .. m
      /\ \A i \in 0 .. m : i = m \/ i \in 0 .. m - 1
  OBVIOUS
<1>10. g.val \in BOOLEAN /\ (g.val => \E i \in 0 .. m : req[i] = g)
  BY <1>1, <1>2, <1>4, <1>8, <1>9, Zenon
<1>11. ASSUME NEW i \in 0 .. m, req[i].val PROVE g.val /\ d(g) <= d(req[i])
  <2>1. CASE g = req[m] /\ req[m].val /\ (c.val => d(req[m]) < d(c))
    BY <1>6, <1>7, <1>8, <1>9, <1>11, <2>1
  <2>2. CASE g = c /\ (req[m].val => c.val /\ ~(d(req[m]) < d(c)))
    BY <1>6, <1>7, <1>8, <1>9, <1>11, <2>2
  <2>. QED  BY <1>4, <1>5, <2>1, <2>2
<1>. QED  BY <1>10, <1>11 DEF NoYounger, g, d

\* The end of the chain of a squash unit is the oldest notification, for every
\* number of wires.
THEOREM ChainEndIsOldest ==
  ASSUME NEW o \in SeqNum, NEW n \in Nat \ {0}, NEW req, Requests(req, n)
  PROVE  IsOldest(o, req, n, SquashUnitL1Chain(o, req, n))
<1> DEFINE chain == Chain(o, req, n)
           Good(k) == NoYounger(o, req, k + 1, chain[k])
           S == {k \in 0 .. n - 1 : ~Good(k)}
<1>1. \A k \in 0 .. n - 1 : chain[k] = Link(o, req, chain, k)
  BY ChainLinks
<1> HIDE DEF chain
<1>2. Good(0)
  <2>1. chain[0] = req[0] /\ req[0].val \in BOOLEAN /\ req[0].seq_num \in SeqNum
    BY <1>1 DEF Link, Requests
  <2>2. Minus(req[0].seq_num, o) \in Int
    BY <2>1, MinusType DEF SeqNum
  <2>. QED  BY <2>1, <2>2 DEF NoYounger
<1>3. S = {}
  <2>1. SUFFICES ASSUME S # {} PROVE FALSE
    OBVIOUS
  <2>2. PICK k \in S : \A j \in S : k <= j
    <3>1. S \subseteq Nat
      OBVIOUS
    <3> HIDE DEF S
    <3>. QED  BY <2>1, <3>1, LeastNat
  <2>3. k \in 1 .. n - 1 /\ k - 1 \in 0 .. n - 1 /\ k - 1 \notin S
    <3> HIDE DEF Good
    <3>. QED  BY <1>2, <2>2
  <2>4. NoYounger(o, req, k, chain[k - 1])
    <3>1. Good(k - 1)
      <4> HIDE DEF Good
      <4>. QED  BY <2>3
    <3>2. (k - 1) + 1 = k
      BY <2>3
    <3>. QED  BY <3>1, <3>2, Zenon
  <2>5. Good(k)
    BY <1>1, <2>3, <2>4, LinkStep
  <2>. QED  BY <2>2, <2>5
<1>4. NoYounger(o, req, n, chain[n - 1])
  <2>1. n - 1 \in 0 .. n - 1 /\ (n - 1) + 1 = n
    OBVIOUS
  <2>2. Good(n - 1)
    <3> HIDE DEF Good
    <3>. QED  BY <1>3, <2>1
  <2>. QED  BY <2>1, <2>2, Zenon
<1>. QED  BY <1>4, NoYoungerIsOldest DEF SquashUnitL1Chain, chain
=============================================================================
