--------------------------- MODULE MCUnits_proofs ---------------------------
(***************************************************************************)
(* The parts that are run one at a time, for every size of them: whatever  *)
(* requests come and go, on any number of wires, the arbiters choose the   *)
(* oldest; and on words of any width the multiplier and divider computes   *)
(* what the functional model does; the screen, of any size, shows what     *)
(* a terminal does; the queues of the pipes and of the memory's requests,  *)
(* of any depth, lose, repeat and reorder nothing; and the writeback unit, *)
(* with any number of pipes, commits in program order.                     *)
(***************************************************************************)
EXTENDS MCUnits, WritebackCommit, SeqArb_proofs, SequenceTheorems

unitVars == <<unit, fifoVars, arbiterVars, asmVars, mdrVars, screenVars>>

-----------------------------------------------------------------------------
(* The arbiters.                                                           *)

Request == [val : BOOLEAN, seq_num : SeqNum]

\* What keeps the arbiters' contract applicable: no two valid requests carry
\* the same number.
ArbiterInv ==
  /\ n \in Nat \ {0}
  /\ oldest \in SeqNum
  /\ req \in [Wires -> Request]
  /\ \A i, j \in Valid : req[i].seq_num = req[j].seq_num => i = j

\* Every step keeps the numbers of the requests apart.
LEMMA ArbiterStep ==
  ASSUME ArbiterInv, [UnitNext]_<<unit, fifoVars, arbiterVars, asmVars, mdrVars, screenVars>>
  PROVE  ArbiterInv'
<1>1. CASE UNCHANGED arbiterVars
  BY <1>1 DEF ArbiterInv, arbiterVars, Wires, Valid
<1>2. CASE \E i \in Wires, s \in SeqNum : Raise(i, s)
  <2>1. PICK i \in Wires, s \in SeqNum : Raise(i, s)
    BY <1>2
  <2>2. n' = n /\ oldest' = oldest
    BY <2>1 DEF Raise
  <2>3. req' \in [Wires -> Request]
    BY <2>1 DEF ArbiterInv, Raise, Request
  <2>4. \A j \in Wires : req'[j] = IF j = i THEN [val |-> TRUE, seq_num |-> s] ELSE req[j]
    BY <2>1 DEF ArbiterInv, Raise
  <2>5. \A j \in Wires : req'[j].val /\ j # i => req[j].val /\ req[j].seq_num # s
    BY <2>1, <2>4 DEF Raise, Valid
  <2>6. req'[i].seq_num = s
    BY <2>4
  <2>7. \A j, k \in Wires :
          req'[j].val /\ req'[k].val /\ req'[j].seq_num = req'[k].seq_num => j = k
    BY <2>4, <2>5, <2>6 DEF ArbiterInv, Valid
  <2>. QED  BY <2>2, <2>3, <2>7 DEF ArbiterInv, Wires, Valid
<1>3. CASE \E i \in Wires : Withdraw(i)
  <2>1. PICK i \in Wires : Withdraw(i)
    BY <1>3
  <2>2. n' = n /\ oldest' = oldest
    BY <2>1 DEF Withdraw
  <2>3. req' \in [Wires -> Request]
    BY <2>1, NSeqAssumption DEF ArbiterInv, Withdraw, Request, Idle, SeqNum
  <2>4. \A j \in Wires : req'[j] = IF j = i THEN Idle ELSE req[j]
    BY <2>1 DEF ArbiterInv, Withdraw
  <2>5. \A j \in Wires : req'[j].val => j # i /\ req'[j] = req[j]
    BY <2>4 DEF Idle
  <2>6. \A j, k \in Wires :
          req'[j].val /\ req'[k].val /\ req'[j].seq_num = req'[k].seq_num => j = k
    BY <2>5 DEF ArbiterInv, Valid
  <2>. QED  BY <2>2, <2>3, <2>6 DEF ArbiterInv, Wires, Valid
<1>4. CASE Move
  <2>1. Plus(oldest, 1) \in SeqNum
    BY NSeqAssumption DEF ArbiterInv, Plus, SeqNum
  <2>. QED  BY <1>4, <2>1 DEF Move, ArbiterInv, Wires, Valid
<1>5. \/ UNCHANGED arbiterVars
      \/ \E i \in Wires, s \in SeqNum : Raise(i, s)
      \/ \E i \in Wires : Withdraw(i)
      \/ Move
  BY Zenon DEF UnitNext
<1>. QED  BY <1>1, <1>2, <1>3, <1>4, <1>5

\* The arbiters and the squash units choose the oldest request, for every
\* number of wires, every number of sequence numbers and every history of
\* requests and commits.
THEOREM ArbitersChooseOldest == UnitSpec => []OldestWins
<1> DEFINE allVars == <<unit, fifoVars, arbiterVars, asmVars, mdrVars, screenVars>>
<1>1. UnitInit => ArbiterInv
  <2> SUFFICES ASSUME UnitInit PROVE ArbiterInv
    OBVIOUS
  <2>1. n \in Nat \ {0} /\ oldest \in SeqNum
    BY NSeqAssumption, MaxRequestsAssumption DEF UnitInit, SeqNum
  <2>2. req = [i \in Wires |-> Idle] /\ Idle \in Request /\ ~Idle.val
    BY NSeqAssumption DEF UnitInit, Idle, Request, SeqNum
  <2>. QED  BY <2>1, <2>2 DEF ArbiterInv, Valid
<1>2. ArbiterInv /\ [UnitNext]_allVars => ArbiterInv'
  BY ArbiterStep
<1>3. ArbiterInv => OldestWins
  <2> SUFFICES ASSUME ArbiterInv PROVE OldestWins
    OBVIOUS
  <2>1. n \in Nat \ {0} /\ oldest \in SeqNum
    BY DEF ArbiterInv
  <2>2. Requests(req, n)
    BY DEF ArbiterInv, Requests, Request, Wires, Valid
  <2>. QED
    BY <2>1, <2>2, TreeRootIsOldest, ChainEndIsOldest, GrantIsOldest DEF OldestWins
<1>. QED  BY <1>1, <1>2, <1>3, PTL DEF UnitSpec

-----------------------------------------------------------------------------
(* Numbers: division with remainder, and arithmetic modulo a number.       *)

\* Zero is the only multiple of m between -m and m.
LEMMA Between ==
  ASSUME NEW j \in Int, NEW m \in Nat \ {0}, -m < m * j, m * j < m
  PROVE  j = 0
<1>1. j >= 1 => m * j >= m
  OBVIOUS
<1>2. j <= -1 => m * j <= -m
  OBVIOUS
<1>. QED  BY <1>1, <1>2

\* What division and remainder are to each other.
LEMMA DivMod ==
  ASSUME NEW x \in Int, NEW m \in Nat \ {0}
  PROVE  x % m \in 0 .. m - 1 /\ x \div m \in Int /\ x = m * (x \div m) + (x % m)
OBVIOUS

\* ... and that there is one way only to divide with a remainder.
LEMMA DivModUnique ==
  ASSUME NEW q \in Int, NEW m \in Nat \ {0}, NEW r \in 0 .. m - 1
  PROVE  (m * q + r) \div m = q /\ (m * q + r) % m = r
<1> DEFINE x == m * q + r
           p == x \div m
           s == x % m
<1>1. x \in Int
  OBVIOUS
<1>2. s \in 0 .. m - 1 /\ p \in Int /\ x = m * p + s
  BY <1>1, DivMod
<1> HIDE DEF p, s
<1>3. m * (q - p) = s - r
  BY <1>2
<1>4. q - p = 0
  BY <1>2, <1>3, Between
<1>. QED  BY <1>2, <1>4 DEF p, s

\* Adding a multiple of m changes nothing modulo m.
LEMMA ModSame ==
  ASSUME NEW x \in Int, NEW k \in Int, NEW m \in Nat \ {0}
  PROVE  (x + m * k) % m = x % m
<1> DEFINE p == x \div m
           r == x % m
<1>1. r \in 0 .. m - 1 /\ p \in Int /\ x = m * p + r
  BY DivMod
<1> HIDE DEF p, r
<1>2. x + m * k = m * (p + k) + r
  BY <1>1
<1>3. p + k \in Int
  BY <1>1
<1>4. (m * (p + k) + r) % m = r
  BY <1>1, <1>3, DivModUnique, Zenon
<1>. QED  BY <1>2, <1>4, Zenon DEF r

\* A number below m is its own remainder.
LEMMA ModSmall ==
  ASSUME NEW m \in Nat \ {0}, NEW r \in 0 .. m - 1
  PROVE  r % m = r
<1>1. m * 0 + r = r
  OBVIOUS
<1>2. 0 \in Int /\ m \in Nat \ {0}
  OBVIOUS
<1>. QED  BY <1>1, <1>2, DivModUnique, Zenon

\* Numbers may be reduced before they are added or negated,
LEMMA ModAdd ==
  ASSUME NEW x \in Int, NEW y \in Int, NEW m \in Nat \ {0}
  PROVE  /\ ((x % m) + y) % m = (x + y) % m
         /\ (m - (x % m)) % m = (-x) % m
<1> DEFINE p == x \div m
           r == x % m
<1>1. r \in 0 .. m - 1 /\ p \in Int /\ x = m * p + r
  BY DivMod
<1> HIDE DEF p, r
<1>2. r + y = (x + y) + m * (-p) /\ m - r = -x + m * (p + 1)
  BY <1>1
<1>3. (r + y) % m = (x + y) % m
  <2>1. x + y \in Int /\ -p \in Int
    BY <1>1
  <2>2. ((x + y) + m * (-p)) % m = (x + y) % m
    BY <2>1, ModSame, Zenon
  <2>. QED  BY <1>2, <2>2, Zenon
<1>4. (m - r) % m = (-x) % m
  <2>1. -x \in Int /\ p + 1 \in Int
    BY <1>1
  <2>2. (-x + m * (p + 1)) % m = (-x) % m
    BY <2>1, ModSame, Zenon
  <2>. QED  BY <1>2, <2>2, Zenon
<1>. QED  BY <1>3, <1>4 DEF r

\* and before they are multiplied.
LEMMA ModMul ==
  ASSUME NEW x \in Int, NEW y \in Int, NEW m \in Nat \ {0}
  PROVE  ((x % m) * y) % m = (x * y) % m
<1> DEFINE p == x \div m
           r == x % m
<1>1. r \in 0 .. m - 1 /\ p \in Int /\ x = m * p + r
  BY DivMod
<1> HIDE DEF p, r
<1>2. r * y = x * y + m * (-(p * y))
  BY <1>1
<1>3. (r * y) % m = (x * y) % m
  <2>1. x * y \in Int /\ -(p * y) \in Int
    BY <1>1
  <2>2. (x * y + m * (-(p * y))) % m = (x * y) % m
    BY <2>1, ModSame, Zenon
  <2>. QED  BY <1>2, <2>2, Zenon
<1>. QED  BY <1>3 DEF r

\* The lower and the upper half of a number of two digits to the base m.
LEMMA ModHalves ==
  ASSUME NEW x \in Int, NEW m \in Nat \ {0}
  PROVE  /\ (x % (m * m)) % m = x % m
         /\ (x % (m * m)) \div m = (x \div m) % m
<1> DEFINE p == x \div m
           r == x % m
           h == p \div m
           l == p % m
<1>1. r \in 0 .. m - 1 /\ p \in Int /\ x = m * p + r
  BY DivMod
<1> HIDE DEF p, r
<1>2. l \in 0 .. m - 1 /\ h \in Int /\ p = m * h + l
  BY <1>1, DivMod
<1> HIDE DEF h, l
<1>3. m * m \in Nat \ {0} /\ m * l + r \in 0 .. m * m - 1
  <2>1. m * l <= m * (m - 1) /\ m * l >= 0
    BY <1>2
  <2>. QED  BY <1>1, <1>2, <2>1
<1>4. x = (m * m) * h + (m * l + r)
  BY <1>1, <1>2
<1>5. x % (m * m) = m * l + r
  BY <1>2, <1>3, <1>4, DivModUnique
<1>6. (m * l + r) % m = r /\ (m * l + r) \div m = l
  BY <1>1, <1>2, DivModUnique
<1>. QED  BY <1>5, <1>6 DEF l, r, p

\* Powers of two are positive, and add their exponents when multiplied.
LEMMA Powers ==
  ASSUME NEW j \in Nat, NEW k \in Nat
  PROVE  2 ^ k \in Nat \ {0} /\ 2 ^ (j + k) = 2 ^ j * 2 ^ k
<1> DEFINE Good(i) == 2 ^ i \in Nat \ {0} /\ 2 ^ (j + i) = 2 ^ j * 2 ^ i
           T == {i \in Nat : ~Good(i)}
<1>1. T = {}
  <2> SUFFICES ASSUME T # {} PROVE FALSE
    OBVIOUS
  <2>1. PICK i \in T : \A h \in T : i <= h
    <3>1. T \subseteq Nat
      OBVIOUS
    <3> HIDE DEF T
    <3>. QED  BY <3>1, LeastNat
  <2>2. i # 0
    <3>1. 2 ^ 0 = 1 /\ j + 0 = j /\ 2 ^ j \in Nat
      BY PowerStep
    <3>2. 2 ^ j = 2 ^ j * 1
      BY <3>1
    <3>3. Good(0)
      BY <3>1, <3>2
    <3>. QED  BY <2>1, <3>3
  <2>3. i - 1 \in Nat /\ (i - 1) + 1 = i /\ (j + (i - 1)) + 1 = j + i /\ j + (i - 1) \in Nat
    BY <2>1, <2>2
  <2>4. Good(i - 1)
    BY <2>1, <2>3
  <2>5. /\ 2 ^ i = 2 * 2 ^ (i - 1) /\ 2 ^ (j + i) = 2 * 2 ^ (j + (i - 1))
        /\ 2 ^ j \in Nat /\ 2 ^ (i - 1) \in Nat \ {0}
        /\ 2 ^ (j + (i - 1)) = 2 ^ j * 2 ^ (i - 1)
    BY <2>3, <2>4, PowerStep, Zenon
  <2> DEFINE a == 2 ^ j  b == 2 ^ (i - 1)
  <2>6. a \in Nat /\ b \in Nat \ {0}
    BY <2>5
  <2> HIDE DEF a, b
  <2>7. 2 * b \in Nat \ {0} /\ 2 * (a * b) = a * (2 * b)
    BY <2>6
  <2>8. Good(i)
    BY <2>5, <2>7 DEF a, b
  <2>. QED  BY <2>1, <2>8
<1>. QED  BY <1>1

Half == MDR!N \div 2

\* How the ranges of words and longs are related.
LEMMA Sizes ==
  /\ MDR!N \in Nat \ {0} /\ Half \in Nat \ {0} /\ MDR!N = 2 * Half
  /\ MDR!M \in Nat \ {0} /\ MDR!M = MDR!N * MDR!N /\ MDR!M \div 2 = MDR!N * Half
<1>1. Width - 1 \in Nat /\ (Width - 1) + 1 = Width /\ 2 * Width = Width + Width /\ Width \in Nat
  BY WidthAssumption
<1> DEFINE h == 2 ^ (Width - 1)
<1>2. h \in Nat \ {0} /\ MDR!N = 2 * h
  BY <1>1, Powers, PowerStep, Zenon DEF MDR!N
<1>3. MDR!M = MDR!N * MDR!N
  BY <1>1, Powers, Zenon DEF MDR!N, MDR!M
<1> HIDE DEF h
<1>4. Half = h
  BY <1>2 DEF Half
<1>5. MDR!M = 2 * (MDR!N * h) /\ MDR!N * h \in Nat /\ MDR!M \in Nat \ {0}
  BY <1>2, <1>3
<1>6. (2 * (MDR!N * h)) \div 2 = MDR!N * h
  BY <1>5
<1>. QED  BY <1>2, <1>3, <1>4, <1>5, <1>6

\* A number as a long.
Of(i) == i % MDR!M

\* Arithmetic on longs is that of the numbers.
LEMMA LongArith ==
  ASSUME NEW i \in Int, NEW j \in Int
  PROVE  /\ Of(i) \in MDR!Long
         /\ MDR!Neg(Of(i)) = Of(-i)
         /\ (Of(i) + j) % MDR!M = Of(i + j)
         /\ (Of(i) + Of(j)) % MDR!M = Of(i + j)
         /\ (Of(i) * j) % MDR!M = Of(i * j)
         /\ Of(i) % MDR!N = i % MDR!N
<1> DEFINE m == MDR!M
<1>1. m \in Nat \ {0} /\ MDR!N \in Nat \ {0} /\ m = MDR!N * MDR!N
  BY Sizes
<1> HIDE DEF m
<1>2. Of(i) \in 0 .. m - 1 /\ Of(j) \in 0 .. m - 1
  BY <1>1, DivMod DEF Of, m
<1>3. (m - (i % m)) % m = (-i) % m /\ ((i % m) + j) % m = (i + j) % m
  BY <1>1, ModAdd, Zenon
<1>4. ((i % m) + (j % m)) % m = (i + j) % m
  <2>1. ((i % m) + (j % m)) % m = (i + (j % m)) % m
    <3>1. j % m \in Int
      BY <1>2 DEF Of, m
    <3>. QED  BY <1>1, <3>1, ModAdd, Zenon
  <2>2. ((j % m) + i) % m = (j + i) % m
    BY <1>1, ModAdd, Zenon
  <2>3. i + (j % m) = (j % m) + i /\ i + j = j + i
    BY <1>2 DEF Of, m
  <2>. QED  BY <2>1, <2>2, <2>3, Zenon
<1>5. ((i % m) * j) % m = (i * j) % m
  BY <1>1, ModMul, Zenon
<1>6. (i % m) % MDR!N = i % MDR!N
  BY <1>1, ModHalves, Zenon
<1>. QED  BY <1>2, <1>3, <1>4, <1>5, <1>6, Zenon DEF Of, m, MDR!Neg, MDR!Long

\* The sign of a long, and its size.
LEMMA LongSign ==
  ASSUME NEW i \in Int, -(MDR!N * Half) <= i, i < MDR!N * Half
  PROVE  /\ MDR!NegLong(Of(i)) <=> i < 0
         /\ i >= 0 => Of(i) = i
         /\ i < 0 => Of(i) = MDR!M + i
<1> DEFINE m == MDR!M
           h == MDR!N * Half
<1>1. m \in Nat \ {0} /\ h \in Nat /\ m = 2 * h /\ m \div 2 = h
  BY Sizes
<1> HIDE DEF m, h
<1>2. i >= 0 => i % m = i
  <2>1. i >= 0 => i \in 0 .. m - 1
    BY <1>1 DEF h
  <2>. QED  BY <1>1, <2>1, ModSmall
<1>3. i < 0 => i % m = m + i
  <2> SUFFICES ASSUME i < 0 PROVE i % m = m + i
    OBVIOUS
  <2>1. m + i \in 0 .. m - 1 /\ m + i \in Int /\ -1 \in Int /\ (m + i) + m * (-1) = i
    BY <1>1 DEF h
  <2>2. (m + i) % m = m + i
    BY <1>1, <2>1, ModSmall, Zenon
  <2>3. ((m + i) + m * (-1)) % m = (m + i) % m
    BY <1>1, <2>1, ModSame, Zenon
  <2>. QED  BY <2>1, <2>2, <2>3, Zenon
<1>4. (i % m >= h) <=> i < 0
  BY <1>1, <1>2, <1>3 DEF h
<1>. QED  BY <1>1, <1>2, <1>3, <1>4, Zenon DEF Of, MDR!NegLong, m

\* A word as a signed number.
LEMMA WordSign ==
  ASSUME NEW w \in MDR!Word
  PROVE  /\ w \in 0 .. 2 * Half - 1
         /\ MDR!Signed(w) \in -Half .. Half - 1
         /\ MDR!NegWord(w) <=> MDR!Signed(w) < 0
         /\ MDR!Signed(w) = w \/ MDR!Signed(w) = w - MDR!N
         /\ MDR!SExt(w) = Of(MDR!Signed(w))
         /\ MDR!Signed(w) % MDR!N = w
<1>1. w \in 0 .. 2 * Half - 1 /\ MDR!N = 2 * Half /\ Half \in Nat \ {0}
      /\ (MDR!NegWord(w) <=> w >= Half)
  BY Sizes DEF MDR!Word, MDR!NegWord, Half
<1>2. MDR!Signed(w) = IF w >= Half THEN w - 2 * Half ELSE w
  BY <1>1 DEF MDR!Signed
<1>3. MDR!Signed(w) \in -Half .. Half - 1 /\ (MDR!NegWord(w) <=> MDR!Signed(w) < 0)
  BY <1>1, <1>2
<1>4. MDR!SExt(w) = Of(MDR!Signed(w))
  <2>1. Half <= MDR!N * Half
    BY <1>1
  <2>2. /\ MDR!Signed(w) >= 0 => Of(MDR!Signed(w)) = MDR!Signed(w)
        /\ MDR!Signed(w) < 0 => Of(MDR!Signed(w)) = MDR!M + MDR!Signed(w)
    <3>1. MDR!Signed(w) \in Int /\ -(MDR!N * Half) <= MDR!Signed(w) /\ MDR!Signed(w) < MDR!N * Half
      BY <1>1, <1>3, <2>1
    <3>. QED  BY <3>1, LongSign
  <2>3. MDR!SExt(w) = IF w >= Half THEN w + MDR!M - 2 * Half ELSE w
    BY <1>1 DEF MDR!SExt
  <2>. QED  BY <1>1, <1>2, <2>2, <2>3, Sizes
<1>5. MDR!Signed(w) % MDR!N = w
  <2>1. w % MDR!N = w
    BY <1>1, ModSmall
  <2>2. w \in Int /\ -1 \in Int /\ w + MDR!N * (-1) = w - 2 * Half
    BY <1>1
  <2>3. (w + MDR!N * (-1)) % MDR!N = w % MDR!N
    BY <2>2, Sizes, ModSame, Zenon
  <2>. QED  BY <1>2, <2>1, <2>2, <2>3
<1>. QED  BY <1>1, <1>2, <1>3, <1>4, <1>5

MdrType ==
  /\ curr_state \in {"IDLE", "SWAP_SIGN", "CALC", "RESTORE_SIGN", "DONE"}
  /\ uop \in MDR!Uops
  /\ opa \in MDR!Long /\ opb \in MDR!Long /\ result \in MDR!Long
  /\ b_shift \in Nat
  /\ need_to_sign_restore \in BOOLEAN
  /\ args \in MDR!Word \X MDR!Word

\* Half of a number and its last bit.
LEMMA LastBit ==
  ASSUME NEW x \in Nat
  PROVE  /\ x \div 2 \in Nat /\ x % 2 \in {0, 1}
         /\ x = 2 * (x \div 2) + (x % 2)
         /\ x \div 2 <= x
OBVIOUS

\* A step of a multiplication adds the last bit's part of the product and
\* shifts: what is there and what is to come stay the same together.
LEMMA MulStep ==
  ASSUME MdrType, uop \in MDR!MulOps
  PROVE  /\ MDR!next_a \in MDR!Long /\ MDR!next_b \in MDR!Long /\ MDR!next_result \in MDR!Long
         /\ Of(MDR!next_result + MDR!next_a * MDR!next_b) = Of(result + opa * opb)
         /\ MDR!calc_done <=> MDR!next_b = 0
<1> DEFINE b == opb \div 2
           e == opb % 2
           r == result + (IF e = 1 THEN opa ELSE 0)
<1>1. uop \notin MDR!SignedDiv /\ uop \notin {"DIV", "DIVU", "REM", "REMU"}
  BY DEF MDR!MulOps, MDR!SignedDiv
<1>2. ~MDR!zero /\ ~MDR!overflow
  BY <1>1 DEF MDR!zero, MDR!overflow
<1>3. /\ opa \in 0 .. MDR!M - 1 /\ opb \in 0 .. MDR!M - 1 /\ result \in 0 .. MDR!M - 1
      /\ MDR!M \in Nat \ {0}
  BY Sizes DEF MdrType, MDR!Long
<1>4. b \in Nat /\ e \in {0, 1} /\ opb = 2 * b + e /\ b <= opb
  BY <1>3, LastBit
<1>5. MDR!next_a = Of(2 * opa) /\ MDR!next_b = b
  BY <1>1, Zenon DEF MDR!next_a, MDR!next_b, Of
<1>6. MDR!next_result = Of(r)
  <2>1. MDR!next_result = IF e = 1 THEN (result + opa) % MDR!M ELSE result
    BY <1>1, <1>2, Zenon DEF MDR!next_result
  <2>2. result % MDR!M = result /\ result + 0 = result
    BY <1>3, ModSmall
  <2>. QED  BY <2>1, <2>2, Zenon DEF Of
<1> HIDE DEF b, e
<1>7. r \in Int /\ 2 * opa \in Int /\ b \in Int /\ r + (2 * opa) * b = result + opa * opb
  <2>1. CASE e = 1
    BY <1>3, <1>4, <2>1
  <2>2. CASE e = 0
    BY <1>3, <1>4, <2>2
  <2>. QED  BY <1>4, <2>1, <2>2
<1> HIDE DEF r
<1>8. Of(Of(r) + Of(2 * opa) * b) = Of(r + (2 * opa) * b)
  <2> DEFINE x == Of(2 * opa) * b
             y == (2 * opa) * b
  <2>1. x \in Int /\ y \in Int
    <3>1. Of(2 * opa) \in Int
      BY <1>3, <1>7, LongArith DEF MDR!Long
    <3>. QED  BY <1>7, <3>1
  <2>2. Of(x) = Of(y)
    BY <1>7, LongArith, Zenon DEF Of
  <2>3. (Of(r) + x) % MDR!M = Of(r + x)
    BY <1>7, <2>1, LongArith, Zenon
  <2>4. (Of(x) + r) % MDR!M = Of(x + r) /\ (Of(y) + r) % MDR!M = Of(y + r)
    BY <1>7, <2>1, LongArith, Zenon
  <2> HIDE DEF x, y
  <2>5. x + r = r + x /\ y + r = r + y
    BY <1>7, <2>1
  <2>6. Of(Of(r) + x) = Of(r + y)
    BY <2>2, <2>3, <2>4, <2>5, Zenon DEF Of
  <2>. QED  BY <2>6 DEF x, y
<1>9. MDR!calc_done <=> MDR!next_b = 0
  BY <1>1, <1>2, Zenon DEF MDR!calc_done
<1>10. Of(r) \in MDR!Long /\ Of(2 * opa) \in MDR!Long /\ b \in MDR!Long
  <2>1. b \in MDR!Long
    BY <1>3, <1>4 DEF MDR!Long
  <2>. QED  BY <1>7, <2>1, LongArith, Zenon
<1>. QED  BY <1>5, <1>6, <1>7, <1>8, <1>9, <1>10, Zenon

\* The upper word of a long product, and the lower one.
LEMMA Halves ==
  ASSUME NEW i \in Int
  PROVE  /\ Of(i) \div MDR!N = (i \div MDR!N) % MDR!N
         /\ Of(i) % MDR!N = i % MDR!N
BY Sizes, ModHalves, Zenon DEF Of

\* The word of a long that the instruction in the unit writes.
Taken(v) == IF uop \in {"MULH", "MULHU", "MULHSU"} THEN v \div MDR!N ELSE v % MDR!N

\* The word taken from the product of the extended operands is the one that
\* the instruction means.
LEMMA ProductMeans ==
  ASSUME NEW op \in MDR!MulOps, NEW x \in MDR!Word, NEW y \in MDR!Word,
         uop = op, NEW v, v = Of(MDR!init_opa(op, x) * MDR!init_opb(op, y))
  PROVE  Taken(v) = MDR!Meaning(op, x, y)
<1> DEFINE s == MDR!Signed(x)
           t == MDR!Signed(y)
<1>1. x \in Int /\ y \in Int /\ s \in Int /\ t \in Int
  BY WordSign
<1>2. MDR!SExt(x) = Of(s) /\ MDR!SExt(y) = Of(t)
  BY WordSign
<1>3. op \in {"MUL", "MULH", "MULHU", "MULHSU"}
  BY DEF MDR!MulOps
<1> HIDE DEF s, t
<1>4. /\ x * y \in Int /\ s * t \in Int /\ s * y \in Int
      /\ Of(s) \in Int /\ Of(t) \in Int
  <2>1. x * y \in Int /\ s * t \in Int /\ s * y \in Int
    BY <1>1
  <2>2. Of(s) \in MDR!Long /\ Of(t) \in MDR!Long
    BY <1>1, LongArith, Zenon
  <2>3. MDR!Long \subseteq Int
    BY Sizes DEF MDR!Long
  <2>. QED  BY <2>1, <2>2, <2>3, Zenon
<1>5. CASE op = "MUL"
  <2>1. MDR!init_opa(op, x) = x /\ MDR!init_opb(op, y) = y
    BY <1>5 DEF MDR!init_opa, MDR!init_opb, MDR!MulOps
  <2>2. Taken(v) = v % MDR!N
    BY <1>5 DEF Taken
  <2>3. MDR!Meaning(op, x, y) = (x * y) % MDR!N
    BY <1>5 DEF MDR!Meaning
  <2>. QED  BY <1>4, <2>1, <2>2, <2>3, Halves, Zenon
<1>6. CASE op = "MULH"
  <2>1. MDR!init_opa(op, x) = Of(s) /\ MDR!init_opb(op, y) = Of(t)
    BY <1>2, <1>6 DEF MDR!init_opa, MDR!init_opb, MDR!MulOps
  <2>2. Taken(v) = v \div MDR!N
    BY <1>6 DEF Taken
  <2>3. MDR!Meaning(op, x, y) = ((s * t) \div MDR!N) % MDR!N
    BY <1>6 DEF MDR!Meaning, s, t
  <2>4. Of(Of(s) * Of(t)) = Of(s * t)
    <3>1. Of(Of(s) * Of(t)) = Of(s * Of(t))
      BY <1>1, <1>4, LongArith, Zenon DEF Of
    <3>2. Of(Of(t) * s) = Of(t * s)
      BY <1>1, LongArith, Zenon DEF Of
    <3>3. s * Of(t) = Of(t) * s /\ s * t = t * s
      BY <1>1, <1>4
    <3>. QED  BY <3>1, <3>2, <3>3, Zenon
  <2>. QED  BY <1>4, <2>1, <2>2, <2>3, <2>4, Halves, Zenon
<1>7. CASE op = "MULHU"
  <2>1. MDR!init_opa(op, x) = x /\ MDR!init_opb(op, y) = y
    BY <1>7 DEF MDR!init_opa, MDR!init_opb, MDR!MulOps
  <2>2. Taken(v) = v \div MDR!N
    BY <1>7 DEF Taken
  <2>3. MDR!Meaning(op, x, y) = (x * y) \div MDR!N
    BY <1>7 DEF MDR!Meaning
  <2>4. Of(x * y) = x * y
    <3> DEFINE m == MDR!N
    <3>1. m \in Nat \ {0} /\ x \in 0 .. m - 1 /\ y \in 0 .. m - 1 /\ MDR!M = m * m
      BY Sizes DEF MDR!Word
    <3> HIDE DEF m
    <3>2. x * y >= 0 /\ x * y <= (m - 1) * y /\ (m - 1) * y <= (m - 1) * (m - 1)
      BY <3>1
    <3>3. (m - 1) * (m - 1) < m * m /\ m * m \in Nat \ {0}
      BY <3>1
    <3>4. x * y \in 0 .. MDR!M - 1 /\ MDR!M \in Nat \ {0}
      BY <1>4, <3>1, <3>2, <3>3
    <3>. QED  BY <3>4, ModSmall, Zenon DEF Of
  <2>. QED  BY <2>1, <2>2, <2>3, <2>4, Zenon
<1>8. CASE op = "MULHSU"
  <2>1. MDR!init_opa(op, x) = Of(s) /\ MDR!init_opb(op, y) = y
    BY <1>2, <1>8 DEF MDR!init_opa, MDR!init_opb, MDR!MulOps
  <2>2. Taken(v) = v \div MDR!N
    BY <1>8 DEF Taken
  <2>3. MDR!Meaning(op, x, y) = ((s * y) \div MDR!N) % MDR!N
    BY <1>8 DEF MDR!Meaning, s
  <2>4. Of(Of(s) * y) = Of(s * y)
    BY <1>1, LongArith, Zenon DEF Of
  <2>. QED  BY <1>4, <2>1, <2>2, <2>3, <2>4, Halves, Zenon
<1>. QED  BY <1>3, <1>5, <1>6, <1>7, <1>8

\* The weights a quotient's digit can have.
Weights == {2 ^ k : k \in 0 .. Width}

\* A weight is halved to the next one, and the last one to zero.
LEMMA WeightHalves ==
  /\ MDR!N \in Weights
  /\ \A b \in Weights :
       /\ b \in Nat \ {0} /\ b <= MDR!N
       /\ b \div 2 \in Nat
       /\ b = 1 => b \div 2 = 0
       /\ b # 1 => b \div 2 \in Weights /\ b = 2 * (b \div 2)
<1>1. Width \in 0 .. Width
  BY WidthAssumption
<1>2. ASSUME NEW k \in 0 .. Width
      PROVE  LET b == 2 ^ k
             IN  /\ b \in Nat \ {0} /\ b <= MDR!N
                 /\ b \div 2 \in Nat
                 /\ b = 1 => b \div 2 = 0
                 /\ b # 1 => b \div 2 \in Weights /\ b = 2 * (b \div 2)
  <2> DEFINE b == 2 ^ k
             c == 2 ^ (Width - k)
  <2>1. k \in Nat /\ Width - k \in Nat /\ (Width - k) + k = Width
    BY WidthAssumption
  <2>2. b \in Nat \ {0} /\ c \in Nat \ {0} /\ MDR!N = c * b
    BY <2>1, Powers, Zenon DEF MDR!N
  <2>3. CASE k = 0
    <3>1. b = 1
      BY <2>1, <2>3, PowerStep
    <3> HIDE DEF b, c
    <3>2. b <= MDR!N /\ b \div 2 = 0
      BY <2>2, <3>1
    <3>. QED  BY <2>2, <3>1, <3>2 DEF b
  <2>4. CASE k # 0
    <3> DEFINE d == 2 ^ (k - 1)
    <3>1. k - 1 \in Nat /\ (k - 1) + 1 = k /\ k - 1 \in 0 .. Width
      BY <2>1, <2>4
    <3>2. d \in Nat \ {0} /\ b = 2 * d /\ d \in Weights
      BY <3>1, Powers, PowerStep, Zenon DEF Weights
    <3> HIDE DEF b, c, d
    <3>3. b \div 2 = d /\ b # 1
      BY <3>2
    <3>4. b <= c * b
      BY <2>2
    <3>. QED  BY <2>2, <3>2, <3>3, <3>4 DEF b
  <2>. QED  BY <2>3, <2>4
<1>. QED  BY <1>1, <1>2 DEF Weights, MDR!N

\* What is divided by what: as numbers, with the divisor made positive.
Swapped  == uop \in MDR!SignedDiv /\ MDR!NegWord(args[2])
Divisor  == IF Swapped THEN MDR!N - args[2] ELSE args[2]
Dividend ==
  IF uop \notin MDR!SignedDiv THEN args[1]
  ELSE IF Swapped THEN -MDR!Signed(args[1]) ELSE MDR!Signed(args[1])
Sgn      == IF Dividend < 0 THEN -1 ELSE 1
Size     == MDR!Abs(Dividend)

\* The operands of a division that goes its usual way.
Divides == uop \notin MDR!MulOps /\ args[2] # 0 /\ ~(uop \in MDR!SignedDiv /\ args[2] = Half)

\* The range of the operands: a dividend of a signed division is at most half
\* of a word in size, and its divisor, if it is not the most negative word, less.
LEMMA DivisionOperands ==
  ASSUME MdrType, uop \notin MDR!MulOps
  PROVE  /\ uop \in {"DIV", "DIVU", "REM", "REMU"}
         /\ Dividend \in Int /\ Sgn \in {-1, 1} /\ Size \in Nat /\ Dividend = Sgn * Size
         /\ Size < MDR!N
         /\ uop \in MDR!SignedDiv => Size <= Half
         /\ uop \notin MDR!SignedDiv => Sgn = 1
         /\ Divides => Divisor \in 1 .. MDR!N - 1
         /\ Divides /\ uop \in MDR!SignedDiv => Divisor < Half
<1>1. args[1] \in MDR!Word /\ args[2] \in MDR!Word
  BY DEF MdrType
<1>2. uop \in {"DIV", "DIVU", "REM", "REMU"}
  BY DEF MdrType, MDR!Uops, MDR!MulOps, MDR!SignedDiv
<1>3. /\ args[1] \in 0 .. 2 * Half - 1 /\ args[2] \in 0 .. 2 * Half - 1
      /\ MDR!Signed(args[1]) \in -Half .. Half - 1
      /\ Half \in Nat \ {0} /\ MDR!N = 2 * Half
      /\ (MDR!NegWord(args[2]) <=> args[2] >= Half)
  BY <1>1, WordSign, Sizes DEF MDR!NegWord, Half
<1>4. Dividend \in Int /\ (uop \in MDR!SignedDiv => Dividend \in -Half .. Half)
      /\ (uop \notin MDR!SignedDiv => Dividend \in 0 .. 2 * Half - 1)
  BY <1>3 DEF Dividend
<1>5. /\ Sgn \in {-1, 1} /\ Size \in Nat /\ Dividend = Sgn * Size
      /\ Size < MDR!N
      /\ uop \in MDR!SignedDiv => Size <= Half
      /\ uop \notin MDR!SignedDiv => Sgn = 1
  BY <1>3, <1>4 DEF Sgn, Size, MDR!Abs
<1>6. /\ Divides => Divisor \in 1 .. MDR!N - 1
      /\ Divides /\ uop \in MDR!SignedDiv => Divisor < Half
  BY <1>3 DEF Divisor, Divides, Swapped
<1>. QED  BY <1>2, <1>4, <1>5, <1>6

\* What a division has taken so far: q times the divisor, leaving r.
Left(q, r) ==
  /\ Size = q * Divisor + r
  /\ opa = Of(Sgn * r)
  /\ uop \in {"DIV", "DIVU"} => result = Of(Sgn * q)

\* While a quotient is calculated, its next digits are those of what is left.
Dividing ==
  /\ b_shift \in Weights
  /\ opb = Divisor * b_shift
  /\ \E q, r \in Nat : Left(q, r) /\ r < 2 * opb

\* The sign of what is left and its size.
LEMMA Remainder ==
  ASSUME MdrType, uop \notin MDR!MulOps, NEW r \in Nat, r <= Size
  PROVE  /\ MDR!NegLong(Of(Sgn * r)) <=> Sgn = -1 /\ r > 0
         /\ (IF MDR!NegLong(Of(Sgn * r)) THEN MDR!Neg(Of(Sgn * r)) ELSE Of(Sgn * r)) = r
         /\ Of(Sgn * r) = 0 => r = 0
         /\ Sgn = 1 => Of(Sgn * r) = r
<1> DEFINE h == MDR!N * Half
<1>1. /\ MDR!N \in Nat \ {0} /\ Half \in Nat \ {0} /\ MDR!N <= h /\ h \in Nat
      /\ MDR!M = 2 * h /\ Size < MDR!N /\ Size \in Nat /\ Sgn \in {-1, 1}
  <2>1. MDR!N <= h /\ h \in Nat /\ MDR!M = 2 * h
    BY Sizes
  <2>. QED  BY <2>1, Sizes, DivisionOperands
<1>2. -r \in Int /\ r \in Int /\ -h <= r /\ r < h /\ -h <= -r /\ -r < h
  BY <1>1
<1>3. ~MDR!NegLong(Of(r)) /\ Of(r) = r
  BY <1>2, LongSign
<1>4. CASE Sgn = 1
  <2>1. Sgn * r = r
    BY <1>4
  <2>. QED  BY <1>3, <1>4, <2>1
<1>5. CASE Sgn = -1
  <2>1. Sgn * r = -r
    BY <1>5
  <2>2. /\ MDR!NegLong(Of(-r)) <=> -r < 0
        /\ -r >= 0 => Of(-r) = -r
        /\ -r < 0 => Of(-r) = MDR!M + (-r)
    BY <1>2, LongSign
  <2>3. MDR!Neg(Of(-r)) = r
    <3>1. MDR!Neg(Of(-r)) = Of(-(-r))
      BY <1>2, LongArith, Zenon
    <3>2. -(-r) = r
      BY <1>2
    <3>. QED  BY <1>3, <3>1, <3>2, Zenon
  <2>4. (MDR!NegLong(Of(-r)) <=> r > 0) /\ (r = 0 => Of(-r) = r) /\ (Of(-r) = 0 => r = 0)
    BY <1>1, <2>2
  <2>. QED  BY <1>5, <2>1, <2>3, <2>4
<1>. QED  BY <1>1, <1>4, <1>5

\* What a step does with the divisor's next multiple: the divisor is taken from
\* what is left when it fits.
LEMMA TakeStep ==
  ASSUME MdrType, Divides, b_shift \in Weights, opb = Divisor * b_shift,
         NEW q \in Nat, NEW r \in Nat, Left(q, r)
  PROVE  LET takes == r >= opb
             p     == IF takes THEN q + b_shift ELSE q
             s     == IF takes THEN r - opb ELSE r
         IN  /\ MDR!takes <=> takes
             /\ p \in Nat /\ s \in Nat /\ s <= Size
             /\ Size = p * Divisor + s
             /\ MDR!next_a = Of(Sgn * s)
             /\ uop \in {"DIV", "DIVU"} /\ takes =>
                  (result + (IF uop = "DIV" THEN MDR!adj_b_shift ELSE b_shift)) % MDR!M = Of(Sgn * p)
<1> DEFINE takes == r >= opb
           p     == IF takes THEN q + b_shift ELSE q
           s     == IF takes THEN r - opb ELSE r
<1>1. uop \notin MDR!MulOps /\ uop \in {"DIV", "DIVU", "REM", "REMU"}
  BY DivisionOperands DEF Divides
<1>2. b_shift \in Nat \ {0} /\ b_shift <= MDR!N
  BY WeightHalves
<1>3. /\ Divisor \in Nat \ {0} /\ Size \in Nat /\ Sgn \in {-1, 1}
      /\ Size = q * Divisor + r /\ opa = Of(Sgn * r)
      /\ uop \notin MDR!SignedDiv => Sgn = 1
  BY <1>1, DivisionOperands, Sizes DEF Left
<1>4. opb \in Nat \ {0}
  BY <1>2, <1>3
<1>5. p \in Nat /\ s \in Nat /\ Size = p * Divisor + s /\ s <= Size /\ r <= Size
  <2>1. Size = p * Divisor + s
    <3>1. CASE takes
      <4>1. (q + b_shift) * Divisor + (r - Divisor * b_shift) = q * Divisor + r
        BY <1>2, <1>3
      <4>. QED  BY <1>3, <3>1, <4>1
    <3>2. CASE ~takes
      BY <1>3, <3>2
    <3>. QED  BY <3>1, <3>2
  <2>2. p \in Nat /\ s \in Nat
    BY <1>2, <1>4
  <2>3. p * Divisor \in Nat /\ q * Divisor \in Nat
    BY <1>3, <2>2
  <2> HIDE DEF p, s
  <2>. QED  BY <1>3, <2>1, <2>2, <2>3
<1>6. /\ MDR!NegLong(opa) <=> Sgn = -1 /\ r > 0
      /\ MDR!abs_a = r
      /\ Sgn = 1 => opa = r
  <2>1. /\ MDR!NegLong(Of(Sgn * r)) <=> Sgn = -1 /\ r > 0
        /\ (IF MDR!NegLong(Of(Sgn * r)) THEN MDR!Neg(Of(Sgn * r)) ELSE Of(Sgn * r)) = r
        /\ Sgn = 1 => Of(Sgn * r) = r
    BY <1>1, <1>5, Remainder, Zenon
  <2>. QED  BY <1>3, <2>1, Zenon DEF MDR!abs_a
<1>7. MDR!takes <=> takes
  BY <1>3, <1>6, Zenon DEF MDR!takes
<1>8. ~takes => MDR!next_a = Of(Sgn * s)
  BY <1>1, <1>3, <1>7, Zenon DEF MDR!next_a
<1>9. ASSUME takes
      PROVE  /\ MDR!next_a = Of(Sgn * s)
             /\ uop \in {"DIV", "DIVU"} =>
                  (result + (IF uop = "DIV" THEN MDR!adj_b_shift ELSE b_shift)) % MDR!M = Of(Sgn * p)
  <2>1. r > 0 /\ (MDR!NegLong(opa) <=> Sgn = -1)
    BY <1>4, <1>6, <1>9
  <2>2. opb \in Int /\ b_shift \in Int /\ Sgn * r \in Int /\ Sgn * q \in Int /\ Sgn * opb \in Int /\ Sgn * b_shift \in Int
        /\ -(Sgn * opb) \in Int
        /\ Sgn * r + -(Sgn * opb) = Sgn * (r - opb) /\ Sgn * q + Sgn * b_shift = Sgn * (q + b_shift)
    BY <1>2, <1>3, <1>4
  <2>3. Of(opb) = opb /\ Of(b_shift) = b_shift
    <3>1. opb \in 0 .. MDR!M - 1
      BY DEF MdrType, MDR!Long
    <3>2. b_shift \in 0 .. MDR!M - 1
      <4>1. MDR!N < MDR!M /\ MDR!M \in Nat
        <5> DEFINE h == Half
        <5>1. h \in Nat \ {0} /\ MDR!N = 2 * h /\ MDR!M = (2 * h) * (2 * h)
          BY Sizes
        <5> HIDE DEF h
        <5>2. (2 * h) * (2 * h) >= 2 * (2 * h)
          BY <5>1
        <5>. QED  BY <5>1, <5>2
      <4>. QED  BY <1>2, <4>1, Sizes
    <3>. QED  BY <3>1, <3>2, Sizes, ModSmall DEF Of
  <2>4. CASE uop \in MDR!SignedDiv
    <3>1. MDR!adj_b = Of(Sgn * opb) /\ MDR!adj_b_shift = Of(Sgn * b_shift)
      <4>1. CASE Sgn = 1
        <5>1. Sgn * opb = opb /\ Sgn * b_shift = b_shift
          BY <2>2, <4>1
        <5>. QED  BY <2>1, <2>3, <4>1, <5>1 DEF MDR!adj_b, MDR!adj_b_shift
      <4>2. CASE Sgn = -1
        <5>1. Sgn * opb = -opb /\ Sgn * b_shift = -b_shift
          BY <2>2, <4>2
        <5>2. MDR!Neg(Of(opb)) = Of(-opb) /\ MDR!Neg(Of(b_shift)) = Of(-b_shift)
          BY <2>2, LongArith, Zenon
        <5>. QED  BY <2>1, <2>3, <4>2, <5>1, <5>2, Zenon DEF MDR!adj_b, MDR!adj_b_shift
      <4>. QED  BY <1>3, <4>1, <4>2
    <3>2. MDR!next_a = (opa + MDR!Neg(MDR!adj_b)) % MDR!M
      BY <1>1, <1>7, <1>9, <2>4, Zenon DEF MDR!next_a
    <3>3. MDR!Neg(Of(Sgn * opb)) = Of(-(Sgn * opb))
          /\ (Of(Sgn * r) + Of(-(Sgn * opb))) % MDR!M = Of(Sgn * r + -(Sgn * opb))
          /\ (Of(Sgn * q) + Of(Sgn * b_shift)) % MDR!M = Of(Sgn * q + Sgn * b_shift)
      BY <2>2, LongArith, Zenon
    <3>4. MDR!next_a = Of(Sgn * s)
      BY <1>3, <1>9, <2>2, <3>1, <3>2, <3>3, Zenon
    <3>5. uop \in {"DIV", "DIVU"} => uop = "DIV" /\ result = Of(Sgn * q)
      BY <2>4 DEF Left, MDR!SignedDiv
    <3>. QED  BY <1>9, <2>2, <3>1, <3>3, <3>4, <3>5, Zenon
  <2>5. CASE uop \notin MDR!SignedDiv
    <3>1. Sgn = 1 /\ Sgn * opb = opb /\ Sgn * b_shift = b_shift
      BY <1>3, <2>2, <2>5
    <3>2. MDR!next_a = (opa + MDR!Neg(opb)) % MDR!M
      BY <1>1, <1>7, <1>9, <2>5, Zenon DEF MDR!next_a
    <3>3. MDR!Neg(Of(Sgn * opb)) = Of(-(Sgn * opb))
          /\ (Of(Sgn * r) + Of(-(Sgn * opb))) % MDR!M = Of(Sgn * r + -(Sgn * opb))
          /\ (Of(Sgn * q) + Sgn * b_shift) % MDR!M = Of(Sgn * q + Sgn * b_shift)
      BY <2>2, LongArith, Zenon
    <3>4. MDR!next_a = Of(Sgn * s)
      BY <1>3, <1>9, <2>2, <2>3, <3>1, <3>2, <3>3, Zenon
    <3>5. uop \in {"DIV", "DIVU"} => uop # "DIV" /\ result = Of(Sgn * q)
      BY <2>5 DEF Left, MDR!SignedDiv
    <3>. QED  BY <1>9, <2>2, <3>1, <3>3, <3>4, <3>5, Zenon
  <2>. QED  BY <2>4, <2>5
<1>. QED  BY <1>5, <1>7, <1>8, <1>9, Zenon

\* One step of a division, when the divisor is a number and its steps are the
\* usual ones: nothing is lost, and what is left is small enough for what is to
\* come, or for the end.
LEMMA DivStep ==
  ASSUME MdrType, Divides, Dividing
  PROVE  /\ MDR!next_a \in MDR!Long /\ MDR!next_b \in MDR!Long /\ MDR!next_result \in MDR!Long
         /\ \E q, r \in Nat :
              /\ Size = q * Divisor + r
              /\ MDR!next_a = Of(Sgn * r)
              /\ MDR!next_result = Of(Sgn * (IF uop \in {"DIV", "DIVU"} THEN q ELSE r))
              /\ r < opb
              /\ MDR!calc_done => r < Divisor
         /\ ~MDR!calc_done => /\ MDR!next_b_shift \in Weights
                              /\ MDR!next_b = Divisor * MDR!next_b_shift
                              /\ opb = 2 * MDR!next_b
<1>1. uop \notin MDR!MulOps /\ uop \in {"DIV", "DIVU", "REM", "REMU"}
  BY DivisionOperands DEF Divides
<1>2. /\ b_shift \in Nat \ {0} /\ b_shift <= MDR!N /\ b_shift \div 2 \in Nat
      /\ b_shift = 1 => b_shift \div 2 = 0
      /\ b_shift # 1 => b_shift \div 2 \in Weights /\ b_shift = 2 * (b_shift \div 2)
      /\ b_shift \div 2 # 0 => b_shift # 1
      /\ 0 \notin Weights
  BY WeightHalves DEF Dividing
<1>3. /\ Divisor \in 1 .. MDR!N - 1 /\ Size \in Nat /\ Sgn \in {-1, 1}
      /\ uop \in MDR!SignedDiv => Divisor < Half
      /\ MDR!N \in Nat \ {0} /\ Half \in Nat \ {0} /\ MDR!N = 2 * Half /\ MDR!M \div 2 = MDR!N * Half
  BY <1>1, DivisionOperands, Sizes
<1>4. opb = Divisor * b_shift /\ opb \in Nat \ {0} /\ opb \in MDR!Long
  BY <1>2, <1>3 DEF Dividing, MdrType
<1>5. uop \in MDR!SignedDiv => opb < Half * MDR!N /\ opb <= (Half - 1) * MDR!N
  <2> DEFINE n1 == MDR!N
             h == Half
             d == Divisor
  <2> SUFFICES ASSUME uop \in MDR!SignedDiv PROVE opb < h * n1 /\ opb <= (h - 1) * n1
    OBVIOUS
  <2>1. d \in Nat /\ d <= h - 1 /\ b_shift \in Nat /\ b_shift <= n1 /\ n1 \in Nat \ {0} /\ h \in Nat
        /\ opb = d * b_shift
    BY <1>2, <1>3, <1>4
  <2> HIDE DEF n1, h, d
  <2>2. d * b_shift <= d * n1 /\ d * n1 <= (h - 1) * n1 /\ (h - 1) * n1 < h * n1
    BY <2>1
  <2>. QED  BY <2>1, <2>2
<1>6. ~MDR!zero
  BY <1>4 DEF MDR!zero
<1>7. ~MDR!overflow
  <2> SUFFICES ASSUME uop \in MDR!SignedDiv PROVE opb \div MDR!N # MDR!N - 1
    BY DEF MDR!overflow
  <2> DEFINE n1 == MDR!N
             h == Half
             p == opb \div n1
             r == opb % n1
  <2>1. p \in Int /\ r \in 0 .. n1 - 1 /\ opb = n1 * p + r
    <3>1. opb \in Int
      BY <1>4
    <3>. QED  BY <1>3, <3>1, DivMod, Zenon
  <2>2. opb < h * n1 /\ n1 = 2 * h /\ h \in Nat \ {0}
    BY <1>3, <1>5
  <2> HIDE DEF n1, h, p, r
  <2>3. p < h
    <3> SUFFICES ASSUME p >= h PROVE FALSE
      BY <2>1, <2>2
    <3>1. n1 * p >= n1 * h
      BY <2>1, <2>2
    <3>. QED  BY <2>1, <2>2, <3>1
  <2>. QED  BY <2>2, <2>3 DEF p, n1
<1>8. MDR!next_b = opb \div 2
  <2>1. uop \in MDR!SignedDiv => ~MDR!NegLong(opb)
    <3> DEFINE g == MDR!N * Half
    <3>1. g \in Nat /\ Half * MDR!N = g /\ MDR!M \div 2 = g
      BY <1>3
    <3>. QED  BY <1>4, <1>5, <3>1 DEF MDR!NegLong
  <2>. QED  BY <2>1, Zenon DEF MDR!next_b
<1>9. MDR!next_b \in MDR!Long
  <2>1. opb \div 2 \in Nat /\ opb \div 2 <= opb
    BY <1>4, LastBit
  <2>. QED  BY <1>4, <1>8, <2>1, Sizes DEF MDR!Long
<1>10. MDR!next_b_shift = b_shift \div 2
  BY DEF MDR!next_b_shift
<1>11. MDR!calc_done <=> MDR!next_b_shift = 0 \/ MDR!next_a = 0
  BY <1>1, <1>6, <1>7, Zenon DEF MDR!calc_done
<1>12. PICK q \in Nat, r \in Nat : Left(q, r) /\ r < 2 * opb
  BY Zenon DEF Dividing
<1> DEFINE takes == r >= opb
           p     == IF takes THEN q + b_shift ELSE q
           s     == IF takes THEN r - opb ELSE r
<1>13. /\ MDR!takes <=> takes
       /\ p \in Nat /\ s \in Nat /\ s <= Size
       /\ Size = p * Divisor + s
       /\ MDR!next_a = Of(Sgn * s)
       /\ uop \in {"DIV", "DIVU"} /\ takes =>
            (result + (IF uop = "DIV" THEN MDR!adj_b_shift ELSE b_shift)) % MDR!M = Of(Sgn * p)
  BY <1>4, <1>12, TakeStep DEF Dividing
<1>14. MDR!next_result = Of(Sgn * (IF uop \in {"DIV", "DIVU"} THEN p ELSE s))
  <2>1. CASE uop \in {"DIV", "DIVU"}
    <3>1. ~takes => result = Of(Sgn * p)
      BY <1>12, <2>1 DEF Left
    <3>2. uop \notin {"REM", "REMU"}
      BY <2>1
    <3>. QED  BY <1>1, <1>6, <1>7, <1>13, <2>1, <3>1, <3>2, Zenon DEF MDR!next_result
  <2>2. CASE uop \in {"REM", "REMU"}
    <3>1. uop \notin {"DIV", "DIVU"}
      BY <2>2
    <3>. QED  BY <1>1, <1>6, <1>7, <1>13, <2>2, <3>1, Zenon DEF MDR!next_result
  <2>. QED  BY <1>1, <2>1, <2>2
<1>15. s < opb
  BY <1>4, <1>12
<1>16. MDR!next_a \in MDR!Long /\ MDR!next_result \in MDR!Long
  <2>1. Sgn * s \in Int /\ Sgn * p \in Int
    BY <1>3, <1>13
  <2>2. Of(Sgn * s) \in MDR!Long /\ Of(Sgn * p) \in MDR!Long
    BY <2>1, LongArith, Zenon
  <2>. QED  BY <1>13, <1>14, <2>2, Zenon
<1>17. MDR!calc_done => s < Divisor
  <2>1. CASE MDR!next_b_shift = 0
    <3>1. b_shift = 1
      BY <1>2, <1>10, <2>1
    <3>2. opb = Divisor
      BY <1>3, <1>4, <3>1
    <3>. QED  BY <1>15, <3>2
  <2>2. CASE MDR!next_a = 0
    <3>1. s = 0
      BY <1>1, <1>13, <2>2, Remainder, Zenon
    <3>. QED  BY <1>3, <3>1
  <2>. QED  BY <1>11, <2>1, <2>2
<1>18. ~MDR!calc_done => /\ MDR!next_b_shift \in Weights
                         /\ MDR!next_b = Divisor * MDR!next_b_shift
                         /\ opb = 2 * MDR!next_b
  <2> SUFFICES ASSUME ~MDR!calc_done
               PROVE  /\ MDR!next_b_shift \in Weights
                      /\ MDR!next_b = Divisor * MDR!next_b_shift
                      /\ opb = 2 * MDR!next_b
    OBVIOUS
  <2> DEFINE c == b_shift \div 2
             d == Divisor
  <2>1. b_shift # 1 /\ c \in Weights /\ b_shift = 2 * c /\ c \in Nat
    BY <1>2, <1>10, <1>11
  <2>2. d \in Nat
    BY <1>3
  <2> HIDE DEF c, d
  <2>3. d * (2 * c) = 2 * (d * c) /\ d * c \in Nat
    BY <2>1, <2>2
  <2>4. opb = 2 * (d * c)
    BY <1>4, <2>1, <2>3 DEF d
  <2>5. opb \div 2 = d * c
    BY <2>3, <2>4
  <2>. QED  BY <1>8, <1>10, <2>1, <2>4, <2>5 DEF c, d
<1> HIDE DEF p, s
<1>. QED  BY <1>9, <1>13, <1>14, <1>15, <1>16, <1>17, <1>18, Zenon

\* A signed division by the most negative word: the divisor never fits, and only
\* the most negative word itself stops the steps early.
ByLowest == uop \in MDR!SignedDiv /\ args[2] = Half

Lowering ==
  /\ b_shift \in Weights
  /\ opb = MDR!M - Half * b_shift
  /\ opa = Of(Dividend)
  /\ uop = "DIV" => result = 0
  /\ args[1] = Half => b_shift # 1

\* A step of that division: nothing is ever taken, and the step that ends it
\* leaves no quotient and the dividend as remainder.
LEMMA LowestStep ==
  ASSUME MdrType, ByLowest, Lowering
  PROVE  /\ MDR!next_a \in MDR!Long /\ MDR!next_b \in MDR!Long /\ MDR!next_result \in MDR!Long
         /\ ~MDR!calc_done =>
              /\ MDR!next_b_shift \in Weights
              /\ MDR!next_b = MDR!M - Half * MDR!next_b_shift
              /\ MDR!next_a = Of(Dividend)
              /\ uop = "DIV" => MDR!next_result = 0
              /\ args[1] = Half => MDR!next_b_shift # 1
         /\ MDR!calc_done /\ args[1] = Half /\ uop = "REM" => MDR!next_result = 0
         /\ MDR!calc_done /\ args[1] # Half =>
              MDR!next_result = IF uop = "DIV" THEN 0 ELSE Of(Dividend)
<1> DEFINE n1 == MDR!N
           h  == Half
           m  == MDR!M
           d  == Dividend
           b  == b_shift
           c  == b_shift \div 2
           g  == n1 * h
<1>1. uop \in {"DIV", "REM"} /\ uop \notin MDR!MulOps /\ uop \in MDR!SignedDiv
  BY DEF ByLowest, MDR!SignedDiv, MDR!MulOps
<1>2. /\ n1 \in Nat \ {0} /\ h \in Nat \ {0} /\ n1 = 2 * h /\ m = 2 * g /\ m \div 2 = g /\ g \in Nat \ {0}
      /\ m = n1 * n1
  <2>1. n1 \in Nat \ {0} /\ h \in Nat \ {0} /\ n1 = 2 * h /\ m = n1 * n1 /\ m \div 2 = g
    BY Sizes
  <2> HIDE DEF n1, h, m
  <2>2. n1 * n1 = 2 * (n1 * h) /\ n1 * h \in Nat \ {0}
    BY <2>1
  <2>. QED  BY <2>1, <2>2
<1>3. /\ b \in Nat \ {0} /\ b <= n1 /\ c \in Nat
      /\ b = 1 => c = 0
      /\ b # 1 => c \in Weights /\ b = 2 * c
  BY WeightHalves DEF Lowering
<1>4. /\ d \in Int /\ Size \in Nat /\ Size <= h /\ Sgn \in {-1, 1} /\ d = Sgn * Size
  BY <1>1, DivisionOperands
<1>5. /\ args[1] \in 0 .. 2 * h - 1 /\ d = -MDR!Signed(args[1])
      /\ args[1] = h => d = h
      /\ args[1] # h => d \in -h + 1 .. h - 1
  <2>1. args[1] \in MDR!Word /\ args[2] = h
    BY DEF MdrType, ByLowest
  <2>2. args[1] \in 0 .. 2 * h - 1 /\ MDR!Signed(args[1]) = IF args[1] >= h THEN args[1] - 2 * h ELSE args[1]
    BY <1>2, <2>1, WordSign DEF MDR!Signed, MDR!NegWord, Half
  <2>3. Swapped
    BY <1>1, <1>2, <2>1 DEF Swapped, MDR!NegWord, Half
  <2>4. d = -MDR!Signed(args[1])
    BY <1>1, <2>3, Zenon DEF Dividend
  <2>. QED  BY <1>2, <2>2, <2>4
<1>6. opb = m - h * b /\ opa = Of(d) /\ (uop = "DIV" => result = 0) /\ (args[1] = h => b # 1)
  BY DEF Lowering
<1>7. opa \in 0 .. m - 1 /\ opb \in 0 .. m - 1 /\ result \in 0 .. m - 1
  BY DEF MdrType, MDR!Long
<1>8. /\ MDR!abs_a = Size
      /\ opa = 0 => Size = 0
  BY <1>1, <1>4, <1>6, Remainder DEF MDR!abs_a
<1>9. (opa % n1 = h) <=> args[1] = h
  <2>1. opa % n1 = d % n1
    BY <1>4, <1>6, LongArith, Zenon
  <2>2. d >= 0 => d % n1 = d
    <3>1. d >= 0 => d \in 0 .. n1 - 1
      BY <1>2, <1>4, <1>5
    <3>. QED  BY <1>2, <3>1, ModSmall
  <2>3. d < 0 => d % n1 = d + n1
    <3> SUFFICES ASSUME d < 0 PROVE d % n1 = d + n1
      OBVIOUS
    <3>1. d + n1 \in 0 .. n1 - 1 /\ d + n1 \in Int /\ -1 \in Int /\ (d + n1) + n1 * (-1) = d
      BY <1>2, <1>5
    <3>2. (d + n1) % n1 = d + n1
      BY <1>2, <3>1, ModSmall, Zenon
    <3>3. ((d + n1) + n1 * (-1)) % n1 = (d + n1) % n1
      BY <1>2, <3>1, ModSame, Zenon
    <3>. QED  BY <3>1, <3>2, <3>3, Zenon
  <2> HIDE DEF n1, h, d
  <2>4. args[1] = h => d % n1 = h
    BY <1>2, <1>5, <2>2
  <2>5. args[1] # h => d % n1 # h
    BY <1>2, <1>5, <2>2, <2>3
  <2>. QED  BY <2>1, <2>4, <2>5
<1>10. MDR!overflow => args[1] = h
  BY <1>9 DEF MDR!overflow, Half
<1>11. args[1] = h /\ b = 2 => MDR!overflow
  <2> SUFFICES ASSUME args[1] = h, b = 2 PROVE MDR!overflow
    OBVIOUS
  <2>1. opb \div n1 = n1 - 1
    <3> HIDE DEF n1, h, m, b
    <3>1. opb = n1 * (n1 - 1) + 0
      BY <1>2, <1>6
    <3>2. n1 - 1 \in Int /\ 0 \in 0 .. n1 - 1
      BY <1>2
    <3>. QED  BY <1>2, <3>1, <3>2, DivModUnique, Zenon
  <2>. QED  BY <1>1, <1>9, <2>1 DEF MDR!overflow, Half
<1> HIDE DEF n1, h, m, d, b, c
<1>12. h * b <= g /\ h * b \in Nat \ {0} /\ h < g
  <2>1. h * b <= h * n1 /\ h * b \in Nat \ {0} /\ h * n1 = n1 * h /\ n1 * h >= 2 * h
    BY <1>2, <1>3
  <2>. QED  BY <1>2, <2>1
<1>13. opb >= g /\ opb # 0 /\ opb > h
  BY <1>2, <1>6, <1>12
<1>14. ~MDR!takes /\ MDR!NegLong(opb)
  <2>1. ~(MDR!abs_a >= opb)
    <3>1. Size < opb
      BY <1>2, <1>4, <1>7, <1>13
    <3>. QED  BY <1>4, <1>7, <1>8, <3>1
  <2>. QED  BY <1>1, <1>2, <1>13, <2>1, Zenon DEF MDR!takes, MDR!NegLong, m
<1>15. MDR!next_a = opa /\ MDR!next_b = g + opb \div 2 /\ MDR!next_b_shift = c
  <2>1. MDR!next_a = opa
    BY <1>1, <1>14, Zenon DEF MDR!next_a
  <2>. QED  BY <1>1, <1>2, <1>14, <2>1, Zenon DEF MDR!next_b, MDR!next_b_shift, m, c
<1>16. ~MDR!zero
  BY <1>13 DEF MDR!zero
<1>17. MDR!calc_done <=> MDR!overflow \/ c = 0 \/ opa = 0
  BY <1>1, <1>15, <1>16, Zenon DEF MDR!calc_done
<1>18. MDR!next_result = IF MDR!overflow THEN IF uop = "DIV" THEN h ELSE 0
                         ELSE IF uop = "REM" THEN opa ELSE result
  <2>1. uop = "REM" => uop \in {"REM", "REMU"}
    OBVIOUS
  <2>2. uop # "REM" => uop \notin {"REM", "REMU"}
    BY <1>1
  <2>. QED  BY <1>1, <1>14, <1>15, <1>16, <2>1, <2>2, Zenon DEF MDR!next_result, h, Half
<1>19. MDR!next_a \in 0 .. m - 1 /\ MDR!next_b \in 0 .. m - 1 /\ MDR!next_result \in 0 .. m - 1
  <2>1. h \in 0 .. m - 1 /\ 0 \in 0 .. m - 1
    BY <1>2, <1>12
  <2>2. g + opb \div 2 \in 0 .. m - 1
    BY <1>2, <1>7
  <2>. QED  BY <1>7, <1>15, <1>18, <2>1, <2>2
<1>20. ASSUME ~MDR!calc_done
       PROVE  /\ MDR!next_b_shift \in Weights
              /\ MDR!next_b = m - h * MDR!next_b_shift
              /\ MDR!next_a = Of(d)
              /\ uop = "DIV" => MDR!next_result = 0
              /\ args[1] = h => MDR!next_b_shift # 1
  <2>1. ~MDR!overflow /\ c # 0 /\ b # 1 /\ c \in Weights /\ b = 2 * c
    BY <1>3, <1>17, <1>20
  <2>2. g + opb \div 2 = m - h * c
    <3>1. opb = 2 * (g - h * c)
      BY <1>2, <1>3, <1>6, <2>1
    <3>2. h * c \in Nat
      BY <1>2, <1>3
    <3> DEFINE e == h * c
    <3> HIDE DEF e, g
    <3>3. opb \div 2 = g - e
      BY <1>2, <3>1, <3>2 DEF e
    <3>. QED  BY <1>2, <3>2, <3>3 DEF e
  <2>3. args[1] = h => c # 1
    BY <1>11, <2>1
  <2>4. uop = "DIV" => MDR!next_result = 0
    BY <1>6, <1>18, <2>1
  <2>. QED  BY <1>6, <1>15, <2>1, <2>2, <2>3, <2>4, Zenon
<1>21. ASSUME MDR!calc_done, args[1] = h, uop = "REM"
       PROVE  MDR!next_result = 0
  <2>1. c # 0
    BY <1>3, <1>6, <1>21
  <2>2. opa # 0
    BY <1>2, <1>4, <1>5, <1>8, <1>21
  <2>. QED  BY <1>17, <1>18, <1>21, <2>1, <2>2
<1>22. ASSUME MDR!calc_done, args[1] # h
       PROVE  MDR!next_result = IF uop = "DIV" THEN 0 ELSE Of(d)
  BY <1>1, <1>6, <1>10, <1>18, <1>22
<1>. QED  BY <1>19, <1>20, <1>21, <1>22 DEF MDR!Long, m, h, d

\* The quotient and remainder that a division ends with are those that the
\* instruction means, but for the sign of a remainder that is restored.
LEMMA DivisionMeans ==
  ASSUME MdrType, Divides, NEW q \in Nat, NEW r \in Nat,
         Size = q * Divisor + r, r < Divisor,
         NEW v, v = Of(Sgn * (IF uop \in {"DIV", "DIVU"} THEN q ELSE r))
  PROVE  /\ uop = "REM" /\ Swapped => MDR!Neg(v) % MDR!N = MDR!Meaning(uop, args[1], args[2])
         /\ ~(uop = "REM" /\ Swapped) => Taken(v) = MDR!Meaning(uop, args[1], args[2])
<1> DEFINE x == args[1]
           y == args[2]
           s == MDR!Signed(x)
           t == MDR!Signed(y)
           d == Divisor
<1>1. uop \notin MDR!MulOps /\ uop \in {"DIV", "DIVU", "REM", "REMU"}
  BY DivisionOperands DEF Divides
<1>2. /\ d \in 1 .. MDR!N - 1 /\ Size \in Nat /\ Sgn \in {-1, 1} /\ Size < MDR!N
      /\ uop \notin MDR!SignedDiv => Sgn = 1
      /\ y # 0 /\ MDR!N \in Nat \ {0}
  BY <1>1, DivisionOperands, Sizes DEF Divides
<1>3. /\ x \in 0 .. 2 * Half - 1 /\ y \in 0 .. 2 * Half - 1
      /\ s \in Int /\ t \in Int /\ MDR!N = 2 * Half /\ Half \in Nat \ {0}
      /\ (MDR!NegWord(y) <=> t < 0)
      /\ t = y \/ t = y - MDR!N
  <2>1. x \in MDR!Word /\ y \in MDR!Word
    BY DEF MdrType
  <2>. QED  BY <2>1, WordSign, Sizes
<1>4. Size \div d = q /\ Size % d = r
  <2>1. d \in Nat \ {0} /\ q \in Int /\ r \in 0 .. d - 1 /\ d * q + r = Size
    BY <1>2
  <2>. QED  BY <2>1, DivModUnique, Zenon
<1>5. Sgn * q \in Int /\ Sgn * r \in Int
  BY <1>2
<1>6. /\ MDR!NegWord(y) => d = IF uop \in MDR!SignedDiv THEN MDR!N - y ELSE y
      /\ ~MDR!NegWord(y) => d = y
      /\ Swapped <=> uop \in MDR!SignedDiv /\ MDR!NegWord(y)
  BY DEF Divisor, Swapped
<1>7. ASSUME uop \in MDR!SignedDiv
      PROVE  /\ MDR!Abs(s) = Size /\ MDR!Abs(t) = d
             /\ Swapped => t = -d /\ s = -(Sgn * Size)
             /\ ~Swapped => t = d /\ s = Sgn * Size
             /\ Swapped <=> t < 0
             /\ MDR!Quotient(s, t) = Sgn * q
  <2>1. /\ Dividend = IF Swapped THEN -s ELSE s
        /\ Size = IF Dividend < 0 THEN -Dividend ELSE Dividend
        /\ Sgn = IF Dividend < 0 THEN -1 ELSE 1
    BY <1>7 DEF Dividend, Sgn, Size, MDR!Abs
  <2>2. Swapped <=> t < 0
    BY <1>3, <1>6, <1>7
  <2>3. MDR!Abs(s) = IF s < 0 THEN -s ELSE s
    BY DEF MDR!Abs
  <2>4. MDR!Abs(t) = IF t < 0 THEN -t ELSE t
    BY DEF MDR!Abs
  <2>5. t = IF y >= Half THEN y - MDR!N ELSE y
    BY DEF MDR!Signed, MDR!NegWord, Half
  <2> HIDE DEF s, t, d, x, y
  <2>6. t = IF Swapped THEN -d ELSE d
    BY <1>2, <1>3, <1>6, <1>7, <2>2, <2>5
  <2>7. MDR!Abs(s) = Size /\ MDR!Abs(t) = d
    BY <1>2, <1>3, <2>1, <2>2, <2>3, <2>4, <2>6
  <2>8. s = IF Swapped THEN -(Sgn * Size) ELSE Sgn * Size
    BY <1>2, <1>3, <2>1
  <2>9. MDR!Quotient(s, t) = IF (s < 0) # (t < 0) THEN -q ELSE q
    BY <1>4, <2>7, Zenon DEF MDR!Quotient
  <2>10. Size = 0 => q = 0
    <3>1. Size = 0 => q * d = 0
      <4>1. q * d \in Nat /\ Size = q * d + r
        BY <1>2 DEF d
      <4>. QED  BY <4>1
    <3>2. q # 0 => q * d >= d
      BY <1>2
    <3>. QED  BY <1>2, <3>1, <3>2
  <2>11. MDR!Quotient(s, t) = Sgn * q
    <3>1. CASE Size = 0
      BY <1>2, <2>9, <2>10, <3>1
    <3>2. CASE Size # 0
      BY <1>2, <1>3, <2>1, <2>2, <2>9, <3>2
    <3>. QED  BY <3>1, <3>2
  <2>. QED  BY <2>2, <2>6, <2>7, <2>8, <2>11
<1> HIDE DEF s, t, d
<1>8. CASE uop \in {"DIVU", "REMU"}
  <2>1. uop \notin MDR!SignedDiv /\ ~Swapped /\ d = y /\ Size = x /\ Sgn = 1
    <3>1. uop \notin MDR!SignedDiv
      BY <1>8 DEF MDR!SignedDiv
    <3>2. Dividend = x
      BY <3>1 DEF Dividend
    <3>. QED  BY <1>2, <1>3, <1>6, <3>1, <3>2 DEF Size, MDR!Abs
  <2>2. q <= Size /\ r <= Size
    <3>1. q * d >= q
      BY <1>2
    <3>. QED  BY <1>2, <3>1 DEF d
  <2>3. q % MDR!N = q /\ r % MDR!N = r
    <3>1. q \in 0 .. MDR!N - 1 /\ r \in 0 .. MDR!N - 1
      BY <1>2, <2>2
    <3>. QED  BY <1>2, <3>1, ModSmall, Zenon
  <2>4. Taken(v) = v % MDR!N
    BY <1>8 DEF Taken
  <2>5. Sgn * q = q /\ Sgn * r = r
    BY <2>1
  <2>6. Of(q) % MDR!N = q % MDR!N /\ Of(r) % MDR!N = r % MDR!N
    BY <1>5, <2>5, LongArith, Zenon
  <2>7. CASE uop = "DIVU"
    <3>1. MDR!Meaning(uop, x, y) = x \div y
      BY <1>2, <2>7 DEF MDR!Meaning
    <3>. QED  BY <1>4, <2>1, <2>3, <2>4, <2>5, <2>6, <2>7, <3>1
  <2>8. CASE uop = "REMU"
    <3>1. MDR!Meaning(uop, x, y) = x % y
      BY <1>2, <2>8 DEF MDR!Meaning
    <3>. QED  BY <1>4, <2>1, <2>3, <2>4, <2>5, <2>6, <2>8, <3>1
  <2>. QED  BY <1>8, <2>7, <2>8
<1>9. CASE uop = "DIV"
  <2>1. uop \in MDR!SignedDiv
    BY <1>9 DEF MDR!SignedDiv
  <2>2. MDR!Meaning(uop, x, y) = MDR!Quotient(s, t) % MDR!N
    BY <1>2, <1>9 DEF MDR!Meaning, s, t
  <2>3. Taken(v) = v % MDR!N /\ v = Of(Sgn * q)
    BY <1>9 DEF Taken
  <2>4. Of(Sgn * q) % MDR!N = (Sgn * q) % MDR!N
    BY <1>5, LongArith, Zenon
  <2>. QED  BY <1>7, <1>9, <2>1, <2>2, <2>3, <2>4
<1>10. CASE uop = "REM"
  <2>1. uop \in MDR!SignedDiv
    BY <1>10 DEF MDR!SignedDiv
  <2>2. MDR!Meaning(uop, x, y) = (s - t * MDR!Quotient(s, t)) % MDR!N
    BY <1>2, <1>10 DEF MDR!Meaning, s, t
  <2>3. Taken(v) = v % MDR!N /\ v = Of(Sgn * r)
    BY <1>10 DEF Taken
  <2>4. s - t * (Sgn * q) = IF Swapped THEN -(Sgn * r) ELSE Sgn * r
    <3>1. Size = q * d + r
      BY DEF d
    <3>2. CASE Sgn = 1
      BY <1>2, <1>7, <2>1, <3>1, <3>2
    <3>3. CASE Sgn = -1
      BY <1>2, <1>7, <2>1, <3>1, <3>3
    <3>. QED  BY <1>2, <3>2, <3>3
  <2>5. -(Sgn * r) \in Int
    BY <1>5
  <2>6. /\ Of(Sgn * r) % MDR!N = (Sgn * r) % MDR!N
        /\ MDR!Neg(Of(Sgn * r)) = Of(-(Sgn * r))
        /\ Of(-(Sgn * r)) % MDR!N = (-(Sgn * r)) % MDR!N
    BY <1>5, <2>5, LongArith, Zenon
  <2>. QED  BY <1>7, <1>10, <2>1, <2>2, <2>3, <2>4, <2>6, Zenon
<1>. QED  BY <1>1, <1>8, <1>9, <1>10

\* The result the unit should have for the instruction in it; the most negative
\* word divided by itself is left out (run mul_div_rem_overflow).
Meant    == MDR!Meaning(uop, args[1], args[2])
Overflow == uop = "DIV" /\ args[1] = Half /\ args[2] = Half

Multiplying == Of(result + opa * opb) = Of(MDR!init_opa(uop, args[1]) * MDR!init_opb(uop, args[2]))

ByZero == uop \notin MDR!MulOps /\ args[2] = 0

\* The state of the unit means something in each state of its machine.
MdrInv ==
  /\ MdrType
  /\ curr_state = "SWAP_SIGN" =>
       Swapped /\ opa = Of(MDR!Signed(args[1])) /\ opb = args[2] * MDR!N /\ b_shift = MDR!N /\ result = 0
  /\ curr_state = "CALC" =>
       /\ need_to_sign_restore <=> uop = "REM" /\ Swapped
       /\ uop \in MDR!MulOps => Multiplying
       /\ ByZero   => opb = 0 /\ opa = MDR!init_opa(uop, args[1])
       /\ Divides  => Dividing
       /\ ByLowest => Lowering
  /\ curr_state = "RESTORE_SIGN" => uop = "REM" /\ MDR!Neg(result) % MDR!N = Meant
  /\ curr_state = "DONE" => Overflow \/ Taken(result) = Meant

\* A division is of one of three kinds.
LEMMA Kinds ==
  ASSUME MdrType
  PROVE  /\ uop \in MDR!MulOps \/ ByZero \/ Divides \/ ByLowest
         /\ ByZero => uop \notin MDR!MulOps /\ ~Divides /\ ~ByLowest
         /\ Divides => uop \notin MDR!MulOps /\ ~ByLowest
         /\ ByLowest => uop \notin MDR!MulOps /\ uop \in {"DIV", "REM"}
<1>1. uop \in MDR!SignedDiv => uop \notin MDR!MulOps /\ uop \in {"DIV", "REM"}
  BY DEF MDR!SignedDiv, MDR!MulOps
<1>2. Half # 0
  BY Sizes
<1>. QED  BY <1>1, <1>2, Zenon DEF ByZero, Divides, ByLowest

\* A division by zero ends at once, with all ones or the dividend.
LEMMA ZeroStep ==
  ASSUME MdrType, ByZero, opb = 0, opa = MDR!init_opa(uop, args[1])
  PROVE  /\ MDR!next_a \in MDR!Long /\ MDR!next_b \in MDR!Long /\ MDR!next_result \in MDR!Long
         /\ MDR!calc_done
         /\ ~Swapped
         /\ Taken(MDR!next_result) = Meant
<1> DEFINE x == args[1]
<1>1. uop \notin MDR!MulOps /\ uop \in {"DIV", "DIVU", "REM", "REMU"} /\ args[2] = 0
  BY DivisionOperands DEF ByZero
<1>2. /\ MDR!N \in Nat \ {0} /\ Half \in Nat \ {0} /\ MDR!N = 2 * Half
      /\ MDR!M \in Nat \ {0} /\ MDR!M = MDR!N * MDR!N /\ MDR!M \div 2 = MDR!N * Half
      /\ x \in MDR!Word /\ opa \in MDR!Long /\ x \in 0 .. MDR!N - 1
  BY Sizes DEF MdrType, MDR!Word
<1>3. ~MDR!NegLong(opb) /\ opb \div 2 = 0 /\ opb \div MDR!N = 0
  <2>1. 0 \div MDR!N = 0
    <3>1. MDR!N * 0 + 0 = 0 /\ 0 \in 0 .. MDR!N - 1 /\ 0 \in Int
      BY <1>2
    <3>2. (MDR!N * 0 + 0) \div MDR!N = 0
      BY <1>2, <3>1, DivModUnique, Zenon
    <3>. QED  BY <3>1, <3>2, Zenon
  <2>2. ~(0 >= MDR!M \div 2)
    <3>1. MDR!N * Half > 0 /\ MDR!N * Half \in Nat
      BY <1>2
    <3>. QED  BY <1>2, <3>1
  <2>3. 0 \div 2 = 0
    OBVIOUS
  <2>. QED  BY <2>1, <2>2, <2>3, Zenon DEF MDR!NegLong
<1>4. MDR!zero /\ ~MDR!overflow
  <2>1. 0 # MDR!N - 1
    BY <1>2
  <2>. QED  BY <1>1, <1>3, <2>1, Zenon DEF MDR!zero, MDR!overflow
<1>5. MDR!next_b = 0
  BY <1>3, Zenon DEF MDR!next_b
<1>6. MDR!next_a \in MDR!Long
  <2>1. \A k \in Int : k % MDR!M \in MDR!Long
    BY LongArith, Zenon DEF Of
  <2>2. opa + MDR!Neg(MDR!adj_b) \in Int /\ opa + MDR!Neg(opb) \in Int
    <3>1. \A k \in MDR!Long : MDR!Neg(k) \in MDR!Long
      <4> SUFFICES ASSUME NEW k \in MDR!Long PROVE MDR!Neg(k) \in MDR!Long
        OBVIOUS
      <4>1. MDR!M - k \in Int
        BY <1>2 DEF MDR!Long
      <4>. QED  BY <2>1, <4>1 DEF MDR!Neg
    <3>2. opb \in MDR!Long /\ MDR!adj_b \in MDR!Long
      BY <3>1, Zenon DEF MdrType, MDR!adj_b
    <3>3. MDR!Long \subseteq Int
      BY <1>2 DEF MDR!Long
    <3>4. MDR!Neg(MDR!adj_b) \in Int /\ MDR!Neg(opb) \in Int /\ opa \in Int
      BY <1>2, <3>1, <3>2, <3>3
    <3>. QED  BY <3>4
  <2>. QED  BY <1>1, <1>2, <2>1, <2>2, Zenon DEF MDR!next_a
<1>7. MDR!next_result = IF uop \in {"DIV", "DIVU"} THEN MDR!M - 1 ELSE opa
  BY <1>4, Zenon DEF MDR!next_result
<1>8. MDR!calc_done /\ ~Swapped
  <2>1. ~MDR!NegWord(0)
    BY <1>2 DEF MDR!NegWord, Half
  <2>. QED  BY <1>1, <1>4, <2>1 DEF MDR!calc_done, Swapped
<1>9. MDR!M - 1 \in MDR!Long /\ 0 \in MDR!Long
  BY <1>2 DEF MDR!Long
<1>10. CASE uop \in {"DIV", "DIVU"}
  <2>1. (MDR!M - 1) % MDR!N = MDR!N - 1
    <3> DEFINE n1 == MDR!N
    <3>1. n1 \in Nat \ {0} /\ MDR!M = n1 * n1
      BY <1>2
    <3> HIDE DEF n1
    <3>2. MDR!M - 1 = n1 * (n1 - 1) + (n1 - 1) /\ n1 - 1 \in Int /\ n1 - 1 \in 0 .. n1 - 1
      BY <3>1
    <3>3. (n1 * (n1 - 1) + (n1 - 1)) % n1 = n1 - 1
      BY <3>1, <3>2, DivModUnique, Zenon
    <3>. QED  BY <3>2, <3>3 DEF n1
  <2>2. Taken(MDR!M - 1) = (MDR!M - 1) % MDR!N
    BY <1>10 DEF Taken
  <2>3. Meant = MDR!N - 1
    BY <1>1, <1>10 DEF Meant, MDR!Meaning
  <2>. QED  BY <1>5, <1>6, <1>7, <1>8, <1>9, <1>10, <2>1, <2>2, <2>3
<1>11. CASE uop \in {"REM", "REMU"}
  <2>1. Taken(opa) = opa % MDR!N
    BY <1>11 DEF Taken
  <2>2. Meant = x
    BY <1>1, <1>11 DEF Meant, MDR!Meaning
  <2>3. opa % MDR!N = x
    <3>1. CASE uop = "REMU"
      <4>1. opa = x
        BY <3>1 DEF MDR!init_opa
      <4>. QED  BY <1>2, <4>1, ModSmall
    <3>2. CASE uop = "REM"
      <4>1. opa = Of(MDR!Signed(x)) /\ MDR!Signed(x) \in Int /\ MDR!Signed(x) % MDR!N = x
        <5>1. opa = MDR!SExt(x)
          BY <3>2 DEF MDR!init_opa
        <5>. QED  BY <1>2, <5>1, WordSign
      <4>. QED  BY <4>1, LongArith, Zenon
    <3>. QED  BY <1>11, <3>1, <3>2
  <2>4. uop \notin {"DIV", "DIVU"}
    BY <1>11
  <2>. QED  BY <1>2, <1>5, <1>6, <1>7, <1>8, <1>9, <2>1, <2>2, <2>3, <2>4, Zenon
<1>. QED  BY <1>1, <1>10, <1>11

\* How a division starts to be calculated.
Started ==
  /\ MdrType
  /\ curr_state = "CALC"
  /\ uop \notin MDR!MulOps /\ args[2] # 0
  /\ opa = Of(Dividend)
  /\ Divides  => opb = Divisor * MDR!N
  /\ ByLowest => opb = MDR!M - Half * MDR!N
  /\ b_shift = MDR!N
  /\ result = 0
  /\ need_to_sign_restore <=> uop = "REM" /\ Swapped

\* At its start, no digit of the quotient is known and the whole dividend is left.
LEMMA StartIsRight == Started => MdrInv
<1> SUFFICES ASSUME Started PROVE MdrInv
  OBVIOUS
<1>1. MdrType /\ uop \notin MDR!MulOps /\ ~ByZero
  BY DEF Started, ByZero
<1>2. b_shift \in Weights
  BY WeightHalves DEF Started
<1>3. MDR!N \in Nat \ {0} /\ MDR!N # 1
  BY Sizes
<1>4. Divides => Dividing
  <2> SUFFICES ASSUME Divides PROVE \E q, r \in Nat : Left(q, r) /\ r < 2 * opb
    BY <1>2 DEF Dividing, Started
  <2>1. /\ Size \in Nat /\ Sgn \in {-1, 1} /\ Dividend = Sgn * Size /\ Size < MDR!N
        /\ Divisor \in 1 .. MDR!N - 1
    BY <1>1, DivisionOperands
  <2>2. Size = 0 * Divisor + Size /\ Sgn * 0 = 0
    BY <2>1
  <2>3. Of(0) = 0
    <3>1. 0 \in 0 .. MDR!M - 1 /\ MDR!M \in Nat \ {0}
      BY Sizes
    <3>. QED  BY <3>1, ModSmall, Zenon DEF Of
  <2>4. Left(0, Size)
    BY <2>1, <2>2, <2>3, Zenon DEF Left, Started
  <2>5. Size < 2 * opb
    <3> DEFINE d == Divisor
               n1 == MDR!N
    <3>1. opb = d * n1 /\ d \in Nat \ {0} /\ n1 \in Nat
      BY <2>1, <1>3 DEF Started
    <3> HIDE DEF d
    <3>2. d * n1 >= n1
      BY <3>1
    <3>. QED  BY <1>3, <2>1, <3>1, <3>2
  <2>. QED  BY <2>1, <2>4, <2>5
<1>5. ByLowest => Lowering
  BY <1>2, <1>3 DEF Started, Lowering
<1>. QED  BY <1>1, <1>4, <1>5 DEF MdrInv, Started

\* An instruction that has just been taken.
Fresh ==
  /\ curr_state = IF MDR!NegWord(args[2]) /\ uop \in MDR!SignedDiv THEN "SWAP_SIGN" ELSE "CALC"
  /\ uop \in MDR!Uops
  /\ args \in MDR!Word \X MDR!Word
  /\ opa = MDR!init_opa(uop, args[1])
  /\ opb = MDR!init_opb(uop, args[2])
  /\ b_shift = MDR!N
  /\ result = 0
  /\ need_to_sign_restore = FALSE

\* An instruction starts to be calculated, or has its signs swapped first.
LEMMA FreshIsRight == Fresh => MdrInv
<1> SUFFICES ASSUME Fresh PROVE MdrInv
  OBVIOUS
<1> DEFINE x == args[1]
           y == args[2]
<1>1. x \in MDR!Word /\ y \in MDR!Word /\ MDR!Signed(x) \in Int
      /\ x \in 0 .. MDR!N - 1 /\ y \in 0 .. MDR!N - 1
  BY WordSign DEF Fresh, MDR!Word
<1>2. /\ MDR!N \in Nat \ {0} /\ Half \in Nat \ {0} /\ MDR!N = 2 * Half
      /\ MDR!M \in Nat \ {0} /\ MDR!M = MDR!N * MDR!N
  BY Sizes
<1>3. MDR!SExt(x) = Of(MDR!Signed(x)) /\ MDR!SExt(x) \in MDR!Long /\ MDR!SExt(y) \in MDR!Long
  <2>1. /\ MDR!SExt(x) = Of(MDR!Signed(x)) /\ MDR!SExt(y) = Of(MDR!Signed(y))
        /\ MDR!Signed(x) \in Int /\ MDR!Signed(y) \in Int
    BY <1>1, WordSign
  <2>. QED  BY <2>1, LongArith, Zenon
<1>4. x \in MDR!Long /\ y \in MDR!Long /\ y * MDR!N \in MDR!Long /\ 0 \in MDR!Long
  <2> DEFINE n1 == MDR!N
  <2>1. n1 \in Nat \ {0} /\ x \in 0 .. n1 - 1 /\ y \in 0 .. n1 - 1 /\ MDR!M = n1 * n1
    BY <1>1, <1>2
  <2> HIDE DEF n1, x, y
  <2>2. y * n1 <= (n1 - 1) * n1 /\ y * n1 >= 0 /\ y * n1 \in Int /\ (n1 - 1) * n1 = n1 * n1 - n1
        /\ n1 * n1 >= n1 /\ n1 * n1 \in Nat
    BY <2>1
  <2>. QED  BY <2>1, <2>2 DEF MDR!Long, n1
<1>5. MDR!init_opa(uop, x) \in MDR!Long /\ MDR!init_opb(uop, y) \in MDR!Long
  BY <1>3, <1>4, Zenon DEF MDR!init_opa, MDR!init_opb
<1>6. MdrType
  BY <1>2, <1>4, <1>5 DEF Fresh, MdrType
<1>7. Swapped <=> curr_state = "SWAP_SIGN"
  BY DEF Fresh, Swapped
<1>8. CASE uop \in MDR!MulOps
  <2>1. ~Swapped /\ uop # "REM" /\ curr_state = "CALC"
    BY <1>8 DEF Fresh, Swapped, MDR!MulOps, MDR!SignedDiv
  <2>2. ~ByZero /\ ~Divides /\ ~ByLowest
    BY <1>6, <1>8, Kinds
  <2>3. Multiplying
    <3>1. opa * opb \in Int
      BY <1>2, <1>6 DEF MdrType, MDR!Long
    <3>2. result + opa * opb = MDR!init_opa(uop, x) * MDR!init_opb(uop, y)
      BY <3>1 DEF Fresh
    <3>. QED  BY <3>2, Zenon DEF Multiplying
  <2>. QED  BY <1>6, <2>1, <2>2, <2>3 DEF MdrInv, Fresh
<1>9. CASE ByZero
  <2>1. ~Swapped /\ curr_state = "CALC"
    <3>1. ~MDR!NegWord(0)
      BY <1>2 DEF MDR!NegWord, Half
    <3>. QED  BY <1>9, <3>1 DEF Swapped, Fresh, ByZero
  <2>2. opb = 0 /\ opa = MDR!init_opa(uop, x)
    <3>1. 0 * MDR!N = 0
      BY <1>2
    <3>. QED  BY <1>9, <3>1, Zenon DEF Fresh, ByZero, MDR!init_opb
  <2>3. uop \notin MDR!MulOps /\ ~Divides /\ ~ByLowest
    BY <1>6, <1>9, Kinds
  <2>. QED  BY <1>6, <2>1, <2>2, <2>3 DEF MdrInv, Fresh
<1>10. CASE uop \notin MDR!MulOps /\ ~ByZero /\ Swapped
  <2>1. uop \in {"DIV", "REM"} /\ curr_state = "SWAP_SIGN"
    BY <1>7, <1>10 DEF Swapped, MDR!SignedDiv
  <2>2. opa = Of(MDR!Signed(x))
    BY <1>3, <2>1 DEF Fresh, MDR!init_opa
  <2>3. opb = y * MDR!N
    BY <1>10 DEF Fresh, MDR!init_opb
  <2>. QED  BY <1>6, <1>10, <2>1, <2>2, <2>3 DEF MdrInv, Fresh
<1>11. CASE uop \notin MDR!MulOps /\ ~ByZero /\ ~Swapped
  <2>1. opb = y * MDR!N /\ Divisor = y /\ y # 0 /\ curr_state = "CALC"
    BY <1>11 DEF Fresh, MDR!init_opb, Divisor, ByZero, Swapped
  <2>2. ~ByLowest
    <3>1. MDR!NegWord(Half)
      BY <1>2 DEF MDR!NegWord, Half
    <3>. QED  BY <1>11, <3>1 DEF ByLowest, Swapped
  <2>3. opa = Of(Dividend)
    <3>1. CASE uop \in MDR!SignedDiv
      <4>1. opa = MDR!SExt(x)
        BY <3>1 DEF Fresh, MDR!init_opa, MDR!SignedDiv
      <4>. QED  BY <1>3, <1>11, <3>1, <4>1 DEF Dividend
    <3>2. CASE uop \notin MDR!SignedDiv
      <4>1. uop \in {"DIVU", "REMU"}
        BY <1>11, <3>2 DEF Fresh, MDR!Uops
      <4>2. opa = x
        BY <4>1 DEF Fresh, MDR!init_opa
      <4>3. Of(x) = x
        BY <1>2, <1>4, ModSmall DEF Of, MDR!Long
      <4>. QED  BY <3>2, <4>2, <4>3 DEF Dividend
    <3>. QED  BY <3>1, <3>2
  <2>4. Started
    BY <1>6, <1>11, <2>1, <2>2, <2>3 DEF Started, Fresh
  <2>. QED  BY <2>4, StartIsRight
<1>. QED  BY <1>8, <1>9, <1>10, <1>11

\* The signs are swapped so that the divisor is positive.
LEMMA SwapStep == MdrInv /\ MDR!SwapSign => Started'
<1> SUFFICES ASSUME MdrInv, MDR!SwapSign PROVE Started'
  OBVIOUS
<1> DEFINE s == MDR!Signed(args[1])
           y == args[2]
<1>1. /\ curr_state' = "CALC" /\ uop' = uop /\ args' = args /\ b_shift' = b_shift /\ result' = result
      /\ opa' = MDR!Neg(opa) /\ opb' = MDR!Neg(opb)
      /\ need_to_sign_restore' = (uop = "REM")
  BY DEF MDR!SwapSign
<1>2. /\ MdrType
      /\ Swapped /\ opa = Of(s) /\ opb = y * MDR!N /\ b_shift = MDR!N /\ result = 0
  BY DEF MdrInv, MDR!SwapSign
<1>3. uop \in MDR!SignedDiv /\ uop \notin MDR!MulOps
  BY <1>2 DEF Swapped, MDR!SignedDiv, MDR!MulOps
<1>4. y \in Half .. 2 * Half - 1 /\ Half \in Nat \ {0} /\ MDR!N = 2 * Half /\ MDR!M = MDR!N * MDR!N /\ s \in Int
  <2>1. args[1] \in MDR!Word /\ y \in MDR!Word
    BY <1>2 DEF MdrType
  <2>2. y \in 0 .. 2 * Half - 1 /\ y >= Half
    BY <1>2, <2>1, WordSign, Sizes DEF Swapped, MDR!NegWord, Half
  <2>. QED  BY <2>1, <2>2, WordSign, Sizes
<1>5. Dividend = -s /\ Divisor = MDR!N - y
  BY <1>2, <1>3, Zenon DEF Dividend, Divisor
<1>6. opa' = Of(Dividend) /\ opa' \in MDR!Long
  <2>1. -s \in Int
    BY <1>4
  <2>2. MDR!Neg(Of(s)) = Of(-s) /\ Of(-s) \in MDR!Long
    BY <1>4, <2>1, LongArith, Zenon
  <2>. QED  BY <1>1, <1>2, <1>5, <2>2, Zenon
<1>7. opb' = Divisor * MDR!N /\ opb' \in MDR!Long
  <2> DEFINE n1 == MDR!N
             h  == Half
  <2>1. y \in h .. n1 - 1 /\ h \in Nat \ {0} /\ n1 \in Nat /\ MDR!M = n1 * n1
    BY <1>4
  <2> HIDE DEF n1, h, y
  <2>2. /\ y * n1 >= n1 /\ y * n1 <= (n1 - 1) * n1 /\ (n1 - 1) * n1 <= n1 * n1 /\ y * n1 \in Int
        /\ n1 > 0
        /\ n1 * n1 - y * n1 = (n1 - y) * n1
    BY <2>1
  <2>3. n1 * n1 - y * n1 \in 0 .. n1 * n1 - 1 /\ n1 * n1 \in Nat \ {0}
    BY <2>1, <2>2
  <2>4. (n1 * n1 - y * n1) % (n1 * n1) = n1 * n1 - y * n1
    BY <2>3, ModSmall, Zenon
  <2>. QED  BY <1>1, <1>2, <1>5, <2>1, <2>2, <2>3, <2>4 DEF MDR!Neg, MDR!Long, n1
<1>8. y = Half => Divisor * MDR!N = MDR!M - Half * MDR!N
  <2>1. (2 * Half - Half) * (2 * Half) = (2 * Half) * (2 * Half) - Half * (2 * Half)
    BY <1>4
  <2>. QED  BY <1>4, <1>5, <2>1
<1>9. MdrType'
  BY <1>1, <1>2, <1>6, <1>7 DEF MdrType
<1>10. /\ Dividend' = Dividend /\ Divisor' = Divisor /\ Swapped' = Swapped
       /\ ByLowest' = ByLowest
  BY <1>1 DEF Dividend, Divisor, Swapped, ByLowest, MDR!Signed, MDR!SignedDiv, Half, MDR!N, MDR!NegWord
<1>11. ByLowest => y = Half
  BY DEF ByLowest
<1>12. y # 0
  BY <1>4
<1>. QED
  BY <1>1, <1>2, <1>3, <1>6, <1>7, <1>8, <1>9, <1>10, <1>11, <1>12, Zenon
  DEF Started, Half, MDR!N, MDR!M, MDR!MulOps, Of

\* The result of a division by the most negative word, when it has ended.
LEMMA LowestMeans ==
  ASSUME MdrType, ByLowest, NEW v,
         args[1] = Half /\ uop = "REM" => v = 0,
         args[1] # Half => v = IF uop = "DIV" THEN 0 ELSE Of(Dividend)
  PROVE  /\ uop = "REM" /\ Swapped => MDR!Neg(v) % MDR!N = Meant
         /\ ~(uop = "REM" /\ Swapped) => Overflow \/ Taken(v) = Meant
<1> DEFINE x == args[1]
           y == args[2]
           s == MDR!Signed(x)
           t == MDR!Signed(y)
<1>1. uop \in {"DIV", "REM"} /\ uop \in MDR!SignedDiv /\ y = Half
  BY DEF ByLowest, MDR!SignedDiv
<1>2. MDR!N \in Nat \ {0} /\ Half \in Nat \ {0} /\ MDR!N = 2 * Half /\ MDR!M \in Nat \ {0}
  BY Sizes
<1>3. Swapped /\ t = -Half /\ y # 0
  BY <1>1, <1>2 DEF Swapped, MDR!NegWord, MDR!Signed, Half
<1>4. s \in -Half .. Half - 1 /\ (x = Half => s = -Half) /\ (x # Half => s # -Half)
      /\ Dividend = -s
  <2>1. x \in MDR!Word
    BY DEF MdrType
  <2>2. x \in 0 .. 2 * Half - 1 /\ s \in -Half .. Half - 1 /\ s = IF x >= Half THEN x - MDR!N ELSE x
    BY <2>1, WordSign DEF MDR!Signed, MDR!NegWord, Half
  <2>. QED  BY <1>1, <1>2, <1>3, <2>2 DEF Dividend
<1> HIDE DEF x, y, s, t
<1>5. MDR!Quotient(s, t) = IF x = Half THEN 1 ELSE 0
  <2>1. MDR!Abs(t) = Half /\ MDR!Abs(s) \in 0 .. Half /\ (MDR!Abs(s) = Half <=> x = Half)
    BY <1>2, <1>3, <1>4 DEF MDR!Abs
  <2>2. MDR!Abs(s) \div Half = IF x = Half THEN 1 ELSE 0
    <3>1. Half * 1 + 0 = Half /\ 0 \in 0 .. Half - 1 /\ 1 \in Int /\ 0 \in Int
      BY <1>2
    <3>2. (Half * 1 + 0) \div Half = 1
      BY <1>2, <3>1, DivModUnique, Zenon
    <3>3. ASSUME NEW k \in 0 .. Half - 1 PROVE k \div Half = 0
      <4>1. Half * 0 + k = k
        BY <1>2
      <4>2. (Half * 0 + k) \div Half = 0
        BY <1>2, <3>1, DivModUnique, Zenon
      <4>. QED  BY <4>1, <4>2, Zenon
    <3>4. x # Half => MDR!Abs(s) \in 0 .. Half - 1
      BY <1>2, <2>1
    <3>. QED  BY <2>1, <3>1, <3>2, <3>3, <3>4, Zenon
  <2>3. x = Half => s < 0
    BY <1>2, <1>4
  <2>4. t < 0 /\ -0 = 0
    <3>1. -Half < 0
      BY <1>2
    <3>2. \A k \in Int : k <= 0 /\ k >= 0 => -k = 0
      OBVIOUS
    <3>3. 0 \in Int /\ 0 <= 0 /\ 0 >= 0
      OBVIOUS
    <3>. QED  BY <1>3, <3>1, <3>2, <3>3, Zenon
  <2>. QED  BY <2>1, <2>2, <2>3, <2>4, Zenon DEF MDR!Quotient
<1>6. 0 % MDR!N = 0 /\ 0 % MDR!M = 0 /\ MDR!M % MDR!M = 0
  <2>1. 0 \in 0 .. MDR!N - 1 /\ 0 \in 0 .. MDR!M - 1 /\ MDR!M * 1 + 0 = MDR!M /\ 1 \in Int
    BY <1>2
  <2>2. (MDR!M * 1 + 0) % MDR!M = 0
    BY <1>2, <2>1, DivModUnique, Zenon
  <2>. QED  BY <1>2, <2>1, <2>2, ModSmall, Zenon
<1>7. CASE uop = "DIV"
  <2>1. Overflow <=> x = Half
    BY <1>1, <1>7 DEF Overflow, x, y
  <2>2. x # Half => v = 0
    BY <1>7 DEF x
  <2>3. Taken(v) = v % MDR!N
    BY <1>7 DEF Taken
  <2>4. Meant = MDR!Quotient(s, t) % MDR!N
    BY <1>3, <1>7 DEF Meant, MDR!Meaning, s, t, x, y
  <2>. QED  BY <1>5, <1>6, <1>7, <2>1, <2>2, <2>3, <2>4
<1>8. CASE uop = "REM"
  <2>1. Meant = (s - t * MDR!Quotient(s, t)) % MDR!N
    BY <1>3, <1>8 DEF Meant, MDR!Meaning, s, t, x, y
  <2>2. CASE x = Half
    <3>1. v = 0 /\ s - t * MDR!Quotient(s, t) = 0
      BY <1>2, <1>3, <1>4, <1>5, <1>8, <2>2 DEF x
    <3>2. MDR!Neg(v) = 0
      <4>1. MDR!M - 0 = MDR!M
        BY <1>2
      <4>. QED  BY <1>6, <3>1, <4>1, Zenon DEF MDR!Neg
    <3>. QED  BY <1>3, <1>6, <1>8, <2>1, <3>1, <3>2, Zenon
  <2>3. CASE x # Half
    <3>1. v = Of(-s) /\ -s \in Int /\ s \in Int /\ -(-s) = s /\ s - t * MDR!Quotient(s, t) = s
      BY <1>2, <1>3, <1>4, <1>5, <1>8, <2>3 DEF x
    <3>2. MDR!Neg(Of(-s)) = Of(-(-s)) /\ Of(s) % MDR!N = s % MDR!N
      BY <3>1, LongArith, Zenon
    <3>. QED  BY <1>3, <1>8, <2>1, <3>1, <3>2, Zenon
  <2>. QED  BY <2>2, <2>3
<1>. QED  BY <1>1, <1>7, <1>8

\* One step of the calculation: it goes on as it should, or ends with what the
\* instruction means.
LEMMA CalcStep == MdrInv /\ MDR!Calc => MdrInv'
<1> SUFFICES ASSUME MdrInv, MDR!Calc PROVE MdrInv'
  OBVIOUS
<1>1. /\ curr_state = "CALC"
      /\ curr_state' = IF ~MDR!calc_done THEN "CALC"
                       ELSE IF need_to_sign_restore THEN "RESTORE_SIGN"
                       ELSE "DONE"
      /\ opa' = MDR!next_a /\ opb' = MDR!next_b /\ b_shift' = MDR!next_b_shift /\ result' = MDR!next_result
      /\ uop' = uop /\ args' = args /\ need_to_sign_restore' = need_to_sign_restore
  BY DEF MDR!Calc
<1>2. MdrType /\ (need_to_sign_restore <=> uop = "REM" /\ Swapped)
  BY <1>1 DEF MdrInv
<1>3. b_shift' \in Nat
  <2>1. b_shift \div 2 \in Nat
    BY <1>2, LastBit DEF MdrType
  <2>. QED  BY <1>1, <2>1 DEF MDR!next_b_shift
<1>4. /\ Dividend' = Dividend /\ Divisor' = Divisor /\ Swapped' = Swapped /\ Size' = Size /\ Sgn' = Sgn
      /\ ByLowest' = ByLowest /\ Divides' = Divides /\ ByZero' = ByZero
      /\ Meant' = Meant /\ Overflow' = Overflow
  <2>1. Swapped' = Swapped
    BY <1>1 DEF Swapped
  <2>2. Dividend' = Dividend /\ Divisor' = Divisor
    BY <1>1, <2>1 DEF Dividend, Divisor
  <2>. QED
    BY <1>1, <2>1, <2>2 DEF Size, Sgn, ByLowest, Divides, ByZero, Meant, Overflow
<1>5. ASSUME MDR!next_a \in MDR!Long, MDR!next_b \in MDR!Long, MDR!next_result \in MDR!Long
      PROVE  MdrType'
  BY <1>1, <1>2, <1>3, <1>5 DEF MdrType
<1>6. ASSUME MdrType', MDR!calc_done,
             uop = "REM" /\ Swapped => MDR!Neg(MDR!next_result) % MDR!N = Meant,
             ~(uop = "REM" /\ Swapped) => Overflow \/ Taken(MDR!next_result) = Meant
      PROVE  MdrInv'
  <2>1. Taken(MDR!next_result) = Taken(result)'
    BY <1>1 DEF Taken
  <2>2. CASE uop = "REM" /\ Swapped
    <3>1. curr_state' = "RESTORE_SIGN"
      BY <1>1, <1>2, <1>6, <2>2
    <3>. QED  BY <1>1, <1>4, <1>6, <2>2, <3>1 DEF MdrInv
  <2>3. CASE ~(uop = "REM" /\ Swapped)
    <3>1. curr_state' = "DONE"
      BY <1>1, <1>2, <1>6, <2>3
    <3>. QED  BY <1>1, <1>4, <1>6, <2>1, <2>3, <3>1 DEF MdrInv
  <2>. QED  BY <2>2, <2>3
<1>7. ~MDR!calc_done => curr_state' = "CALC" /\ (need_to_sign_restore' <=> uop' = "REM" /\ Swapped')
  BY <1>1, <1>2, <1>4
<1>8. CASE uop \in MDR!MulOps
  <2>1. ~ByZero /\ ~Divides /\ ~ByLowest /\ Multiplying /\ uop # "REM"
    <3>1. uop # "REM"
      BY <1>8 DEF MDR!MulOps
    <3>. QED  BY <1>1, <1>2, <1>8, <3>1, Kinds DEF MdrInv
  <2>2. /\ MDR!next_a \in MDR!Long /\ MDR!next_b \in MDR!Long /\ MDR!next_result \in MDR!Long
        /\ Of(MDR!next_result + MDR!next_a * MDR!next_b) = Of(result + opa * opb)
        /\ MDR!calc_done <=> MDR!next_b = 0
    BY <1>2, <1>8, MulStep, Zenon
  <2>3. Multiplying'
    BY <1>1, <2>1, <2>2, Zenon DEF Multiplying, Of, MDR!M, MDR!init_opa, MDR!init_opb, MDR!SExt, MDR!NegWord, MDR!N, MDR!MulOps
  <2>4. CASE MDR!calc_done
    <3>1. MDR!next_result + MDR!next_a * MDR!next_b = MDR!next_result
      BY <2>2, <2>4, Sizes DEF MDR!Long
    <3>2. Of(MDR!next_result) = MDR!next_result
      BY <2>2, Sizes, ModSmall DEF Of, MDR!Long
    <3>3. MDR!next_result = Of(MDR!init_opa(uop, args[1]) * MDR!init_opb(uop, args[2]))
      BY <2>1, <2>2, <3>1, <3>2, Zenon DEF Multiplying
    <3>4. Taken(MDR!next_result) = Meant
      <4>1. args[1] \in MDR!Word /\ args[2] \in MDR!Word
        BY <1>2 DEF MdrType
      <4>. QED  BY <1>8, <3>3, <4>1, ProductMeans, Zenon DEF Meant
    <3>. QED  BY <1>5, <1>6, <2>1, <2>2, <2>4, <3>4, Zenon
  <2>5. CASE ~MDR!calc_done
    BY <1>4, <1>5, <1>7, <2>1, <2>2, <2>3, <2>5 DEF MdrInv
  <2>. QED  BY <2>4, <2>5
<1>9. CASE ByZero
  <2>1. opb = 0 /\ opa = MDR!init_opa(uop, args[1])
    BY <1>1, <1>9 DEF MdrInv
  <2>2. /\ MDR!next_a \in MDR!Long /\ MDR!next_b \in MDR!Long /\ MDR!next_result \in MDR!Long
        /\ MDR!calc_done
        /\ ~Swapped
        /\ Taken(MDR!next_result) = Meant
    BY <1>2, <1>9, <2>1, ZeroStep, Zenon
  <2>. QED  BY <1>5, <1>6, <2>2, Zenon
<1>10. CASE Divides
  <2>1. Dividing /\ uop \notin MDR!MulOps /\ ~ByZero /\ ~ByLowest
    BY <1>1, <1>2, <1>10, Kinds DEF MdrInv
  <2>2. /\ MDR!next_a \in MDR!Long /\ MDR!next_b \in MDR!Long /\ MDR!next_result \in MDR!Long
        /\ ~MDR!calc_done => /\ MDR!next_b_shift \in Weights
                             /\ MDR!next_b = Divisor * MDR!next_b_shift
                             /\ opb = 2 * MDR!next_b
    BY <1>2, <1>10, <2>1, DivStep, Zenon
  <2>3. PICK q \in Nat, r \in Nat :
          /\ Size = q * Divisor + r
          /\ MDR!next_a = Of(Sgn * r)
          /\ MDR!next_result = Of(Sgn * (IF uop \in {"DIV", "DIVU"} THEN q ELSE r))
          /\ r < opb
          /\ MDR!calc_done => r < Divisor
    BY <1>2, <1>10, <2>1, DivStep, Zenon
  <2>4. CASE MDR!calc_done
    <3>1. /\ uop = "REM" /\ Swapped => MDR!Neg(MDR!next_result) % MDR!N = Meant
          /\ ~(uop = "REM" /\ Swapped) => Taken(MDR!next_result) = Meant
      BY <1>2, <1>10, <2>3, <2>4, DivisionMeans, Zenon DEF Meant
    <3>. QED  BY <1>5, <1>6, <2>2, <2>4, <3>1, Zenon
  <2>5. CASE ~MDR!calc_done
    <3>1. /\ MDR!next_b_shift \in Weights
          /\ MDR!next_b = Divisor * MDR!next_b_shift
          /\ r < 2 * MDR!next_b
      BY <2>2, <2>3, <2>5, Zenon
    <3>2. uop' \in {"DIV", "DIVU"} => result' = Of(Sgn * q)
      BY <1>1, <2>3, Zenon
    <3>3. Left(q, r)'
      BY <1>1, <1>4, <2>3, <3>2, Zenon DEF Left, Of, MDR!M
    <3>4. Dividing'
      BY <1>1, <1>4, <3>1, <3>3, Zenon DEF Dividing, Weights
    <3>. QED  BY <1>1, <1>4, <1>5, <1>7, <2>1, <2>2, <2>5, <3>4, Zenon DEF MdrInv, MDR!MulOps
  <2>. QED  BY <2>4, <2>5
<1>11. CASE ByLowest
  <2>1. Lowering /\ uop \notin MDR!MulOps /\ ~ByZero /\ ~Divides /\ uop \in {"DIV", "REM"}
    BY <1>1, <1>2, <1>11, Kinds DEF MdrInv
  <2>2. /\ MDR!next_a \in MDR!Long /\ MDR!next_b \in MDR!Long /\ MDR!next_result \in MDR!Long
        /\ ~MDR!calc_done =>
              /\ MDR!next_b_shift \in Weights
              /\ MDR!next_b = MDR!M - Half * MDR!next_b_shift
              /\ MDR!next_a = Of(Dividend)
              /\ uop = "DIV" => MDR!next_result = 0
              /\ args[1] = Half => MDR!next_b_shift # 1
        /\ MDR!calc_done /\ args[1] = Half /\ uop = "REM" => MDR!next_result = 0
        /\ MDR!calc_done /\ args[1] # Half =>
              MDR!next_result = IF uop = "DIV" THEN 0 ELSE Of(Dividend)
    BY <1>2, <1>11, <2>1, LowestStep, Zenon
  <2>3. CASE MDR!calc_done
    <3>1. /\ uop = "REM" /\ Swapped => MDR!Neg(MDR!next_result) % MDR!N = Meant
          /\ ~(uop = "REM" /\ Swapped) => Overflow \/ Taken(MDR!next_result) = Meant
      BY <1>2, <1>11, <2>1, <2>2, <2>3, LowestMeans
    <3>. QED  BY <1>5, <1>6, <2>2, <2>3, <3>1, Zenon
  <2>4. CASE ~MDR!calc_done
    <3>1. Lowering'
      BY <1>1, <1>4, <2>2, <2>4, Zenon DEF Lowering, Weights, Of, MDR!M, Half, MDR!N
    <3>. QED  BY <1>1, <1>4, <1>5, <1>7, <2>1, <2>2, <2>4, <3>1, Zenon DEF MdrInv, MDR!MulOps
  <2>. QED  BY <2>3, <2>4
<1>. QED  BY <1>2, <1>8, <1>9, <1>10, <1>11, Kinds

\* Every step of the unit keeps its state meaningful.
LEMMA MdrStep == MdrInv /\ (MDR!Next \/ UNCHANGED mdrVars) => MdrInv'
<1> SUFFICES ASSUME MdrInv, MDR!Next \/ UNCHANGED mdrVars PROVE MdrInv'
  OBVIOUS
<1>1. CASE \E op \in MDR!Uops, x, y \in MDR!Word : MDR!Accept(op, x, y)
  <2>1. PICK op \in MDR!Uops, x \in MDR!Word, y \in MDR!Word : MDR!Accept(op, x, y)
    BY <1>1
  <2>2. args'[1] = x /\ args'[2] = y /\ args' \in MDR!Word \X MDR!Word /\ uop' = op
    BY <2>1 DEF MDR!Accept
  <2>3. opa' = MDR!init_opa(uop, args[1])' /\ opb' = MDR!init_opb(uop, args[2])'
    BY <2>1, <2>2, Zenon DEF MDR!Accept, MDR!init_opa, MDR!init_opb, MDR!SExt, MDR!NegWord, MDR!N, MDR!M, MDR!MulOps
  <2>4. curr_state' = IF MDR!NegWord(args[2])' /\ uop' \in MDR!SignedDiv THEN "SWAP_SIGN" ELSE "CALC"
    BY <2>1, <2>2, Zenon DEF MDR!Accept, MDR!NegWord, MDR!N
  <2>5. uop' \in MDR!Uops
    BY <2>2
  <2>6. b_shift' = MDR!N /\ result' = 0 /\ need_to_sign_restore' = FALSE
    BY <2>1 DEF MDR!Accept
  <2>7. Fresh'
    BY <2>2, <2>3, <2>4, <2>5, <2>6, Zenon DEF Fresh, MDR!Uops, MDR!MulOps, MDR!SignedDiv, MDR!Word, MDR!N
  <2>. QED  BY <2>7, FreshIsRight, PTL
<1>2. CASE MDR!SwapSign
  BY <1>2, SwapStep, StartIsRight, PTL
<1>3. CASE MDR!Calc
  BY <1>3, CalcStep
<1>4. CASE MDR!RestoreSign
  <2>1. /\ curr_state = "RESTORE_SIGN" /\ curr_state' = "DONE" /\ result' = MDR!Neg(result)
        /\ UNCHANGED <<uop, args, opa, opb, b_shift, need_to_sign_restore>>
    BY <1>4 DEF MDR!RestoreSign
  <2>2. MdrType /\ uop = "REM" /\ MDR!Neg(result) % MDR!N = Meant
    BY <2>1 DEF MdrInv
  <2>3. MDR!Neg(result) \in MDR!Long
    <3>1. MDR!M - result \in Int
      BY <2>2, Sizes DEF MdrType, MDR!Long
    <3>. QED  BY <3>1, LongArith, Zenon DEF MDR!Neg, Of
  <2>4. MdrType'
    BY <2>1, <2>2, <2>3 DEF MdrType
  <2>5. Taken(result)' = Meant'
    BY <2>1, <2>2 DEF Taken, Meant
  <2>. QED  BY <2>1, <2>4, <2>5 DEF MdrInv
<1>5. CASE \E W_rdy \in BOOLEAN : MDR!Deliver(W_rdy)
  <2>1. /\ curr_state \in {"IDLE", "DONE"} /\ curr_state' \in {"IDLE", curr_state}
        /\ UNCHANGED <<uop, args, opa, opb, b_shift, result, need_to_sign_restore>>
    BY <1>5 DEF MDR!Deliver
  <2>2. MdrType'
    BY <2>1 DEF MdrInv, MdrType
  <2>3. Taken(result)' = Taken(result) /\ Meant' = Meant /\ Overflow' = Overflow
    BY <2>1 DEF Taken, Meant, Overflow
  <2>. QED  BY <2>1, <2>2, <2>3 DEF MdrInv
<1>6. CASE UNCHANGED mdrVars
  BY <1>6 DEF mdrVars, MdrInv, MdrType, Swapped, Multiplying, ByZero, Divides, Dividing, Left,
              ByLowest, Lowering, Meant, Overflow, Taken, Divisor, Dividend, Size, Sgn
<1>7. MDR!Next =>
        \/ \E op \in MDR!Uops, x, y \in MDR!Word : MDR!Accept(op, x, y)
        \/ MDR!SwapSign \/ MDR!Calc \/ MDR!RestoreSign
        \/ \E W_rdy \in BOOLEAN : MDR!Deliver(W_rdy)
  BY Zenon DEF MDR!Next, MDR!Cycle, MDR!Issue
<1>. QED  BY <1>1, <1>2, <1>3, <1>4, <1>5, <1>6, <1>7

\* Before the first instruction nothing is meant.
LEMMA MdrStart == MDR!Init => MdrInv
<1> SUFFICES ASSUME MDR!Init PROVE MdrInv
  OBVIOUS
<1>1. 0 \in MDR!Long /\ 0 \in MDR!Word
  BY Sizes DEF MDR!Long, MDR!Word
<1>2. MdrType
  BY <1>1 DEF MdrType, MDR!Init, MDR!Uops, MDR!MulOps
<1>. QED  BY <1>2 DEF MdrInv, MDR!Init

\* What the invariant says of a result, and of a calculation.
LEMMA MdrPromise ==
  ASSUME MdrInv
  PROVE  MDR!ResultIsCorrect /\ MDR!NothingIsLost
<1>1. MDR!ResultIsCorrect
  <2>1. MDR!wdata = Taken(result)
    BY DEF MDR!wdata, Taken
  <2>2. args = <<Half, Half>> => args[1] = Half /\ args[2] = Half
    OBVIOUS
  <2>3. Overflow => uop = "DIV" /\ args = <<Half, Half>>
    BY DEF Overflow, MdrInv, MdrType
  <2>. QED  BY <2>1, <2>3 DEF MDR!ResultIsCorrect, MdrInv, MDR!W_val, Meant, Half
<1>2. MDR!ProductIsKept
  BY DEF MDR!ProductIsKept, MdrInv, Multiplying, Of
<1>3. MDR!QuotientIsKept
  <2> DEFINE swapped  == uop = "DIV" /\ MDR!NegWord(args[2])
             divisor  == IF swapped THEN MDR!N - args[2] ELSE args[2]
             dividend == IF swapped THEN MDR!Neg(MDR!init_opa(uop, args[1])) ELSE MDR!init_opa(uop, args[1])
  <2> SUFFICES ASSUME curr_state = "CALC", uop \in {"DIV", "DIVU"}, b_shift > 0, args[2] \notin {0, Half}
               PROVE  /\ (result * divisor + opa) % MDR!M = dividend
                      /\ opb = divisor * b_shift
                      /\ (IF uop = "DIV" THEN MDR!abs_a ELSE opa) < 2 * opb
    BY Zenon DEF MDR!QuotientIsKept, Half
  <2>1. uop \notin MDR!MulOps /\ (uop \in MDR!SignedDiv <=> uop = "DIV")
    BY DEF MDR!MulOps, MDR!SignedDiv
  <2>2. MdrType /\ Dividing
    BY <2>1 DEF MdrInv, Divides
  <2>3. swapped <=> Swapped
    BY <2>1 DEF Swapped
  <2>4. divisor = Divisor
    BY <2>3 DEF Divisor
  <2>5. PICK q \in Nat, r \in Nat : Left(q, r) /\ r < 2 * opb
    BY <2>2, Zenon DEF Dividing
  <2>6. /\ Dividend \in Int /\ Sgn \in {-1, 1} /\ Size \in Nat /\ Dividend = Sgn * Size
        /\ uop \notin MDR!SignedDiv => Sgn = 1
        /\ Divisor \in Int
    <3>1. args[2] # 0 /\ args[2] # Half
      OBVIOUS
    <3>2. Divides
      BY <2>1, <3>1 DEF Divides
    <3>. QED  BY <2>1, <2>2, <3>2, DivisionOperands
  <2>7. Size = q * Divisor + r /\ opa = Of(Sgn * r) /\ result = Of(Sgn * q) /\ r <= Size
    <3>1. Size = q * Divisor + r /\ opa = Of(Sgn * r) /\ result = Of(Sgn * q)
      BY <2>5 DEF Left
    <3>2. Divisor \in Nat
      <4>1. Divides
        BY <2>1 DEF Divides
      <4>. QED  BY <2>1, <2>2, <4>1, DivisionOperands, Sizes
    <3>3. q * Divisor \in Nat
      BY <3>2
    <3>. QED  BY <2>6, <3>1, <3>3
  <2>8. dividend = Of(Dividend)
    <3>1. args[1] \in MDR!Word
      BY <2>2 DEF MdrType
    <3>2. MDR!SExt(args[1]) = Of(MDR!Signed(args[1])) /\ MDR!Signed(args[1]) \in Int
      BY <3>1, WordSign
    <3>3. CASE uop = "DIV"
      <4>1. MDR!init_opa(uop, args[1]) = Of(MDR!Signed(args[1]))
        BY <3>2, <3>3 DEF MDR!init_opa
      <4>2. MDR!Neg(Of(MDR!Signed(args[1]))) = Of(-MDR!Signed(args[1]))
        BY <3>2, LongArith, Zenon
      <4>. QED  BY <2>1, <2>3, <3>3, <4>1, <4>2, Zenon DEF Dividend
    <3>4. CASE uop = "DIVU"
      <4>1. MDR!init_opa(uop, args[1]) = args[1] /\ ~swapped
        BY <3>4 DEF MDR!init_opa
      <4>2. Of(args[1]) = args[1]
        <5>1. args[1] \in 0 .. MDR!M - 1
          <6> DEFINE n1 == MDR!N
          <6>1. n1 \in Nat \ {0} /\ args[1] \in 0 .. n1 - 1 /\ MDR!M = n1 * n1
            BY <3>1, Sizes DEF MDR!Word
          <6> HIDE DEF n1
          <6>2. n1 * n1 >= n1
            BY <6>1
          <6>. QED  BY <6>1, <6>2
        <5>. QED  BY <5>1, Sizes, ModSmall DEF Of
      <4>. QED  BY <2>1, <3>4, <4>1, <4>2 DEF Dividend
    <3>. QED  BY <3>3, <3>4
  <2>9. (result * Divisor + opa) % MDR!M = Of(Dividend)
    <3> DEFINE a == Sgn * q
               b == Sgn * r
               d == Divisor
    <3>1. a \in Int /\ b \in Int /\ d \in Int /\ a * d + b = Dividend
      <4>1. CASE Sgn = 1
        BY <2>6, <2>7, <4>1
      <4>2. CASE Sgn = -1
        BY <2>6, <2>7, <4>2
      <4>. QED  BY <2>6, <4>1, <4>2
    <3>2. result = Of(a) /\ opa = Of(b)
      BY <2>7
    <3> HIDE DEF a, b, d
    <3>3. Of(a) * d \in Int /\ a * d \in Int /\ Of(b) \in Int
      <4>1. Of(a) \in MDR!Long /\ Of(b) \in MDR!Long
        BY <3>1, LongArith, Zenon
      <4>. QED  BY <3>1, <4>1, Sizes DEF MDR!Long
    <3>4. Of(Of(a) * d) = Of(a * d)
      BY <3>1, LongArith, Zenon DEF Of
    <3>5. /\ (Of(Of(a) * d) + Of(b)) % MDR!M = Of(Of(a) * d + b)
          /\ (Of(a * d) + Of(b)) % MDR!M = Of(a * d + b)
          /\ (Of(b) + Of(a) * d) % MDR!M = Of(b + Of(a) * d)
      BY <3>1, <3>3, LongArith, Zenon
    <3>6. Of(b) + Of(a) * d = Of(a) * d + Of(b) /\ b + Of(a) * d = Of(a) * d + b
      BY <3>1, <3>3
    <3>. QED  BY <3>1, <3>2, <3>4, <3>5, <3>6, Zenon DEF d
  <2>10. (IF uop = "DIV" THEN MDR!abs_a ELSE opa) = r
    <3>1. /\ (IF MDR!NegLong(Of(Sgn * r)) THEN MDR!Neg(Of(Sgn * r)) ELSE Of(Sgn * r)) = r
          /\ Sgn = 1 => Of(Sgn * r) = r
      BY <2>1, <2>2, <2>7, Remainder, Zenon
    <3>. QED  BY <2>1, <2>6, <2>7, <3>1, Zenon DEF MDR!abs_a
  <2>. QED  BY <2>2, <2>4, <2>5, <2>8, <2>9, <2>10 DEF Dividing
<1>. QED  BY <1>1, <1>2, <1>3 DEF MDR!NothingIsLost

\* Every product, quotient and remainder that leaves the unit is the one that
\* the functional model computes, for every width of the words and every
\* sequence of instructions, but for the most negative word divided by itself.
THEOREM MulDivRemIsCorrect == UnitSpec => []ResultIsCorrect
<1>1. UnitInit => MdrInv
  BY MdrStart DEF UnitInit
<1>2. MdrInv /\ [UnitNext]_unitVars => MdrInv'
  BY MdrStep DEF UnitNext, unitVars
<1>3. MdrInv => ResultIsCorrect
  BY MdrPromise DEF ResultIsCorrect
<1>. QED  BY <1>1, <1>2, <1>3, PTL DEF UnitSpec, unitVars

\* In the middle of a calculation, what is done and what remains to be done
\* make up the whole product or the whole dividend.
THEOREM CalculationLosesNothing == UnitSpec => []NothingIsLost
<1>1. UnitInit => MdrInv
  BY MdrStart DEF UnitInit
<1>2. MdrInv /\ [UnitNext]_unitVars => MdrInv'
  BY MdrStep DEF UnitNext, unitVars
<1>3. MdrInv => NothingIsLost
  BY MdrPromise DEF NothingIsLost
<1>. QED  BY <1>1, <1>2, <1>3, PTL DEF UnitSpec, unitVars

-----------------------------------------------------------------------------
(* The screen.                                                             *)

\* The row after a row, around the ring.
RowAfter(y) == IF y = Rows - 1 THEN 0 ELSE y + 1

\* The row that is so many rows on.
RowOn(y, k) == IF y + k < Rows THEN y + k ELSE (y + k) - Rows

\* The row after the cursor's is the top one; the rows are rows of characters;
\* and before the first column is written, it is blank.
ScreenInv ==
  /\ mem \in [Screen!Row -> [Screen!Col -> Screen!Ascii \cup {Screen!Blank}]]
  /\ cursor_x \in Screen!Col
  /\ cursor_y \in Screen!Row
  /\ shift_offset = RowAfter(cursor_y)
  /\ cursor_x = 0 => mem[cursor_y][0] = Screen!Blank

\* Counting on from a row leads around to the first.
LEMMA Around ==
  ASSUME NEW a \in 0 .. 2 * Rows - 1
  PROVE  (a < Rows => a % Rows = a) /\ (a >= Rows => a % Rows = a - Rows)
<1>1. Rows \in Nat \ {0}
  BY ScreenAssumption
<1>2. CASE a < Rows
  <2>1. a \in 0 .. Rows - 1
    BY <1>1, <1>2
  <2>. QED  BY <1>1, <1>2, <2>1, ModSmall
<1>3. CASE a >= Rows
  <2>1. a - Rows \in 0 .. Rows - 1 /\ a - Rows \in Int /\ 1 \in Int /\ (a - Rows) + Rows * 1 = a
    BY <1>1, <1>3
  <2>2. ((a - Rows) + Rows * 1) % Rows = (a - Rows) % Rows
    BY <1>1, <2>1, ModSame, Zenon
  <2>3. (a - Rows) % Rows = a - Rows
    BY <1>1, <2>1, ModSmall, Zenon
  <2>. QED  BY <1>1, <1>3, <2>1, <2>2, <2>3
<1>. QED  BY <1>1, <1>2, <1>3

\* Rows counted from the one after row c end with row c.
LEMMA Turned ==
  ASSUME NEW c \in Screen!Row, NEW s, s = RowAfter(c)
  PROVE  /\ s \in Screen!Row
         /\ \A y \in Screen!Row :
              /\ (y + s) % Rows \in Screen!Row
              /\ (y + s) % Rows = c => y = Rows - 1
              /\ y = Rows - 1 => (y + s) % Rows = c
              /\ (y + s) % Rows = RowOn(y, s)
         /\ (c + 1) % Rows = s
         /\ (s + 1) % Rows = RowAfter(s)
<1>1. Rows \in Nat /\ Rows >= 2 /\ c \in 0 .. Rows - 1 /\ s \in 0 .. Rows - 1
  BY ScreenAssumption DEF Screen!Row, RowAfter
<1>2. ASSUME NEW y \in Screen!Row
      PROVE  (y + s) % Rows = RowOn(y, s)
  <2>1. y + s \in 0 .. 2 * Rows - 1
    BY <1>1 DEF Screen!Row
  <2>2. /\ y + s < Rows => (y + s) % Rows = y + s
        /\ y + s >= Rows => (y + s) % Rows = (y + s) - Rows
    BY <2>1, Around, Zenon
  <2>. QED  BY <1>1, <2>2 DEF Screen!Row, RowOn
<1>3. (c + 1) % Rows = s
  <2>1. c + 1 \in 0 .. 2 * Rows - 1
    BY <1>1
  <2>2. /\ c + 1 < Rows => (c + 1) % Rows = c + 1
        /\ c + 1 >= Rows => (c + 1) % Rows = (c + 1) - Rows
    BY <2>1, Around, Zenon
  <2>. QED  BY <1>1, <2>2 DEF RowAfter
<1>4. (s + 1) % Rows = RowAfter(s)
  <2>1. s + 1 \in 0 .. 2 * Rows - 1
    BY <1>1
  <2>2. /\ s + 1 < Rows => (s + 1) % Rows = s + 1
        /\ s + 1 >= Rows => (s + 1) % Rows = (s + 1) - Rows
    BY <2>1, Around, Zenon
  <2>. QED  BY <1>1, <2>2 DEF RowAfter
<1>5. ASSUME NEW y \in Screen!Row
      PROVE  (y + s) % Rows \in Screen!Row /\ ((y + s) % Rows = c <=> y = Rows - 1)
  <2>1. RowOn(y, s) \in Screen!Row /\ (RowOn(y, s) = c <=> y = Rows - 1)
    BY <1>1 DEF Screen!Row, RowOn, RowAfter
  <2>. QED  BY <1>2, <2>1, Zenon
<1>6. s \in Screen!Row
  BY <1>1 DEF Screen!Row
<1>. QED  BY <1>2, <1>3, <1>4, <1>5, <1>6, Zenon

\* Where a character leads the cursor.
LEMMA Cursor ==
  ASSUME ScreenInv, NEW ascii \in Screen!Ascii, ascii # Screen!ESC
  PROVE  /\ Screen!next_cursor_x(ascii) =
              IF ascii = Screen!DEL THEN IF cursor_x = 0 THEN 0 ELSE cursor_x - 1
              ELSE IF ascii = Screen!LF \/ cursor_x = Cols - 1 THEN 0 ELSE cursor_x + 1
         /\ Screen!new_line(ascii) <=> ascii # Screen!DEL /\ (ascii = Screen!LF \/ cursor_x = Cols - 1)
         /\ Screen!next_cursor_y(ascii) = IF Screen!new_line(ascii) THEN shift_offset ELSE cursor_y
<1>1. cursor_x \in 0 .. Cols - 1 /\ Cols \in Nat \ {0}
  BY ScreenAssumption DEF ScreenInv, Screen!Col
<1>2. (cursor_x + 1) % Cols = IF cursor_x = Cols - 1 THEN 0 ELSE cursor_x + 1
  <2>1. CASE cursor_x = Cols - 1
    <3>1. 0 \in 0 .. Cols - 1 /\ 0 \in Int /\ 1 \in Int /\ 0 + Cols * 1 = cursor_x + 1
      BY <1>1, <2>1
    <3>2. (0 + Cols * 1) % Cols = 0 % Cols /\ 0 % Cols = 0
      BY <1>1, <3>1, ModSame, ModSmall, Zenon
    <3>. QED  BY <2>1, <3>1, <3>2, Zenon
  <2>2. CASE cursor_x # Cols - 1
    <3>1. cursor_x + 1 \in 0 .. Cols - 1
      BY <1>1, <2>2
    <3>. QED  BY <1>1, <2>2, <3>1, ModSmall, Zenon
  <2>. QED  BY <2>1, <2>2
<1>3. Screen!DEL # Screen!LF
  BY DEF Screen!DEL, Screen!LF
<1>4. Screen!next_cursor_x(ascii) =
        IF ascii = Screen!DEL THEN IF cursor_x = 0 THEN 0 ELSE cursor_x - 1
        ELSE IF ascii = Screen!LF \/ cursor_x = Cols - 1 THEN 0 ELSE cursor_x + 1
  BY <1>2, <1>3 DEF Screen!next_cursor_x
<1>5. Screen!new_line(ascii) <=> ascii # Screen!DEL /\ (ascii = Screen!LF \/ cursor_x = Cols - 1)
  BY <1>1, <1>4 DEF Screen!new_line
<1>6. Screen!next_cursor_y(ascii) = IF Screen!new_line(ascii) THEN shift_offset ELSE cursor_y
  <2>1. (cursor_y + 1) % Rows = shift_offset
    BY Turned, Zenon DEF ScreenInv
  <2>. QED  BY <2>1 DEF Screen!next_cursor_y
<1>. QED  BY <1>4, <1>5, <1>6

\* Every character leaves the rows in their order.
LEMMA ScreenStep ==
  ASSUME ScreenInv, NEW ascii \in Screen!Ascii, Screen!Write(ascii)
  PROVE  ScreenInv'
<1> DEFINE Char == Screen!Ascii \cup {Screen!Blank}
<1>1. Rows \in Nat /\ Rows >= 2 /\ Cols \in Nat \ {0} /\ 0 \in Screen!Row /\ 0 \in Screen!Col
      /\ 1 \in Screen!Row
  BY ScreenAssumption DEF Screen!Row, Screen!Col
<1>2. Screen!BlankRow \in [Screen!Col -> Char] /\ \A x \in Screen!Col : Screen!BlankRow[x] = Screen!Blank
  BY DEF Screen!BlankRow
<1>3. CASE ascii = Screen!ESC
  <2>1. /\ mem' = [y \in Screen!Row |-> Screen!BlankRow]
        /\ cursor_x' = 0 /\ cursor_y' = 0 /\ shift_offset' = 1
    BY <1>3 DEF Screen!Write
  <2>2. mem' \in [Screen!Row -> [Screen!Col -> Char]] /\ mem'[cursor_y'][0] = Screen!Blank
    BY <1>1, <1>2, <2>1
  <2>3. shift_offset' = RowAfter(cursor_y')
    BY <1>1, <2>1 DEF RowAfter, Screen!Row
  <2>. QED  BY <1>1, <2>1, <2>2, <2>3 DEF ScreenInv
<1>4. CASE ascii # Screen!ESC
  <2> DEFINE x1 == Screen!next_cursor_x(ascii)
             y1 == Screen!next_cursor_y(ascii)
             nl == Screen!new_line(ascii)
  <2>1. /\ mem' = Screen!Stored(ascii) /\ cursor_x' = x1 /\ cursor_y' = y1
        /\ shift_offset' = IF nl THEN (shift_offset + 1) % Rows ELSE shift_offset
    BY <1>4 DEF Screen!Write
  <2>2. /\ x1 = IF ascii = Screen!DEL THEN IF cursor_x = 0 THEN 0 ELSE cursor_x - 1
                ELSE IF ascii = Screen!LF \/ cursor_x = Cols - 1 THEN 0 ELSE cursor_x + 1
        /\ nl <=> ascii # Screen!DEL /\ (ascii = Screen!LF \/ cursor_x = Cols - 1)
        /\ y1 = IF nl THEN shift_offset ELSE cursor_y
    BY <1>4, Cursor, Zenon
  <2>3. /\ cursor_x \in 0 .. Cols - 1 /\ cursor_y \in 0 .. Rows - 1
        /\ shift_offset = RowAfter(cursor_y)
        /\ mem \in [Screen!Row -> [Screen!Col -> Char]]
        /\ cursor_x = 0 => mem[cursor_y][0] = Screen!Blank
    BY DEF ScreenInv, Screen!Row, Screen!Col
  <2>4. (shift_offset + 1) % Rows = RowAfter(shift_offset)
    BY Turned, Zenon DEF ScreenInv
  <2>5. \A y \in Screen!Row :
          mem'[y] = IF nl /\ y = y1 THEN Screen!BlankRow
                    ELSE IF ascii # Screen!LF /\ y = cursor_y
                      THEN [mem[y] EXCEPT ![IF ascii = Screen!DEL THEN Screen!next_cursor_x(Screen!DEL) ELSE cursor_x] =
                                            IF ascii = Screen!DEL THEN Screen!Blank ELSE ascii]
                    ELSE mem[y]
    BY <2>1 DEF Screen!Stored
  <2>6. ascii = Screen!DEL => Screen!next_cursor_x(Screen!DEL) = x1
    OBVIOUS
  <2> HIDE DEF x1, y1, nl, Char
  <2>7. x1 \in Screen!Col /\ y1 \in Screen!Row /\ cursor_x \in Screen!Col /\ cursor_y \in Screen!Row
    BY <1>1, <2>2, <2>3 DEF Screen!Row, Screen!Col, RowAfter
  <2>8. mem' \in [Screen!Row -> [Screen!Col -> Char]]
    <3>1. DOMAIN mem' = Screen!Row /\ mem' = [y \in Screen!Row |-> mem'[y]]
      BY <2>1 DEF Screen!Stored
    <3>2. ASSUME NEW y \in Screen!Row PROVE mem'[y] \in [Screen!Col -> Char]
      <4>1. mem[y] \in [Screen!Col -> Char] /\ ascii \in Char /\ Screen!Blank \in Char
        BY <2>3 DEF Char
      <4>. QED  BY <1>2, <2>5, <2>6, <4>1
    <3>. QED  BY <3>1, <3>2
  <2>9. shift_offset' = RowAfter(cursor_y')
    BY <1>1, <2>1, <2>2, <2>3, <2>4 DEF RowAfter
  <2>10. ASSUME x1 = 0 PROVE mem'[y1][0] = Screen!Blank
    <3>1. CASE nl
      BY <1>1, <1>2, <2>5, <2>7, <3>1
    <3>2. CASE ~nl
      <4>1. ascii = Screen!DEL /\ ascii # Screen!LF /\ y1 = cursor_y
        BY <1>1, <2>2, <2>3, <2>10, <3>2 DEF Screen!DEL, Screen!LF
      <4>2. mem'[cursor_y] = [mem[cursor_y] EXCEPT ![0] = Screen!Blank]
        BY <2>5, <2>6, <2>7, <2>10, <3>2, <4>1
      <4>3. mem[cursor_y] \in [Screen!Col -> Char]
        BY <2>3, <2>7
      <4>. QED  BY <1>1, <4>1, <4>2, <4>3
    <3>. QED  BY <3>1, <3>2
  <2>11. /\ Screen!Row' = Screen!Row /\ Screen!Col' = Screen!Col
    BY DEF Screen!Row, Screen!Col
  <2>. QED  BY <2>1, <2>7, <2>8, <2>9, <2>10 DEF ScreenInv, Char, Screen!Row, Screen!Col, Screen!Ascii, Screen!Blank, Screen!ESC, Screen!DEL, Screen!LF
<1>. QED  BY <1>3, <1>4

\* What is shown changes as if every row were moved.
LEMMA ScreenShows ==
  ASSUME ScreenInv, NEW ascii \in Screen!Ascii, Screen!Write(ascii)
  PROVE  Screen!Shown' = Screen!Terminal(Screen!Shown, cursor_x, ascii)
<1> DEFINE Char == Screen!Ascii \cup {Screen!Blank}
           r(y) == (y + shift_offset) % Rows
           r1(y) == (y + shift_offset') % Rows
<1>1. /\ Rows \in Nat /\ Rows >= 2 /\ Cols \in Nat \ {0}
      /\ cursor_x \in 0 .. Cols - 1 /\ cursor_y \in Screen!Row
      /\ shift_offset = RowAfter(cursor_y)
      /\ mem \in [Screen!Row -> [Screen!Col -> Char]]
      /\ cursor_x = 0 => mem[cursor_y][0] = Screen!Blank
      /\ Rows - 1 \in Screen!Row
  BY ScreenAssumption DEF ScreenInv, Screen!Col, Screen!Row
<1>2. /\ \A y \in Screen!Row :
           /\ r(y) \in Screen!Row
           /\ r(y) = cursor_y => y = Rows - 1
           /\ y = Rows - 1 => r(y) = cursor_y
           /\ r(y) = RowOn(y, shift_offset)
      /\ (shift_offset + 1) % Rows = RowAfter(shift_offset)
      /\ shift_offset \in Screen!Row
  <2>1. /\ cursor_y \in Screen!Row /\ shift_offset = RowAfter(cursor_y)
    BY <1>1
  <2>. QED  BY <2>1, Turned, Zenon
<1>3. /\ cursor_y' \in Screen!Row
      /\ shift_offset' = RowAfter(cursor_y')
  BY ScreenStep DEF ScreenInv, Screen!Row
<1>4. \A y \in Screen!Row :
           /\ r1(y) \in Screen!Row
           /\ r1(y) = cursor_y' => y = Rows - 1
           /\ y = Rows - 1 => r1(y) = cursor_y'
           /\ r1(y) = RowOn(y, shift_offset')
  BY <1>3, Turned, Zenon DEF r1
<1>5. Screen!Shown = [y \in Screen!Row |-> mem[r(y)]] /\ Screen!Shown' = [y \in Screen!Row |-> mem'[r1(y)]]
  BY DEF Screen!Shown, Screen!rrow, Screen!Row
<1> HIDE DEF r, r1, Char
<1>6. CASE ascii = Screen!ESC
  <2>1. mem' = [y \in Screen!Row |-> Screen!BlankRow]
    BY <1>6 DEF Screen!Write
  <2>2. Screen!Terminal(Screen!Shown, cursor_x, ascii) = [y \in Screen!Row |-> Screen!BlankRow]
    BY <1>6 DEF Screen!Terminal, Screen!ESC, Screen!DEL, Screen!LF
  <2>. QED  BY <1>4, <1>5, <2>1, <2>2
<1>7. CASE ascii # Screen!ESC
  <2> DEFINE nl == Screen!new_line(ascii)
             at == IF ascii = Screen!DEL THEN Screen!next_cursor_x(Screen!DEL) ELSE cursor_x
             ch == IF ascii = Screen!DEL THEN Screen!Blank ELSE ascii
             row == [mem[cursor_y] EXCEPT ![at] = ch]
  <2>1. /\ cursor_y' = Screen!next_cursor_y(ascii)
        /\ shift_offset' = IF nl THEN (shift_offset + 1) % Rows ELSE shift_offset
    BY <1>7 DEF Screen!Write
  <2>2. \A y \in Screen!Row :
          mem'[y] = IF nl /\ y = cursor_y' THEN Screen!BlankRow
                    ELSE IF ascii # Screen!LF /\ y = cursor_y THEN row
                    ELSE mem[y]
    <3>1. mem' = Screen!Stored(ascii)
      BY <1>7 DEF Screen!Write
    <3>. QED  BY <2>1, <3>1 DEF Screen!Stored
  <2>3. /\ Screen!next_cursor_x(ascii) =
              IF ascii = Screen!DEL THEN IF cursor_x = 0 THEN 0 ELSE cursor_x - 1
              ELSE IF ascii = Screen!LF \/ cursor_x = Cols - 1 THEN 0 ELSE cursor_x + 1
        /\ nl <=> ascii # Screen!DEL /\ (ascii = Screen!LF \/ cursor_x = Cols - 1)
        /\ Screen!next_cursor_y(ascii) = IF nl THEN shift_offset ELSE cursor_y
    BY <1>7, Cursor, Zenon
  <2>4. ascii = Screen!DEL => at = IF cursor_x = 0 THEN 0 ELSE cursor_x - 1
    BY <2>3
  <2>5. Screen!LF # Screen!DEL
    BY DEF Screen!LF, Screen!DEL
  <2> HIDE DEF nl, at, ch, row
  <2>6. Screen!Shown[Rows - 1] = mem[cursor_y] /\ r(Rows - 1) = cursor_y
    BY <1>1, <1>2, <1>5
  <2>7. CASE ~nl
    <3>1. \A y \in Screen!Row : r1(y) = r(y)
      BY <2>1, <2>7 DEF r, r1
    <3>2. ascii # Screen!LF
      BY <2>3, <2>5, <2>7
    <3>3. Screen!Shown' = [Screen!Shown EXCEPT ![Rows - 1] = row]
      BY <1>1, <1>2, <1>5, <2>2, <2>7, <3>1, <3>2
    <3>4. CASE ascii = Screen!DEL /\ cursor_x = 0
      <4>1. row = mem[cursor_y]
        <5>1. at = 0 /\ ch = Screen!Blank
          BY <2>4, <3>4 DEF ch
        <5>2. mem[cursor_y] \in [Screen!Col -> Char]
          BY <1>1
        <5>. QED  BY <1>1, <3>4, <5>1, <5>2 DEF row
      <4>2. Screen!Shown' = Screen!Shown
        BY <1>5, <2>6, <3>3, <4>1
      <4>3. Screen!Terminal(Screen!Shown, cursor_x, ascii) = Screen!Shown
        BY <1>7, <2>5, <3>4 DEF Screen!Terminal
      <4>. QED  BY <4>2, <4>3
    <3>5. CASE ascii = Screen!DEL /\ cursor_x # 0
      <4>1. Screen!Terminal(Screen!Shown, cursor_x, ascii) = Screen!Put(Screen!Shown, cursor_x - 1, Screen!Blank)
        BY <1>7, <2>5, <3>5 DEF Screen!Terminal
      <4>2. at = cursor_x - 1 /\ ch = Screen!Blank
        BY <2>4, <3>5 DEF ch
      <4>3. Screen!Put(Screen!Shown, cursor_x - 1, Screen!Blank) = [Screen!Shown EXCEPT ![Rows - 1] = row]
        BY <1>1, <1>5, <2>6, <4>2 DEF Screen!Put, row
      <4>. QED  BY <3>3, <4>1, <4>3
    <3>6. CASE ascii # Screen!DEL
      <4>1. cursor_x # Cols - 1 /\ at = cursor_x /\ ch = ascii
        BY <2>3, <2>7, <3>2, <3>6 DEF at, ch
      <4>2. Screen!Terminal(Screen!Shown, cursor_x, ascii) = Screen!Put(Screen!Shown, cursor_x, ascii)
        BY <1>7, <3>2, <3>6, <4>1 DEF Screen!Terminal
      <4>3. Screen!Put(Screen!Shown, cursor_x, ascii) = [Screen!Shown EXCEPT ![Rows - 1] = row]
        BY <1>1, <1>5, <2>6, <4>1 DEF Screen!Put, row
      <4>. QED  BY <3>3, <4>2, <4>3
    <3>. QED  BY <3>4, <3>5, <3>6
  <2>8. CASE nl
    <3>1. /\ \A y \in Screen!Row : y # Rows - 1 => y + 1 \in Screen!Row /\ r1(y) = r(y + 1) /\ r1(y) # cursor_y'
          /\ r1(Rows - 1) = cursor_y'
      <4>1. shift_offset' = RowAfter(shift_offset)
        BY <1>2, <2>1, <2>8
      <4>2. ASSUME NEW y \in Screen!Row, y # Rows - 1 PROVE y + 1 \in Screen!Row /\ r1(y) = r(y + 1)
        <5>1. y + 1 \in Screen!Row
          BY <1>1, <4>2 DEF Screen!Row
        <5>2. RowOn(y, RowAfter(shift_offset)) = RowOn(y + 1, shift_offset)
          <6>1. y \in 0 .. Rows - 1 /\ shift_offset \in 0 .. Rows - 1 /\ Rows \in Nat
            BY <1>1, <1>2 DEF Screen!Row
          <6>. QED  BY <4>2, <6>1 DEF RowAfter, RowOn
        <5>. QED  BY <1>2, <1>4, <4>1, <5>1, <5>2, Zenon
      <4>. QED  BY <1>1, <1>4, <4>2
    <3>2. \A y \in Screen!Row :
            mem'[r1(y)] = IF y = Rows - 1 THEN Screen!BlankRow
                          ELSE IF ascii # Screen!LF /\ y + 1 = Rows - 1 THEN row
                          ELSE mem[r(y + 1)]
      BY <1>2, <1>4, <2>2, <2>8, <3>1
    <3>3. CASE ascii = Screen!LF
      <4>1. Screen!Terminal(Screen!Shown, cursor_x, ascii) = Screen!ScrolledUp(Screen!Shown)
        BY <1>7, <2>5, <3>3 DEF Screen!Terminal
      <4>. QED  BY <1>5, <3>1, <3>2, <3>3, <4>1 DEF Screen!ScrolledUp
    <3>4. CASE ascii # Screen!LF
      <4>1. ascii # Screen!DEL /\ cursor_x = Cols - 1 /\ at = cursor_x /\ ch = ascii
        BY <2>3, <2>8, <3>4 DEF at, ch
      <4>2. Screen!Terminal(Screen!Shown, cursor_x, ascii) = Screen!ScrolledUp(Screen!Put(Screen!Shown, cursor_x, ascii))
        BY <1>7, <3>4, <4>1 DEF Screen!Terminal
      <4>3. Screen!Put(Screen!Shown, cursor_x, ascii) = [Screen!Shown EXCEPT ![Rows - 1] = row]
        BY <1>1, <1>5, <2>6, <4>1 DEF Screen!Put, row
      <4>4. \A y \in Screen!Row : y # Rows - 1 =>
              Screen!Put(Screen!Shown, cursor_x, ascii)[y + 1] = IF y + 1 = Rows - 1 THEN row ELSE mem[r(y + 1)]
        BY <1>1, <1>5, <3>1, <4>3
      <4>. QED  BY <1>5, <3>2, <3>4, <4>2, <4>4 DEF Screen!ScrolledUp
    <3>. QED  BY <3>3, <3>4
  <2>. QED  BY <2>7, <2>8
<1>. QED  BY <1>6, <1>7

\* A blank screen is in order.
LEMMA ScreenStart == Screen!Init => ScreenInv
<1> SUFFICES ASSUME Screen!Init PROVE ScreenInv
  OBVIOUS
<1>1. Screen!BlankRow \in [Screen!Col -> {Screen!Blank}] /\ 0 \in Screen!Row /\ 0 \in Screen!Col /\ Rows # 1
  BY ScreenAssumption DEF Screen!BlankRow, Screen!Row, Screen!Col
<1>. QED  BY <1>1, ScreenAssumption DEF ScreenInv, Screen!Init, RowAfter

\* The cursor is always in the bottom row.
LEMMA ScreenBottom == ScreenInv => Screen!rrow(Rows - 1) = cursor_y
<1> SUFFICES ASSUME ScreenInv PROVE Screen!rrow(Rows - 1) = cursor_y
  OBVIOUS
<1>1. Rows - 1 \in Screen!Row
  BY ScreenAssumption DEF Screen!Row
<1>. QED  BY <1>1, Turned, Zenon DEF ScreenInv, Screen!rrow

\* The screen shows, after every character, what a terminal shows that moves its
\* rows, and the cursor is in the bottom row, for every size of the screen.
THEOREM ScreenShowsTheText == UnitSpec => ShowsTheText
<1>1. UnitInit => ScreenInv
  BY ScreenStart DEF UnitInit
<1>2. ScreenInv /\ [UnitNext]_unitVars => ScreenInv'
  <2> SUFFICES ASSUME ScreenInv, [UnitNext]_unitVars PROVE ScreenInv'
    OBVIOUS
  <2>1. CASE \E ascii \in Screen!Ascii : Screen!Write(ascii)
    BY <2>1, ScreenStep
  <2>2. CASE UNCHANGED screenVars
    BY <2>2 DEF ScreenInv, screenVars
  <2>. QED  BY <2>1, <2>2, Zenon DEF UnitNext, unitVars, Screen!Next
<1>3. ScreenInv =>
        [\A ascii \in Screen!Ascii :
           Screen!Write(ascii) => Screen!Shown' = Screen!Terminal(Screen!Shown, cursor_x, ascii)]_(Screen!vars)
  BY ScreenShows
<1>. QED  BY <1>1, <1>2, <1>3, ScreenBottom, PTL DEF UnitSpec, unitVars, ShowsTheText, Screen!ShowsTheText

-----------------------------------------------------------------------------
(* The queues.  The pointers are never more than Depth apart.  Then the    *)
(* entry that a push writes is outside the part of the array that the      *)
(* pointers enclose, so a push appends to the contents and a pop removes   *)
(* their head: lemma Transfer.  It serves ExQueue as well, which uses its  *)
(* buffer as a queue allows, and whose passing messages find it empty.     *)

QueueInv == TypeOK /\ NoOverrun

\* A transfer that stays within the queue.
Allowed(push, pop) ==
  /\ push \in BOOLEAN
  /\ pop \in BOOLEAN
  /\ pop => ~empty
  /\ push => ~full \/ pop

USE DEF Ptr, Slot

\* What the proofs use of the assumption on Depth.
LEMMA DepthType == Depth \in Nat \ {0}
  BY DepthAssumption

\* The distance of two pointers is a number, and the addresses of the entries
\* between them are in the array.
LEMMA Addresses ==
  ASSUME TypeOK
  PROVE  /\ Count \in 0 .. 2 * Depth - 1
         /\ \A k \in 0 .. Depth : Back(rptr, k) \in Ptr
         /\ \A p \in Ptr : Addr(p) \in Slot
  BY DepthType DEF TypeOK, Count, Back, Addr

\* The contents are a sequence of entries, as long as the pointers are apart.
ContentsOK ==
  /\ Contents \in Seq(Msg)
  /\ Len(Contents) = Count
  /\ \A k \in 1 .. Count : Contents[k] = arr[Addr(Back(rptr, k - 1))]

\* The queue that the pointers delimit is a sequence of Count messages, read
\* from the array from rptr on.
LEMMA ContentsType == QueueInv => ContentsOK
<1> SUFFICES ASSUME QueueInv PROVE ContentsOK
  OBVIOUS
<1>1. Count \in 0 .. Depth
  BY Addresses, DepthType DEF QueueInv, NoOverrun
<1>2. ASSUME NEW k \in 1 .. Count PROVE arr[Addr(Back(rptr, k - 1))] \in Msg
  <2>1. Back(rptr, k - 1) \in Ptr
    BY <1>1, Addresses, DepthType DEF QueueInv
  <2>2. Addr(Back(rptr, k - 1)) \in Slot
    BY <2>1, Addresses DEF QueueInv
  <2>. QED  BY <2>2 DEF QueueInv, TypeOK
<1>3. Contents \in [1 .. Count -> Msg]
  BY <1>2 DEF Contents
<1>. QED  BY <1>1, <1>3 DEF Contents, ContentsOK

\* full and empty tell the number of entries.
LEMMA FullEmpty ==
  ASSUME QueueInv
  PROVE  /\ empty <=> Count = 0
         /\ full <=> Count = Depth
  BY DepthType DEF QueueInv, TypeOK, NoOverrun, Count, empty, full, Addr, Top

\* A transfer changes the number of entries as it should.
LEMMA CountStep ==
  ASSUME QueueInv, NEW push, NEW pop, NEW wdata \in Msg,
         Allowed(push, pop), FifoEdge(push, pop, wdata)
  PROVE  /\ Count' = Count + (IF push THEN 1 ELSE 0) - (IF pop THEN 1 ELSE 0)
         /\ Count' \in 0 .. Depth
         /\ Count \in 0 .. Depth
         /\ push => Count < Depth \/ pop
         /\ pop => Count > 0
         /\ QueueInv'
<1>1. Count \in 0 .. Depth
  BY Addresses, DepthType DEF QueueInv, NoOverrun
<1>2. /\ push => Count < Depth \/ pop
      /\ pop => Count > 0
  <2>1. /\ push => Count # Depth \/ pop
        /\ pop => Count # 0
    BY FullEmpty, Zenon DEF Allowed
  <2>. QED  BY <1>1, <2>1, DepthType
<1>3. /\ wptr' \in Ptr
      /\ rptr' \in Ptr
      /\ wptr' = IF push THEN Step(wptr) ELSE wptr
      /\ rptr' = IF pop THEN Step(rptr) ELSE rptr
  BY DepthType DEF FifoEdge, Step, QueueInv, TypeOK
<1>4. Count' = Count + (IF push THEN 1 ELSE 0) - (IF pop THEN 1 ELSE 0)
  BY <1>1, <1>2, <1>3, DepthType DEF Count, Step, QueueInv, TypeOK, Allowed
<1>5. arr' \in [Slot -> Msg]
  BY Addresses DEF FifoEdge, NextArr, QueueInv, TypeOK
<1>6. Count' \in 0 .. Depth
  BY <1>1, <1>2, <1>4, DepthType DEF Allowed
<1>. QED  BY <1>1, <1>2, <1>3, <1>4, <1>5, <1>6 DEF QueueInv, TypeOK, NoOverrun

\* The entries after a transfer: those that were there, then the new one, and
\* without the first if there was a pop.
LEMMA EntryStep ==
  ASSUME QueueInv, NEW push, NEW pop, NEW wdata \in Msg,
         Allowed(push, pop), FifoEdge(push, pop, wdata),
         NEW k \in 1 .. Count'
  PROVE  Contents'[k] =
           LET j == IF pop THEN k + 1 ELSE k
           IN  IF j <= Count THEN Contents[j] ELSE wdata
<1> DEFINE j == IF pop THEN k + 1 ELSE k
<1>1. /\ Count' = Count + (IF push THEN 1 ELSE 0) - (IF pop THEN 1 ELSE 0)
      /\ Count' \in 0 .. Depth
      /\ Count \in 0 .. Depth
      /\ push => Count < Depth \/ pop
      /\ pop => Count > 0
      /\ QueueInv'
  BY CountStep
<1>2. Contents'[k] = arr'[Addr(Back(rptr', k - 1))]
  BY DEF Contents, Addr, Back
<1>3. Back(rptr', k - 1) = Back(rptr, j - 1)
  BY <1>1, DepthType DEF Back, FifoEdge, Step, QueueInv, TypeOK, Allowed
<1>4. CASE j <= Count
  <2>1. Contents[j] = arr[Addr(Back(rptr, j - 1))]
    BY <1>1, <1>4, ContentsType DEF Allowed, ContentsOK
  <2>2. push => Addr(wptr) # Addr(Back(rptr, j - 1))
    <3>1. push => j - 1 < Count /\ (Count < Depth \/ (pop /\ j > 1))
      BY <1>1, <1>4 DEF Allowed
    <3>. QED  BY <3>1, <1>1, <1>4, DepthType DEF Addr, Back, Count, QueueInv, TypeOK, Allowed
  <2>3. Addr(Back(rptr, j - 1)) \in Slot
    <3>1. j - 1 \in 0 .. Depth
      BY <1>1, <1>4, DepthType DEF Allowed
    <3>2. Back(rptr, j - 1) \in Ptr
      BY <3>1, Addresses DEF QueueInv
    <3>. QED  BY <3>2, Addresses DEF QueueInv
  <2>4. arr'[Addr(Back(rptr, j - 1))] = arr[Addr(Back(rptr, j - 1))]
    BY <2>2, <2>3 DEF FifoEdge, NextArr, QueueInv, TypeOK
  <2>. QED  BY <1>2, <1>3, <1>4, <2>1, <2>4
<1>5. CASE ~(j <= Count)
  <2>1. push /\ j = Count + 1
    BY <1>1, <1>5 DEF Allowed
  <2>2. Back(rptr, j - 1) = wptr
    BY <1>1, <2>1, DepthType DEF Back, Count, QueueInv, TypeOK
  <2>3. arr'[Addr(wptr)] = wdata
    BY <2>1, Addresses DEF FifoEdge, NextArr, QueueInv, TypeOK
  <2>. QED  BY <1>2, <1>3, <1>5, <2>2, <2>3
<1>. QED  BY <1>4, <1>5

\* A transfer within the queue is a transfer of the abstract queue.
LEMMA Transfer ==
  ASSUME QueueInv, NEW push, NEW pop, NEW wdata \in Msg,
         Allowed(push, pop), FifoEdge(push, pop, wdata)
  PROVE  /\ Contents \o (IF push THEN <<wdata>> ELSE << >>) =
              (IF pop THEN <<rdata>> ELSE << >>) \o Contents'
         /\ Len(Contents') <= Depth
         /\ pop => rdata \in Msg
<1> DEFINE in  == IF push THEN <<wdata>> ELSE << >>
           out == IF pop THEN <<rdata>> ELSE << >>
           lhs == Contents \o in
           rhs == out \o Contents'
<1>1. /\ Count' = Count + (IF push THEN 1 ELSE 0) - (IF pop THEN 1 ELSE 0)
      /\ Count' \in 0 .. Depth
      /\ Count \in 0 .. Depth
      /\ QueueInv'
  BY CountStep
<1>2. /\ Contents \in Seq(Msg)
      /\ Len(Contents) = Count
      /\ Count > 0 => Contents[1] = rdata
  BY <1>1, ContentsType, DepthType DEF ContentsOK, rdata, Back, QueueInv, TypeOK
<1>3. Contents' \in Seq(Msg) /\ Len(Contents') = Count'
  <2>1. QueueInv' => ContentsOK'
    BY ContentsType, PTL
  <2>. QED  BY <1>1, <2>1 DEF ContentsOK
<1>4. pop => Count > 0 /\ rdata \in Msg
  BY <1>1, <1>2, FullEmpty, ElementOfSeq DEF Allowed
<1>5. /\ in \in Seq(Msg)
      /\ Len(in) = IF push THEN 1 ELSE 0
      /\ push => in[1] = wdata
  OBVIOUS
<1>6. /\ out \in Seq(Msg)
      /\ Len(out) = IF pop THEN 1 ELSE 0
      /\ pop => out[1] = rdata
  BY <1>4
<1> HIDE DEF in, out
<1>7. /\ lhs \in Seq(Msg)
      /\ Len(lhs) = Count + Len(in)
      /\ \A i \in 1 .. Count + Len(in) :
           lhs[i] = IF i <= Count THEN Contents[i] ELSE in[i - Count]
  BY <1>2, <1>5, ConcatProperties
<1>8. /\ rhs \in Seq(Msg)
      /\ Len(rhs) = Len(out) + Count'
      /\ \A i \in 1 .. Len(out) + Count' :
           rhs[i] = IF i <= Len(out) THEN out[i] ELSE Contents'[i - Len(out)]
  BY <1>3, <1>6, ConcatProperties
<1>9. Len(lhs) = Len(rhs)
  BY <1>1, <1>5, <1>6, <1>7, <1>8 DEF Allowed
<1>10. ASSUME NEW i \in 1 .. Len(lhs) PROVE lhs[i] = rhs[i]
  <2>1. CASE pop /\ i = 1
    BY <2>1, <1>1, <1>2, <1>4, <1>6, <1>7, <1>8, <1>9
  <2>2. CASE ~(pop /\ i = 1)
    <3> DEFINE k == i - Len(out)
    <3>1. k \in 1 .. Count' /\ i = IF pop THEN k + 1 ELSE k
      BY <2>2, <1>1, <1>6, <1>8, <1>9, <1>10 DEF Allowed
    <3>2. rhs[i] = Contents'[k]
      BY <3>1, <1>1, <1>6, <1>8, <1>9, <1>10
    <3>3. Contents'[k] = IF i <= Count THEN Contents[i] ELSE wdata
      BY <3>1, EntryStep
    <3>4. lhs[i] = IF i <= Count THEN Contents[i] ELSE wdata
      BY <1>1, <1>5, <1>7, <1>10 DEF Allowed
    <3>. QED  BY <3>2, <3>3, <3>4
  <2>. QED  BY <2>1, <2>2
<1> HIDE DEF lhs, rhs
<1>11. lhs = rhs
  BY <1>7, <1>8, <1>9, <1>10, SeqEqual
<1>. QED  BY <1>1, <1>3, <1>4, <1>11, DepthType DEF lhs, rhs, in, out

\* Initially the queue is empty.
LEMMA InitQueue == FifoInit => QueueInv /\ Contents = << >>
<1> SUFFICES ASSUME FifoInit PROVE QueueInv /\ Contents = << >>
  OBVIOUS
<1>1. QueueInv /\ Count = 0
  BY DepthType DEF FifoInit, QueueInv, TypeOK, NoOverrun, Count
<1>. QED  BY <1>1 DEF Contents

\* A step of the environment keeps the invariant and is a step of the queue.
LEMMA CycleStep ==
  ASSUME QueueInv, NEW push \in BOOLEAN, NEW pop \in BOOLEAN, NEW wdata \in Msg,
         FifoCycle(push, pop, wdata)
  PROVE  QueueInv' /\ Queue!Next
<1>1. Allowed(push, pop) /\ FifoEdge(push, pop, wdata)
  BY DEF FifoCycle, Allowed
<1>2. QueueInv'
  BY <1>1, CountStep
<1>3. /\ Contents \o (IF push THEN <<wdata>> ELSE << >>) =
           (IF pop THEN <<rdata>> ELSE << >>) \o Contents'
      /\ Len(Contents') <= Depth
      /\ pop => rdata \in Msg
  BY <1>1, Transfer
<1>4. /\ put' = IF push THEN <<wdata>> ELSE << >>
      /\ got' = IF pop THEN <<rdata>> ELSE << >>
  BY DEF FifoCycle
<1>5. put' \in Queue!AtMostOne /\ got' \in Queue!AtMostOne
  BY <1>3, <1>4 DEF Queue!AtMostOne
<1>. QED  BY <1>2, <1>3, <1>4, <1>5 DEF Queue!Next

\* Nothing happens to the contents in a stuttering step.
LEMMA QueueStutter == UNCHANGED fifoVars => UNCHANGED Queue!vars /\ (QueueInv => QueueInv')
  BY DEF fifoVars, Queue!vars, QueueInv, TypeOK, NoOverrun, Contents, Count, Back, Addr

\* The pointers stay within the array and at most Depth apart, for every
\* depth of the queue and every legal use of it.
THEOREM QueueInductive == FifoSpec => []QueueInv
<1>1. QueueInv /\ [FifoNext]_fifoVars => QueueInv'
  BY CycleStep, QueueStutter DEF FifoNext
<1>. QED  BY <1>1, InitQueue, PTL DEF FifoSpec

\* The distance of the pointers never exceeds the depth.
THEOREM NeverOverrun == FifoSpec => []NoOverrun
<1>1. QueueInv => NoOverrun
  BY DEF QueueInv
<1>. QED  BY <1>1, QueueInductive, PTL

\* Fifo.v implements a queue: what is pushed is popped once and in order.
THEOREM FifoImplementsQueue == FifoSpec => ImplementsQueue
<1>1. FifoInit => Queue!Init
  BY InitQueue DEF FifoInit, Queue!Init
<1>2. QueueInv /\ [FifoNext]_fifoVars => [Queue!Next]_(Queue!vars)
  BY CycleStep, QueueStutter DEF FifoNext
<1>. QED  BY <1>1, <1>2, QueueInductive, PTL DEF FifoSpec, ImplementsQueue, Queue!Spec

\* ExQueue never pops an empty buffer, nor pushes into a full one that does
\* not pop.
LEMMA BufferUse ==
  ASSUME NEW in_val \in BOOLEAN, NEW out_rdy \in BOOLEAN
  PROVE  Allowed(buffer_push(in_val, out_rdy), buffer_pop(in_val, out_rdy))
<1>1. /\ buffer_push(in_val, out_rdy) \in BOOLEAN
      /\ buffer_pop(in_val, out_rdy) \in BOOLEAN
  BY DEF buffer_push, buffer_pop
<1>2. buffer_push(in_val, out_rdy) => ~full \/ buffer_pop(in_val, out_rdy)
  BY DEF buffer_push, buffer_pop, in_rdy, can_bypass
<1>. QED  BY <1>1, <1>2 DEF Allowed, buffer_pop

\* A message that passes by leaves the queue as it was, empty; in any other
\* cycle the ports of ExQueue transfer what its buffer transfers.
LEMMA ExCycleStep ==
  ASSUME QueueInv, NEW in_val \in BOOLEAN, NEW out_rdy \in BOOLEAN, NEW in_msg \in Msg,
         ExCycle(in_val, in_msg, out_rdy)
  PROVE  QueueInv' /\ Queue!Next
<1> DEFINE push == buffer_push(in_val, out_rdy)
           pop  == buffer_pop(in_val, out_rdy)
<1>1. Allowed(push, pop) /\ FifoEdge(push, pop, in_msg)
  BY BufferUse DEF ExCycle
<1>2. /\ Contents \o (IF push THEN <<in_msg>> ELSE << >>) =
           (IF pop THEN <<rdata>> ELSE << >>) \o Contents'
      /\ Len(Contents') <= Depth
      /\ pop => rdata \in Msg
  BY <1>1, Transfer
<1>3. QueueInv'
  BY <1>1, CountStep
<1>4. CASE in_val /\ empty /\ out_rdy
  <2>1. ~push /\ ~pop /\ put' = <<in_msg>> /\ got' = <<in_msg>>
    BY <1>4 DEF ExCycle, buffer_push, buffer_pop, in_rdy, out_val, out_msg, can_bypass
  <2>2. Contents = << >>
    BY <1>4, FullEmpty DEF Contents
  <2>3. Contents' = << >>
    <3>1. Count' = Count + (IF push THEN 1 ELSE 0) - (IF pop THEN 1 ELSE 0)
      BY <1>1, CountStep
    <3>2. Count = 0
      BY <1>4, FullEmpty
    <3>3. Count' = 0
      BY <2>1, <3>1, <3>2
    <3>. QED  BY <3>3 DEF Contents
  <2>. QED  BY <1>2, <1>3, <2>1, <2>2, <2>3 DEF Queue!Next, Queue!AtMostOne
<1>5. CASE ~(in_val /\ empty /\ out_rdy)
  <2>1. /\ put' = IF push THEN <<in_msg>> ELSE << >>
        /\ got' = IF pop THEN <<rdata>> ELSE << >>
    BY <1>5 DEF ExCycle, buffer_push, buffer_pop, in_rdy, out_val, out_msg, can_bypass
  <2>2. put' \in Queue!AtMostOne /\ got' \in Queue!AtMostOne
    BY <1>2, <2>1 DEF Queue!AtMostOne
  <2>. QED  BY <1>2, <1>3, <2>1, <2>2 DEF Queue!Next
<1>. QED  BY <1>4, <1>5

\* The buffer of ExQueue is never overrun.
THEOREM ExQueueInductive == ExSpec => []QueueInv
<1>1. QueueInv /\ [ExNext]_fifoVars => QueueInv'
  BY ExCycleStep, QueueStutter DEF ExNext
<1>. QED  BY <1>1, InitQueue, PTL DEF ExSpec

\* ExQueue.v implements a queue, with its bypass and its push into a full
\* buffer: a pipe's results reach the writeback unit once and in order.
THEOREM ExQueueImplementsQueue == ExSpec => ImplementsQueue
<1>1. FifoInit => Queue!Init
  BY InitQueue DEF FifoInit, Queue!Init
<1>2. QueueInv /\ [ExNext]_fifoVars => [Queue!Next]_(Queue!vars)
  BY ExCycleStep, QueueStutter DEF ExNext
<1>. QED  BY <1>1, <1>2, ExQueueInductive, PTL DEF ExSpec, ImplementsQueue, Queue!Spec

----------------------------------------------------------------------------
(* The writeback and commit unit, for every number of pipes, of sequence   *)
(* numbers and of instructions in flight, and for whatever results there   *)
(* are: results arrive in any order and commit in program order, each with *)
(* its own instruction.                                                    *)
(*                                                                         *)
(* CommitInv says that the instructions in flight hold the numbers from    *)
(* deq_ptr on, that no two of them are offered on one pipe, and that the   *)
(* completed ones are in the register behind the arbiter or in the reorder *)
(* buffer, in one of the two, under their number and with their result.    *)
(* That the arbiter grants one request and that it is the oldest is        *)
(* GrantIsOldest of SeqArb_proofs.                                         *)

Instruction == [seq_num : SeqNum, msg : Results, at : 0 .. NumPipes + 1]

CommitTypes ==
  /\ X_reg \in {None} \cup [val : {TRUE}, seq_num : SeqNum, msg : Results]
  /\ entries \in [SeqNum -> {None} \cup [val : {TRUE}, msg : {NoX0(m) : m \in Results}]]
  /\ deq_ptr \in SeqNum
  /\ inflight \in Seq(Instruction)
  /\ Len(inflight) <= MaxInFlight

\* The instructions in flight hold the numbers from the next one to commit on,
\* which the age register holds as well.
InOrder ==
  /\ oldest_seq_num = deq_ptr
  /\ \A k \in Live : inflight[k].seq_num = Plus(deq_ptr, k - 1)

\* No two instructions are offered on one pipe.
OnePerPipe ==
  \A j, k \in Live : inflight[j].at = inflight[k].at /\ inflight[j].at \in Pipes => j = k

\* Result s is in the register.
InRegister(reg, s) == reg.val /\ reg.seq_num = s

\* The register behind the arbiter has the result of a completed instruction.
RegisterIsCompleted ==
  X_reg.val => \E k \in Live : /\ inflight[k].at = DONE
                               /\ inflight[k].seq_num = X_reg.seq_num
                               /\ inflight[k].msg = X_reg.msg

\* The completed instructions that are not in the register are in the buffer,
\* with their results.
EntriesAreCompleted ==
  /\ \A s \in SeqNum :
       entries[s].val <=> \E k \in Live : /\ inflight[k].seq_num = s
                                          /\ inflight[k].at = DONE
                                          /\ ~InRegister(X_reg, s)
  /\ \A k \in Live :
       entries[inflight[k].seq_num].val =>
         entries[inflight[k].seq_num].msg = NoX0(inflight[k].msg)

CommitInv == CommitTypes /\ InOrder /\ OnePerPipe /\ RegisterIsCompleted /\ EntriesAreCompleted

-----------------------------------------------------------------------------
(* What the invariant says of one state.                                   *)

\* The instructions in flight, by type.
LEMMA InFlightType ==
  ASSUME CommitTypes
  PROVE  /\ Len(inflight) \in Nat
         /\ Live = 1 .. Len(inflight)
         /\ \A k \in Live : /\ inflight[k] \in Instruction
                            /\ inflight[k].seq_num \in SeqNum
                            /\ inflight[k].msg \in Results
                            /\ inflight[k].at \in 0 .. NumPipes + 1
<1>1. inflight \in Seq(Instruction)
  BY DEF CommitTypes
<1>2. Len(inflight) \in Nat /\ \A k \in 1 .. Len(inflight) : inflight[k] \in Instruction
  BY <1>1
<1>. QED  BY <1>2 DEF Live, Instruction

\* No two instructions in flight have one number.
LEMMA NumbersDiffer ==
  ASSUME CommitTypes, InOrder, NEW j \in Live, NEW k \in Live,
         inflight[j].seq_num = inflight[k].seq_num
  PROVE  j = k
<1>1. j \in 1 .. Len(inflight) /\ k \in 1 .. Len(inflight) /\ Len(inflight) \in 0 .. NSeq
  <2>1. Len(inflight) \in Nat /\ Len(inflight) <= MaxInFlight
    BY InFlightType DEF CommitTypes
  <2>. QED  BY <2>1, NSeqAssumption, MaxInFlightAssumption DEF Live
<1>2. Plus(deq_ptr, j - 1) = Plus(deq_ptr, k - 1)
  BY DEF InOrder
<1>3. deq_ptr \in SeqNum
  BY DEF CommitTypes
<1>. QED  BY <1>1, <1>2, <1>3, NSeqAssumption DEF Plus, SeqNum

Numbered ==
  /\ \A k \in Live : inflight[k].seq_num \in SeqNum
  /\ \A j, k \in Live : inflight[j].seq_num = inflight[k].seq_num => j = k

\* The numbers in flight are sequence numbers, all different.
LEMMA InFlightIsNumbered == CommitTypes /\ InOrder => Numbered
BY InFlightType, NumbersDiffer DEF Numbered

\* The wires of a pipe show the one instruction that is offered on it.
LEMMA Offer ==
  ASSUME CommitTypes, OnePerPipe, NEW i \in Pipes
  PROVE  \/ OfferedBy(i) = {} /\ Ex[i] = Idle
         \/ \E k \in Live : /\ OfferedBy(i) = {k}
                            /\ inflight[k].at = i
                            /\ Ex[i] = [val |-> TRUE, seq_num |-> inflight[k].seq_num,
                                        msg |-> inflight[k].msg]
<1>1. CASE OfferedBy(i) = {}
  BY <1>1 DEF Ex
<1>2. CASE OfferedBy(i) # {}
  <2>1. PICK k \in Live : inflight[k].at = i
    BY <1>2 DEF OfferedBy
  <2>2. OfferedBy(i) = {k}
    BY <2>1 DEF OfferedBy, OnePerPipe
  <2>3. (CHOOSE j \in OfferedBy(i) : TRUE) = k
    BY <2>2
  <2>4. Ex[i] = [val |-> TRUE, seq_num |-> inflight[k].seq_num, msg |-> inflight[k].msg]
    BY <1>2, <2>3, Zenon DEF Ex
  <2>. QED  BY <2>1, <2>2, <2>4
<1>. QED  BY <1>1, <1>2

\* The offers are requests of different instructions, as the arbiter needs.
LEMMA OffersAreRequests ==
  ASSUME CommitTypes, InOrder, OnePerPipe
  PROVE  Requests(Ex, NumPipes)
<1>1. ASSUME NEW i \in Pipes
      PROVE  /\ Ex[i].val \in BOOLEAN /\ Ex[i].seq_num \in SeqNum
             /\ Ex[i].val => \E k \in Live : /\ inflight[k].at = i
                                             /\ Ex[i].seq_num = inflight[k].seq_num
  <2>1. CASE Ex[i] = Idle
    BY <2>1, NSeqAssumption DEF Idle, SeqNum
  <2>2. ASSUME NEW k \in Live, inflight[k].at = i,
               Ex[i] = [val |-> TRUE, seq_num |-> inflight[k].seq_num, msg |-> inflight[k].msg]
        PROVE  Ex[i].val = TRUE /\ Ex[i].seq_num = inflight[k].seq_num /\ Ex[i].seq_num \in SeqNum
    BY <2>2, InFlightType
  <2>. QED  BY <2>1, <2>2, Offer, Zenon
<1>2. ASSUME NEW i \in Pipes, NEW j \in Pipes,
             Ex[i].val, Ex[j].val, Ex[i].seq_num = Ex[j].seq_num
      PROVE  i = j
  <2>1. PICK k \in Live : inflight[k].at = i /\ Ex[i].seq_num = inflight[k].seq_num
    BY <1>1, <1>2
  <2>2. PICK l \in Live : inflight[l].at = j /\ Ex[j].seq_num = inflight[l].seq_num
    BY <1>1, <1>2
  <2>3. k = l
    BY <1>2, <2>1, <2>2, NumbersDiffer
  <2>. QED  BY <2>1, <2>2, <2>3
<1>. QED  BY <1>1, <1>2, Zenon DEF Requests, Pipes

\* Nothing is granted and nothing is taken, or the result of the one
\* instruction on the pipe that is granted.
GrantTakes(i, k) ==
  /\ i \in Pipes
  /\ Ex_gnt = {i}
  /\ OfferedBy(i) = {k}
  /\ k \in Live
  /\ inflight[k].at = i
  /\ complete = [val |-> TRUE, seq_num |-> inflight[k].seq_num, msg |-> inflight[k].msg]

\* The grant is one of the two: what is taken is the result of the instruction
\* granted, which is in flight and on that pipe.
LEMMA Grant ==
  ASSUME CommitTypes, InOrder, OnePerPipe
  PROVE  \/ Ex_gnt = {} /\ complete = None
         \/ \E i \in Pipes, k \in Live : GrantTakes(i, k)
<1>1. GrantsOldest(oldest_seq_num, Ex, NumPipes, Ex_gnt)
  <2>1. oldest_seq_num \in SeqNum
    BY DEF CommitTypes, InOrder
  <2>. QED  BY <2>1, OffersAreRequests, GrantIsOldest, NumPipesAssumption, Zenon DEF Ex_gnt
<1>2. CASE Ex_gnt = {}
  BY <1>2 DEF complete
<1>3. CASE Ex_gnt # {}
  <2>1. PICK i \in Ex_gnt : TRUE
    BY <1>3
  <2>2. i \in Pipes /\ Ex[i].val
    BY <1>1, <2>1 DEF GrantsOldest, Pipes
  <2>3. \A j \in Ex_gnt : j = i
    <3>1. SUFFICES ASSUME NEW j \in Ex_gnt, j # i PROVE FALSE
      OBVIOUS
    <3>2. j \in Pipes /\ Ex[j].val
      BY <1>1, <3>1 DEF GrantsOldest, Pipes
    <3>3. /\ Precedes(oldest_seq_num, Ex[i].seq_num, Ex[j].seq_num)
          /\ Precedes(oldest_seq_num, Ex[j].seq_num, Ex[i].seq_num)
      BY <1>1, <2>1, <2>2, <3>1, <3>2, Zenon DEF GrantsOldest, Pipes
    <3>4. Ex[i].seq_num \in SeqNum /\ Ex[j].seq_num \in SeqNum /\ oldest_seq_num \in SeqNum
      BY <2>2, <3>2, OffersAreRequests DEF Requests, Pipes, CommitTypes, InOrder
    <3>5. /\ Minus(Ex[i].seq_num, oldest_seq_num) \in SeqNum
          /\ Minus(Ex[j].seq_num, oldest_seq_num) \in SeqNum
      BY <3>4, MinusType
    <3>. QED  BY <3>3, <3>5 DEF Precedes, SeqNum
  <2>4. Ex_gnt = {i}
    BY <2>1, <2>3
  <2>5. complete = Ex[i]
    <3>1. (CHOOSE j \in Ex_gnt : TRUE) = i
      BY <2>4
    <3>. QED  BY <1>3, <3>1, Zenon DEF complete
  <2>6. Ex[i] # Idle
    BY <2>2 DEF Idle
  <2>7. \E k \in Live : GrantTakes(i, k)
    BY <2>2, <2>4, <2>5, <2>6, Offer DEF GrantTakes
  <2>. QED  BY <2>2, <2>7
<1>. QED  BY <1>2, <1>3

\* What the reorder buffer gives out is the oldest instruction.
LEMMA CommitShape ==
  ASSUME CommitInv
  PROVE  /\ commit.val \in BOOLEAN
         /\ commit.val <=> deq_rdy
         /\ bypass \in BOOLEAN
         /\ ins_en \in BOOLEAN
         /\ commit.val => /\ commit.seq_num = deq_ptr
                          /\ 1 \in Live
                          /\ inflight[1].at = DONE
                          /\ inflight[1].seq_num = deq_ptr
         /\ CommitIsOldest
<1>1. /\ X_reg.val \in BOOLEAN
      /\ X_reg.val => X_reg.seq_num \in SeqNum
      /\ \A s \in SeqNum : entries[s].val \in BOOLEAN
      /\ deq_ptr \in SeqNum
  <2>1. /\ X_reg = None \/ X_reg \in [val : {TRUE}, seq_num : SeqNum, msg : Results]
        /\ \A s \in SeqNum : \/ entries[s] = None
                              \/ entries[s] \in [val : {TRUE}, msg : {NoX0(m) : m \in Results}]
        /\ deq_ptr \in SeqNum
    BY DEF CommitInv, CommitTypes
  <2>2. None.val = FALSE
    BY DEF None
  <2>. QED  BY <2>1, <2>2
<1>2. bypass \in BOOLEAN /\ ins_en \in BOOLEAN
  BY <1>1, Zenon DEF bypass, ins_en
<1>3. /\ commit.val \in BOOLEAN
      /\ commit.val <=> deq_rdy
  <2>1. CASE deq_rdy
    BY <2>1 DEF commit
  <2>2. CASE ~deq_rdy
    BY <2>2 DEF commit, None
  <2>. QED  BY <2>1, <2>2
<1>4. CASE ~deq_rdy
  BY <1>2, <1>3, <1>4 DEF CommitIsOldest
<1>5. CASE deq_rdy
  <2>1. commit = [val     |-> TRUE,
                  seq_num |-> IF bypass THEN X_reg.seq_num ELSE deq_ptr,
                  msg     |-> IF bypass THEN NoX0(X_reg.msg) ELSE entries[deq_ptr].msg]
    BY <1>5 DEF commit
  <2>2. PICK k \in Live : /\ inflight[k].seq_num = deq_ptr
                          /\ inflight[k].at = DONE
                          /\ commit.msg = NoX0(inflight[k].msg)
    <3>1. CASE bypass
      <4>1. X_reg.val /\ X_reg.seq_num = deq_ptr
        BY <3>1 DEF bypass, ins_en
      <4>2. commit.msg = NoX0(X_reg.msg)
        BY <2>1, <3>1
      <4>. QED  BY <4>1, <4>2 DEF CommitInv, RegisterIsCompleted
    <3>2. CASE ~bypass
      <4>1. entries[deq_ptr].val
        BY <1>5, <3>2 DEF deq_rdy
      <4>2. commit.msg = entries[deq_ptr].msg
        BY <2>1, <3>2
      <4>. QED  BY <1>1, <4>1, <4>2 DEF CommitInv, EntriesAreCompleted
    <3>. QED  BY <3>1, <3>2
  <2>3. 1 \in Live /\ inflight # << >>
    BY InFlightType DEF CommitInv
  <2>4. inflight[1].seq_num = deq_ptr
    BY <1>1, <2>3, NSeqAssumption DEF CommitInv, InOrder, Plus, SeqNum
  <2>5. k = 1
    BY <2>2, <2>3, <2>4, NumbersDiffer DEF CommitInv
  <2>6. commit.seq_num = deq_ptr
    BY <2>1 DEF bypass
  <2>7. CommitIsOldest
    BY <2>2, <2>3, <2>4, <2>5, <2>6 DEF CommitIsOldest, NoX0
  <2>. QED  BY <1>2, <1>3, <2>2, <2>3, <2>4, <2>5, <2>6, <2>7
<1>. QED  BY <1>4, <1>5

-----------------------------------------------------------------------------
(* What a cycle does.                                                      *)

\* How many instructions commit.
committed == IF commit.val THEN 1 ELSE 0

\* Where instruction k is after the cycle.
Fate(offer, k) ==
  IF k \in Executing THEN offer[k]
  ELSE IF inflight[k].at \in Ex_gnt THEN DONE ELSE inflight[k].at

Moved(offer) == [k \in Live |-> [inflight[k] EXCEPT !.at = Fate(offer, k)]]

\* An instruction that executes stays or is offered on a pipe, which is free.
LEMMA FateType ==
  ASSUME CommitInv, NEW offer \in Offers, NEW k \in Live
  PROVE  /\ Fate(offer, k) \in 0 .. NumPipes + 1
         /\ k \in Executing <=> inflight[k].at = EXEC
         /\ k \in Executing => /\ Fate(offer, k) = offer[k]
                               /\ offer[k] \in FreePipes \cup {EXEC}
         /\ k \notin Executing =>
              Fate(offer, k) = IF inflight[k].at \in Ex_gnt THEN DONE ELSE inflight[k].at
<1>1. offer \in [Executing -> FreePipes \cup {EXEC}]
  BY DEF Offers
<1>2. Ex_gnt \subseteq Pipes
  BY Grant DEF CommitInv, GrantTakes
<1>3. FreePipes \cup {EXEC} \subseteq 0 .. NumPipes + 1
  <2>1. FreePipes \subseteq Pipes
    BY <1>2, Zenon DEF FreePipes
  <2>2. EXEC \in 0 .. NumPipes + 1 /\ \A i \in Pipes : i \in 0 .. NumPipes + 1
    BY NumPipesAssumption DEF Pipes, EXEC
  <2>. QED  BY <2>1, <2>2
<1>4. inflight[k].at \in 0 .. NumPipes + 1
  BY InFlightType DEF CommitInv
<1>5. DONE \in 0 .. NumPipes + 1
  BY NumPipesAssumption DEF DONE
<1>6. k \in Executing <=> inflight[k].at = EXEC
  BY DEF Executing
<1>. QED  BY <1>1, <1>3, <1>4, <1>5, <1>6, Zenon DEF Fate

\* The instructions in flight after the cycle: those that were in flight but
\* for the one that commits, each where its fate puts it, and perhaps one more.
Survivors(offer) ==
  /\ Len(inflight') \in Nat
  /\ inflight' \in Seq(Instruction)
  /\ Len(inflight') <= MaxInFlight
  /\ committed \in 0 .. Len(inflight)
  /\ Len(inflight') \in {Len(inflight) - committed, Len(inflight) - committed + 1}
  /\ \A k \in 1 .. Len(inflight) - committed :
       inflight'[k] = [inflight[k + committed] EXCEPT !.at = Fate(offer, k + committed)]
  /\ Len(inflight') = Len(inflight) - committed + 1 =>
       /\ Len(inflight) < MaxInFlight
       /\ inflight'[Len(inflight')].seq_num = Plus(deq_ptr, Len(inflight))
       /\ inflight'[Len(inflight')].at = EXEC

\* That is what a cycle leaves in flight.
LEMMA CycleShape ==
  ASSUME CommitInv, NEW offer \in Offers,
         Work(offer) \/ \E msg \in Results : Issue(offer, msg)
  PROVE  Survivors(offer)
<1> DEFINE len   == Len(inflight)
           moved == Moved(offer)
           next  == Advance(offer)
<1>1. len \in Nat /\ len <= MaxInFlight /\ MaxInFlight \in Nat /\ Live = 1 .. len
  <2>1. MaxInFlight \in Nat
    BY MaxInFlightAssumption, NSeqAssumption
  <2>. QED  BY <2>1, InFlightType DEF CommitInv, CommitTypes
<1>2. committed \in 0 .. len
  <2>1. commit.val => len > 0
    BY CommitShape, <1>1
  <2>. QED  BY <1>1, <2>1 DEF committed
<1>3. \A k \in Live : [inflight[k] EXCEPT !.at = Fate(offer, k)] \in Instruction
  <2>1. \A k \in Live : inflight[k] \in Instruction /\ Fate(offer, k) \in 0 .. NumPipes + 1
    BY InFlightType, FateType DEF CommitInv
  <2>. QED  BY <2>1 DEF Instruction
<1>4. moved \in Seq(Instruction) /\ Len(moved) = len
      /\ \A k \in 1 .. len : moved[k] = [inflight[k] EXCEPT !.at = Fate(offer, k)]
  BY <1>1, <1>3 DEF Moved
<1> HIDE DEF moved, len
<1>5. next = IF commit.val THEN Tail(moved) ELSE moved
  BY Zenon DEF Advance, Moved, Fate, moved
<1>6. /\ next \in Seq(Instruction)
      /\ Len(next) = len - committed
      /\ \A k \in 1 .. len - committed :
           next[k] = [inflight[k + committed] EXCEPT !.at = Fate(offer, k + committed)]
  <2>1. CASE commit.val
    <3>1. committed = 1 /\ next = Tail(moved)
      BY <1>5, <2>1 DEF committed
    <3>2. moved # << >>
      BY <1>1, <1>2, <1>4, <3>1
    <3>3. /\ next \in Seq(Instruction) /\ Len(next) = len - 1
          /\ \A k \in 1 .. len - 1 : next[k] = moved[k + 1]
      BY <1>1, <1>4, <3>1, <3>2, HeadTailProperties
    <3>4. \A k \in 1 .. len - 1 : k + 1 \in 1 .. len
      BY <1>1
    <3>. QED  BY <1>4, <3>1, <3>3, <3>4
  <2>2. CASE ~commit.val
    <3>1. committed = 0 /\ next = moved
      BY <1>5, <2>2 DEF committed
    <3>2. \A k \in 1 .. len : k + 0 = k
      BY <1>1
    <3>. QED  BY <1>1, <1>4, <3>1, <3>2
  <2>. QED  BY <2>1, <2>2
<1> HIDE DEF next
<1>7. CASE Work(offer)
  <2>1. inflight' = next
    BY <1>7 DEF Work, next
  <2>2. /\ Len(inflight') = len - committed /\ len - committed \in Nat
        /\ len - committed <= MaxInFlight /\ len - committed # len - committed + 1
    BY <1>1, <1>2, <1>6, <2>1
  <2>. QED  BY <1>2, <1>6, <2>1, <2>2 DEF Survivors, len
<1>8. ASSUME NEW msg \in Results, Issue(offer, msg) PROVE Survivors(offer)
  <2> DEFINE new == [seq_num |-> NextSeqNum, msg |-> msg, at |-> EXEC]
  <2>1. inflight' = Append(next, new) /\ len < MaxInFlight
    BY <1>8 DEF Issue, next, len
  <2>2. NextSeqNum = Plus(deq_ptr, len)
    <3>1. CASE inflight = << >>
      <4>1. len = 0 /\ NextSeqNum = deq_ptr
        BY <3>1 DEF NextSeqNum, len
      <4>. QED  BY <4>1, NSeqAssumption DEF CommitInv, CommitTypes, Plus, SeqNum
    <3>2. CASE inflight # << >>
      <4>1. len \in Live
        BY <1>1, <3>2 DEF CommitInv, CommitTypes, len
      <4>2. NextSeqNum = Plus(Plus(deq_ptr, len - 1), 1)
        BY <3>2, <4>1 DEF NextSeqNum, CommitInv, InOrder, len
      <4>3. deq_ptr \in SeqNum /\ len \in 1 .. NSeq
        BY <1>1, <4>1, MaxInFlightAssumption, NSeqAssumption DEF CommitInv, CommitTypes
      <4>. QED  BY <2>1, <4>2, <4>3, MaxInFlightAssumption, NSeqAssumption DEF Plus, SeqNum
    <3>. QED  BY <3>1, <3>2
  <2>3. new \in Instruction
    <3>1. NextSeqNum \in SeqNum
      <4>1. len \in 0 .. NSeq /\ deq_ptr \in SeqNum
        BY <1>1, MaxInFlightAssumption, NSeqAssumption DEF CommitInv, CommitTypes
      <4>. QED  BY <2>2, <4>1, PlusType
    <3>2. EXEC \in 0 .. NumPipes + 1
      BY NumPipesAssumption DEF EXEC
    <3>. QED  BY <3>1, <3>2 DEF Instruction
  <2> HIDE DEF new
  <2>4. /\ inflight' \in Seq(Instruction)
        /\ Len(inflight') = len - committed + 1
        /\ \A k \in 1 .. len - committed : inflight'[k] = next[k]
        /\ inflight'[len - committed + 1] = new
    BY <1>6, <2>1, <2>3, AppendProperties
  <2>5. len - committed + 1 \in Nat /\ len - committed + 1 <= MaxInFlight
    BY <1>1, <1>2, <2>1
  <2>6. new.seq_num = Plus(deq_ptr, len) /\ new.at = EXEC
    BY <2>2 DEF new
  <2>. QED  BY <1>2, <1>6, <2>1, <2>4, <2>5, <2>6 DEF Survivors, len
<1>. QED  BY <1>7, <1>8

-----------------------------------------------------------------------------
(* A cycle keeps the invariant.                                            *)

\* What the parts of the argument share: the clock edge, and where each
\* instruction comes from and goes to.
AtEdge(offer) ==
  /\ Edge
  /\ offer \in Offers
  /\ Survivors(offer)

\* An instruction in flight after the cycle was in flight before, or is new.
LEMMA ComesFrom ==
  ASSUME CommitInv, NEW offer, AtEdge(offer), NEW k \in Live'
  PROVE  \/ /\ k + committed \in Live
            /\ k + committed > committed
            /\ inflight'[k].seq_num = inflight[k + committed].seq_num
            /\ inflight'[k].msg = inflight[k + committed].msg
            /\ inflight'[k].at = Fate(offer, k + committed)
         \/ /\ k = Len(inflight) - committed + 1
            /\ Len(inflight) < MaxInFlight
            /\ inflight'[k].seq_num = Plus(deq_ptr, Len(inflight))
            /\ inflight'[k].at = EXEC
<1>1. /\ Len(inflight) \in Nat
      /\ Live = 1 .. Len(inflight)
      /\ \A j \in Live : inflight[j] \in Instruction
  BY InFlightType DEF CommitInv
<1>2. committed \in 0 .. Len(inflight) /\ k \in 1 .. Len(inflight')
  BY DEF AtEdge, Survivors, Live
<1>3. CASE k \in 1 .. Len(inflight) - committed
  <2>1. k + committed \in Live /\ k + committed > committed
    BY <1>1, <1>2, <1>3
  <2>2. inflight'[k] = [inflight[k + committed] EXCEPT !.at = Fate(offer, k + committed)]
    BY <1>3 DEF AtEdge, Survivors
  <2>. QED  BY <1>1, <2>1, <2>2 DEF Instruction
<1>4. CASE k \notin 1 .. Len(inflight) - committed
  <2>1. k = Len(inflight) - committed + 1 /\ Len(inflight') = k
    BY <1>1, <1>2, <1>4 DEF AtEdge, Survivors
  <2>. QED  BY <2>1 DEF AtEdge, Survivors
<1>. QED  BY <1>3, <1>4

\* An instruction in flight is still in flight after the cycle, or commits.
LEMMA GoesTo ==
  ASSUME CommitInv, NEW offer, AtEdge(offer), NEW k \in Live, ~(commit.val /\ k = 1)
  PROVE  \E j \in Live' : /\ inflight'[j].seq_num = inflight[k].seq_num
                          /\ inflight'[j].msg = inflight[k].msg
                          /\ inflight'[j].at = Fate(offer, k)
<1>1. /\ Len(inflight) \in Nat
      /\ Live = 1 .. Len(inflight)
      /\ inflight[k] \in Instruction
  BY InFlightType DEF CommitInv
<1> DEFINE j == k - committed
<1>2. j \in 1 .. Len(inflight) - committed /\ j + committed = k
  <2>1. committed \in {0, 1} /\ (committed = 1 => k # 1)
    BY DEF committed
  <2>. QED  BY <1>1, <2>1
<1>3. j \in Live'
  BY <1>1, <1>2 DEF AtEdge, Survivors, Live
<1>4. inflight'[j] = [inflight[k] EXCEPT !.at = Fate(offer, k)]
  BY <1>2 DEF AtEdge, Survivors
<1> HIDE DEF j
<1>. QED  BY <1>1, <1>3, <1>4 DEF Instruction

\* A completed instruction stays completed, and what becomes completed is what
\* the arbiter granted.
LEMMA Completes ==
  ASSUME CommitInv, NEW offer, AtEdge(offer), NEW k \in Live
  PROVE  Fate(offer, k) = DONE <=> inflight[k].at = DONE \/ inflight[k].at \in Ex_gnt
<1>1. Ex_gnt \subseteq Pipes
  BY Grant DEF CommitInv, GrantTakes
<1>2. offer \in Offers
  BY DEF AtEdge
<1>3. DONE # EXEC /\ DONE \notin Pipes /\ EXEC \notin Pipes
  BY NumPipesAssumption DEF DONE, EXEC, Pipes
<1>4. DONE \notin FreePipes
  BY <1>1, <1>3 DEF FreePipes
<1>5. CASE k \in Executing
  BY <1>1, <1>2, <1>3, <1>4, <1>5, FateType
<1>6. CASE k \notin Executing
  BY <1>1, <1>2, <1>3, <1>6, FateType
<1>. QED  BY <1>5, <1>6

\* The numbers stay in order, also when the oldest instruction leaves.
LEMMA InOrderStep ==
  ASSUME CommitInv, NEW offer, AtEdge(offer)
  PROVE  /\ deq_ptr' = Plus(deq_ptr, committed)
         /\ deq_ptr' \in SeqNum
         /\ InOrder'
<1>1. deq_ptr \in SeqNum /\ oldest_seq_num = deq_ptr
  BY DEF CommitInv, CommitTypes, InOrder
<1>2. /\ deq_ptr' = Plus(deq_ptr, committed)
      /\ oldest_seq_num' = deq_ptr'
  <2>1. CASE commit.val
    BY <2>1, <1>1, CommitShape DEF AtEdge, Edge, NextDeqPtr, OldestNext, committed
  <2>2. CASE ~commit.val
    <3>1. deq_ptr' = deq_ptr /\ oldest_seq_num' = deq_ptr /\ committed = 0
      BY <2>2, <1>1, CommitShape DEF AtEdge, Edge, NextDeqPtr, OldestNext, committed
    <3>2. Plus(deq_ptr, 0) = deq_ptr
      BY <1>1, NSeqAssumption DEF Plus, SeqNum
    <3>. QED  BY <3>1, <3>2
  <2>. QED  BY <2>1, <2>2
<1>3. committed \in {0, 1}
  BY DEF committed
<1>4. deq_ptr' \in SeqNum
  BY <1>1, <1>2, <1>3, NSeqAssumption DEF Plus, SeqNum
<1>5. Len(inflight) \in 0 .. NSeq /\ MaxInFlight \in 0 .. NSeq /\ Live = 1 .. Len(inflight)
  <2>1. Len(inflight) \in Nat /\ Len(inflight) <= MaxInFlight /\ Live = 1 .. Len(inflight)
    BY InFlightType DEF CommitInv, CommitTypes
  <2>. QED  BY <2>1, MaxInFlightAssumption, NSeqAssumption
<1>6. ASSUME NEW k \in Live' PROVE inflight'[k].seq_num = Plus(deq_ptr', k - 1)
  <2>1. k \in Nat /\ k >= 1
    BY <1>6 DEF Live, AtEdge, Survivors
  <2>2. CASE /\ k + committed \in Live
             /\ inflight'[k].seq_num = inflight[k + committed].seq_num
    <3>1. inflight'[k].seq_num = Plus(deq_ptr, (k + committed) - 1)
      BY <2>2 DEF CommitInv, InOrder
    <3>2. k + committed <= NSeq
      BY <1>5, <2>2, NSeqAssumption
    <3>3. Plus(deq_ptr, (k + committed) - 1) = Plus(Plus(deq_ptr, committed), k - 1)
      BY <1>1, <1>3, <2>1, <3>2, NSeqAssumption DEF Plus, SeqNum
    <3>. QED  BY <1>2, <3>1, <3>3
  <2>3. CASE /\ k = Len(inflight) - committed + 1
             /\ Len(inflight) < MaxInFlight
             /\ inflight'[k].seq_num = Plus(deq_ptr, Len(inflight))
    <3>1. Len(inflight) = k + committed - 1 /\ k + committed <= NSeq
      BY <1>3, <1>5, <2>1, <2>3, NSeqAssumption
    <3>2. Plus(deq_ptr, k + committed - 1) = Plus(Plus(deq_ptr, committed), k - 1)
      BY <1>1, <1>3, <2>1, <3>1, NSeqAssumption DEF Plus, SeqNum
    <3>. QED  BY <1>2, <2>3, <3>1, <3>2
  <2>. QED  BY <2>2, <2>3, ComesFrom
<1>. QED  BY <1>2, <1>4, <1>6 DEF InOrder

\* A pipe takes a new instruction only when its last one is gone.
LEMMA OnePerPipeStep ==
  ASSUME CommitInv, NEW offer, AtEdge(offer)
  PROVE  OnePerPipe'
<1>1. offer \in Offers /\ DONE \notin Pipes /\ EXEC \notin Pipes
  BY NumPipesAssumption DEF AtEdge, DONE, EXEC, Pipes
<1>2. committed \in Int /\ Live' \subseteq Int
  BY DEF committed, Live
\* Of two instructions with one fate the first was offered there before, or
\* both are offered now.
<1>3. ASSUME NEW a \in Live, NEW b \in Live, Fate(offer, a) = Fate(offer, b),
             Fate(offer, a) \in Pipes
      PROVE  a = b
  <2>1. CASE a \in Executing /\ b \in Executing
    <3>1. offer[a] = offer[b] /\ offer[a] # EXEC
      BY <1>1, <1>3, <2>1, FateType
    <3>2. DOMAIN offer = Executing
      BY <1>1 DEF Offers
    <3>. QED  BY <1>1, <2>1, <3>1, <3>2 DEF Offers
  <2>2. ASSUME NEW x \in Live, NEW y \in Live, x \in Executing, y \notin Executing,
               Fate(offer, x) = Fate(offer, y), Fate(offer, x) \in Pipes
        PROVE  FALSE
    <3>1. inflight[y].at = Fate(offer, x) /\ inflight[y].at \notin Ex_gnt
      BY <1>1, <2>2, FateType
    <3>2. Fate(offer, x) \in FreePipes
      BY <1>1, <2>2, FateType
    <3>3. y \in OfferedBy(Fate(offer, x))
      BY <3>1 DEF OfferedBy
    <3>. QED  BY <3>1, <3>2, <3>3 DEF FreePipes
  <2>3. CASE a \notin Executing /\ b \notin Executing
    <3>1. inflight[a].at = Fate(offer, a) /\ inflight[b].at = Fate(offer, b)
      BY <1>1, <1>3, <2>3, FateType
    <3>. QED  BY <1>3, <3>1 DEF CommitInv, OnePerPipe
  <2>. QED  BY <1>3, <2>1, <2>2, <2>3
<1>4. ASSUME NEW j \in Live', NEW k \in Live', inflight'[j].at = inflight'[k].at,
             inflight'[j].at \in Pipes
      PROVE  j = k
  <2>1. j + committed \in Live /\ inflight'[j].at = Fate(offer, j + committed)
    BY <1>1, <1>4, ComesFrom
  <2>2. k + committed \in Live /\ inflight'[k].at = Fate(offer, k + committed)
    BY <1>1, <1>4, ComesFrom
  <2>3. j + committed = k + committed
    BY <1>3, <1>4, <2>1, <2>2
  <2>. QED  BY <1>2, <2>3
<1>. QED  BY <1>4, Zenon DEF OnePerPipe, Pipes

\* The register takes what the arbiter granted.
LEMMA RegisterStep ==
  ASSUME CommitInv, NEW offer, AtEdge(offer)
  PROVE  /\ RegisterIsCompleted'
         /\ X_reg' \in {None} \cup [val : {TRUE}, seq_num : SeqNum, msg : Results]
         /\ \A k \in Live : inflight[k].at \in Ex_gnt =>
              X_reg'.val /\ X_reg'.seq_num = inflight[k].seq_num
         /\ \A k \in Live : X_reg'.val /\ X_reg'.seq_num = inflight[k].seq_num =>
              inflight[k].at \in Pipes
<1>1. X_reg' = complete
  BY DEF AtEdge, Edge
<1>2. CASE Ex_gnt = {} /\ complete = None
  BY <1>1, <1>2 DEF None, RegisterIsCompleted
<1>3. ASSUME NEW i \in Pipes, NEW k \in Live, GrantTakes(i, k)
      PROVE  /\ RegisterIsCompleted'
             /\ X_reg' \in [val : {TRUE}, seq_num : SeqNum, msg : Results]
             /\ \A j \in Live : inflight[j].at \in Ex_gnt =>
                  X_reg'.val /\ X_reg'.seq_num = inflight[j].seq_num
             /\ \A j \in Live : X_reg'.val /\ X_reg'.seq_num = inflight[j].seq_num =>
                  inflight[j].at \in Pipes
  <2>1. /\ X_reg' = [val |-> TRUE, seq_num |-> inflight[k].seq_num, msg |-> inflight[k].msg]
        /\ Ex_gnt = {i} /\ OfferedBy(i) = {k} /\ inflight[k].at = i
    BY <1>1, <1>3 DEF GrantTakes
  <2>2. inflight[k].seq_num \in SeqNum /\ inflight[k].msg \in Results
    BY InFlightType DEF CommitInv
  <2>3. \A j \in Live : inflight[j].at \in Ex_gnt => j = k
    BY <2>1 DEF OfferedBy
  <2>4. \A j \in Live : inflight[j].seq_num = inflight[k].seq_num => j = k
    BY NumbersDiffer DEF CommitInv
  <2>5. Fate(offer, k) = DONE
    BY <2>1, Completes
  <2>6. ~(commit.val /\ k = 1)
    <3>1. inflight[k].at # DONE
      BY <2>1, NumPipesAssumption DEF DONE, Pipes
    <3>. QED  BY <3>1, CommitShape
  <2>7. RegisterIsCompleted'
    BY <2>1, <2>5, <2>6, GoesTo DEF RegisterIsCompleted, DONE
  <2>. QED  BY <2>1, <2>2, <2>3, <2>4, <2>7
<1>. QED  BY <1>2, <1>3, Grant DEF CommitInv, None

\* What the buffer holds after the cycle: the entry of the instruction that
\* commits is free, and the result in the register is stored under its number
\* if it does not commit at once.
LEMMA EntriesEffect ==
  ASSUME CommitInv, NEW offer, AtEdge(offer), NEW s \in SeqNum
  PROVE  /\ commit.val /\ s = deq_ptr => entries'[s] = None
         /\ ~(commit.val /\ s = deq_ptr) /\ InRegister(X_reg, s) =>
              entries'[s] = [val |-> TRUE, msg |-> NoX0(X_reg.msg)]
         /\ ~(commit.val /\ s = deq_ptr) /\ ~InRegister(X_reg, s) => entries'[s] = entries[s]
<1>1. entries'[s] =
        IF deq_rdy /\ s = deq_ptr THEN None
        ELSE IF ins_en /\ ~bypass /\ s = X_reg.seq_num
          THEN [val |-> TRUE, msg |-> NoX0(X_reg.msg)]
        ELSE entries[s]
  BY DEF AtEdge, Edge, NextEntries
<1>2. commit.val <=> deq_rdy
  BY CommitShape
<1>3. bypass => deq_rdy /\ X_reg.seq_num = deq_ptr
  BY Zenon DEF bypass, deq_rdy
<1>4. InRegister(X_reg, s) <=> ins_en /\ s = X_reg.seq_num
  BY Zenon DEF InRegister, ins_en
<1>. QED  BY <1>1, <1>2, <1>3, <1>4, Zenon

\* An entry is valid for the completed instructions that are not in the
\* register, and holds their result.
LEMMA EntriesStep ==
  ASSUME CommitInv, NEW offer, AtEdge(offer)
  PROVE  /\ entries' \in [SeqNum -> {None} \cup [val : {TRUE}, msg : {NoX0(m) : m \in Results}]]
         /\ \A s \in SeqNum :
              entries'[s].val => \E k \in Live' : /\ inflight'[k].seq_num = s
                                                  /\ inflight'[k].at = DONE
                                                  /\ ~InRegister(X_reg', s)
                                                  /\ entries'[s].msg = NoX0(inflight'[k].msg)
         /\ \A k \in Live' :
              inflight'[k].at = DONE /\ ~InRegister(X_reg', inflight'[k].seq_num)
                => entries'[inflight'[k].seq_num].val
<1>1. /\ X_reg.val \in BOOLEAN
      /\ X_reg.val => X_reg.seq_num \in SeqNum /\ X_reg.msg \in Results
      /\ \A s \in SeqNum : \/ entries[s] = None
                           \/ entries[s] \in [val : {TRUE}, msg : {NoX0(m) : m \in Results}]
      /\ deq_ptr \in SeqNum
  <2>1. X_reg = None \/ X_reg \in [val : {TRUE}, seq_num : SeqNum, msg : Results]
    BY DEF CommitInv, CommitTypes
  <2>2. None.val = FALSE
    BY DEF None
  <2>3. /\ X_reg.val \in BOOLEAN
        /\ X_reg.val => X_reg.seq_num \in SeqNum /\ X_reg.msg \in Results
    BY <2>1, <2>2
  <2>. QED  BY <2>3 DEF CommitInv, CommitTypes
<1>2. entries' \in [SeqNum -> {None} \cup [val : {TRUE}, msg : {NoX0(m) : m \in Results}]]
  <2>1. entries' = [s \in SeqNum |-> entries'[s]]
    BY DEF AtEdge, Edge, NextEntries
  <2>2. ASSUME NEW s \in SeqNum
        PROVE  entries'[s] \in {None} \cup [val : {TRUE}, msg : {NoX0(m) : m \in Results}]
    <3>1. X_reg.val =>
            [val |-> TRUE, msg |-> NoX0(X_reg.msg)] \in [val : {TRUE}, msg : {NoX0(m) : m \in Results}]
      BY <1>1
    <3>2. InRegister(X_reg, s) => X_reg.val
      BY DEF InRegister
    <3>. QED  BY <1>1, <3>1, <3>2, EntriesEffect
  <2>. QED  BY <2>1, <2>2
\* A completed instruction that does not commit is in flight and completed
\* after the cycle, and not in the register.
<1>3. ASSUME NEW k \in Live, inflight[k].at = DONE, ~(commit.val /\ inflight[k].seq_num = deq_ptr)
      PROVE  \E j \in Live' : /\ inflight'[j].seq_num = inflight[k].seq_num
                              /\ inflight'[j].msg = inflight[k].msg
                              /\ inflight'[j].at = DONE
                              /\ ~InRegister(X_reg', inflight[k].seq_num)
  <2>1. Fate(offer, k) = DONE
    BY <1>3, Completes
  <2>2. ~(commit.val /\ k = 1)
    BY <1>3, CommitShape
  <2>3. inflight[k].at \notin Pipes
    BY <1>3, NumPipesAssumption DEF DONE, Pipes
  <2>4. ~(X_reg'.val /\ X_reg'.seq_num = inflight[k].seq_num)
    BY <2>3, RegisterStep
  <2>. QED  BY <2>1, <2>2, <2>4, GoesTo DEF InRegister
<1>4. ASSUME NEW s \in SeqNum, entries'[s].val
      PROVE  \E k \in Live' : /\ inflight'[k].seq_num = s
                              /\ inflight'[k].at = DONE
                              /\ ~InRegister(X_reg', s)
                              /\ entries'[s].msg = NoX0(inflight'[k].msg)
  <2>1. ~(commit.val /\ s = deq_ptr)
    BY <1>4, EntriesEffect DEF None
  <2>2. PICK k \in Live : /\ inflight[k].seq_num = s
                          /\ inflight[k].at = DONE
                          /\ entries'[s].msg = NoX0(inflight[k].msg)
    <3>1. CASE InRegister(X_reg, s)
      <4>1. entries'[s].msg = NoX0(X_reg.msg)
        BY <2>1, <3>1, EntriesEffect
      <4>. QED  BY <3>1, <4>1 DEF CommitInv, RegisterIsCompleted, InRegister
    <3>2. CASE ~InRegister(X_reg, s)
      <4>1. entries'[s] = entries[s]
        BY <2>1, <3>2, EntriesEffect
      <4>. QED  BY <1>4, <4>1 DEF CommitInv, EntriesAreCompleted
    <3>. QED  BY <3>1, <3>2
  <2>3. PICK j \in Live' : /\ inflight'[j].seq_num = s
                           /\ inflight'[j].msg = inflight[k].msg
                           /\ inflight'[j].at = DONE
                           /\ ~InRegister(X_reg', s)
    BY <1>3, <2>1, <2>2
  <2>. QED  BY <2>2, <2>3
<1>5. ASSUME NEW k \in Live', inflight'[k].at = DONE, ~InRegister(X_reg', inflight'[k].seq_num)
      PROVE  entries'[inflight'[k].seq_num].val
  <2> DEFINE j == k + committed
             s == inflight'[k].seq_num
  <2>1. /\ j \in Live /\ j > committed
        /\ s = inflight[j].seq_num
        /\ Fate(offer, j) = DONE
    <3>1. DONE # EXEC
      BY NumPipesAssumption DEF DONE, EXEC
    <3>. QED  BY <1>5, <3>1, ComesFrom
  <2> HIDE DEF j, s
  <2>2. inflight[j].at \notin Ex_gnt
    BY <1>5, <2>1, RegisterStep DEF InRegister, s
  <2>3. inflight[j].at = DONE
    BY <2>1, <2>2, Completes
  <2>4. s \in SeqNum
    BY <2>1, InFlightType DEF CommitInv
  <2>5. ~(commit.val /\ s = deq_ptr)
    <3>1. SUFFICES ASSUME commit.val, s = deq_ptr PROVE FALSE
      OBVIOUS
    <3>2. 1 \in Live /\ inflight[1].seq_num = deq_ptr
      BY <3>1, CommitShape
    <3>3. j = 1
      BY <2>1, <3>1, <3>2, NumbersDiffer DEF CommitInv
    <3>. QED  BY <2>1, <3>1, <3>3 DEF committed
  <2>6. CASE InRegister(X_reg, s)
    BY <2>4, <2>5, <2>6, EntriesEffect DEF s
  <2>7. CASE ~InRegister(X_reg, s)
    <3>1. entries[s].val
      BY <2>1, <2>3, <2>4, <2>7 DEF CommitInv, EntriesAreCompleted
    <3>. QED  BY <2>4, <2>5, <2>7, <3>1, EntriesEffect DEF s
  <2>. QED  BY <2>6, <2>7
<1>. QED  BY <1>2, <1>4, <1>5

\* Every cycle keeps the invariant.
LEMMA CommitStep ==
  ASSUME CommitInv, NEW offer, AtEdge(offer)
  PROVE  CommitInv'
<1>1. InOrder' /\ deq_ptr' \in SeqNum
  BY InOrderStep
<1>2. CommitTypes'
  BY <1>1, RegisterStep, EntriesStep DEF CommitTypes, AtEdge, Survivors
<1>3. OnePerPipe'
  BY OnePerPipeStep
<1>4. RegisterIsCompleted'
  BY RegisterStep
<1>5. Numbered'
  <2>1. CommitTypes' /\ InOrder' => Numbered'
    BY InFlightIsNumbered, PTL
  <2>. QED  BY <1>1, <1>2, <2>1
<1>6. EntriesAreCompleted'
  <2>1. ASSUME NEW s \in SeqNum
        PROVE  entries'[s].val <=> \E k \in Live' : /\ inflight'[k].seq_num = s
                                                    /\ inflight'[k].at = DONE
                                                    /\ ~InRegister(X_reg', s)
    <3>1. entries'[s].val \in BOOLEAN
      <4>1. \/ entries'[s] = None
            \/ entries'[s] \in [val : {TRUE}, msg : {NoX0(m) : m \in Results}]
        BY EntriesStep
      <4>2. None.val = FALSE
        BY DEF None
      <4>. QED  BY <4>1, <4>2
    <3>2. entries'[s].val => \E k \in Live' : /\ inflight'[k].seq_num = s
                                              /\ inflight'[k].at = DONE
                                              /\ ~InRegister(X_reg', s)
      BY EntriesStep
    <3>3. ASSUME NEW k \in Live', inflight'[k].seq_num = s, inflight'[k].at = DONE,
                 ~InRegister(X_reg', s)
          PROVE  entries'[s].val
      BY <3>3, EntriesStep
    <3>. QED  BY <3>1, <3>2, <3>3, Zenon
  <2>2. ASSUME NEW k \in Live', entries'[inflight'[k].seq_num].val
        PROVE  entries'[inflight'[k].seq_num].msg = NoX0(inflight'[k].msg)
    <3>1. inflight'[k].seq_num \in SeqNum
      BY <1>5 DEF Numbered
    <3>2. PICK j \in Live' : /\ inflight'[j].seq_num = inflight'[k].seq_num
                             /\ entries'[inflight'[k].seq_num].msg = NoX0(inflight'[j].msg)
      BY <2>2, <3>1, EntriesStep
    <3>3. j = k
      BY <1>5, <3>2 DEF Numbered
    <3>. QED  BY <3>2, <3>3
  <2>. QED  BY <2>1, <2>2, Zenon DEF EntriesAreCompleted, DONE
<1>. QED  BY <1>1, <1>2, <1>3, <1>4, <1>6 DEF CommitInv

\* After reset nothing is in flight, and nothing is valid.
LEMMA CommitInit == Init => CommitInv
<1> SUFFICES ASSUME Init PROVE CommitInv
  OBVIOUS
<1>1. /\ 0 \in SeqNum /\ Live = {} /\ None.val = FALSE
      /\ inflight \in Seq(Instruction) /\ Len(inflight) <= MaxInFlight
  BY NSeqAssumption, MaxInFlightAssumption DEF Init, SeqNum, Live, None
<1>. QED  BY <1>1 DEF Init, CommitInv, CommitTypes, InOrder, OnePerPipe, RegisterIsCompleted, EntriesAreCompleted

\* Where every result is, at all times.
THEOREM CommitInductive == Spec => []CommitInv
<1>1. CommitInv /\ [Next]_vars => CommitInv'
  <2>1. ASSUME CommitInv, Next PROVE CommitInv'
    <3>1. PICK offer \in Offers :
            Edge /\ (Work(offer) \/ \E msg \in Results : Issue(offer, msg))
      BY <2>1 DEF Next, Cycle
    <3>2. AtEdge(offer)
      BY <2>1, <3>1, CycleShape DEF AtEdge
    <3>. QED  BY <2>1, <3>2, CommitStep
  <2>2. ASSUME CommitInv, UNCHANGED vars PROVE CommitInv'
    BY <2>2 DEF vars, CommitInv, CommitTypes, InOrder, OnePerPipe, RegisterIsCompleted,
                EntriesAreCompleted, InRegister, Live, None
  <2>. QED  BY <2>1, <2>2
<1>. QED  BY <1>1, CommitInit, PTL DEF Spec

\* What commits is the oldest instruction, with its own result, after it
\* completed.
THEOREM CommitsInOrder == Spec => []CommitIsOldest
<1>1. CommitInv => CommitIsOldest
  BY CommitShape
<1>. QED  BY <1>1, CommitInductive, PTL

\* No completed result is lost, stored twice or overwritten, and the buffer and
\* the arbiter agree on the oldest number.
THEOREM BufferHoldsCompleted == Spec => []RobHoldsCompleted
<1>1. CommitInv => RobHoldsCompleted
  <2> SUFFICES ASSUME CommitInv PROVE RobHoldsCompleted
    OBVIOUS
  <2>. QED  BY Zenon DEF CommitInv, InOrder, EntriesAreCompleted, InRegister, RobHoldsCompleted
<1>. QED  BY <1>1, CommitInductive, PTL
=============================================================================
