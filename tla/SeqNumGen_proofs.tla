-------------------------- MODULE SeqNumGen_proofs --------------------------
(***************************************************************************)
(* No sequence number is in flight twice, for every number of sequence     *)
(* numbers, every reclaim width and every pipeline that fits.              *)
(*                                                                         *)
(* The invariant IInv says that the instructions in flight hold the        *)
(* numbers from the oldest one up to curr_head_ptr, that the list marks    *)
(* exactly these, and that curr_tail_ptr is at the oldest number or lags   *)
(* one behind it.  One lemma per kind of edge shows that it is kept.       *)
(***************************************************************************)
EXTENDS SeqNumGen, SeqArb_proofs, SequenceTheorems

\* What the proofs assume of the pipeline behind fetch: it never holds as
\* many instructions as there are sequence numbers.
PipelineFits == MaxInFlight < NSeq

\* After reset nothing is in flight, and the list and the window are empty.
LEMMA InitIInv == Init => IInv
<1> SUFFICES ASSUME Init PROVE IInv
  OBVIOUS
<1> USE DEF Init
<1>1. TypeOK
  BY NSeqAssumption DEF TypeOK, SeqNum, FREE, ALLOC
<1>2. InFlightIsWindow
  BY NSeqAssumption DEF InFlightIsWindow, Plus
<1>3. TailFollowsOldest
  BY NSeqAssumption DEF TailFollowsOldest, Lag, Minus
<1>4. ListIsWindow
  BY NSeqAssumption DEF ListIsWindow, Minus, FREE, ALLOC, SeqNum
<1>. QED  BY <1>1, <1>2, <1>3, <1>4 DEF IInv

\* The reclaim logic moves the tail from one behind the oldest number onto
\* it, and leaves it there otherwise.
LEMMA ReclaimCatchesUp ==
  ASSUME TypeOK, TailFollowsOldest, ListIsWindow, InFlightIsWindow, ReclaimTail
  PROVE  curr_tail_ptr' = oldest_seq_num
<1>1. PICK k \in 0 .. ReclaimWidth :
        IsTailIncr(k) /\ curr_tail_ptr' = Plus(curr_tail_ptr, k)
  BY DEF ReclaimTail
<1> DEFINE len == Len(inflight)
<1>2. len \in Nat
  BY DEF TypeOK
<1>3. /\ entries_allocated = len + Lag
      /\ Lag \in {0, 1}
  BY <1>2, NSeqAssumption, SMT
     DEF entries_allocated, Lag, TypeOK, TailFollowsOldest, InFlightIsWindow, Minus, Plus, SeqNum
<1>4. CASE Lag = 0
  <2>1. curr_tail_ptr = oldest_seq_num
    BY <1>4, NSeqAssumption, SMT DEF Lag, Minus, TypeOK, SeqNum
  <2>2. ~reclaim_valid(0)
    <3>1. CASE len = 0
      BY <3>1, <1>3, <1>4 DEF reclaim_valid
    <3>2. CASE len > 0
      <4>1. seq_num_list[curr_tail_ptr] = ALLOC
        BY <3>2, <2>1, <1>2, NSeqAssumption, SMT DEF ListIsWindow, Minus, TypeOK, SeqNum
      <4>2. Plus(curr_tail_ptr, 0) = curr_tail_ptr
        BY NSeqAssumption, SMT DEF Plus, TypeOK, SeqNum
      <4>. QED  BY <4>1, <4>2 DEF reclaim_valid, ALLOC, FREE
    <3>. QED  BY <3>1, <3>2, <1>2
  <2>3. k = 0
    BY <2>2, <1>1, ReclaimWidthAssumption, NSeqAssumption, SMT DEF IsTailIncr, reclaim_valid
  <2>. QED  BY <2>1, <2>3, <1>1, NSeqAssumption, SMT DEF Plus, TypeOK, SeqNum
<1>5. CASE Lag = 1
  <2>1. Plus(curr_tail_ptr, 1) = oldest_seq_num
    BY <1>5, NSeqAssumption, SMT DEF Lag, Minus, Plus, TypeOK, SeqNum
  <2>2. reclaim_valid(0)
    <3>1. Minus(curr_tail_ptr, oldest_seq_num) = NSeq - 1
      BY <1>5, <2>1, NSeqAssumption, SMT DEF Lag, Minus, Plus, TypeOK, SeqNum, TailFollowsOldest
    <3>2. len < NSeq - 1
      BY <1>5, <1>2, NSeqAssumption, SMT DEF TailFollowsOldest
    <3>3. seq_num_list[curr_tail_ptr] # ALLOC
      BY <3>1, <3>2, <1>2, NSeqAssumption, SMT DEF ListIsWindow, TypeOK
    <3>4. seq_num_list[Plus(curr_tail_ptr, 0)] = FREE
      BY <3>3, NSeqAssumption, SMT DEF Plus, TypeOK, SeqNum, FREE, ALLOC
    <3>. QED  BY <3>4, <1>2, <1>3, <1>5, SMT DEF reclaim_valid
  <2>3. ~reclaim_valid(1)
    <3>1. CASE len = 0
      BY <3>1, <1>3, <1>5 DEF reclaim_valid
    <3>2. CASE len > 0
      <4>1. seq_num_list[oldest_seq_num] = ALLOC
        BY <3>2, <1>2, NSeqAssumption, SMT DEF ListIsWindow, Minus, TypeOK, SeqNum
      <4>. QED  BY <4>1, <2>1 DEF reclaim_valid, ALLOC, FREE
    <3>. QED  BY <3>1, <3>2, <1>2
  <2>4. k = 1
    BY <2>2, <2>3, <1>1, ReclaimWidthAssumption, NSeqAssumption, SMT DEF IsTailIncr, reclaim_valid
  <2>. QED  BY <2>1, <2>4, <1>1
<1>. QED  BY <1>3, <1>4, <1>5

-----------------------------------------------------------------------------

\* A commit retires the number oldest_seq_num holds.
LEMMA CommitIsOldest ==
  ASSUME TypeOK, InFlightIsWindow, NEW commit \in Commits
  PROVE  \/ /\ ~commit.val
            /\ Committed(commit) = inflight
            /\ OldestNext(oldest_seq_num, commit) = oldest_seq_num
         \/ /\ commit.val
            /\ Len(inflight) > 0
            /\ commit.seq_num = oldest_seq_num
            /\ Committed(commit) = Tail(inflight)
            /\ OldestNext(oldest_seq_num, commit) = Plus(oldest_seq_num, 1)
<1>1. CASE commit = NoNotif
  BY <1>1 DEF NoNotif, Committed, OldestNext
<1>2. CASE /\ 1 \in DOMAIN inflight
           /\ commit = Notif(inflight[1])
  <2>1. Len(inflight) > 0
    BY <1>2 DEF TypeOK
  <2>2. inflight[1] = oldest_seq_num
    BY <2>1, NSeqAssumption, SMT DEF InFlightIsWindow, TypeOK, Plus, SeqNum
  <2>. QED  BY <1>2, <2>1, <2>2 DEF Notif, Committed, OldestNext
<1>. QED  BY <1>1, <1>2 DEF Commits

\* The tail part of the invariant, for every step: the tail lands on the
\* number that was oldest before the step.
LEMMA TailStep ==
  ASSUME TypeOK, InFlightIsWindow, NEW commit \in Commits,
         curr_tail_ptr' = oldest_seq_num,
         oldest_seq_num' = OldestNext(oldest_seq_num, commit)
  PROVE  /\ curr_tail_ptr' \in SeqNum
         /\ oldest_seq_num' \in SeqNum
         /\ Lag' = IF commit.val /\ NSeq > 1 THEN 1 ELSE 0
<1>1. \/ oldest_seq_num' = oldest_seq_num /\ ~commit.val
      \/ oldest_seq_num' = Plus(oldest_seq_num, 1) /\ commit.val
  BY CommitIsOldest
<1>. QED  BY <1>1, NSeqAssumption, SMT DEF Lag, Minus, Plus, TypeOK, SeqNum

\* An edge that neither allocates nor squashes, with or without a commit,
\* keeps the invariant.
LEMMA QuietStep ==
  ASSUME IInv, NEW commit \in Commits, Quiet(commit)
  PROVE  IInv'
<1> DEFINE len == Len(inflight)
<1>1. /\ seq_num_list' = NextList(FALSE, commit, NoNotif)
      /\ curr_head_ptr' = curr_head_ptr
      /\ curr_tail_ptr' = oldest_seq_num
      /\ oldest_seq_num' = OldestNext(oldest_seq_num, commit)
      /\ inflight' = Committed(commit)
  BY ReclaimCatchesUp DEF IInv, Quiet, Edge, NextHead, NoNotif
<1>2. len \in Nat /\ len < NSeq
  BY NSeqAssumption, SMT DEF IInv, TypeOK, TailFollowsOldest, Lag, Minus, SeqNum
<1>3. CASE ~commit.val
  <2>1. inflight' = inflight /\ oldest_seq_num' = oldest_seq_num
    BY <1>1, <1>3, CommitIsOldest DEF IInv
  <2>2. seq_num_list' = seq_num_list
    BY <1>1, <1>3 DEF NextList, NoNotif, IInv, TypeOK
  <2>3. TypeOK'
    BY <1>1, <2>1, <2>2, TailStep DEF IInv, TypeOK
  <2>4. InFlightIsWindow' /\ ListIsWindow'
    BY <1>1, <2>1, <2>2 DEF IInv, InFlightIsWindow, ListIsWindow
  <2>5. TailFollowsOldest'
    <3>1. Lag' = 0
      BY <1>1, <1>3, TailStep DEF IInv
    <3>. QED  BY <1>2, <2>1, <3>1, SMT DEF TailFollowsOldest
  <2>. QED  BY <2>3, <2>4, <2>5 DEF IInv
<1>4. CASE commit.val
  <2>1. /\ inflight' = Tail(inflight)
        /\ len > 0
        /\ commit.seq_num = oldest_seq_num
        /\ oldest_seq_num' = Plus(oldest_seq_num, 1)
    BY <1>1, <1>4, CommitIsOldest DEF IInv
  <2>2. /\ Len(inflight') = len - 1
        /\ inflight' \in Seq(SeqNum)
        /\ \A k \in 1 .. len - 1 : inflight'[k] = inflight[k + 1]
    BY <2>1, <1>2 DEF IInv, TypeOK
  <2>3. TypeOK'
    BY <1>1, <2>2, TailStep DEF IInv, TypeOK, NextList, FREE, ALLOC
  <2>4. InFlightIsWindow'
    BY <1>1, <1>2, <2>1, <2>2, <2>3, NSeqAssumption, SMT DEF IInv, TypeOK, InFlightIsWindow, Plus, SeqNum
  <2>5. TailFollowsOldest'
    BY <1>1, <1>2, <1>4, <2>2, TailStep, NSeqAssumption, SMT DEF IInv, TailFollowsOldest
  <2>6. ListIsWindow'
    <3>1. \A s \in SeqNum : seq_num_list'[s] = IF s = oldest_seq_num THEN FREE ELSE seq_num_list[s]
      BY <1>1, <1>4, <2>1 DEF NextList, NoNotif
    <3>. QED  BY <3>1, <1>2, <2>1, <2>2, NSeqAssumption, SMT DEF IInv, TypeOK, ListIsWindow, Minus, Plus, SeqNum, FREE, ALLOC
  <2>. QED  BY <2>3, <2>4, <2>5, <2>6 DEF IInv
<1>. QED  BY <1>3, <1>4

\* An edge that hands out the number at curr_head keeps the invariant: the
\* number was outside the window, so it is no one else's.
LEMMA AllocStep ==
  ASSUME IInv, PipelineFits, NEW commit \in Commits, Alloc(commit)
  PROVE  IInv'
<1> DEFINE len == Len(inflight)
           rest == Committed(commit)
<1>1. /\ seq_num_list' = NextList(TRUE, commit, NoNotif)
      /\ curr_head_ptr' = Plus(curr_head_ptr, 1)
      /\ curr_tail_ptr' = oldest_seq_num
      /\ oldest_seq_num' = OldestNext(oldest_seq_num, commit)
      /\ inflight' = Append(rest, curr_head_ptr)
  BY ReclaimCatchesUp DEF IInv, Alloc, Edge, NextHead, NoNotif
<1>2. len \in Nat /\ len + 1 < NSeq
  BY NSeqAssumption, MaxInFlightAssumption, SMT DEF IInv, TypeOK, Alloc, PipelineFits
<1>3. curr_head_ptr = Plus(oldest_seq_num, len)
  BY DEF IInv, InFlightIsWindow
<1>4. CASE ~commit.val
  <2>1. inflight' = Append(inflight, curr_head_ptr) /\ oldest_seq_num' = oldest_seq_num
    BY <1>1, <1>4, CommitIsOldest DEF IInv
  <2>2. /\ Len(inflight') = len + 1
        /\ inflight' \in Seq(SeqNum)
        /\ \A k \in 1 .. len : inflight'[k] = inflight[k]
        /\ inflight'[len + 1] = curr_head_ptr
    BY <2>1, <1>2 DEF IInv, TypeOK
  <2>3. curr_head_ptr' \in SeqNum
    BY <1>1, NSeqAssumption, SMT DEF IInv, TypeOK, Plus, SeqNum
  <2>4. TypeOK'
    BY <1>1, <2>2, <2>3, TailStep DEF IInv, TypeOK, NextList, FREE, ALLOC
  <2>5. InFlightIsWindow'
    <3>1. \A k \in 1 .. len + 1 : inflight'[k] = Plus(oldest_seq_num', k - 1)
      BY <1>2, <1>3, <2>1, <2>2, SMT DEF IInv, InFlightIsWindow
    <3>2. curr_head_ptr' = Plus(oldest_seq_num', len + 1)
      BY <1>1, <1>2, <1>3, <2>1, NSeqAssumption, SMT DEF IInv, TypeOK, Plus, SeqNum
    <3>. QED  BY <2>2, <3>1, <3>2 DEF InFlightIsWindow
  <2>6. TailFollowsOldest'
    <3>1. Lag' = 0
      BY <1>1, <1>4, TailStep DEF IInv
    <3>. QED  BY <1>2, <2>2, <3>1, SMT DEF TailFollowsOldest
  <2>7. ListIsWindow'
    <3>1. \A s \in SeqNum : seq_num_list'[s] = IF s = curr_head_ptr THEN ALLOC ELSE seq_num_list[s]
      BY <1>1, <1>4 DEF NextList, NoNotif
    <3> SUFFICES ASSUME NEW s \in SeqNum
                 PROVE  seq_num_list'[s] = ALLOC <=> Minus(s, oldest_seq_num) < len + 1
      BY <2>1, <2>2 DEF ListIsWindow
    <3>2. Minus(s, oldest_seq_num) < len + 1 <=> Minus(s, oldest_seq_num) < len \/ s = curr_head_ptr
      BY <1>2, <1>3, WindowGrows, NSeqAssumption DEF IInv, TypeOK
    <3>. QED  BY <3>1, <3>2 DEF IInv, ListIsWindow
  <2>. QED  BY <2>4, <2>5, <2>6, <2>7 DEF IInv
<1>5. CASE commit.val
  <2>1. /\ inflight' = Append(Tail(inflight), curr_head_ptr)
        /\ len > 0
        /\ commit.seq_num = oldest_seq_num
        /\ oldest_seq_num' = Plus(oldest_seq_num, 1)
    BY <1>1, <1>5, CommitIsOldest DEF IInv
  <2>2. /\ Len(inflight') = len
        /\ inflight' \in Seq(SeqNum)
        /\ \A k \in 1 .. len - 1 : inflight'[k] = inflight[k + 1]
        /\ inflight'[len] = curr_head_ptr
    BY <2>1, <1>2 DEF IInv, TypeOK
  <2>3. curr_head_ptr' \in SeqNum
    BY <1>1, NSeqAssumption, SMT DEF IInv, TypeOK, Plus, SeqNum
  <2>4. TypeOK'
    BY <1>1, <2>2, <2>3, TailStep DEF IInv, TypeOK, NextList, FREE, ALLOC
  <2>5. InFlightIsWindow'
    <3>1. \A k \in 1 .. len : inflight'[k] = Plus(oldest_seq_num', k - 1)
      <4> SUFFICES ASSUME NEW k \in 1 .. len
                   PROVE  inflight'[k] = Plus(oldest_seq_num, k)
        <5> SUFFICES ASSUME NEW k \in 1 .. len
                     PROVE  Plus(Plus(oldest_seq_num, 1), k - 1) = Plus(oldest_seq_num, k)
          BY <2>1
        <5>1. k - 1 \in Nat /\ (k - 1) + 1 < NSeq /\ (k - 1) + 1 = k
          BY <1>2, NSeqAssumption, SMT
        <5>. QED  BY <5>1, PlusPlus DEF IInv, TypeOK
      <4>1. CASE k = len
        BY <4>1, <1>3, <2>2
      <4>2. CASE k < len
        BY <4>2, <1>2, <2>2, SMT DEF IInv, InFlightIsWindow
      <4>. QED  BY <4>1, <4>2, <1>2
    <3>2. curr_head_ptr' = Plus(oldest_seq_num', len)
      BY <1>1, <1>2, <1>3, <2>1, NSeqAssumption, SMT DEF IInv, TypeOK, Plus, SeqNum
    <3>. QED  BY <2>2, <3>1, <3>2 DEF InFlightIsWindow
  <2>6. TailFollowsOldest'
    <3>1. Lag' \in {0, 1}
      BY <1>1, TailStep DEF IInv
    <3>. QED  BY <1>2, <2>2, <3>1, NSeqAssumption, SMT DEF TailFollowsOldest
  <2>7. ListIsWindow'
    <3>1. \A s \in SeqNum : seq_num_list'[s] =
            IF s = oldest_seq_num THEN FREE
            ELSE IF s = curr_head_ptr THEN ALLOC ELSE seq_num_list[s]
      BY <1>1, <1>5, <2>1 DEF NextList, NoNotif
    <3> SUFFICES ASSUME NEW s \in SeqNum
                 PROVE  seq_num_list'[s] = ALLOC <=> Minus(s, Plus(oldest_seq_num, 1)) < len
      BY <2>1, <2>2 DEF ListIsWindow
    <3>2. Minus(s, oldest_seq_num) < len + 1 <=> Minus(s, oldest_seq_num) < len \/ s = curr_head_ptr
      BY <1>2, <1>3, WindowGrows, NSeqAssumption DEF IInv, TypeOK
    <3>3. Minus(s, Plus(oldest_seq_num, 1)) < len <=> Minus(s, oldest_seq_num) < len + 1 /\ s # oldest_seq_num
      BY <1>2, WindowShrinks, NSeqAssumption, SMT DEF IInv, TypeOK
    <3>. QED  BY <3>1, <3>2, <3>3 DEF IInv, ListIsWindow, FREE, ALLOC
  <2>. QED  BY <2>4, <2>5, <2>6, <2>7 DEF IInv
<1>. QED  BY <1>4, <1>5

\* A squash, which moves curr_head back behind the branch and clears the list
\* entries younger than it, keeps the invariant.
LEMMA SquashStep ==
  ASSUME IInv, NEW commit \in Commits, NEW k \in 1 .. NSeq, Squash(commit, k)
  PROVE  IInv'
<1> DEFINE len == Len(inflight)
           squash == Notif(inflight[k])
<1>1. /\ seq_num_list' = NextList(FALSE, commit, squash)
      /\ curr_head_ptr' = Plus(inflight[k], 1)
      /\ curr_tail_ptr' = oldest_seq_num
      /\ oldest_seq_num' = OldestNext(oldest_seq_num, commit)
      /\ inflight' = SubSeq(inflight, IF commit.val THEN 2 ELSE 1, k)
      /\ commit.val => k > 1
  BY ReclaimCatchesUp DEF IInv, Squash, Edge, NextHead, Notif
<1>2. /\ len \in Nat
      /\ len < NSeq
      /\ k \in 1 .. len
  BY NSeqAssumption, SMT DEF IInv, TypeOK, TailFollowsOldest, Lag, Minus, SeqNum, Squash
<1>3. inflight[k] = Plus(oldest_seq_num, k - 1) /\ inflight[k] \in SeqNum
  BY <1>2 DEF IInv, TypeOK, InFlightIsWindow
<1>4. curr_head_ptr' = Plus(oldest_seq_num, k)
  BY <1>1, <1>2, <1>3, NSeqAssumption, SMT DEF IInv, TypeOK, Plus, SeqNum
<1>5. curr_head_ptr' \in SeqNum
  BY <1>4, <1>2, NSeqAssumption, SMT DEF IInv, TypeOK, Plus, SeqNum
<1>6. TypeOK' /\ Len(inflight') = (IF commit.val THEN k - 1 ELSE k)
              /\ \A j \in 1 .. (IF commit.val THEN k - 1 ELSE k) :
                   inflight'[j] = inflight[IF commit.val THEN j + 1 ELSE j]
  <2>1. CASE ~commit.val
    <3>1. /\ Len(inflight') = k
          /\ inflight' \in Seq(SeqNum)
          /\ \A j \in 1 .. k : inflight'[j] = inflight[j]
      BY <1>1, <1>2, <2>1 DEF IInv, TypeOK
    <3>. QED  BY <1>1, <1>5, <2>1, <3>1, TailStep DEF IInv, TypeOK, NextList, FREE, ALLOC
  <2>2. CASE commit.val
    <3>1. /\ Len(inflight') = k - 1
          /\ inflight' \in Seq(SeqNum)
          /\ \A j \in 1 .. k - 1 : inflight'[j] = inflight[j + 1]
      BY <1>1, <1>2, <2>2 DEF IInv, TypeOK
    <3>. QED  BY <1>1, <1>5, <2>2, <3>1, TailStep DEF IInv, TypeOK, NextList, FREE, ALLOC
  <2>. QED  BY <2>1, <2>2
<1>7. \A s \in SeqNum : IsOlder(oldest_seq_num, inflight[k], s) <=> ~(Minus(s, oldest_seq_num) < k)
  <2> SUFFICES ASSUME NEW s \in SeqNum
               PROVE  IsOlder(oldest_seq_num, inflight[k], s) <=> ~(Minus(s, oldest_seq_num) < k)
    OBVIOUS
  <2>1. Minus(inflight[k], oldest_seq_num) = k - 1
    <3>1. k - 1 \in SeqNum
      BY <1>2, NSeqAssumption, SMT DEF SeqNum
    <3>. QED  BY <1>3, <3>1, MinusPlus DEF IInv, TypeOK
  <2>2. IsOlder(oldest_seq_num, inflight[k], s) <=> k - 1 < Minus(s, oldest_seq_num)
    BY <1>3, <2>1, IsOlderIsPrecedes DEF IInv, TypeOK, Precedes
  <2>3. Minus(s, oldest_seq_num) \in Nat
    BY MinusType DEF IInv, TypeOK, SeqNum
  <2>. QED  BY <1>2, <2>2, <2>3, SMT
<1>8. CASE ~commit.val
  <2>1. oldest_seq_num' = oldest_seq_num
    BY <1>1, <1>8, CommitIsOldest DEF IInv
  <2>2. InFlightIsWindow'
    BY <1>2, <1>4, <1>6, <1>8, <2>1 DEF IInv, InFlightIsWindow
  <2>3. TailFollowsOldest'
    <3>1. Lag' = 0
      BY <1>1, <1>8, TailStep DEF IInv
    <3>2. Len(inflight') = k
      BY <1>6, <1>8
    <3>. QED  BY <1>2, <3>1, <3>2, NSeqAssumption, SMT DEF TailFollowsOldest
  <2>4. ListIsWindow'
    <3> SUFFICES ASSUME NEW s \in SeqNum
                 PROVE  seq_num_list'[s] = ALLOC <=> Minus(s, oldest_seq_num) < k
      BY <1>6, <1>8, <2>1 DEF ListIsWindow
    <3>1. seq_num_list'[s] = IF ~(Minus(s, oldest_seq_num) < k) THEN FREE ELSE seq_num_list[s]
      BY <1>1, <1>7, <1>8 DEF NextList, Notif
    <3>2. Minus(s, oldest_seq_num) \in Nat
      BY MinusType DEF IInv, TypeOK, SeqNum
    <3>3. seq_num_list[s] = ALLOC <=> Minus(s, oldest_seq_num) < len
      BY DEF IInv, ListIsWindow
    <3>. QED  BY <1>2, <3>1, <3>2, <3>3, SMT DEF FREE, ALLOC
  <2>. QED  BY <1>6, <2>2, <2>3, <2>4 DEF IInv
<1>9. CASE commit.val
  <2>1. /\ oldest_seq_num' = Plus(oldest_seq_num, 1)
        /\ commit.seq_num = oldest_seq_num
        /\ k > 1
    BY <1>1, <1>9, CommitIsOldest DEF IInv
  <2>2. InFlightIsWindow'
    <3>1. \A j \in 1 .. k - 1 : inflight'[j] = Plus(oldest_seq_num', j - 1)
      <4> SUFFICES ASSUME NEW j \in 1 .. k - 1
                   PROVE  inflight'[j] = Plus(Plus(oldest_seq_num, 1), j - 1)
        BY <2>1
      <4>1. inflight'[j] = Plus(oldest_seq_num, j)
        BY <1>2, <1>6, <1>9, SMT DEF IInv, InFlightIsWindow
      <4>2. j - 1 \in Nat /\ (j - 1) + 1 < NSeq /\ (j - 1) + 1 = j
        BY <1>2, NSeqAssumption, SMT
      <4>. QED  BY <4>1, <4>2, PlusPlus DEF IInv, TypeOK
    <3>2. curr_head_ptr' = Plus(oldest_seq_num', k - 1)
      BY <1>2, <1>4, <2>1, NSeqAssumption, SMT DEF IInv, TypeOK, Plus, SeqNum
    <3>. QED  BY <1>6, <1>9, <3>1, <3>2 DEF InFlightIsWindow
  <2>3. TailFollowsOldest'
    <3>1. Lag' \in {0, 1}
      BY <1>1, TailStep DEF IInv
    <3>. QED  BY <1>2, <1>6, <1>9, <3>1, NSeqAssumption, SMT DEF TailFollowsOldest
  <2>4. ListIsWindow'
    <3> SUFFICES ASSUME NEW s \in SeqNum
                 PROVE  seq_num_list'[s] = ALLOC <=> Minus(s, Plus(oldest_seq_num, 1)) < k - 1
      BY <1>6, <1>9, <2>1 DEF ListIsWindow
    <3>1. seq_num_list'[s] =
            IF ~(Minus(s, oldest_seq_num) < k) \/ s = oldest_seq_num THEN FREE ELSE seq_num_list[s]
      BY <1>1, <1>7, <1>9, <2>1 DEF NextList, Notif
    <3>2. Minus(s, oldest_seq_num) \in Nat
      BY MinusType DEF IInv, TypeOK, SeqNum
    <3>3. seq_num_list[s] = ALLOC <=> Minus(s, oldest_seq_num) < len
      BY DEF IInv, ListIsWindow
    <3>4. Minus(s, Plus(oldest_seq_num, 1)) < k - 1 <=> Minus(s, oldest_seq_num) < k /\ s # oldest_seq_num
      BY <1>2, WindowShrinks, NSeqAssumption, SMT DEF IInv, TypeOK
    <3>. QED  BY <1>2, <3>1, <3>2, <3>3, <3>4, SMT DEF FREE, ALLOC
  <2>. QED  BY <1>6, <2>2, <2>3, <2>4 DEF IInv
<1>. QED  BY <1>8, <1>9

-----------------------------------------------------------------------------

\* Every edge keeps the invariant.
LEMMA InductiveStep ==
  ASSUME PipelineFits, IInv, [Next]_vars
  PROVE  IInv'
<1>1. CASE Next
  BY <1>1, QuietStep, AllocStep, SquashStep DEF Next, Cycle
<1>2. CASE UNCHANGED vars
  BY <1>2 DEF vars, IInv, TypeOK, InFlightIsWindow, TailFollowsOldest, ListIsWindow, Lag
<1>. QED  BY <1>1, <1>2

\* The inductive invariant, for every width of sequence number, every reclaim
\* width and every pipeline that holds fewer instructions than there are
\* numbers.
THEOREM Inductive ==
  ASSUME PipelineFits
  PROVE  Spec => []IInv
<1>1. Init => IInv
  BY InitIInv
<1>2. IInv /\ [Next]_vars => IInv'
  BY InductiveStep
<1>. QED  BY <1>1, <1>2, PTL DEF Spec

\* The registers of the generator keep their types.
THEOREM TypeCorrect ==
  ASSUME PipelineFits
  PROVE  Spec => []TypeOK
<1>1. IInv => TypeOK
  BY DEF IInv
<1>. QED  BY <1>1, Inductive, PTL

\* There are fewer instructions in flight than sequence numbers.
LEMMA InFlightFits == IInv => Len(inflight) \in Nat /\ Len(inflight) < NSeq
BY NSeqAssumption, SMT DEF IInv, TypeOK, TailFollowsOldest, Lag, Minus, SeqNum

\* No two instructions in flight share a sequence number.
THEOREM Unique ==
  ASSUME PipelineFits
  PROVE  Spec => []UniqueInFlight
<1>1. IInv => UniqueInFlight
  BY InFlightFits, NSeqAssumption, SMT DEF IInv, TypeOK, InFlightIsWindow, UniqueInFlight, Plus, SeqNum
<1>. QED  BY <1>1, Inductive, PTL

\* is_older orders the instructions in flight as the program does.
THEOREM AgeCorrect ==
  ASSUME PipelineFits
  PROVE  Spec => []AgeIsProgramOrder
<1>1. ASSUME IInv PROVE AgeIsProgramOrder
  <2> SUFFICES ASSUME NEW i \in 1 .. Len(inflight), NEW j \in 1 .. Len(inflight)
               PROVE  IsOlder(oldest_seq_num, inflight[i], inflight[j]) <=> i < j
    BY DEF AgeIsProgramOrder
  <2>1. \A k \in 1 .. Len(inflight) :
          inflight[k] \in SeqNum /\ Minus(inflight[k], oldest_seq_num) = k - 1
    <3> SUFFICES ASSUME NEW k \in 1 .. Len(inflight)
                 PROVE  inflight[k] \in SeqNum /\ Minus(inflight[k], oldest_seq_num) = k - 1
      OBVIOUS
    <3>1. k - 1 \in SeqNum
      BY <1>1, InFlightFits, NSeqAssumption, SMT DEF SeqNum
    <3>. QED  BY <1>1, <3>1, MinusPlus DEF IInv, TypeOK, InFlightIsWindow
  <2>2. IsOlder(oldest_seq_num, inflight[i], inflight[j]) <=> i - 1 < j - 1
    BY <1>1, <2>1, IsOlderIsPrecedes DEF IInv, TypeOK, Precedes
  <2>. QED  BY <1>1, <2>2, InFlightFits, SMT
<1>. QED  BY <1>1, Inductive, PTL

\* The list marks exactly the instructions in flight.
THEOREM ListCorrect ==
  ASSUME PipelineFits
  PROVE  Spec => []ListIsInFlight
<1>1. ASSUME IInv PROVE ListIsInFlight
  <2> SUFFICES ASSUME NEW s \in SeqNum
               PROVE  Minus(s, oldest_seq_num) < Len(inflight)
                        <=> \E k \in 1 .. Len(inflight) : inflight[k] = s
    BY <1>1 DEF IInv, ListIsWindow, ListIsInFlight
  <2>1. ASSUME Minus(s, oldest_seq_num) < Len(inflight)
        PROVE  inflight[Minus(s, oldest_seq_num) + 1] = s
               /\ Minus(s, oldest_seq_num) + 1 \in 1 .. Len(inflight)
    <3>1. Minus(s, oldest_seq_num) \in Nat
      BY <1>1, MinusType DEF IInv, TypeOK, SeqNum
    <3>2. Plus(oldest_seq_num, Minus(s, oldest_seq_num)) = s
      BY <1>1, PlusMinus DEF IInv, TypeOK
    <3>3. Minus(s, oldest_seq_num) + 1 \in 1 .. Len(inflight)
      BY <1>1, <2>1, <3>1, InFlightFits, SMT
    <3>4. inflight[Minus(s, oldest_seq_num) + 1] =
            Plus(oldest_seq_num, (Minus(s, oldest_seq_num) + 1) - 1)
      BY <1>1, <3>3 DEF IInv, InFlightIsWindow
    <3>. QED  BY <3>1, <3>2, <3>3, <3>4, SMT
  <2>2. ASSUME NEW k \in 1 .. Len(inflight), inflight[k] = s
        PROVE  Minus(s, oldest_seq_num) < Len(inflight)
    <3>1. k - 1 \in SeqNum
      BY <1>1, InFlightFits, NSeqAssumption, SMT DEF SeqNum
    <3>2. Minus(s, oldest_seq_num) = k - 1
      BY <1>1, <2>2, <3>1, MinusPlus DEF IInv, TypeOK, InFlightIsWindow
    <3>. QED  BY <1>1, <3>2, InFlightFits, SMT
  <2>. QED  BY <2>1, <2>2
<1>. QED  BY <1>1, Inductive, PTL
=============================================================================
