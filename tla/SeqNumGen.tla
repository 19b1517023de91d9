------------------------------ MODULE SeqNumGen ------------------------------
(***************************************************************************)
(* The sequence number generator of hw/fetch/SeqNumGenL3.v, with the age   *)
(* register of hw/util/SeqAge.v it instantiates.  One step is one clock    *)
(* edge.                                                                   *)
(*                                                                         *)
(* Its inputs are the rest of the processor: fetch takes numbers           *)
(* (alloc_rdy), the commit unit retires the oldest instruction in flight,  *)
(* and a control-flow instruction in flight squashes everything after it.  *)
(* `inflight` is that environment's view: the numbers of the instructions  *)
(* fetched and neither committed nor squashed, in program order.           *)
(***************************************************************************)
EXTENDS SeqAge, Sequences

CONSTANTS
  ReclaimWidth,   \* p_reclaim_width: numbers reclaimed per cycle, at most
  MaxInFlight     \* how many instructions the pipeline behind fetch can hold

ASSUME ReclaimWidthAssumption == ReclaimWidth \in 1 .. NSeq
ASSUME MaxInFlightAssumption == MaxInFlight \in Nat \ {0}

VARIABLES
  seq_num_list,     \* SeqNum -> {ALLOC, FREE}
  curr_head_ptr,    \* the next number to hand out
  curr_tail_ptr,    \* the first number not yet reclaimed
  oldest_seq_num,   \* SeqAge's register
  inflight

vars == <<seq_num_list, curr_head_ptr, curr_tail_ptr, oldest_seq_num, inflight>>

FREE  == 0
ALLOC == 1

Init ==
  /\ seq_num_list   = [s \in SeqNum |-> FREE]
  /\ curr_head_ptr  = 0
  /\ curr_tail_ptr  = 0
  /\ oldest_seq_num = 0
  /\ inflight       = << >>

-----------------------------------------------------------------------------
(* Combinational signals.                                                  *)

entries_allocated == Minus(curr_head_ptr, curr_tail_ptr)

\* The literal 1 is 32 bits wide and so is the sum: at the last number the
\* sum is NSeq, which no tail pointer equals.
alloc_val == curr_head_ptr + 1 # curr_tail_ptr

reclaim_valid(i) ==
  \A j \in 0 .. i : /\ seq_num_list[Plus(curr_tail_ptr, j)] = FREE
                    /\ j < entries_allocated

\* reclaim_select is one-hot at the last valid position.
IsTailIncr(k) ==
  /\ k > 0 => reclaim_valid(k - 1)
  /\ k < ReclaimWidth => ~reclaim_valid(k)

-----------------------------------------------------------------------------
(* One clock edge, as seen by each register.                               *)

\* Mutant: a commit in the cycle of an allocation frees nothing.
NextList_AllocFirst(is_alloc, commit, squash) ==
  [s \in SeqNum |->
    IF squash.val /\ IsOlder(oldest_seq_num, squash.seq_num, s) THEN FREE
    ELSE IF is_alloc THEN (IF curr_head_ptr = s THEN ALLOC ELSE seq_num_list[s])
    ELSE IF commit.val /\ commit.seq_num = s THEN FREE
    ELSE seq_num_list[s]]

\* Mutant: a squash frees nothing.
NextList_NoSquash(is_alloc, commit, squash) ==
  [s \in SeqNum |->
    IF commit.val /\ commit.seq_num = s THEN FREE
    ELSE IF is_alloc /\ curr_head_ptr = s THEN ALLOC
    ELSE seq_num_list[s]]

NextList(is_alloc, commit, squash) ==
  [s \in SeqNum |->
    IF squash.val /\ IsOlder(oldest_seq_num, squash.seq_num, s) THEN FREE
    ELSE IF commit.val /\ commit.seq_num = s THEN FREE
    ELSE IF is_alloc /\ curr_head_ptr = s THEN ALLOC
    ELSE seq_num_list[s]]

\* Mutant: the squashing instruction's own number is handed out again.
NextHead_Reissue(is_alloc, squash) ==
  LET base == IF squash.val THEN squash.seq_num ELSE curr_head_ptr
  IN  IF is_alloc THEN Plus(base, 1) ELSE base

NextHead(is_alloc, squash) ==
  LET base == IF squash.val THEN Plus(squash.seq_num, 1) ELSE curr_head_ptr
  IN  IF is_alloc THEN Plus(base, 1) ELSE base

ReclaimTail ==
  \E k \in 0 .. ReclaimWidth :
    /\ IsTailIncr(k)
    /\ curr_tail_ptr' = Plus(curr_tail_ptr, k)

Edge(is_alloc, commit, squash) ==
  /\ seq_num_list'   = NextList(is_alloc, commit, squash)
  /\ curr_head_ptr'  = NextHead(is_alloc, squash)
  /\ ReclaimTail
  /\ oldest_seq_num' = OldestNext(oldest_seq_num, commit)

-----------------------------------------------------------------------------
(* The environment.                                                        *)

NoNotif  == [val |-> FALSE, seq_num |-> 0]
Notif(s) == [val |-> TRUE, seq_num |-> s]

\* The commit unit is quiet, or retires the oldest instruction.
Commits == {NoNotif} \cup {Notif(inflight[k]) : k \in {1} \cap DOMAIN inflight}

Committed(commit) == IF commit.val THEN Tail(inflight) ELSE inflight

\* Fetch takes no number.
Quiet(commit) ==
  /\ Edge(FALSE, commit, NoNotif)
  /\ inflight' = Committed(commit)

\* Fetch hands an instruction to decode under the next number.
Alloc(commit) ==
  /\ alloc_val
  /\ Len(inflight) < MaxInFlight
  /\ Edge(TRUE, commit, NoNotif)
  /\ inflight' = Append(Committed(commit), curr_head_ptr)

\* The k-th instruction in flight squashes the later ones.  Fetch drops what
\* it holds in that cycle and takes no number; the squasher has yet to commit.
Squash(commit, k) ==
  /\ k \in DOMAIN inflight
  /\ commit.val => k > 1
  /\ Edge(FALSE, commit, Notif(inflight[k]))
  /\ inflight' = SubSeq(inflight, IF commit.val THEN 2 ELSE 1, k)

Cycle(commit) ==
  \/ Quiet(commit)
  \/ Alloc(commit)
  \/ \E k \in 1 .. NSeq : Squash(commit, k)

Next == \E commit \in Commits : Cycle(commit)

Spec == Init /\ [][Next]_vars

Retire == inflight # << >> /\ Cycle(Notif(Head(inflight)))

\* The clock ticks, and an instruction that stays in flight commits.
FairSpec == Spec /\ WF_vars(Next) /\ WF_vars(Retire)

-----------------------------------------------------------------------------
(* Properties.                                                             *)

\* Type invariant of the generator's registers and of its environment.
TypeOK ==
  /\ seq_num_list \in [SeqNum -> {FREE, ALLOC}]
  /\ curr_head_ptr \in SeqNum
  /\ curr_tail_ptr \in SeqNum
  /\ oldest_seq_num \in SeqNum
  /\ inflight \in Seq(SeqNum)

\* No two instructions in flight carry the same sequence number, whatever
\* allocations, commits and squashes came before (alloc_seq_num): the number
\* is the instruction's identity in the ROB and in both arbiters.
UniqueInFlight ==
  \A i, j \in 1 .. Len(inflight) : inflight[i] = inflight[j] => i = j

\* is_older orders any two instructions in flight as the program does,
\* across wrap-around and while the oldest one commits.
AgeIsProgramOrder ==
  \A i, j \in 1 .. Len(inflight) :
    IsOlder(oldest_seq_num, inflight[i], inflight[j]) <=> i < j

\* seq_num_list marks exactly the instructions in flight: the tail never
\* reclaims a number under a live instruction, and a squash loses none.
ListIsInFlight ==
  \A s \in SeqNum :
    seq_num_list[s] = ALLOC <=> \E k \in 1 .. Len(inflight) : inflight[k] = s

\* Fetch is never starved of numbers for good: alloc_val comes back as long
\* as instructions commit.
AllocAgain == []<>alloc_val

-----------------------------------------------------------------------------
(* The inductive invariant.                                                *)

Lag == Minus(oldest_seq_num, curr_tail_ptr)

\* The numbers in flight are consecutive, from the oldest to the head.
InFlightIsWindow ==
  /\ \A k \in 1 .. Len(inflight) : inflight[k] = Plus(oldest_seq_num, k - 1)
  /\ curr_head_ptr = Plus(oldest_seq_num, Len(inflight))

\* The tail is at most one commit behind, so the window never fills the ring.
TailFollowsOldest ==
  /\ Lag <= 1
  /\ Len(inflight) + Lag < NSeq

ListIsWindow ==
  \A s \in SeqNum :
    seq_num_list[s] = ALLOC <=> Minus(s, oldest_seq_num) < Len(inflight)

IInv == TypeOK /\ InFlightIsWindow /\ TailFollowsOldest /\ ListIsWindow
=============================================================================
