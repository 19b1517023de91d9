--------------------------- MODULE WritebackCommit ---------------------------
(***************************************************************************)
(* The writeback and commit unit of                                        *)
(* hw/writeback_commit/writeback_commit_unit_variants/                     *)
(* WritebackCommitUnitL3.v: an arbiter takes the oldest of the results the *)
(* pipes offer, a register holds it for one cycle, and the reorder buffer  *)
(* of hw/writeback_commit/ROB.v puts results back into program order.  One *)
(* step is one clock edge.                                                 *)
(*                                                                         *)
(* The environment is the pipes.  `inflight` lists the instructions issued *)
(* and not yet committed, in program order, with the result each will      *)
(* have; `at` says where an instruction is: EXEC (in a pipe, no result     *)
(* yet), a pipe number (offered on that pipe's interface, which holds its  *)
(* request until it is taken) or DONE (taken).                             *)
(***************************************************************************)
EXTENDS SeqArb, Sequences, FiniteSets

CONSTANTS
  NumPipes,      \* p_num_pipes
  Results,       \* [waddr, wen, ...]: what a pipe can send with an instruction
  MaxInFlight    \* how many instructions the pipes and this unit can hold

ASSUME NumPipesAssumption == NumPipes \in Nat \ {0}
ASSUME MaxInFlightAssumption == MaxInFlight \in 1 .. NSeq

Pipes == 0 .. NumPipes - 1
EXEC  == NumPipes
DONE  == NumPipes + 1

VARIABLES
  X_reg,           \* the result taken in the last cycle
  entries,         \* the reorder buffer, one entry per sequence number
  deq_ptr,         \* the next number to commit
  oldest_seq_num,  \* the age register inside the arbiter
  inflight

vars == <<X_reg, entries, deq_ptr, oldest_seq_num, inflight>>

\* The content of an invalid register or entry is never looked at.
None == [val |-> FALSE]

Init ==
  /\ X_reg          = None
  /\ entries        = [s \in SeqNum |-> None]
  /\ deq_ptr        = 0
  /\ oldest_seq_num = 0
  /\ inflight       = << >>

-----------------------------------------------------------------------------
(* Arbitration and completion.                                             *)

Live == 1 .. Len(inflight)

\* Which instruction pipe i offers, if any.
OfferedBy(i) == {k \in Live : inflight[k].at = i}

Ex == [i \in Pipes |->
  IF OfferedBy(i) = {} THEN Idle
  ELSE LET k == CHOOSE k \in OfferedBy(i) : TRUE
       IN  [val |-> TRUE, seq_num |-> inflight[k].seq_num, msg |-> inflight[k].msg]]

\* Ex_rdy is the grant.
Ex_gnt == Granted(oldest_seq_num, Ex, NumPipes)

\* The masks leave the granted request only (never two, see GrantIsUnique).
complete ==
  LET gnt == Ex_gnt
  IN  IF gnt = {} THEN None ELSE Ex[CHOOSE i \in gnt : TRUE]

\* A write to x0 is dropped on the way to the register file and to the ROB.
NoX0(msg) == [msg EXCEPT !.wen = @ /\ msg.waddr # 0]

-----------------------------------------------------------------------------
(* The reorder buffer.  Dequeue is enabled whenever it is ready.           *)

ins_en == X_reg.val

\* Mutant: a result bypasses the buffer whatever its place.
bypass_Always == ins_en

bypass == ins_en /\ X_reg.seq_num = deq_ptr

deq_rdy == entries[deq_ptr].val \/ bypass

commit ==
  IF ~deq_rdy THEN None
  ELSE [val     |-> TRUE,
        seq_num |-> IF bypass THEN X_reg.seq_num ELSE deq_ptr,
        msg     |-> IF bypass THEN NoX0(X_reg.msg) ELSE entries[deq_ptr].msg]

\* Mutant: the committed entry stays valid.
NextEntries_Stale ==
  [s \in SeqNum |->
    IF ins_en /\ ~bypass /\ s = X_reg.seq_num
      THEN [val |-> TRUE, msg |-> NoX0(X_reg.msg)]
    ELSE entries[s]]

\* Mutant: the buffer has one port, and an insertion gives way to a dequeue.
NextEntries_OnePort ==
  [s \in SeqNum |->
    IF deq_rdy THEN IF s = deq_ptr THEN None ELSE entries[s]
    ELSE IF ins_en /\ s = X_reg.seq_num THEN [val |-> TRUE, msg |-> NoX0(X_reg.msg)]
    ELSE entries[s]]

NextEntries ==
  [s \in SeqNum |->
    IF deq_rdy /\ s = deq_ptr THEN None
    ELSE IF ins_en /\ ~bypass /\ s = X_reg.seq_num
      THEN [val |-> TRUE, msg |-> NoX0(X_reg.msg)]
    ELSE entries[s]]

NextDeqPtr == IF deq_rdy THEN Plus(deq_ptr, 1) ELSE deq_ptr

Edge ==
  /\ X_reg'          = complete
  /\ entries'        = NextEntries
  /\ deq_ptr'        = NextDeqPtr
  /\ oldest_seq_num' = OldestNext(oldest_seq_num, commit)

-----------------------------------------------------------------------------
(* The environment.                                                        *)

Executing == {k \in Live : inflight[k].at = EXEC}

\* A pipe that offers nothing, or whose offer is taken in this cycle, may
\* present the result of one more instruction.
FreePipes == {i \in Pipes : OfferedBy(i) = {}} \cup Ex_gnt

Offers ==
  LET moves == [Executing -> FreePipes \cup {EXEC}]
  IN  {o \in moves : \A j, k \in DOMAIN o : o[j] = o[k] => j = k \/ o[j] = EXEC}

Advance(offer) ==
  LET gnt   == Ex_gnt
      moved == [k \in Live |->
        [inflight[k] EXCEPT !.at = IF k \in Executing THEN offer[k]
                                   ELSE IF @ \in gnt THEN DONE ELSE @]]
  IN  IF commit.val THEN Tail(moved) ELSE moved

NextSeqNum ==
  IF inflight = << >> THEN deq_ptr ELSE Plus(inflight[Len(inflight)].seq_num, 1)

\* Decode issues nothing.
Work(offer) == inflight' = Advance(offer)

\* Decode issues an instruction that will have the result msg.
Issue(offer, msg) ==
  /\ Len(inflight) < MaxInFlight
  /\ inflight' = Append(Advance(offer), [seq_num |-> NextSeqNum, msg |-> msg, at |-> EXEC])

Cycle(offers) ==
  /\ Edge
  /\ \E offer \in offers :
       \/ Work(offer)
       \/ \E msg \in Results : Issue(offer, msg)

Next == Cycle(Offers)

Spec == Init /\ [][Next]_vars

\* The clock ticks, and an instruction that executes has its result in the
\* end.
OfferOldest == 1 \in Executing /\ Cycle({o \in Offers : o[1] # EXEC})

FairSpec == Spec /\ WF_vars(Next) /\ SF_vars(OfferOldest)

-----------------------------------------------------------------------------
(* Properties.                                                             *)

\* What commits is the oldest instruction, with its own result, after it
\* completed: whatever the order in which results arrive, and when a result
\* bypasses the buffer.
CommitIsOldest ==
  commit.val =>
    /\ inflight # << >>
    /\ inflight[1].at = DONE
    /\ commit.seq_num = inflight[1].seq_num
    /\ commit.msg = [inflight[1].msg EXCEPT !.wen = @ /\ inflight[1].msg.waddr # 0]

\* The buffer holds exactly the completed results that wait for an older one;
\* none is overwritten by a later lap of the sequence numbers.  The buffer and
\* the arbiter agree on the oldest number, although the arbiter only learns of
\* it from commits.
RobHoldsCompleted ==
  /\ deq_ptr = oldest_seq_num
  /\ \A s \in SeqNum :
       entries[s].val <=>
         \E k \in Live : /\ inflight[k].seq_num = s
                         /\ inflight[k].at = DONE
                         /\ ~(X_reg.val /\ X_reg.seq_num = s)

\* Every instruction in flight commits: no result is lost and no pipe is
\* starved by the others.
EveryCommits == []<>(inflight = << >> \/ commit.val)

=============================================================================
