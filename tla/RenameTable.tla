----------------------------- MODULE RenameTable -----------------------------
(***************************************************************************)
(* The rename table of hw/decode_issue/RenameTable.v: which physical       *)
(* register holds each architectural one, which values are still being     *)
(* computed (pending) and which physical registers are free.  One step is  *)
(* one clock edge.                                                         *)
(*                                                                         *)
(* The environment is the rest of the processor from the decode unit on.   *)
(* `inflight` lists, in program order, the instructions issued and not yet *)
(* committed, with the registers decode gave each; they complete in any    *)
(* order and commit in program order.  Nothing is ever rolled back: the    *)
(* processor issues no instruction it may squash.                          *)
(***************************************************************************)
EXTENDS Integers, Sequences

CONSTANTS
  NumAregs,      \* architectural registers, with x0
  NumPregs,      \* p_num_phys_regs, with p0
  MaxIssued      \* how many issued instructions the back end can hold

ASSUME NumAregsAssumption == NumAregs \in Nat \ {0}
ASSUME NumPregsAssumption == NumPregs \in Nat /\ NumPregs >= NumAregs
ASSUME MaxIssuedAssumption == MaxIssued \in Nat \ {0}

Areg == 0 .. NumAregs - 1
Preg == 0 .. NumPregs - 1

\* x0 is not renamed and p0 is never handed out.
RenamedAreg == 1 .. NumAregs - 1
RenamedPreg == 1 .. NumPregs - 1

VARIABLES
  rename_table,   \* RenamedAreg -> [pending, preg]
  free_list,      \* RenamedPreg -> BOOLEAN
  inflight,       \* the issued instructions: [areg, preg, ppreg, done]
  arch            \* RenamedAreg -> the register that holds the committed value

vars == <<rename_table, free_list, inflight, arch>>

Init ==
  /\ rename_table = [i \in RenamedAreg |-> [pending |-> FALSE, preg |-> i]]
  /\ free_list    = [p \in RenamedPreg |-> p >= NumAregs]
  /\ inflight     = << >>
  /\ arch         = [i \in RenamedAreg |-> i]

-----------------------------------------------------------------------------
(* Combinational signals.                                                  *)

alloc_rdy == \E p \in RenamedPreg : free_list[p]

\* The priority encoder picks the first free register; x0 gets p0.
IsAllocPreg(areg, p) ==
  IF areg = 0 THEN p = 0
  ELSE /\ p \in RenamedPreg
       /\ free_list[p]
       /\ \A q \in RenamedPreg : free_list[q] => p <= q

\* Mutant: the register to free is the one the register had at reset.
alloc_ppreg_Areg(areg) == areg

alloc_ppreg(areg) == IF areg = 0 THEN 0 ELSE rename_table[areg].preg

lookup_preg(areg) == IF areg = 0 THEN 0 ELSE rename_table[areg].preg

\* The bypass compares registers only: the completion interface drives
\* register 0 when nothing completes.
lookup_pending(areg, complete) ==
  /\ areg # 0
  /\ complete.preg # lookup_preg(areg)
  /\ rename_table[areg].pending

-----------------------------------------------------------------------------
(* One clock edge, as seen by each register.                               *)

\* Mutant: completion clears the entry that was just renamed as well.
NextTable_CompleteWins(alloc_xfer, areg, preg, complete) ==
  [i \in RenamedAreg |->
    LET e == rename_table[i] IN
    IF complete.val /\ complete.preg = e.preg
      THEN [e EXCEPT !.pending = FALSE]
    ELSE IF alloc_xfer /\ areg = i THEN [pending |-> TRUE, preg |-> preg]
    ELSE e]

\* Mutant: a completion in the cycle of an allocation clears nothing.
NextTable_AllocOnly(alloc_xfer, areg, preg, complete) ==
  [i \in RenamedAreg |->
    IF alloc_xfer
      THEN IF areg = i THEN [pending |-> TRUE, preg |-> preg] ELSE rename_table[i]
    ELSE IF complete.val /\ complete.preg = rename_table[i].preg
      THEN [rename_table[i] EXCEPT !.pending = FALSE]
    ELSE rename_table[i]]

NextTable(alloc_xfer, areg, preg, complete) ==
  [i \in RenamedAreg |->
    IF alloc_xfer /\ areg = i THEN [pending |-> TRUE, preg |-> preg]
    ELSE IF complete.val /\ complete.preg = rename_table[i].preg
      THEN [rename_table[i] EXCEPT !.pending = FALSE]
    ELSE rename_table[i]]

\* Mutant: a register freed in the cycle of an allocation is lost.
NextFree_AllocOnly(alloc_xfer, preg, commit) ==
  [p \in RenamedPreg |->
    IF alloc_xfer THEN free_list[p] /\ p # preg
    ELSE free_list[p] \/ (commit.val /\ commit.ppreg = p)]

\* Mutant: the registers of the reset mapping are never freed.
NextFree_SpareOnly(alloc_xfer, preg, commit) ==
  [p \in RenamedPreg |->
    IF alloc_xfer /\ preg = p THEN FALSE
    ELSE free_list[p] \/ (commit.val /\ commit.ppreg = p /\ p >= NumAregs)]

NextFree(alloc_xfer, preg, commit) ==
  [p \in RenamedPreg |->
    IF alloc_xfer /\ preg = p THEN FALSE
    ELSE free_list[p] \/ (commit.val /\ commit.ppreg = p)]

Edge(alloc_en, areg, preg, complete, commit) ==
  LET alloc_xfer == alloc_en /\ alloc_rdy IN
  /\ rename_table' = NextTable(alloc_xfer, areg, preg, complete)
  /\ free_list'    = NextFree(alloc_xfer, preg, commit)

-----------------------------------------------------------------------------
(* The environment.                                                        *)

Live == 1 .. Len(inflight)

NoNotif == [val |-> FALSE, areg |-> 0, preg |-> 0, ppreg |-> 0]

\* The notification for instruction k, or none for k = 0.
Notif(k) ==
  IF k = 0 THEN NoNotif
  ELSE [val |-> TRUE, areg |-> inflight[k].areg,
        preg |-> inflight[k].preg, ppreg |-> inflight[k].ppreg]

\* One instruction at most completes in a cycle, and the oldest commits once
\* it has completed.
MayComplete(k) == k = 0 \/ (k \in Live /\ ~inflight[k].done)
MayCommit(c)   == c = 0 \/ (c = 1 /\ c \in Live /\ inflight[c].done)

Completed(k) == IF k = 0 THEN inflight ELSE [inflight EXCEPT ![k].done = TRUE]

Retired(k, c) == IF c = 1 THEN Tail(Completed(k)) ELSE Completed(k)

NextArch(c) ==
  IF c = 1 /\ inflight[1].areg # 0
  THEN [arch EXCEPT ![inflight[1].areg] = inflight[1].preg]
  ELSE arch

\* Decode issues nothing.
Hold(k, c) ==
  /\ Edge(FALSE, 0, 0, Notif(k), Notif(c))
  /\ inflight' = Retired(k, c)

\* Decode issues an instruction that writes areg, or x0.
Issue(k, c, areg) ==
  \E preg \in Preg :
    /\ alloc_rdy
    /\ Len(inflight) < MaxIssued
    /\ IsAllocPreg(areg, preg)
    /\ Edge(TRUE, areg, preg, Notif(k), Notif(c))
    /\ inflight' = Append(Retired(k, c),
         [areg |-> areg, preg |-> preg, ppreg |-> alloc_ppreg(areg), done |-> FALSE])

\* Decode issues an instruction that writes no register.
IssueNoWrite(k, c) ==
  /\ alloc_rdy
  /\ Len(inflight) < MaxIssued
  /\ Edge(FALSE, 0, 0, Notif(k), Notif(c))
  /\ inflight' = Append(Retired(k, c),
       [areg |-> 0, preg |-> 0, ppreg |-> 0, done |-> FALSE])

Cycle(k, c) ==
  /\ MayComplete(k)
  /\ MayCommit(c)
  /\ arch' = NextArch(c)
  /\ \/ Hold(k, c)
     \/ \E areg \in Areg : Issue(k, c, areg)
     \/ IssueNoWrite(k, c)

Next == \E k \in 0 .. MaxIssued, c \in {0, 1} : Cycle(k, c)

Spec == Init /\ [][Next]_vars

CompleteOldest == \E c \in {0, 1} : Len(inflight) > 0 /\ Cycle(1, c)
CommitOldest   == \E k \in 0 .. MaxIssued : Cycle(k, 1)

\* An issued instruction completes, and the oldest one commits: the arbiter
\* of the commit unit prefers the oldest.
FairSpec == Spec /\ WF_vars(CompleteOldest) /\ WF_vars(CommitOldest)

-----------------------------------------------------------------------------
(* Properties.                                                             *)

Issued == [areg : Areg, preg : Preg, ppreg : Preg, done : BOOLEAN]

\* Type invariant of the table, the free list and the environment.
TypeOK ==
  /\ rename_table \in [RenamedAreg -> [pending : BOOLEAN, preg : RenamedPreg]]
  /\ free_list \in [RenamedPreg -> BOOLEAN]
  /\ inflight \in Seq(Issued)
  /\ arch \in [RenamedAreg -> Preg]

\* No two architectural registers share a physical one.
TableInjective ==
  \A i, j \in RenamedAreg : rename_table[i].preg = rename_table[j].preg => i = j

\* No two instructions in flight will free the same register.
PpregInjective ==
  \A k, l \in Live : inflight[k].ppreg = inflight[l].ppreg /\ inflight[k].ppreg # 0 => k = l

\* A register that will be freed at commit is no longer named by the table.
MappedNotRetiring ==
  \A i \in RenamedAreg, k \in Live : rename_table[i].preg # inflight[k].ppreg

\* Free means neither named by the table nor waiting to be freed.
FreeIsTheRest ==
  \A p \in RenamedPreg :
    free_list[p] <=> /\ \A i \in RenamedAreg : rename_table[i].preg # p
                     /\ \A k \in Live : inflight[k].ppreg # p

\* Every physical register is exactly one of: free, named by one entry of
\* the table, or waiting for one instruction in flight to commit.  None leaks
\* and none is handed out twice (free_list against rename_table).
Partition ==
  /\ TableInjective
  /\ PpregInjective
  /\ MappedNotRetiring
  /\ FreeIsTheRest

\* The table is the committed state overwritten by the instructions in
\* flight in program order, and commit frees the register that held the
\* committed value before.
LastWriter(i) ==
  {k \in Live : inflight[k].areg = i /\ \A l \in k + 1 .. Len(inflight) : inflight[l].areg # i}

TableIsProgramOrder ==
  /\ \A i \in RenamedAreg :
       IF LastWriter(i) = {} THEN rename_table[i].preg = arch[i]
       ELSE \A k \in LastWriter(i) : rename_table[i].preg = inflight[k].preg
  /\ \A k \in Live :
       inflight[k].areg # 0 /\ (\A l \in 1 .. k - 1 : inflight[l].areg # inflight[k].areg)
         => inflight[k].ppreg = arch[inflight[k].areg]

\* If a lookup is not pending, the last writer has completed or completes now.
ReadyIsDone ==
  \A k \in {0} \cup Live : MayComplete(k) =>
    \A i \in RenamedAreg :
      ~lookup_pending(i, Notif(k)) =>
        \A w \in LastWriter(i) : inflight[w].done \/ w = k

\* If an entry is pending, its last writer has not completed.
PendingIsNotDone ==
  \A i \in RenamedAreg :
    rename_table[i].pending => \E w \in LastWriter(i) : ~inflight[w].done

\* Decode reads an operand only when it is the value of the last writer, with
\* the completion of this very cycle forwarded by lookup_pending; and no
\* pending bit is left over, on which decode would wait for ever.
PendingIsExact == ReadyIsDone /\ PendingIsNotDone

\* A register is never reused while an instruction in flight may still write
\* it.
NoWriteAfterFree ==
  \A k \in Live : inflight[k].preg # 0 => ~free_list[inflight[k].preg]

\* Decode is never without a physical register for good.
AllocAgain == []<>alloc_rdy
=============================================================================
