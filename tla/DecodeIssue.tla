----------------------------- MODULE DecodeIssue -----------------------------
(***************************************************************************)
(* The decode and issue unit of hw/decode_issue/                           *)
(* decode_issue_unit_variants/DecodeIssueUnitL5.v, with the rename table   *)
(* (module RenameTable), the register file Regfile.v and the router        *)
(* InstRouter.v.  It holds one instruction, waits until its operands are   *)
(* there, redirects fetch for jumps, and sends it to a pipe unless an      *)
(* older instruction squashes it.                                          *)
(*                                                                         *)
(* Its inputs: complete, the result taken for writeback in this cycle;     *)
(* commit; squash, what the squash unit grants; rdy, the pipes that can    *)
(* take an instruction; F, what fetch transfers.                           *)
(***************************************************************************)
EXTENDS RV, SeqAge, Sequences

CONSTANT NumPregs   \* p_num_phys_regs, with p0

VARIABLES
  F_reg,
  squash_sent,
  rename_table, free_list,
  regs,             \* the physical registers but p0
  oldest_seq_num    \* the age register, the same in every unit

None == [val |-> FALSE]

RT == INSTANCE RenameTable WITH MaxIssued <- 1, inflight <- << >>, arch <- << >>

Init ==
  /\ F_reg = None
  /\ squash_sent = FALSE
  /\ rename_table = [i \in RT!RenamedAreg |-> [pending |-> FALSE, preg |-> i]]
  /\ free_list    = [p \in RT!RenamedPreg |-> p >= NumAregs]
  /\ regs = [p \in RT!RenamedPreg |-> 0]

inst == F_reg.inst

-----------------------------------------------------------------------------
(* Operands.                                                               *)

\* Mutant: a result written in this cycle is read from the old register.
rdata_NoForward(areg, complete) ==
  LET p == RT!lookup_preg(areg) IN IF p = 0 THEN 0 ELSE regs[p]

\* The register file forwards a result written in this cycle.
rdata(areg, complete) ==
  LET p == RT!lookup_preg(areg) IN
  IF p = 0 THEN 0
  ELSE IF complete.val /\ complete.wen /\ complete.preg = p THEN complete.wdata
  ELSE regs[p]

NextRegs(complete) ==
  IF complete.val /\ complete.wen /\ complete.preg # 0
  THEN [regs EXCEPT ![complete.preg] = complete.wdata]
  ELSE regs

stall_pending(complete) ==
  \/ ~RT!alloc_rdy
  \/ RT!lookup_pending(inst.rs1, complete)
  \/ RT!lookup_pending(inst.rs2, complete)

-----------------------------------------------------------------------------
(* Squashes: the one a jump asks for, and the one that hits this unit.     *)

squash_pub(complete) ==
  IF F_reg.val /\ IsJump(inst) /\ ~squash_sent /\ ~stall_pending(complete)
  THEN [val |-> TRUE, seq_num |-> F_reg.seq_num,
        target |-> JumpTarget(inst, F_reg.pc, rdata(inst.rs1, complete))]
  ELSE [val |-> FALSE, seq_num |-> 0]

\* Mutant: the instruction in decode survives a squash.
should_squash_Never(squash) == FALSE

should_squash(squash) ==
  F_reg.val /\ squash.val /\ IsOlder(oldest_seq_num, squash.seq_num, F_reg.seq_num)

-----------------------------------------------------------------------------
(* Issue.                                                                  *)

\* The pipe the instruction goes to in this cycle, if it goes.
Issues(complete, squash, rdy) ==
  {i \in rdy : /\ F_reg.val /\ inst.uop \in Subset[i]
               /\ ~stall_pending(complete)
               /\ ~should_squash(squash)}

F_rdy(complete, squash, rdy) ==
  Issues(complete, squash, rdy) # {} \/ should_squash(squash) \/ ~F_reg.val

waddr == IF Wen(inst) THEN inst.rd ELSE 0

alloc_preg == CHOOSE p \in RT!Preg : RT!IsAllocPreg(waddr, p)

\* What is sent to the pipes.
X(complete) ==
  [val |-> TRUE, pc |-> F_reg.pc, seq_num |-> F_reg.seq_num, uop |-> inst.uop,
   op1 |-> rdata(inst.rs1, complete),
   op2 |-> IF inst.op2_sel THEN inst.imm ELSE rdata(inst.rs2, complete),
   imm |-> inst.imm,
   waddr |-> waddr, preg |-> alloc_preg, ppreg |-> RT!alloc_ppreg(waddr)]

Edge(F, complete, commit, squash, rdy) ==
  LET xfer == Issues(complete, squash, rdy) # {} IN
  /\ F_reg' = IF F # << >> THEN F[1]
              ELSE IF xfer \/ should_squash(squash) THEN None
              ELSE F_reg
  /\ squash_sent' = IF F # << >> THEN FALSE ELSE squash_sent \/ squash_pub(complete).val
  /\ IF xfer /\ Wen(inst)
       THEN RT!Edge(TRUE, waddr, alloc_preg, complete, commit)
       ELSE RT!Edge(FALSE, 0, 0, complete, commit)
  /\ regs' = NextRegs(complete)
=============================================================================
