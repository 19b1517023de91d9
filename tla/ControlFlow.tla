----------------------------- MODULE ControlFlow -----------------------------
(***************************************************************************)
(* The control-flow unit of                                                *)
(* hw/execute/execute_units_l6/ControlFlowUnitL6.v: a branch that is taken *)
(* squashes in its first cycle in the unit, and only then.                 *)
(***************************************************************************)
EXTENDS RV, Sequences

VARIABLES D_reg, squash_sent

None == [val |-> FALSE]

Init == D_reg = None /\ squash_sent = FALSE

should_branch == Taken(D_reg.uop, D_reg.op1, D_reg.op2)

\* Mutant: the squash waits for the cycle in which the branch is written back.
squash_Late ==
  IF D_reg.val /\ should_branch /\ squash_sent
  THEN [val |-> TRUE, seq_num |-> D_reg.seq_num, target |-> Wrap(D_reg.pc + D_reg.imm)]
  ELSE [val |-> FALSE, seq_num |-> 0]

squash ==
  IF D_reg.val /\ should_branch /\ ~squash_sent
  THEN [val |-> TRUE, seq_num |-> D_reg.seq_num, target |-> Wrap(D_reg.pc + D_reg.imm)]
  ELSE [val |-> FALSE, seq_num |-> 0]

W ==
  IF ~D_reg.val THEN None
  ELSE Offer(D_reg, D_reg.wen, Result(D_reg.uop, D_reg.pc, D_reg.op1, D_reg.op2))

D_rdy(W_rdy) == W_rdy \/ ~D_reg.val

\* W.wen for an operation; the code leaves it undefined for most branches.
Wens(uop) ==
  IF uop \in {"JAL", "JALR"} THEN {TRUE} ELSE IF uop = "BNE" THEN {FALSE} ELSE BOOLEAN

\* D_reg, with the W.wen that goes with it.
Latched(D, wen) ==
  [val |-> TRUE, pc |-> D.pc, seq_num |-> D.seq_num, uop |-> D.uop,
   op1 |-> D.op1, op2 |-> D.op2, imm |-> D.imm,
   waddr |-> D.waddr, preg |-> D.preg, ppreg |-> D.ppreg, wen |-> wen]

Edge(D, W_rdy) ==
  /\ IF D # << >> THEN \E wen \in Wens(D[1].uop) : D_reg' = Latched(D[1], wen)
     ELSE D_reg' = IF W_rdy THEN None ELSE D_reg
  /\ squash_sent' = (D = << >>)
=============================================================================
