------------------------------- MODULE MulPipe -------------------------------
(***************************************************************************)
(* The multiply pipe as the rest of the processor sees it: the handshakes  *)
(* of hw/execute/execute_units_l7/IterativeMulDivRemL7.v, whose arithmetic *)
(* is module MulDivRem.  A result takes any number of cycles.              *)
(***************************************************************************)
EXTENDS RV, Sequences

VARIABLES D_reg, done

None == [val |-> FALSE]

Init == D_reg = None /\ done = FALSE

W ==
  IF ~done THEN None
  ELSE Offer(D_reg, TRUE, Result(D_reg.uop, D_reg.pc, D_reg.op1, D_reg.op2))

\* IDLE, or DONE and the result leaves.
D_rdy(W_rdy) == ~D_reg.val \/ (done /\ W_rdy)

\* finish: this cycle is the last one of the calculation.
Edge(D, W_rdy, finish) ==
  /\ D_reg' = IF D # << >> THEN D[1]
              ELSE IF done /\ W_rdy THEN None
              ELSE D_reg
  /\ done'  = IF D # << >> \/ (done /\ W_rdy) THEN FALSE
              ELSE done \/ (D_reg.val /\ finish)
=============================================================================
