--------------------------------- MODULE ALU ---------------------------------
(***************************************************************************)
(* The arithmetic pipe of hw/top/BlimpV8.v: the unit of hw/execute/        *)
(* execute_units_l6/ALUL6.v and, between it and the writeback unit, an     *)
(* ExQueue of one entry.  The buffer is modelled by the queue it           *)
(* implements (module ExQueue).  A result is a record [val, seq_num, msg]. *)
(***************************************************************************)
EXTENDS RV, Sequences

VARIABLES D_reg, buffer

None == [val |-> FALSE]

Init == D_reg = None /\ buffer = << >>

\* What the unit offers to the buffer.
unit_W ==
  IF ~D_reg.val THEN None
  ELSE Offer(D_reg, TRUE, Result(D_reg.uop, D_reg.pc, D_reg.op1, D_reg.op2))

in_rdy(W_rdy) == buffer = << >> \/ W_rdy

\* What the buffer offers to the writeback unit.
W == IF buffer = << >> THEN unit_W ELSE Head(buffer)

D_rdy(W_rdy) == in_rdy(W_rdy) \/ ~D_reg.val

\* D is what decode sends in this cycle, if anything.
Edge(D, W_rdy) ==
  /\ D_reg'  = IF D # << >> THEN D[1]
               ELSE IF in_rdy(W_rdy) THEN None
               ELSE D_reg
  /\ buffer' = LET pushed == IF D_reg.val /\ in_rdy(W_rdy) THEN Append(buffer, unit_W) ELSE buffer
               IN  IF W_rdy /\ W.val THEN Tail(pushed) ELSE pushed
=============================================================================
