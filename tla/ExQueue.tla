------------------------------- MODULE ExQueue -------------------------------
(***************************************************************************)
(* The buffer of hw/execute/ExQueue.v, which stands between a pipe and the *)
(* writeback unit: a Fifo that a message passes by when it is empty, and   *)
(* that takes a message while full if one leaves.  State and properties    *)
(* are those of Fifo; `put` and `got` are now the ports of the buffer.     *)
(***************************************************************************)
EXTENDS Fifo

can_bypass == empty

in_rdy(out_rdy) == ~full \/ out_rdy

out_val(in_val) == ~empty \/ in_val

out_msg(in_msg) == IF can_bypass THEN in_msg ELSE rdata

\* Mutant: a message that passes by is buffered as well.
buffer_push_Always(in_val, out_rdy) == in_rdy(out_rdy) /\ in_val

buffer_push(in_val, out_rdy) ==
  in_rdy(out_rdy) /\ in_val /\ ~(can_bypass /\ out_rdy)

buffer_pop(in_val, out_rdy) == ~empty /\ out_rdy

\* One clock edge, for any behaviour of the pipe and of the writeback unit.
ExCycle(in_val, in_msg, out_rdy) ==
  /\ FifoEdge(buffer_push(in_val, out_rdy), buffer_pop(in_val, out_rdy), in_msg)
  /\ put' = IF in_val /\ in_rdy(out_rdy) THEN <<in_msg>> ELSE << >>
  /\ got' = IF out_val(in_val) /\ out_rdy THEN <<out_msg(in_msg)>> ELSE << >>

ExNext ==
  \E in_val, out_rdy \in BOOLEAN, in_msg \in Msg : ExCycle(in_val, in_msg, out_rdy)

ExSpec == FifoInit /\ [][ExNext]_fifoVars
=============================================================================
