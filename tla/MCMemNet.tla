------------------------------ MODULE MCMemNet ------------------------------
(***************************************************************************)
(* Instances of MemNet for TLC.  The clients may have more under way than  *)
(* the queue and the pipeline of the memory hold (FetchMax + DataMax + 1   *)
(* against FifoDepth + 2), as BlimpV8 may on the FPGA (8 + 9 + 1 against   *)
(* 4 + 2), so that requests do come to a full queue.                       *)
(***************************************************************************)
EXTENDS MemNet

\* A load and a store in the block memory, and a load from the keyboard.
LoadStore == [write : BOOLEAN, addr : Addr] \cup {[write |-> FALSE, addr |-> STDIN]}

\* Loads from the block memory only.
Loads == [write : {FALSE}, addr : Addr]

\* The properties say nothing of what follows an overrun, so a run that is about
\* them ends there.  In it a key comes while a read waits for one.
RunNext ==
  \/ /\ ~overrun
     /\ \E W_rdy \in BOOLEAN, key \in {FALSE, curr_state = "OPERATE"}, word \in Words : Cycle(W_rdy, key, word)
  \/ overrun /\ UNCHANGED vars
RunSpec == Init /\ [][RunNext]_vars

\* Nobody types, and the loader writes words without stopping fetch.
LoadNext == \E W_rdy \in BOOLEAN : \E word \in Words : Cycle(W_rdy, FALSE, word) /\ spi_state' # "SET_GO"
LoadSpec == Init /\ [][LoadNext]_vars
=============================================================================
