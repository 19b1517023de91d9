------------------------------ MODULE MCStages ------------------------------
(***************************************************************************)
(* The two ends of the pipeline, one at a time: the writeback and commit   *)
(* unit of WritebackCommit, which is extended, and the fetch unit of       *)
(* FetchUnit.  What lies between them is their environment here, and is    *)
(* there in Blimp.                                                         *)
(***************************************************************************)
EXTENDS WritebackCommit

CONSTANTS
  NAddr,
  RstAddr,       \* p_rst_addr
  MaxFetches,    \* p_max_in_flight of the fetch unit
  FifoDepth      \* the depth of its resp_fifo

ASSUME AddrAssumption == NAddr \in Nat \ {0} /\ RstAddr \in 0 .. NAddr - 1
ASSUME MaxFetchesAssumption == MaxFetches \in Nat \ {0}
ASSUME FifoDepthAssumption == FifoDepth \in Nat \ {0}

VARIABLES
  stage,         \* the unit that is run
  curr_addr, num_in_flight, num_to_squash, resp_fifo, mem, delivered, redirect

FU == INSTANCE FetchUnit WITH MaxInFlight <- MaxFetches

\* A write to a register, and a write to x0 that must not reach it.
MCResults == {[waddr |-> 1, wen |-> TRUE], [waddr |-> 0, wen |-> TRUE]}

fetchVars == <<curr_addr, num_in_flight, num_to_squash, resp_fifo, mem, delivered, redirect>>
stageVars == <<stage, vars, fetchVars>>

StageInit == stage \in {"fetch", "writeback"} /\ Init /\ FU!Init

StageNext ==
  /\ UNCHANGED stage
  /\ \/ stage = "writeback" /\ Next /\ UNCHANGED fetchVars
     \/ stage = "fetch" /\ FU!Next /\ UNCHANGED vars

\* Each unit with the fairness of its own environment.
StageSpec ==
  /\ StageInit /\ [][StageNext]_stageVars
  /\ WF_vars(stage = "writeback" /\ Next) /\ SF_vars(stage = "writeback" /\ OfferOldest)
  /\ WF_fetchVars(stage = "fetch" /\ FU!Requests)
  /\ WF_fetchVars(stage = "fetch" /\ FU!Answers)
  /\ WF_fetchVars(stage = "fetch" /\ FU!Accepts)

\* Decode gets the instructions of the program, each once and none of a path
\* that was squashed, whatever is under way when squashes come.
ImplementsStream == FU!ImplementsStream

\* Unless it is redirected again and again, fetch delivers.
Delivers == stage = "fetch" => FU!Delivers
=============================================================================
