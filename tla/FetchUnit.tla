------------------------------ MODULE FetchUnit ------------------------------
(***************************************************************************)
(* The fetch unit of hw/fetch/fetch_unit_variants/FetchUnitL3.v: it keeps  *)
(* several reads of consecutive addresses under way, counts those that a   *)
(* squash made useless, and drops their answers.  One step is one clock    *)
(* edge.  An address is a word address; the instruction read is a function *)
(* of its address and left out.                                            *)
(*                                                                         *)
(* The environment is the memory, which takes requests and answers them in *)
(* order after any delay (`mem` lists the requests not yet answered), the  *)
(* decode unit (D_rdy), whoever squashes, and the sequence number          *)
(* generator, of which only alloc_val matters here (module SeqNumGen).     *)
(***************************************************************************)
EXTENDS Integers, Sequences

CONSTANTS
  NAddr,
  RstAddr,      \* p_rst_addr
  MaxInFlight,  \* p_max_in_flight
  FifoDepth     \* the depth of resp_fifo

Addr == 0 .. NAddr - 1

Succ(addr) == IF addr = NAddr - 1 THEN 0 ELSE addr + 1

VARIABLES
  curr_addr,       \* the address of the next request
  num_in_flight,   \* requests under way whose answer is wanted
  num_to_squash,   \* requests under way whose answer is to be dropped
  resp_fifo,       \* the answers that wait for decode
  mem,
  delivered, redirect   \* what the interfaces carried in the last cycle

vars == <<curr_addr, num_in_flight, num_to_squash, resp_fifo, mem, delivered, redirect>>

Init ==
  /\ curr_addr     = RstAddr
  /\ num_in_flight = 0
  /\ num_to_squash = 0
  /\ resp_fifo     = << >>
  /\ mem           = << >>
  /\ delivered     = << >>
  /\ redirect      = << >>

-----------------------------------------------------------------------------
(* Combinational signals.  squash is << >> or the target.                  *)

resp_empty == resp_fifo = << >>
resp_full  == Len(resp_fifo) = FifoDepth

\* Mutant: one request too many is sent.
req_val_Extra == num_in_flight + num_to_squash <= MaxInFlight

req_val == num_in_flight + num_to_squash < MaxInFlight

req_addr(squash) == IF squash # << >> THEN squash[1] ELSE curr_addr

\* Mutant: an answer in the cycle of the squash itself is delivered.
should_drop_Late(squash) == num_to_squash > 0

should_drop(squash) == squash # << >> \/ num_to_squash > 0

D_val(alloc_val, squash) == ~resp_empty /\ alloc_val /\ ~should_drop(squash)

D_xfer(D_rdy, alloc_val, squash) == D_val(alloc_val, squash) /\ D_rdy

resp_pop(D_rdy, alloc_val, squash) ==
  ((D_rdy /\ alloc_val) \/ should_drop(squash)) /\ ~resp_empty

-----------------------------------------------------------------------------
(* One clock edge, as seen by each register.                               *)

\* Mutant: a request sent in the cycle of a squash is not counted.
NextNumInFlight_SquashWins(memreq_xfer, d_xfer, squash) ==
  IF squash # << >> THEN 0
  ELSE IF memreq_xfer /\ ~d_xfer THEN num_in_flight + 1
  ELSE IF d_xfer /\ ~memreq_xfer THEN num_in_flight - 1
  ELSE num_in_flight

NextNumInFlight(memreq_xfer, d_xfer, squash) ==
  LET base == IF squash # << >> THEN 0 ELSE num_in_flight IN
  IF memreq_xfer /\ (~d_xfer \/ should_drop(squash)) THEN base + 1
  ELSE IF d_xfer /\ ~memreq_xfer /\ ~should_drop(squash) THEN base - 1
  ELSE base

\* Mutant: the answer dropped in the cycle of the squash is counted on.
NextNumToSquash_NoDrop(squash) ==
  IF squash # << >> THEN num_to_squash + num_in_flight
  ELSE IF ~resp_empty /\ num_to_squash > 0 THEN num_to_squash - 1
  ELSE num_to_squash

NextNumToSquash(squash) ==
  LET base == IF squash # << >> THEN num_to_squash + num_in_flight ELSE num_to_squash
  IN  IF ~resp_empty /\ base > 0 THEN base - 1 ELSE base

NextAddr(memreq_xfer, squash) ==
  IF squash # << >> /\ memreq_xfer THEN Succ(squash[1])
  ELSE IF squash # << >> THEN squash[1]
  ELSE IF memreq_xfer THEN Succ(req_addr(squash))
  ELSE curr_addr

NextFifo(resp_push, pop) ==
  LET rest == IF pop THEN Tail(resp_fifo) ELSE resp_fifo
  IN  IF resp_push THEN Append(rest, Head(mem)) ELSE rest

NextMem(resp_push, memreq_xfer, squash) ==
  LET rest == IF resp_push THEN Tail(mem) ELSE mem
  IN  IF memreq_xfer THEN Append(rest, req_addr(squash)) ELSE rest

Edge(req_rdy, resp_val, D_rdy, alloc_val, squash) ==
  LET memreq_xfer == req_val /\ req_rdy
      resp_push   == resp_val /\ ~resp_full
      d_xfer      == D_xfer(D_rdy, alloc_val, squash)
      pop         == resp_pop(D_rdy, alloc_val, squash)
  IN
  /\ num_in_flight' = NextNumInFlight(memreq_xfer, d_xfer, squash)
  /\ num_to_squash' = NextNumToSquash(squash)
  /\ curr_addr'     = NextAddr(memreq_xfer, squash)
  /\ resp_fifo'     = NextFifo(resp_push, pop)
  /\ mem'           = NextMem(resp_push, memreq_xfer, squash)
  /\ delivered'     = IF d_xfer THEN <<Head(resp_fifo)>> ELSE << >>
  /\ redirect'      = squash

-----------------------------------------------------------------------------
(* The environment.                                                        *)

Squashes == {<< >>} \cup {<<target>> : target \in Addr}

Cycle(req_rdy, resp_val, D_rdy, alloc_val, squash) ==
  /\ resp_val => mem # << >>
  /\ Edge(req_rdy, resp_val, D_rdy, alloc_val, squash)

Next ==
  \E req_rdy, resp_val, D_rdy, alloc_val \in BOOLEAN, squash \in Squashes :
    Cycle(req_rdy, resp_val, D_rdy, alloc_val, squash)

Spec == Init /\ [][Next]_vars

Requests == \E resp_val, D_rdy, alloc_val \in BOOLEAN, squash \in Squashes :
              req_val /\ Cycle(TRUE, resp_val, D_rdy, alloc_val, squash)

Answers == \E req_rdy, D_rdy, alloc_val \in BOOLEAN, squash \in Squashes :
             Cycle(req_rdy, TRUE, D_rdy, alloc_val, squash)

Accepts == \E req_rdy, resp_val \in BOOLEAN, squash \in Squashes :
             ~resp_empty /\ Cycle(req_rdy, resp_val, TRUE, TRUE, squash)

\* The memory accepts and answers requests, and decode takes what there is a
\* sequence number for (AllocAgain of SeqNumGen).
FairSpec == Spec /\ WF_vars(Requests) /\ WF_vars(Answers) /\ WF_vars(Accepts)

-----------------------------------------------------------------------------
(* Properties.                                                             *)

\* Type invariant.
TypeOK ==
  /\ curr_addr \in Addr
  /\ num_in_flight \in 0 .. MaxInFlight
  /\ num_to_squash \in 0 .. MaxInFlight
  /\ resp_fifo \in Seq(Addr)
  /\ mem \in Seq(Addr)
  /\ delivered \in Squashes
  /\ redirect \in Squashes

\* The requests under way, the oldest first.
UnderWay == resp_fifo \o mem

\* The two counters account for every request: no answer is waited for that
\* does not come, none comes that is not counted.
CountersAccount == num_in_flight + num_to_squash = Len(UnderWay)

\* resp_fifo always has room for what the memory may answer, so fetch never
\* makes the memory wait.
RespHasRoom ==
  MaxInFlight <= FifoDepth /\ mem # << >> => ~resp_full

Wanted == IF num_to_squash < Len(UnderWay) THEN UnderWay[num_to_squash + 1] ELSE curr_addr

Stream == INSTANCE FetchStream WITH pc <- Wanted

\* Decode gets the instructions of the program, each once and none of a path
\* that was squashed, whatever is under way when squashes come.
ImplementsStream == Stream!Spec

\* Unless it is redirected again and again, fetch delivers.
Delivers == []<>(delivered # << >> \/ redirect # << >>)
=============================================================================
