---------------------------- MODULE LoadStoreUnit ----------------------------
(***************************************************************************)
(* The load-store unit of                                                  *)
(* hw/execute/execute_units_l7/LoadStoreUnitL7.v.  Stage 1 (D_reg) sends a *)
(* request to memory; what the instruction needs later waits in            *)
(* stage2_fifo, a Fifo, and then in stage2_reg until the answer comes.     *)
(* One step is one clock edge.                                             *)
(*                                                                         *)
(* The memory (external; src/test/fl/MemIntfTestServer.v in the tests)     *)
(* takes a request whenever it likes, carries requests out in order, and   *)
(* answers in order after any delay, with up to MemDepth requests under    *)
(* way.  Words are four bytes, of any size.                                *)
(***************************************************************************)
EXTENDS Integers, Sequences

CONSTANTS
  NumInFlight,   \* p_num_in_flight
  MemDepth,      \* the requests the memory can have under way
  NByte,         \* the values of a byte: 256 in the code
  Ops            \* what decode may issue: [uop, addr, offset, data]

ASSUME NByteAssumption == NByte \in Nat \ {0} /\ NByte % 2 = 0

\* stage2_fifo is a Fifo, "at least as long as memory pipeline" (line 228).
ASSUME NumInFlightAssumption ==
  /\ NumInFlight \in Nat \ {0} /\ \E k \in 0 .. NumInFlight : NumInFlight = 2 ^ k
  /\ MemDepth \in 1 .. NumInFlight

Lane == 0 .. 3
Byte == 0 .. NByte - 1
Word == [Lane -> Byte]

Uops == {"LB", "LBU", "LH", "LHU", "LW", "SB", "SH", "SW"}

ASSUME OpsAssumption ==
  \A op \in Ops : op.uop \in Uops /\ op.offset \in Lane /\ op.data \in Word

Zero == [l \in Lane |-> 0]

\* The bytes an operation touches, and whether it reads them as a signed number.
Size(uop)   == IF uop \in {"LB", "LBU", "SB"} THEN 1 ELSE IF uop \in {"LW", "SW"} THEN 4 ELSE 2
Store(uop)  == uop \in {"SB", "SH", "SW"}
Signed(uop) == uop \in {"LB", "LH"}

Addrs == {op.addr : op \in Ops}

None == [val |-> FALSE]

VARIABLES
  D_reg,                \* stage 1
  wptr, rptr, arr,      \* stage2_fifo
  stage2_reg,           \* stage 2
  mem, resps,           \* the memory, and its answers under way
  arch_mem, expected,   \* the memory and the results that the functional
                        \* model gives for the instructions issued so far
  put, got              \* what was expected of the instruction issued in the
                        \* last cycle, and the result delivered in it

vars == <<D_reg, wptr, rptr, arr, stage2_reg, mem, resps, arch_mem, expected, put, got>>

Entry == [val : {TRUE}, uop : {op.uop : op \in Ops}, offset : Lane]

stage2_fifo == INSTANCE Fifo WITH Depth <- NumInFlight, Msg <- Entry \cup {None}, put <- << >>, got <- << >>

Init ==
  /\ D_reg = None
  /\ wptr = 0 /\ rptr = 0 /\ arr = [s \in stage2_fifo!Slot |-> None]
  /\ stage2_reg = None
  /\ mem = [a \in Addrs |-> Zero] /\ arch_mem = mem
  /\ resps = << >> /\ expected = << >>
  /\ put = << >> /\ got = << >>

-----------------------------------------------------------------------------
(* The functional model: fl/FLMem.cpp, and the loads and stores of         *)
(* fl/FLProc.cpp.  A store has no result.                                  *)

\* The bytes from an offset on; what lies beyond the word reads as zero.
From(w, k) == [l \in Lane |-> IF l + k \in Lane THEN w[l + k] ELSE 0]

\* The first bytes of a word, extended by zeros or by the sign.
Extend(w, uop) ==
  LET n    == Size(uop)
      fill == IF Signed(uop) /\ w[n - 1] >= NByte \div 2 THEN NByte - 1 ELSE 0
  IN  [l \in Lane |-> IF l < n THEN w[l] ELSE fill]

Meaning(memory, op) ==
  IF Store(op.uop) THEN [wen |-> FALSE, wdata |-> Zero]
  ELSE [wen |-> TRUE, wdata |-> Extend(From(memory[op.addr], op.offset), op.uop)]

\* A store replaces Size bytes from the offset on.
Stored(memory, op) ==
  IF ~Store(op.uop) THEN memory
  ELSE [memory EXCEPT ![op.addr] =
          [l \in Lane |-> IF l \in op.offset .. op.offset + Size(op.uop) - 1
                          THEN op.data[l - op.offset] ELSE @[l]]]

-----------------------------------------------------------------------------
(* The wires of the unit.                                                  *)

stage2_rdy == ~stage2_fifo!full

req_val == D_reg.val /\ stage2_rdy

\* Mutant: the push does not wait for the request to be taken.
stage2_push_Early(req_rdy) == D_reg.val /\ stage2_rdy

\* The push looks at the memory only.
stage2_push(req_rdy) == D_reg.val /\ req_rdy

D_rdy(req_rdy) == (stage2_rdy /\ req_rdy) \/ ~D_reg.val

W_val(resp_val) == stage2_reg.val /\ resp_val

resp_rdy(W_rdy) == stage2_reg.val /\ W_rdy

\* Mutant: an idle stage 2 waits for an answer as well.
stage2_pop_Busy(resp_val, W_rdy) == W_rdy /\ resp_val /\ stage2_reg.val /\ ~stage2_fifo!empty

stage2_pop(resp_val, W_rdy) ==
  ((W_rdy /\ resp_val) \/ ~stage2_reg.val) /\ ~stage2_fifo!empty

\* The request: the aligned address, the bytes to write and their data.
req_msg(r) ==
  [write |-> Store(r.uop),
   addr  |-> r.addr,
   strb  |-> {l \in Lane : l \in r.offset .. r.offset + Size(r.uop) - 1},
   data  |-> [l \in Lane |-> IF l - r.offset \in Lane THEN r.data[l - r.offset] ELSE 0]]

\* Mutant: the answer is taken as it is, whatever the offset.
W_msg_Aligned(data) ==
  IF Store(stage2_reg.uop) THEN [wen |-> FALSE, wdata |-> Zero]
  ELSE [wen |-> TRUE, wdata |-> Extend(data, stage2_reg.uop)]

\* The result, from an answer; that of a store is undefined and not written.
W_msg(data) ==
  IF Store(stage2_reg.uop) THEN [wen |-> FALSE, wdata |-> Zero]
  ELSE [wen |-> TRUE, wdata |-> Extend(From(data, stage2_reg.offset), stage2_reg.uop)]

-----------------------------------------------------------------------------
(* One clock edge.                                                         *)

\* D is what decode offers: an operation, or none.
Stage1(D, req_rdy) ==
  D_reg' = IF D # << >> /\ D_rdy(req_rdy)
             THEN [val |-> TRUE, uop |-> D[1].uop, addr |-> D[1].addr,
                   offset |-> D[1].offset, data |-> D[1].data]
           ELSE IF stage2_push(req_rdy) THEN None
           ELSE D_reg

Stage2(req_rdy, resp_val, W_rdy) ==
  /\ stage2_fifo!FifoEdge(stage2_push(req_rdy), stage2_pop(resp_val, W_rdy),
                      [val |-> D_reg.val, uop |-> D_reg.uop, offset |-> D_reg.offset])
  /\ stage2_reg' = IF stage2_pop(resp_val, W_rdy) THEN stage2_fifo!rdata
                   ELSE IF W_val(resp_val) /\ W_rdy THEN None
                   ELSE stage2_reg

\* The memory carries out a request as it takes it; a write is answered too,
\* with undefined data.
Memory(req_rdy, resp_val, W_rdy) ==
  LET m    == req_msg(D_reg)
      req  == req_val /\ req_rdy
      left == IF resp_val /\ resp_rdy(W_rdy) THEN Tail(resps) ELSE resps
  IN  /\ mem' = IF ~(req /\ m.write) THEN mem
                ELSE [mem EXCEPT ![m.addr] =
                        [l \in Lane |-> IF l \in m.strb THEN m.data[l] ELSE @[l]]]
      /\ resps' = IF req THEN Append(left, IF m.write THEN Zero ELSE mem[m.addr]) ELSE left

\* What the instruction issued in this cycle will have to return.
Expect(D, req_rdy, resp_val, W_rdy) ==
  /\ put' = IF D # << >> /\ D_rdy(req_rdy) THEN <<Meaning(arch_mem, D[1])>> ELSE << >>
  /\ arch_mem' = IF put' # << >> THEN Stored(arch_mem, D[1]) ELSE arch_mem
  /\ got' = IF W_val(resp_val) /\ W_rdy THEN <<W_msg(Head(resps))>> ELSE << >>
  /\ LET left == IF got' # << >> /\ expected # << >> THEN Tail(expected) ELSE expected
     IN  expected' = left \o put'

Cycle(D, req_rdy, resp_val, W_rdy) ==
  /\ req_rdy => Len(resps) < MemDepth
  /\ resp_val => resps # << >>
  /\ Stage1(D, req_rdy)
  /\ Stage2(req_rdy, resp_val, W_rdy)
  /\ Memory(req_rdy, resp_val, W_rdy)
  /\ Expect(D, req_rdy, resp_val, W_rdy)

\* What decode may offer; an offer that is not taken is as good as none.
Offers(req_rdy) == {<< >>} \cup {<<op>> : op \in {o \in Ops : D_rdy(req_rdy)}}

Clock(req_rdy, resp_val, W_rdy) ==
  \E D \in Offers(req_rdy) : Cycle(D, req_rdy, resp_val, W_rdy)

Next == \E req_rdy, resp_val, W_rdy \in BOOLEAN : Clock(req_rdy, resp_val, W_rdy)

Spec == Init /\ [][Next]_vars

\* The memory takes requests and answers in the end, while the writeback unit
\* is ready: an answer, once there, stays, and so does the offer to W, which
\* the writeback unit does not refuse for ever.
FairSpec ==
  /\ Spec
  /\ WF_vars(\E req_rdy \in BOOLEAN : Clock(req_rdy, TRUE, TRUE))
  /\ WF_vars(\E resp_val, W_rdy \in BOOLEAN : Clock(TRUE, resp_val, W_rdy))

-----------------------------------------------------------------------------
(* Properties.                                                             *)

Count(reg) == IF reg.val THEN 1 ELSE 0

\* Every instruction in stage 2 has exactly one answer under way, the other
\* way round too, and stage2_fifo is never overrun: what was left in stage 1
\* has had its request sent (stage2_push, which looks at mem.req_rdy only).
AnswersMatch ==
  /\ stage2_fifo!Count + Count(stage2_reg) = Len(resps)
  /\ stage2_fifo!NoOverrun

Queue == INSTANCE BoundedQueue WITH
  q     <- expected,
  Depth <- NumInFlight + 2,
  Msg   <- [wen : BOOLEAN, wdata : Word]

\* Every load returns what the functional model loads after the stores issued
\* before it, and results leave in the order of issue, each once, however the
\* memory and the writeback unit stall.
ImplementsMemory == Queue!Spec

\* Every instruction issued gets its result.
Answered == []<>(expected = << >> \/ got # << >>)
=============================================================================
