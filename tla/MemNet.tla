------------------------------- MODULE MemNet -------------------------------
(***************************************************************************)
(* The memory of the FPGA system: the crossbar of fpga/MemXBar.v with its  *)
(* routers and round-robin arbiters (fpga/net, hw/common/RRArb.v), the     *)
(* block memory fpga/FPGAMem.v, the peripherals behind                     *)
(* fpga/PeripheralMemServer.v, and the loader fpga/spi/SPIMemClient.v.     *)
(* One step is one edge of clk.                                            *)
(*                                                                         *)
(* The processor is the environment.  Fetch (FetchUnitL3) always has room  *)
(* for its answers; the load-store unit (LoadStoreUnitL7) takes one when   *)
(* the writeback unit takes the result.  Both go on asking until they are  *)
(* heard, fetch for another word after a squash.  Addresses are names,     *)
(* data are whole words: mem_clk is so fast that the block memory reads    *)
(* and writes within an edge of clk.                                       *)
(***************************************************************************)
EXTENDS Integers, SequencesExt

CONSTANTS
  FifoDepth,   \* p_depth of req_fifo: 4 in the code
  KeyDepth,    \* p_key_buf_depth
  FetchMax,    \* the reads fetch may have under way: p_max_in_flight
  DataMax,     \* the same for the load-store unit: p_num_in_flight + 1
  DataOps,     \* what the load-store unit asks for: [write, addr]
  MaxStall,    \* how many cycles the writeback unit keeps an answer waiting
  SpiGap,      \* the least number of cycles from one word of SPI to the next
  Addr         \* the words of the block memory that are used

ASSUME FifoDepthAssumption == FifoDepth \in Nat /\ FifoDepth >= 2
ASSUME KeyDepthAssumption == KeyDepth \in Nat \ {0}
ASSUME ClientsAssumption == FetchMax \in Nat /\ DataMax \in Nat /\ MaxStall \in Nat
ASSUME AddrAssumption == Addr \cap {"GO", "STDIN", "STDOUT"} = {}
ASSUME DataOpsAssumption == DataOps \subseteq [write : BOOLEAN, addr : Addr \cup {"STDIN", "STDOUT"}]

\* A word of SPI takes longer than a round of the arbiter: its 32 bits and more
\* are sampled one by one.
ASSUME SpiGapAssumption == SpiGap \in Nat /\ SpiGap >= 4

\* The clients by origin, and the servers in the order of the arbiters.
Imem == 0
Dmem == 1
Spi  == 2
Client == {Imem, Dmem, Spi}

Bram       == 0
Peripheral == 1
Server == {Bram, Peripheral}

GO_ADDR == "GO"
STDOUT  == "STDOUT"
STDIN   == "STDIN"

None == [val |-> FALSE]

VARIABLES
  want,                            \* what fetch and the load-store unit ask for
  req_filter, resp_filter,         \* req_hph_filter of the arbiters
  req_fifo,                        \* the queue of the block memory
  rw_msg, resp_msg, mem,           \* its pipeline and its words
  curr_state, curr_msg,            \* the state machine of the peripherals
  key_buf,                         \* the number of keys in the buffer
  spi_state, addr, data, go,       \* SPIMemClient
  outstanding,                     \* what each server still owes, in order
  written,                         \* the memory after all requests taken so far
  stall,                           \* cycles that an answer has waited for writeback
  spi_gap,                         \* cycles since the last word of SPI, up to SpiGap
  overrun,                         \* whether a request was ever pushed at a full queue
  kept                             \* cycles that answers of the block memory had to
                                   \* wait since its queue was last empty, up to FifoDepth

netVars  == <<req_filter, resp_filter>>
bramVars == <<req_fifo, rw_msg, resp_msg, mem>>
periVars == <<curr_state, curr_msg, key_buf>>
spiVars  == <<spi_state, addr, data, go>>
vars == <<want, netVars, bramVars, periVars, spiVars, outstanding, written, stall, spi_gap, overrun, kept>>

Read(c, a)     == [val |-> TRUE, origin |-> c, write |-> FALSE, addr |-> a, data |-> 0]
Write(c, a, d) == [val |-> TRUE, origin |-> c, write |-> TRUE, addr |-> a, data |-> d]

\* What a client may ask for: fetch reads, and only from the block memory.
Requests(c) ==
  IF c = Imem THEN {Read(c, a) : a \in Addr}
  ELSE {IF op.write THEN Write(c, op.addr, 1) ELSE Read(c, op.addr) : op \in DataOps}

Most(c) == IF c = Imem THEN FetchMax ELSE DataMax

Init ==
  /\ want = [c \in {Imem, Dmem} |-> None]
  /\ req_filter = [s \in Server |-> {}] /\ resp_filter = [c \in Client |-> {}]
  /\ req_fifo = << >> /\ rw_msg = None /\ resp_msg = None /\ mem = [a \in Addr |-> 0]
  /\ curr_state = "IDLE" /\ curr_msg = None
  /\ key_buf = 0
  /\ spi_state = "WAIT_ADDR" /\ addr = GO_ADDR /\ data = 0 /\ go = TRUE
  /\ outstanding = [s \in Server |-> << >>] /\ written = mem
  /\ stall = 0 /\ spi_gap = SpiGap
  /\ overrun = FALSE /\ kept = 0

-----------------------------------------------------------------------------
(* RRArb: the first request above the last grant, or the first at all.     *)

\* Mutant: the filter is never used.
gnt_Fixed(filter, req) == IF req = {} THEN {} ELSE {Min(req)}

gnt(filter, req) ==
  IF req = {} THEN {} ELSE {Min(IF filter \cap req # {} THEN filter \cap req ELSE req)}

\* With en, the filter becomes what lies above the grant.
NextFilter(filter, req, en, all) ==
  IF en THEN {i \in all : \E g \in gnt(filter, req) : i > g} ELSE filter

-----------------------------------------------------------------------------
(* Requests: each client's is routed by its address, and each server       *)
(* arbitrates among those that come to it.                                 *)

req_val(c) ==
  IF c = Spi THEN spi_state = "WAIT_MEM"
  ELSE want[c].val /\ (c = Imem => go)

req_msg(c) == IF c = Spi THEN Write(Spi, addr, data) ELSE want[c]

route(c) == IF req_msg(c).addr \in {STDIN, STDOUT} THEN Peripheral ELSE Bram

arb_req(s) == {c \in Client : req_val(c) /\ route(c) = s}

req_gnt(s) == gnt(req_filter[s], arb_req(s))

sent(s) == req_msg(CHOOSE c \in req_gnt(s) : TRUE)

-----------------------------------------------------------------------------
(* Answers: each server's goes to its origin, and each client arbitrates   *)
(* between the servers.                                                    *)

resp(s) ==
  IF s = Bram THEN resp_msg
  ELSE IF curr_state = "RESP" THEN curr_msg ELSE None

arb_resp(c) == {s \in Server : resp(s).val /\ resp(s).origin = c}

resp_gnt(c) == gnt(resp_filter[c], arb_resp(c))

\* How many answers a client still waits for: the counter of the fetch unit,
\* and what is in the queue of the load-store unit.
Awaited(c, q) == {i \in DOMAIN q : q[i].origin = c}
UnderWay(c, owed) == Cardinality(Awaited(c, owed[Bram])) + Cardinality(Awaited(c, owed[Peripheral]))

\* resp_rdy of the clients.
client_rdy(c, W_rdy) == c = Dmem => UnderWay(Dmem, outstanding) > 0 /\ W_rdy

resp_rdy(s, W_rdy) ==
  \E c \in Client : s \in resp_gnt(c) /\ client_rdy(c, W_rdy)

server_rdy(s, W_rdy) ==
  IF s = Bram THEN Len(req_fifo) # FifoDepth
  ELSE curr_state = "IDLE" \/ (curr_state = "RESP" /\ resp_rdy(Peripheral, W_rdy))

req_rdy(c, W_rdy) == \E s \in Server : c \in req_gnt(s) /\ server_rdy(s, W_rdy)

-----------------------------------------------------------------------------
(* FPGAMem.  The push does not look at full: the Fifo then overwrites its  *)
(* oldest entry, and holds one more than it has places for, until its      *)
(* pointers meet again.                                                    *)

Pushed(m) ==
  LET n == Len(req_fifo) + 1
  IN  IF n <= FifoDepth THEN Append(req_fifo, m) ELSE [Append(req_fifo, m) EXCEPT ![n - FifoDepth] = m]

Wrapped(q) == IF Len(q) = 2 * FifoDepth THEN << >> ELSE q

\* Mutant: the answer of the second stage does not wait for the one before.
rw_rdy_Always(W_rdy) == TRUE

rw_rdy(W_rdy) == resp_msg.val => resp_rdy(Bram, W_rdy)

fifo_pop(W_rdy) == (rw_msg.val => rw_rdy(W_rdy)) /\ req_fifo # << >>

FPGAMem(W_rdy) ==
  LET rw_xfer == rw_msg.val /\ rw_rdy(W_rdy)
      next    == IF arb_req(Bram) # {} THEN Pushed(sent(Bram)) ELSE req_fifo
  IN  /\ req_fifo' = Wrapped(IF fifo_pop(W_rdy) THEN Tail(next) ELSE next)
      /\ rw_msg' = IF fifo_pop(W_rdy) THEN Head(req_fifo) ELSE IF rw_xfer THEN None ELSE rw_msg
      /\ resp_msg' = IF rw_xfer
                       THEN IF rw_msg.write THEN rw_msg ELSE [rw_msg EXCEPT !.data = mem[rw_msg.addr]]
                     ELSE IF resp_rdy(Bram, W_rdy) THEN None
                     ELSE resp_msg
      /\ mem' = IF rw_msg.val /\ rw_msg.write THEN [mem EXCEPT ![rw_msg.addr] = rw_msg.data] ELSE mem

-----------------------------------------------------------------------------
(* PeripheralMemServer.  A key is latched into the answer, and the buffer  *)
(* popped, by an edge into RESP; an edge that stays in RESP pops again,    *)
(* and when the buffer is empty its pointers cross.  A key is a key.       *)

op_done == curr_msg.addr = STDIN => key_buf # 0

next_state(W_rdy) ==
  CASE curr_state = "IDLE"    -> IF arb_req(Peripheral) # {} THEN "OPERATE" ELSE "IDLE"
    [] curr_state = "OPERATE" -> IF op_done THEN "RESP" ELSE "OPERATE"
    [] curr_state = "RESP"    -> IF ~resp_rdy(Peripheral, W_rdy) THEN "RESP"
                                 ELSE IF arb_req(Peripheral) # {} THEN "OPERATE" ELSE "IDLE"

key_buf_pop(W_rdy) == next_state(W_rdy) = "RESP" /\ curr_msg.addr = STDIN

PeripheralMemServer(W_rdy, key) ==
  /\ key => key_buf # KeyDepth
  /\ curr_state' = next_state(W_rdy)
  /\ curr_msg' = IF curr_state # "OPERATE" /\ next_state(W_rdy) = "OPERATE" THEN sent(Peripheral) ELSE curr_msg
  /\ key_buf' = (key_buf + (IF key THEN 1 ELSE 0)
                          - (IF key_buf_pop(W_rdy) THEN 1 ELSE 0)) % (2 * KeyDepth)

-----------------------------------------------------------------------------
(* SPIMemClient.  A word that comes in WAIT_MEM or SET_GO is lost.         *)

SPIMemClient(word, W_rdy) ==
  /\ spi_state' = CASE spi_state = "WAIT_ADDR" /\ word # << >> -> "WAIT_DATA"
                    [] spi_state = "WAIT_DATA" /\ word # << >> -> IF addr = GO_ADDR THEN "SET_GO" ELSE "WAIT_MEM"
                    [] spi_state = "WAIT_MEM" /\ req_rdy(Spi, W_rdy) -> "WAIT_ADDR"
                    [] spi_state = "SET_GO" -> "WAIT_ADDR"
                    [] OTHER -> spi_state
  /\ addr' = IF spi_state = "WAIT_ADDR" /\ word # << >> THEN word[1] ELSE addr
  /\ data' = IF spi_state = "WAIT_DATA" /\ word # << >> THEN word[1] ELSE data
  /\ go' = IF spi_state = "SET_GO" THEN data = 1 ELSE go

-----------------------------------------------------------------------------
(* One clock edge.                                                         *)

Crossbar(W_rdy) ==
  /\ req_filter' = [s \in Server |-> NextFilter(req_filter[s], arb_req(s), server_rdy(s, W_rdy), Client)]
  /\ resp_filter' = [c \in Client |-> NextFilter(resp_filter[c], arb_resp(c), client_rdy(c, W_rdy), Server)]

Accepted(c, W_rdy) == req_val(c) /\ req_rdy(c, W_rdy)

Takes(s, W_rdy) == arb_req(s) # {} /\ server_rdy(s, W_rdy)

\* What a server promises for a request it takes: the last write taken before.
Owed(s) ==
  [sent(s) EXCEPT !.data = IF sent(s).write \/ s = Peripheral THEN @ ELSE written[sent(s).addr]]

\* An answer goes to the oldest request of its client.  One that nobody asked
\* for, as there may be after an overrun, is not counted.
Answered(s) ==
  LET asked == {i \in DOMAIN outstanding[s] : outstanding[s][i].origin = resp(s).origin}
  IN  IF asked = {} THEN outstanding[s] ELSE RemoveAt(outstanding[s], Min(asked))

Clients(W_rdy) ==
  /\ outstanding' = [s \in Server |->
       LET left == IF resp_rdy(s, W_rdy) THEN Answered(s) ELSE outstanding[s]
       IN  IF Takes(s, W_rdy) THEN Append(left, Owed(s)) ELSE left]
  /\ written' = IF Takes(Bram, W_rdy) /\ sent(Bram).write
                  THEN [written EXCEPT ![sent(Bram).addr] = sent(Bram).data]
                  ELSE written
  /\ \E new \in [{Imem, Dmem} -> Requests(Imem) \cup Requests(Dmem) \cup {None}] :
       /\ \A c \in {Imem, Dmem} :
            /\ new[c] \in Requests(c) \cup {None}
            /\ want[c].val /\ ~Accepted(c, W_rdy) => new[c].val /\ (c = Dmem => new[c] = want[c])
            /\ new[c].val => UnderWay(c, outstanding') < Most(c)
       /\ want' = new

Bounds(W_rdy, word) ==
  /\ stall = MaxStall /\ arb_resp(Dmem) # {} => W_rdy
  /\ stall' = IF arb_resp(Dmem) # {} /\ ~W_rdy THEN stall + 1 ELSE 0
  /\ word # << >> => spi_gap = SpiGap
  /\ spi_gap' = IF word # << >> THEN 1 ELSE Min({spi_gap + 1, SpiGap})

\* What the properties ask of the past.
History(W_rdy) ==
  /\ overrun' = (overrun \/ (arb_req(Bram) # {} /\ Len(req_fifo) >= FifoDepth))
  /\ kept' = IF req_fifo' = << >> THEN 0
             ELSE IF resp_msg.val /\ ~resp_rdy(Bram, W_rdy) THEN Min({kept + 1, FifoDepth})
             ELSE kept

\* A word of SPI is an address, then what to write there: to the go bit, or to
\* the block memory.
Words == {<< >>} \cup IF spi_state = "WAIT_ADDR" THEN {<<a>> : a \in Addr \cup {GO_ADDR}}
                       ELSE {<<d>> : d \in IF addr = GO_ADDR THEN {0, 1} ELSE {0}}

Cycle(W_rdy, key, word) ==
  /\ Bounds(W_rdy, word)
  /\ Crossbar(W_rdy)
  /\ FPGAMem(W_rdy)
  /\ PeripheralMemServer(W_rdy, key)
  /\ SPIMemClient(word, W_rdy)
  /\ Clients(W_rdy)
  /\ History(W_rdy)

Next == \E W_rdy, key \in BOOLEAN : \E word \in Words : Cycle(W_rdy, key, word)

Spec == Init /\ [][Next]_vars

-----------------------------------------------------------------------------
(* Properties.                                                             *)

\* The messages between the ports of a server, the oldest first.
Path(s) ==
  LET valid(m) == IF m.val THEN <<m>> ELSE << >>
  IN  IF s = Bram THEN valid(resp_msg) \o valid(rw_msg) \o req_fifo
      ELSE IF curr_state = "IDLE" THEN << >> ELSE <<curr_msg>>

\* Whatever the arbiters grant and however the clients stall, what is under way
\* in a server is what it has taken from them, in order and with the origin, and
\* a read answers with the last word written before it was taken, by whichever
\* client: until a request is pushed at a full queue, where it replaces another.
\* And that takes time: what waits in the queue is one request and one more for
\* each cycle that an answer was kept waiting, however many the clients may have
\* under way.
AnswersMatchRequests ==
  ~overrun =>
    /\ Len(req_fifo) <= kept + 1
    /\ \A s \in Server :
         /\ Len(Path(s)) = Len(outstanding[s])
         /\ \A i \in DOMAIN Path(s) :
              LET m == Path(s)[i]  owed == outstanding[s][i]
              IN  m.origin = owed.origin /\ m.addr = owed.addr /\ m.write = owed.write
         /\ resp(s).val /\ ~resp(s).write => resp(s).data = outstanding[s][1].data

\* "Due to the memory subsystem's speed compared to SPI, we don't have to worry
\* about backpressure": a word of SPI never comes while the last one still waits
\* for the memory, where it would be lost and swap addresses with data.
NoWordIsLost == spi_gap = SpiGap => spi_state \in {"WAIT_ADDR", "WAIT_DATA"}

\* While no request is pushed at a full queue, this is so, and more: a write of
\* the loader is taken within one round of the arbiter, however fetch, the
\* load-store unit and their answers crowd the memory.
SpiIsNotBackpressured ==
  ~overrun =>
    /\ spi_state = "WAIT_MEM" => spi_gap <= Cardinality(Client)
    /\ NoWordIsLost

\* "Store key presses in a FIFO buffer": while an answer with a key waits to be
\* taken, no other key leaves the buffer.
KeyPerRead ==
  [][ curr_state = "RESP" /\ curr_state' = "RESP" /\ curr_msg.addr = STDIN
        => key_buf' \in {key_buf, key_buf + 1} ]_vars
=============================================================================
