---------------------------- MODULE MemNet_proofs ----------------------------
(***************************************************************************)
(* The memory network answers every request with what was last written     *)
(* before it, in the order of each server, and takes the writes of the     *)
(* loader in time: for every set of addresses, every depth of the queue    *)
(* and any number of requests under way, until a request is pushed into a  *)
(* full queue (overrun).  And that takes FifoDepth - 1 cycles in which an  *)
(* answer is kept waiting while the queue is never empty.                  *)
(*                                                                         *)
(* The invariant IInv: what each server holds is what it owes (BramHolds,  *)
(* PeripheralHolds); what is owed for a read is what it will find, by the  *)
(* last write ahead of it or in the memory (Values); the turn of the       *)
(* loader at the arbiter comes within a round (SpiTurn); and the queue     *)
(* grows by one in a cycle that keeps an answer waiting, but in no other   *)
(* (Backlog).                                                              *)
(***************************************************************************)
EXTENDS MemNet, FiniteSetTheorems, FunctionTheorems, SequenceTheorems, TLAPS

\* What is read and written, and the messages in the network and in the block
\* memory.
NetWord     == 0 .. 1
Message     == [val : {TRUE}, origin : Client, write : BOOLEAN, addr : Addr \cup {STDIN, STDOUT}, data : NetWord]
BramMessage == [val : {TRUE}, origin : Client, write : BOOLEAN, addr : Addr, data : NetWord]

\* Types, and which messages can be where: only the load-store unit asks the
\* peripherals, and a write of the loader has an address of the block memory.
NetType ==
  /\ want \in [{Imem, Dmem} -> {None} \cup Message]
  /\ \A c \in {Imem, Dmem} : want[c].val => want[c].origin = c
  /\ want[Imem].val => want[Imem].addr \in Addr
  /\ req_filter \in [Server -> SUBSET Client]
  /\ resp_filter \in [Client -> SUBSET Server]
  /\ req_fifo \in Seq(BramMessage) /\ Len(req_fifo) <= FifoDepth
  /\ rw_msg \in {None} \cup BramMessage
  /\ resp_msg \in {None} \cup BramMessage
  /\ mem \in [Addr -> NetWord]
  /\ written \in [Addr -> NetWord]
  /\ curr_state \in {"IDLE", "OPERATE", "RESP"}
  /\ curr_msg \in {None} \cup Message
  /\ curr_state # "IDLE" => curr_msg.val /\ curr_msg.origin = Dmem
  /\ spi_state \in {"WAIT_ADDR", "WAIT_DATA", "WAIT_MEM", "SET_GO"}
  /\ spi_state \in {"WAIT_DATA", "WAIT_MEM"} => addr \in Addr \cup {GO_ADDR}
  /\ spi_state = "WAIT_MEM" => addr \in Addr /\ data \in NetWord
  /\ go \in BOOLEAN
  /\ outstanding \in [Server -> Seq(Message)]
  /\ stall \in 0 .. MaxStall
  /\ spi_gap \in 1 .. SpiGap
  /\ kept \in 0 .. FifoDepth

\* What the block memory still owes.
Owing == outstanding[Bram]

\* How many messages its two stages hold.
InResp == IF resp_msg.val THEN 1 ELSE 0
InRw   == IF rw_msg.val THEN 1 ELSE 0

\* The message of the block memory that is i-th from its port.
Item(i) ==
  IF i = InResp THEN resp_msg
  ELSE IF i = InResp + InRw THEN rw_msg
  ELSE req_fifo[i - (InResp + InRw)]

\* A message is the request that is owed; if it writes, with its data.
SameRequest(m, owed) ==
  /\ m.origin = owed.origin /\ m.addr = owed.addr /\ m.write = owed.write
  /\ m.write => m.data = owed.data

\* The stages and the queue hold what the block memory owes, in order, and the
\* answer that stands at the port carries the data that are owed.
BramHolds ==
  /\ Len(Owing) = InResp + InRw + Len(req_fifo)
  /\ \A i \in 1 .. Len(Owing) : SameRequest(Item(i), Owing[i])
  /\ resp_msg.val => resp_msg.data = Owing[1].data

\* So do the peripherals, which have one request at a time.
PeripheralHolds ==
  /\ Len(outstanding[Peripheral]) = IF curr_state = "IDLE" THEN 0 ELSE 1
  /\ curr_state # "IDLE" => outstanding[Peripheral][1] = curr_msg

\* The queue holds one request, and one more for each cycle that an answer was kept
\* waiting.
Backlog == Len(req_fifo) <= kept + 1

\* The i-th request owed writes to a.
WritesTo(i, a) == Owing[i].write /\ Owing[i].addr = a

\* A read of a that is i-th in line finds v: by the last write before it that has
\* not been carried out, or, if there is none, in the memory.
ValueBefore(i, a, v) ==
  \/ mem[a] = v /\ \A j \in InResp + 1 .. i - 1 : ~WritesTo(j, a)
  \/ \E j \in InResp + 1 .. i - 1 :
       /\ WritesTo(j, a) /\ Owing[j].data = v
       /\ \A k \in j + 1 .. i - 1 : ~WritesTo(k, a)

\* What is owed for each read is what it will find, and a read that comes next
\* will find what was last written.
Values ==
  /\ \A i \in InResp + 1 .. Len(Owing) :
       ~Owing[i].write => ValueBefore(i, Owing[i].addr, Owing[i].data)
  /\ \A a \in Addr : ValueBefore(Len(Owing) + 1, a, written[a])

\* In how many cycles at the latest the arbiter of the block memory comes to the
\* loader.
Turn ==
  IF req_filter[Bram] = {} THEN 3 ELSE IF req_filter[Bram] = {Dmem, Spi} THEN 2 ELSE 1

\* The loader waits a round of the arbiter at most, counted from its word.
SpiTurn ==
  /\ req_filter[Bram] \in {{}, {Spi}, {Dmem, Spi}}
  /\ spi_state = "WAIT_MEM" => spi_gap + Turn <= 4
  /\ spi_state = "SET_GO" => spi_gap = 1

\* Each server has what it owes, and the loader its turn.
NetIsRight ==
  /\ NetType
  /\ BramHolds
  /\ PeripheralHolds
  /\ Values
  /\ SpiTurn
  /\ Backlog

\* The invariant: so it is until a request is pushed into a full queue.
IInv == overrun \in BOOLEAN /\ (~overrun => NetIsRight)

\* A request is pushed into a queue that has a place for it.
PushesFindRoom == arb_req(Bram) # {} => Len(req_fifo) < FifoDepth

\* The clients and the servers are numbers.
USE DEF Imem, Dmem, Spi, Client, Bram, Peripheral, Server

-----------------------------------------------------------------------------
(* Counting.                                                               *)

\* The answers that a client waits for are finitely many.
LEMMA AwaitedFinite ==
  ASSUME NEW q \in Seq(Message), NEW c
  PROVE  /\ IsFiniteSet(Awaited(c, q))
         /\ Cardinality(Awaited(c, q)) \in Nat
         /\ Awaited(c, q) \subseteq 1 .. Len(q)
<1>1. Awaited(c, q) \in SUBSET (1 .. Len(q))
  BY DEF Awaited
<1>2. IsFiniteSet(1 .. Len(q))
  BY FS_Interval
<1>. QED  BY <1>1, <1>2, FS_Subset, FS_CardinalityType

-----------------------------------------------------------------------------
(* The arbiters.                                                           *)

\* Min is the least element.
LEMMA LeastOf ==
  ASSUME NEW S \in SUBSET Client, S # {}
  PROVE  Min(S) \in S /\ \A y \in S : Min(S) <= y
<1>1. \E x \in S : \A y \in S : x <= y
  <2>1. CASE 0 \in S  BY <2>1
  <2>2. CASE 0 \notin S /\ 1 \in S  BY <2>2
  <2>3. CASE 0 \notin S /\ 1 \notin S
    <3>1. S = {2}
      BY <2>3
    <3>. QED  BY <3>1
  <2>. QED  BY <2>1, <2>2, <2>3
<1>. QED  BY <1>1 DEF Min

\* g is the one request granted: the first in the filter, or else the first.
Granted1(filter, req, g) ==
  /\ gnt(filter, req) = {g} /\ g \in req
  /\ IF filter \cap req # {} THEN g \in filter /\ \A i \in filter \cap req : g <= i
                             ELSE \A i \in req : g <= i

\* The arbiter of RRArb.v grants one request whenever there is one.
LEMMA GrantOne ==
  ASSUME NEW filter \in SUBSET Client, NEW req \in SUBSET Client, req # {}
  PROVE  \E g \in req : Granted1(filter, req, g)
<1>1. CASE filter \cap req # {}
  <2> DEFINE S == filter \cap req
  <2>1. Min(S) \in S /\ \A y \in S : Min(S) <= y
    BY <1>1, LeastOf
  <2>2. gnt(filter, req) = {Min(S)}
    BY <1>1 DEF gnt
  <2>. QED  BY <1>1, <2>1, <2>2 DEF Granted1
<1>2. CASE filter \cap req = {}
  <2>1. Min(req) \in req /\ \A y \in req : Min(req) <= y
    BY LeastOf
  <2>2. gnt(filter, req) = {Min(req)}
    BY <1>2 DEF gnt
  <2>. QED  BY <1>2, <2>1, <2>2 DEF Granted1
<1>. QED  BY <1>1, <1>2

\* A valid message is one.
LEMMA IsMessage ==
  ASSUME NEW m, NEW S, m \in {None} \cup S, m.val
  PROVE  m \in S
  BY DEF None

\* What a client asks for is a request of its own, and goes where it can be served.
LEMMA Asked ==
  ASSUME NetType, NEW c \in Client, req_val(c)
  PROVE  /\ req_msg(c) \in Message
         /\ req_msg(c).origin = c
         /\ c # Dmem => req_msg(c).addr \in Addr
<1>1. CASE c = Spi
  <2>1. addr \in Addr /\ data \in NetWord
    BY <1>1 DEF req_val, NetType
  <2>. QED  BY <1>1, <2>1 DEF req_msg, Write, Message
<1>2. CASE c # Spi
  <2>1. c \in {Imem, Dmem} /\ req_msg(c) = want[c] /\ want[c].val
    BY <1>2 DEF req_val, req_msg
  <2>2. want[c] \in {None} \cup Message
    BY <2>1 DEF NetType
  <2>3. want[c] \in Message
    BY <2>1, <2>2, IsMessage
  <2>. QED  BY <2>1, <2>3 DEF NetType
<1>. QED  BY <1>1, <1>2

\* What a server is asked.
LEMMA Sent ==
  ASSUME NetType, NEW s \in Server, arb_req(s) # {}
  PROVE  /\ sent(s) \in Message
         /\ sent(s).origin \in arb_req(s)
         /\ sent(s) = req_msg(sent(s).origin)
         /\ req_gnt(s) = {sent(s).origin}
         /\ Granted1(req_filter[s], arb_req(s), sent(s).origin)
         /\ s = Bram => sent(s) \in BramMessage
         /\ s = Peripheral => sent(s).origin = Dmem
<1>1. arb_req(s) \in SUBSET Client /\ req_filter[s] \in SUBSET Client
  BY DEF arb_req, NetType
<1>2. PICK g \in arb_req(s) : Granted1(req_filter[s], arb_req(s), g)
  BY <1>1, GrantOne
<1>3. req_gnt(s) = {g}
  BY <1>2 DEF req_gnt, Granted1
<1>4. sent(s) = req_msg(g)
  BY <1>3 DEF sent
<1>5. g \in Client /\ req_val(g) /\ route(g) = s
  BY DEF arb_req
<1>6. sent(s) \in Message /\ sent(s).origin = g /\ (g # Dmem => sent(s).addr \in Addr)
  BY <1>4, <1>5, Asked
<1>7. s = Bram => sent(s).addr \notin {STDIN, STDOUT}
  BY <1>4, <1>5 DEF route
<1>8. s = Peripheral => sent(s).addr \in {STDIN, STDOUT}
  BY <1>4, <1>5 DEF route
<1>9. s = Bram => sent(s) \in BramMessage
  <2>1. s = Bram => sent(s).addr \in Addr
    BY <1>6, <1>7 DEF Message
  <2>. QED  BY <1>6, <2>1 DEF Message, BramMessage
<1>10. s = Peripheral => g = Dmem
  BY <1>6, <1>8, AddrAssumption DEF STDIN, STDOUT
<1>. QED  BY <1>2, <1>3, <1>4, <1>6, <1>9, <1>10

-----------------------------------------------------------------------------
(* The answers.                                                            *)

\* What stands at the port of a server is the first it owes.
LEMMA AtThePort ==
  ASSUME NetType, BramHolds, PeripheralHolds, NEW s \in Server, resp(s).val
  PROVE  /\ outstanding[s] # << >>
         /\ outstanding[s][1].origin = resp(s).origin
         /\ resp(s).origin \in Client
         /\ s = Peripheral => resp(s).origin = Dmem
<1>1. CASE s = Bram
  <2>1. resp_msg.val /\ resp(s) = resp_msg
    BY <1>1 DEF resp
  <2>2. Len(Owing) \in Nat /\ Len(Owing) >= 1
    <3>1. Len(req_fifo) \in Nat /\ InRw \in Nat /\ Len(Owing) \in Nat
      BY DEF NetType, InRw, Owing
    <3>. QED  BY <2>1, <3>1 DEF BramHolds, InResp
  <2>3. SameRequest(resp_msg, Owing[1])
    BY <2>1, <2>2 DEF BramHolds, Item, InResp
  <2>4. resp_msg \in BramMessage
    BY <2>1, IsMessage DEF NetType
  <2>. QED  BY <1>1, <2>1, <2>2, <2>3, <2>4 DEF SameRequest, Owing, BramMessage
<1>2. CASE s = Peripheral
  <2>1. curr_state = "RESP" /\ resp(s) = curr_msg
    BY <1>2 DEF resp, None
  <2>2. Len(outstanding[s]) = 1 /\ outstanding[s][1] = curr_msg /\ curr_msg.origin = Dmem
    BY <1>2, <2>1 DEF PeripheralHolds, NetType
  <2>. QED  BY <2>1, <2>2
<1>. QED  BY <1>1, <1>2

\* What a client waits for is counted by numbers.
LEMMA Counted ==
  ASSUME NetType, NEW c \in Client
  PROVE  /\ Cardinality(Awaited(c, outstanding[Bram])) \in Nat
         /\ Cardinality(Awaited(c, outstanding[Peripheral])) \in Nat
         /\ UnderWay(c, outstanding) \in Nat
<1>1. outstanding[Bram] \in Seq(Message) /\ outstanding[Peripheral] \in Seq(Message)
  BY DEF NetType
<1>. QED  BY <1>1, AwaitedFinite DEF UnderWay

\* The load-store unit is ready for an answer whenever the writeback unit is.
LEMMA DmemReady ==
  ASSUME NetType, BramHolds, PeripheralHolds, NEW W_rdy \in BOOLEAN, arb_resp(Dmem) # {}
  PROVE  client_rdy(Dmem, W_rdy) <=> W_rdy
<1>1. PICK s \in Server : resp(s).val /\ resp(s).origin = Dmem
  BY DEF arb_resp
<1>2. outstanding[s] # << >> /\ outstanding[s][1].origin = Dmem
  BY <1>1, AtThePort
<1>3. 1 \in Awaited(Dmem, outstanding[s])
  <2>1. outstanding[s] \in Seq(Message)
    BY DEF NetType
  <2>. QED  BY <1>2, <2>1 DEF Awaited
<1>4. Cardinality(Awaited(Dmem, outstanding[s])) > 0
  <2>1. outstanding[s] \in Seq(Message)
    BY DEF NetType
  <2>2. IsFiniteSet(Awaited(Dmem, outstanding[s])) /\ Cardinality(Awaited(Dmem, outstanding[s])) \in Nat
    BY <2>1, AwaitedFinite
  <2>3. Cardinality(Awaited(Dmem, outstanding[s])) # 0
    BY <1>3, <2>2, FS_EmptySet
  <2>. QED  BY <2>2, <2>3
<1>5. UnderWay(Dmem, outstanding) > 0
  BY <1>4, Counted DEF UnderWay
<1>. QED  BY <1>5 DEF client_rdy

\* The arbiter of a client's answers grants one of them.
LEMMA RespGrant ==
  ASSUME NetType, NEW c \in Client, arb_resp(c) # {}
  PROVE  \E g \in arb_resp(c) : Granted1(resp_filter[c], arb_resp(c), g)
                                  /\ resp_gnt(c) = {g}
<1>1. resp_filter[c] \in SUBSET Client /\ arb_resp(c) \in SUBSET Client
  BY DEF NetType, arb_resp
<1>2. PICK g \in arb_resp(c) : Granted1(resp_filter[c], arb_resp(c), g)
  BY <1>1, GrantOne
<1>. QED  BY <1>2 DEF resp_gnt, Granted1

\* When a server is rid of its answer.
LEMMA Rid ==
  ASSUME NetType, BramHolds, PeripheralHolds, NEW W_rdy \in BOOLEAN, NEW s \in Server
  PROVE  /\ resp_rdy(s, W_rdy) => resp(s).val
         /\ resp(s).val /\ resp(s).origin # Dmem => resp_rdy(s, W_rdy)
         /\ resp(s).val /\ resp(s).origin = Dmem =>
              (resp_rdy(s, W_rdy) <=> W_rdy /\ s \in resp_gnt(Dmem))
<1>1. \A c \in Client : s \in resp_gnt(c) => s \in arb_resp(c)
  <2> SUFFICES ASSUME NEW c \in Client, s \in resp_gnt(c) PROVE s \in arb_resp(c)
    OBVIOUS
  <2>1. arb_resp(c) # {}
    BY DEF resp_gnt, gnt
  <2>. QED  BY <2>1, RespGrant
<1>2. \A c \in Client : s \in resp_gnt(c) => resp(s).val /\ resp(s).origin = c
  BY <1>1 DEF arb_resp
<1>3. ASSUME resp(s).val, resp(s).origin # Dmem
      PROVE  resp_rdy(s, W_rdy)
  <2> DEFINE c == resp(s).origin
  <2>1. c \in Client /\ s = Bram
    BY <1>3, AtThePort
  <2>2. s \in arb_resp(c)
    BY <1>3, <2>1 DEF arb_resp
  <2>3. Peripheral \notin arb_resp(c)
    <3>1. resp(Peripheral).val => resp(Peripheral).origin = Dmem
      BY AtThePort
    <3>. QED  BY <1>3, <3>1 DEF arb_resp
  <2>4. PICK g \in arb_resp(c) : resp_gnt(c) = {g}
    BY <2>1, <2>2, RespGrant
  <2>5. g = s
    BY <2>1, <2>3, <2>4 DEF arb_resp
  <2>. QED  BY <1>3, <2>1, <2>4, <2>5 DEF resp_rdy, client_rdy
<1>4. ASSUME resp(s).val, resp(s).origin = Dmem
      PROVE  resp_rdy(s, W_rdy) <=> W_rdy /\ s \in resp_gnt(Dmem)
  <2>1. s \in arb_resp(Dmem)
    BY <1>4 DEF arb_resp
  <2>2. client_rdy(Dmem, W_rdy) <=> W_rdy
    BY <2>1, DmemReady
  <2>. QED  BY <1>2, <1>4, <2>2 DEF resp_rdy
<1>. QED  BY <1>2, <1>3, <1>4 DEF resp_rdy

-----------------------------------------------------------------------------
(* An edge of the block memory.                                            *)

\* What the steps of the parts rely on.
NetInv == NetType /\ BramHolds /\ PeripheralHolds /\ PushesFindRoom

\* A condition as a number.
Bit(b) == IF b THEN 1 ELSE 0

\* The answer in the second stage leaves it.
Xfer(W_rdy) == rw_msg.val /\ (resp_msg.val => resp_rdy(Bram, W_rdy))

\* The queue: a push at the end, and a pop at the head, of an entry that was there.
LEMMA QueueStep ==
  ASSUME NetInv, NEW W_rdy \in BOOLEAN, FPGAMem(W_rdy)
  PROVE  LET pop  == fifo_pop(W_rdy)
             push == arb_req(Bram) # {}
         IN  /\ req_fifo' \in Seq(BramMessage)
             /\ Len(req_fifo') = Len(req_fifo) + Bit(push) - Bit(pop)
             /\ Len(req_fifo') <= FifoDepth
             /\ pop => Len(req_fifo) >= 1
             /\ \A k \in 1 .. Len(req_fifo') :
                  req_fifo'[k] = IF k + Bit(pop) <= Len(req_fifo)
                                   THEN req_fifo[k + Bit(pop)] ELSE sent(Bram)
<1> DEFINE pop  == fifo_pop(W_rdy)
           push == arb_req(Bram) # {}
           next == IF push THEN Append(req_fifo, sent(Bram)) ELSE req_fifo
<1>1. req_fifo \in Seq(BramMessage) /\ Len(req_fifo) \in Nat /\ Len(req_fifo) <= FifoDepth
  BY DEF NetInv, NetType
<1>2. push => Len(req_fifo) < FifoDepth
  BY DEF NetInv, PushesFindRoom
<1>3. push => sent(Bram) \in BramMessage
  BY Sent DEF NetInv
<1>4. push => Pushed(sent(Bram)) = Append(req_fifo, sent(Bram))
  BY <1>1, <1>2, FifoDepthAssumption DEF Pushed
<1>5. req_fifo' = Wrapped(IF pop THEN Tail(next) ELSE next)
  BY <1>4 DEF FPGAMem
<1>6. pop => Len(req_fifo) >= 1
  BY <1>1 DEF fifo_pop
<1>7. /\ next \in Seq(BramMessage)
      /\ Len(next) = Len(req_fifo) + Bit(push)
      /\ \A k \in 1 .. Len(next) :
           next[k] = IF k <= Len(req_fifo) THEN req_fifo[k] ELSE sent(Bram)
  BY <1>1, <1>3 DEF Bit
<1> HIDE DEF next, pop, push
<1>8. CASE pop
  <2>1. next # << >>
    BY <1>1, <1>6, <1>7, <1>8 DEF Bit
  <2>2. /\ Tail(next) \in Seq(BramMessage)
        /\ Len(Tail(next)) = Len(next) - 1
        /\ \A k \in 1 .. Len(Tail(next)) : Tail(next)[k] = next[k + 1]
    BY <1>7, <2>1, HeadTailProperties
  <2>3. Len(Tail(next)) <= FifoDepth /\ Len(Tail(next)) # 2 * FifoDepth
    BY <1>1, <1>2, <1>7, <2>2, FifoDepthAssumption DEF Bit
  <2>4. req_fifo' = Tail(next)
    BY <1>5, <1>8, <2>3 DEF Wrapped
  <2>. QED  BY <1>1, <1>6, <1>7, <1>8, <2>2, <2>3, <2>4 DEF Bit, pop, push
<1>9. CASE ~pop
  <2>1. Len(next) <= FifoDepth /\ Len(next) # 2 * FifoDepth
    BY <1>1, <1>2, <1>7, FifoDepthAssumption DEF Bit
  <2>2. req_fifo' = next
    BY <1>5, <1>9, <2>1 DEF Wrapped
  <2>. QED  BY <1>1, <1>7, <1>9, <2>1, <2>2 DEF Bit, pop, push
<1>. QED  BY <1>8, <1>9

\* The stages.
LEMMA StageStep ==
  ASSUME NetInv, NEW W_rdy \in BOOLEAN, FPGAMem(W_rdy)
  PROVE  LET pop  == fifo_pop(W_rdy)
             xfer == Xfer(W_rdy)
             take == resp_rdy(Bram, W_rdy)
         IN  /\ pop <=> (~rw_msg.val \/ xfer) /\ Len(req_fifo) >= 1
             /\ take => resp_msg.val
             /\ rw_msg' = IF pop THEN req_fifo[1] ELSE IF xfer THEN None ELSE rw_msg
             /\ resp_msg' = IF xfer THEN (IF rw_msg.write THEN rw_msg
                                          ELSE [rw_msg EXCEPT !.data = mem[rw_msg.addr]])
                            ELSE IF take THEN None ELSE resp_msg
             /\ mem' = IF rw_msg.val /\ rw_msg.write THEN [mem EXCEPT ![rw_msg.addr] = rw_msg.data] ELSE mem
             /\ rw_msg' \in {None} \cup BramMessage
             /\ resp_msg' \in {None} \cup BramMessage
             /\ mem' \in [Addr -> NetWord]
             /\ rw_msg.val => rw_msg \in BramMessage
             /\ resp_msg.val => resp_msg \in BramMessage
             /\ InResp' = Bit(xfer \/ (resp_msg.val /\ ~take))
             /\ InRw' = Bit(pop \/ (rw_msg.val /\ ~xfer))
<1> DEFINE pop  == fifo_pop(W_rdy)
           xfer == Xfer(W_rdy)
           take == resp_rdy(Bram, W_rdy)
<1>1. /\ rw_msg.val => rw_msg \in BramMessage
      /\ resp_msg.val => resp_msg \in BramMessage
  BY IsMessage DEF NetInv, NetType
<1>2. take => resp_msg.val
  BY Rid DEF NetInv, resp
<1>3. xfer <=> rw_msg.val /\ rw_rdy(W_rdy)
  BY DEF Xfer, rw_rdy
<1>4. req_fifo \in Seq(BramMessage) /\ Len(req_fifo) \in Nat
  BY DEF NetInv, NetType
<1>5. pop <=> (~rw_msg.val \/ xfer) /\ Len(req_fifo) >= 1
  BY <1>3, <1>4 DEF fifo_pop
<1>6. rw_msg' = IF pop THEN req_fifo[1] ELSE IF xfer THEN None ELSE rw_msg
  BY <1>3, <1>4, <1>5 DEF FPGAMem
<1>7. resp_msg' = IF xfer THEN (IF rw_msg.write THEN rw_msg
                                          ELSE [rw_msg EXCEPT !.data = mem[rw_msg.addr]])
                            ELSE IF take THEN None ELSE resp_msg
  BY <1>3 DEF FPGAMem
<1>8. mem' = IF rw_msg.val /\ rw_msg.write THEN [mem EXCEPT ![rw_msg.addr] = rw_msg.data] ELSE mem
  BY DEF FPGAMem
<1>9. mem \in [Addr -> NetWord]
  BY DEF NetInv, NetType
<1>10. mem' \in [Addr -> NetWord]
  BY <1>1, <1>8, <1>9 DEF BramMessage
<1>11. rw_msg \in {None} \cup BramMessage /\ resp_msg \in {None} \cup BramMessage
  BY DEF NetInv, NetType
<1>12. pop => req_fifo[1] \in BramMessage
  BY <1>4, <1>5
<1>13. rw_msg' \in {None} \cup BramMessage
  BY <1>6, <1>11, <1>12
<1>14. xfer => resp_msg' \in BramMessage
  <2>1. xfer => mem[rw_msg.addr] \in NetWord
    BY <1>1, <1>3, <1>9 DEF BramMessage
  <2>. QED  BY <1>1, <1>3, <1>7, <2>1 DEF BramMessage
<1>15. resp_msg' \in {None} \cup BramMessage
  BY <1>7, <1>11, <1>14
<1>16. \A m \in BramMessage : m.val = TRUE
  BY DEF BramMessage
<1>17. InResp' = Bit(xfer \/ (resp_msg.val /\ ~take))
  BY <1>1, <1>2, <1>7, <1>14, <1>16 DEF InResp, Bit, None
<1>18. InRw' = Bit(pop \/ (rw_msg.val /\ ~xfer))
  BY <1>1, <1>5, <1>6, <1>12, <1>16 DEF InRw, Bit, None
<1>. QED  BY <1>1, <1>2, <1>5, <1>6, <1>7, <1>8, <1>10, <1>13, <1>15, <1>17, <1>18

-----------------------------------------------------------------------------
(* What is owed.                                                           *)

\* What is owed for a request is the request, with the value it will find.
LEMMA OwedIs ==
  ASSUME NetType, NEW s \in Server, arb_req(s) # {}
  PROVE  /\ Owed(s) \in Message
         /\ Owed(s).origin = sent(s).origin
         /\ Owed(s).addr = sent(s).addr
         /\ Owed(s).write = sent(s).write
         /\ Owed(s).data = IF sent(s).write \/ s = Peripheral THEN sent(s).data
                           ELSE written[sent(s).addr]
         /\ s = Peripheral => Owed(s) = sent(s)
<1>1. sent(s) \in Message /\ (s = Bram => sent(s).addr \in Addr)
  BY Sent DEF BramMessage
<1>2. written \in [Addr -> NetWord]
  BY DEF NetType
<1>3. ~(sent(s).write \/ s = Peripheral) => written[sent(s).addr] \in NetWord
  BY <1>1, <1>2
<1>. QED  BY <1>1, <1>3 DEF Owed, Message

\* The answer at the port is for the first request that is owed.
LEMMA FirstIsAnswered ==
  ASSUME NetType, BramHolds, PeripheralHolds, NEW s \in Server, resp(s).val
  PROVE  Answered(s) = Tail(outstanding[s])
<1> DEFINE q == outstanding[s]
           asked == {i \in DOMAIN q : q[i].origin = resp(s).origin}
<1>1. q \in Seq(Message) /\ q # << >> /\ q[1].origin = resp(s).origin
  BY AtThePort DEF NetType
<1>2. 1 \in asked /\ \A i \in asked : i \in Nat /\ 1 <= i
  BY <1>1
<1>3. Min(asked) = 1
  <2>1. \A x \in asked : (\A y \in asked : x <= y) => x = 1
    BY <1>2
  <2>. QED  BY <1>2, <2>1 DEF Min
<1>4. RemoveAt(q, 1) = Tail(q)
  BY <1>1 DEF RemoveAt
<1>. QED  BY <1>2, <1>3, <1>4 DEF Answered

\* What a server owes: the first is answered, the one it takes is new.
LEMMA OwingStep ==
  ASSUME NetInv, NEW W_rdy \in BOOLEAN, Clients(W_rdy), NEW s \in Server
  PROVE  LET take == resp_rdy(s, W_rdy)
             q    == outstanding[s]
         IN  /\ outstanding'[s] \in Seq(Message)
             /\ take => Len(q) >= 1
             /\ Len(outstanding'[s]) = Len(q) - Bit(take) + Bit(Takes(s, W_rdy))
             /\ \A i \in 1 .. Len(outstanding'[s]) :
                  outstanding'[s][i] = IF i + Bit(take) <= Len(q) THEN q[i + Bit(take)] ELSE Owed(s)
<1> DEFINE take == resp_rdy(s, W_rdy)
           q    == outstanding[s]
           left == IF take THEN Tail(q) ELSE q
           new  == Takes(s, W_rdy)
<1>1. q \in Seq(Message) /\ Len(q) \in Nat
  BY DEF NetInv, NetType
<1>2. take => q # << >>
  BY Rid, AtThePort DEF NetInv
<1>3. new => Owed(s) \in Message /\ Owed(s).origin = sent(s).origin
  BY OwedIs DEF NetInv, Takes
<1>4. outstanding'[s] = IF new THEN Append(left, Owed(s)) ELSE left
  <2>1. take => Answered(s) = Tail(q)
    BY Rid, FirstIsAnswered DEF NetInv
  <2>. QED  BY <2>1 DEF Clients
<1>5. /\ left \in Seq(Message)
      /\ Len(left) = Len(q) - Bit(take)
      /\ take => Len(q) >= 1
      /\ \A i \in 1 .. Len(left) : left[i] = q[i + Bit(take)]
  <2>1. CASE take
    <3>1. /\ Tail(q) \in Seq(Message)
          /\ Len(Tail(q)) = Len(q) - 1
          /\ \A i \in 1 .. Len(Tail(q)) : Tail(q)[i] = q[i + 1]
      BY <1>1, <1>2, <2>1, HeadTailProperties
    <3>. QED  BY <1>1, <1>2, <2>1, <3>1 DEF Bit
  <2>2. CASE ~take
    BY <1>1, <2>2 DEF Bit
  <2>. QED  BY <2>1, <2>2
<1> HIDE DEF left, new
<1>6. CASE new
  <2>1. /\ Append(left, Owed(s)) \in Seq(Message)
        /\ Len(Append(left, Owed(s))) = Len(left) + 1
        /\ \A i \in 1 .. Len(left) : Append(left, Owed(s))[i] = left[i]
        /\ Append(left, Owed(s))[Len(left) + 1] = Owed(s)
    BY <1>3, <1>5, <1>6, AppendProperties
  <2>2. outstanding'[s] = Append(left, Owed(s))
    BY <1>4, <1>6
  <2>3. Len(left) \in Nat
    BY <1>5
  <2>4. \A i \in 1 .. Len(outstanding'[s]) :
          outstanding'[s][i] = IF i + Bit(take) <= Len(q) THEN q[i + Bit(take)] ELSE Owed(s)
    BY <1>1, <1>5, <2>1, <2>2, <2>3 DEF Bit
  <2>5. Len(outstanding'[s]) = Len(q) - Bit(take) + Bit(new)
    BY <1>5, <1>6, <2>1, <2>2, <2>3 DEF Bit
  <2>. QED  BY <1>5, <2>1, <2>2, <2>4, <2>5 DEF new
<1>7. CASE ~new
  <2>1. outstanding'[s] = left
    BY <1>4, <1>7
  <2>2. \A i \in 1 .. Len(outstanding'[s]) :
          outstanding'[s][i] = IF i + Bit(take) <= Len(q) THEN q[i + Bit(take)] ELSE Owed(s)
    BY <1>1, <1>5, <2>1 DEF Bit
  <2>3. Len(outstanding'[s]) = Len(q) - Bit(take) + Bit(new)
    BY <1>1, <1>5, <1>7, <2>1 DEF Bit
  <2>. QED  BY <1>5, <2>1, <2>2, <2>3 DEF new
<1>. QED  BY <1>6, <1>7

\* The block memory takes every request it is asked.
LEMMA TakesAll ==
  ASSUME NetInv, NEW W_rdy \in BOOLEAN
  PROVE  Takes(Bram, W_rdy) <=> arb_req(Bram) # {}
<1>1. arb_req(Bram) # {} => Len(req_fifo) < FifoDepth
  BY DEF NetInv, PushesFindRoom
<1>2. Len(req_fifo) \in Nat
  BY DEF NetInv, NetType
<1>. QED  BY <1>1, <1>2, FifoDepthAssumption DEF Takes, server_rdy

-----------------------------------------------------------------------------
(* How everything in the block memory moves.                               *)

\* The counts of the stages and of the queue, added up.
LEMMA Sums ==
  ASSUME NEW r \in Int, NEW v \in Int, NEW n \in Int, NEW t \in Int, NEW x \in Int,
         NEW p \in Int, NEW a \in Int, NEW l, NEW r1, NEW v1, NEW n1, NEW l1,
         l = r + v + n, r1 = r + x - t, v1 = v + p - x, n1 = n + a - p, l1 = l - t + a
  PROVE  l1 = r1 + v1 + n1 /\ l1 = l + a - t
  OBVIOUS

\* Numbers.
LEMMA Moves ==
  ASSUME NetInv, NEW W_rdy \in BOOLEAN, FPGAMem(W_rdy), Clients(W_rdy)
  PROVE  LET d == Bit(resp_rdy(Bram, W_rdy))
             x == Bit(Xfer(W_rdy))
             p == Bit(fifo_pop(W_rdy))
             a == Bit(arb_req(Bram) # {})
         IN  /\ InResp' = InResp + x - d /\ InRw' = InRw + p - x
             /\ Len(req_fifo') = Len(req_fifo) + a - p
             /\ Len(Owing') = Len(Owing) + a - d
             /\ d \in 0 .. InResp /\ x \in 0 .. InRw /\ p \in 0 .. 1 /\ a \in 0 .. 1
             /\ InResp \in 0 .. 1 /\ InRw \in 0 .. 1
             /\ InResp' \in 0 .. 1 /\ InRw' \in 0 .. 1
             /\ Len(req_fifo) \in Nat /\ Len(req_fifo') \in Nat
             /\ Len(Owing) = InResp + InRw + Len(req_fifo)
             /\ Len(Owing') = InResp' + InRw' + Len(req_fifo')
             /\ p = 1 <=> (x = InRw /\ Len(req_fifo) >= 1)
             /\ x = 1 <=> (InRw = 1 /\ d = InResp)
             /\ InResp = 1 <=> resp_msg.val
             /\ InRw = 1 <=> rw_msg.val
<1> DEFINE take == resp_rdy(Bram, W_rdy)
           xfer == Xfer(W_rdy)
           pop  == fifo_pop(W_rdy)
           push == arb_req(Bram) # {}
<1>1. /\ Len(req_fifo') = Len(req_fifo) + Bit(push) - Bit(pop)
      /\ req_fifo' \in Seq(BramMessage)
  BY QueueStep
<1>2. /\ pop <=> (~rw_msg.val \/ xfer) /\ Len(req_fifo) >= 1
      /\ take => resp_msg.val
      /\ InResp' = Bit(xfer \/ (resp_msg.val /\ ~take))
      /\ InRw' = Bit(pop \/ (rw_msg.val /\ ~xfer))
  BY StageStep
<1>3. Len(Owing') = Len(Owing) - Bit(take) + Bit(push)
  <2>1. Len(outstanding'[Bram]) = Len(outstanding[Bram]) - Bit(take) + Bit(Takes(Bram, W_rdy))
    BY OwingStep
  <2>. QED  BY <2>1, TakesAll DEF Owing, Bit
<1>4. /\ Len(Owing) = InResp + InRw + Len(req_fifo)
      /\ InResp = Bit(resp_msg.val) /\ InRw = Bit(rw_msg.val)
      /\ Len(req_fifo) \in Nat
  BY DEF NetInv, BramHolds, InResp, InRw, Bit, NetType
<1>5. xfer <=> rw_msg.val /\ (resp_msg.val => take)
  BY DEF Xfer
<1>6. Len(req_fifo') \in Nat
  BY <1>1
<1> HIDE DEF take, xfer, pop, push
<1>7. InResp' = InResp + Bit(xfer) - Bit(take) /\ Bit(take) \in 0 .. InResp
  BY <1>2, <1>4, <1>5 DEF Bit
<1>8. InRw' = InRw + Bit(pop) - Bit(xfer) /\ Bit(xfer) \in 0 .. InRw
  BY <1>2, <1>4, <1>5 DEF Bit
<1>9. Bit(pop) = 1 <=> (Bit(xfer) = InRw /\ Len(req_fifo) >= 1)
  BY <1>2, <1>4, <1>5 DEF Bit
<1>10. Bit(xfer) = 1 <=> (InRw = 1 /\ Bit(take) = InResp)
  BY <1>2, <1>4, <1>5 DEF Bit
<1>11. /\ InResp \in 0 .. 1 /\ InRw \in 0 .. 1
       /\ InResp' \in 0 .. 1 /\ InRw' \in 0 .. 1
       /\ Bit(pop) \in 0 .. 1 /\ Bit(push) \in 0 .. 1
       /\ InResp = 1 <=> resp_msg.val
       /\ InRw = 1 <=> rw_msg.val
  BY <1>2, <1>4 DEF Bit
<1>12. /\ Len(req_fifo') = Len(req_fifo) + Bit(push) - Bit(pop)
       /\ Len(Owing') = Len(Owing) - Bit(take) + Bit(push)
       /\ Len(Owing) = InResp + InRw + Len(req_fifo)
  BY <1>1, <1>3, <1>4
<1>13. /\ InResp \in Int /\ InRw \in Int /\ Len(req_fifo) \in Int /\ Bit(take) \in Int
       /\ Bit(xfer) \in Int /\ Bit(pop) \in Int /\ Bit(push) \in Int
  <2>1. InResp \in Int /\ InRw \in Int
    BY <1>11
  <2>2. Bit(take) \in Int /\ Bit(xfer) \in Int /\ Bit(pop) \in Int /\ Bit(push) \in Int
    BY DEF Bit
  <2>. QED  BY <1>4, <2>1, <2>2
<1>14. /\ Len(Owing') = InResp' + InRw' + Len(req_fifo')
       /\ Len(Owing') = Len(Owing) + Bit(push) - Bit(take)
  <2> DEFINE r == InResp  v == InRw  n == Len(req_fifo)  t == Bit(take)  x == Bit(xfer)
             p == Bit(pop)  a == Bit(push)  l == Len(Owing)
             r1 == InResp'  v1 == InRw'  n1 == Len(req_fifo')  l1 == Len(Owing')
  <2>1. /\ r \in Int /\ v \in Int /\ n \in Int /\ t \in Int /\ x \in Int /\ p \in Int /\ a \in Int
        /\ l = r + v + n /\ r1 = r + x - t /\ v1 = v + p - x /\ n1 = n + a - p /\ l1 = l - t + a
    BY <1>7, <1>8, <1>12, <1>13, Zenon
  <2> HIDE DEF r, v, n, t, x, p, a, l, r1, v1, n1, l1
  <2>2. l1 = r1 + v1 + n1 /\ l1 = l + a - t
    BY <2>1
  <2>. QED  BY <2>2, Zenon DEF r, v, n, t, x, p, a, l, r1, v1, n1, l1
<1>. QED  BY <1>4, <1>6, <1>7, <1>8, <1>9, <1>10, <1>11, <1>12, <1>14, Zenon DEF take, xfer, pop, push

\* The messages in the stages and in the queue, by their places.
LEMMA ItemAt ==
  ASSUME InResp \in Int, InRw \in Int, NEW j \in Int
  PROVE  /\ j = InResp => Item(j) = resp_msg
         /\ j # InResp /\ j = InResp + InRw => Item(j) = rw_msg
         /\ j # InResp /\ j # InResp + InRw =>
              \A k \in Int : j = InResp + InRw + k => Item(j) = req_fifo[k]
<1>1. j = InResp => Item(j) = resp_msg
  BY DEF Item
<1>2. j # InResp /\ j = InResp + InRw => Item(j) = rw_msg
  BY DEF Item
<1>3. ASSUME j # InResp, j # InResp + InRw, NEW k \in Int, j = InResp + InRw + k
      PROVE  Item(j) = req_fifo[k]
  <2>1. j - (InResp + InRw) = k
    BY <1>3
  <2>2. Item(j) = req_fifo[j - (InResp + InRw)]
    BY <1>3, Zenon DEF Item
  <2>. QED  BY <2>1, <2>2, Zenon
<1>. QED  BY <1>1, <1>2, <1>3

\* An entry keeps its message.
LEMMA ItemMoves ==
  ASSUME NetInv, NEW W_rdy \in BOOLEAN, FPGAMem(W_rdy), Clients(W_rdy),
         NEW i \in 1 .. Len(Owing')
  PROVE  LET d == Bit(resp_rdy(Bram, W_rdy))
         IN  /\ i + d <= Len(Owing) => SameRequest(Item(i)', Item(i + d))
             /\ i + d > Len(Owing) => SameRequest(Item(i)', sent(Bram))
<1> DEFINE d == Bit(resp_rdy(Bram, W_rdy))
           x == Bit(Xfer(W_rdy))
           p == Bit(fifo_pop(W_rdy))
           a == Bit(arb_req(Bram) # {})
<1>1. /\ InResp' = InResp + x - d /\ InRw' = InRw + p - x
      /\ Len(req_fifo') = Len(req_fifo) + a - p
      /\ Len(Owing') = Len(Owing) + a - d
      /\ d \in 0 .. InResp /\ x \in 0 .. InRw /\ p \in 0 .. 1 /\ a \in 0 .. 1
      /\ InResp \in 0 .. 1 /\ InRw \in 0 .. 1
      /\ InResp' \in 0 .. 1 /\ InRw' \in 0 .. 1
      /\ Len(req_fifo) \in Nat /\ Len(req_fifo') \in Nat
      /\ Len(Owing) = InResp + InRw + Len(req_fifo)
      /\ Len(Owing') = InResp' + InRw' + Len(req_fifo')
      /\ p = 1 <=> (x = InRw /\ Len(req_fifo) >= 1)
      /\ x = 1 <=> (InRw = 1 /\ d = InResp)
      /\ InResp = 1 <=> resp_msg.val
      /\ InRw = 1 <=> rw_msg.val
  BY Moves
<1>2. /\ x = 1 => SameRequest(resp_msg', rw_msg)
      /\ x = 0 /\ d = 0 => SameRequest(resp_msg', resp_msg)
      /\ p = 1 => SameRequest(rw_msg', req_fifo[1])
      /\ p = 0 /\ x = 0 => SameRequest(rw_msg', rw_msg)
  <2>1. /\ rw_msg' = IF fifo_pop(W_rdy) THEN req_fifo[1] ELSE IF Xfer(W_rdy) THEN None ELSE rw_msg
        /\ resp_msg' = IF Xfer(W_rdy) THEN (IF rw_msg.write THEN rw_msg
                                          ELSE [rw_msg EXCEPT !.data = mem[rw_msg.addr]])
                            ELSE IF resp_rdy(Bram, W_rdy) THEN None ELSE resp_msg
        /\ rw_msg.val => rw_msg \in BramMessage
    BY StageStep
  <2>. QED  BY <1>1, <2>1 DEF Bit, BramMessage, SameRequest
<1>3. \A k \in 1 .. Len(req_fifo') :
        req_fifo'[k] = IF k + p <= Len(req_fifo) THEN req_fifo[k + p] ELSE sent(Bram)
  BY QueueStep
<1> HIDE DEF d, x, p, a
<1> DEFINE Kept == i + d <= Len(Owing) => SameRequest(Item(i)', Item(i + d))
           Fresh == i + d > Len(Owing) => SameRequest(Item(i)', sent(Bram))
<1>4. ASSUME i = InResp' PROVE Kept /\ Fresh
  <2>1. i = 1 /\ Item(i)' = resp_msg'
    BY <1>1, <1>4 DEF Item
  <2>2. CASE x = 1
    <3>1. i + d = InResp + InRw /\ i + d # InResp
      BY <1>1, <2>1, <2>2, <1>4
    <3>2. Item(i + d) = rw_msg
      BY <3>1 DEF Item
    <3>3. i + d <= Len(Owing)
      BY <1>1, <3>1
    <3>. QED  BY <1>1, <1>2, <2>1, <2>2, <3>2, <3>3
  <2>3. CASE x # 1
    <3>1. x = 0 /\ d = 0 /\ i = InResp /\ InResp = 1 /\ i + d = InResp
      BY <1>1, <1>4, <2>1, <2>3
    <3>2. Item(i + d) = resp_msg
      BY <3>1 DEF Item
    <3>3. i + d <= Len(Owing)
      BY <1>1, <3>1
    <3>. QED  BY <1>1, <1>2, <2>1, <3>1, <3>2, <3>3
  <2>. QED  BY <2>2, <2>3
<1>5. ASSUME i # InResp', i = InResp' + InRw' PROVE Kept /\ Fresh
  <2>1. InRw' = 1 /\ Item(i)' = rw_msg'
    BY <1>1, <1>5 DEF Item
  <2>2. CASE p = 1
    <3>1. x = InRw /\ i + d = InResp + InRw + 1 /\ i + d <= Len(Owing)
      BY <1>1, <1>5, <2>1, <2>2
    <3>2. Item(i + d) = req_fifo[1]
      <4>1. PICK j \in Int : j = i + d
        BY <1>1
      <4>2. j # InResp /\ j # InResp + InRw /\ j = InResp + InRw + 1 /\ InResp \in Int /\ InRw \in Int
        BY <1>1, <3>1, <4>1
      <4>3. Item(j) = req_fifo[1]
        BY <4>2, ItemAt
      <4>. QED  BY <4>1, <4>3
    <3>. QED  BY <1>1, <1>2, <2>1, <2>2, <3>1, <3>2
  <2>3. CASE p # 1
    <3>1. p = 0 /\ x = 0 /\ InRw = 1 /\ i + d = InResp + InRw /\ i + d # InResp /\ d # InResp
      BY <1>1, <1>5, <2>1, <2>3
    <3>2. Item(i + d) = rw_msg
      BY <3>1 DEF Item
    <3>3. i + d <= Len(Owing)
      BY <1>1, <3>1
    <3>. QED  BY <1>1, <1>2, <2>1, <3>1, <3>2, <3>3
  <2>. QED  BY <2>2, <2>3
<1>6. ASSUME i # InResp', i # InResp' + InRw' PROVE Kept /\ Fresh
  <2> DEFINE k == i - (InResp' + InRw')
  <2>1. k \in 1 .. Len(req_fifo')
    BY <1>1, <1>6
  <2>2. Item(i)' = req_fifo'[k]
    BY <1>6 DEF Item
  <2>3. i + d = InResp + InRw + k + p
    BY <1>1
  <2>4. CASE i + d <= Len(Owing)
    <3>1. k + p <= Len(req_fifo) /\ i + d # InResp /\ i + d # InResp + InRw
      BY <1>1, <2>1, <2>3, <2>4
    <3>2. Item(i + d) = req_fifo[k + p]
      <4>1. PICK j \in Int, n \in Int : j = i + d /\ n = k + p
        BY <1>1, <2>1
      <4>2. j # InResp /\ j # InResp + InRw /\ j = InResp + InRw + n /\ InResp \in Int /\ InRw \in Int
        BY <1>1, <2>1, <2>3, <3>1, <4>1
      <4>3. Item(j) = req_fifo[n]
        BY <4>2, ItemAt
      <4>. QED  BY <4>1, <4>3
    <3>3. req_fifo'[k] = req_fifo[k + p]
      BY <1>3, <2>1, <3>1
    <3>4. SameRequest(Item(i)', Item(i + d))
      BY <2>2, <3>2, <3>3 DEF SameRequest
    <3>5. i + d \in Int /\ Len(Owing) \in Int
      BY <1>1
    <3>. QED  BY <2>4, <3>4, <3>5
  <2>5. CASE ~(i + d <= Len(Owing))
    <3>1. ~(k + p <= Len(req_fifo))
      BY <1>1, <2>3, <2>5
    <3>2. SameRequest(Item(i)', sent(Bram))
      BY <1>3, <2>1, <2>2, <3>1 DEF SameRequest
    <3>. QED  BY <2>5, <3>2
  <2>. QED  BY <2>4, <2>5
<1>7. Kept /\ Fresh
  BY <1>4, <1>5, <1>6
<1>. QED  BY <1>7 DEF d

-----------------------------------------------------------------------------
(* The block memory keeps what it owes.                                    *)

\* What the block memory owes moves up when an answer is taken.
LEMMA OwingMoves ==
  ASSUME NetInv, NEW W_rdy \in BOOLEAN, Clients(W_rdy), NEW i \in 1 .. Len(Owing')
  PROVE  LET d == Bit(resp_rdy(Bram, W_rdy))
         IN  /\ i + d <= Len(Owing) => Owing'[i] = Owing[i + d]
             /\ i + d > Len(Owing) => arb_req(Bram) # {} /\ Owing'[i] = Owed(Bram)
<1> DEFINE d == Bit(resp_rdy(Bram, W_rdy))
<1>1. /\ Len(outstanding'[Bram]) = Len(outstanding[Bram]) - d + Bit(Takes(Bram, W_rdy))
      /\ \A k \in 1 .. Len(outstanding'[Bram]) :
           outstanding'[Bram][k] = IF k + d <= Len(outstanding[Bram])
                                     THEN outstanding[Bram][k + d] ELSE Owed(Bram)
  BY OwingStep
<1>2. Takes(Bram, W_rdy) => arb_req(Bram) # {}
  BY DEF Takes
<1>3. Len(outstanding[Bram]) \in Nat /\ d \in 0 .. 1 /\ Bit(Takes(Bram, W_rdy)) \in 0 .. 1
  BY DEF NetInv, NetType, Bit
<1>4. ~Takes(Bram, W_rdy) => Bit(Takes(Bram, W_rdy)) = 0
  BY DEF Bit
<1> HIDE DEF d
<1>5. /\ i + d <= Len(Owing) => Owing'[i] = Owing[i + d]
      /\ i + d > Len(Owing) => arb_req(Bram) # {} /\ Owing'[i] = Owed(Bram)
  BY <1>1, <1>2, <1>3, <1>4 DEF Owing
<1>. QED  BY <1>5 DEF d

\* So what is in the block memory is what it owes.
LEMMA BramHoldsStep ==
  ASSUME NetInv, Values, NEW W_rdy \in BOOLEAN, FPGAMem(W_rdy), Clients(W_rdy)
  PROVE  BramHolds'
<1> DEFINE d == Bit(resp_rdy(Bram, W_rdy))
           x == Bit(Xfer(W_rdy))
           a == Bit(arb_req(Bram) # {})
<1>1. /\ InResp' = InResp + x - d
      /\ Len(Owing') = Len(Owing) + a - d
      /\ d \in 0 .. InResp /\ x \in 0 .. InRw /\ a \in 0 .. 1
      /\ InResp \in 0 .. 1 /\ InRw \in 0 .. 1 /\ Len(req_fifo) \in Nat
      /\ Len(Owing) = InResp + InRw + Len(req_fifo)
      /\ x = 1 <=> (InRw = 1 /\ d = InResp)
      /\ InResp = 1 <=> resp_msg.val
      /\ InRw = 1 <=> rw_msg.val
  BY Moves
<1>2. Len(Owing') = InResp' + InRw' + Len(req_fifo')
  BY Moves
<1>3. ASSUME NEW i \in 1 .. Len(Owing') PROVE SameRequest(Item(i)', Owing'[i])
  <2>1. /\ i + d <= Len(Owing) => SameRequest(Item(i)', Item(i + d))
        /\ i + d > Len(Owing) => SameRequest(Item(i)', sent(Bram))
    BY ItemMoves
  <2>2. /\ i + d <= Len(Owing) => Owing'[i] = Owing[i + d]
        /\ i + d > Len(Owing) => arb_req(Bram) # {} /\ Owing'[i] = Owed(Bram)
    BY OwingMoves
  <2>3. arb_req(Bram) # {} => SameRequest(sent(Bram), Owed(Bram))
    BY OwedIs DEF NetInv, SameRequest
  <2>4. i + d <= Len(Owing) => SameRequest(Item(i + d), Owing[i + d])
    <3>1. \A j \in 1 .. Len(Owing) : SameRequest(Item(j), Owing[j])
      BY DEF NetInv, BramHolds
    <3>2. i \in Nat /\ i >= 1 /\ d \in Nat
      BY <1>1
    <3> HIDE DEF d
    <3>3. i + d \in Nat /\ i + d >= 1
      BY <3>2
    <3>. QED  BY <1>1, <3>1, <3>3
  <2> HIDE DEF d
  <2>5. i + d <= Len(Owing) \/ i + d > Len(Owing)
    BY <1>1
  <2>. QED  BY <2>1, <2>2, <2>3, <2>4, <2>5 DEF SameRequest
<1>4. ASSUME resp_msg'.val PROVE resp_msg'.data = Owing'[1].data
  <2>1. /\ resp_msg' = IF Xfer(W_rdy) THEN (IF rw_msg.write THEN rw_msg
                                          ELSE [rw_msg EXCEPT !.data = mem[rw_msg.addr]])
                            ELSE IF resp_rdy(Bram, W_rdy) THEN None ELSE resp_msg
        /\ rw_msg.val => rw_msg \in BramMessage
    BY StageStep
  <2>2. CASE Xfer(W_rdy)
    <3>1. x = 1
      BY <2>2 DEF Bit
    <3>2. InRw = 1 /\ d = InResp
      BY <1>1, <3>1
    <3>3. Len(Owing') >= 1 /\ Len(Owing') \in Nat /\ InResp + 1 <= Len(Owing) /\ Len(Owing) \in Nat
      <4> HIDE DEF d, x, a
      <4>. QED  BY <1>1, <3>1, <3>2
    <3>4. Owing'[1] = Owing[InResp + 1]
      <4>1. 1 + d = InResp + 1 /\ 1 + d <= Len(Owing)
        BY <1>1, <3>2, <3>3
      <4>2. Owing'[1] = Owing[1 + d]
        BY <4>1, <3>3, OwingMoves
      <4>. QED  BY <4>1, <4>2
    <3>5. SameRequest(rw_msg, Owing[InResp + 1])
      <4>1. PICK j \in Int : j = InResp + 1
        BY <1>1
      <4>2. j # InResp /\ j = InResp + InRw /\ InResp \in Int /\ InRw \in Int /\ j \in 1 .. Len(Owing)
        BY <1>1, <3>2, <3>3, <4>1
      <4>3. Item(j) = rw_msg
        BY <4>2, ItemAt
      <4>4. SameRequest(Item(j), Owing[j])
        BY <4>2 DEF NetInv, BramHolds
      <4>. QED  BY <4>1, <4>3, <4>4
    <3>6. CASE rw_msg.write
      BY <2>1, <2>2, <3>4, <3>5, <3>6 DEF SameRequest
    <3>7. CASE ~rw_msg.write
      <4>1. rw_msg \in BramMessage
        BY <2>1, <2>2 DEF Xfer
      <4>2. resp_msg'.data = mem[rw_msg.addr]
        BY <2>1, <2>2, <3>7, <4>1 DEF BramMessage
      <4>3. ~Owing[InResp + 1].write /\ Owing[InResp + 1].addr = rw_msg.addr
        BY <3>5, <3>7 DEF SameRequest
      <4>4. PICK j \in Int : j = InResp + 1
        BY <1>1
      <4>5. ValueBefore(j, Owing[j].addr, Owing[j].data)
        <5>1. j \in InResp + 1 .. Len(Owing)
          BY <1>1, <3>3, <4>4
        <5>. QED  BY <5>1, <4>3, <4>4 DEF Values
      <4>6. InResp + 1 .. j - 1 = {}
        BY <1>1, <4>4
      <4>7. mem[Owing[j].addr] = Owing[j].data
        BY <4>5, <4>6, Zenon DEF ValueBefore
      <4>. QED  BY <3>4, <4>2, <4>3, <4>4, <4>7
    <3>. QED  BY <3>6, <3>7
  <2>3. CASE ~Xfer(W_rdy)
    <3>1. ~resp_rdy(Bram, W_rdy) /\ resp_msg' = resp_msg /\ resp_msg.val
      BY <1>4, <2>1, <2>3 DEF None
    <3>2. d = 0 /\ x = 0 /\ InResp = 1
      BY <1>1, <2>3, <3>1 DEF Bit
    <3>3. Len(Owing) >= 1 /\ Len(Owing') >= 1 /\ Len(Owing) \in Nat /\ Len(Owing') \in Nat
      BY <1>1, <3>2
    <3>4. Owing'[1] = Owing[1]
      <4>1. 1 + d = 1 /\ 1 + d <= Len(Owing)
        BY <3>2, <3>3
      <4>2. Owing'[1] = Owing[1 + d]
        BY <4>1, <3>3, OwingMoves
      <4>. QED  BY <4>1, <4>2
    <3>. QED  BY <3>1, <3>4 DEF NetInv, BramHolds
  <2>. QED  BY <2>2, <2>3
<1>. QED  BY <1>2, <1>3, <1>4 DEF BramHolds

-----------------------------------------------------------------------------
(* The peripherals, and what the clients ask for.                          *)

\* The peripherals keep their request until its answer is taken.
LEMMA PeripheralStep ==
  ASSUME NetInv, NEW W_rdy \in BOOLEAN, NEW key \in BOOLEAN,
         PeripheralMemServer(W_rdy, key), Clients(W_rdy)
  PROVE  /\ PeripheralHolds'
         /\ curr_state' \in {"IDLE", "OPERATE", "RESP"}
         /\ curr_msg' \in {None} \cup Message
         /\ curr_state' # "IDLE" => curr_msg'.val /\ curr_msg'.origin = Dmem
<1> DEFINE take == resp_rdy(Peripheral, W_rdy)
           new  == Takes(Peripheral, W_rdy)
           q    == outstanding[Peripheral]
           q1   == outstanding'[Peripheral]
<1>1. take => curr_state = "RESP"
  <2>1. take => resp(Peripheral).val
    BY Rid DEF NetInv
  <2>. QED  BY <2>1 DEF resp, None
<1>2. new <=> arb_req(Peripheral) # {} /\ (curr_state = "IDLE" \/ take)
  BY <1>1 DEF Takes, server_rdy
<1>3. /\ Len(q1) = Len(q) - Bit(take) + Bit(new)
      /\ \A i \in 1 .. Len(q1) : q1[i] = IF i + Bit(take) <= Len(q) THEN q[i + Bit(take)] ELSE Owed(Peripheral)
  BY OwingStep
<1>4. new => /\ sent(Peripheral) \in Message /\ sent(Peripheral).origin = Dmem
             /\ sent(Peripheral).val /\ Owed(Peripheral) = sent(Peripheral)
  BY <1>2, Sent, OwedIs DEF NetInv, Message
<1>5. /\ curr_state' = next_state(W_rdy)
      /\ curr_msg' = IF curr_state # "OPERATE" /\ next_state(W_rdy) = "OPERATE" THEN sent(Peripheral) ELSE curr_msg
  BY DEF PeripheralMemServer
<1>6. /\ curr_state \in {"IDLE", "OPERATE", "RESP"} /\ curr_msg \in {None} \cup Message
      /\ curr_state # "IDLE" => curr_msg.val /\ curr_msg.origin = Dmem
      /\ Len(q) = IF curr_state = "IDLE" THEN 0 ELSE 1
      /\ curr_state # "IDLE" => q[1] = curr_msg
  BY DEF NetInv, NetType, PeripheralHolds
<1> HIDE DEF take, new, q, q1
<1>7. CASE new
  <2>1. next_state(W_rdy) = "OPERATE" /\ curr_state # "OPERATE"
    BY <1>1, <1>2, <1>7 DEF next_state, take
  <2>2. Len(q1) = 1 /\ q1[1] = Owed(Peripheral)
    BY <1>1, <1>2, <1>3, <1>6, <1>7 DEF Bit
  <2>. QED  BY <1>4, <1>5, <1>7, <2>1, <2>2 DEF PeripheralHolds, q1
<1>8. CASE ~new /\ (curr_state = "IDLE" \/ take)
  <2>1. next_state(W_rdy) = "IDLE"
    BY <1>1, <1>2, <1>8 DEF next_state, take
  <2>2. Len(q1) = 0
    BY <1>1, <1>3, <1>6, <1>8 DEF Bit
  <2>. QED  BY <1>5, <1>6, <2>1, <2>2 DEF PeripheralHolds, q1
<1>9. CASE ~new /\ curr_state # "IDLE" /\ ~take
  <2>1. next_state(W_rdy) \in {"OPERATE", "RESP"} /\ (curr_state = "RESP" => next_state(W_rdy) = "RESP")
    BY <1>6, <1>9 DEF next_state, take
  <2>2. Len(q1) = 1 /\ q1[1] = q[1]
    BY <1>3, <1>6, <1>9 DEF Bit
  <2>3. curr_msg' = curr_msg
    BY <1>5, <1>6, <1>9, <2>1
  <2>. QED  BY <1>5, <1>6, <1>9, <2>1, <2>2, <2>3 DEF PeripheralHolds, q1
<1>. QED  BY <1>7, <1>8, <1>9

\* Clients ask for what they may.
LEMMA WantStep ==
  ASSUME NetInv, NEW W_rdy \in BOOLEAN, Clients(W_rdy)
  PROVE  /\ want' \in [{Imem, Dmem} -> {None} \cup Message]
         /\ \A c \in {Imem, Dmem} : want'[c].val => want'[c].origin = c
         /\ want'[Imem].val => want'[Imem].addr \in Addr
<1>1. /\ want' \in [{Imem, Dmem} -> Requests(Imem) \cup Requests(Dmem) \cup {None}]
      /\ \A c \in {Imem, Dmem} : want'[c] \in Requests(c) \cup {None}
  BY DEF Clients
<1>2. \A m \in Requests(Imem) : m \in Message /\ m.origin = Imem /\ m.addr \in Addr
  <2>1. \A a \in Addr : Read(Imem, a) \in Message /\ Read(Imem, a).origin = Imem /\ Read(Imem, a).addr = a
    BY DEF Read, Message, NetWord
  <2>2. Requests(Imem) = {Read(Imem, a) : a \in Addr}
    BY DEF Requests
  <2>. QED  BY <2>1, <2>2
<1>3. \A m \in Requests(Dmem) : m \in Message /\ m.origin = Dmem
  <2>1. \A op \in DataOps : op.addr \in Addr \cup {STDIN, STDOUT}
    BY DataOpsAssumption DEF STDIN, STDOUT
  <2>2. \A op \in DataOps : Write(Dmem, op.addr, 1) \in Message /\ Write(Dmem, op.addr, 1).origin = Dmem
    BY <2>1 DEF Write, Message, NetWord
  <2>3. \A op \in DataOps : Read(Dmem, op.addr) \in Message /\ Read(Dmem, op.addr).origin = Dmem
    BY <2>1 DEF Read, Message, NetWord
  <2>4. Requests(Dmem) = {IF op.write THEN Write(Dmem, op.addr, 1) ELSE Read(Dmem, op.addr) : op \in DataOps}
    BY DEF Requests
  <2>. QED  BY <2>2, <2>3, <2>4
<1>4. want' \in [{Imem, Dmem} -> {None} \cup Message]
  BY <1>1, <1>2, <1>3
<1>5. \A c \in {Imem, Dmem} : want'[c].val => want'[c] \in Requests(c)
  BY <1>1 DEF None
<1>. QED  BY <1>1, <1>2, <1>3, <1>4, <1>5

-----------------------------------------------------------------------------
(* A read finds the last word written before it.                           *)

\* Positions behind the answer, before and after it is taken.
LEMMA Shift ==
  ASSUME NEW r \in Int, NEW r1 \in Int, NEW x \in Int, NEW d \in Int, NEW i \in Int, NEW e \in Int,
         r1 = r + x - d, e = i + d, i >= r1 + 1
  PROVE  /\ e >= r + x + 1
         /\ \A j \in Int : j >= r + x + 1 /\ j <= e - 1 => j - d \in r1 + 1 .. i - 1
         /\ \A j \in Int : j \in r1 + 1 .. i - 1 => j + d >= r + x + 1 /\ j + d <= e - 1
  OBVIOUS

\* v is what a read finds in ad that is e-th in line, or behind all.
Ahead(e, ad, v) ==
  /\ e <= Len(Owing) + 1
  /\ e <= Len(Owing) => ~Owing[e].write
  /\ ValueBefore(e, ad, v)

\* The second stage may write its word before it leaves: nothing in front of it
\* is still to be read.
LEMMA ValueStep ==
  ASSUME NetInv, NEW W_rdy \in BOOLEAN, FPGAMem(W_rdy), Clients(W_rdy),
         NEW i \in Int, NEW d \in Int, NEW e \in Int, e = i + d,
         d = Bit(resp_rdy(Bram, W_rdy)),
         NEW ad \in Addr, NEW v,
         InResp' < i, Ahead(e, ad, v)
  PROVE  ValueBefore(i, ad, v)'
<1>0. PICK r \in Int, r1 \in Int, n \in Int, n1 \in Int, x \in Int, a \in Int, w \in Int, l \in Int :
        /\ r = InResp /\ r1 = InResp' /\ n = Len(Owing) /\ n1 = Len(Owing')
        /\ x = Bit(Xfer(W_rdy)) /\ a = Bit(arb_req(Bram) # {})
        /\ w = InRw /\ l = Len(req_fifo)
  <2>1. /\ InResp \in 0 .. 1 /\ InResp' \in 0 .. 1
        /\ Len(Owing) = InResp + InRw + Len(req_fifo) /\ InRw \in 0 .. 1 /\ InRw' \in 0 .. 1
        /\ Len(Owing') = InResp' + InRw' + Len(req_fifo')
        /\ Len(req_fifo) \in Nat /\ Len(req_fifo') \in Nat
    BY Moves
  <2>2. Bit(Xfer(W_rdy)) \in Int /\ Bit(arb_req(Bram) # {}) \in Int
    BY DEF Bit
  <2>3. InResp \in Int /\ InResp' \in Int /\ Len(Owing) \in Int /\ Len(Owing') \in Int
        /\ InRw \in Int /\ Len(req_fifo) \in Int
    BY <2>1
  <2>. QED  BY <2>2, <2>3
<1>1. /\ r1 = r + x - d
      /\ n1 = n + a - d
      /\ d \in 0 .. r /\ x \in 0 .. w /\ a \in 0 .. 1
      /\ r \in 0 .. 1 /\ w \in 0 .. 1 /\ n \in Nat /\ r + w <= n
  <2>1. /\ r1 = r + x - d
        /\ n1 = n + a - d
        /\ d \in 0 .. r /\ x \in 0 .. w /\ a \in 0 .. 1
        /\ r \in 0 .. 1 /\ w \in 0 .. 1 /\ l \in Nat
        /\ n = r + w + l
    BY <1>0, Moves
  <2>. QED  BY <2>1
<1>1a. w = 1 <=> rw_msg.val
  BY <1>0, Moves
<1>0a. i >= r1 + 1 /\ e <= n + 1
  <2>1. r1 < i
    BY <1>0, Zenon
  <2>2. e <= n + 1
    BY <1>0, Zenon DEF Ahead
  <2>. QED  BY <2>1, <2>2
<1>2. \A j \in r1 + 1 .. i - 1 :
        /\ WritesTo(j, ad)' = WritesTo(j + d, ad)
        /\ Owing'[j].data = Owing[j + d].data
  <2> SUFFICES ASSUME NEW j \in r1 + 1 .. i - 1
               PROVE  Owing'[j] = Owing[j + d]
    BY DEF WritesTo
  <2>1. j \in 1 .. n1 /\ j + d <= n
    BY <1>0a, <1>1
  <2>. QED  BY <1>0, <2>1, OwingMoves
<1>3. mem'[ad] = IF rw_msg.val /\ rw_msg.write /\ rw_msg.addr = ad THEN rw_msg.data ELSE mem[ad]
  <2>1. /\ mem' = IF rw_msg.val /\ rw_msg.write THEN [mem EXCEPT ![rw_msg.addr] = rw_msg.data] ELSE mem
    BY StageStep
  <2>2. mem \in [Addr -> NetWord]
    BY DEF NetInv, NetType
  <2>. QED  BY <2>1, <2>2
<1>4. rw_msg.val => SameRequest(rw_msg, Owing[r + 1])
  <2> SUFFICES ASSUME rw_msg.val PROVE SameRequest(rw_msg, Owing[r + 1])
    OBVIOUS
  <2>1. PICK j \in Int : j = r + 1
    BY <1>1
  <2>2. j # InResp /\ j = InResp + InRw /\ InResp \in Int /\ InRw \in Int /\ j \in 1 .. Len(Owing)
    BY <1>0, <1>1, <1>1a, <2>1
  <2>3. Item(j) = rw_msg
    BY <2>2, ItemAt
  <2>4. SameRequest(Item(j), Owing[j])
    BY <2>2 DEF NetInv, BramHolds
  <2>. QED  BY <2>1, <2>3, <2>4
<1>5. e <= n => ~Owing[e].write
  BY <1>0 DEF Ahead
<1>6. SUFFICES ASSUME ~(/\ mem'[ad] = v
                        /\ \A j \in r1 + 1 .. i - 1 : ~WritesTo(j, ad)')
               PROVE  \E j \in r1 + 1 .. i - 1 :
                        /\ WritesTo(j, ad)' /\ Owing'[j].data = v
                        /\ \A k \in j + 1 .. i - 1 : ~WritesTo(k, ad)'
  BY <1>0 DEF ValueBefore
<1>7. CASE mem[ad] = v /\ \A j \in r + 1 .. e - 1 : ~WritesTo(j, ad)
  <2>1. ~(rw_msg.val /\ rw_msg.write /\ rw_msg.addr = ad)
    <3> SUFFICES ASSUME rw_msg.val, rw_msg.write, rw_msg.addr = ad PROVE FALSE
      OBVIOUS
    <3>1. WritesTo(r + 1, ad) /\ Owing[r + 1].write
      BY <1>4 DEF SameRequest, WritesTo
    <3>2. r + 1 \notin r + 1 .. e - 1
      BY <1>7, <3>1
    <3>3. e = r + 1 /\ e <= n
      <4>1. e - 1 < r + 1
        BY <1>1, <3>2
      <4>2. w = 1 /\ d + r1 >= r
        BY <1>1, <1>1a
      <4>3. e >= r + x + 1
        BY <1>0a, <1>1, Shift
      <4>. QED  BY <1>1, <4>1, <4>2, <4>3
    <3>. QED  BY <1>5, <3>1, <3>3
  <2>2. mem'[ad] = v
    BY <1>3, <1>7, <2>1
  <2>3. ASSUME NEW j \in r1 + 1 .. i - 1 PROVE ~WritesTo(j, ad)'
    <3>1. j + d \in r + 1 .. e - 1
      BY <1>1
    <3>. QED  BY <1>2, <1>7, <3>1
  <2>. QED  BY <1>6, <2>2, <2>3
<1>8. CASE \E j \in r + 1 .. e - 1 :
             /\ WritesTo(j, ad) /\ Owing[j].data = v
             /\ \A k \in j + 1 .. e - 1 : ~WritesTo(k, ad)
  <2>1. PICK j \in r + 1 .. e - 1 :
             /\ WritesTo(j, ad) /\ Owing[j].data = v
             /\ \A k \in j + 1 .. e - 1 : ~WritesTo(k, ad)
    BY <1>8
  <2>2. CASE j >= r + x + 1
    <3>1. PICK m \in Int : m = j - d
      BY <1>1
    <3>2. m \in r1 + 1 .. i - 1 /\ m + d = j
      <4>1. j \in Int /\ j <= e - 1
        BY <1>1, <2>1
      <4>2. j - d \in r1 + 1 .. i - 1
        BY <1>0a, <1>1, <2>2, <4>1, Shift
      <4>. QED  BY <3>1, <4>1, <4>2
    <3>3. WritesTo(m, ad)' /\ Owing'[m].data = v
      BY <1>2, <2>1, <3>2
    <3>4. ASSUME NEW k \in m + 1 .. i - 1 PROVE ~WritesTo(k, ad)'
      <4>1. k + d \in j + 1 .. e - 1 /\ k \in r1 + 1 .. i - 1
        BY <1>1, <3>1, <3>2
      <4>. QED  BY <1>2, <2>1, <4>1
    <3>. QED  BY <3>2, <3>3, <3>4
  <2>3. CASE ~(j >= r + x + 1)
    <3>1. j = r + 1 /\ x = 1 /\ rw_msg.val
      BY <1>1, <1>1a, <2>3
    <3>2. rw_msg.write /\ rw_msg.addr = ad /\ rw_msg.data = v
      BY <1>4, <2>1, <3>1 DEF SameRequest, WritesTo
    <3>3. mem'[ad] = v
      BY <1>3, <3>1, <3>2
    <3>4. ASSUME NEW k \in r1 + 1 .. i - 1 PROVE ~WritesTo(k, ad)'
      <4>1. k + d \in j + 1 .. e - 1
        BY <1>1, <3>1
      <4>. QED  BY <1>2, <2>1, <4>1
    <3>. QED  BY <1>6, <3>3, <3>4
  <2>. QED  BY <2>2, <2>3
<1>9. ValueBefore(e, ad, v)
  BY DEF Ahead
<1>. QED  BY <1>0, <1>7, <1>8, <1>9, Zenon DEF ValueBefore

\* What the block memory holds are messages for it.
LEMMA ItemType ==
  ASSUME NetInv, NEW i \in 1 .. Len(Owing)
  PROVE  Item(i) \in BramMessage
<1>1. PICK r \in Int, w \in Int, l \in Int, j \in Int :
        r = InResp /\ w = InRw /\ l = Len(req_fifo) /\ j = i
  <2>1. InResp \in Int /\ InRw \in Int
    BY DEF InResp, InRw
  <2>2. Len(req_fifo) \in Int
    BY DEF NetInv, NetType
  <2>3. i \in Int
    BY DEF NetInv, NetType, Owing
  <2>. QED  BY <2>1, <2>2, <2>3, Zenon
<1>2. r \in 0 .. 1 /\ w \in 0 .. 1 /\ j \in 1 .. r + w + l
  BY <1>1 DEF InResp, InRw, NetInv, BramHolds
<1>3. /\ resp_msg \in {None} \cup BramMessage /\ rw_msg \in {None} \cup BramMessage
      /\ req_fifo \in Seq(BramMessage)
  BY DEF NetInv, NetType
<1>4. CASE j = r
  <2>1. r = 1 /\ Item(j) = resp_msg
    BY <1>1, <1>2, <1>4, ItemAt
  <2>2. resp_msg.val
    BY <1>1, <2>1 DEF InResp
  <2>. QED  BY <1>1, <1>3, <2>1, <2>2, IsMessage
<1>5. CASE j # r /\ j = r + w
  <2>1. w = 1 /\ Item(j) = rw_msg
    BY <1>1, <1>2, <1>5, ItemAt
  <2>2. rw_msg.val
    BY <1>1, <2>1 DEF InRw
  <2>. QED  BY <1>1, <1>3, <2>1, <2>2, IsMessage
<1>6. CASE j # r /\ j # r + w
  <2>1. PICK k \in Int : k = j - (r + w)
    BY <1>2
  <2>2. k \in 1 .. l /\ j = r + w + k
    BY <1>2, <1>6, <2>1
  <2>3. Item(j) = req_fifo[k]
    BY <1>1, <1>6, <2>2, ItemAt
  <2>. QED  BY <1>1, <1>3, <2>2, <2>3
<1>. QED  BY <1>4, <1>5, <1>6

\* A request that does not write to ad leaves what is found there.
LEMMA ValueKept ==
  ASSUME InResp' \in Int, NEW m \in Int, NEW i \in Int, i = m + 1, NEW ad, NEW v,
         ValueBefore(m, ad, v)', ~WritesTo(m, ad)'
  PROVE  ValueBefore(i, ad, v)'
<1>1. PICK r \in Int : r = InResp'
  OBVIOUS
<1>2. i - 1 = m
  OBVIOUS
<1>3. ASSUME NEW k \in Int, NEW j \in k .. i - 1 PROVE j = m \/ j \in k .. m - 1
  BY <1>2
<1>4. CASE mem'[ad] = v /\ \A j \in r + 1 .. m - 1 : ~WritesTo(j, ad)'
  <2>1. ASSUME NEW j \in r + 1 .. i - 1 PROVE ~WritesTo(j, ad)'
    <3>1. j = m \/ j \in r + 1 .. m - 1
      OBVIOUS
    <3>. QED  BY <1>4, <3>1
  <2>. QED  BY <1>1, <1>4, <2>1, Zenon DEF ValueBefore
<1>5. CASE \E j \in r + 1 .. m - 1 :
             /\ WritesTo(j, ad)' /\ Owing'[j].data = v
             /\ \A k \in j + 1 .. m - 1 : ~WritesTo(k, ad)'
  <2>1. PICK j \in r + 1 .. m - 1 :
             /\ WritesTo(j, ad)' /\ Owing'[j].data = v
             /\ \A k \in j + 1 .. m - 1 : ~WritesTo(k, ad)'
    BY <1>5
  <2>2. ASSUME NEW k \in j + 1 .. i - 1 PROVE ~WritesTo(k, ad)'
    <3>1. k = m \/ k \in j + 1 .. m - 1
      OBVIOUS
    <3>. QED  BY <2>1, <3>1
  <2>3. j \in r + 1 .. i - 1
    OBVIOUS
  <2>. QED  BY <1>1, <2>1, <2>2, <2>3, Zenon DEF ValueBefore
<1>. QED  BY <1>1, <1>4, <1>5, Zenon DEF ValueBefore

\* Reads find what was last written before them, and so will the next one.
LEMMA ValuesStep ==
  ASSUME NetInv, Values, NEW W_rdy \in BOOLEAN, FPGAMem(W_rdy), Clients(W_rdy)
  PROVE  Values' /\ written' \in [Addr -> NetWord]
<1>1. PICK d \in Int, a \in Int, r \in Int, n \in Int, n1 \in Int, r1 \in Int :
        /\ d = Bit(resp_rdy(Bram, W_rdy)) /\ a = Bit(arb_req(Bram) # {})
        /\ r = InResp /\ n = Len(Owing) /\ n1 = Len(Owing') /\ r1 = InResp'
  <2>1. /\ InResp \in 0 .. 1 /\ InResp' \in 0 .. 1
        /\ Len(Owing) = InResp + InRw + Len(req_fifo) /\ InRw \in 0 .. 1 /\ InRw' \in 0 .. 1
        /\ Len(Owing') = InResp' + InRw' + Len(req_fifo')
        /\ Len(req_fifo) \in Nat /\ Len(req_fifo') \in Nat
    BY Moves
  <2>2. Bit(resp_rdy(Bram, W_rdy)) \in Int /\ Bit(arb_req(Bram) # {}) \in Int
    BY DEF Bit
  <2>3. InResp \in Int /\ InResp' \in Int /\ Len(Owing) \in Int /\ Len(Owing') \in Int
    BY <2>1
  <2>. QED  BY <2>2, <2>3
<1>2. /\ n1 = n + a - d
      /\ d \in 0 .. r /\ a \in 0 .. 1 /\ r \in 0 .. 1 /\ n \in Nat /\ r1 \in 0 .. 1
      /\ r1 + d <= n /\ r <= r1 + d /\ n1 \in Nat
  <2>1. PICK x \in Int : x = Bit(Xfer(W_rdy))
    BY DEF Bit
  <2>2. /\ r1 = r + x - d
        /\ n1 = n + a - d
        /\ d \in 0 .. r /\ x \in 0 .. InRw /\ a \in 0 .. 1
        /\ r \in 0 .. 1 /\ InRw \in 0 .. 1 /\ r1 \in 0 .. 1 /\ InRw' \in 0 .. 1
        /\ Len(req_fifo) \in Nat /\ Len(req_fifo') \in Nat
        /\ n = r + InRw + Len(req_fifo) /\ n1 = r1 + InRw' + Len(req_fifo')
    BY <1>1, <2>1, Moves
  <2>. QED  BY <2>2
<1>3. \A i \in 1 .. n1 : /\ i + d <= n => Owing'[i] = Owing[i + d]
                         /\ i + d > n => arb_req(Bram) # {} /\ Owing'[i] = Owed(Bram)
  BY <1>1, OwingMoves
<1>4. /\ \A i \in r + 1 .. n : ~Owing[i].write => ValueBefore(i, Owing[i].addr, Owing[i].data)
      /\ \A ad \in Addr : ValueBefore(n + 1, ad, written[ad])
  BY <1>1 DEF Values
<1>5. arb_req(Bram) # {} =>
        /\ Owed(Bram).addr = sent(Bram).addr /\ Owed(Bram).write = sent(Bram).write
        /\ Owed(Bram).data = IF sent(Bram).write THEN sent(Bram).data ELSE written[sent(Bram).addr]
        /\ sent(Bram).addr \in Addr /\ sent(Bram).data \in NetWord
  <2> SUFFICES ASSUME arb_req(Bram) # {}
               PROVE  /\ Owed(Bram).addr = sent(Bram).addr /\ Owed(Bram).write = sent(Bram).write
                      /\ Owed(Bram).data = IF sent(Bram).write THEN sent(Bram).data ELSE written[sent(Bram).addr]
                      /\ sent(Bram).addr \in Addr /\ sent(Bram).data \in NetWord
    OBVIOUS
  <2>1. sent(Bram) \in BramMessage
    BY Sent DEF NetInv
  <2>2. /\ Owed(Bram).addr = sent(Bram).addr /\ Owed(Bram).write = sent(Bram).write
        /\ Owed(Bram).data = IF sent(Bram).write \/ Bram = Peripheral THEN sent(Bram).data
                             ELSE written[sent(Bram).addr]
    BY OwedIs DEF NetInv
  <2>. QED  BY <2>1, <2>2 DEF BramMessage
<1>6. written' = IF arb_req(Bram) # {} /\ sent(Bram).write
                   THEN [written EXCEPT ![sent(Bram).addr] = sent(Bram).data] ELSE written
  BY TakesAll DEF Clients
<1>7. written \in [Addr -> NetWord]
  BY DEF NetInv, NetType
<1>8. written' \in [Addr -> NetWord]
  BY <1>5, <1>6, <1>7
<1>9. ASSUME NEW ad \in Addr, NEW i \in Int, i + d = n + 1, NEW v, v = written[ad]
      PROVE  ValueBefore(i, ad, v)'
  <2>1. PICK e \in Int : e = n + 1
    BY <1>2
  <2>2. e = i + d /\ r1 < i
    BY <1>2, <1>9, <2>1
  <2>3. e <= n + 1 /\ ~(e <= n)
    BY <1>2, <2>1
  <2>4. ValueBefore(e, ad, v)
    BY <1>4, <1>9, <2>1
  <2>5. Ahead(e, ad, v)
    BY <1>1, <2>3, <2>4 DEF Ahead
  <2>. QED  BY <1>1, <2>2, <2>5, ValueStep
<1>10. ASSUME NEW i \in Int, i \in r1 + 1 .. n1, ~Owing'[i].write,
              NEW ad, NEW v, ad = Owing'[i].addr, v = Owing'[i].data
       PROVE  ValueBefore(i, ad, v)'
  <2>1. PICK e \in Int : e = i + d
    BY <1>2
  <2>2. i \in 1 .. n1 /\ r1 < i /\ e <= n + 1 /\ e >= r + 1
    BY <1>2, <1>10, <2>1
  <2>3. CASE e <= n
    <3>1. Owing'[i] = Owing[e]
      BY <1>3, <2>1, <2>2, <2>3
    <3>2. e \in r + 1 .. n
      BY <1>2, <2>2, <2>3
    <3>3. ValueBefore(e, ad, v) /\ ~Owing[e].write
      BY <1>4, <1>10, <3>1, <3>2
    <3>4. ad \in Addr
      <4>1. e \in 1 .. Len(Owing) /\ e # InResp
        BY <1>1, <1>2, <3>2
      <4>2. SameRequest(Item(e), Owing[e])
        BY <4>1 DEF NetInv, BramHolds
      <4>3. Item(e) \in BramMessage
        BY <4>1, ItemType
      <4>. QED  BY <1>10, <3>1, <4>2, <4>3 DEF SameRequest, BramMessage
    <3>5. Ahead(e, ad, v)
      BY <1>1, <2>2, <2>3, <3>3 DEF Ahead
    <3>. QED  BY <1>1, <2>1, <2>2, <3>4, <3>5, ValueStep
  <2>4. CASE ~(e <= n)
    <3>1. arb_req(Bram) # {} /\ Owing'[i] = Owed(Bram) /\ i + d = n + 1
      BY <1>2, <1>3, <2>1, <2>2, <2>4
    <3>2. ad \in Addr /\ v = written[ad]
      BY <1>5, <1>10, <3>1
    <3>. QED  BY <1>9, <2>2, <3>1, <3>2
  <2>. QED  BY <2>3, <2>4
<1>11. ASSUME NEW ad \in Addr, NEW v, v = written'[ad], NEW i \in Int, i = n1 + 1
       PROVE  ValueBefore(i, ad, v)'
  <2>1. CASE arb_req(Bram) = {}
    <3>1. a = 0 /\ v = written[ad]
      BY <1>1, <1>6, <1>11, <2>1 DEF Bit
    <3>2. i + d = n + 1
      BY <1>2, <1>11, <3>1
    <3>. QED  BY <1>9, <3>1, <3>2
  <2>2. CASE arb_req(Bram) # {}
    <3>1. a = 1
      BY <1>1, <2>2 DEF Bit
    <3>2. /\ n1 + d = n + 1 /\ n1 \in 1 .. n1 /\ n1 \in r1 + 1 .. i - 1
          /\ n1 + 1 .. i - 1 = {} /\ ~(n1 + d <= n) /\ n1 + d > n
      BY <1>2, <1>11, <3>1
    <3>3. Owing'[n1] = Owed(Bram)
      BY <1>3, <3>2
    <3>4. CASE sent(Bram).write /\ sent(Bram).addr = ad
      <4>1. v = sent(Bram).data
        BY <1>6, <1>7, <1>11, <2>2, <3>4
      <4>2. WritesTo(n1, ad)' /\ Owing'[n1].data = v
        BY <1>5, <2>2, <3>3, <3>4, <4>1 DEF WritesTo
      <4>. QED  BY <1>1, <3>2, <4>2 DEF ValueBefore
    <3>5. CASE ~(sent(Bram).write /\ sent(Bram).addr = ad)
      <4>1. v = written[ad]
        BY <1>6, <1>7, <1>11, <3>5
      <4>2. ~WritesTo(n1, ad)'
        BY <1>5, <2>2, <3>3, <3>5 DEF WritesTo
      <4>3. ValueBefore(n1, ad, v)'
        BY <1>2, <1>9, <3>2, <4>1
      <4>. QED  BY <1>1, <1>2, <1>11, <4>2, <4>3, ValueKept
    <3>. QED  BY <3>4, <3>5
  <2>. QED  BY <2>1, <2>2
<1>12. ASSUME NEW i \in InResp' + 1 .. Len(Owing'), ~Owing'[i].write
       PROVE  ValueBefore(i, Owing[i].addr, Owing[i].data)'
  <2>1. i \in Int /\ i \in r1 + 1 .. n1
    <3>1. i \in r1 + 1 .. n1
      BY <1>1, Zenon
    <3>. QED  BY <3>1
  <2>2. PICK ad, v : ad = Owing'[i].addr /\ v = Owing'[i].data
    OBVIOUS
  <2>3. ValueBefore(i, ad, v)'
    BY <1>10, <1>12, <2>1, <2>2
  <2>. QED  BY <2>2, <2>3 DEF ValueBefore
<1>13. ASSUME NEW ad \in Addr
       PROVE  ValueBefore(Len(Owing) + 1, ad, written[ad])'
  <2>1. PICK i \in Int : i = n1 + 1
    BY <1>2
  <2>2. PICK v : v = written'[ad]
    OBVIOUS
  <2>3. ValueBefore(i, ad, v)'
    BY <1>11, <2>1, <2>2
  <2>. QED  BY <1>1, <2>1, <2>2, <2>3 DEF ValueBefore
<1>. QED  BY <1>8, <1>12, <1>13, Zenon DEF Values

-----------------------------------------------------------------------------
(* The loader.                                                             *)

\* Min of two numbers.
LEMMA LesserOfTwo ==
  ASSUME NEW m \in Int, NEW n \in Int
  PROVE  Min({m, n}) = IF m <= n THEN m ELSE n
  BY DEF Min

\* The counters of the bounds.
LEMMA GapStep ==
  ASSUME NetType, NEW W_rdy \in BOOLEAN, NEW word, Bounds(W_rdy, word)
  PROVE  /\ spi_gap' \in 1 .. SpiGap
         /\ word # << >> => spi_gap = SpiGap /\ spi_gap' = 1
         /\ word = << >> => spi_gap' = IF spi_gap = SpiGap THEN SpiGap ELSE spi_gap + 1
         /\ spi_gap' <= spi_gap + 1
         /\ spi_gap \in 1 .. SpiGap
         /\ stall' \in 0 .. MaxStall
<1>1. spi_gap \in 1 .. SpiGap /\ stall \in 0 .. MaxStall /\ SpiGap \in Nat /\ MaxStall \in Nat
  BY SpiGapAssumption, ClientsAssumption DEF NetType
<1>2. Min({spi_gap + 1, SpiGap}) = IF spi_gap + 1 <= SpiGap THEN spi_gap + 1 ELSE SpiGap
  BY <1>1, LesserOfTwo
<1>3. /\ word # << >> => spi_gap = SpiGap /\ spi_gap' = 1
      /\ word = << >> => spi_gap' = IF spi_gap + 1 <= SpiGap THEN spi_gap + 1 ELSE SpiGap
  BY <1>2 DEF Bounds
<1>4. stall' \in 0 .. MaxStall
  BY <1>1 DEF Bounds
<1>. QED  BY <1>1, <1>3, <1>4

\* The queue grows where an answer is kept waiting, and by the first request.
LEMMA BacklogStep ==
  ASSUME NetInv, Backlog, NEW W_rdy \in BOOLEAN, FPGAMem(W_rdy), Clients(W_rdy), History(W_rdy)
  PROVE  kept' \in 0 .. FifoDepth /\ Backlog'
<1> DEFINE d == Bit(resp_rdy(Bram, W_rdy))
           x == Bit(Xfer(W_rdy))
           p == Bit(fifo_pop(W_rdy))
           a == Bit(arb_req(Bram) # {})
           waits == resp_msg.val /\ ~resp_rdy(Bram, W_rdy)
<1>1. /\ Len(req_fifo') = Len(req_fifo) + a - p
      /\ d \in 0 .. InResp /\ x \in 0 .. InRw /\ p \in 0 .. 1 /\ a \in 0 .. 1
      /\ InResp \in 0 .. 1 /\ InRw \in 0 .. 1
      /\ Len(req_fifo) \in Nat /\ Len(req_fifo') \in Nat
      /\ p = 1 <=> (x = InRw /\ Len(req_fifo) >= 1)
      /\ x = 1 <=> (InRw = 1 /\ d = InResp)
      /\ InResp = 1 <=> resp_msg.val
  BY Moves
<1>2. req_fifo' \in Seq(BramMessage) /\ Len(req_fifo') <= FifoDepth
  BY QueueStep
<1>3. kept \in 0 .. FifoDepth /\ FifoDepth \in Nat /\ Len(req_fifo) <= kept + 1
  BY FifoDepthAssumption DEF NetInv, NetType, Backlog
<1>4. Min({kept + 1, FifoDepth}) = IF kept + 1 <= FifoDepth THEN kept + 1 ELSE FifoDepth
  BY <1>3, LesserOfTwo
<1>5. kept' = IF req_fifo' = << >> THEN 0
              ELSE IF waits THEN IF kept + 1 <= FifoDepth THEN kept + 1 ELSE FifoDepth
              ELSE kept
  BY <1>4 DEF History
<1>6. ~waits => d = InResp
  BY <1>1 DEF Bit
<1> HIDE DEF d, x, p, a, waits
<1>7. kept' \in 0 .. FifoDepth
  BY <1>3, <1>5
<1>8. CASE req_fifo' = << >>
  BY <1>5, <1>7, <1>8 DEF Backlog
<1>9. CASE req_fifo' # << >> /\ waits
  BY <1>1, <1>2, <1>3, <1>5, <1>9 DEF Backlog
<1>10. CASE req_fifo' # << >> /\ ~waits
  <2>1. d = InResp /\ x = InRw
    BY <1>1, <1>6, <1>10
  <2>2. Len(req_fifo') <= Len(req_fifo) \/ Len(req_fifo') <= 1
    BY <1>1, <2>1
  <2>. QED  BY <1>1, <1>3, <1>5, <1>10, <2>2 DEF Backlog
<1>. QED  BY <1>7, <1>8, <1>9, <1>10

\* The loader writes words to addresses of the block memory.
LEMMA SpiType ==
  ASSUME NetType, SpiTurn, NEW W_rdy \in BOOLEAN, NEW word \in Words, SPIMemClient(word, W_rdy)
  PROVE  /\ spi_state' \in {"WAIT_ADDR", "WAIT_DATA", "WAIT_MEM", "SET_GO"}
         /\ spi_state' \in {"WAIT_DATA", "WAIT_MEM"} => addr' \in Addr \cup {GO_ADDR}
         /\ spi_state' = "WAIT_MEM" => addr' \in Addr /\ data' \in NetWord
         /\ go' \in BOOLEAN
<1>1. /\ spi_state \in {"WAIT_ADDR", "WAIT_DATA", "WAIT_MEM", "SET_GO"}
      /\ spi_state \in {"WAIT_DATA", "WAIT_MEM"} => addr \in Addr \cup {GO_ADDR}
      /\ spi_state = "WAIT_MEM" => addr \in Addr /\ data \in NetWord
      /\ go \in BOOLEAN
  BY DEF NetType
<1>2. /\ addr' = IF spi_state = "WAIT_ADDR" /\ word # << >> THEN word[1] ELSE addr
      /\ data' = IF spi_state = "WAIT_DATA" /\ word # << >> THEN word[1] ELSE data
      /\ go' = IF spi_state = "SET_GO" THEN data = 1 ELSE go
  BY DEF SPIMemClient
<1>3. word # << >> => word \in IF spi_state = "WAIT_ADDR" THEN {<<w>> : w \in Addr \cup {GO_ADDR}}
                       ELSE {<<w>> : w \in IF addr = GO_ADDR THEN {0, 1} ELSE {0}}
  BY DEF Words
<1>4. word # << >> /\ spi_state = "WAIT_ADDR" => word[1] \in Addr \cup {GO_ADDR}
  BY <1>3
<1>5. word # << >> /\ spi_state = "WAIT_DATA" /\ addr # GO_ADDR => word[1] \in NetWord
  BY <1>3 DEF NetWord
<1>6. CASE spi_state = "WAIT_ADDR"
  <2>1. spi_state' = IF word # << >> THEN "WAIT_DATA" ELSE "WAIT_ADDR"
    BY <1>6 DEF SPIMemClient
  <2>. QED  BY <1>1, <1>2, <1>4, <1>6, <2>1
<1>7. CASE spi_state = "WAIT_DATA"
  <2>1. spi_state' = IF word # << >> THEN IF addr = GO_ADDR THEN "SET_GO" ELSE "WAIT_MEM"
                     ELSE "WAIT_DATA"
    BY <1>7 DEF SPIMemClient
  <2>. QED  BY <1>1, <1>2, <1>5, <1>7, <2>1
<1>8. CASE spi_state = "WAIT_MEM"
  <2>1. spi_state' = IF req_rdy(Spi, W_rdy) THEN "WAIT_ADDR" ELSE "WAIT_MEM"
    BY <1>8 DEF SPIMemClient
  <2>. QED  BY <1>1, <1>2, <1>8, <2>1
<1>9. CASE spi_state = "SET_GO"
  <2>1. spi_state' = "WAIT_ADDR"
    BY <1>9 DEF SPIMemClient
  <2>. QED  BY <1>1, <1>2, <1>9, <2>1
<1>. QED  BY <1>1, <1>6, <1>7, <1>8, <1>9

\* The arbiter of the block memory goes round.
LEMMA FilterStep ==
  ASSUME NetInv, NEW W_rdy \in BOOLEAN, Crossbar(W_rdy),
         req_filter[Bram] \in {{}, {Spi}, {Dmem, Spi}}
  PROVE  /\ req_filter'[Bram] \in {{}, {Spi}, {Dmem, Spi}}
         /\ arb_req(Bram) # {} =>
              req_filter'[Bram] = {i \in Client : i > sent(Bram).origin}
<1>1. req_filter'[Bram] = NextFilter(req_filter[Bram], arb_req(Bram), server_rdy(Bram, W_rdy), Client)
  BY DEF Crossbar
<1>2. CASE arb_req(Bram) = {}
  <2>1. gnt(req_filter[Bram], arb_req(Bram)) = {}
    BY <1>2 DEF gnt
  <2>. QED  BY <1>1, <1>2, <2>1 DEF NextFilter
<1>3. CASE arb_req(Bram) # {}
  <2>1. server_rdy(Bram, W_rdy)
    BY <1>3, TakesAll DEF Takes
  <2>2. gnt(req_filter[Bram], arb_req(Bram)) = {sent(Bram).origin} /\ sent(Bram).origin \in Client
    BY <1>3, Sent DEF NetInv, req_gnt, arb_req
  <2>3. req_filter'[Bram] = {i \in Client : i > sent(Bram).origin}
    BY <1>1, <2>1, <2>2 DEF NextFilter
  <2>4. \A g \in Client : {i \in Client : i > g} \in {{}, {Spi}, {Dmem, Spi}}
    <3>1. {i \in Client : i > 0} = {Dmem, Spi} /\ {i \in Client : i > 1} = {Spi} /\ {i \in Client : i > 2} = {}
      OBVIOUS
    <3>. QED  BY <3>1
  <2>. QED  BY <1>3, <2>2, <2>3, <2>4
<1>. QED  BY <1>2, <1>3

\* With each cycle the turn of the loader comes nearer: the arbiter grants some
\* request, and those it may grant before the loader become fewer.
LEMMA TurnStep ==
  ASSUME NetInv, SpiTurn, NEW W_rdy \in BOOLEAN, NEW word \in Words,
         Crossbar(W_rdy), SPIMemClient(word, W_rdy), Bounds(W_rdy, word)
  PROVE  SpiTurn'
<1>1. req_filter[Bram] \in {{}, {Spi}, {Dmem, Spi}}
  BY DEF SpiTurn
<1>2. req_filter'[Bram] \in {{}, {Spi}, {Dmem, Spi}}
  BY <1>1, FilterStep
<1>3. Turn \in 1 .. 3 /\ Turn' \in 1 .. 3
  BY DEF Turn
<1>4. /\ spi_gap' \in 1 .. SpiGap
      /\ word # << >> => spi_gap = SpiGap /\ spi_gap' = 1
      /\ spi_gap' <= spi_gap + 1
      /\ spi_gap \in 1 .. SpiGap
  BY GapStep DEF NetInv
<1>4a. PICK t \in Int, t1 \in Int, h \in Int, h1 \in Int :
        t = Turn /\ t1 = Turn' /\ h = spi_gap /\ h1 = spi_gap'
  <2>1. SpiGap \in Int
    BY SpiGapAssumption
  <2>. QED  BY <1>3, <1>4, <2>1
<1>4b. t \in 1 .. 3 /\ t1 \in 1 .. 3 /\ h1 <= h + 1
  BY <1>3, <1>4, <1>4a
<1>5. spi_state \in {"WAIT_ADDR", "WAIT_DATA", "WAIT_MEM", "SET_GO"}
  BY DEF NetInv, NetType
<1>6. spi_state' = "SET_GO" => spi_gap' = 1
  BY <1>4, <1>5 DEF SPIMemClient
<1>7. ASSUME spi_state' = "WAIT_MEM" PROVE spi_gap' + Turn' <= 4
  <2>1. CASE spi_state = "WAIT_DATA"
    <3>1. word # << >>
      BY <1>7, <2>1 DEF SPIMemClient
    <3>2. h1 = 1
      BY <1>4, <1>4a, <3>1
    <3>3. h1 + t1 <= 4
      BY <1>4b, <3>2
    <3>. QED  BY <1>4a, <3>3
  <2>2. CASE spi_state = "WAIT_MEM"
    <3>1. ~req_rdy(Spi, W_rdy) /\ spi_gap + Turn <= 4
      BY <1>7, <2>2 DEF SPIMemClient, SpiTurn
    <3>2. Spi \in arb_req(Bram)
      <4>1. addr \in Addr
        BY <2>2 DEF NetInv, NetType
      <4>. QED  BY <2>2, <4>1, AddrAssumption DEF arb_req, req_val, route, req_msg, Write, STDIN, STDOUT
    <3> DEFINE g == sent(Bram).origin
    <3>3. /\ g \in Client /\ req_gnt(Bram) = {g}
          /\ Granted1(req_filter[Bram], arb_req(Bram), g)
      BY <3>2, Sent DEF NetInv, arb_req
    <3>4. server_rdy(Bram, W_rdy)
      BY <3>2, TakesAll DEF Takes
    <3>5. g # Spi
      BY <3>1, <3>3, <3>4 DEF req_rdy
    <3>6. req_filter'[Bram] = {i \in Client : i > g}
      BY <1>1, <3>2, FilterStep
    <3> HIDE DEF g
    <3>7. g = 0 \/ g = 1
      BY <3>3, <3>5
    <3>8. /\ g = 0 => req_filter'[Bram] = {Dmem, Spi}
          /\ g = 1 => req_filter'[Bram] = {Spi}
      BY <3>6
    <3>9. /\ req_filter[Bram] = {} \/ (req_filter[Bram] = {Dmem, Spi} /\ g = 1)
      BY <1>1, <3>2, <3>3, <3>7 DEF Granted1
    <3>10. Turn' <= Turn - 1
      BY <3>7, <3>8, <3>9 DEF Turn
    <3>11. h + t <= 4 /\ t1 <= t - 1
      BY <1>4a, <3>1, <3>10
    <3>12. h1 + t1 <= 4
      BY <1>4b, <3>11
    <3>. QED  BY <1>4a, <3>12
  <2>3. spi_state = "WAIT_DATA" \/ spi_state = "WAIT_MEM"
    BY <1>5, <1>7 DEF SPIMemClient
  <2>. QED  BY <2>1, <2>2, <2>3
<1>. QED  BY <1>2, <1>6, <1>7 DEF SpiTurn

-----------------------------------------------------------------------------
(* The invariant.                                                          *)

\* A filter is a set of wires.
LEMMA FilterType ==
  ASSUME NEW S, NEW filter \in SUBSET S, NEW req, NEW en
  PROVE  NextFilter(filter, req, en, S) \in SUBSET S
  BY DEF NextFilter

\* Every edge keeps the types.
LEMMA NetTypeStep ==
  ASSUME NetInv, Values, SpiTurn, Backlog, NEW W_rdy \in BOOLEAN, NEW key \in BOOLEAN,
         NEW word \in Words, Cycle(W_rdy, key, word)
  PROVE  NetType'
<1>1. /\ Bounds(W_rdy, word) /\ Crossbar(W_rdy) /\ FPGAMem(W_rdy) /\ PeripheralMemServer(W_rdy, key)
      /\ SPIMemClient(word, W_rdy) /\ Clients(W_rdy) /\ History(W_rdy)
  BY DEF Cycle
<1>2. NetType
  BY DEF NetInv
<1>3. /\ want' \in [{Imem, Dmem} -> {None} \cup Message]
      /\ \A c \in {Imem, Dmem} : want'[c].val => want'[c].origin = c
      /\ want'[Imem].val => want'[Imem].addr \in Addr
  BY <1>1, WantStep
<1>4. req_filter' \in [Server -> SUBSET Client] /\ resp_filter' \in [Client -> SUBSET Server]
  <2>1. /\ \A s \in Server : req_filter[s] \in SUBSET Client
        /\ \A c \in Client : resp_filter[c] \in SUBSET Server
    BY <1>2 DEF NetType
  <2>2. /\ req_filter' = [s \in Server |-> NextFilter(req_filter[s], arb_req(s), server_rdy(s, W_rdy), Client)]
        /\ resp_filter' = [c \in Client |-> NextFilter(resp_filter[c], arb_resp(c), client_rdy(c, W_rdy), Server)]
    BY <1>1 DEF Crossbar
  <2>3. \A s \in Server : NextFilter(req_filter[s], arb_req(s), server_rdy(s, W_rdy), Client) \in SUBSET Client
    BY <2>1, FilterType
  <2>4. \A c \in Client : NextFilter(resp_filter[c], arb_resp(c), client_rdy(c, W_rdy), Server) \in SUBSET Server
    BY <2>1, FilterType
  <2>. QED  BY <2>2, <2>3, <2>4, Zenon
<1>5. req_fifo' \in Seq(BramMessage) /\ Len(req_fifo') <= FifoDepth
  BY <1>1, QueueStep
<1>6. rw_msg' \in {None} \cup BramMessage /\ resp_msg' \in {None} \cup BramMessage /\ mem' \in [Addr -> NetWord]
  BY <1>1, StageStep
<1>7. written' \in [Addr -> NetWord]
  BY <1>1, ValuesStep
<1>8. /\ curr_state' \in {"IDLE", "OPERATE", "RESP"}
      /\ curr_msg' \in {None} \cup Message
      /\ curr_state' # "IDLE" => curr_msg'.val /\ curr_msg'.origin = Dmem
  BY <1>1, PeripheralStep
<1>9. /\ spi_state' \in {"WAIT_ADDR", "WAIT_DATA", "WAIT_MEM", "SET_GO"}
      /\ spi_state' \in {"WAIT_DATA", "WAIT_MEM"} => addr' \in Addr \cup {GO_ADDR}
      /\ spi_state' = "WAIT_MEM" => addr' \in Addr /\ data' \in NetWord
      /\ go' \in BOOLEAN
  BY <1>1, <1>2, SpiType
<1>10. outstanding' \in [Server -> Seq(Message)]
  <2>1. \A s \in Server : outstanding'[s] \in Seq(Message)
    BY <1>1, OwingStep
  <2>2. outstanding' = [s \in Server |-> outstanding'[s]]
    BY <1>1 DEF Clients
  <2>. QED  BY <2>1, <2>2, Zenon
<1>11. stall' \in 0 .. MaxStall /\ spi_gap' \in 1 .. SpiGap
  BY <1>1, <1>2, GapStep
<1>12. kept' \in 0 .. FifoDepth
  BY <1>1, BacklogStep
<1>. QED  BY <1>3, <1>4, <1>5, <1>6, <1>7, <1>8, <1>9, <1>10, <1>11, <1>12, Zenon DEF NetType

\* Every edge keeps the invariant while pushes find room.
LEMMA NetStep ==
  ASSUME NetIsRight, PushesFindRoom, Next
  PROVE  NetIsRight'
<1>1. NetInv /\ Values /\ SpiTurn /\ Backlog
  BY DEF NetIsRight, NetInv
<1>2. PICK W_rdy \in BOOLEAN, key \in BOOLEAN, word \in Words : Cycle(W_rdy, key, word)
  BY DEF Next
<1>3. /\ Bounds(W_rdy, word) /\ Crossbar(W_rdy) /\ FPGAMem(W_rdy) /\ PeripheralMemServer(W_rdy, key)
      /\ SPIMemClient(word, W_rdy) /\ Clients(W_rdy) /\ History(W_rdy)
  BY <1>2 DEF Cycle
<1>4. NetType'
  BY <1>1, <1>2, NetTypeStep
<1>5. BramHolds'
  BY <1>1, <1>3, BramHoldsStep
<1>6. PeripheralHolds'
  BY <1>1, <1>3, PeripheralStep
<1>7. Values'
  BY <1>1, <1>3, ValuesStep
<1>8. SpiTurn'
  BY <1>1, <1>3, TurnStep
<1>9. Backlog'
  BY <1>1, <1>3, BacklogStep
<1>. QED  BY <1>4, <1>5, <1>6, <1>7, <1>8, <1>9 DEF NetIsRight

\* Nor does a step of others break it.
LEMMA NetStutter ==
  ASSUME NetIsRight, UNCHANGED vars
  PROVE  NetIsRight'
<1>1. /\ UNCHANGED <<want, req_filter, resp_filter, req_fifo, rw_msg, resp_msg, mem, kept>>
      /\ UNCHANGED <<curr_state, curr_msg, spi_state, addr, data, go, outstanding, written, stall, spi_gap>>
  BY DEF vars, netVars, bramVars, periVars, spiVars
<1>2. Owing' = Owing /\ InResp' = InResp /\ InRw' = InRw
  BY <1>1 DEF Owing, InResp, InRw
<1>3. NetType' /\ PeripheralHolds' /\ Backlog'
  BY <1>1 DEF NetIsRight, NetType, PeripheralHolds, Backlog
<1>4. BramHolds'
  BY <1>1, <1>2 DEF NetIsRight, BramHolds, Item
<1>5. Values'
  BY <1>1, <1>2 DEF NetIsRight, Values, ValueBefore, WritesTo
<1>6. SpiTurn'
  BY <1>1 DEF NetIsRight, SpiTurn, Turn
<1>. QED  BY <1>3, <1>4, <1>5, <1>6 DEF NetIsRight

\* Every edge that does not end in an overrun finds room, or pushes nothing.
LEMMA OverrunStep ==
  ASSUME IInv, [Next]_vars
  PROVE  /\ overrun' \in BOOLEAN
         /\ ~overrun' => ~overrun /\ (PushesFindRoom \/ UNCHANGED vars)
         /\ overrun' => overrun \/ FifoDepth <= Len(req_fifo)
<1>1. CASE Next
  <2>1. PICK W_rdy \in BOOLEAN : History(W_rdy)
    BY <1>1 DEF Next, Cycle
  <2> DEFINE full == Len(req_fifo) >= FifoDepth
  <2>2. overrun' \in BOOLEAN /\ (overrun' <=> overrun \/ (arb_req(Bram) # {} /\ full))
    BY <2>1 DEF History
  <2>3. ~overrun => Len(req_fifo) \in Nat /\ FifoDepth \in Nat
    BY FifoDepthAssumption DEF IInv, NetIsRight, NetType
  <2>4. ~overrun => (full <=> FifoDepth <= Len(req_fifo)) /\ (~full <=> Len(req_fifo) < FifoDepth)
    BY <2>3
  <2> HIDE DEF full
  <2>. QED  BY <2>2, <2>4, Zenon DEF PushesFindRoom
<1>2. CASE UNCHANGED vars
  BY <1>2 DEF IInv, vars
<1>. QED  BY <1>1, <1>2

\* Every edge keeps the invariant.
LEMMA IInvStep ==
  ASSUME IInv, [Next]_vars
  PROVE  IInv'
<1> SUFFICES ASSUME ~overrun' PROVE NetIsRight'
  BY OverrunStep DEF IInv
<1>1. ~overrun /\ (PushesFindRoom \/ UNCHANGED vars)
  BY OverrunStep
<1>2. NetIsRight
  BY <1>1 DEF IInv
<1>3. CASE PushesFindRoom /\ Next
  BY <1>2, <1>3, NetStep
<1>4. CASE UNCHANGED vars
  BY <1>2, <1>4, NetStutter
<1>. QED  BY <1>1, <1>3, <1>4

\* At first nothing is under way.
LEMMA NetInit ==
  ASSUME Init
  PROVE  IInv
<1>1. SpiGap \in Nat /\ SpiGap >= 4 /\ MaxStall \in Nat /\ FifoDepth \in Nat
  BY SpiGapAssumption, ClientsAssumption, FifoDepthAssumption
<1>2. /\ Owing = << >> /\ Len(Owing) = 0 /\ InResp = 0 /\ InRw = 0
      /\ outstanding[Peripheral] = << >> /\ Len(req_fifo) = 0
  BY DEF Init, Owing, InResp, InRw, None
<1>3. NetType
  BY <1>1 DEF Init, NetType, None, NetWord, GO_ADDR
<1>4. BramHolds /\ PeripheralHolds
  BY <1>2 DEF Init, BramHolds, PeripheralHolds, None
<1>5. Values
  <2>1. InResp + 1 .. Len(Owing) = {} /\ InResp + 1 .. (Len(Owing) + 1) - 1 = {}
    BY <1>2
  <2>2. \A a \in Addr : mem[a] = written[a]
    BY DEF Init
  <2>. QED  BY <2>1, <2>2, Zenon DEF Values, ValueBefore
<1>6. SpiTurn
  BY DEF Init, SpiTurn
<1>7. Backlog /\ overrun \in BOOLEAN
  BY <1>2 DEF Init, Backlog
<1>. QED  BY <1>3, <1>4, <1>5, <1>6, <1>7 DEF IInv, NetIsRight

\* The messages between the ports are those in the stages and in the queue.
LEMMA PathIs ==
  ASSUME NetType, BramHolds
  PROVE  /\ Len(Path(Bram)) = Len(Owing) /\ DOMAIN Path(Bram) = 1 .. Len(Owing)
         /\ \A i \in 1 .. Len(Owing) : Path(Bram)[i] = Item(i)
<1> DEFINE valid(m) == IF m.val THEN <<m>> ELSE << >>
<1>1. Path(Bram) = valid(resp_msg) \o valid(rw_msg) \o req_fifo
  BY DEF Path
<1>2. PICK r \in Int, w \in Int, l \in Int :
        r = InResp /\ w = InRw /\ l = Len(req_fifo) /\ l \in Nat /\ r \in 0 .. 1 /\ w \in 0 .. 1
        /\ Len(Owing) = r + w + l
  <2>1. InResp \in 0 .. 1 /\ InRw \in 0 .. 1
    BY DEF InResp, InRw
  <2>2. Len(req_fifo) \in Nat
    BY DEF NetType
  <2>. QED  BY <2>1, <2>2 DEF BramHolds
<1>3. valid(resp_msg) \in Seq(BramMessage) /\ valid(rw_msg) \in Seq(BramMessage) /\ req_fifo \in Seq(BramMessage)
  BY IsMessage DEF NetType
<1>4. /\ Len(valid(resp_msg)) = r /\ (r = 1 => valid(resp_msg)[1] = resp_msg)
      /\ Len(valid(rw_msg)) = w /\ (w = 1 => valid(rw_msg)[1] = rw_msg)
  BY <1>2 DEF InResp, InRw
<1> HIDE DEF valid
<1> DEFINE stages == valid(resp_msg) \o valid(rw_msg)
<1>5. /\ stages \in Seq(BramMessage) /\ Len(stages) = r + w
      /\ \A j \in 1 .. r + w :
           stages[j] = IF j <= r THEN valid(resp_msg)[j] ELSE valid(rw_msg)[j - r]
  BY <1>3, <1>4, ConcatProperties
<1>6. Path(Bram) = stages \o req_fifo
  BY <1>1
<1> HIDE DEF stages
<1>7. /\ Path(Bram) \in Seq(BramMessage) /\ Len(Path(Bram)) = r + w + l
      /\ \A j \in 1 .. r + w + l :
           Path(Bram)[j] = IF j <= r + w THEN stages[j] ELSE req_fifo[j - (r + w)]
  <2>1. /\ stages \o req_fifo \in Seq(BramMessage)
        /\ Len(stages \o req_fifo) = Len(stages) + Len(req_fifo)
        /\ \A j \in 1 .. Len(stages) + Len(req_fifo) :
             (stages \o req_fifo)[j] =
               IF j <= Len(stages) THEN stages[j] ELSE req_fifo[j - Len(stages)]
    BY <1>3, <1>5, ConcatProperties
  <2>2. Len(stages) = r + w /\ Len(req_fifo) = l
    BY <1>2, <1>5
  <2>. QED  BY <1>6, <2>1, <2>2, Zenon
<1>8. ASSUME NEW j \in Int, j \in 1 .. r + w + l PROVE Path(Bram)[j] = Item(j)
  <2>1. CASE j = r
    <3>1. r = 1 /\ j = 1 /\ j \in 1 .. r + w /\ j <= r + w /\ j <= r
      BY <1>2, <1>8, <2>1
    <3>2. Path(Bram)[j] = valid(resp_msg)[1]
      BY <1>5, <1>7, <1>8, <3>1
    <3>. QED  BY <1>2, <1>4, <2>1, <3>1, <3>2, ItemAt
  <2>2. CASE j # r /\ j = r + w
    <3>1. w = 1 /\ j - r = 1 /\ j \in 1 .. r + w /\ j <= r + w /\ ~(j <= r)
      BY <1>2, <1>8, <2>2
    <3>2. Path(Bram)[j] = valid(rw_msg)[1]
      BY <1>5, <1>7, <1>8, <3>1
    <3>. QED  BY <1>2, <1>4, <2>2, <3>1, <3>2, ItemAt
  <2>3. CASE j # r /\ j # r + w
    <3>1. PICK k \in Int : k = j - (r + w)
      BY <1>2
    <3>2. j = r + w + k /\ ~(j <= r + w)
      BY <1>2, <1>8, <2>3, <3>1
    <3>3. Path(Bram)[j] = req_fifo[k]
      BY <1>7, <1>8, <3>1, <3>2
    <3>. QED  BY <1>2, <2>3, <3>2, <3>3, ItemAt
  <2>. QED  BY <2>1, <2>2, <2>3
<1>9. /\ Len(Path(Bram)) = Len(Owing) /\ DOMAIN Path(Bram) = 1 .. Len(Owing)
  BY <1>2, <1>7
<1>. QED  BY <1>2, <1>8, <1>9

\* The invariant says of each server what AnswersMatchRequests does.
LEMMA RightAnswers ==
  ASSUME IInv
  PROVE  AnswersMatchRequests
<1> SUFFICES ASSUME ~overrun
             PROVE  /\ Len(req_fifo) <= kept + 1
                    /\ \A s \in Server :
                         /\ Len(Path(s)) = Len(outstanding[s])
                         /\ \A i \in DOMAIN Path(s) : SameRequest(Path(s)[i], outstanding[s][i])
                         /\ resp(s).val => resp(s).data = outstanding[s][1].data
  BY DEF AnswersMatchRequests, SameRequest
<1>1. NetType /\ BramHolds /\ PeripheralHolds /\ Backlog
  BY DEF IInv, NetIsRight
<1>2. /\ Len(Path(Bram)) = Len(outstanding[Bram])
      /\ \A i \in DOMAIN Path(Bram) : SameRequest(Path(Bram)[i], outstanding[Bram][i])
  BY <1>1, PathIs DEF BramHolds, Owing
<1>3. resp_msg.val => resp_msg.data = outstanding[Bram][1].data
  BY <1>1 DEF BramHolds, Owing
<1>4. /\ Len(Path(Peripheral)) = Len(outstanding[Peripheral])
      /\ \A i \in DOMAIN Path(Peripheral) : Path(Peripheral)[i] = outstanding[Peripheral][i]
  BY <1>1 DEF PeripheralHolds, Path
<1>5. resp(Peripheral).val => resp(Peripheral).data = outstanding[Peripheral][1].data
  BY <1>1 DEF PeripheralHolds, resp, None
<1>. QED  BY <1>1, <1>2, <1>3, <1>4, <1>5 DEF Backlog, SameRequest, resp

\* A write whose turn comes in time is taken before the next word.
LEMMA NeverLate ==
  ASSUME IInv
  PROVE  SpiIsNotBackpressured
<1> SUFFICES ASSUME ~overrun
             PROVE  /\ spi_state = "WAIT_MEM" => spi_gap <= Cardinality(Client)
                    /\ NoWordIsLost
  BY DEF SpiIsNotBackpressured
<1>1. NetType /\ SpiTurn
  BY DEF IInv, NetIsRight
<1>2. Cardinality(Client) = 3
  <2>1. Client = 0 .. 2
    OBVIOUS
  <2>2. \A m, n \in Int : Cardinality(m .. n) = IF m > n THEN 0 ELSE n - m + 1
    BY FS_Interval, Zenon
  <2>3. ASSUME NEW n \in Nat, n = 2 PROVE Cardinality(0 .. n) = 3
    <3>1. Cardinality(0 .. n) = IF 0 > n THEN 0 ELSE n - 0 + 1
      BY <2>2
    <3>. QED  BY <2>3, <3>1
  <2>4. Cardinality(0 .. 2) = 3
    BY <2>3
  <2>. QED  BY <2>1, <2>4, Zenon
<1>3. PICK g \in Int, t \in Int, G \in Int :
        g = spi_gap /\ t = Turn /\ t >= 1 /\ G = SpiGap /\ G >= 4
  <2>1. spi_gap \in Int
    BY <1>1, SpiGapAssumption DEF NetType
  <2>2. Turn \in Int /\ Turn >= 1
    BY DEF Turn
  <2>. QED  BY <2>1, <2>2, SpiGapAssumption
<1>4. spi_state = "WAIT_MEM" => g <= 3
  <2>1. spi_state = "WAIT_MEM" => g + t <= 4
    BY <1>1, <1>3 DEF SpiTurn
  <2>. QED  BY <1>3, <2>1
<1>5. g = G => spi_state \in {"WAIT_ADDR", "WAIT_DATA"}
  <2>1. spi_state = "SET_GO" => g = 1
    BY <1>1, <1>3 DEF SpiTurn
  <2>2. g = G => spi_state # "SET_GO" /\ spi_state # "WAIT_MEM"
    BY <1>3, <1>4, <2>1
  <2>. QED  BY <1>1, <2>2 DEF NetType
<1>. QED  BY <1>2, <1>3, <1>4, <1>5 DEF NoWordIsLost

\* Until a request is pushed into a full queue, each server has under way what it
\* took, in order and with what was last written, the arbiter of the block memory
\* comes round to the loader, and the queue grows only behind an answer that is
\* kept waiting, for any number of requests under way.
THEOREM NetInvariant == Spec => []IInv
<1>1. Init => IInv
  BY NetInit
<1>2. IInv /\ [Next]_vars => IInv'
  BY IInvStep
<1>. QED  BY <1>1, <1>2, PTL DEF Spec

\* Until a request is pushed into a full queue, every answer is that of the oldest
\* request the server took, whatever is granted, stalled, written or stopped by
\* the go bit.
THEOREM AnswersAreRight == Spec => []AnswersMatchRequests
<1>1. IInv => AnswersMatchRequests
  BY RightAnswers
<1>. QED  BY <1>1, NetInvariant, PTL

\* Until a request is pushed into a full queue, the loader is ready for each word
\* of SPI.
THEOREM LoaderIsInTime == Spec => []SpiIsNotBackpressured
<1>1. IInv => SpiIsNotBackpressured
  BY NeverLate
<1>. QED  BY <1>1, NetInvariant, PTL

\* A request is pushed into a full queue only after FifoDepth - 1 cycles in which
\* an answer of the block memory was kept waiting, with the queue never empty
\* since the first of them: three cycles with the four places of FPGAMem.v, however
\* many requests the clients may have under way.
THEOREM OverrunTakesWaiting == Spec => [][overrun' => overrun \/ kept >= FifoDepth - 1]_vars
<1>1. ASSUME IInv, [Next]_vars, overrun'
      PROVE  overrun \/ kept >= FifoDepth - 1
  <2> SUFFICES ASSUME ~overrun PROVE kept >= FifoDepth - 1
    BY DEF IInv
  <2>1. FifoDepth <= Len(req_fifo)
    BY <1>1, OverrunStep
  <2>2. kept \in Nat /\ Len(req_fifo) \in Nat /\ Len(req_fifo) <= kept + 1
    BY <1>1 DEF IInv, NetIsRight, NetType, Backlog
  <2>. QED  BY <2>1, <2>2, FifoDepthAssumption
<1>2. IInv /\ [Next]_vars => [overrun' => overrun \/ kept >= FifoDepth - 1]_vars
  BY <1>1
<1>. QED  BY <1>2, NetInvariant, PTL DEF Spec
=============================================================================
