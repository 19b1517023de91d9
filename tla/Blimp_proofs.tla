----------------------------- MODULE Blimp_proofs -----------------------------
(***************************************************************************)
(* The processor executes the program, and keeps the promises its units    *)
(* rely on, for every program and every size.                              *)
(*                                                                         *)
(* The first part is about the fetch unit alone, whose environment is      *)
(* free.  The second is about the composition: what a squash hits has not  *)
(* been issued, and the sequence number generator and the rename table are *)
(* used the way their own proofs assume.  Its invariant BInv says what     *)
(* each unit holds: a pipe, issued instructions that are not done; the     *)
(* writeback register and the reorder buffer, the results of those that    *)
(* are; and a branch that has yet to ask for a squash is the last          *)
(* instruction issued.  With the invariants of SeqNumGen and RenameTable   *)
(* it is inductive as long as HeadStaysBehindTail holds.                   *)
(*                                                                         *)
(* The third part is about what the instructions compute: IsaInv says that *)
(* those in flight are the next ones of the program, with its operands and *)
(* results, and that fetch is on its path.  So the processor implements    *)
(* module Isa.                                                             *)
(***************************************************************************)
EXTENDS Blimp, SeqArb_proofs, SequenceTheorems

-----------------------------------------------------------------------------
(* The fetch unit.                                                         *)

\* What is assumed of its constants.
LEMMA FetchConstants ==
  /\ NAddr \in Nat \ {0} /\ RstAddr \in 0 .. NAddr - 1
  /\ MaxFetches \in Nat \ {0}
  /\ FifoDepth \in Nat \ {0}
  BY AddrAssumption, RstAddrAssumption, MaxFetchesAssumption, FifoDepthAssumption DEF Addr

\* The k-th request under way, counted over resp_fifo and the memory, and how
\* many there are.
Total == Len(resp_fifo) + Len(inst_mem)

Req(k) == IF k <= Len(resp_fifo) THEN resp_fifo[k] ELSE inst_mem[k - Len(resp_fifo)]

\* Those still wanted are at consecutive addresses that end before curr_addr.
Consecutive ==
  \A k \in num_to_squash + 1 .. Total :
    FU!Succ(Req(k)) = IF k = Total THEN curr_addr ELSE Req(k + 1)

\* The two counters account for all of them, and they are within the limit.
FetchInv ==
  /\ FU!TypeOK
  /\ num_in_flight + num_to_squash = Total
  /\ Total <= MaxFetches
  /\ Consecutive

\* Initially nothing is under way.
LEMMA FetchInit == FU!Init => FetchInv
  BY FetchConstants
     DEF FU!Init, FetchInv, FU!TypeOK, Total, Consecutive, Req, FU!Squashes, FU!Addr

One(b) == IF b THEN 1 ELSE 0

\* What an edge does to resp_fifo and to the memory.
Moves(push, pop, xfer, a) ==
  /\ push \in BOOLEAN /\ pop \in BOOLEAN /\ xfer \in BOOLEAN /\ a \in FU!Addr
  /\ push => inst_mem # << >>
  /\ pop => resp_fifo # << >>
  /\ resp_fifo' = LET rest == IF pop THEN Tail(resp_fifo) ELSE resp_fifo
                  IN  IF push THEN Append(rest, Head(inst_mem)) ELSE rest
  /\ inst_mem' = LET rest == IF push THEN Tail(inst_mem) ELSE inst_mem
            IN  IF xfer THEN Append(rest, a) ELSE rest

\* An answer may leave resp_fifo, a request may be added at the end, and an
\* answer that moves from the memory to resp_fifo keeps its place.
LEMMA UnderWayStep ==
  ASSUME FU!TypeOK, NEW push, NEW pop, NEW xfer, NEW a, Moves(push, pop, xfer, a)
  PROVE  /\ resp_fifo' \in Seq(FU!Addr)
         /\ inst_mem' \in Seq(FU!Addr)
         /\ Total' = Total - One(pop) + One(xfer)
         /\ Total - One(pop) \in Nat
         /\ Total \in Nat
         /\ \A k \in 1 .. Total - One(pop) : Req(k)' = Req(k + One(pop))
         /\ \A k \in Nat : xfer /\ k = Total' => Req(k)' = a
<1> DEFINE rf == IF pop THEN Tail(resp_fifo) ELSE resp_fifo
           rm == IF push THEN Tail(inst_mem) ELSE inst_mem
           p  == One(pop)
           q  == One(push)
           r  == One(xfer)
<1>0. /\ push \in BOOLEAN /\ pop \in BOOLEAN /\ xfer \in BOOLEAN /\ a \in FU!Addr
      /\ push => inst_mem # << >>
      /\ pop => resp_fifo # << >>
      /\ resp_fifo' = IF push THEN Append(rf, Head(inst_mem)) ELSE rf
      /\ inst_mem' = IF xfer THEN Append(rm, a) ELSE rm
      /\ resp_fifo \in Seq(FU!Addr)
      /\ inst_mem \in Seq(FU!Addr)
  BY DEF Moves, FU!TypeOK
<1> HIDE DEF p, q, r
<1>n. /\ p \in {0, 1} /\ q \in {0, 1} /\ r \in {0, 1}
      /\ push => q = 1
      /\ ~push => q = 0
      /\ xfer => r = 1
      /\ ~xfer => r = 0
  BY DEF p, q, r, One
<1>1. /\ rf \in Seq(FU!Addr)
      /\ Len(rf) = Len(resp_fifo) - p
      /\ Len(resp_fifo) \in Nat
      /\ Len(rf) \in Nat
      /\ \A k \in 1 .. Len(rf) : rf[k] = resp_fifo[k + p]
  <2>1. CASE pop
    <3>1. /\ Tail(resp_fifo) \in Seq(FU!Addr)
          /\ Len(Tail(resp_fifo)) = Len(resp_fifo) - 1
          /\ \A k \in 1 .. Len(Tail(resp_fifo)) : Tail(resp_fifo)[k] = resp_fifo[k + 1]
      BY <1>0, <2>1, HeadTailProperties
    <3>2. Len(resp_fifo) \in Nat /\ Len(Tail(resp_fifo)) \in Nat
      BY <1>0, <3>1, LenProperties
    <3>. QED  BY <2>1, <3>1, <3>2 DEF p, One
  <2>2. CASE ~pop
    BY <1>0, <2>2, LenProperties DEF p, One
  <2>. QED  BY <1>0, <2>1, <2>2
<1>2. /\ rm \in Seq(FU!Addr)
      /\ Len(rm) = Len(inst_mem) - q
      /\ Len(inst_mem) \in Nat
      /\ Len(rm) \in Nat
      /\ \A k \in 1 .. Len(rm) : rm[k] = inst_mem[k + q]
  <2>1. CASE push
    <3>1. /\ Tail(inst_mem) \in Seq(FU!Addr)
          /\ Len(Tail(inst_mem)) = Len(inst_mem) - 1
          /\ \A k \in 1 .. Len(Tail(inst_mem)) : Tail(inst_mem)[k] = inst_mem[k + 1]
      BY <1>0, <2>1, HeadTailProperties
    <3>2. Len(inst_mem) \in Nat /\ Len(Tail(inst_mem)) \in Nat
      BY <1>0, <3>1, LenProperties
    <3>. QED  BY <2>1, <3>1, <3>2 DEF q, One
  <2>2. CASE ~push
    BY <1>0, <2>2, LenProperties DEF q, One
  <2>. QED  BY <1>0, <2>1, <2>2
<1>3. push => Head(inst_mem) = inst_mem[1] /\ Head(inst_mem) \in FU!Addr
  BY <1>0, HeadTailProperties
<1> HIDE DEF rf, rm
<1>5. /\ resp_fifo' \in Seq(FU!Addr)
      /\ Len(resp_fifo') = Len(rf) + q
      /\ \A k \in 1 .. Len(rf) : resp_fifo'[k] = rf[k]
      /\ push => resp_fifo'[Len(rf) + 1] = inst_mem[1]
  <2>1. CASE push
    BY <1>0, <1>1, <1>3, <1>n, <2>1, AppendProperties
  <2>2. CASE ~push
    BY <1>0, <1>1, <1>n, <2>2
  <2>. QED  BY <1>0, <2>1, <2>2
<1>6. /\ inst_mem' \in Seq(FU!Addr)
      /\ Len(inst_mem') = Len(rm) + r
      /\ \A k \in 1 .. Len(rm) : inst_mem'[k] = rm[k]
      /\ xfer => inst_mem'[Len(rm) + 1] = a
  <2>1. CASE xfer
    BY <1>0, <1>2, <1>n, <2>1, AppendProperties
  <2>2. CASE ~xfer
    BY <1>0, <1>2, <1>n, <2>2
  <2>. QED  BY <1>0, <2>1, <2>2
<1>7. /\ Total' = Total - p + r
      /\ Total - p \in Nat
      /\ Total \in Nat
      /\ Total - p = Len(resp_fifo') + Len(rm)
  BY ONLY <1>n, <1>1, <1>2, <1>5, <1>6 DEF Total
<1>8. ASSUME NEW k \in 1 .. Total - p PROVE Req(k)' = Req(k + p)
  <2>1. Req(k)' = IF k <= Len(resp_fifo') THEN resp_fifo'[k] ELSE inst_mem'[k - Len(resp_fifo')]
    BY DEF Req
  <2>2. CASE k <= Len(rf)
    <3>1. k \in 1 .. Len(rf)
      BY ONLY <2>2, <1>1, <1>7, k \in 1 .. Total - p
    <3>2. resp_fifo'[k] = resp_fifo[k + p]
      BY ONLY <3>1, <1>1, <1>5
    <3>3. k <= Len(resp_fifo') /\ k + p <= Len(resp_fifo)
      BY ONLY <3>1, <1>n, <1>1, <1>5
    <3>. QED  BY ONLY <2>1, <3>2, <3>3, <1>n, <1>1, k \in 1 .. Total - p DEF Req
  <2>3. CASE k = Len(rf) + 1 /\ push
    <3>1. /\ resp_fifo'[k] = inst_mem[1] /\ k <= Len(resp_fifo')
          /\ ~(k + p <= Len(resp_fifo)) /\ k + p - Len(resp_fifo) = 1
      BY ONLY <2>3, <1>n, <1>1, <1>5, <1>7
    <3>2. Req(k)' = inst_mem[1]
      BY ONLY <2>1, <3>1
    <3>3. Req(k + p) = inst_mem[1]
      BY ONLY <3>1, <1>n, <1>1, k \in 1 .. Total - p DEF Req
    <3>. QED  BY <3>2, <3>3
  <2>4. CASE k > Len(resp_fifo')
    <3>1. /\ k - Len(resp_fifo') \in 1 .. Len(rm)
          /\ ~(k <= Len(resp_fifo'))
          /\ ~(k + p <= Len(resp_fifo))
          /\ k - Len(resp_fifo') + q = k + p - Len(resp_fifo)
      <4>1. /\ k \in Nat /\ k <= Len(resp_fifo') + Len(rm)
            /\ Len(resp_fifo') \in Nat /\ Len(rm) \in Nat /\ Len(rf) \in Nat
        BY ONLY <1>n, <1>1, <1>2, <1>5, <1>7, k \in 1 .. Total - p
      <4>2. /\ Len(resp_fifo') = Len(rf) + q /\ Len(rf) = Len(resp_fifo) - p
            /\ Len(resp_fifo) \in Nat /\ p \in {0, 1} /\ q \in {0, 1}
        BY ONLY <1>n, <1>1, <1>5
      <4>. QED  BY ONLY <2>4, <4>1, <4>2
    <3>2. inst_mem'[k - Len(resp_fifo')] = inst_mem[k - Len(resp_fifo') + q]
      BY ONLY <3>1, <1>2, <1>6
    <3>. QED  BY ONLY <2>1, <3>1, <3>2, <1>n, <1>1, <1>2, <1>5, <1>7, k \in 1 .. Total - p DEF Req
  <2>5. k <= Len(rf) \/ (k = Len(rf) + 1 /\ push) \/ k > Len(resp_fifo')
    BY ONLY <1>0, <1>n, <1>1, <1>5, k \in 1 .. Total - p, <1>7
  <2>. QED  BY <2>2, <2>3, <2>4, <2>5
<1>9. ASSUME NEW k \in Nat, xfer, k = Total' PROVE Req(k)' = a
  <2>1. /\ ~(k <= Len(resp_fifo'))
        /\ k - Len(resp_fifo') = Len(rm) + 1
    <3>1. r = 1
      BY <1>n, <1>9
    <3>. QED  BY <3>1, <1>1, <1>2, <1>5, <1>7, <1>9
  <2>2. Req(k)' = inst_mem'[Len(rm) + 1]
    BY <2>1 DEF Req
  <2>. QED  BY <2>2, <1>6, <1>9
<1>. QED  BY <1>5, <1>6, <1>7, <1>8, <1>9 DEF p, r

\* What an edge is in the terms of UnderWayStep.
LEMMA EdgeMoves ==
  ASSUME FetchInv, NEW req_rdy \in BOOLEAN, NEW resp_val \in BOOLEAN, NEW D_rdy \in BOOLEAN,
         NEW alloc_val \in BOOLEAN, NEW squash \in FU!Squashes,
         FU!Cycle(req_rdy, resp_val, D_rdy, alloc_val, squash)
  PROVE  /\ Moves(resp_val /\ ~FU!resp_full, FU!resp_pop(D_rdy, alloc_val, squash),
                  FU!req_val /\ req_rdy, FU!req_addr(squash))
         /\ squash # << >> => squash[1] \in FU!Addr
<1>1. squash # << >> => squash[1] \in FU!Addr
  BY DEF FU!Squashes
<1>2. FU!req_addr(squash) \in FU!Addr
  BY <1>1 DEF FU!req_addr, FetchInv, FU!TypeOK
<1>3. /\ FU!resp_pop(D_rdy, alloc_val, squash) \in BOOLEAN
      /\ FU!resp_pop(D_rdy, alloc_val, squash) => resp_fifo # << >>
  BY DEF FU!resp_pop, FU!resp_empty
<1>4. /\ (resp_val /\ ~FU!resp_full) \in BOOLEAN
      /\ (FU!req_val /\ req_rdy) \in BOOLEAN
      /\ resp_val /\ ~FU!resp_full => inst_mem # << >>
  BY DEF FU!Cycle
<1>5. /\ resp_fifo' = FU!NextFifo(resp_val /\ ~FU!resp_full, FU!resp_pop(D_rdy, alloc_val, squash))
      /\ inst_mem' = FU!NextMem(resp_val /\ ~FU!resp_full, FU!req_val /\ req_rdy, squash)
  BY DEF FU!Cycle, FU!Edge
<1>. QED  BY <1>1, <1>2, <1>3, <1>4, <1>5 DEF Moves, FU!NextFifo, FU!NextMem

\* Where the counters and the next address go: a request adds one, an answer
\* that leaves resp_fifo takes one from the counter it belongs to.
CountersStep(pop, xfer, squash) ==
  /\ num_in_flight' + num_to_squash' = num_in_flight + num_to_squash - One(pop) + One(xfer)
  /\ num_in_flight' \in Nat
  /\ num_to_squash' = IF squash # << >> THEN num_in_flight + num_to_squash - One(pop)
                      ELSE IF num_to_squash > 0 THEN num_to_squash - One(pop)
                      ELSE 0
  /\ curr_addr' = IF xfer THEN FU!Succ(FU!req_addr(squash)) ELSE FU!req_addr(squash)

\* What an edge does to num_in_flight, num_to_squash and curr_addr, in the
\* terms of the answers and requests that EdgeMoves counts.
LEMMA EdgeCounters ==
  ASSUME FetchInv, NEW req_rdy \in BOOLEAN, NEW resp_val \in BOOLEAN, NEW D_rdy \in BOOLEAN,
         NEW alloc_val \in BOOLEAN, NEW squash \in FU!Squashes,
         FU!Cycle(req_rdy, resp_val, D_rdy, alloc_val, squash)
  PROVE  CountersStep(FU!resp_pop(D_rdy, alloc_val, squash), FU!req_val /\ req_rdy, squash)
<1> DEFINE d == FU!D_xfer(D_rdy, alloc_val, squash)
           m == FU!req_val /\ req_rdy
           pop == FU!resp_pop(D_rdy, alloc_val, squash)
<1>1. /\ num_in_flight \in Nat /\ num_to_squash \in Nat
      /\ num_in_flight + num_to_squash = Total
      /\ FU!resp_empty <=> Len(resp_fifo) = 0
      /\ Len(resp_fifo) \in Nat /\ Len(inst_mem) \in Nat
      /\ ~FU!resp_empty => num_in_flight + num_to_squash > 0
  BY EmptySeq, LenProperties DEF FetchInv, FU!TypeOK, Total, FU!resp_empty
<1>2. /\ num_in_flight' = FU!NextNumInFlight(m, d, squash)
      /\ num_to_squash' = FU!NextNumToSquash(squash)
      /\ curr_addr' = FU!NextAddr(m, squash)
  BY DEF FU!Cycle, FU!Edge
<1>3. curr_addr' = IF m THEN FU!Succ(FU!req_addr(squash)) ELSE FU!req_addr(squash)
  BY <1>2 DEF FU!NextAddr, FU!req_addr
<1>4. CASE squash # << >>
  <2>1. FU!should_drop(squash) /\ ~d /\ (pop <=> ~FU!resp_empty)
    BY <1>4 DEF FU!should_drop, FU!D_xfer, FU!D_val, FU!resp_pop
  <2>2. num_in_flight' = One(m)
    BY <1>2, <1>4, <2>1 DEF FU!NextNumInFlight, One
  <2>3. num_to_squash' = num_in_flight + num_to_squash - One(pop)
    BY <1>1, <1>2, <1>4, <2>1 DEF FU!NextNumToSquash, One
  <2>. QED  BY <1>1, <1>3, <1>4, <2>2, <2>3 DEF CountersStep, One
<1>5. CASE squash = << >> /\ num_to_squash > 0
  <2>1. FU!should_drop(squash) /\ ~d /\ (pop <=> ~FU!resp_empty)
    BY <1>5 DEF FU!should_drop, FU!D_xfer, FU!D_val, FU!resp_pop
  <2>2. num_in_flight' = num_in_flight + One(m)
    BY <1>1, <1>2, <1>5, <2>1 DEF FU!NextNumInFlight, One
  <2>3. num_to_squash' = num_to_squash - One(pop)
    BY <1>1, <1>2, <1>5, <2>1 DEF FU!NextNumToSquash, One
  <2>. QED  BY <1>1, <1>3, <1>5, <2>2, <2>3 DEF CountersStep, One
<1>6. CASE squash = << >> /\ num_to_squash = 0
  <2>1. ~FU!should_drop(squash) /\ (d <=> pop) /\ (d => ~FU!resp_empty)
    BY <1>6 DEF FU!should_drop, FU!D_xfer, FU!D_val, FU!resp_pop
  <2>2. num_in_flight' = num_in_flight - One(pop) + One(m)
    BY <1>1, <1>2, <1>6, <2>1 DEF FU!NextNumInFlight, One
  <2>3. num_to_squash' = 0
    BY <1>1, <1>2, <1>6, <2>1 DEF FU!NextNumToSquash
  <2>. QED  BY <1>1, <1>3, <1>6, <2>1, <2>2, <2>3 DEF CountersStep, One
<1>. QED  BY <1>1, <1>4, <1>5, <1>6

\* Every edge keeps the invariant.
LEMMA FetchCycle ==
  ASSUME FetchInv, NEW req_rdy \in BOOLEAN, NEW resp_val \in BOOLEAN, NEW D_rdy \in BOOLEAN,
         NEW alloc_val \in BOOLEAN, NEW squash \in FU!Squashes,
         FU!Cycle(req_rdy, resp_val, D_rdy, alloc_val, squash)
  PROVE  FetchInv'
<1> DEFINE m == FU!req_val /\ req_rdy
           pop == FU!resp_pop(D_rdy, alloc_val, squash)
           a == FU!req_addr(squash)
           p == One(pop)
           r == One(m)
<1>1. Moves(resp_val /\ ~FU!resp_full, pop, m, a) /\ (squash # << >> => squash[1] \in FU!Addr)
  BY EdgeMoves
<1>2. CountersStep(pop, m, squash)
  BY EdgeCounters
<1>3. /\ resp_fifo' \in Seq(FU!Addr)
      /\ inst_mem' \in Seq(FU!Addr)
      /\ Total' = Total - One(pop) + One(m)
      /\ Total - One(pop) \in Nat
      /\ Total \in Nat
      /\ \A k \in 1 .. Total - One(pop) : Req(k)' = Req(k + One(pop))
      /\ \A k \in Nat : m /\ k = Total' => Req(k)' = a
  BY <1>1, UnderWayStep DEF FetchInv
<1>4. m => num_in_flight + num_to_squash < MaxFetches
  BY DEF FU!req_val
<1>5. /\ a \in FU!Addr
      /\ \A x \in FU!Addr : FU!Succ(x) \in FU!Addr
      /\ curr_addr' \in FU!Addr
  BY <1>1, <1>2, FetchConstants DEF CountersStep, FU!Succ, FU!Addr, Moves
<1>6. delivered' \in FU!Squashes /\ redirect' \in FU!Squashes
  <2>1. FU!D_xfer(D_rdy, alloc_val, squash) => Head(resp_fifo) \in FU!Addr
    BY HeadTailProperties DEF FU!D_xfer, FU!D_val, FU!resp_empty, FetchInv, FU!TypeOK
  <2>. QED  BY <2>1 DEF FU!Cycle, FU!Edge, FU!Squashes
<1>n. /\ p \in {0, 1} /\ r \in {0, 1}
      /\ m => r = 1
      /\ ~m => r = 0
      /\ num_in_flight \in Nat /\ num_to_squash \in Nat
      /\ num_in_flight + num_to_squash = Total
      /\ Total <= MaxFetches
      /\ MaxFetches \in Nat
  BY FetchConstants DEF One, FetchInv, FU!TypeOK
\* The primed numbers are named, for the sake of the arithmetic.
<1> DEFINE flight1 == num_in_flight'
           squash1 == num_to_squash'
           total1  == Total'
<1>t. /\ total1 = Total - p + r
      /\ Total - p \in Nat
      /\ Total \in Nat
      /\ flight1 + squash1 = Total - p + r
      /\ flight1 \in Nat
      /\ squash1 = IF squash # << >> THEN Total - p
                   ELSE IF num_to_squash > 0 THEN num_to_squash - p
                   ELSE 0
  BY <1>2, <1>3, <1>n DEF CountersStep
<1> HIDE DEF m, pop, a, p, r, flight1, squash1, total1
<1>7. /\ squash1 \in Nat
      /\ flight1 + squash1 = total1
      /\ total1 \in 0 .. MaxFetches
  <2>1. squash1 \in Nat
    BY <1>t, <1>n
  <2>2. Total - p + r <= MaxFetches
    <3>1. CASE m
      BY <3>1, <1>t, <1>4, <1>n
    <3>2. CASE ~m
      BY <3>2, <1>t, <1>n
    <3>. QED  BY <3>1, <3>2
  <2>. QED  BY <2>1, <2>2, <1>t, <1>n
<1>8. Consecutive'
  <2> SUFFICES ASSUME NEW k \in squash1 + 1 .. total1
               PROVE  FU!Succ(Req(k)') = IF k = total1 THEN curr_addr' ELSE Req(k + 1)'
    BY DEF Consecutive, FU!Succ, squash1, total1
  <2>n. k \in Nat /\ squash1 < k /\ k <= total1
    BY <1>7
  <2>r. ASSUME NEW j \in Nat, m, j = total1 PROVE Req(j)' = a
    BY <1>3, <2>r DEF total1
  <2>1. CASE k = total1 /\ m
    <3>1. Req(k)' = a
      BY <2>r, <2>n, <2>1
    <3>. QED  BY <1>2, <2>1, <3>1 DEF CountersStep, a, m
  <2>2. CASE ~(k = total1 /\ m)
    <3>1. k <= Total - p
      <4>1. CASE m
        BY <4>1, <2>2, <2>n, <1>n, <1>t
      <4>2. CASE ~m
        BY <4>2, <2>n, <1>n, <1>t
      <4>. QED  BY <4>1, <4>2
    <3>2. squash = << >>
      BY <3>1, <2>n, <1>t
    <3>3. curr_addr' = IF m THEN FU!Succ(curr_addr) ELSE curr_addr
      BY <1>2, <3>2 DEF CountersStep, FU!req_addr, m
    <3>4. k \in 1 .. Total - p /\ k + p \in num_to_squash + 1 .. Total
      BY <3>1, <3>2, <2>n, <1>7, <1>n, <1>t
    <3>5. Req(k)' = Req(k + p)
      BY <3>4, <1>3 DEF p
    <3>6. FU!Succ(Req(k + p)) = IF k + p = Total THEN curr_addr ELSE Req(k + p + 1)
      BY <3>4 DEF FetchInv, Consecutive
    <3>7. CASE k + p = Total
      <4>1. CASE m
        <5>1. k + 1 = total1 /\ k + 1 \in Nat /\ k # total1
          BY <2>n, <3>7, <4>1, <1>t, <1>n
        <5>2. Req(k + 1)' = curr_addr
          BY <5>1, <4>1, <3>2, <2>r DEF a, FU!req_addr
        <5>. QED  BY <5>1, <5>2, <3>5, <3>6, <3>7
      <4>2. CASE ~m
        <5>1. k = total1
          BY <2>n, <3>7, <4>2, <1>t, <1>n
        <5>. QED  BY <5>1, <4>2, <3>3, <3>5, <3>6, <3>7
      <4>. QED  BY <4>1, <4>2
    <3>8. CASE k + p # Total
      <4>1. k + 1 \in 1 .. Total - p /\ k # total1 /\ k + 1 + p = k + p + 1
        BY <3>4, <3>8, <2>n, <1>t, <1>n
      <4>2. Req(k + 1)' = Req(k + 1 + p)
        BY <4>1, <1>3 DEF p
      <4>. QED  BY <4>1, <4>2, <3>5, <3>6, <3>8
    <3>. QED  BY <3>7, <3>8
  <2>. QED  BY <2>1, <2>2
<1>9. /\ num_in_flight' \in 0 .. MaxFetches
      /\ num_to_squash' \in 0 .. MaxFetches
      /\ num_in_flight' + num_to_squash' = Total'
      /\ Total' <= MaxFetches
  <2>1. /\ flight1 \in 0 .. MaxFetches
        /\ squash1 \in 0 .. MaxFetches
        /\ flight1 + squash1 = total1
        /\ total1 <= MaxFetches
    BY <1>7, <1>t, <1>n
  <2>. QED  BY <2>1 DEF flight1, squash1, total1
<1>. QED  BY <1>3, <1>5, <1>6, <1>8, <1>9 DEF FetchInv, FU!TypeOK

\* The next instruction decode waits for, told by the counters.
LEMMA WantedReq ==
  FetchInv => /\ FU!Wanted = IF num_to_squash < Total THEN Req(num_to_squash + 1) ELSE curr_addr
          /\ Total \in Nat /\ num_to_squash \in 0 .. Total
          /\ FU!Wanted \in FU!Addr
<1> SUFFICES ASSUME FetchInv
             PROVE  /\ FU!Wanted = IF num_to_squash < Total THEN Req(num_to_squash + 1) ELSE curr_addr
                    /\ Total \in Nat /\ num_to_squash \in 0 .. Total
                    /\ FU!Wanted \in FU!Addr
  OBVIOUS
<1>1. /\ resp_fifo \in Seq(FU!Addr) /\ inst_mem \in Seq(FU!Addr) /\ curr_addr \in FU!Addr
      /\ Len(resp_fifo) \in Nat /\ Len(inst_mem) \in Nat
      /\ num_to_squash \in Nat /\ num_in_flight \in Nat
      /\ num_in_flight + num_to_squash = Total
  BY LenProperties DEF FetchInv, FU!TypeOK
<1>2. Total \in Nat /\ num_to_squash \in 0 .. Total
  BY <1>1 DEF Total
<1>3. /\ FU!UnderWay \in Seq(FU!Addr)
      /\ Len(FU!UnderWay) = Total
      /\ \A k \in 1 .. Total : FU!UnderWay[k] = Req(k)
  BY <1>1, ConcatProperties DEF FU!UnderWay, Total, Req
<1>4. FU!Wanted = IF num_to_squash < Total THEN Req(num_to_squash + 1) ELSE curr_addr
  BY <1>2, <1>3 DEF FU!Wanted
<1>5. FU!Wanted \in FU!Addr
  <2>1. \A k \in 1 .. Total : FU!UnderWay[k] \in FU!Addr
    BY <1>3, ElementOfSeq
  <2>. QED  BY <2>1, <1>1, <1>2, <1>3 DEF FU!Wanted
<1>. QED  BY <1>2, <1>4, <1>5

\* Every edge is a step of the abstract stream.
LEMMA CycleStream ==
  ASSUME FetchInv, NEW req_rdy \in BOOLEAN, NEW resp_val \in BOOLEAN, NEW D_rdy \in BOOLEAN,
         NEW alloc_val \in BOOLEAN, NEW squash \in FU!Squashes,
         FU!Cycle(req_rdy, resp_val, D_rdy, alloc_val, squash)
  PROVE  FU!Stream!Next
<1> DEFINE m == FU!req_val /\ req_rdy
           pop == FU!resp_pop(D_rdy, alloc_val, squash)
           d == FU!D_xfer(D_rdy, alloc_val, squash)
           a == FU!req_addr(squash)
           p == One(pop)
           r == One(m)
           squash1 == num_to_squash'
           total1  == Total'
<1>1. Moves(resp_val /\ ~FU!resp_full, pop, m, a) /\ (squash # << >> => squash[1] \in FU!Addr)
  BY EdgeMoves
<1>2. CountersStep(pop, m, squash)
  BY EdgeCounters
<1>3. /\ total1 = Total - p + r
      /\ Total - p \in Nat
      /\ \A k \in 1 .. Total - p : Req(k)' = Req(k + p)
      /\ \A k \in Nat : m /\ k = total1 => Req(k)' = a
  BY <1>1, UnderWayStep DEF FetchInv
<1>4. /\ FU!Wanted = IF num_to_squash < Total THEN Req(num_to_squash + 1) ELSE curr_addr
      /\ Total \in Nat /\ num_to_squash \in 0 .. Total
      /\ num_in_flight + num_to_squash = Total
      /\ num_in_flight \in Nat
  BY WantedReq DEF FetchInv, FU!TypeOK
<1>n. /\ num_in_flight + num_to_squash = Total
      /\ num_in_flight \in Nat /\ num_to_squash \in Nat
  BY <1>4
<1>5. /\ squash1 >= total1 => FU!Wanted' = curr_addr'
      /\ \A k \in Nat : k = squash1 + 1 /\ squash1 < total1 => FU!Wanted' = Req(k)'
      /\ squash1 \in 0 .. total1 /\ total1 \in Nat
  <2>1. FetchInv'
    BY FetchCycle
  <2>2. (FetchInv => /\ FU!Wanted = IF num_to_squash < Total THEN Req(num_to_squash + 1) ELSE curr_addr
                 /\ Total \in Nat /\ num_to_squash \in 0 .. Total)'
    <3>1. FetchInv => /\ FU!Wanted = IF num_to_squash < Total THEN Req(num_to_squash + 1) ELSE curr_addr
                  /\ Total \in Nat /\ num_to_squash \in 0 .. Total
      BY WantedReq
    <3>. QED  BY WantedReq, PTL
  <2>3. /\ FU!Wanted' = (IF num_to_squash < Total THEN Req(num_to_squash + 1) ELSE curr_addr)'
        /\ total1 \in Nat /\ squash1 \in 0 .. total1
    BY <2>1, <2>2
  <2>4. squash1 >= total1 => FU!Wanted' = curr_addr'
    <3>1. squash1 >= total1 => ~(squash1 < total1)
      BY <2>3
    <3>. QED  BY <2>3, <3>1
  <2>5. ASSUME NEW k \in Nat, k = squash1 + 1, squash1 < total1 PROVE FU!Wanted' = Req(k)'
    BY <2>3, <2>5 DEF Req
  <2>. QED  BY <2>3, <2>4, <2>5
<1>6. /\ p \in {0, 1} /\ r \in {0, 1}
      /\ m => r = 1
      /\ ~m => r = 0
      /\ pop => p = 1
      /\ ~pop => p = 0
  BY DEF One
<1>7. /\ squash1 = IF squash # << >> THEN Total - p
                   ELSE IF num_to_squash > 0 THEN num_to_squash - p
                   ELSE 0
      /\ curr_addr' = IF m THEN FU!Succ(a) ELSE a
  BY <1>2, <1>6, <1>n DEF CountersStep
<1>8. /\ delivered' = IF d THEN <<Head(resp_fifo)>> ELSE << >>
      /\ redirect' = squash
  BY DEF FU!Cycle, FU!Edge
<1>9. /\ squash # << >> => ~d
      /\ d => pop /\ num_to_squash = 0 /\ Len(resp_fifo) > 0 /\ Head(resp_fifo) = resp_fifo[1]
      /\ squash = << >> /\ ~d /\ pop => num_to_squash > 0
  <2>1. resp_fifo # << >> => Len(resp_fifo) > 0 /\ Head(resp_fifo) = resp_fifo[1]
    BY HeadTailProperties, EmptySeq DEF FetchInv, FU!TypeOK
  <2>. QED  BY <2>1, <1>4 DEF FU!D_xfer, FU!D_val, FU!resp_pop, FU!should_drop, FU!resp_empty
<1> HIDE DEF m, pop, d, a, p, r, squash1, total1
<1>r. ASSUME NEW k \in Nat, m, k = total1 PROVE Req(k)' = a
  BY <1>3, <1>r
\* A request that is sent while nothing is wanted is the next one wanted.
<1>w. ASSUME squash1 = Total - p PROVE FU!Wanted' = a
  <2>1. CASE m
    <3>1. squash1 + 1 = total1 /\ squash1 < total1 /\ squash1 + 1 \in Nat
      BY <1>w, <2>1, <1>3, <1>5, <1>6
    <3>2. PICK k \in Nat : k = total1
      BY <1>5
    <3>3. FU!Wanted' = Req(k)' /\ Req(k)' = a
      BY <3>1, <3>2, <2>1, <1>r, <1>5
    <3>. QED  BY <3>3
  <2>2. CASE ~m
    <3>1. squash1 >= total1
      BY <1>w, <2>2, <1>3, <1>5, <1>6
    <3>. QED  BY <3>1, <2>2, <1>5, <1>7
  <2>. QED  BY <2>1, <2>2
<1>10. CASE squash # << >>
  <2>1. FU!Wanted' = squash[1]
    BY <1>10, <1>7, <1>w DEF a, FU!req_addr
  <2>2. \E target \in FU!Addr : squash = <<target>>
    BY <1>10 DEF FU!Squashes
  <2>. QED  BY <1>8, <1>9, <1>10, <2>1, <2>2 DEF FU!Stream!Next, FU!Stream!Redirect, FU!Stream!Addr, FU!Addr
<1>11. CASE squash = << >> /\ d
  <2>1. p = 1 /\ squash1 = 0 /\ num_to_squash = 0 /\ Total > 0
    <3>1. p = 1 /\ num_to_squash = 0
      BY <1>11, <1>6, <1>9
    <3>. QED  BY <3>1, <1>3, <1>4, <1>7, <1>11
  <2>2. FU!Wanted = Req(1) /\ Head(resp_fifo) = Req(1)
    <3>1. Head(resp_fifo) = resp_fifo[1] /\ Len(resp_fifo) > 0 /\ Len(resp_fifo) \in Nat
      BY <1>11, <1>9, LenProperties DEF FetchInv, FU!TypeOK
    <3>. QED  BY <3>1, <2>1, <1>4 DEF Req
  <2>3. FU!Succ(Req(1)) = IF 1 = Total THEN curr_addr ELSE Req(2)
    BY <2>1, <1>4 DEF FetchInv, Consecutive
  <2>4. FU!Wanted' = FU!Succ(FU!Wanted)
    <3>1. CASE Total = 1
      <4>1. FU!Wanted' = a
        BY <3>1, <2>1, <1>w
      <4>. QED  BY <4>1, <3>1, <2>2, <2>3, <1>11 DEF a, FU!req_addr
    <3>2. CASE Total # 1
      <4>1. 1 \in 1 .. Total - p /\ squash1 < total1 /\ squash1 + 1 = 1 /\ 1 + p = 2
        BY <3>2, <2>1, <1>3, <1>4, <1>6
      <4>2. Req(1)' = Req(2)
        BY <4>1, <1>3
      <4>3. FU!Wanted' = Req(1)'
        BY <4>1, <2>1, <1>5
      <4>. QED  BY <4>2, <4>3, <3>2, <2>2, <2>3
    <3>. QED  BY <3>1, <3>2
  <2>. QED  BY <2>2, <2>4, <1>8, <1>11
            DEF FU!Stream!Next, FU!Stream!Deliver, FU!Stream!Succ, FU!Succ
<1>12. CASE squash = << >> /\ ~d
  <2>1. squash1 = num_to_squash - p
    <3>1. num_to_squash = 0 => p = 0
      BY <1>12, <1>6, <1>9
    <3>. QED  BY <3>1, <1>4, <1>6, <1>7, <1>12
  <2>2. FU!Wanted' = FU!Wanted
    <3>1. CASE num_to_squash = Total
      <4>1. FU!Wanted' = a
        BY <3>1, <2>1, <1>w
      <4>. QED  BY <4>1, <3>1, <1>4, <1>12 DEF a, FU!req_addr
    <3>2. CASE num_to_squash # Total
      <4>1. /\ squash1 + 1 \in 1 .. Total - p
            /\ squash1 + 1 + p = num_to_squash + 1
            /\ squash1 < total1
            /\ num_to_squash < Total
        BY <3>2, <2>1, <1>3, <1>4, <1>5, <1>6
      <4>2. PICK k \in 1 .. Total - p : k = squash1 + 1
        BY <4>1
      <4>3. Req(k)' = Req(k + p)
        BY <1>3
      <4>4. FU!Wanted' = Req(k)'
        BY <4>1, <4>2, <1>5
      <4>. QED  BY <4>1, <4>2, <4>3, <4>4, <1>4
    <3>. QED  BY <3>1, <3>2
  <2>. QED  BY <2>2, <1>8, <1>12 DEF FU!Stream!Next, FU!Stream!Wait
<1>. QED  BY <1>10, <1>11, <1>12

\* Nothing changes in a stuttering step.
LEMMA FetchStutter == UNCHANGED FU!vars => UNCHANGED FU!Stream!vars /\ (FetchInv => FetchInv')
  BY DEF FU!vars, FU!Stream!vars, FetchInv, FU!TypeOK, Total, Consecutive, Req, FU!Wanted, FU!UnderWay

\* The counters account for every request and what is still wanted is the
\* program's path, in every reachable state.
THEOREM FetchInductive == FU!Spec => []FetchInv
<1>1. FetchInv /\ [FU!Next]_(FU!vars) => FetchInv'
  BY FetchCycle, FetchStutter DEF FU!Next
<1>. QED  BY <1>1, FetchInit, PTL DEF FU!Spec

\* The types are kept, in particular no counter underflows.
THEOREM FetchTypes == FU!Spec => []FU!TypeOK
<1>1. FetchInv => FU!TypeOK
  BY DEF FetchInv
<1>. QED  BY <1>1, FetchInductive, PTL

\* num_in_flight and num_to_squash add up to the requests under way.
THEOREM CountersCorrect == FU!Spec => []FU!CountersAccount
<1>1. FetchInv => FU!CountersAccount
  BY LenProperties, ConcatProperties DEF FetchInv, FU!TypeOK, FU!CountersAccount, FU!UnderWay, Total
<1>. QED  BY <1>1, FetchInductive, PTL

\* An answer always finds room: what is in resp_fifo and what the memory has
\* not answered share the limit on requests under way.
THEOREM RoomForAnswers == FU!Spec => []FU!RespHasRoom
<1>1. FetchInv => FU!RespHasRoom
  <2> SUFFICES ASSUME FetchInv, MaxFetches <= FifoDepth, inst_mem # << >>
               PROVE  Len(resp_fifo) < FifoDepth
    BY DEF FU!RespHasRoom, FU!resp_full
  <2>1. Len(inst_mem) > 0 /\ Len(resp_fifo) \in Nat /\ Len(inst_mem) \in Nat
    BY EmptySeq, LenProperties DEF FetchInv, FU!TypeOK
  <2>. QED  BY <2>1, FetchConstants DEF FetchInv, Total
<1>. QED  BY <1>1, FetchInductive, PTL

\* Decode gets the program's instructions, each once and in order, whatever
\* squashes come and however long the memory takes.
THEOREM FetchFollowsPath == FU!Spec => FU!ImplementsStream
<1>1. FU!Init => FU!Stream!Init
  <2> SUFFICES ASSUME FU!Init PROVE FU!Stream!Init
    OBVIOUS
  <2>1. FU!UnderWay = << >>
    BY DEF FU!Init, FU!UnderWay
  <2>. QED  BY <2>1 DEF FU!Init, FU!Stream!Init, FU!Wanted
<1>2. FetchInv /\ [FU!Next]_(FU!vars) => [FU!Stream!Next]_(FU!Stream!vars)
  BY CycleStream, FetchStutter DEF FU!Next
<1>. QED  BY <1>1, <1>2, FetchInductive, PTL DEF FU!Spec, FU!ImplementsStream, FU!Stream!Spec

-----------------------------------------------------------------------------
(* The cycle, unit by unit.                                                *)

\* The invariants of the other modules, of the processor.
SNGP == INSTANCE SeqNumGen_proofs WITH MaxInFlight <- NSeq - 1, inflight <- InFlight

RTP == INSTANCE RenameTable_proofs WITH MaxIssued <- NSeq, inflight <- Renamed

\* The wires of Cycle.
complete == complete_notif
commit   == commit_notif
squash   == squash_gnt_notif
target   == IF squash.val THEN <<squash.target>> ELSE << >>
gnt      == WCU!Ex_gnt
rdy      == Ex_rdy(gnt)
to       == DIU!Issues(complete, squash, rdy)
sent     == DIU!X(complete)
F_rdy    == DIU!F_rdy(complete, squash, rdy)
fetched  == FU!D_xfer(F_rdy, SNG!alloc_val, target)
killed   == DIU!should_squash(squash)
retires  == commit.val /\ issued # << >>
asked    == DIU!squash_pub(complete)

\* What fetch transfers.
F_next == [val |-> TRUE, inst |-> prog[Head(resp_fifo)],
           pc |-> Head(resp_fifo), seq_num |-> curr_head_ptr]

\* How an issued instruction is listed.
Entry == [seq_num |-> sent.seq_num, pc |-> sent.pc, op1 |-> sent.op1, op2 |-> sent.op2,
          areg |-> sent.waddr, preg |-> sent.preg, ppreg |-> sent.ppreg, done |-> FALSE]

\* The list after a completion and a retirement.
Completed ==
  [k \in 1 .. Len(issued) |->
    [issued[k] EXCEPT !.done = @ \/ (complete.val /\ complete.seq_num = issued[k].seq_num)]]

Left == IF retires THEN Tail(Completed) ELSE Completed

\* What a cycle does to the fetch unit and the sequence numbers ...
FrontEdge(resp_val) ==
  /\ resp_val => inst_mem # << >>
  /\ FU!Edge(TRUE, resp_val, F_rdy, SNG!alloc_val, target)
  /\ SNG!Edge(fetched, commit, squash)

\* ... to decode ...
DecodeEdge ==
  /\ F_reg' = IF fetched THEN F_next ELSE IF to # {} \/ killed THEN None ELSE F_reg
  /\ jump_sent' = IF fetched THEN FALSE ELSE jump_sent \/ asked.val
  /\ IF to # {} /\ Wen(F_reg.inst)
       THEN DIU!RT!Edge(TRUE, DIU!waddr, DIU!alloc_preg, complete, commit)
       ELSE DIU!RT!Edge(FALSE, 0, 0, complete, commit)
  /\ regs' = DIU!NextRegs(complete)

\* ... to the pipes ...
PipesEdge(finish) ==
  /\ alu_reg' = IF ALU \in to THEN sent
                ELSE IF ALU_XU!in_rdy(ALU \in gnt) THEN None ELSE alu_reg
  /\ alu_buf' =
       LET pushed == IF alu_reg.val /\ ALU_XU!in_rdy(ALU \in gnt)
                     THEN Append(alu_buf, ALU_XU!unit_W) ELSE alu_buf
       IN  IF ALU \in gnt /\ ALU_XU!W.val THEN Tail(pushed) ELSE pushed
  /\ mul_reg' = IF M \in to THEN sent ELSE IF mul_done /\ M \in gnt THEN None ELSE mul_reg
  /\ mul_done' = IF M \in to \/ (mul_done /\ M \in gnt) THEN FALSE
                 ELSE mul_done \/ (mul_reg.val /\ finish)
  /\ IF CTRL \in to THEN \E wen \in CTRL_XU!Wens(sent.uop) : ctrl_reg' = CTRL_XU!Latched(sent, wen)
     ELSE ctrl_reg' = IF CTRL \in gnt THEN None ELSE ctrl_reg
  /\ ctrl_sent' = (CTRL \notin to)

\* ... to the writeback unit, and to the observing variables.
BackEdge ==
  /\ WCU!Edge
  /\ trace' = inst_trace(commit)
  /\ issued' = IF to = {} THEN Left ELSE Append(Left, Entry)
  /\ arch' = IF retires /\ issued[1].areg # 0
             THEN [arch EXCEPT ![issued[1].areg] = issued[1].preg] ELSE arch
  /\ isa_pc' = IF retires THEN ISA!NextPc ELSE isa_pc
  /\ prog' = prog

\* All of it.
AtEdge(resp_val, finish) ==
  FrontEdge(resp_val) /\ DecodeEdge /\ PipesEdge(finish) /\ BackEdge

\* A cycle is that.
LEMMA CycleParts ==
  ASSUME NEW resp_val \in BOOLEAN, NEW finish \in BOOLEAN, Cycle(resp_val, finish)
  PROVE  AtEdge(resp_val, finish)
<1> DEFINE D == [i \in {ALU, M, CTRL} |-> IF i \in to THEN <<sent>> ELSE << >>]
           F == IF fetched THEN <<F_next>> ELSE << >>
<1>1. /\ resp_val => inst_mem # << >>
      /\ FU!Edge(TRUE, resp_val, F_rdy, SNG!alloc_val, target)
      /\ SNG!Edge(F # << >>, commit, squash)
      /\ DIU!Edge(F, complete, commit, squash, rdy)
      /\ ALU_XU!Edge(D[ALU], ALU \in gnt)
      /\ MUL_XU!Edge(D[M], M \in gnt, finish)
      /\ CTRL_XU!Edge(D[CTRL], CTRL \in gnt)
      /\ WCU!Edge
      /\ Observe(complete, commit, IF to = {} THEN << >> ELSE <<sent>>)
      /\ prog' = prog
  BY Zenon DEF Cycle, complete, commit, squash, target, gnt, rdy, to, sent, F_rdy, fetched, F_next
<1>2. (F # << >>) = fetched /\ (fetched => F[1] = F_next)
  BY DEF fetched, FU!D_xfer
<1>3. \A i \in {ALU, M, CTRL} : (D[i] # << >> <=> i \in to) /\ (i \in to => D[i][1] = sent)
  OBVIOUS
<1> HIDE DEF F
<1>4. FrontEdge(resp_val)
  BY <1>1, <1>2, Zenon DEF FrontEdge
<1>5. DecodeEdge
  <2>1. DIU!Wen(F_reg.inst) = Wen(F_reg.inst)
    BY Zenon DEF DIU!Wen, Wen, DIU!Decodes, Decodes, DIU!Subset, Subset, DIU!Branches, Branches,
                 DIU!ALU, ALU, DIU!M, M, DIU!CTRL, CTRL
  <2>. QED  BY <1>1, <1>2, <2>1, Zenon DEF DecodeEdge, DIU!Edge, to, killed, asked, DIU!inst, None, DIU!None
<1> HIDE DEF D, F
<1>6. PipesEdge(finish)
  <2>1. /\ alu_reg' = IF ALU \in to THEN sent
                      ELSE IF ALU_XU!in_rdy(ALU \in gnt) THEN None ELSE alu_reg
        /\ alu_buf' =
             LET pushed == IF alu_reg.val /\ ALU_XU!in_rdy(ALU \in gnt)
                           THEN Append(alu_buf, ALU_XU!unit_W) ELSE alu_buf
             IN  IF ALU \in gnt /\ ALU_XU!W.val THEN Tail(pushed) ELSE pushed
    BY <1>1, <1>3, Zenon DEF ALU_XU!Edge, None, ALU_XU!None
  <2>2. /\ mul_reg' = IF M \in to THEN sent ELSE IF mul_done /\ M \in gnt THEN None ELSE mul_reg
        /\ mul_done' = IF M \in to \/ (mul_done /\ M \in gnt) THEN FALSE
                       ELSE mul_done \/ (mul_reg.val /\ finish)
    BY <1>1, <1>3, Zenon DEF MUL_XU!Edge, None, MUL_XU!None
  <2>3. /\ IF CTRL \in to
             THEN \E wen \in CTRL_XU!Wens(sent.uop) : ctrl_reg' = CTRL_XU!Latched(sent, wen)
             ELSE ctrl_reg' = IF CTRL \in gnt THEN None ELSE ctrl_reg
        /\ ctrl_sent' = (CTRL \notin to)
    BY <1>1, <1>3, Zenon DEF CTRL_XU!Edge, None, CTRL_XU!None
  <2>. QED  BY <2>1, <2>2, <2>3, Zenon DEF PipesEdge
<1>7. BackEdge
  BY <1>1 DEF BackEdge, Observe, retires, Left, Completed, Entry
<1>. QED  BY <1>4, <1>5, <1>6, <1>7 DEF AtEdge

-----------------------------------------------------------------------------
(* The inductive invariant.                                                *)

\* The instructions issued and not yet committed.
Live == 1 .. Len(issued)

EntryType ==
  [seq_num : SeqNum, pc : Addr, op1 : Val, op2 : Val, areg : Areg,
   preg : 0 .. NumPregs - 1, ppreg : 0 .. NumPregs - 1, done : BOOLEAN]

\* What decode holds: an instruction of the program.
Fetched(pc, s) == [val |-> TRUE, inst |-> prog[pc], pc |-> pc, seq_num |-> s]

\* Type invariant of what no other module has a type for.
Types ==
  /\ prog \in [Addr -> Instruction]
  /\ F_reg = None \/ \E pc \in Addr, s \in SeqNum : F_reg = Fetched(pc, s)
  /\ jump_sent \in BOOLEAN /\ ctrl_sent \in BOOLEAN /\ mul_done \in BOOLEAN
  /\ regs \in [1 .. NumPregs - 1 -> Val]
  /\ issued \in Seq(EntryType)

\* Instruction k as decode sent it, and its result.
Op(k) ==
  [val |-> TRUE, pc |-> issued[k].pc, seq_num |-> issued[k].seq_num,
   uop |-> prog[issued[k].pc].uop, op1 |-> issued[k].op1, op2 |-> issued[k].op2,
   imm |-> prog[issued[k].pc].imm, waddr |-> issued[k].areg,
   preg |-> issued[k].preg, ppreg |-> issued[k].ppreg]

\* Whether instruction k writes is decided when a branch pipe takes it.
Wens(uop) == IF uop \in Subset[CTRL] THEN CTRL_XU!Wens(uop) ELSE {TRUE}

Outcome(op, wen) == Offer(op, wen, Result(op.uop, op.pc, op.op1, op.op2))

\* Instruction k is in a pipe.
Running(k, pipe) == ~issued[k].done /\ Op(k).uop \in Subset[pipe]

\* The pipes hold instructions that run, each one once.
AluHolds ==
  /\ alu_reg = None \/ \E k \in Live : Running(k, ALU) /\ alu_reg = Op(k)
  /\ alu_buf = << >> \/ \E k \in Live : /\ Running(k, ALU)
                                        /\ alu_buf = <<Outcome(Op(k), TRUE)>>
                                        /\ alu_reg # Op(k)

MulHolds ==
  /\ mul_reg = None \/ \E k \in Live : Running(k, M) /\ mul_reg = Op(k)
  /\ mul_done => mul_reg.val

CtrlHolds ==
  ctrl_reg = None \/ \E k \in Live : \E wen \in Wens(Op(k).uop) :
                        Running(k, CTRL) /\ ctrl_reg = CTRL_XU!Latched(Op(k), wen)

\* A branch asks for a squash before the next instruction is issued.
BranchIsLast ==
  ctrl_reg.val /\ ~ctrl_sent =>
    Live # {} /\ ctrl_reg.seq_num = issued[Len(issued)].seq_num

\* The writeback register and the reorder buffer hold the results of
\* instructions that are done.
RegisterHolds ==
  X_reg = None \/ \E k \in Live : \E wen \in Wens(Op(k).uop) :
                     issued[k].done /\ X_reg = Outcome(Op(k), wen)

EntryHolds(s) ==
  /\ ~(X_reg.val /\ X_reg.seq_num = s)
  /\ \E k \in Live : \E wen \in Wens(Op(k).uop) :
       /\ issued[k].done /\ issued[k].seq_num = s
       /\ entries[s] = [val |-> TRUE, msg |-> WCU!NoX0(Outcome(Op(k), wen).msg)]

BufferHolds ==
  /\ deq_ptr = oldest_seq_num
  /\ \A s \in SeqNum : entries[s] = None \/ EntryHolds(s)

Holds ==
  AluHolds /\ MulHolds /\ CtrlHolds /\ BranchIsLast /\ RegisterHolds /\ BufferHolds

\* The units keep what they promise each other.
BInv == Types /\ FetchInv /\ SNGP!IInv /\ RTP!FullInv /\ Holds

-----------------------------------------------------------------------------
(* What the invariant says of a state.                                     *)

\* The instances' own copies of the definitions of RV and SeqAge.
LEMMA SameSeqNum ==
  /\ SNGP!SeqNum = SeqNum /\ SNG!SeqNum = SeqNum /\ WCU!SeqNum = SeqNum
  /\ \A s, k : SNGP!Plus(s, k) = Plus(s, k) /\ WCU!Plus(s, k) = Plus(s, k)
  /\ \A s, k : SNGP!Minus(s, k) = Minus(s, k)
BY DEF SNGP!SeqNum, SNG!SeqNum, WCU!SeqNum, SeqNum, SNGP!Plus, WCU!Plus, Plus, SNGP!Minus, Minus

\* How many instructions decode holds.
InDecode == IF F_reg.val THEN 1 ELSE 0

\* The numbers in flight: those of the issued instructions, then decode's.
LEMMA InFlightIs ==
  ASSUME Types
  PROVE  /\ Len(issued) \in Nat
         /\ F_reg.val \in BOOLEAN
         /\ InFlight \in Seq(SeqNum)
         /\ Len(InFlight) = Len(issued) + InDecode
         /\ \A k \in Live : /\ issued[k] \in EntryType
                            /\ InFlight[k] = issued[k].seq_num
         /\ F_reg.val => /\ InFlight[Len(issued) + 1] = F_reg.seq_num
                         /\ F_reg.pc \in Addr /\ F_reg.inst = prog[F_reg.pc]
                         /\ F_reg.inst \in Instruction
<1> DEFINE s == [k \in 1 .. Len(issued) |-> issued[k].seq_num]
           t == IF F_reg.val THEN <<F_reg.seq_num>> ELSE << >>
<1>1. /\ Len(issued) \in Nat
      /\ \A k \in 1 .. Len(issued) : issued[k] \in EntryType
  BY ElementOfSeq, LenProperties DEF Types
<1>2. F_reg.val \in BOOLEAN /\ (F_reg.val => /\ F_reg.seq_num \in SeqNum
                                            /\ F_reg.pc \in Addr /\ F_reg.inst = prog[F_reg.pc]
                                            /\ F_reg.inst \in Instruction)
  <2>1. CASE F_reg = None
    BY <2>1 DEF None
  <2>2. ASSUME NEW pc \in Addr, NEW q \in SeqNum, F_reg = Fetched(pc, q)
        PROVE  /\ F_reg.val = TRUE /\ F_reg.seq_num \in SeqNum
               /\ F_reg.pc \in Addr /\ F_reg.inst = prog[F_reg.pc]
               /\ F_reg.inst \in Instruction
    <3>1. prog[pc] \in Instruction
      BY DEF Types
    <3>. QED  BY <2>2, <3>1 DEF Fetched
  <2>3. F_reg = None \/ \E pc \in Addr, q \in SeqNum : F_reg = Fetched(pc, q)
    BY DEF Types
  <2>. QED  BY <2>1, <2>2, <2>3, Zenon
<1>3. /\ s \in Seq(SeqNum)
      /\ Len(s) = Len(issued)
      /\ \A k \in 1 .. Len(issued) : s[k] = issued[k].seq_num
  BY <1>1 DEF EntryType
<1>4. /\ t \in Seq(SeqNum)
      /\ Len(t) = InDecode
      /\ F_reg.val => t[1] = F_reg.seq_num
  BY <1>2 DEF InDecode
<1> HIDE DEF s, t
<1>5. InFlight = s \o t
  BY DEF InFlight, s, t
<1>6. /\ InFlight \in Seq(SeqNum)
      /\ Len(InFlight) = Len(s) + Len(t)
      /\ \A k \in 1 .. Len(s) + Len(t) : InFlight[k] = IF k <= Len(s) THEN s[k] ELSE t[k - Len(s)]
  BY <1>3, <1>4, <1>5, ConcatProperties
<1>7. F_reg.val => InFlight[Len(issued) + 1] = F_reg.seq_num
  BY <1>1, <1>2, <1>3, <1>4, <1>6 DEF InDecode
<1>. QED  BY <1>1, <1>2, <1>3, <1>4, <1>6, <1>7 DEF Live, InDecode

\* The numbers in flight are different, and count from the oldest one.
LEMMA Numbers ==
  ASSUME Types, SNGP!IInv
  PROVE  /\ oldest_seq_num \in SeqNum
         /\ Len(issued) + InDecode < NSeq
         /\ curr_head_ptr = Plus(oldest_seq_num, Len(issued) + InDecode)
         /\ \A k \in Live : /\ issued[k].seq_num \in SeqNum
                            /\ issued[k].seq_num = Plus(oldest_seq_num, k - 1)
                            /\ Minus(issued[k].seq_num, oldest_seq_num) = k - 1
         /\ F_reg.val => /\ F_reg.seq_num \in SeqNum
                         /\ F_reg.seq_num = Plus(oldest_seq_num, Len(issued))
                         /\ Minus(F_reg.seq_num, oldest_seq_num) = Len(issued)
         /\ \A j, k \in Live : issued[j].seq_num = issued[k].seq_num => j = k
<1>1. /\ oldest_seq_num \in SeqNum
      /\ Len(InFlight) \in Nat /\ Len(InFlight) < NSeq
      /\ \A k \in 1 .. Len(InFlight) : InFlight[k] = Plus(oldest_seq_num, k - 1)
      /\ curr_head_ptr = Plus(oldest_seq_num, Len(InFlight))
  <2>1. /\ oldest_seq_num \in SeqNum /\ curr_tail_ptr \in SeqNum
        /\ InFlight \in Seq(SeqNum)
        /\ Len(InFlight) + Minus(oldest_seq_num, curr_tail_ptr) < NSeq
        /\ \A k \in 1 .. Len(InFlight) : InFlight[k] = Plus(oldest_seq_num, k - 1)
        /\ curr_head_ptr = Plus(oldest_seq_num, Len(InFlight))
    BY SameSeqNum, Zenon DEF SNGP!IInv, SNGP!TypeOK, SNGP!InFlightIsWindow, SNGP!TailFollowsOldest, SNGP!Lag
  <2>2. Minus(oldest_seq_num, curr_tail_ptr) \in Nat
    BY <2>1, MinusType DEF SeqNum
  <2>3. Len(InFlight) \in Nat
    BY <2>1, LenProperties
  <2>. QED  BY <2>1, <2>2, <2>3, NSeqAssumption
<1>2. /\ Len(issued) \in Nat
      /\ Len(InFlight) = Len(issued) + InDecode
      /\ \A k \in Live : InFlight[k] = issued[k].seq_num
      /\ F_reg.val => InFlight[Len(issued) + 1] = F_reg.seq_num
      /\ InDecode \in {0, 1} /\ (F_reg.val => InDecode = 1)
  BY InFlightIs DEF InDecode
<1>3. ASSUME NEW k \in 1 .. Len(InFlight)
      PROVE  /\ InFlight[k] = Plus(oldest_seq_num, k - 1)
             /\ InFlight[k] \in SeqNum
             /\ Minus(InFlight[k], oldest_seq_num) = k - 1
  <2>1. k - 1 \in SeqNum
    BY <1>1, NSeqAssumption DEF SeqNum
  <2>2. k - 1 \in 0 .. NSeq
    BY <2>1, NSeqAssumption DEF SeqNum
  <2>3. InFlight[k] = Plus(oldest_seq_num, k - 1)
    BY <1>1
  <2>4. Plus(oldest_seq_num, k - 1) \in SeqNum
    BY <1>1, <2>2, PlusType, Zenon
  <2>5. Minus(Plus(oldest_seq_num, k - 1), oldest_seq_num) = k - 1
    BY <1>1, <2>1, MinusPlus, Zenon
  <2>. QED  BY <2>3, <2>4, <2>5, Zenon
<1>4. ASSUME NEW k \in Live
      PROVE  /\ issued[k].seq_num \in SeqNum
             /\ issued[k].seq_num = Plus(oldest_seq_num, k - 1)
             /\ Minus(issued[k].seq_num, oldest_seq_num) = k - 1
  BY <1>2, <1>3 DEF Live
<1>5. ASSUME F_reg.val
      PROVE  /\ F_reg.seq_num \in SeqNum
             /\ F_reg.seq_num = Plus(oldest_seq_num, Len(issued))
             /\ Minus(F_reg.seq_num, oldest_seq_num) = Len(issued)
  <2>1. Len(issued) + 1 \in 1 .. Len(InFlight) /\ Len(issued) + 1 - 1 = Len(issued)
    BY <1>2, <1>5
  <2>. QED  BY <1>2, <1>3, <1>5, <2>1
<1>6. ASSUME NEW j \in Live, NEW k \in Live, issued[j].seq_num = issued[k].seq_num
      PROVE  j = k
  BY <1>2, <1>4, <1>6 DEF Live
<1>. QED  BY <1>1, <1>2, <1>4, <1>5, <1>6

\* The pipes take different operations.
LEMMA PipesAre ==
  /\ ALU = 0 /\ M = 1 /\ CTRL = 2
  /\ Subset[ALU] = {"ADD", "SUB", "LUI", "AUIPC"}
  /\ Subset[M] = {"MUL"}
  /\ Subset[CTRL] = {"JAL", "JALR", "BEQ", "BNE", "BLTU", "BGEU"}
  /\ \A i, j \in {ALU, M, CTRL} : \A u : u \in Subset[i] /\ u \in Subset[j] => i = j
<1>1. ALU = 0 /\ M = 1 /\ CTRL = 2
  BY DEF ALU, M, CTRL
<1>2. /\ Subset[0] = {"ADD", "SUB", "LUI", "AUIPC"}
      /\ Subset[1] = {"MUL"}
      /\ Subset[2] = {"JAL", "JALR", "BEQ", "BNE", "BLTU", "BGEU"}
  BY <1>1 DEF Subset
<1>3. \A i, j \in {0, 1, 2} : \A u : u \in Subset[i] /\ u \in Subset[j] => i = j
  BY <1>2
<1>. QED  BY <1>1, <1>2, <1>3, Zenon

\* The pipes compute what RV does.
LEMMA SameOps ==
  /\ \A D, w, r : /\ ALU_XU!Offer(D, w, r) = Offer(D, w, r)
                  /\ MUL_XU!Offer(D, w, r) = Offer(D, w, r)
                  /\ CTRL_XU!Offer(D, w, r) = Offer(D, w, r)
  /\ \A u, p, a, b : /\ ALU_XU!Result(u, p, a, b) = Result(u, p, a, b)
                     /\ MUL_XU!Result(u, p, a, b) = Result(u, p, a, b)
                     /\ CTRL_XU!Result(u, p, a, b) = Result(u, p, a, b)
<1>1. \A D, w, r : /\ ALU_XU!Offer(D, w, r) = Offer(D, w, r)
                   /\ MUL_XU!Offer(D, w, r) = Offer(D, w, r)
                   /\ CTRL_XU!Offer(D, w, r) = Offer(D, w, r)
  BY Zenon DEF ALU_XU!Offer, MUL_XU!Offer, CTRL_XU!Offer, Offer
<1>2. /\ \A n : ALU_XU!Wrap(n) = Wrap(n)
      /\ \A n : MUL_XU!Wrap(n) = Wrap(n)
      /\ \A n : CTRL_XU!Wrap(n) = Wrap(n)
  BY Zenon DEF ALU_XU!Wrap, MUL_XU!Wrap, CTRL_XU!Wrap, Wrap
<1>3. \A u, p, a, b : ALU_XU!Result(u, p, a, b) = Result(u, p, a, b)
  BY <1>2, Zenon DEF ALU_XU!Result, Result
<1>4. \A u, p, a, b : MUL_XU!Result(u, p, a, b) = Result(u, p, a, b)
  BY <1>2, Zenon DEF MUL_XU!Result, Result
<1>5. \A u, p, a, b : CTRL_XU!Result(u, p, a, b) = Result(u, p, a, b)
  BY <1>2, Zenon DEF CTRL_XU!Result, Result
<1>. QED  BY <1>1, <1>3, <1>4, <1>5, Zenon

\* Every unit has the same empty register.
LEMMA NoneIs ==
  /\ None.val = FALSE
  /\ ALU_XU!None = None /\ MUL_XU!None = None /\ CTRL_XU!None = None
  /\ DIU!None = None /\ WCU!None = None
BY DEF None, ALU_XU!None, MUL_XU!None, CTRL_XU!None, DIU!None, WCU!None

\* What a pipe offers of instruction k.
LEMMA OutcomeIs ==
  ASSUME NEW k, NEW wen
  PROVE  LET o == Outcome(Op(k), wen)
         IN  /\ o.val = TRUE
             /\ o.seq_num = issued[k].seq_num
             /\ o = [val |-> TRUE, seq_num |-> o.seq_num, msg |-> o.msg]
             /\ o.msg = [pc |-> issued[k].pc, waddr |-> issued[k].areg,
                         wdata |-> Result(Op(k).uop, issued[k].pc, issued[k].op1, issued[k].op2),
                         wen |-> wen, preg |-> issued[k].preg, ppreg |-> issued[k].ppreg]
BY Zenon DEF Outcome, Offer, Op

\* What pipe i offers is the result of instruction k, which is in that pipe.
Offers(i, k, wen) ==
  /\ Running(k, i)
  /\ W[i] = Outcome(Op(k), wen)
  /\ i = ALU => \/ alu_buf = << >> /\ alu_reg = Op(k)
                \/ alu_buf = <<W[i]>> /\ alu_reg # Op(k)
  /\ i = M => mul_reg = Op(k) /\ mul_done
  /\ i = CTRL => ctrl_reg = CTRL_XU!Latched(Op(k), wen)

\* The interfaces, one by one.
LEMMA WIs == W[ALU] = ALU_XU!W /\ W[M] = MUL_XU!W /\ W[CTRL] = CTRL_XU!W
<1>1. W = [i \in {0, 1, 2} |-> CASE i = 0 -> ALU_XU!W [] i = 1 -> MUL_XU!W [] i = 2 -> CTRL_XU!W]
  BY Zenon DEF W, ALU, M, CTRL
<1>2. W[0] = ALU_XU!W /\ W[1] = MUL_XU!W /\ W[2] = CTRL_XU!W
  BY <1>1
<1>. QED  BY <1>2, PipesAre, Zenon

\* A pipe offers nothing, or the result of an instruction it holds.
LEMMA PipeOffers ==
  ASSUME AluHolds, MulHolds, CtrlHolds, NEW i \in {ALU, M, CTRL}
  PROVE  W[i] = None \/ \E k \in Live : \E wen \in Wens(Op(k).uop) : Offers(i, k, wen)
<1>1. CASE i = ALU
  <2>0. W[i] = IF alu_buf = << >> THEN ALU_XU!unit_W ELSE Head(alu_buf)
    BY <1>1, WIs, Zenon DEF ALU_XU!W
  <2>w. \A k : Running(k, ALU) => TRUE \in Wens(Op(k).uop)
    <3>1. \A u : u \in Subset[ALU] => u \notin Subset[CTRL]
      BY PipesAre
    <3>. QED  BY <3>1, Zenon DEF Wens, Running
  <2>1. CASE alu_buf = << >> /\ alu_reg = None
    BY <2>0, <2>1, NoneIs, Zenon DEF ALU_XU!unit_W
  <2>2. ASSUME NEW k \in Live, alu_buf = << >>, Running(k, ALU), alu_reg = Op(k)
        PROVE  Offers(i, k, TRUE)
    <3>1. Op(k).val = TRUE
      BY DEF Op
    <3>2. W[i] = Outcome(Op(k), TRUE)
      BY <2>0, <2>2, <3>1, SameOps, Zenon DEF ALU_XU!unit_W, Outcome
    <3>. QED  BY <1>1, <2>2, <3>2, PipesAre, Zenon DEF Offers
  <2>3. ASSUME NEW k \in Live, alu_buf # << >>, Running(k, ALU), alu_buf = <<Outcome(Op(k), TRUE)>>,
               alu_reg # Op(k)
        PROVE  Offers(i, k, TRUE)
    <3>1. W[i] = Outcome(Op(k), TRUE)
      BY <2>0, <2>3
    <3>. QED  BY <1>1, <2>3, <3>1, PipesAre DEF Offers
  <2>. QED  BY <2>1, <2>2, <2>3, <2>w, Zenon DEF AluHolds
<1>2. CASE i = M
  <2>0. W[i] = MUL_XU!W
    BY <1>2, WIs, Zenon
  <2>w. \A k : Running(k, M) => TRUE \in Wens(Op(k).uop)
    <3>1. \A u : u \in Subset[M] => u \notin Subset[CTRL]
      BY PipesAre
    <3>. QED  BY <3>1, Zenon DEF Wens, Running
  <2>1. CASE ~mul_done
    BY <2>0, <2>1, NoneIs, Zenon DEF MUL_XU!W
  <2>2. ASSUME NEW k \in Live, mul_done, Running(k, M), mul_reg = Op(k)
        PROVE  Offers(i, k, TRUE)
    <3>2. W[i] = Outcome(Op(k), TRUE)
      BY <2>0, <2>2, SameOps, Zenon DEF MUL_XU!W, Outcome
    <3>. QED  BY <1>2, <2>2, <3>2, PipesAre DEF Offers
  <2>. QED  BY <2>1, <2>2, <2>w, NoneIs, Zenon DEF MulHolds
<1>3. CASE i = CTRL
  <2>0. W[i] = CTRL_XU!W
    BY <1>3, WIs, Zenon
  <2>1. CASE ctrl_reg = None
    BY <2>0, <2>1, NoneIs, Zenon DEF CTRL_XU!W
  <2>2. ASSUME NEW k \in Live, NEW wen \in Wens(Op(k).uop),
               Running(k, CTRL), ctrl_reg = CTRL_XU!Latched(Op(k), wen)
        PROVE  Offers(i, k, wen)
    <3>1. /\ ctrl_reg.val = TRUE /\ ctrl_reg.wen = wen /\ ctrl_reg.seq_num = Op(k).seq_num
          /\ ctrl_reg.uop = Op(k).uop /\ ctrl_reg.pc = Op(k).pc /\ ctrl_reg.op1 = Op(k).op1
          /\ ctrl_reg.op2 = Op(k).op2 /\ ctrl_reg.waddr = Op(k).waddr
          /\ ctrl_reg.preg = Op(k).preg /\ ctrl_reg.ppreg = Op(k).ppreg
      BY <2>2, Zenon DEF CTRL_XU!Latched
    <3>2. W[i] = Outcome(Op(k), wen)
      BY <2>0, <3>1, SameOps, Zenon DEF CTRL_XU!W, Outcome, Offer
    <3>. QED  BY <1>3, <2>2, <3>2, PipesAre DEF Offers
  <2>. QED  BY <2>1, <2>2, Zenon DEF CtrlHolds
<1>. QED  BY <1>1, <1>2, <1>3, Zenon

\* The arbiter sees what the pipes offer.
LEMMA ExIs ==
  ASSUME NEW i \in {ALU, M, CTRL}
  PROVE  /\ i \in 0 .. 2
         /\ WCU!Ex[i] = IF W[i].val THEN [val |-> TRUE, seq_num |-> W[i].seq_num, msg |-> W[i].msg]
                        ELSE WCU!Idle
<1>1. i \in 0 .. 2 /\ {ALU, M, CTRL} = 0 .. 2
  BY PipesAre
<1>2. Len(Offered) = 3 /\ WCU!Live = 1 .. 3
  BY DEF Offered, WCU!Live
<1>3. \A k \in 1 .. 3 :
        Offered[k] = IF W[k - 1].val
                     THEN [seq_num |-> W[k - 1].seq_num, msg |-> W[k - 1].msg, at |-> k - 1]
                     ELSE [at |-> 3]
  BY DEF Offered
<1>x. \A j \in 0 .. 2 : W[j].val =>
        Offered[j + 1] = [seq_num |-> W[j].seq_num, msg |-> W[j].msg, at |-> j]
  <2> SUFFICES ASSUME NEW j \in 0 .. 2, W[j].val
               PROVE  Offered[j + 1] = [seq_num |-> W[j].seq_num, msg |-> W[j].msg, at |-> j]
    OBVIOUS
  <2> DEFINE k == j + 1
  <2>1. k \in 1 .. 3 /\ k - 1 = j
    OBVIOUS
  <2> HIDE DEF k
  <2>2. Offered[k] = IF W[k - 1].val
                     THEN [seq_num |-> W[k - 1].seq_num, msg |-> W[k - 1].msg, at |-> k - 1]
                     ELSE [at |-> 3]
    BY <1>3, <2>1, Zenon
  <2>3. Offered[k] = [seq_num |-> W[j].seq_num, msg |-> W[j].msg, at |-> j]
    BY <2>1, <2>2, Zenon
  <2>. QED  BY <2>3 DEF k
<1>4. \A k \in 1 .. 3 : Offered[k].at = IF W[k - 1].val THEN k - 1 ELSE 3
  BY <1>3
<1>5. WCU!OfferedBy(i) = IF W[i].val THEN {i + 1} ELSE {}
  <2>1. WCU!OfferedBy(i) = {k \in 1 .. 3 : Offered[k].at = i}
    BY <1>2, Zenon DEF WCU!OfferedBy
  <2>. QED  BY <1>1, <1>4, <2>1
<1>6. WCU!Ex[i] = IF WCU!OfferedBy(i) = {} THEN WCU!Idle
                  ELSE LET k == CHOOSE k \in WCU!OfferedBy(i) : TRUE
                       IN  [val |-> TRUE, seq_num |-> Offered[k].seq_num, msg |-> Offered[k].msg]
  <2>1. i \in WCU!Pipes
    BY <1>1 DEF WCU!Pipes
  <2>. QED  BY <2>1, Zenon DEF WCU!Ex
<1>7. CASE W[i].val
  <2>1. (CHOOSE k \in {i + 1} : TRUE) = i + 1
    OBVIOUS
  <2>3. Offered[i + 1] = [seq_num |-> W[i].seq_num, msg |-> W[i].msg, at |-> i]
    BY <1>1, <1>x, <1>7, Zenon
  <2>4. WCU!Ex[i] = [val |-> TRUE, seq_num |-> Offered[i + 1].seq_num, msg |-> Offered[i + 1].msg]
    BY <1>5, <1>6, <1>7, <2>1
  <2>. QED  BY <1>1, <1>7, <2>3, <2>4
<1>8. CASE ~W[i].val
  BY <1>1, <1>5, <1>6, <1>8
<1>. QED  BY <1>7, <1>8

\* Instruction k completes with its result, which its pipe offers.
Completes(i, k, wen) ==
  /\ i \in gnt /\ Offers(i, k, wen)
  /\ WCU!complete = Outcome(Op(k), wen)
  /\ complete = [val |-> TRUE, seq_num |-> issued[k].seq_num, areg |-> issued[k].areg,
                 preg |-> issued[k].preg, ppreg |-> issued[k].ppreg, wen |-> wen,
                 wdata |-> Result(Op(k).uop, issued[k].pc, issued[k].op1, issued[k].op2)]

\* Nothing completes, or an instruction that runs does.
LEMMA CompleteShape ==
  ASSUME AluHolds, MulHolds, CtrlHolds
  PROVE  \/ WCU!complete = None /\ complete = NoNotif
         \/ \E i \in {ALU, M, CTRL}, k \in Live : \E wen \in Wens(Op(k).uop) : Completes(i, k, wen)
<1>1. CASE gnt = {}
  <2>1. WCU!complete = None
    BY <1>1, NoneIs, Zenon DEF WCU!complete, gnt
  <2>. QED  BY <2>1, NoneIs, Zenon DEF complete, complete_notif, Notif
<1>2. CASE gnt # {}
  <2>1. PICK i \in gnt : WCU!complete = WCU!Ex[i]
    BY <1>2, Zenon DEF WCU!complete, gnt
  <2>2. i \in {ALU, M, CTRL} /\ WCU!Ex[i].val
    <3>1. i \in 0 .. 3 - 1 /\ WCU!Ex[i].val
      BY <2>1 DEF gnt, WCU!Ex_gnt, WCU!Granted
    <3>2. 0 .. 3 - 1 = {ALU, M, CTRL}
      BY PipesAre
    <3>. QED  BY <3>1, <3>2, Zenon
  <2>3. W[i].val
    BY <2>2, ExIs DEF WCU!Idle
  <2>4. PICK k \in Live : \E wen \in Wens(Op(k).uop) : Offers(i, k, wen)
    BY <2>2, <2>3, PipeOffers, NoneIs, Zenon
  <2>5. PICK wen \in Wens(Op(k).uop) : Offers(i, k, wen)
    BY <2>4
  <2>6. WCU!complete = Outcome(Op(k), wen)
    <3>1. WCU!complete = [val |-> TRUE, seq_num |-> W[i].seq_num, msg |-> W[i].msg]
      BY <2>1, <2>2, <2>3, ExIs, Zenon
    <3>2. W[i] = Outcome(Op(k), wen)
      BY <2>5 DEF Offers
    <3> DEFINE o == Outcome(Op(k), wen)
    <3>3. o = [val |-> TRUE, seq_num |-> o.seq_num, msg |-> o.msg]
      BY OutcomeIs, Zenon
    <3> HIDE DEF o
    <3>4. W[i] = o
      BY <3>2 DEF o
    <3>. QED  BY <3>1, <3>3, <3>4, Zenon DEF o
  <2>7. complete = [val |-> TRUE, seq_num |-> issued[k].seq_num, areg |-> issued[k].areg,
                    preg |-> issued[k].preg, ppreg |-> issued[k].ppreg, wen |-> wen,
                    wdata |-> Result(Op(k).uop, issued[k].pc, issued[k].op1, issued[k].op2)]
    <3> DEFINE o == Outcome(Op(k), wen)
    <3>1. complete = [val |-> TRUE, seq_num |-> o.seq_num, areg |-> o.msg.waddr, preg |-> o.msg.preg,
                      ppreg |-> o.msg.ppreg, wen |-> o.msg.wen, wdata |-> o.msg.wdata]
      BY <2>6, OutcomeIs, Zenon DEF complete, complete_notif, Notif
    <3> DEFINE d == Result(Op(k).uop, issued[k].pc, issued[k].op1, issued[k].op2)
    <3>a. /\ o.seq_num = issued[k].seq_num
          /\ o.msg = [pc |-> issued[k].pc, waddr |-> issued[k].areg, wdata |-> d,
                      wen |-> wen, preg |-> issued[k].preg, ppreg |-> issued[k].ppreg]
      BY OutcomeIs, Zenon
    <3> HIDE DEF o, d
    <3>2. /\ o.seq_num = issued[k].seq_num
          /\ o.msg.waddr = issued[k].areg /\ o.msg.preg = issued[k].preg
          /\ o.msg.ppreg = issued[k].ppreg /\ o.msg.wen = wen
          /\ o.msg.wdata = Result(Op(k).uop, issued[k].pc, issued[k].op1, issued[k].op2)
      BY <3>a DEF d
    <3>. QED  BY <3>1, <3>2, Zenon
  <2>8. Completes(i, k, wen)
    BY <2>1, <2>5, <2>6, <2>7, Zenon DEF Completes
  <2>. QED  BY <2>2, <2>8, Zenon
<1>. QED  BY <1>1, <1>2

\* The first instruction commits, with its result.
Commits(wen) ==
  /\ 1 \in Live /\ issued[1].done /\ retires
  /\ issued[1].seq_num = deq_ptr
  /\ WCU!commit = [val |-> TRUE, seq_num |-> issued[1].seq_num,
                   msg |-> WCU!NoX0(Outcome(Op(1), wen).msg)]
  /\ commit = [val |-> TRUE, seq_num |-> issued[1].seq_num, areg |-> issued[1].areg,
               preg |-> issued[1].preg, ppreg |-> issued[1].ppreg,
               wen |-> wen /\ issued[1].areg # 0,
               wdata |-> Result(Op(1).uop, issued[1].pc, issued[1].op1, issued[1].op2)]

\* Nothing commits, or the oldest instruction does, once it is done.
LEMMA CommitShape ==
  ASSUME Types, SNGP!IInv, RegisterHolds, BufferHolds
  PROVE  \/ /\ ~WCU!deq_rdy /\ ~retires
            /\ WCU!commit = None /\ commit = NoNotif
         \/ WCU!deq_rdy /\ \E wen \in Wens(Op(1).uop) : Commits(wen)
<1>0. deq_ptr = oldest_seq_num /\ deq_ptr \in SeqNum
  BY Numbers DEF BufferHolds
<1>1. CASE ~WCU!deq_rdy
  <2>1. WCU!commit = None
    BY <1>1, NoneIs, Zenon DEF WCU!commit
  <2>2. commit = NoNotif
    BY <2>1, NoneIs, Zenon DEF commit, commit_notif, Notif
  <2>3. ~retires
    BY <2>2 DEF retires, NoNotif
  <2>. QED  BY <1>1, <2>1, <2>2, <2>3
<1>2. CASE WCU!deq_rdy
  <2>0. \A k \in Live : issued[k].seq_num = deq_ptr => k = 1
    <3>1. ASSUME NEW k \in Live, issued[k].seq_num = deq_ptr PROVE k = 1
      <4>1. Len(issued) \in Nat /\ 1 \in Live
        BY InFlightIs DEF Live
      <4>2. issued[1].seq_num = deq_ptr
        BY <1>0, <4>1, Numbers, NSeqAssumption DEF Plus, SeqNum
      <4>. QED  BY <3>1, <4>1, <4>2, Numbers
    <3>. QED  BY <3>1
  <2> DEFINE Is(k, wen) ==
               /\ issued[k].done /\ issued[k].seq_num = deq_ptr
               /\ WCU!commit = [val |-> TRUE, seq_num |-> deq_ptr,
                                msg |-> WCU!NoX0(Outcome(Op(k), wen).msg)]
  <2>a. PICK k \in Live : \E wen \in Wens(Op(k).uop) : Is(k, wen)
    <3>1. CASE WCU!bypass
      <4>1. X_reg.val /\ X_reg.seq_num = deq_ptr
        BY <3>1, Zenon DEF WCU!bypass, WCU!ins_en
      <4>2. PICK k \in Live : \E wen \in Wens(Op(k).uop) :
              issued[k].done /\ X_reg = Outcome(Op(k), wen)
        BY <4>1, NoneIs, Zenon DEF RegisterHolds
      <4>3. PICK wen \in Wens(Op(k).uop) : issued[k].done /\ X_reg = Outcome(Op(k), wen)
        BY <4>2
      <4>4. WCU!commit = [val |-> TRUE, seq_num |-> X_reg.seq_num, msg |-> WCU!NoX0(X_reg.msg)]
        BY <1>2, <3>1, Zenon DEF WCU!commit
      <4>5. issued[k].seq_num = deq_ptr
        BY <4>1, <4>3, OutcomeIs, Zenon
      <4>. QED  BY <4>1, <4>3, <4>4, <4>5, Zenon
    <3>2. CASE ~WCU!bypass
      <4>1. entries[deq_ptr].val
        BY <1>2, <3>2, Zenon DEF WCU!deq_rdy
      <4>2. EntryHolds(deq_ptr)
        BY <1>0, <4>1, NoneIs, Zenon DEF BufferHolds
      <4>b. PICK k \in Live : \E wen \in Wens(Op(k).uop) :
              /\ issued[k].done /\ issued[k].seq_num = deq_ptr
              /\ entries[deq_ptr] = [val |-> TRUE, msg |-> WCU!NoX0(Outcome(Op(k), wen).msg)]
        BY <4>2, Zenon DEF EntryHolds
      <4>3. PICK wen \in Wens(Op(k).uop) :
              /\ issued[k].done /\ issued[k].seq_num = deq_ptr
              /\ entries[deq_ptr] = [val |-> TRUE, msg |-> WCU!NoX0(Outcome(Op(k), wen).msg)]
        BY <4>b
      <4>4. WCU!commit = [val |-> TRUE, seq_num |-> deq_ptr, msg |-> entries[deq_ptr].msg]
        BY <1>2, <3>2, Zenon DEF WCU!commit
      <4>5. entries[deq_ptr].msg = WCU!NoX0(Outcome(Op(k), wen).msg)
        BY <4>3
      <4>. QED  BY <4>3, <4>4, <4>5, Zenon
    <3>. QED  BY <3>1, <3>2
  <2>1. PICK wen \in Wens(Op(k).uop) : Is(k, wen)
    BY <2>a
  <2>2. k = 1
    BY <2>0, <2>1
  <2> DEFINE m == WCU!NoX0(Outcome(Op(1), wen).msg)
  <2>3. /\ m.waddr = issued[1].areg /\ m.preg = issued[1].preg
        /\ m.ppreg = issued[1].ppreg /\ m.wen = (wen /\ issued[1].areg # 0)
        /\ m.wdata = Result(Op(1).uop, issued[1].pc, issued[1].op1, issued[1].op2)
    <3> DEFINE r == Outcome(Op(1), wen).msg
               d == Result(Op(1).uop, issued[1].pc, issued[1].op1, issued[1].op2)
    <3>1. r = [pc |-> issued[1].pc, waddr |-> issued[1].areg, wdata |-> d,
               wen |-> wen, preg |-> issued[1].preg, ppreg |-> issued[1].ppreg]
      BY OutcomeIs
    <3>2. m = [r EXCEPT !.wen = @ /\ r.waddr # 0]
      BY Zenon DEF WCU!NoX0
    <3> HIDE DEF r, d, m
    <3>. QED  BY <3>1, <3>2 DEF d
  <2> HIDE DEF m
  <2>4. commit = [val |-> TRUE, seq_num |-> issued[1].seq_num, areg |-> issued[1].areg,
                  preg |-> issued[1].preg, ppreg |-> issued[1].ppreg,
                  wen |-> wen /\ issued[1].areg # 0,
                  wdata |-> Result(Op(1).uop, issued[1].pc, issued[1].op1, issued[1].op2)]
    <3>1. WCU!commit.val = TRUE /\ WCU!commit.seq_num = issued[1].seq_num /\ WCU!commit.msg = m
      BY <2>1, <2>2 DEF m
    <3>2. commit = [val |-> TRUE, seq_num |-> issued[1].seq_num, areg |-> m.waddr,
                    preg |-> m.preg, ppreg |-> m.ppreg, wen |-> m.wen, wdata |-> m.wdata]
      BY <3>1, Zenon DEF commit, commit_notif, Notif
    <3>. QED  BY <3>2, <2>3, Zenon
  <2>5. retires
    <3>1. issued # << >>
      BY <2>2 DEF Live
    <3>2. commit.val
      BY <2>4, Zenon
    <3>. QED  BY <3>1, <3>2 DEF retires
  <2>6. Commits(wen) /\ wen \in Wens(Op(1).uop)
    BY <2>1, <2>2, <2>4, <2>5, Zenon DEF Commits, m
  <2>. QED  BY <1>2, <2>6, Zenon
<1>. QED  BY <1>1, <1>2

-----------------------------------------------------------------------------
(* Squashes and issue.                                                     *)

\* The squash a branch asks for.
branch == CTRL_XU!squash

\* What asks for a squash: the jump in decode, or the branch issued last; and
\* of the two the branch gets it, which is older.
LEMMA SquashShape ==
  ASSUME Types, SNGP!IInv, BranchIsLast
  PROVE  /\ asked.val \in BOOLEAN /\ (asked.val => F_reg.val /\ asked.seq_num = F_reg.seq_num)
         /\ branch.val \in BOOLEAN
         /\ branch.val => /\ Len(issued) \in Live /\ ctrl_reg.val /\ ~ctrl_sent
                          /\ branch.seq_num = issued[Len(issued)].seq_num
                          /\ ctrl_reg.seq_num = issued[Len(issued)].seq_num
         /\ \/ ~asked.val /\ ~branch.val /\ ~squash.val
            \/ branch.val /\ squash = branch
            \/ asked.val /\ ~branch.val /\ squash = asked
<1>1. /\ asked.val \in BOOLEAN /\ (asked.val => F_reg.val /\ asked.seq_num = F_reg.seq_num)
      /\ ~asked.val => asked.seq_num = 0
  BY DEF asked, DIU!squash_pub
<1>2. /\ branch.val \in BOOLEAN /\ (branch.val => /\ ctrl_reg.val /\ ~ctrl_sent
                                                 /\ branch.seq_num = ctrl_reg.seq_num)
      /\ ~branch.val => branch.seq_num = 0
  BY DEF branch, CTRL_XU!squash
<1>3. branch.val => /\ Len(issued) \in Live
                    /\ ctrl_reg.seq_num = issued[Len(issued)].seq_num
                    /\ branch.seq_num = issued[Len(issued)].seq_num
  BY <1>2, InFlightIs DEF BranchIsLast, Live
<1> DEFINE req == [i \in {0, 1} |-> IF i = 0 THEN asked ELSE branch]
<1>4. /\ squash = SquashUnitL1(oldest_seq_num, req, 2)
      /\ req[0] = asked /\ req[1] = branch
  BY DEF squash, squash_gnt_notif, asked, complete, branch
<1> HIDE DEF req
<1>5. /\ branch.val => /\ branch.seq_num \in SeqNum
                       /\ Minus(branch.seq_num, oldest_seq_num) = Len(issued) - 1
      /\ asked.val => /\ asked.seq_num \in SeqNum
                      /\ Minus(asked.seq_num, oldest_seq_num) = Len(issued)
      /\ 0 \in SeqNum /\ Len(issued) \in Nat
  <2>1. 0 \in SeqNum
    BY NSeqAssumption DEF SeqNum
  <2>. QED  BY <1>1, <1>2, <1>3, <2>1, Numbers, InFlightIs
<1>6. Requests(req, 2)
  <2>1. \A i \in 0 .. 1 : i = 0 \/ i = 1
    OBVIOUS
  <2>2. branch.val /\ asked.val => branch.seq_num # asked.seq_num
    BY <1>5
  <2>3. \A i \in 0 .. 1 : req[i].val \in BOOLEAN /\ req[i].seq_num \in SeqNum
    BY <1>1, <1>2, <1>4, <1>5, <2>1
  <2>4. \A i, j \in 0 .. 1 :
          req[i].val /\ req[j].val /\ req[i].seq_num = req[j].seq_num => i = j
    BY <1>4, <2>1, <2>2
  <2>. QED  BY <2>3, <2>4 DEF Requests
<1>7. IsOldest(oldest_seq_num, req, 2, squash)
  <2>1. oldest_seq_num \in SeqNum /\ 2 \in Nat \ {0}
    BY Numbers
  <2>. QED  BY <2>1, <1>4, <1>6, TreeRootIsOldest
<1>8. /\ squash.val <=> asked.val \/ branch.val
      /\ squash.val => \/ asked.val /\ squash = asked
                          /\ (branch.val => Precedes(oldest_seq_num, asked.seq_num, branch.seq_num))
                       \/ branch.val /\ squash = branch
  <2> DEFINE valid == {i \in 0 .. 1 : req[i].val}
  <2>1. /\ squash.val <=> valid # {}
        /\ squash.val => \E i \in valid : /\ req[i] = squash
                                          /\ \A j \in valid \ {i} :
                                               Precedes(oldest_seq_num, squash.seq_num, req[j].seq_num)
    BY <1>7 DEF IsOldest
  <2>2. /\ 0 \in valid <=> asked.val
        /\ 1 \in valid <=> branch.val
        /\ \A i \in valid : i = 0 \/ i = 1
    BY <1>4
  <2> HIDE DEF valid
  <2>. QED  BY <1>4, <2>1, <2>2, Zenon
<1>9. ~(asked.val /\ branch.val /\ Precedes(oldest_seq_num, asked.seq_num, branch.seq_num))
  BY <1>5 DEF Precedes
<1>. QED  BY <1>1, <1>2, <1>3, <1>8, <1>9, Zenon

\* A squash kills the instruction in decode when it is a branch's.
LEMMA KilledIs ==
  ASSUME Types, SNGP!IInv, BranchIsLast
  PROVE  killed <=> F_reg.val /\ branch.val
<1>1. killed <=> F_reg.val /\ squash.val /\ IsOlder(oldest_seq_num, squash.seq_num, F_reg.seq_num)
  BY Zenon DEF killed, DIU!should_squash, DIU!IsOlder, IsOlder
<1>2. ASSUME F_reg.val, branch.val
      PROVE  squash.val /\ IsOlder(oldest_seq_num, squash.seq_num, F_reg.seq_num)
  <2>1. squash = branch /\ squash.val /\ branch.seq_num = issued[Len(issued)].seq_num
        /\ Len(issued) \in Live
    BY <1>2, SquashShape
  <2>2. /\ Minus(branch.seq_num, oldest_seq_num) = Len(issued) - 1 /\ branch.seq_num \in SeqNum
        /\ Minus(F_reg.seq_num, oldest_seq_num) = Len(issued) /\ F_reg.seq_num \in SeqNum
        /\ oldest_seq_num \in SeqNum
    BY <1>2, <2>1, Numbers
  <2>3. Precedes(oldest_seq_num, branch.seq_num, F_reg.seq_num)
    BY <2>2, InFlightIs DEF Precedes
  <2>. QED  BY <2>1, <2>2, <2>3, IsOlderIsPrecedes
<1>3. ASSUME F_reg.val, ~branch.val, squash.val
      PROVE  ~IsOlder(oldest_seq_num, squash.seq_num, F_reg.seq_num)
  <2>1. squash.seq_num = F_reg.seq_num
    BY <1>3, SquashShape
  <2>2. F_reg.seq_num \in SeqNum /\ oldest_seq_num \in SeqNum
        /\ Minus(F_reg.seq_num, oldest_seq_num) \in Nat
    BY <1>3, Numbers, InFlightIs
  <2>. QED  BY <2>1, <2>2, IsOlderIsPrecedes DEF Precedes
<1>. QED  BY <1>1, <1>2, <1>3, SquashShape

\* No issued instruction is younger than what squashes.
LEMMA SquashSparesIssued ==
  ASSUME Types, SNGP!IInv, BranchIsLast, squash.val, NEW k \in Live
  PROVE  ~IsOlder(oldest_seq_num, squash.seq_num, issued[k].seq_num)
<1>1. /\ squash.seq_num \in SeqNum
      /\ Minus(squash.seq_num, oldest_seq_num) \in Nat
      /\ Minus(squash.seq_num, oldest_seq_num) >= Len(issued) - 1
  <2>1. CASE branch.val
    <3>1. squash = branch /\ Len(issued) \in Live
          /\ branch.seq_num = issued[Len(issued)].seq_num
      BY <2>1, SquashShape
    <3>. QED  BY <3>1, Numbers, InFlightIs DEF Live
  <2>2. CASE ~branch.val
    <3>1. F_reg.val /\ squash.seq_num = F_reg.seq_num
      BY <2>2, SquashShape
    <3>. QED  BY <3>1, Numbers, InFlightIs
  <2>. QED  BY <2>1, <2>2
<1>2. issued[k].seq_num \in SeqNum /\ oldest_seq_num \in SeqNum
      /\ Minus(issued[k].seq_num, oldest_seq_num) = k - 1
  BY Numbers
<1>3. ~Precedes(oldest_seq_num, squash.seq_num, issued[k].seq_num)
  BY <1>1, <1>2, InFlightIs DEF Precedes, Live
<1>. QED  BY <1>1, <1>2, <1>3, IsOlderIsPrecedes

\* Decode sends an instruction to one pipe at most, and to the one that takes
\* it and can.
LEMMA IssueShape ==
  /\ to \subseteq {ALU, M, CTRL}
  /\ \A i \in to : /\ to = {i} /\ i \in rdy
                   /\ F_reg.val /\ F_reg.inst.uop \in Subset[i]
                   /\ ~DIU!stall_pending(complete) /\ ~killed
<1>1. DIU!Subset = Subset
  BY Zenon DEF DIU!Subset, Subset, DIU!ALU, ALU, DIU!M, M, DIU!CTRL, CTRL
<1>2. rdy \subseteq {ALU, M, CTRL}
  BY Zenon DEF rdy, Ex_rdy
<1>3. \A i \in to : /\ i \in rdy /\ F_reg.val /\ F_reg.inst.uop \in Subset[i]
                    /\ ~DIU!stall_pending(complete) /\ ~killed
  BY <1>1, Zenon DEF to, DIU!Issues, DIU!inst, killed
<1>4. ASSUME NEW i \in to, NEW j \in to PROVE i = j
  <2>1. i \in {ALU, M, CTRL} /\ j \in {ALU, M, CTRL}
    BY <1>2, <1>3, Zenon
  <2>2. F_reg.inst.uop \in Subset[i] /\ F_reg.inst.uop \in Subset[j]
    BY <1>3, Zenon
  <2>3. \A h, k \in {ALU, M, CTRL} : \A u : u \in Subset[h] /\ u \in Subset[k] => h = k
    BY PipesAre
  <2>. QED  BY <2>1, <2>2, <2>3, Zenon
<1>. QED  BY <1>2, <1>3, <1>4

\* Which pipes can take an instruction.
LEMMA RdyIs ==
  /\ ALU \in rdy => ALU_XU!in_rdy(ALU \in gnt) \/ ~alu_reg.val
  /\ M \in rdy => ~mul_reg.val \/ (mul_done /\ M \in gnt)
  /\ CTRL \in rdy => CTRL \in gnt \/ ~ctrl_reg.val
<1>0. ALU = 0 /\ M = 1 /\ CTRL = 2
  BY PipesAre
<1>1. rdy = {i \in {0, 1, 2} : CASE i = 0 -> ALU_XU!D_rdy(0 \in gnt)
                                [] i = 1 -> MUL_XU!D_rdy(1 \in gnt)
                                [] i = 2 -> CTRL_XU!D_rdy(2 \in gnt)}
  BY Zenon DEF rdy, Ex_rdy, ALU, M, CTRL
<1>2. /\ 0 \in rdy => ALU_XU!D_rdy(0 \in gnt)
      /\ 1 \in rdy => MUL_XU!D_rdy(1 \in gnt)
      /\ 2 \in rdy => CTRL_XU!D_rdy(2 \in gnt)
  <2> DEFINE a == ALU_XU!D_rdy(0 \in gnt)
             b == MUL_XU!D_rdy(1 \in gnt)
             c == CTRL_XU!D_rdy(2 \in gnt)
  <2>1. rdy = {i \in {0, 1, 2} : CASE i = 0 -> a [] i = 1 -> b [] i = 2 -> c}
    BY <1>1
  <2> HIDE DEF a, b, c
  <2>2. (0 \in rdy => a) /\ (1 \in rdy => b) /\ (2 \in rdy => c)
    BY <2>1
  <2>. QED  BY <2>2 DEF a, b, c
<1>. QED  BY <1>0, <1>2, Zenon DEF ALU_XU!D_rdy, MUL_XU!D_rdy, CTRL_XU!D_rdy

-----------------------------------------------------------------------------
(* The types of what is computed and issued.                               *)

\* A result is a value.
LEMMA ResultType ==
  ASSUME NEW u, NEW pc \in Addr, NEW a \in Val, NEW b \in Val
  PROVE  Result(u, pc, a, b) \in Val
<1>1. \A x \in Int : Wrap(x) \in Val
  BY AddrAssumption DEF Wrap, Val, Addr
<1>2. a + b \in Int /\ a - b \in Int /\ pc + b \in Int /\ pc + 1 \in Int
  BY AddrAssumption DEF Val, Addr
<1>3. a * b \in Int
  <2>1. a \in Int /\ b \in Int
    BY AddrAssumption DEF Val, Addr
  <2>. QED  BY <2>1
<1> DEFINE w(x) == Wrap(x)
<1>4. /\ Wrap(a + b) \in Val /\ Wrap(a - b) \in Val /\ Wrap(pc + b) \in Val
      /\ Wrap(a * b) \in Val /\ Wrap(pc + 1) \in Val
  BY <1>1, <1>2, <1>3, Zenon
<1>. QED  BY <1>4 DEF Result

\* What completes writes a value to a physical register.
LEMMA CompleteType ==
  ASSUME Types, AluHolds, MulHolds, CtrlHolds
  PROVE  /\ complete.val \in BOOLEAN
         /\ complete.val => /\ complete.wen \in BOOLEAN /\ complete.wdata \in Val
                            /\ complete.preg \in 0 .. NumPregs - 1
                            /\ complete.ppreg \in 0 .. NumPregs - 1
<1>1. CASE complete = NoNotif
  BY <1>1 DEF NoNotif
<1>2. ASSUME NEW i \in {ALU, M, CTRL}, NEW k \in Live, NEW wen \in Wens(Op(k).uop), Completes(i, k, wen)
      PROVE  /\ complete.val = TRUE /\ complete.wen \in BOOLEAN /\ complete.wdata \in Val
             /\ complete.preg \in 0 .. NumPregs - 1
             /\ complete.ppreg \in 0 .. NumPregs - 1
  <2>1. issued[k] \in EntryType
    BY InFlightIs
  <2>2. /\ issued[k].pc \in Addr /\ issued[k].op1 \in Val /\ issued[k].op2 \in Val
        /\ issued[k].preg \in 0 .. NumPregs - 1 /\ issued[k].ppreg \in 0 .. NumPregs - 1
    BY <2>1 DEF EntryType
  <2>3. wen \in BOOLEAN
    BY DEF Wens, CTRL_XU!Wens
  <2> DEFINE d == Result(Op(k).uop, issued[k].pc, issued[k].op1, issued[k].op2)
  <2>4. d \in Val
    BY <2>2, ResultType
  <2>5. complete = [val |-> TRUE, seq_num |-> issued[k].seq_num, areg |-> issued[k].areg,
                    preg |-> issued[k].preg, ppreg |-> issued[k].ppreg, wen |-> wen, wdata |-> d]
    BY <1>2, Zenon DEF Completes
  <2> HIDE DEF d
  <2>. QED  BY <2>2, <2>3, <2>4, <2>5
<1>. QED  BY <1>1, <1>2, CompleteShape

\* DIU has the rename table of RT.
LEMMA SameTable ==
  /\ RTP!RenamedAreg = 1 .. NumAregs - 1 /\ DIU!RT!RenamedAreg = 1 .. NumAregs - 1
  /\ RTP!RenamedPreg = 1 .. NumPregs - 1 /\ DIU!RT!RenamedPreg = 1 .. NumPregs - 1
  /\ RTP!Areg = Areg /\ DIU!RT!Areg = Areg
  /\ RTP!Preg = 0 .. NumPregs - 1 /\ DIU!RT!Preg = 0 .. NumPregs - 1
  /\ \A a : /\ DIU!RT!lookup_preg(a) = IF a = 0 THEN 0 ELSE rename_table[a].preg
            /\ DIU!RT!alloc_ppreg(a) = IF a = 0 THEN 0 ELSE rename_table[a].preg
  /\ DIU!RT!alloc_rdy <=> RTP!alloc_rdy
  /\ \A a, p : DIU!RT!IsAllocPreg(a, p) <=> RTP!IsAllocPreg(a, p)
BY DEF RTP!RenamedAreg, DIU!RT!RenamedAreg, RTP!RenamedPreg, DIU!RT!RenamedPreg, RTP!Areg, Areg,
       DIU!RT!Areg, RTP!Preg, DIU!RT!Preg, DIU!RT!lookup_preg, DIU!RT!alloc_ppreg,
       DIU!RT!alloc_rdy, RTP!alloc_rdy, DIU!RT!IsAllocPreg, RTP!IsAllocPreg

\* An operand is a value.
LEMMA RdataType ==
  ASSUME Types, RTP!FullInv, AluHolds, MulHolds, CtrlHolds, NEW a \in Areg
  PROVE  /\ DIU!rdata(a, complete) \in Val
         /\ DIU!RT!lookup_preg(a) \in 0 .. NumPregs - 1
<1>1. a = 0 \/ (a \in 1 .. NumAregs - 1 /\ rename_table[a].preg \in 1 .. NumPregs - 1)
  <2>1. rename_table \in [1 .. NumAregs - 1 -> [pending : BOOLEAN, preg : 1 .. NumPregs - 1]]
    BY SameTable, Zenon DEF RTP!FullInv, RTP!IInv, RTP!TypeOK
  <2>2. a = 0 \/ a \in 1 .. NumAregs - 1
    BY NumAregsAssumption DEF Areg
  <2>. QED  BY <2>1, <2>2
<1> DEFINE p == DIU!RT!lookup_preg(a)
<1>2. p = 0 \/ p \in 1 .. NumPregs - 1
  BY <1>1, SameTable
<1>3. 0 \in Val
  BY AddrAssumption DEF Val, Addr
<1>4. DIU!rdata(a, complete) = IF p = 0 THEN 0
                               ELSE IF complete.val /\ complete.wen /\ complete.preg = p THEN complete.wdata
                               ELSE regs[p]
  BY Zenon DEF DIU!rdata
<1>5. p # 0 => regs[p] \in Val
  BY <1>2 DEF Types
<1>6. p \in 0 .. NumPregs - 1
  BY <1>2, NumPregsAssumption, NumAregsAssumption
<1> HIDE DEF p
<1>7. DIU!rdata(a, complete) \in Val
  BY <1>3, <1>4, <1>5, CompleteType, Zenon
<1>. QED  BY <1>6, <1>7 DEF p

\* Some register is free when decode issues, and the priority encoder finds it.
LEMMA AllocPregIs ==
  ASSUME RTP!FullInv, Types, RTP!alloc_rdy, F_reg.val
  PROVE  /\ DIU!waddr \in Areg
         /\ DIU!alloc_preg \in 0 .. NumPregs - 1
         /\ RTP!IsAllocPreg(DIU!waddr, DIU!alloc_preg)
<1>1. DIU!waddr \in Areg
  <2>1. F_reg.inst \in Instruction
    BY InFlightIs
  <2>2. F_reg.inst.rd \in Areg
    BY <2>1 DEF Instruction
  <2>3. 0 \in Areg
    BY NumAregsAssumption DEF Areg
  <2>. QED  BY <2>2, <2>3 DEF DIU!waddr, DIU!inst
<1>2. \E p \in 0 .. NumPregs - 1 : RTP!IsAllocPreg(DIU!waddr, p)
  <2> DEFINE S == {p \in 1 .. NumPregs - 1 : free_list[p]}
  <2>1. S # {} /\ S \subseteq Nat
    <3>1. \E p \in 1 .. NumPregs - 1 : free_list[p]
      BY SameTable, Zenon DEF RTP!alloc_rdy
    <3>. QED  BY <3>1
  <2>2. PICK m \in S : \A q \in S : m <= q
    BY <2>1, LeastNat
  <2>3. DIU!waddr # 0 => RTP!IsAllocPreg(DIU!waddr, m)
    BY <2>2, SameTable DEF RTP!IsAllocPreg
  <2>4. DIU!waddr = 0 => RTP!IsAllocPreg(DIU!waddr, 0)
    BY DEF RTP!IsAllocPreg
  <2>5. 0 \in 0 .. NumPregs - 1 /\ m \in 0 .. NumPregs - 1
    BY NumPregsAssumption, NumAregsAssumption
  <2>. QED  BY <2>3, <2>4, <2>5, Zenon
<1>3. DIU!alloc_preg = CHOOSE p \in DIU!RT!Preg : DIU!RT!IsAllocPreg(DIU!waddr, p)
  BY Zenon DEF DIU!alloc_preg
<1>4. \E p \in DIU!RT!Preg : DIU!RT!IsAllocPreg(DIU!waddr, p)
  BY <1>2, SameTable, Zenon
<1>5. DIU!alloc_preg \in DIU!RT!Preg /\ DIU!RT!IsAllocPreg(DIU!waddr, DIU!alloc_preg)
  BY <1>3, <1>4, Zenon
<1>. QED  BY <1>1, <1>5, SameTable, Zenon

\* What decode sends.
LEMMA SentIs ==
  ASSUME Types, RTP!FullInv, AluHolds, MulHolds, CtrlHolds, to # {}
  PROVE  /\ Entry \in EntryType
         /\ F_reg.val /\ RTP!alloc_rdy
         /\ sent = [val |-> TRUE, pc |-> Entry.pc, seq_num |-> Entry.seq_num,
                    uop |-> prog[Entry.pc].uop, op1 |-> Entry.op1, op2 |-> Entry.op2,
                    imm |-> prog[Entry.pc].imm, waddr |-> Entry.areg,
                    preg |-> Entry.preg, ppreg |-> Entry.ppreg]
         /\ Entry.seq_num = F_reg.seq_num /\ Entry.pc = F_reg.pc
         /\ Entry.areg = DIU!waddr /\ Entry.preg = DIU!alloc_preg
         /\ Entry.ppreg = RTP!alloc_ppreg(DIU!waddr) /\ ~Entry.done
         /\ sent.uop = F_reg.inst.uop
<1>1. F_reg.val /\ RTP!alloc_rdy
  <2>1. PICK i \in to : F_reg.val /\ ~DIU!stall_pending(complete)
    BY IssueShape, Zenon
  <2>. QED  BY <2>1, SameTable, Zenon DEF DIU!stall_pending
<1>2. /\ F_reg.pc \in Addr /\ F_reg.inst = prog[F_reg.pc] /\ F_reg.inst \in Instruction
  BY <1>1, InFlightIs
<1>3. /\ F_reg.inst.rs1 \in Areg /\ F_reg.inst.rs2 \in Areg /\ F_reg.inst.imm \in Val
      /\ F_reg.inst.op2_sel \in BOOLEAN
  BY <1>2 DEF Instruction
<1>4. F_reg.seq_num \in SeqNum
  <2>1. F_reg = None \/ \E pc \in Addr, s \in SeqNum : F_reg = Fetched(pc, s)
    BY DEF Types
  <2>2. PICK pc \in Addr : \E s \in SeqNum : F_reg = Fetched(pc, s)
    BY <1>1, <2>1, NoneIs
  <2>3. PICK s \in SeqNum : F_reg = Fetched(pc, s)
    BY <2>2
  <2>. QED  BY <2>3 DEF Fetched
<1> DEFINE op1 == DIU!rdata(F_reg.inst.rs1, complete)
           op2 == IF F_reg.inst.op2_sel THEN F_reg.inst.imm ELSE DIU!rdata(F_reg.inst.rs2, complete)
           ppreg == DIU!RT!alloc_ppreg(DIU!waddr)
<1>5. sent = [val |-> TRUE, pc |-> F_reg.pc, seq_num |-> F_reg.seq_num, uop |-> F_reg.inst.uop,
              op1 |-> op1, op2 |-> op2, imm |-> F_reg.inst.imm, waddr |-> DIU!waddr,
              preg |-> DIU!alloc_preg, ppreg |-> ppreg]
  BY Zenon DEF sent, DIU!X, DIU!inst
<1>6. op1 \in Val /\ op2 \in Val
  BY <1>3, RdataType
<1>7. /\ DIU!waddr \in Areg /\ DIU!alloc_preg \in 0 .. NumPregs - 1
  BY <1>1, AllocPregIs
<1>8. ppreg \in 0 .. NumPregs - 1 /\ ppreg = RTP!alloc_ppreg(DIU!waddr)
  <2>1. \A a : DIU!RT!lookup_preg(a) = DIU!RT!alloc_ppreg(a)
    BY SameTable, Zenon
  <2>2. \A a : RTP!alloc_ppreg(a) = DIU!RT!alloc_ppreg(a)
    BY SameTable, Zenon DEF RTP!alloc_ppreg
  <2>. QED  BY <1>7, <2>1, <2>2, RdataType, Zenon
<1> HIDE DEF op1, op2, ppreg
<1>9. Entry = [seq_num |-> F_reg.seq_num, pc |-> F_reg.pc, op1 |-> op1, op2 |-> op2,
               areg |-> DIU!waddr, preg |-> DIU!alloc_preg, ppreg |-> ppreg, done |-> FALSE]
  BY <1>5 DEF Entry
<1>10. Entry \in EntryType
  BY <1>2, <1>4, <1>6, <1>7, <1>8, <1>9 DEF EntryType
<1>11. /\ Entry.seq_num = F_reg.seq_num /\ Entry.pc = F_reg.pc /\ Entry.op1 = op1 /\ Entry.op2 = op2
       /\ Entry.areg = DIU!waddr /\ Entry.preg = DIU!alloc_preg /\ Entry.ppreg = ppreg
       /\ Entry.done = FALSE
  BY <1>9
<1>12. sent.uop = F_reg.inst.uop
  BY <1>5
<1>13. sent = [val |-> TRUE, pc |-> Entry.pc, seq_num |-> Entry.seq_num,
               uop |-> prog[Entry.pc].uop, op1 |-> Entry.op1, op2 |-> Entry.op2,
               imm |-> prog[Entry.pc].imm, waddr |-> Entry.areg,
               preg |-> Entry.preg, ppreg |-> Entry.ppreg]
  BY <1>2, <1>5, <1>11, Zenon
<1>. QED  BY <1>1, <1>8, <1>10, <1>11, <1>12, <1>13, Zenon

-----------------------------------------------------------------------------
(* The issued instructions after a cycle.                                  *)

\* The parts of the invariant.
LEMMA Parts ==
  ASSUME BInv
  PROVE  /\ Types /\ FetchInv /\ SNGP!IInv /\ RTP!FullInv
         /\ AluHolds /\ MulHolds /\ CtrlHolds /\ BranchIsLast /\ RegisterHolds /\ BufferHolds
BY Zenon DEF BInv, Holds

\* How many instructions retire and are issued in a cycle.
Leaving == IF retires THEN 1 ELSE 0
Joining == IF to # {} THEN 1 ELSE 0

\* Instruction k completes in this cycle.
Finishes(k) == complete.val /\ complete.seq_num = issued[k].seq_num

\* What completes is known.
LEMMA FinishesIsBoolean ==
  ASSUME BInv, NEW k \in Live
  PROVE  Finishes(k) \in BOOLEAN
<1>1. complete.val \in BOOLEAN
  BY Parts, CompleteType
<1>. QED  BY <1>1 DEF Finishes

\* The instructions that stay, shifted by one place when the oldest retires.
LEMMA LeftIs ==
  ASSUME BInv
  PROVE  /\ Left \in Seq(EntryType)
         /\ Leaving \in {0, 1} /\ Leaving <= Len(issued)
         /\ Len(Left) = Len(issued) - Leaving
         /\ \A j \in 1 .. Len(issued) - Leaving :
              /\ j + Leaving \in Live
              /\ Left[j] = [issued[j + Leaving] EXCEPT !.done = @ \/ Finishes(j + Leaving)]
<1> DEFINE n == Len(issued)
<1>1. /\ n \in Nat /\ Live = 1 .. n
      /\ \A k \in Live : issued[k] \in EntryType /\ Finishes(k) \in BOOLEAN
  BY InFlightIs, FinishesIsBoolean, Parts DEF Live
<1>2. \A k \in Live : [issued[k] EXCEPT !.done = @ \/ Finishes(k)] \in EntryType
  BY <1>1 DEF EntryType
<1>3. Completed = [k \in 1 .. n |-> [issued[k] EXCEPT !.done = @ \/ Finishes(k)]]
  BY Zenon DEF Completed, Finishes
<1>4. /\ Completed \in Seq(EntryType) /\ Len(Completed) = n
      /\ \A k \in 1 .. n : Completed[k] = [issued[k] EXCEPT !.done = @ \/ Finishes(k)]
  BY <1>1, <1>2, <1>3
<1>5. CASE retires
  <2>1. Leaving = 1 /\ Left = Tail(Completed)
    BY <1>5 DEF Leaving, Left
  <2>2. n >= 1
    <3>1. issued # << >> /\ issued \in Seq(EntryType)
      BY <1>5, Parts, Zenon DEF retires, Types
    <3>. QED  BY <3>1, EmptySeq, <1>1
  <2>3. Completed # << >>
    BY <1>4, <2>2
  <2>4. /\ Left \in Seq(EntryType) /\ Len(Left) = n - 1
        /\ \A j \in 1 .. n - 1 : Left[j] = Completed[j + 1]
    BY <1>4, <2>1, <2>3, HeadTailProperties
  <2>. QED  BY <1>1, <1>4, <2>1, <2>2, <2>4
<1>6. CASE ~retires
  <2>1. Leaving = 0 /\ Left = Completed
    BY <1>6 DEF Leaving, Left
  <2>. QED  BY <1>1, <1>4, <2>1
<1>. QED  BY <1>5, <1>6

\* The instructions issued after a cycle: those that stay, then the new one.
LEMMA IssuedNext ==
  ASSUME BInv, BackEdge
  PROVE  /\ issued' \in Seq(EntryType)
         /\ Len(issued') = Len(issued) - Leaving + Joining
         /\ Live' = 1 .. Len(issued) - Leaving + Joining
         /\ \A j \in 1 .. Len(issued) - Leaving : issued'[j] = Left[j]
         /\ to # {} => issued'[Len(issued) - Leaving + 1] = Entry
<1>1. issued' = IF to = {} THEN Left ELSE Append(Left, Entry)
  BY DEF BackEdge
<1>2. Len(issued) \in Nat
  BY InFlightIs, Parts
<1>3. /\ issued' \in Seq(EntryType)
      /\ Len(issued') = Len(issued) - Leaving + Joining
      /\ \A j \in 1 .. Len(issued) - Leaving : issued'[j] = Left[j]
      /\ to # {} => issued'[Len(issued) - Leaving + 1] = Entry
  <2>1. CASE to = {}
    BY <1>1, <2>1, LeftIs DEF Joining
  <2>2. CASE to # {}
    <3>1. Entry \in EntryType
      BY <2>2, SentIs, Parts
    <3>2. issued' = Append(Left, Entry) /\ Joining = 1
      BY <1>1, <2>2 DEF Joining
    <3>3. /\ Left \in Seq(EntryType) /\ Len(Left) = Len(issued) - Leaving /\ Leaving \in {0, 1}
          /\ Leaving <= Len(issued)
      BY LeftIs
    <3>4. /\ issued' \in Seq(EntryType) /\ Len(issued') = Len(Left) + 1
          /\ \A j \in 1 .. Len(Left) : issued'[j] = Left[j]
          /\ issued'[Len(Left) + 1] = Entry
      BY <3>1, <3>2, <3>3, AppendProperties
    <3>. QED  BY <1>2, <3>2, <3>3, <3>4
  <2>. QED  BY <2>1, <2>2
<1>. QED  BY <1>3 DEF Live

\* An instruction that does not retire stays what it is.
LEMMA Stays ==
  ASSUME BInv, BackEdge, NEW k \in Live, ~(retires /\ k = 1)
  PROVE  \E j \in Live' : /\ Op(j)' = Op(k)
                          /\ issued'[j].seq_num = issued[k].seq_num
                          /\ issued'[j].done <=> issued[k].done \/ Finishes(k)
                          /\ j = Len(issued) - Leaving <=> k = Len(issued)
<1>1. /\ Len(issued) \in Nat /\ k \in 1 .. Len(issued) /\ issued[k] \in EntryType
      /\ Finishes(k) \in BOOLEAN
  BY InFlightIs, Parts, FinishesIsBoolean DEF Live
<1>2. PICK j \in Live' : /\ j \in 1 .. Len(issued) - Leaving /\ j + Leaving = k
                         /\ j = Len(issued) - Leaving <=> k = Len(issued)
  <2>1. /\ k - Leaving \in Live'
        /\ k - Leaving \in 1 .. Len(issued) - Leaving /\ k - Leaving + Leaving = k
        /\ k - Leaving = Len(issued) - Leaving <=> k = Len(issued)
    BY <1>1, IssuedNext DEF Leaving, Joining
  <2>. QED  BY <2>1, Zenon
<1>3. issued'[j] = [issued[k] EXCEPT !.done = @ \/ Finishes(k)]
  <2>1. issued'[j] = [issued[j + Leaving] EXCEPT !.done = @ \/ Finishes(j + Leaving)]
    BY <1>2, IssuedNext, LeftIs, Zenon
  <2>. QED  BY <1>2, <2>1, Zenon
<1>4. /\ issued'[j].seq_num = issued[k].seq_num /\ issued'[j].pc = issued[k].pc
      /\ issued'[j].op1 = issued[k].op1 /\ issued'[j].op2 = issued[k].op2
      /\ issued'[j].areg = issued[k].areg /\ issued'[j].preg = issued[k].preg
      /\ issued'[j].ppreg = issued[k].ppreg
      /\ issued'[j].done <=> issued[k].done \/ Finishes(k)
  BY <1>1, <1>3 DEF EntryType
<1>5. prog' = prog
  BY DEF BackEdge
<1>6. Op(j)' = Op(k)
  BY <1>4, <1>5, Zenon DEF Op
<1>. QED  BY <1>2, <1>4, <1>6, Zenon DEF Op

\* The instruction issued is the last one.
LEMMA Joins ==
  ASSUME BInv, BackEdge, to # {}
  PROVE  \E j \in Live' : /\ Op(j)' = sent
                          /\ issued'[j].seq_num = F_reg.seq_num
                          /\ ~issued'[j].done
                          /\ j = Len(issued')
<1>1. /\ Len(issued) \in Nat /\ Leaving \in {0, 1} /\ Leaving <= Len(issued)
      /\ Joining = 1
  BY InFlightIs, Parts, LeftIs DEF Joining
<1>2. PICK j \in Live' : j = Len(issued') /\ issued'[j] = Entry
  <2>1. Len(issued') \in Live' /\ issued'[Len(issued')] = Entry
    BY <1>1, IssuedNext
  <2>. QED  BY <2>1, Zenon
<1>3. prog' = prog
  BY DEF BackEdge
<1>4. /\ sent = [val |-> TRUE, pc |-> Entry.pc, seq_num |-> Entry.seq_num,
                 uop |-> prog[Entry.pc].uop, op1 |-> Entry.op1, op2 |-> Entry.op2,
                 imm |-> prog[Entry.pc].imm, waddr |-> Entry.areg,
                 preg |-> Entry.preg, ppreg |-> Entry.ppreg]
      /\ Entry.seq_num = F_reg.seq_num /\ ~Entry.done
  BY SentIs, Parts
<1>5. Op(j)' = sent
  BY <1>2, <1>3, <1>4, Zenon DEF Op
<1>. QED  BY <1>2, <1>4, <1>5

-----------------------------------------------------------------------------
(* The instructions that run, and those that are done, after a cycle.      *)

\* An operation is that of an instruction that runs in a pipe, or that is done;
\* it completes in this cycle.
RunsIn(op, pipe) == \E k \in Live : Running(k, pipe) /\ op = Op(k)

IsDone(op) == \E k \in Live : issued[k].done /\ op = Op(k)

FinishesNow(op) == complete.val /\ complete.seq_num = op.seq_num

\* An operation carries the number of its instruction ...
LEMMA OpIs ==
  \A k : /\ Op(k).seq_num = issued[k].seq_num /\ Op(k).val = TRUE
BY DEF Op

\* ... and is told from the others by it.
LEMMA OpsDiffer ==
  ASSUME BInv, NEW j \in Live, NEW k \in Live, Op(j).seq_num = Op(k).seq_num
  PROVE  j = k
BY OpIs, Numbers, Parts, Zenon

\* What is granted completes.
LEMMA GrantedCompletes ==
  ASSUME BInv, NEW i \in {ALU, M, CTRL}
  PROVE  i \in gnt => /\ W[i].val /\ complete.val
                      /\ complete.seq_num = W[i].seq_num
<1> SUFFICES ASSUME i \in gnt
             PROVE  W[i].val /\ complete.val /\ complete.seq_num = W[i].seq_num
  OBVIOUS
<1> DEFINE root == WCU!Arbitrate(oldest_seq_num, WCU!Ex, 3)
<1>1. \A j \in gnt : j \in 0 .. 3 - 1 /\ WCU!Ex[j].val /\ WCU!Ex[j].seq_num = root.seq_num
  BY Zenon DEF gnt, WCU!Ex_gnt, WCU!Granted
<1> HIDE DEF root
<1>2. W[i].val /\ WCU!Ex[i].seq_num = W[i].seq_num
  BY <1>1, ExIs DEF WCU!Idle
<1>3. PICK j \in gnt : WCU!complete = WCU!Ex[j]
  BY Zenon DEF WCU!complete, gnt
<1>4. WCU!complete.val /\ WCU!complete.seq_num = W[i].seq_num
  BY <1>1, <1>2, <1>3, Zenon
<1>5. complete.val /\ complete.seq_num = WCU!complete.seq_num
  BY <1>4, Zenon DEF complete, complete_notif, Notif
<1>. QED  BY <1>2, <1>4, <1>5

\* What completes ran in a pipe whose offer is granted.
LEMMA FinishesFrom ==
  ASSUME BInv, NEW i \in {ALU, M, CTRL}, NEW op, RunsIn(op, i), FinishesNow(op)
  PROVE  /\ i \in gnt
         /\ \E k \in Live : \E wen \in Wens(Op(k).uop) : op = Op(k) /\ Completes(i, k, wen)
<1>1. PICK k \in Live : Running(k, i) /\ op = Op(k)
  BY DEF RunsIn
<1>2. \E h \in {ALU, M, CTRL}, j \in Live : \E wen \in Wens(Op(j).uop) : Completes(h, j, wen)
  BY CompleteShape, Parts DEF FinishesNow, NoNotif
<1>3. PICK h \in {ALU, M, CTRL}, j \in Live : \E wen \in Wens(Op(j).uop) : Completes(h, j, wen)
  BY <1>2
<1>4. PICK wen \in Wens(Op(j).uop) : Completes(h, j, wen)
  BY <1>3
<1>5. complete.seq_num = issued[j].seq_num /\ Running(j, h) /\ h \in gnt
  BY <1>4 DEF Completes, Offers
<1>6. j = k
  BY <1>1, <1>5, OpIs, OpsDiffer DEF FinishesNow
<1>7. h = i
  <2>1. \A a, b \in {ALU, M, CTRL} : \A u : u \in Subset[a] /\ u \in Subset[b] => a = b
    BY PipesAre
  <2>. QED  BY <1>1, <1>5, <1>6, <2>1, Zenon DEF Running
<1>. QED  BY <1>1, <1>4, <1>5, <1>6, <1>7

\* What does not complete runs on.
LEMMA RunsOn ==
  ASSUME BInv, BackEdge, NEW op, NEW i, RunsIn(op, i), ~FinishesNow(op)
  PROVE  RunsIn(op, i)'
<1>1. PICK k \in Live : Running(k, i) /\ op = Op(k)
  BY DEF RunsIn
<1>2. ~(retires /\ k = 1)
  BY <1>1, CommitShape, Parts DEF Running, Commits
<1>3. PICK j \in Live' : /\ Op(j)' = Op(k)
                         /\ issued'[j].done <=> issued[k].done \/ Finishes(k)
  BY <1>2, Stays, Zenon DEF Op
<1>4. ~issued'[j].done
  BY <1>1, <1>3, OpIs DEF Finishes, FinishesNow, Running
<1>. QED  BY <1>1, <1>3, <1>4, Zenon DEF RunsIn, Running, Op

\* What completes is done, and stays so until it commits.
LEMMA FinishedIsDone ==
  ASSUME BInv, BackEdge, NEW op, NEW i, RunsIn(op, i), FinishesNow(op)
  PROVE  IsDone(op)'
<1>1. PICK k \in Live : Running(k, i) /\ op = Op(k)
  BY DEF RunsIn
<1>2. ~(retires /\ k = 1)
  BY <1>1, CommitShape, Parts DEF Running, Commits
<1>3. PICK j \in Live' : /\ Op(j)' = Op(k)
                         /\ issued'[j].done <=> issued[k].done \/ Finishes(k)
  BY <1>2, Stays, Zenon DEF Op
<1>4. issued'[j].done
  BY <1>1, <1>3, OpIs DEF Finishes, FinishesNow
<1>. QED  BY <1>1, <1>3, <1>4, Zenon DEF IsDone, Op

\* What is done and does not commit stays done.
LEMMA DoneOn ==
  ASSUME BInv, BackEdge, NEW op, IsDone(op), ~(WCU!deq_rdy /\ op.seq_num = deq_ptr)
  PROVE  IsDone(op)'
<1>1. PICK k \in Live : issued[k].done /\ op = Op(k)
  BY DEF IsDone
<1>2. ~(retires /\ k = 1)
  <2> SUFFICES ASSUME retires, k = 1 PROVE FALSE
    OBVIOUS
  <2>1. WCU!deq_rdy /\ issued[1].seq_num = deq_ptr
    BY CommitShape, Parts DEF Commits
  <2>. QED  BY <1>1, <2>1, OpIs
<1>3. PICK j \in Live' : /\ Op(j)' = Op(k)
                         /\ issued'[j].done <=> issued[k].done \/ Finishes(k)
  BY <1>2, Stays, Zenon DEF Op
<1>. QED  BY <1>1, <1>3, Zenon DEF IsDone, Op

\* What is issued runs, under a number of its own, and is the last.
LEMMA SentRuns ==
  ASSUME BInv, BackEdge, NEW op, op = sent, NEW i \in to
  PROVE  /\ RunsIn(op, i)' /\ op.val = TRUE
         /\ \A o, h : RunsIn(o, h) => o.seq_num # op.seq_num
         /\ Live' # {} /\ issued'[Len(issued')].seq_num = op.seq_num
<1>1. /\ to # {} /\ F_reg.val /\ sent.uop \in Subset[i] /\ sent.val = TRUE
      /\ sent.seq_num = F_reg.seq_num
  <2>1. F_reg.val /\ F_reg.inst.uop \in Subset[i] /\ to # {}
    BY IssueShape, Zenon
  <2>2. sent.uop = F_reg.inst.uop /\ sent.val = TRUE /\ sent.seq_num = F_reg.seq_num
    BY <2>1, SentIs, Parts
  <2>. QED  BY <2>1, <2>2, Zenon
<1>2. PICK j \in Live' : /\ Op(j)' = sent /\ ~issued'[j].done
                         /\ issued'[j].seq_num = F_reg.seq_num /\ j = Len(issued')
  BY <1>1, Joins, Zenon DEF Op
<1>3. RunsIn(op, i)'
  BY <1>1, <1>2, Zenon DEF RunsIn, Running, Op
<1>4. ASSUME NEW k \in Live PROVE issued[k].seq_num # F_reg.seq_num
  <2>1. /\ Minus(issued[k].seq_num, oldest_seq_num) = k - 1
        /\ Minus(F_reg.seq_num, oldest_seq_num) = Len(issued)
        /\ Len(issued) \in Nat /\ k \in 1 .. Len(issued)
    BY <1>1, Numbers, InFlightIs, Parts DEF Live
  <2>. QED  BY <2>1
<1>5. \A o, h : RunsIn(o, h) => o.seq_num # op.seq_num
  BY <1>1, <1>4, OpIs, Zenon DEF RunsIn
<1>. QED  BY <1>1, <1>2, <1>3, <1>5

-----------------------------------------------------------------------------
(* The pipes, the register and the reorder buffer after a cycle.           *)

\* The buffer has one place: it takes a result when it is empty or is read.
LEMMA AluOps ==
  /\ AluHolds <=> /\ alu_reg = None \/ RunsIn(alu_reg, ALU)
                  /\ alu_buf = << >> \/ \E o : /\ RunsIn(o, ALU) /\ alu_reg # o
                                               /\ alu_buf = <<Outcome(o, TRUE)>>
  /\ MulHolds <=> /\ mul_reg = None \/ RunsIn(mul_reg, M)
                  /\ mul_done => mul_reg.val
BY Zenon DEF AluHolds, MulHolds, RunsIn

\* The arithmetic pipe and its buffer hold an instruction each.
LEMMA AluStep ==
  ASSUME BInv, BackEdge, NEW finish, PipesEdge(finish)
  PROVE  AluHolds'
<1> DEFINE g == ALU \in gnt
           u == ALU_XU!unit_W
<1>0. ALU \in {ALU, M, CTRL}
  OBVIOUS
<1>1. /\ alu_reg' = IF ALU \in to THEN sent ELSE IF ALU_XU!in_rdy(g) THEN None ELSE alu_reg
      /\ alu_buf' = LET pushed == IF alu_reg.val /\ ALU_XU!in_rdy(g) THEN Append(alu_buf, u) ELSE alu_buf
                    IN  IF g /\ ALU_XU!W.val THEN Tail(pushed) ELSE pushed
  BY Zenon DEF PipesEdge
<1>2. /\ ALU_XU!in_rdy(g) <=> alu_buf = << >> \/ g
      /\ W[ALU] = IF alu_buf = << >> THEN u ELSE Head(alu_buf)
      /\ W[ALU] = ALU_XU!W
  BY WIs, Zenon DEF ALU_XU!in_rdy, ALU_XU!W
<1>3. /\ g => W[ALU].val /\ complete.val /\ complete.seq_num = W[ALU].seq_num
      /\ \A op : RunsIn(op, ALU) /\ FinishesNow(op) => g
  BY <1>0, GrantedCompletes, FinishesFrom
<1>4. /\ ALU \in to => ALU_XU!in_rdy(g) \/ ~alu_reg.val
  BY IssueShape, RdyIs, Zenon
<1>5. AluHolds
  BY Parts
<1>6. \A o : RunsIn(o, ALU) => /\ Outcome(o, TRUE).seq_num = o.seq_num /\ Outcome(o, TRUE).val = TRUE
                               /\ o.val = TRUE
  BY OpIs, OutcomeIs, Zenon DEF RunsIn, Outcome, Offer
<1>7. RunsIn(alu_reg, ALU) => u = Outcome(alu_reg, TRUE)
  BY <1>6, SameOps, Zenon DEF ALU_XU!unit_W, Outcome
<1>8. \A o, p : RunsIn(o, ALU) /\ RunsIn(p, ALU) /\ o.seq_num = p.seq_num => o = p
  BY OpsDiffer, Zenon DEF RunsIn
<1> HIDE DEF g, u
\* The register.
<1>9. alu_reg' = None \/ RunsIn(alu_reg, ALU)'
  <2>1. CASE ALU \in to
    <3>1. PICK op : op = sent
      OBVIOUS
    <3>2. RunsIn(op, ALU)'
      BY <2>1, <3>1, SentRuns
    <3>. QED  BY <1>1, <2>1, <3>1, <3>2, Zenon DEF RunsIn
  <2>2. CASE ALU \notin to /\ ~ALU_XU!in_rdy(g) /\ RunsIn(alu_reg, ALU)
    <3>1. PICK op : op = alu_reg
      OBVIOUS
    <3>2. RunsIn(op, ALU)'
      BY <2>2, <3>1, <1>2, <1>3, RunsOn
    <3>3. alu_reg' = op
      BY <1>1, <2>2, <3>1
    <3>. QED  BY <3>2, <3>3, Zenon DEF RunsIn
  <2>. QED  BY <1>1, <1>5, <2>1, <2>2, AluOps, Zenon DEF None
\* The buffer keeps or takes the result of an instruction that still runs.
<1>10. alu_buf' = << >> \/ \E o : /\ RunsIn(o, ALU) /\ ~FinishesNow(o)
                                  /\ alu_buf' = <<Outcome(o, TRUE)>>
                                  /\ ALU_XU!in_rdy(g) \/ alu_reg # o
  <2>1. CASE alu_buf = << >> /\ alu_reg = None
    <3>1. ~alu_reg.val
      BY <2>1, NoneIs
    <3>2. W[ALU] = None
      BY <1>2, <2>1, NoneIs, Zenon DEF u, ALU_XU!unit_W
    <3>3. ~ALU_XU!W.val
      BY <1>2, <3>2, NoneIs, Zenon
    <3>. QED  BY <1>1, <2>1, <3>1, <3>3, Zenon
  <2>2. CASE alu_buf = << >> /\ RunsIn(alu_reg, ALU)
    <3>1. alu_reg.val /\ u = Outcome(alu_reg, TRUE) /\ W[ALU] = u /\ u.val /\ u.seq_num = alu_reg.seq_num
      BY <1>2, <1>6, <1>7, <2>2, Zenon
    <3>2. alu_buf' = IF g THEN Tail(Append(alu_buf, u)) ELSE Append(alu_buf, u)
      BY <1>1, <1>2, <2>2, <3>1, Zenon
    <3>3. Append(alu_buf, u) = <<u>> /\ Tail(<<u>>) = << >>
      BY <2>2
    <3>4. ~g => ~FinishesNow(alu_reg)
      BY <1>3, <2>2
    <3>. QED  BY <1>2, <2>2, <3>1, <3>2, <3>3, <3>4, Zenon
  <2>3. ASSUME NEW o, RunsIn(o, ALU), alu_reg # o, alu_buf = <<Outcome(o, TRUE)>>
        PROVE  alu_buf' = << >> \/ \E p : /\ RunsIn(p, ALU) /\ ~FinishesNow(p)
                                          /\ alu_buf' = <<Outcome(p, TRUE)>>
                                          /\ ALU_XU!in_rdy(g) \/ alu_reg # p
    <3>1. /\ alu_buf # << >> /\ Head(alu_buf) = Outcome(o, TRUE) /\ Tail(alu_buf) = << >>
      BY <2>3
    <3>2. /\ ALU_XU!in_rdy(g) <=> g
          /\ ALU_XU!W = Outcome(o, TRUE) /\ ALU_XU!W.val /\ ALU_XU!W.seq_num = o.seq_num
      BY <1>2, <1>6, <2>3, <3>1
    <3>3. CASE ~g
      BY <1>1, <1>3, <2>3, <3>2, <3>3, Zenon
    <3>4. CASE g /\ alu_reg = None
      <4>1. ~alu_reg.val
        BY <3>4, NoneIs
      <4>. QED  BY <1>1, <3>1, <3>2, <3>4, <4>1, Zenon
    <3>5. CASE g /\ RunsIn(alu_reg, ALU)
      <4>1. alu_buf' = Tail(Append(alu_buf, u)) /\ u = Outcome(alu_reg, TRUE)
        BY <1>1, <1>6, <1>7, <3>2, <3>5, Zenon
      <4>2. Tail(Append(alu_buf, u)) = <<u>>
        <5>1. /\ alu_buf \in Seq({Outcome(o, TRUE), u}) /\ alu_buf # << >>
              /\ u \in {Outcome(o, TRUE), u}
          BY <2>3
        <5>2. Tail(Append(alu_buf, u)) = Append(Tail(alu_buf), u)
          BY <5>1, HeadTailAppend
        <5>3. Append(<< >>, u) = <<u>>
          OBVIOUS
        <5>. QED  BY <3>1, <5>2, <5>3, Zenon
      <4>3. ~FinishesNow(alu_reg)
        BY <1>2, <1>3, <1>8, <2>3, <3>2, <3>5 DEF FinishesNow
      <4>. QED  BY <3>2, <3>5, <4>1, <4>2, <4>3, Zenon
    <3>. QED  BY <1>5, <3>3, <3>4, <3>5, AluOps, Zenon
  <2>. QED  BY <1>5, <2>1, <2>2, <2>3, AluOps, Zenon
<1>11. alu_buf' = << >> \/ \E o : /\ RunsIn(o, ALU)' /\ alu_reg' # o
                                  /\ alu_buf' = <<Outcome(o, TRUE)>>
  <2> SUFFICES ASSUME NEW o, RunsIn(o, ALU), ~FinishesNow(o), ALU_XU!in_rdy(g) \/ alu_reg # o
               PROVE  RunsIn(o, ALU)' /\ alu_reg' # o
    BY <1>10, Zenon
  <2>1. RunsIn(o, ALU)'
    BY RunsOn
  <2>2. CASE ALU \in to
    <3>1. PICK op : op = sent
      OBVIOUS
    <3>2. o.seq_num # op.seq_num
      BY <2>2, <3>1, SentRuns
    <3>. QED  BY <1>1, <2>1, <2>2, <3>1, <3>2, Zenon
  <2>3. CASE ALU \notin to
    <3>1. o # None
      BY <1>6, NoneIs
    <3>. QED  BY <1>1, <2>1, <2>3, <3>1, Zenon
  <2>. QED  BY <2>2, <2>3
<1>. QED  BY <1>9, <1>11, Zenon DEF AluHolds, RunsIn, Running, Outcome, Offer, None

\* The multiplier holds one instruction until its result is taken.
LEMMA MulStep ==
  ASSUME BInv, BackEdge, NEW finish, PipesEdge(finish)
  PROVE  MulHolds'
<1> DEFINE g == M \in gnt
<1>0. M \in {ALU, M, CTRL}
  OBVIOUS
<1>1. /\ mul_reg' = IF M \in to THEN sent ELSE IF mul_done /\ g THEN None ELSE mul_reg
      /\ mul_done' = IF M \in to \/ (mul_done /\ g) THEN FALSE
                     ELSE mul_done \/ (mul_reg.val /\ finish)
  BY Zenon DEF PipesEdge
<1>2. \A op : RunsIn(op, M) /\ FinishesNow(op) => g /\ mul_done
  BY <1>0, FinishesFrom DEF Completes, Offers
<1>3. /\ mul_reg = None \/ RunsIn(mul_reg, M)
      /\ mul_done => mul_reg.val
  BY Parts, AluOps, Zenon
<1> HIDE DEF g
<1>4. mul_reg' = None \/ RunsIn(mul_reg, M)'
  <2>1. CASE M \in to
    <3>1. PICK op : op = sent
      OBVIOUS
    <3>2. RunsIn(op, M)'
      BY <2>1, <3>1, SentRuns
    <3>. QED  BY <1>1, <2>1, <3>1, <3>2, Zenon DEF RunsIn
  <2>2. CASE M \notin to /\ ~(mul_done /\ g) /\ RunsIn(mul_reg, M)
    <3>1. PICK op : op = mul_reg
      OBVIOUS
    <3>2. RunsIn(op, M)'
      BY <2>2, <3>1, <1>2, RunsOn
    <3>3. mul_reg' = op
      BY <1>1, <2>2, <3>1
    <3>. QED  BY <3>2, <3>3, Zenon DEF RunsIn
  <2>. QED  BY <1>1, <1>3, <2>1, <2>2, Zenon DEF None
<1>5. mul_done' => mul_reg'.val
  BY <1>1, <1>3
<1>. QED  BY <1>4, <1>5, Zenon DEF MulHolds, RunsIn, Running, None

\* The branch pipe holds the last instruction issued when it asks for a squash.
LEMMA CtrlStep ==
  ASSUME BInv, BackEdge, NEW finish, PipesEdge(finish)
  PROVE  CtrlHolds' /\ BranchIsLast'
<1> DEFINE g == CTRL \in gnt
<1>0. CTRL \in {ALU, M, CTRL}
  OBVIOUS
<1>1. /\ CTRL \in to => \E wen \in CTRL_XU!Wens(sent.uop) : ctrl_reg' = CTRL_XU!Latched(sent, wen)
      /\ CTRL \notin to => ctrl_reg' = IF g THEN None ELSE ctrl_reg
      /\ ctrl_sent' <=> CTRL \notin to
  BY Zenon DEF PipesEdge
<1>2. \A op : RunsIn(op, CTRL) /\ FinishesNow(op) => g
  BY <1>0, FinishesFrom
<1>3. \A op, wen : /\ CTRL_XU!Latched(op, wen).seq_num = op.seq_num
                   /\ CTRL_XU!Latched(op, wen) # None
  BY DEF CTRL_XU!Latched, None
<1> HIDE DEF g
<1> DEFINE Held(op) == \E wen \in Wens(op.uop) : ctrl_reg' = CTRL_XU!Latched(op, wen)
<1>4. ctrl_reg' = None \/ \E op : RunsIn(op, CTRL)' /\ Held(op)
  <2>1. CASE CTRL \in to
    <3>1. PICK op : op = sent
      OBVIOUS
    <3>2. RunsIn(op, CTRL)'
      BY <2>1, <3>1, SentRuns
    <3>3. op.uop \in Subset[CTRL]
      <4>1. F_reg.inst.uop \in Subset[CTRL] /\ to # {}
        BY <2>1, IssueShape, Zenon
      <4>. QED  BY <3>1, <4>1, SentIs, Parts, Zenon
    <3>. QED  BY <1>1, <2>1, <3>1, <3>2, <3>3, Zenon DEF Wens
  <2>2. CASE CTRL \notin to /\ ~g /\ ctrl_reg # None
    <3>1. PICK k \in Live : \E wen \in Wens(Op(k).uop) :
                              Running(k, CTRL) /\ ctrl_reg = CTRL_XU!Latched(Op(k), wen)
      BY <2>2, Parts, Zenon DEF CtrlHolds
    <3>2. PICK wen \in Wens(Op(k).uop) : Running(k, CTRL) /\ ctrl_reg = CTRL_XU!Latched(Op(k), wen)
      BY <3>1
    <3>3. PICK op : op = Op(k)
      OBVIOUS
    <3>4. RunsIn(op, CTRL)
      BY <3>2, <3>3, Zenon DEF RunsIn
    <3>5. RunsIn(op, CTRL)'
      BY <2>2, <3>4, <1>2, RunsOn
    <3>. QED  BY <1>1, <2>2, <3>2, <3>3, <3>5, Zenon
  <2>. QED  BY <1>1, <2>1, <2>2, Zenon DEF None
<1>5. CtrlHolds'
  <2>1. CASE ctrl_reg' = None
    BY <2>1, Zenon DEF CtrlHolds, None
  <2>2. ASSUME NEW op, RunsIn(op, CTRL)', NEW wen \in Wens(op.uop), ctrl_reg' = CTRL_XU!Latched(op, wen)
        PROVE  CtrlHolds'
    <3>1. PICK j \in Live' : Running(j, CTRL)' /\ op = Op(j)'
      BY <2>2, Zenon DEF RunsIn, Running, Op
    <3>. QED  BY <2>2, <3>1, Zenon DEF CtrlHolds, Running, Wens, Op, CTRL_XU!Latched, CTRL_XU!Wens
  <2>. QED  BY <1>4, <2>1, <2>2, Zenon
<1>6. BranchIsLast'
  <2> SUFFICES ASSUME ctrl_reg'.val, ~ctrl_sent'
               PROVE  Live' # {} /\ ctrl_reg'.seq_num = issued'[Len(issued')].seq_num
    BY Zenon DEF BranchIsLast
  <2>1. CTRL \in to
    BY <1>1
  <2>2. PICK op : op = sent
    OBVIOUS
  <2>3. Live' # {} /\ issued'[Len(issued')].seq_num = op.seq_num
    BY <2>1, <2>2, SentRuns
  <2>. QED  BY <1>1, <1>3, <2>1, <2>2, <2>3
<1>. QED  BY <1>5, <1>6

\* The writeback register holds what has just completed.
LEMMA RegisterStep ==
  ASSUME BInv, BackEdge
  PROVE  RegisterHolds'
<1>1. X_reg' = WCU!complete
  BY DEF BackEdge, WCU!Edge
<1>2. CASE WCU!complete = None
  BY <1>1, <1>2, Zenon DEF RegisterHolds, None
<1>3. ASSUME NEW i \in {ALU, M, CTRL}, NEW k \in Live, NEW wen \in Wens(Op(k).uop), Completes(i, k, wen)
      PROVE  RegisterHolds'
  <2>1. PICK op : op = Op(k)
    OBVIOUS
  <2>2. RunsIn(op, i) /\ FinishesNow(op) /\ X_reg' = Outcome(op, wen)
    BY <1>1, <1>3, <2>1, OpIs DEF RunsIn, FinishesNow, Completes, Offers
  <2>3. IsDone(op)'
    BY <2>2, FinishedIsDone
  <2>4. PICK j \in Live' : issued'[j].done /\ op = Op(j)'
    BY <2>3, Zenon DEF IsDone, Op
  <2>5. wen \in Wens(op.uop)
    BY <2>1
  <2>. QED  BY <2>2, <2>4, <2>5, Zenon DEF RegisterHolds, Outcome, Offer, Wens, CTRL_XU!Wens, Op
<1>. QED  BY <1>2, <1>3, CompleteShape, Parts, Zenon

\* What an entry holds: the result of an instruction that is done.
HoldsResult(e, s) ==
  \E op : \E wen \in Wens(op.uop) :
    IsDone(op) /\ op.seq_num = s /\ e = [val |-> TRUE, msg |-> WCU!NoX0(Outcome(op, wen).msg)]

\* An entry in those terms.
LEMMA EntryHoldsIs ==
  ASSUME NEW s
  PROVE  EntryHolds(s) <=> ~(X_reg.val /\ X_reg.seq_num = s) /\ HoldsResult(entries[s], s)
BY OpIs, Zenon DEF EntryHolds, HoldsResult, IsDone

\* The reorder buffer takes results in any order and keeps each until it commits.
LEMMA BufferStep ==
  ASSUME BInv, BackEdge, NEW resp_val, FrontEdge(resp_val)
  PROVE  BufferHolds'
<1>1. /\ X_reg' = WCU!complete
      /\ entries' = WCU!NextEntries
      /\ deq_ptr' = WCU!NextDeqPtr
  BY DEF BackEdge, WCU!Edge
<1>2. deq_ptr' = oldest_seq_num'
  <2>1. oldest_seq_num' = IF commit.val THEN SNG!Plus(commit.seq_num, 1) ELSE oldest_seq_num
    BY Zenon DEF FrontEdge, SNG!Edge, SNG!OldestNext
  <2>2. deq_ptr = oldest_seq_num
    BY Parts DEF BufferHolds
  <2>3. WCU!Plus(deq_ptr, 1) = SNG!Plus(deq_ptr, 1)
    BY DEF WCU!Plus, SNG!Plus
  <2>4. CASE WCU!deq_rdy
    <3>1. commit.val /\ commit.seq_num = deq_ptr
      BY <2>4, CommitShape, Parts DEF Commits
    <3>. QED  BY <1>1, <2>1, <2>3, <2>4, <3>1, Zenon DEF WCU!NextDeqPtr
  <2>5. CASE ~WCU!deq_rdy
    <3>1. ~commit.val
      BY <2>5, CommitShape, Parts DEF NoNotif
    <3>. QED  BY <1>1, <2>1, <2>2, <2>5, <3>1, Zenon DEF WCU!NextDeqPtr
  <2>. QED  BY <2>4, <2>5
\* What completes was not done before.
<1>3. ASSUME NEW op, IsDone(op)
      PROVE  ~(X_reg'.val /\ X_reg'.seq_num = op.seq_num)
  <2>1. CASE WCU!complete = None
    BY <1>1, <2>1, NoneIs
  <2>2. ASSUME NEW i \in {ALU, M, CTRL}, NEW k \in Live, NEW wen \in Wens(Op(k).uop), Completes(i, k, wen),
               X_reg'.seq_num = op.seq_num
        PROVE  FALSE
    <3>1. X_reg'.seq_num = Op(k).seq_num /\ ~issued[k].done
      BY <1>1, <2>2, OpIs, OutcomeIs, Zenon DEF Completes, Offers, Running
    <3>2. PICK j \in Live : issued[j].done /\ op = Op(j)
      BY <1>3 DEF IsDone
    <3>3. j = k
      BY <2>2, <3>1, <3>2, OpsDiffer
    <3>. QED  BY <3>1, <3>2, <3>3
  <2>. QED  BY <2>1, <2>2, CompleteShape, Parts, Zenon
<1>4. ASSUME NEW s \in SeqNum, NEW e, HoldsResult(e, s), ~(WCU!deq_rdy /\ s = deq_ptr),
             entries'[s] = e
      PROVE  EntryHolds(s)'
  <2>1. PICK op : \E wen \in Wens(op.uop) :
          IsDone(op) /\ op.seq_num = s /\ e = [val |-> TRUE, msg |-> WCU!NoX0(Outcome(op, wen).msg)]
    BY <1>4, Zenon DEF HoldsResult
  <2>2. PICK wen \in Wens(op.uop) :
          IsDone(op) /\ op.seq_num = s /\ e = [val |-> TRUE, msg |-> WCU!NoX0(Outcome(op, wen).msg)]
    BY <2>1
  <2>3. IsDone(op)'
    BY <1>4, <2>2, DoneOn
  <2>4. ~(X_reg'.val /\ X_reg'.seq_num = s)
    BY <1>3, <2>2
  <2>5. PICK j \in Live' : issued'[j].done /\ op = Op(j)'
    BY <2>3, Zenon DEF IsDone, Op
  <2>6. issued'[j].seq_num = s
    BY <2>2, <2>5 DEF Op
  <2>. QED  BY <1>4, <2>2, <2>4, <2>5, <2>6, Zenon
            DEF EntryHolds, Outcome, Offer, Wens, CTRL_XU!Wens, Op, WCU!NoX0
<1>5. ASSUME NEW s \in SeqNum
      PROVE  entries'[s] = None \/ EntryHolds(s)'
  <2>1. s \in WCU!SeqNum
    BY SameSeqNum, Zenon
  <2>2. entries'[s] = IF WCU!deq_rdy /\ s = deq_ptr THEN WCU!None
                      ELSE IF WCU!ins_en /\ ~WCU!bypass /\ s = X_reg.seq_num
                        THEN [val |-> TRUE, msg |-> WCU!NoX0(X_reg.msg)]
                      ELSE entries[s]
    BY <1>1, <2>1, Zenon DEF WCU!NextEntries
  <2>3. CASE WCU!deq_rdy /\ s = deq_ptr
    BY <2>2, <2>3, NoneIs, Zenon
  <2>4. CASE ~(WCU!deq_rdy /\ s = deq_ptr) /\ WCU!ins_en /\ ~WCU!bypass /\ s = X_reg.seq_num
    <3>1. X_reg.val
      BY <2>4 DEF WCU!ins_en
    <3>2. PICK k \in Live : \E wen \in Wens(Op(k).uop) : issued[k].done /\ X_reg = Outcome(Op(k), wen)
      BY <3>1, Parts, NoneIs, Zenon DEF RegisterHolds
    <3>3. PICK wen \in Wens(Op(k).uop) : issued[k].done /\ X_reg = Outcome(Op(k), wen)
      BY <3>2
    <3>4. Op(k).seq_num = s
      BY <2>4, <3>3, OpIs, OutcomeIs, Zenon
    <3>5. HoldsResult(entries'[s], s)
      BY <2>2, <2>4, <3>3, <3>4, Zenon DEF HoldsResult, IsDone
    <3>6. PICK e : e = entries'[s]
      OBVIOUS
    <3>7. HoldsResult(e, s)
      BY <3>5, <3>6, Zenon
    <3>. QED  BY <2>4, <3>6, <3>7, <1>4
  <2>5. CASE ~(WCU!deq_rdy /\ s = deq_ptr) /\ ~(WCU!ins_en /\ ~WCU!bypass /\ s = X_reg.seq_num)
    <3>1. entries'[s] = entries[s]
      BY <2>2, <2>5, Zenon
    <3>2. CASE entries[s] = None
      BY <3>1, <3>2, Zenon
    <3>3. CASE HoldsResult(entries[s], s)
      <4>1. PICK e : e = entries[s]
        OBVIOUS
      <4>2. HoldsResult(e, s)
        BY <3>3, <4>1, Zenon
      <4>. QED  BY <2>5, <3>1, <4>1, <4>2, <1>4
    <3>. QED  BY <3>2, <3>3, EntryHoldsIs, Parts, Zenon DEF BufferHolds
  <2>. QED  BY <2>3, <2>4, <2>5
<1>. QED  BY <1>2, <1>5, Zenon DEF BufferHolds, None, SeqNum

-----------------------------------------------------------------------------
(* The fetch unit, decode's register and the numbers in flight.            *)

\* Wrapped addresses are addresses.
LEMMA WrapType ==
  ASSUME NEW x \in Int
  PROVE  Wrap(x) \in Addr
BY AddrAssumption DEF Wrap, Addr

\* Fetch is redirected to an address of the program.
LEMMA TargetType ==
  ASSUME BInv
  PROVE  target \in FU!Squashes /\ (target = << >> <=> ~squash.val)
<1>1. ASSUME squash.val PROVE squash.target \in Addr
  <2>1. CASE branch.val
    <3>1. branch.target = CTRL_XU!Wrap(ctrl_reg.pc + ctrl_reg.imm)
      BY <2>1 DEF branch, CTRL_XU!squash
    <3>2. ctrl_reg # None
      BY <2>1, SquashShape, Parts, NoneIs
    <3>3. PICK k \in Live : \E wen \in Wens(Op(k).uop) :
                              Running(k, CTRL) /\ ctrl_reg = CTRL_XU!Latched(Op(k), wen)
      BY <3>2, Parts, Zenon DEF CtrlHolds
    <3>4. ctrl_reg.pc = Op(k).pc /\ ctrl_reg.imm = Op(k).imm
      BY <3>3 DEF CTRL_XU!Latched
    <3>5. issued[k] \in EntryType
      BY Parts, InFlightIs
    <3>6. issued[k].pc \in Addr
      BY <3>5 DEF EntryType
    <3>7. prog[issued[k].pc] \in Instruction
      BY <3>6, Parts DEF Types
    <3>8. ctrl_reg.pc + ctrl_reg.imm \in Int
      BY <3>4, <3>6, <3>7, AddrAssumption DEF Op, Instruction, Val, Addr
    <3>9. branch.target \in Addr
      BY <3>1, <3>8, WrapType DEF CTRL_XU!Wrap, Wrap
    <3>. QED  BY <2>1, <3>9, SquashShape, Parts
  <2>2. CASE ~branch.val
    <3>1. asked.val /\ squash = asked /\ F_reg.val
      BY <1>1, <2>2, SquashShape, Parts
    <3>2. asked.target = DIU!JumpTarget(F_reg.inst, F_reg.pc, DIU!rdata(F_reg.inst.rs1, complete))
      BY <3>1 DEF asked, DIU!squash_pub, DIU!inst
    <3>3. F_reg.pc \in Addr /\ F_reg.inst \in Instruction
      BY <3>1, Parts, InFlightIs
    <3>4. F_reg.inst.imm \in Val /\ F_reg.inst.rs1 \in Areg
      BY <3>3 DEF Instruction
    <3>5. DIU!rdata(F_reg.inst.rs1, complete) \in Val
      BY <3>4, Parts, RdataType
    <3> DEFINE a == DIU!rdata(F_reg.inst.rs1, complete)
    <3>6. F_reg.pc + F_reg.inst.imm \in Int /\ a + F_reg.inst.imm \in Int
      BY <3>3, <3>4, <3>5, AddrAssumption DEF Val, Addr
    <3> HIDE DEF a
    <3>7. Wrap(F_reg.pc + F_reg.inst.imm) \in Addr /\ Wrap(a + F_reg.inst.imm) \in Addr
      BY <3>6, WrapType
    <3>8. asked.target \in Addr
      BY <3>2, <3>7 DEF a, DIU!JumpTarget, DIU!Wrap, Wrap
    <3>. QED  BY <3>1, <3>8
  <2>. QED  BY <2>1, <2>2
<1>2. FU!Addr = Addr
  BY DEF FU!Addr, Addr
<1>. QED  BY <1>1, <1>2 DEF target, FU!Squashes

\* An instruction is transferred when decode gives up the one it holds and
\* nothing squashes.
LEMMA FetchedIs ==
  ASSUME BInv
  PROVE  /\ fetched \in BOOLEAN
         /\ fetched => /\ SNG!alloc_val /\ ~squash.val /\ ~killed
                       /\ to # {} \/ ~F_reg.val
                       /\ \E pc \in Addr : F_next = Fetched(pc, curr_head_ptr)
         /\ to # {} => F_reg.val /\ ~killed
         /\ killed => F_reg.val
<1>1. fetched <=> /\ resp_fifo # << >> /\ SNG!alloc_val /\ target = << >> /\ ~(num_to_squash > 0)
                  /\ F_rdy
  BY DEF fetched, FU!D_xfer, FU!D_val, FU!resp_empty, FU!should_drop
<1>2. F_rdy <=> to # {} \/ killed \/ ~F_reg.val
  BY Zenon DEF F_rdy, DIU!F_rdy, to, killed
<1>3. killed => F_reg.val /\ squash.val
  BY DEF killed, DIU!should_squash
<1>4. to # {} => F_reg.val /\ ~killed
  BY IssueShape, Zenon
<1>5. ASSUME resp_fifo # << >> PROVE \E pc \in Addr : F_next = Fetched(pc, curr_head_ptr)
  <2>1. resp_fifo \in Seq(FU!Addr) /\ FU!Addr = Addr
    BY Parts DEF FetchInv, FU!TypeOK, FU!Addr, Addr
  <2>2. Head(resp_fifo) \in Addr
    BY <1>5, <2>1, HeadTailProperties
  <2>. QED  BY <2>2, Zenon DEF F_next, Fetched
<1>6. fetched \in BOOLEAN
  BY DEF fetched, FU!D_xfer
<1>. QED  BY <1>1, <1>2, <1>3, <1>4, <1>5, <1>6, TargetType

\* A cycle keeps the types.
LEMMA TypesStep ==
  ASSUME BInv, NEW resp_val \in BOOLEAN, NEW finish \in BOOLEAN, AtEdge(resp_val, finish)
  PROVE  Types'
<1>0. DecodeEdge /\ PipesEdge(finish) /\ BackEdge
  BY DEF AtEdge
<1>1. prog' \in [Addr -> Instruction]
  BY <1>0, Parts DEF BackEdge, Types
<1>2. F_reg' = None \/ \E pc \in Addr, s \in SeqNum : F_reg' = [val |-> TRUE, inst |-> prog'[pc], pc |-> pc, seq_num |-> s]
  <2>1. F_reg' = IF fetched THEN F_next ELSE IF to # {} \/ killed THEN None ELSE F_reg
    BY <1>0 DEF DecodeEdge
  <2>2. prog' = prog
    BY <1>0 DEF BackEdge
  <2>3. curr_head_ptr \in SeqNum
    BY Parts, SameSeqNum, Zenon DEF SNGP!IInv, SNGP!TypeOK
  <2>4. CASE fetched
    BY <2>1, <2>2, <2>3, <2>4, FetchedIs, Zenon DEF Fetched
  <2>5. CASE ~fetched
    BY <2>1, <2>2, <2>5, Parts, Zenon DEF Fetched, Types
  <2>. QED  BY <2>4, <2>5, FetchedIs
<1>3. jump_sent' \in BOOLEAN /\ ctrl_sent' \in BOOLEAN /\ mul_done' \in BOOLEAN
  <2>1. jump_sent' = IF fetched THEN FALSE ELSE jump_sent \/ asked.val
    BY <1>0 DEF DecodeEdge
  <2>2. ctrl_sent' = (CTRL \notin to)
    BY <1>0 DEF PipesEdge
  <2>3. mul_done' = IF M \in to \/ (mul_done /\ M \in gnt) THEN FALSE
                     ELSE mul_done \/ (mul_reg.val /\ finish)
    BY <1>0 DEF PipesEdge
  <2>. QED  BY <2>1, <2>2, <2>3
<1>4. regs' \in [1 .. NumPregs - 1 -> Val]
  <2>1. regs' = DIU!NextRegs(complete) /\ regs \in [1 .. NumPregs - 1 -> Val]
    BY <1>0, Parts DEF DecodeEdge, Types
  <2>2. complete.val => complete.wdata \in Val
    BY Parts, CompleteType
  <2>. QED  BY <2>1, <2>2 DEF DIU!NextRegs
<1>5. issued' \in Seq(EntryType)
  BY <1>0, IssuedNext
<1>. QED  BY <1>1, <1>2, <1>3, <1>4, <1>5, Zenon DEF Types, Fetched, None, Instruction, EntryType, SeqNum

\* The numbers in flight, as InFlightIs has them.
InFlightOK ==
  /\ InFlight \in Seq(SeqNum)
  /\ F_reg.val \in BOOLEAN
  /\ Len(InFlight) = Len(issued) + (IF F_reg.val THEN 1 ELSE 0)
  /\ \A k \in 1 .. Len(issued) : InFlight[k] = issued[k].seq_num
  /\ F_reg.val => InFlight[Len(issued) + 1] = F_reg.seq_num

\* So they are in every state with the types.
LEMMA InFlightShape == Types => InFlightOK
BY InFlightIs DEF InDecode, Live, InFlightOK

\* Decode's instruction stays in flight unless a branch kills it.
Kept == IF F_reg.val /\ ~killed THEN 1 ELSE 0

\* The numbers in flight after a cycle: those that stay, then the one fetch gave.
LEMMA InFlightNext ==
  ASSUME BInv, NEW resp_val \in BOOLEAN, NEW finish \in BOOLEAN, AtEdge(resp_val, finish)
  PROVE  LET stay == Len(issued) - Leaving + Kept
         IN  /\ InFlight' \in Seq(SeqNum)
             /\ stay \in Nat
             /\ Len(InFlight') = stay + (IF fetched THEN 1 ELSE 0)
             /\ \A k \in 1 .. stay : /\ k + Leaving \in 1 .. Len(InFlight)
                                     /\ InFlight'[k] = InFlight[k + Leaving]
             /\ fetched => InFlight'[stay + 1] = curr_head_ptr
<1> DEFINE n == Len(issued)
           m == n - Leaving
<1>0. DecodeEdge /\ BackEdge /\ Types'
  BY TypesStep DEF AtEdge
<1>1. /\ n \in Nat /\ Leaving \in {0, 1} /\ Leaving <= n
      /\ Len(issued') = m + Joining
      /\ Joining \in {0, 1}
      /\ \A j \in 1 .. m : issued'[j].seq_num = issued[j + Leaving].seq_num
      /\ to # {} => issued'[m + 1].seq_num = F_reg.seq_num
  <2>1. /\ n \in Nat /\ Leaving \in {0, 1} /\ Leaving <= n
        /\ Len(issued') = m + Joining
        /\ Joining \in {0, 1}
    BY <1>0, IssuedNext, LeftIs, InFlightIs, Parts DEF Joining
  <2>2. \A j \in 1 .. m : issued'[j].seq_num = issued[j + Leaving].seq_num
    <3> SUFFICES ASSUME NEW j \in 1 .. m PROVE issued'[j].seq_num = issued[j + Leaving].seq_num
      OBVIOUS
    <3>1. issued'[j] = Left[j] /\ j + Leaving \in Live
          /\ Left[j] = [issued[j + Leaving] EXCEPT !.done = @ \/ Finishes(j + Leaving)]
      BY <1>0, IssuedNext, LeftIs
    <3>2. issued[j + Leaving] \in EntryType
      BY <3>1, InFlightIs, Parts
    <3>. QED  BY <3>1, <3>2 DEF EntryType
  <2>3. to # {} => issued'[m + 1].seq_num = F_reg.seq_num
    BY <1>0, IssuedNext, SentIs, Parts
  <2>. QED  BY <2>1, <2>2, <2>3
<1>2. /\ InFlight \in Seq(SeqNum)
      /\ Len(InFlight) = n + InDecode
      /\ \A k \in 1 .. n : InFlight[k] = issued[k].seq_num
      /\ F_reg.val => InFlight[n + 1] = F_reg.seq_num
  BY InFlightIs, Parts DEF Live
<1>3. /\ InFlight' \in Seq(SeqNum)
      /\ F_reg'.val \in BOOLEAN
      /\ Len(InFlight') = Len(issued') + (IF F_reg'.val THEN 1 ELSE 0)
      /\ \A k \in 1 .. Len(issued') : InFlight'[k] = issued'[k].seq_num
      /\ F_reg'.val => InFlight'[Len(issued') + 1] = F_reg'.seq_num
  <2>1. InFlightOK'
    BY <1>0, InFlightShape, PTL
  <2>. QED  BY <2>1, SameSeqNum DEF InFlightOK, SeqNum
<1>4. F_reg' = IF fetched THEN F_next ELSE IF to # {} \/ killed THEN None ELSE F_reg
  BY <1>0 DEF DecodeEdge
<1>5. /\ fetched => F_reg'.val = TRUE /\ F_reg'.seq_num = curr_head_ptr
      /\ ~fetched /\ (to # {} \/ killed) => F_reg'.val = FALSE
  BY <1>4, NoneIs, Zenon DEF F_next
<1>6. /\ F_reg.val \in BOOLEAN
      /\ Joining = IF to # {} THEN 1 ELSE 0
      /\ InDecode = IF F_reg.val THEN 1 ELSE 0
      /\ Kept = IF F_reg.val /\ ~killed THEN 1 ELSE 0
  BY InFlightIs, Parts DEF Joining, InDecode, Kept
<1>a. \A k \in 1 .. m : /\ k + Leaving \in 1 .. Len(InFlight)
                       /\ InFlight'[k] = InFlight[k + Leaving]
  BY <1>1, <1>2, <1>3, <1>6
<1>b. to # {} => /\ F_reg.val /\ ~killed
                 /\ m + 1 + Leaving \in 1 .. Len(InFlight)
                 /\ InFlight'[m + 1] = InFlight[m + 1 + Leaving]
  <2> SUFFICES ASSUME to # {} PROVE /\ F_reg.val /\ ~killed
                                    /\ m + 1 + Leaving \in 1 .. Len(InFlight)
                                    /\ InFlight'[m + 1] = InFlight[m + 1 + Leaving]
    OBVIOUS
  <2>1. F_reg.val /\ ~killed
    BY FetchedIs
  <2>2. m + 1 + Leaving = n + 1 /\ Joining = 1 /\ InDecode = 1
    BY <1>1, <1>6, <2>1
  <2>. QED  BY <1>1, <1>2, <1>3, <2>1, <2>2
<1>c. InFlight' \in Seq(SeqNum)
  BY <1>3
<1> DEFINE ok(k) == k + Leaving \in 1 .. Len(InFlight) /\ InFlight'[k] = InFlight[k + Leaving]
<1>7. CASE to # {}
  <2>1. /\ Kept = 1 /\ Joining = 1
        /\ ~fetched => F_reg'.val = FALSE
    BY <1>5, <1>6, <1>7, <1>b
  <2>2. \A k \in 1 .. m + 1 : k \in 1 .. m \/ k = m + 1
    BY <1>1
  <2>3. \A k \in 1 .. m + Kept : ok(k)
    BY <1>7, <1>a, <1>b, <2>1, <2>2
  <2>4. m + Kept = Len(issued')
    BY <1>1, <2>1
  <2>. QED  BY <1>1, <1>3, <1>5, <2>1, <2>3, <2>4
<1>8. CASE to = {} /\ fetched
  <2>1. Kept = 0 /\ Joining = 0 /\ Len(issued') = m
    BY <1>1, <1>6, <1>8, FetchedIs
  <2>. QED  BY <1>1, <1>3, <1>5, <1>8, <1>a, <2>1
<1>9. CASE to = {} /\ ~fetched /\ killed
  <2>1. /\ F_reg'.val = FALSE /\ Kept = 0 /\ Joining = 0
    BY <1>5, <1>6, <1>9, FetchedIs
  <2>2. m + Kept = m /\ m \in Nat /\ Len(InFlight') = m
    BY <1>1, <1>3, <2>1
  <2>3. \A k \in 1 .. m + Kept : ok(k)
    BY <1>a, <2>2, Zenon
  <2> HIDE DEF ok
  <2>. QED  BY <1>c, <1>9, <2>2, <2>3 DEF ok
<1>10. CASE to = {} /\ ~fetched /\ ~killed
  <2>1. /\ F_reg' = F_reg /\ Kept = InDecode /\ Joining = 0
    BY <1>4, <1>6, <1>10
  <2>2. F_reg.val => ok(m + 1)
    <3>1. m + 1 + Leaving = n + 1 /\ Len(issued') + 1 = m + 1 /\ n + 1 \in 1 .. n + 1
      BY <1>1, <2>1
    <3>2. F_reg.val => Len(InFlight) = n + 1
      BY <1>2, <1>6
    <3>. QED  BY <1>2, <1>3, <2>1, <3>1, <3>2
  <2>3. \A k \in 1 .. m + Kept : k \in 1 .. m \/ (F_reg.val /\ k = m + 1)
    BY <1>1, <1>6, <2>1
  <2>4. \A k \in 1 .. m : ok(k)
    BY <1>a
  <2> HIDE DEF ok
  <2>5. \A k \in 1 .. m + Kept : ok(k)
    BY <2>2, <2>3, <2>4, Zenon
  <2>6. m + Kept \in Nat /\ Len(InFlight') = m + Kept
    <3>1. Len(InFlight') = Len(issued') + (IF F_reg.val THEN 1 ELSE 0)
      BY <1>3, <2>1, Zenon
    <3>2. Len(InFlight') = Len(issued') + Kept
      BY <1>6, <2>1, <3>1, Zenon
    <3>3. Kept \in {0, 1} /\ m \in Nat
      BY <1>1, <1>6
    <3> HIDE DEF m
    <3>4. Len(issued') = m + Joining
      BY <1>1 DEF m
    <3>. QED  BY <2>1, <3>2, <3>3, <3>4
  <2>. QED  BY <1>c, <1>10, <2>5, <2>6 DEF ok
<1>. QED  BY <1>7, <1>8, <1>9, <1>10

-----------------------------------------------------------------------------
(* The rest of the processor is the environment of SeqNumGen.              *)

\* Taking a number does not move the head onto the tail, as
\* docs/uarch/seq_nums.rst:38 asks.  The comparison of SeqNumGenL3.v:103 sees
\* to it, except that with NSeq - 1 at the head it does not notice a tail at 0.
HeadStaysBehindTail == fetched => curr_head_ptr' # curr_tail_ptr'

\* What SeqNumGen reads of the interfaces.
LEMMA SngEdgeReads ==
  ASSUME NEW a, NEW b, NEW c, NEW d, NEW q, NEW r,
         a <=> b,
         c.val <=> d.val, c.val => c.seq_num = d.seq_num,
         q.val <=> r.val, q.val => q.seq_num = r.seq_num,
         SNG!Edge(a, c, q)
  PROVE  SNG!Edge(b, d, r)
<1>1. SNG!NextList(a, c, q) = SNG!NextList(b, d, r)
  BY DEF SNG!NextList
<1>2. SNG!NextHead(a, q) = SNG!NextHead(b, r)
  BY DEF SNG!NextHead
<1>3. SNG!OldestNext(oldest_seq_num, c) = SNG!OldestNext(oldest_seq_num, d)
  BY DEF SNG!OldestNext
<1>. QED  BY <1>1, <1>2, <1>3, Zenon DEF SNG!Edge

\* The notification of what commits, for SeqNumGen.
Committing == IF retires THEN SNG!Notif(InFlight[1]) ELSE SNG!NoNotif

\* The number that commits is the oldest in flight.
LEMMA CommittingIs ==
  ASSUME BInv
  PROVE  /\ Committing \in SNG!Commits
         /\ Committing.val <=> commit.val
         /\ commit.val <=> retires
         /\ commit.val => /\ Committing.seq_num = commit.seq_num
                          /\ Len(InFlight) > 0 /\ Len(issued) > 0 /\ issued[1].done
         /\ SNG!Committed(Committing) \in Seq(SeqNum)
         /\ Len(InFlight) - Leaving \in Nat
         /\ Len(SNG!Committed(Committing)) = Len(InFlight) - Leaving
         /\ \A k \in 1 .. Len(InFlight) - Leaving :
              SNG!Committed(Committing)[k] = InFlight[k + Leaving]
<1>1. /\ Len(InFlight) = Len(issued) + InDecode /\ Len(issued) \in Nat
      /\ InFlight \in Seq(SeqNum) /\ InDecode \in {0, 1}
      /\ \A k \in Live : InFlight[k] = issued[k].seq_num
  BY InFlightIs, Parts DEF InDecode
<1>2. CASE retires
  <2>1. commit.val /\ commit.seq_num = issued[1].seq_num /\ 1 \in Live /\ issued[1].done
    BY <1>2, CommitShape, Parts DEF Commits
  <2>2. Len(issued) > 0 /\ Len(InFlight) > 0 /\ DOMAIN InFlight = 1 .. Len(InFlight)
    BY <1>1, <2>1, LenProperties DEF Live
  <2>3. Committing = SNG!Notif(InFlight[1]) /\ Leaving = 1
    BY <1>2 DEF Committing, Leaving
  <2>4. 1 \in {1} \cap DOMAIN InFlight
    BY <2>2, <1>1
  <2>5. Committing \in SNG!Commits
    BY <2>3, <2>4, Zenon DEF SNG!Commits
  <2>6. Committing.val = TRUE /\ Committing.seq_num = InFlight[1]
    BY <2>3 DEF SNG!Notif
  <2>7. SNG!Committed(Committing) = Tail(InFlight)
    BY <2>6 DEF SNG!Committed
  <2>8. InFlight # << >>
    BY <2>2
  <2>9. /\ Tail(InFlight) \in Seq(SeqNum) /\ Len(Tail(InFlight)) = Len(InFlight) - 1
        /\ \A k \in 1 .. Len(InFlight) - 1 : Tail(InFlight)[k] = InFlight[k + 1]
    BY <1>1, <2>8, HeadTailProperties
  <2>10. Committing.seq_num = commit.seq_num
    BY <1>1, <2>1, <2>6
  <2>11. Len(InFlight) - 1 \in Nat
    BY <1>1, <2>2
  <2>. QED  BY <1>2, <2>1, <2>2, <2>3, <2>5, <2>6, <2>7, <2>9, <2>10, <2>11, Zenon
<1>3. CASE ~retires
  <2>1. ~commit.val
    BY <1>3, CommitShape, Parts DEF Commits, NoNotif
  <2>2. Committing = SNG!NoNotif /\ Leaving = 0
    BY <1>3 DEF Committing, Leaving
  <2>3. Committing \in SNG!Commits /\ Committing.val = FALSE
    BY <2>2 DEF SNG!Commits, SNG!NoNotif
  <2>4. SNG!Committed(Committing) = InFlight
    BY <2>3 DEF SNG!Committed
  <2>5. Len(InFlight) - 0 = Len(InFlight) /\ \A k \in 1 .. Len(InFlight) - 0 : k + 0 = k
    BY <1>1
  <2>6. Len(InFlight) \in Nat
    BY <1>1
  <2>. QED  BY <1>1, <1>3, <2>1, <2>2, <2>3, <2>4, <2>5, <2>6, Zenon
<1>. QED  BY <1>2, <1>3

\* The pipeline never holds all the numbers, and its constants are those of
\* SeqNumGen.
LEMMA SngConstants ==
  /\ SNGP!PipelineFits
  /\ NSeq \in Nat \ {0} /\ NSeq - 1 \in Nat \ {0} /\ ReclaimWidth \in 1 .. NSeq
<1>1. NSeq - 1 < NSeq /\ NSeq - 1 \in Nat \ {0}
  BY NSeqAssumption, SeqNumBitsAssumption
<1>. QED  BY <1>1, NSeqAssumption, ReclaimWidthAssumption DEF SNGP!PipelineFits

\* When an instruction takes a number, one more than it is free: the tail
\* comes to the oldest number, which a full ring would put at the head.
LEMMA RoomForOne ==
  ASSUME BInv, NEW c, SNG!Edge(TRUE, c, SNG!NoNotif), fetched, HeadStaysBehindTail
  PROVE  Len(InFlight) < NSeq - 1
<1>1. /\ SNGP!TypeOK /\ SNGP!InFlightIsWindow /\ SNGP!TailFollowsOldest /\ SNGP!ListIsWindow
  BY Parts, Zenon DEF SNGP!IInv
<1>2. curr_tail_ptr' = oldest_seq_num
  <2>1. SNGP!ReclaimTail
    BY Zenon DEF SNG!Edge, SNG!ReclaimTail, SNGP!ReclaimTail, SNG!IsTailIncr, SNGP!IsTailIncr,
       SNG!reclaim_valid, SNGP!reclaim_valid, SNG!entries_allocated, SNGP!entries_allocated,
       SNG!Plus, SNGP!Plus, SNG!Minus, SNGP!Minus, SNG!FREE, SNGP!FREE
  <2>. QED  BY <1>1, <2>1, SngConstants, SNGP!ReclaimCatchesUp
<1>3. curr_head_ptr' = Plus(curr_head_ptr, 1)
  BY DEF SNG!Edge, SNG!NextHead, SNG!NoNotif, SNG!Plus, Plus
<1>4. /\ oldest_seq_num \in SeqNum
      /\ curr_head_ptr = Plus(oldest_seq_num, Len(InFlight))
      /\ Len(InFlight) \in Nat /\ Len(InFlight) < NSeq
  BY Numbers, InFlightIs, Parts DEF InDecode
<1>5. curr_head_ptr' # oldest_seq_num
  BY <1>2 DEF HeadStaysBehindTail
<1>. QED  BY <1>3, <1>4, <1>5, NSeqAssumption DEF Plus, SeqNum

\* Every cycle is a step of SeqNumGen: quiet, an allocation or a squash.
LEMMA SngStep ==
  ASSUME BInv, NEW resp_val \in BOOLEAN, NEW finish \in BOOLEAN, AtEdge(resp_val, finish),
         HeadStaysBehindTail
  PROVE  SNG!Next
<1> DEFINE n == Len(issued)
           c == Committing
           m == Len(InFlight)
<1>1. SNG!Edge(fetched, commit, squash)
  BY DEF AtEdge, FrontEdge
<1>2. /\ c \in SNG!Commits
      /\ c.val <=> commit.val
      /\ commit.val <=> retires
      /\ commit.val => /\ c.seq_num = commit.seq_num /\ m > 0 /\ n > 0 /\ issued[1].done
      /\ SNG!Committed(c) \in Seq(SeqNum)
      /\ m - Leaving \in Nat
      /\ Len(SNG!Committed(c)) = m - Leaving
      /\ \A k \in 1 .. m - Leaving : SNG!Committed(c)[k] = InFlight[k + Leaving]
  BY CommittingIs
<1>3. /\ InFlight' \in Seq(SeqNum)
      /\ Len(InFlight') = n - Leaving + Kept + (IF fetched THEN 1 ELSE 0)
      /\ \A k \in 1 .. n - Leaving + Kept : InFlight'[k] = InFlight[k + Leaving]
      /\ fetched => InFlight'[n - Leaving + Kept + 1] = curr_head_ptr
  BY InFlightNext, Zenon
<1>4. /\ m = n + InDecode /\ n \in Nat /\ Leaving \in {0, 1}
      /\ InFlight \in Seq(SeqNum) /\ F_reg.val \in BOOLEAN
      /\ \A k \in 1 .. n : InFlight[k] = issued[k].seq_num
      /\ F_reg.val => InFlight[n + 1] = F_reg.seq_num
      /\ InDecode = IF F_reg.val THEN 1 ELSE 0
      /\ Kept = IF F_reg.val /\ ~killed THEN 1 ELSE 0
  BY InFlightIs, LeftIs, Parts DEF Live, InDecode, Kept
<1> HIDE DEF c, m
<1>5. ASSUME ~fetched, ~squash.val PROVE SNG!Cycle(c)
  <2>1. ~killed
    BY <1>5 DEF killed, DIU!should_squash
  <2>2. Kept = InDecode /\ n - Leaving + Kept = m - Leaving /\ n - Leaving + Kept \in Nat
    BY <1>2, <1>4, <2>1
  <2>3. InFlight' = SNG!Committed(c)
    <3> DEFINE s == SNG!Committed(c)
    <3>1. Len(InFlight') = m - Leaving
      BY <1>3, <1>5, <2>2
    <3>2. \A k \in 1 .. m - Leaving : InFlight'[k] = InFlight[k + Leaving]
      BY <1>3, <2>2, Zenon
    <3>3. /\ s \in Seq(SeqNum) /\ Len(s) = m - Leaving
          /\ \A k \in 1 .. m - Leaving : s[k] = InFlight[k + Leaving]
      BY <1>2, Zenon
    <3> HIDE DEF s
    <3>4. \A k \in 1 .. Len(s) : InFlight'[k] = s[k]
      BY <3>2, <3>3, Zenon
    <3>5. Len(InFlight') = Len(s) /\ InFlight' \in Seq(SeqNum)
      BY <1>3, <3>1, <3>3
    <3>6. InFlight' = s
      BY <3>3, <3>4, <3>5, SeqEqual, Zenon
    <3>. QED  BY <3>6 DEF s
  <2>4. SNG!Edge(FALSE, c, SNG!NoNotif)
    <3>1. fetched <=> FALSE
      BY <1>5
    <3>2. (squash.val <=> SNG!NoNotif.val) /\ (squash.val => squash.seq_num = SNG!NoNotif.seq_num)
      BY <1>5 DEF SNG!NoNotif
    <3>3. (commit.val <=> c.val) /\ (commit.val => commit.seq_num = c.seq_num)
      BY <1>2, Zenon
    <3>. QED  BY <1>1, <3>1, <3>2, <3>3, SngEdgeReads, Zenon
  <2>. QED  BY <2>3, <2>4, Zenon DEF SNG!Cycle, SNG!Quiet
<1>6. ASSUME fetched PROVE SNG!Cycle(c)
  <2>1. SNG!alloc_val /\ ~squash.val /\ ~killed
    BY <1>6, FetchedIs
  <2>2. Kept = InDecode /\ n - Leaving + Kept = m - Leaving
    BY <1>2, <1>4, <2>1
  <2>3. InFlight' = Append(SNG!Committed(c), curr_head_ptr)
    <3> DEFINE s == Append(SNG!Committed(c), curr_head_ptr)
    <3>1. curr_head_ptr \in SeqNum
      BY Parts, SameSeqNum, Zenon DEF SNGP!IInv, SNGP!TypeOK
    <3>2. /\ s \in Seq(SeqNum) /\ Len(s) = m - Leaving + 1
          /\ \A k \in 1 .. m - Leaving : s[k] = InFlight[k + Leaving]
          /\ s[m - Leaving + 1] = curr_head_ptr
      BY <1>2, <3>1, AppendProperties
    <3>3. Len(InFlight') = m - Leaving + 1
      BY <1>3, <1>6, <2>2
    <3> HIDE DEF s
    <3>4. \A k \in 1 .. Len(s) : InFlight'[k] = s[k]
      <4>1. TAKE k \in 1 .. Len(s)
      <4>2. CASE k \in 1 .. m - Leaving
        <5>1. InFlight'[k] = InFlight[k + Leaving]
          BY <1>3, <2>2, <4>2, Zenon
        <5>. QED  BY <3>2, <4>2, <5>1, Zenon
      <4>3. CASE k = m - Leaving + 1
        BY <1>3, <1>6, <2>2, <3>2, <4>3, Zenon
      <4>4. k \in 1 .. m - Leaving \/ k = m - Leaving + 1
        <5>1. m - Leaving \in Nat /\ Len(s) = m - Leaving + 1
          BY <1>2, <3>2
        <5>. QED  BY <4>1, <5>1
      <4>. QED  BY <4>2, <4>3, <4>4
    <3>5. InFlight' = s
      BY <1>3, <3>2, <3>3, <3>4, SeqEqual, Zenon
    <3>. QED  BY <3>5 DEF s
  <2>4. SNG!Edge(TRUE, c, SNG!NoNotif)
    <3>1. fetched <=> TRUE
      BY <1>6
    <3>2. (squash.val <=> SNG!NoNotif.val) /\ (squash.val => squash.seq_num = SNG!NoNotif.seq_num)
      BY <2>1 DEF SNG!NoNotif
    <3>3. (commit.val <=> c.val) /\ (commit.val => commit.seq_num = c.seq_num)
      BY <1>2, Zenon
    <3>. QED  BY <1>1, <3>1, <3>2, <3>3, SngEdgeReads, Zenon
  <2>5. Len(InFlight) < NSeq - 1
    BY <1>6, <2>4, RoomForOne
  <2>. QED  BY <2>1, <2>3, <2>4, <2>5, Zenon DEF SNG!Cycle, SNG!Alloc
<1>7. ASSUME ~fetched, squash.val PROVE SNG!Cycle(c)
  <2> DEFINE k == n + Kept
  <2>1. /\ k \in 1 .. m /\ InFlight[k] = squash.seq_num
        /\ c.val => k > 1
    <3>1. CASE branch.val
      <4>1. /\ squash = branch /\ n \in Live /\ ctrl_reg.val
            /\ branch.seq_num = issued[n].seq_num /\ ctrl_reg.seq_num = issued[n].seq_num
        <5>1. Types /\ SNGP!IInv /\ BranchIsLast
          BY Parts, Zenon
        <5>. QED  BY <3>1, <5>1, SquashShape
      <4>2. Kept = 0
        BY <1>4, <3>1, KilledIs, Parts
      <4>3. c.val => n # 1
        <5> SUFFICES ASSUME c.val, n = 1 PROVE FALSE
          OBVIOUS
        <5>1. PICK j \in Live : \E wen \in Wens(Op(j).uop) :
                Running(j, CTRL) /\ ctrl_reg = CTRL_XU!Latched(Op(j), wen)
          BY <4>1, Parts, NoneIs, Zenon DEF CtrlHolds
        <5>2. j = 1
          BY DEF Live
        <5>. QED  BY <1>2, <5>1, <5>2 DEF Running
      <4>4. k = n /\ n \in 1 .. m /\ (n # 1 => n > 1)
        <5>1. m = n + InDecode /\ n \in Nat /\ n >= 1 /\ InDecode \in {0, 1}
          BY <1>4, <4>1 DEF Live
        <5>2. k = n + 0
          BY <4>2, Zenon
        <5> HIDE DEF n, k
        <5>3. n + 0 = n /\ (n # 1 => n > 1)
          BY <5>1
        <5>4. n \in 1 .. m
          BY <5>1
        <5>. QED  BY <5>2, <5>3, <5>4
      <4>5. InFlight[n] = issued[n].seq_num
        BY <1>4, <4>1 DEF Live
      <4>. QED  BY <4>1, <4>3, <4>4, <4>5
    <3>2. CASE ~branch.val
      <4>1. asked.val /\ squash = asked /\ F_reg.val /\ asked.seq_num = F_reg.seq_num
        BY <1>7, <3>2, SquashShape, Parts
      <4>2. Kept = 1 /\ InDecode = 1
        BY <1>4, <3>2, <4>1, KilledIs, Parts
      <4>3. k = n + 1 /\ m = n + 1 /\ k \in 1 .. m
        BY <1>4, <4>2
      <4>4. InFlight[k] = squash.seq_num
        BY <1>4, <4>1, <4>3
      <4>5. c.val => n > 0
        BY <1>2, Zenon
      <4>6. c.val => k > 1
        BY <1>4, <4>3, <4>5
      <4>. QED  BY <4>3, <4>4, <4>6
    <3>. QED  BY <3>1, <3>2
  <2>2. k - Leaving \in Nat /\ Len(InFlight') = k - Leaving
    BY <1>2, <1>3, <1>4, <1>7, <2>1
  <2>3. (IF c.val THEN 2 ELSE 1) = 1 + Leaving
    BY <1>2 DEF Leaving
  <2>4. InFlight' = SubSeq(InFlight, 1 + Leaving, k)
    <3> DEFINE s == SubSeq(InFlight, 1 + Leaving, k)
    <3>1. \A j \in 1 + Leaving .. k : InFlight[j] \in SeqNum
      BY <1>4, <2>1, ElementOfSeq DEF m
    <3>2. /\ s \in Seq(SeqNum) /\ Len(s) = (IF 1 + Leaving <= k THEN k - (1 + Leaving) + 1 ELSE 0)
          /\ \A j \in 1 .. k - (1 + Leaving) + 1 : s[j] = InFlight[1 + Leaving + j - 1]
      <4>1. 1 + Leaving \in Int /\ k \in Int
        BY <1>4, <2>1
      <4> HIDE DEF k
      <4>. QED  BY <1>4, <3>1, <4>1, SubSeqProperties
    <3>a. Leaving \in Nat /\ k \in Nat /\ k - Leaving \in Nat
      BY <1>4, <2>1, <2>2
    <3>b. \A j \in 1 .. k - Leaving : InFlight'[j] = InFlight[j + Leaving]
      <4>1. n - Leaving + Kept = k - Leaving
        BY <1>4
      <4>. QED  BY <1>3, <4>1, Zenon
    <3> HIDE DEF s, k
    <3>3. Len(s) = k - Leaving
      BY <3>a, <3>2
    <3>4. \A j \in 1 .. Len(s) : InFlight'[j] = s[j]
      <4>1. TAKE j \in 1 .. Len(s)
      <4>2. j \in 1 .. k - (1 + Leaving) + 1 /\ 1 + Leaving + j - 1 = j + Leaving
            /\ j \in 1 .. k - Leaving
        BY <3>a, <3>3
      <4>3. s[j] = InFlight[j + Leaving]
        BY <3>2, <4>2, Zenon
      <4>4. InFlight'[j] = InFlight[j + Leaving]
        BY <3>b, <4>2, Zenon
      <4>. QED  BY <4>3, <4>4, Zenon
    <3>5. InFlight' = s
      BY <1>3, <2>2, <3>2, <3>3, <3>4, SeqEqual, Zenon
    <3>. QED  BY <3>5 DEF s, k
  <2>5. SNG!Edge(FALSE, c, SNG!Notif(InFlight[k]))
    <3> DEFINE r == SNG!Notif(InFlight[k])
    <3>1. fetched <=> FALSE
      BY <1>7
    <3>2. (squash.val <=> r.val) /\ (squash.val => squash.seq_num = r.seq_num)
      BY <1>7, <2>1 DEF SNG!Notif
    <3>3. (commit.val <=> c.val) /\ (commit.val => commit.seq_num = c.seq_num)
      BY <1>2, Zenon
    <3> HIDE DEF r
    <3>4. SNG!Edge(FALSE, c, r)
      BY <1>1, <3>1, <3>2, <3>3, SngEdgeReads, Zenon
    <3>. QED  BY <3>4 DEF r
  <2>6. k \in 1 .. NSeq /\ k \in DOMAIN InFlight
    <3>1. m < NSeq /\ DOMAIN InFlight = 1 .. m
      BY <1>4, Numbers, Parts, LenProperties DEF m
    <3>. QED  BY <1>4, <2>1, <3>1, NSeqAssumption
  <2> HIDE DEF k
  <2>7. SNG!Squash(c, k)
    BY <2>1, <2>3, <2>4, <2>5, <2>6, Zenon DEF SNG!Squash
  <2>. QED  BY <2>6, <2>7, Zenon DEF SNG!Cycle
<1>8. SNG!Cycle(c)
  BY <1>5, <1>6, <1>7
<1>. QED  BY <1>2, <1>8, Zenon DEF SNG!Next

\* The proofs about SeqNumGen speak of the same steps.
LEMMA SngNextIs == SNGP!Next <=> SNG!Next
BY DEF SNGP!Next, SNG!Next, SNGP!Commits, SNG!Commits, SNG!NoNotif, SNGP!NoNotif, SNG!Notif,
       SNGP!Notif, SNG!Cycle, SNGP!Cycle, SNG!Quiet, SNGP!Quiet, SNG!Alloc, SNGP!Alloc,
       SNG!Squash, SNGP!Squash, SNG!Edge, SNGP!Edge, SNG!Committed, SNGP!Committed,
       SNG!NextList, SNGP!NextList, SNG!NextHead, SNGP!NextHead, SNG!ReclaimTail,
       SNGP!ReclaimTail, SNG!IsTailIncr, SNGP!IsTailIncr, SNG!reclaim_valid,
       SNGP!reclaim_valid, SNG!OldestNext, SNGP!OldestNext, SNG!Plus, SNGP!Plus, SNG!Minus,
       SNGP!Minus, SNG!entries_allocated, SNGP!entries_allocated, SNG!FREE, SNGP!FREE,
       SNG!ALLOC, SNGP!ALLOC, SNG!IsOlder, SNGP!IsOlder, SNG!SeqNum, SNGP!SeqNum,
       SNG!alloc_val, SNGP!alloc_val

\* Its invariant is inductive in the processor.
LEMMA SngInvStep == SNGP!IInv /\ [SNG!Next]_(SNG!vars) => SNGP!IInv'
<1>1. [SNG!Next]_(SNG!vars) => [SNGP!Next]_(SNGP!vars)
  BY SngNextIs, Zenon DEF SNG!vars, SNGP!vars
<1>. QED  BY <1>1, SngConstants, SNGP!InductiveStep, Zenon

\* A step of fetch is one of FetchUnit's cycles.
LEMMA FetchStep ==
  ASSUME BInv, NEW resp_val \in BOOLEAN, NEW finish \in BOOLEAN, AtEdge(resp_val, finish)
  PROVE  FU!Next /\ FetchInv'
<1>1. FU!Edge(TRUE, resp_val, F_rdy, SNG!alloc_val, target) /\ (resp_val => inst_mem # << >>)
  BY DEF AtEdge, FrontEdge
<1>2. target \in FU!Squashes
  BY TargetType
<1>3. F_rdy \in BOOLEAN /\ SNG!alloc_val \in BOOLEAN
  BY Zenon DEF F_rdy, DIU!F_rdy, SNG!alloc_val
<1>4. FU!Cycle(TRUE, resp_val, F_rdy, SNG!alloc_val, target)
  BY <1>1, Zenon DEF FU!Cycle
<1>5. FU!Next
  BY <1>2, <1>3, <1>4, Zenon DEF FU!Next
<1>. QED  BY <1>2, <1>3, <1>4, <1>5, Parts, FetchCycle

-----------------------------------------------------------------------------
(* The rest of the processor is the environment of RenameTable.            *)

\* The instructions the rename table knows of are those issued.
RenamedOK ==
  /\ Renamed \in Seq(RTP!Issued)
  /\ Len(Renamed) = Len(issued)
  /\ \A k \in 1 .. Len(issued) :
       /\ Renamed[k].areg = issued[k].areg /\ Renamed[k].preg = issued[k].preg
       /\ Renamed[k].ppreg = issued[k].ppreg /\ Renamed[k].done = issued[k].done

\* They are, in every state with the types.
LEMMA RenamedIs == Types => RenamedOK
<1> SUFFICES ASSUME Types PROVE RenamedOK
  OBVIOUS
<1>1. RTP!Issued = [areg : Areg, preg : 0 .. NumPregs - 1, ppreg : 0 .. NumPregs - 1, done : BOOLEAN]
  BY SameTable, Zenon DEF RTP!Issued
<1>2. Len(issued) \in Nat /\ \A k \in 1 .. Len(issued) : issued[k] \in EntryType
  BY InFlightIs DEF Live
<1>3. \A k \in 1 .. Len(issued) :
        [areg |-> issued[k].areg, preg |-> issued[k].preg, ppreg |-> issued[k].ppreg,
         done |-> issued[k].done] \in RTP!Issued
  BY <1>1, <1>2 DEF EntryType
<1>4. Renamed = [k \in 1 .. Len(issued) |->
                  [areg |-> issued[k].areg, preg |-> issued[k].preg, ppreg |-> issued[k].ppreg,
                   done |-> issued[k].done]]
  BY DEF Renamed
<1>5. Renamed \in Seq(RTP!Issued) /\ Len(Renamed) = Len(issued)
  BY <1>2, <1>3, <1>4
<1>. QED  BY <1>4, <1>5 DEF RenamedOK

\* The instruction that completes, or 0.
CompletesAt(k) ==
  /\ k = 0 => ~complete.val
  /\ k # 0 => /\ k \in Live /\ ~issued[k].done
              /\ complete.val /\ complete.preg = issued[k].preg
  /\ \A j \in Live : Finishes(j) <=> j = k

\* At most one instruction completes, and it runs.
LEMMA CompletingIs ==
  ASSUME BInv
  PROVE  \E k \in 0 .. NSeq : CompletesAt(k)
<1>1. CASE complete = NoNotif
  <2>1. ~complete.val
    BY <1>1 DEF NoNotif
  <2>2. \A j \in Live : j # 0
    BY InFlightIs, Parts DEF Live
  <2>3. CompletesAt(0)
    BY <2>1, <2>2, Zenon DEF CompletesAt, Finishes
  <2>4. 0 \in 0 .. NSeq
    BY NSeqAssumption
  <2>. QED  BY <2>3, <2>4, Zenon
<1>2. ASSUME NEW i \in {ALU, M, CTRL}, NEW k \in Live, NEW wen \in Wens(Op(k).uop), Completes(i, k, wen)
      PROVE  k \in 0 .. NSeq /\ CompletesAt(k)
  <2>1. complete.val = TRUE /\ complete.seq_num = issued[k].seq_num /\ complete.preg = issued[k].preg
    BY <1>2 DEF Completes
  <2>2. ~issued[k].done
    BY <1>2, Zenon DEF Completes, Offers, Running
  <2>3. k # 0 /\ k \in 0 .. NSeq
    <3>1. /\ Len(issued) \in Nat /\ Len(issued) + InDecode < NSeq /\ InDecode \in {0, 1}
          /\ k \in 1 .. Len(issued)
      BY Numbers, InFlightIs, Parts DEF Live, InDecode
    <3>. QED  BY <3>1, NSeqAssumption
  <2>4. \A j \in Live : issued[j].seq_num = issued[k].seq_num => j = k
    BY Numbers, Parts
  <2>. QED  BY <2>1, <2>2, <2>3, <2>4, Zenon DEF CompletesAt, Finishes
<1>. QED  BY <1>1, <1>2, CompleteShape, Parts

\* What the rename table reads of the two interfaces.
LEMMA RtEdgeReads ==
  ASSUME NEW en, NEW areg, NEW preg, NEW c, NEW d, NEW q, NEW r,
         c.val <=> d.val, c.val => c.preg = d.preg,
         q.val <=> r.val, q.val => q.ppreg = r.ppreg,
         DIU!RT!Edge(en, areg, preg, c, q)
  PROVE  RTP!Edge(en, areg, preg, d, r)
<1>0. (DIU!RT!alloc_rdy <=> RTP!alloc_rdy) /\ DIU!RT!RenamedAreg = RTP!RenamedAreg
      /\ DIU!RT!RenamedPreg = RTP!RenamedPreg
  BY SameTable, Zenon
<1>1. \A x : x \in BOOLEAN => DIU!RT!NextTable(x, areg, preg, c) = RTP!NextTable(x, areg, preg, d)
  BY <1>0 DEF DIU!RT!NextTable, RTP!NextTable
<1>2. \A x : x \in BOOLEAN => DIU!RT!NextFree(x, preg, q) = RTP!NextFree(x, preg, r)
  BY <1>0 DEF DIU!RT!NextFree, RTP!NextFree
<1> DEFINE b == en /\ DIU!RT!alloc_rdy
<1>3. b \in BOOLEAN /\ b = (en /\ RTP!alloc_rdy)
  BY <1>0
<1>4. /\ rename_table' = DIU!RT!NextTable(b, areg, preg, c)
      /\ free_list' = DIU!RT!NextFree(b, preg, q)
  BY Zenon DEF DIU!RT!Edge
<1> HIDE DEF b
<1>5. /\ rename_table' = RTP!NextTable(b, areg, preg, d)
      /\ free_list' = RTP!NextFree(b, preg, r)
  BY <1>1, <1>2, <1>3, <1>4, Zenon
<1>. QED  BY <1>3, <1>5, Zenon DEF RTP!Edge

\* Every cycle is a step of RenameTable: decode holds, or issues an instruction
\* that writes a register or none.
LEMMA RtStep ==
  ASSUME BInv, NEW resp_val \in BOOLEAN, NEW finish \in BOOLEAN, AtEdge(resp_val, finish)
  PROVE  RTP!Next
<1> DEFINE n == Len(issued)
           c == Leaving
<1>0. DecodeEdge /\ BackEdge /\ Types'
  BY TypesStep DEF AtEdge
<1>1. PICK k \in 0 .. NSeq : CompletesAt(k)
  BY CompletingIs
<1>2. /\ Renamed \in Seq(RTP!Issued) /\ Len(Renamed) = n /\ n \in Nat
      /\ \A j \in 1 .. n :
           /\ Renamed[j].areg = issued[j].areg /\ Renamed[j].preg = issued[j].preg
           /\ Renamed[j].ppreg = issued[j].ppreg /\ Renamed[j].done = issued[j].done
  BY RenamedIs, InFlightIs, Parts DEF RenamedOK
<1>3. RenamedOK'
  BY <1>0, RenamedIs, PTL
<1>4. /\ c \in {0, 1} /\ c <= n
      /\ c = 1 <=> retires
      /\ c = 1 => 1 \in Live /\ issued[1].done /\ commit.val /\ commit.ppreg = issued[1].ppreg
      /\ c = 0 => ~commit.val
  <2>1. CASE retires
    <3>1. PICK wen \in Wens(Op(1).uop) : Commits(wen)
      BY <2>1, CommitShape, Parts, Zenon
    <3>2. 1 \in Live /\ issued[1].done /\ commit.val = TRUE /\ commit.ppreg = issued[1].ppreg
      BY <3>1 DEF Commits
    <3>. QED  BY <2>1, <3>2, LeftIs DEF Leaving
  <2>2. CASE ~retires
    <3>1. commit = NoNotif
      BY <2>2, CommitShape, Parts, Zenon DEF Commits
    <3>2. ~commit.val
      BY <3>1 DEF NoNotif
    <3>. QED  BY <2>2, <3>2, LeftIs DEF Leaving
  <2>. QED  BY <2>1, <2>2
<1>5. RTP!Live = Live /\ Live = 1 .. n
  BY <1>2 DEF RTP!Live, Live
<1>6. RTP!MayComplete(k) /\ RTP!MayCommit(c)
  <2>1. RTP!MayComplete(k)
    BY <1>1, <1>2, <1>5 DEF CompletesAt, RTP!MayComplete
  <2>2. RTP!MayCommit(c)
    BY <1>2, <1>4, <1>5 DEF RTP!MayCommit
  <2>. QED  BY <2>1, <2>2
<1>7. arch' = RTP!NextArch(c)
  <2>1. arch' = IF retires /\ issued[1].areg # 0
                THEN [arch EXCEPT ![issued[1].areg] = issued[1].preg] ELSE arch
    BY <1>0 DEF BackEdge
  <2>2. CASE retires
    <3>1. c = 1 /\ Renamed[1].areg = issued[1].areg /\ Renamed[1].preg = issued[1].preg
      BY <1>2, <1>4, <1>5, <2>2
    <3>. QED  BY <2>1, <2>2, <3>1, Zenon DEF RTP!NextArch
  <2>3. CASE ~retires
    BY <1>4, <2>1, <2>3, Zenon DEF RTP!NextArch
  <2>. QED  BY <2>2, <2>3
<1>b. /\ commit.val <=> RTP!Notif(c).val
      /\ commit.val => commit.ppreg = RTP!Notif(c).ppreg
  <2>1. CASE c = 0
    <3>1. ~commit.val /\ ~RTP!Notif(0).val
      BY <1>4, <2>1 DEF RTP!Notif, RTP!NoNotif
    <3>. QED  BY <2>1, <3>1
  <2>2. CASE c = 1
    <3>1. commit.val /\ commit.ppreg = Renamed[1].ppreg
      BY <1>2, <1>4, <1>5, <2>2
    <3>2. RTP!Notif(1).val = TRUE /\ RTP!Notif(1).ppreg = Renamed[1].ppreg
      BY DEF RTP!Notif
    <3>. QED  BY <2>2, <3>1, <3>2
  <2>. QED  BY <1>4, <2>1, <2>2
<1>8. /\ complete.val <=> RTP!Notif(k).val
      /\ complete.val => complete.preg = RTP!Notif(k).preg
      /\ commit.val <=> RTP!Notif(c).val
      /\ commit.val => commit.ppreg = RTP!Notif(c).ppreg
  <2>1. CASE k = 0
    <3>1. ~complete.val /\ ~RTP!Notif(k).val
      BY <1>1, <2>1 DEF CompletesAt, RTP!Notif, RTP!NoNotif
    <3>. QED  BY <1>b, <3>1
  <2>2. CASE k # 0
    <3>1. complete.val /\ complete.preg = issued[k].preg /\ k \in 1 .. n
      BY <1>1, <1>5, <2>2 DEF CompletesAt
    <3>2. RTP!Notif(k).val = TRUE /\ RTP!Notif(k).preg = issued[k].preg
      BY <1>2, <2>2, <3>1 DEF RTP!Notif
    <3>. QED  BY <1>b, <3>1, <3>2
  <2>. QED  BY <2>1, <2>2
<1> DEFINE rest == RTP!Retired(k, c)
           sentry == [areg |-> Entry.areg, preg |-> Entry.preg, ppreg |-> Entry.ppreg,
                      done |-> FALSE]
<1>9. /\ rest \in Seq(RTP!Issued) /\ Len(rest) = n - c /\ n - c \in Nat
      /\ \A j \in 1 .. n - c :
           /\ rest[j].areg = issued[j + c].areg /\ rest[j].preg = issued[j + c].preg
           /\ rest[j].ppreg = issued[j + c].ppreg
           /\ rest[j].done <=> issued[j + c].done \/ Finishes(j + c)
  <2>1. RTP!TypeOK
    BY Parts, Zenon DEF RTP!FullInv, RTP!IInv
  <2>2. /\ rest \in Seq(RTP!Issued) /\ Len(rest) = Len(Renamed) - c
        /\ \A j \in 1 .. Len(Renamed) - c :
             /\ j + c \in RTP!Live
             /\ rest[j].areg  = Renamed[j + c].areg
             /\ rest[j].preg  = Renamed[j + c].preg
             /\ rest[j].ppreg = Renamed[j + c].ppreg
             /\ rest[j].done <=> Renamed[j + c].done \/ j + c = k
    BY <1>4, <1>6, <2>1, RTP!RetiredKeeps, NumAregsAssumption, NumPregsAssumption, NSeqAssumption, Zenon
  <2>3. n - c \in Nat
    BY <1>2, <1>4
  <2> HIDE DEF rest, c
  <2>4. ASSUME NEW j \in 1 .. n - c
        PROVE  /\ rest[j].areg = issued[j + c].areg /\ rest[j].preg = issued[j + c].preg
               /\ rest[j].ppreg = issued[j + c].ppreg
               /\ rest[j].done <=> issued[j + c].done \/ Finishes(j + c)
    <3>1. j + c \in Live /\ j + c \in 1 .. n
      BY <1>2, <1>5, <2>2
    <3>2. Finishes(j + c) <=> j + c = k
      BY <1>1, <3>1, Zenon DEF CompletesAt
    <3>. QED  BY <1>2, <2>2, <3>1, <3>2, Zenon
  <2>. QED  BY <1>2, <2>2, <2>3, <2>4, Zenon
<1> HIDE DEF rest
<1>10. /\ Renamed' \in Seq(RTP!Issued)
       /\ Len(Renamed') = n - c + Joining
       /\ \A j \in 1 .. n - c + Joining :
            /\ Renamed'[j].areg = issued'[j].areg /\ Renamed'[j].preg = issued'[j].preg
            /\ Renamed'[j].ppreg = issued'[j].ppreg /\ Renamed'[j].done = issued'[j].done
  <2>1. Len(issued') = n - c + Joining
    BY <1>0, IssuedNext
  <2>. QED  BY <1>3, <2>1 DEF RenamedOK, RTP!Issued, RTP!Areg, RTP!Preg
<1>11. \A j \in 1 .. n - c : Renamed'[j] = rest[j]
  <2> SUFFICES ASSUME NEW j \in 1 .. n - c PROVE Renamed'[j] = rest[j]
    OBVIOUS
  <2>1. /\ issued'[j] = [issued[j + c] EXCEPT !.done = @ \/ Finishes(j + c)]
        /\ issued[j + c] \in EntryType /\ Finishes(j + c) \in BOOLEAN
    BY <1>0, IssuedNext, LeftIs, InFlightIs, Parts, FinishesIsBoolean
  <2>2. /\ issued'[j].areg = issued[j + c].areg /\ issued'[j].preg = issued[j + c].preg
        /\ issued'[j].ppreg = issued[j + c].ppreg
        /\ issued'[j].done <=> issued[j + c].done \/ Finishes(j + c)
    BY <2>1 DEF EntryType
  <2>3. j \in 1 .. n - c + Joining
    BY <1>9 DEF Joining
  <2>4. /\ Renamed'[j].areg = rest[j].areg /\ Renamed'[j].preg = rest[j].preg
        /\ Renamed'[j].ppreg = rest[j].ppreg /\ (Renamed'[j].done <=> rest[j].done)
    BY <1>9, <1>10, <2>2, <2>3, Zenon
  <2>5. Renamed'[j] \in RTP!Issued /\ rest[j] \in RTP!Issued
    BY <1>9, <1>10, <2>3, ElementOfSeq
  <2>. QED  BY <2>4, <2>5 DEF RTP!Issued
<1>12. IF to # {} /\ Wen(F_reg.inst)
         THEN RTP!Edge(TRUE, DIU!waddr, DIU!alloc_preg, RTP!Notif(k), RTP!Notif(c))
         ELSE RTP!Edge(FALSE, 0, 0, RTP!Notif(k), RTP!Notif(c))
  <2>1. IF to # {} /\ Wen(F_reg.inst)
          THEN DIU!RT!Edge(TRUE, DIU!waddr, DIU!alloc_preg, complete, commit)
          ELSE DIU!RT!Edge(FALSE, 0, 0, complete, commit)
    BY <1>0 DEF DecodeEdge
  <2>. QED  BY <1>8, <1>b, <2>1, RtEdgeReads, Zenon
<1> HIDE DEF c
<1>13. CASE to = {}
  <2>1. Renamed' = rest
    <3>1. Joining = 0 /\ Len(Renamed') = n - c
      BY <1>9, <1>10, <1>13 DEF Joining
    <3>. QED  BY <1>9, <1>10, <1>11, <3>1, SeqEqual, Zenon
  <2>2. RTP!Hold(k, c)
    BY <1>12, <1>13, <2>1, Zenon DEF RTP!Hold, rest
  <2>. QED  BY <1>4, <1>6, <1>7, <2>2, Zenon DEF RTP!Next, RTP!Cycle
<1>14. CASE to # {}
  <2>1. /\ Entry \in EntryType /\ F_reg.val /\ RTP!alloc_rdy
        /\ Entry.areg = DIU!waddr /\ Entry.preg = DIU!alloc_preg
        /\ Entry.ppreg = RTP!alloc_ppreg(DIU!waddr) /\ ~Entry.done
    BY <1>14, SentIs, Parts
  <2>2. /\ DIU!waddr \in RTP!Areg /\ DIU!alloc_preg \in RTP!Preg
        /\ RTP!IsAllocPreg(DIU!waddr, DIU!alloc_preg)
    BY <2>1, AllocPregIs, SameTable, Parts
  <2>3. Len(Renamed) < NSeq
    <3>1. n + InDecode < NSeq /\ InDecode = 1
      BY <2>1, Numbers, Parts DEF InDecode
    <3>. QED  BY <1>2, <3>1, NSeqAssumption
  <2>4. Renamed' = Append(rest, sentry)
    <3>1. sentry \in RTP!Issued
      BY <2>1, SameTable DEF EntryType, RTP!Issued
    <3>2. /\ Joining = 1 /\ Len(Renamed') = n - c + 1 /\ n - c + 1 \in 1 .. n - c + Joining
      BY <1>9, <1>10, <1>14 DEF Joining
    <3>3. issued'[n - c + 1] = Entry
      BY <1>0, <1>14, IssuedNext DEF c
    <3>4. /\ Renamed'[n - c + 1].areg = Entry.areg /\ Renamed'[n - c + 1].preg = Entry.preg
          /\ Renamed'[n - c + 1].ppreg = Entry.ppreg /\ Renamed'[n - c + 1].done = Entry.done
          /\ Renamed'[n - c + 1] \in RTP!Issued
      BY <1>10, <3>2, <3>3, ElementOfSeq
    <3>5. Renamed'[n - c + 1] = sentry
      <4>1. Entry.done = FALSE
        BY <2>1 DEF EntryType
      <4>. QED  BY <3>4, <4>1 DEF RTP!Issued
    <3> HIDE DEF sentry
    <3> DEFINE s == Append(rest, sentry)
    <3>6. /\ s \in Seq(RTP!Issued) /\ Len(s) = n - c + 1
          /\ \A j \in 1 .. n - c : s[j] = rest[j]
          /\ s[n - c + 1] = sentry
      BY <1>9, <3>1, AppendProperties
    <3> HIDE DEF s
    <3>7. \A j \in 1 .. Len(s) : j \in 1 .. n - c \/ j = n - c + 1
      BY <1>9, <3>6
    <3>8. \A j \in 1 .. Len(s) : Renamed'[j] = s[j]
      BY <1>11, <3>5, <3>6, <3>7, Zenon
    <3>9. Len(Renamed') = Len(s)
      BY <3>2, <3>6, Zenon
    <3>10. Renamed' = s
      BY <1>10, <3>6, <3>8, <3>9, SeqEqual, Zenon
    <3>. QED  BY <3>10 DEF s
  <2>5. CASE Wen(F_reg.inst)
    <3>1. RTP!Issue(k, c, DIU!waddr)
      BY <1>12, <1>14, <2>1, <2>2, <2>3, <2>4, <2>5, Zenon DEF RTP!Issue, rest, sentry
    <3>. QED  BY <1>4, <1>6, <1>7, <2>2, <3>1, Zenon DEF RTP!Next, RTP!Cycle
  <2>6. CASE ~Wen(F_reg.inst)
    <3>1. DIU!waddr = 0
      <4>1. DIU!Wen(F_reg.inst) = Wen(F_reg.inst)
        BY Zenon DEF DIU!Wen, Wen, DIU!Decodes, Decodes, DIU!Subset, Subset, DIU!Branches, Branches,
                     DIU!ALU, ALU, DIU!M, M, DIU!CTRL, CTRL
      <4>. QED  BY <2>6, <4>1, Zenon DEF DIU!waddr, DIU!inst
    <3>2. DIU!alloc_preg = 0 /\ RTP!alloc_ppreg(DIU!waddr) = 0
      BY <2>2, <3>1 DEF RTP!IsAllocPreg, RTP!alloc_ppreg
    <3>3. sentry = [areg |-> 0, preg |-> 0, ppreg |-> 0, done |-> FALSE]
      BY <2>1, <3>1, <3>2, Zenon
    <3>4. RTP!IssueNoWrite(k, c)
      BY <1>12, <2>1, <2>3, <2>4, <2>6, <3>3, Zenon DEF RTP!IssueNoWrite, rest
    <3>. QED  BY <1>4, <1>6, <1>7, <3>4, Zenon DEF RTP!Next, RTP!Cycle
  <2>. QED  BY <2>5, <2>6
<1>. QED  BY <1>13, <1>14

\* The proofs about RenameTable speak of the same steps.
LEMMA RtNextIs == RTP!Next <=> RT!Next
BY DEF RTP!Next, RT!Next, RTP!Cycle, RT!Cycle, RTP!Live, RT!Live, RTP!MayComplete,
       RT!MayComplete, RTP!MayCommit, RT!MayCommit, RTP!NextArch, RT!NextArch, RTP!Hold,
       RT!Hold, RTP!Issue, RT!Issue, RTP!IssueNoWrite, RT!IssueNoWrite, RTP!Edge, RT!Edge,
       RTP!NextTable, RT!NextTable, RTP!NextFree, RT!NextFree, RTP!Notif, RT!Notif,
       RTP!NoNotif, RT!NoNotif, RTP!Retired, RT!Retired, RTP!Completed, RT!Completed,
       RTP!alloc_rdy, RT!alloc_rdy, RTP!IsAllocPreg, RT!IsAllocPreg, RTP!alloc_ppreg,
       RT!alloc_ppreg, RTP!Areg, RT!Areg, RTP!Preg, RT!Preg, RTP!RenamedAreg, RT!RenamedAreg,
       RTP!RenamedPreg, RT!RenamedPreg

\* Its invariant is inductive in the processor.
LEMMA RtInvStep == RTP!FullInv /\ [RT!Next]_(RT!vars) => RTP!FullInv'
<1>1. [RT!Next]_(RT!vars) => [RTP!Next]_(RTP!vars)
  BY RtNextIs, Zenon DEF RT!vars, RTP!vars
<1>. QED  BY <1>1, RTP!FullStep, NumAregsAssumption, NumPregsAssumption, NSeqAssumption, Zenon

-----------------------------------------------------------------------------
(* The theorems.                                                           *)

\* Every cycle keeps the invariant, and is a step of both environments.
LEMMA CycleStep ==
  ASSUME BInv, HeadStaysBehindTail, Next
  PROVE  BInv' /\ SNG!Next /\ RT!Next /\ FU!Next
<1>1. PICK resp_val \in BOOLEAN, finish \in BOOLEAN : Cycle(resp_val, finish)
  BY DEF Next
<1>2. AtEdge(resp_val, finish)
  BY <1>1, CycleParts
<1>3. FrontEdge(resp_val) /\ PipesEdge(finish) /\ BackEdge
  BY <1>2 DEF AtEdge
<1>4. SNG!Next /\ RT!Next
  BY <1>2, SngStep, RtStep, RtNextIs
<1>5. SNGP!IInv' /\ RTP!FullInv'
  BY <1>4, Parts, SngInvStep, RtInvStep, Zenon
<1>6. Types' /\ FU!Next /\ FetchInv'
  BY <1>2, TypesStep, FetchStep
<1>7. /\ AluHolds' /\ MulHolds' /\ CtrlHolds' /\ BranchIsLast'
      /\ RegisterHolds' /\ BufferHolds'
  BY <1>3, AluStep, MulStep, CtrlStep, RegisterStep, BufferStep
<1>. QED  BY <1>4, <1>5, <1>6, <1>7, Zenon DEF BInv, Holds

\* What an entry needs to hold a result after a step.
LEMMA EntryHoldsOn ==
  ASSUME NEW s, NEW op, NEW wen \in Wens(op.uop), NEW e, NEW j \in Live',
         op = Op(j)', issued'[j].done, issued'[j].seq_num = s,
         ~(X_reg'.val /\ X_reg'.seq_num = s),
         entries'[s] = e, e = [val |-> TRUE, msg |-> WCU!NoX0(Outcome(op, wen).msg)]
  PROVE  EntryHolds(s)'
BY ZenonT(120) DEF EntryHolds, Outcome, Offer, Wens, CTRL_XU!Wens, Op, WCU!NoX0

\* Stuttering keeps the invariant.
LEMMA Stutter == BInv /\ UNCHANGED vars => BInv'
<1> SUFFICES ASSUME BInv, UNCHANGED vars PROVE BInv'
  OBVIOUS
<1> USE DEF vars
<1>1. UNCHANGED InFlight /\ UNCHANGED Renamed
  BY DEF InFlight, Renamed
<1>2. SNGP!IInv' /\ RTP!FullInv'
  BY <1>1, Parts, SngInvStep, RtInvStep, Zenon DEF SNG!vars, RT!vars
<1>3. FetchInv'
  BY Parts, FetchStutter, Zenon DEF FU!vars
<1>4. Types'
  BY Parts, Zenon DEF Types, Fetched, None, Instruction, EntryType, SeqNum
<1>5. AluHolds' /\ MulHolds' /\ CtrlHolds' /\ BranchIsLast'
  <2>1. AluHolds'
    BY Parts, Zenon DEF AluHolds, Running, Live, Op, Outcome, Offer
  <2>2. MulHolds' /\ BranchIsLast'
    BY Parts, Zenon DEF MulHolds, BranchIsLast, Running, Live, Op
  <2>3. CtrlHolds'
    <3>1. CASE ctrl_reg = None
      BY <3>1, Zenon DEF CtrlHolds, None
    <3>2. ASSUME NEW k \in Live, NEW wen \in Wens(Op(k).uop),
                 Running(k, CTRL), ctrl_reg = CTRL_XU!Latched(Op(k), wen)
          PROVE  CtrlHolds'
      <4>1. PICK op : op = Op(k)
        OBVIOUS
      <4>2. Running(k, CTRL)' /\ op = Op(k)' /\ k \in Live' /\ wen \in Wens(op.uop)
        BY <3>2, <4>1, Zenon DEF Running, Op, Live
      <4>. QED  BY <3>2, <4>1, <4>2, Zenon DEF CtrlHolds, Running, Wens, Op, CTRL_XU!Latched, CTRL_XU!Wens
    <3>. QED  BY <3>1, <3>2, Parts, Zenon DEF CtrlHolds
  <2>. QED  BY <2>1, <2>2, <2>3
<1>6. RegisterHolds'
  BY Parts, Zenon DEF RegisterHolds, Live, Op, Outcome, Wens
<1>7. BufferHolds'
  <2>1. ASSUME NEW s \in SeqNum, EntryHolds(s)
        PROVE  EntryHolds(s)'
    <3>1. PICK k \in Live : \E wen \in Wens(Op(k).uop) :
            /\ issued[k].done /\ issued[k].seq_num = s
            /\ entries[s] = [val |-> TRUE, msg |-> WCU!NoX0(Outcome(Op(k), wen).msg)]
      BY <2>1, Zenon DEF EntryHolds
    <3>2. PICK wen \in Wens(Op(k).uop) :
            /\ issued[k].done /\ issued[k].seq_num = s
            /\ entries[s] = [val |-> TRUE, msg |-> WCU!NoX0(Outcome(Op(k), wen).msg)]
      BY <3>1
    <3>3. PICK op : op = Op(k)
      OBVIOUS
    <3>4. op = Op(k)' /\ k \in Live' /\ wen \in Wens(op.uop) /\ issued'[k].done /\ issued'[k].seq_num = s
      BY <3>2, <3>3, Zenon DEF Op, Live
    <3>5. ~(X_reg'.val /\ X_reg'.seq_num = s)
      BY <2>1, Zenon DEF EntryHolds
    <3>6. PICK e : e = [val |-> TRUE, msg |-> WCU!NoX0(Outcome(op, wen).msg)]
      OBVIOUS
    <3>8. entries'[s] = e
      BY <3>2, <3>3, <3>6, Zenon
    <3>7. PICK j \in Live' : /\ op = Op(j)' /\ wen \in Wens(op.uop)
                             /\ issued'[j].done /\ issued'[j].seq_num = s
      BY <3>4, Zenon DEF Op
    <3>. QED  BY <3>5, <3>6, <3>7, <3>8, EntryHoldsOn
  <2>2. deq_ptr' = oldest_seq_num' /\ \A s \in SeqNum : entries'[s] = None \/ EntryHolds(s)'
    BY <2>1, Parts, Zenon DEF BufferHolds
  <2>. QED  BY <2>2, Zenon DEF BufferHolds, None, SeqNum
<1>. QED  BY <1>2, <1>3, <1>4, <1>5, <1>6, <1>7, Zenon DEF BInv, Holds

\* After reset nothing is in flight and the units are in their reset states.
LEMMA InitShape ==
  ASSUME Init
  PROVE  /\ issued = << >> /\ F_reg = None /\ InFlight = << >> /\ Renamed = << >>
         /\ FU!Init /\ SNG!Init /\ RT!Init
<1>1. issued = << >> /\ F_reg = None
  BY Zenon DEF Init, DIU!Init, None, DIU!None
<1>2. InFlight = << >> /\ Renamed = << >>
  BY <1>1, NoneIs DEF InFlight, Renamed
<1>3. SNG!Init
  BY <1>2, Zenon DEF Init, SNG!Init, SeqNum, SNG!SeqNum
<1>4. RT!Init
  BY <1>2, Zenon DEF Init, DIU!Init, RT!Init, RT!RenamedAreg, RT!RenamedPreg, DIU!RT!RenamedAreg,
                     DIU!RT!RenamedPreg
<1>. QED  BY <1>1, <1>2, <1>3, <1>4, Zenon DEF Init

\* The invariant holds after reset.
LEMMA InitInv == Init => BInv
<1> SUFFICES ASSUME Init PROVE BInv
  OBVIOUS
<1>1. issued = << >> /\ F_reg = None /\ FU!Init /\ SNG!Init /\ RT!Init
  BY InitShape
<1>2. FetchInv
  BY <1>1, FetchInit
<1>3. SNGP!IInv
  <2>1. SNGP!Init
    BY <1>1, Zenon DEF SNG!Init, SNGP!Init, SNGP!FREE, SNG!FREE, SNGP!SeqNum, SNG!SeqNum
  <2>. QED  BY <2>1, SngConstants, SNGP!InitIInv, Zenon
<1>4. RTP!FullInv
  <2>1. RTP!Init
    BY <1>1, Zenon DEF RT!Init, RTP!Init, RT!RenamedAreg, RT!RenamedPreg, RTP!RenamedAreg, RTP!RenamedPreg
  <2>. QED  BY <2>1, RTP!InitFull, NumAregsAssumption, NumPregsAssumption, NSeqAssumption, Zenon
<1>5. Types
  <2>1. prog \in [Addr -> Instruction]
    BY ProgramsAssumption DEF Init
  <2>2. jump_sent = FALSE /\ ctrl_sent = FALSE /\ mul_done = FALSE
    BY Zenon DEF Init, DIU!Init, CTRL_XU!Init, MUL_XU!Init
  <2>3. regs = [p \in 1 .. NumPregs - 1 |-> 0]
    BY SameTable, Zenon DEF Init, DIU!Init
  <2>4. 0 \in Val
    BY AddrAssumption DEF Val, Addr
  <2>5. issued \in Seq(EntryType)
    BY <1>1
  <2>6. regs \in [1 .. NumPregs - 1 -> Val]
    BY <2>3, <2>4
  <2>. QED  BY <1>1, <2>1, <2>2, <2>5, <2>6, Zenon DEF Types
<1>6. Holds
  <2>1. /\ alu_reg = None /\ alu_buf = << >> /\ mul_reg = None /\ mul_done = FALSE
        /\ ctrl_reg = None /\ X_reg = None /\ entries = [s \in SeqNum |-> None]
        /\ deq_ptr = 0 /\ oldest_seq_num = 0
    BY NoneIs, Zenon DEF Init, ALU_XU!Init, MUL_XU!Init, CTRL_XU!Init
  <2>. QED  BY <2>1, NoneIs, Zenon DEF Holds, AluHolds, MulHolds, CtrlHolds, BranchIsLast,
                                       RegisterHolds, BufferHolds
<1>. QED  BY <1>2, <1>3, <1>4, <1>5, <1>6 DEF BInv

\* The units of the processor keep what they promise each other.
LEMMA Invariant == Spec /\ [][HeadStaysBehindTail]_vars => []BInv
<1>1. BInv /\ [HeadStaysBehindTail]_vars /\ [Next]_vars => BInv'
  BY CycleStep, Stutter
<1>. QED  BY <1>1, InitInv, PTL DEF Spec

\* What is squashed has not been issued: a jump or a branch redirects fetch
\* before anything younger than it enters a pipe, for every program and every
\* size of the processor, as long as the head of SeqNumGen stays behind its tail.
THEOREM NothingIssuedIsSquashed ==
  Spec /\ [][HeadStaysBehindTail]_vars => []NoIssuedIsSquashed
<1>1. ASSUME BInv PROVE NoIssuedIsSquashed
  BY <1>1, Parts, SquashSparesIssued DEF NoIssuedIsSquashed, squash, Live
<1>. QED  BY <1>1, Invariant, PTL

\* The processor gives the sequence number generator and the rename table the
\* environment their own theorems assume.
THEOREM AssumptionsMet == Spec /\ [][HeadStaysBehindTail]_vars => MeetsAssumptions
<1>1. Init => SNG!Init /\ RT!Init
  BY InitShape
<1>2. BInv /\ [HeadStaysBehindTail]_vars /\ [Next]_vars =>
        [SNG!Next]_(SNG!vars) /\ [RT!Next]_(RT!vars)
  <2>1. UNCHANGED vars => UNCHANGED SNG!vars /\ UNCHANGED RT!vars
    BY DEF vars, SNG!vars, RT!vars, InFlight, Renamed
  <2>. QED  BY <2>1, CycleStep
<1>. QED  BY <1>1, <1>2, Invariant, PTL DEF Spec, MeetsAssumptions, SNG!Spec, RT!Spec

\* Fetch in the processor is fetch in one of the environments of FetchUnit.
LEMMA FetchSpec == Spec /\ [][HeadStaysBehindTail]_vars => FU!Spec
<1>1. Init => FU!Init
  BY DEF Init
<1>2. BInv /\ [HeadStaysBehindTail]_vars /\ [Next]_vars => [FU!Next]_(FU!vars)
  <2>1. UNCHANGED vars => UNCHANGED FU!vars
    BY DEF vars, FU!vars
  <2>. QED  BY <2>1, CycleStep
<1>. QED  BY <1>1, <1>2, Invariant, PTL DEF Spec, FU!Spec

\* In the processor the answers of the memory find room.
THEOREM AnswersFindRoom == Spec /\ [][HeadStaysBehindTail]_vars => []RespHasRoom
<1>. QED  BY FetchSpec, RoomForAnswers, PTL DEF RespHasRoom

\* In the processor decode gets the path of the program, each instruction once
\* and in order, while jumps and branches redirect fetch.
THEOREM FetchImplementsStream ==
  Spec /\ [][HeadStaysBehindTail]_vars => ImplementsStream
<1>. QED  BY FetchSpec, FetchFollowsPath, PTL DEF ImplementsStream

-----------------------------------------------------------------------------
(* The program.  What an instruction reads, writes and is followed by.     *)

\* The result of instruction k.
ResultOf(k) ==
  Result(prog[issued[k].pc].uop, issued[k].pc, issued[k].op1, issued[k].op2)

\* The pc after instruction i with the operands a and b.
Following(i, pc, a, b) ==
  IF IsJump(i) THEN JumpTarget(i, pc, a)
  ELSE IF Taken(i.uop, a, b) THEN Wrap(pc + i.imm)
  ELSE Wrap(pc + 1)

\* The pc of instruction k, also of the one that will be issued next.
PcOf(k) ==
  IF k = 1 THEN isa_pc
  ELSE Following(prog[issued[k - 1].pc], issued[k - 1].pc, issued[k - 1].op1, issued[k - 1].op2)

\* The place of the next instruction to be issued.
Coming == Len(issued) + 1

\* j is the last instruction before k that writes register a, 0 the committed
\* ones.
Writer(a, j, k) ==
  /\ j \in 0 .. k - 1
  /\ j = 0 \/ issued[j].areg = a
  /\ \A m \in j + 1 .. k - 1 : issued[m].areg # a

\* v is what the program has in register a when it comes to instruction k.
Holding(v, a, k) ==
  IF a = 0 THEN v = 0
  ELSE \A j \in 0 .. k - 1 :
         Writer(a, j, k) => v = IF j = 0 THEN regs[arch[a]] ELSE ResultOf(j)

\* Instruction k is the one the program has there, with the operands and the
\* destination the program gives it.
IsNext(k) ==
  LET i == prog[issued[k].pc] IN
  /\ issued[k].pc = PcOf(k)
  /\ Decodes(i)
  /\ issued[k].areg = IF Wen(i) THEN i.rd ELSE 0
  /\ Holding(issued[k].op1, i.rs1, k)
  /\ IF i.op2_sel THEN issued[k].op2 = i.imm ELSE Holding(issued[k].op2, i.rs2, k)

\* What is done is in its register.
Written(k) == issued[k].done /\ issued[k].preg # 0 => regs[issued[k].preg] = ResultOf(k)

\* Decode has the next instruction, or waits for it, unless a branch has yet to
\* redirect fetch.
OnPath ==
  ~CTRL_XU!squash.val =>
    IF F_reg.val THEN F_reg.pc = PcOf(Coming) ELSE FU!Wanted = PcOf(Coming)

\* Fetch goes on after the instruction in decode, or at the target of the jump
\* that has redirected it.
Ahead ==
  F_reg.val =>
    IF IsJump(F_reg.inst) /\ jump_sent
    THEN \E v \in Val : /\ Holding(v, F_reg.inst.rs1, Coming)
                        /\ FU!Wanted = JumpTarget(F_reg.inst, F_reg.pc, v)
    ELSE FU!Wanted = Wrap(F_reg.pc + 1)

\* The instructions in flight are the next ones of the program.
InOrder == \A k \in 1 .. Len(issued) : IsNext(k) /\ Written(k)

\* What implementing the program needs, on top of BInv.
IsaInv == InOrder /\ OnPath /\ Ahead

\* The rename table, told by the instructions issued: what each of them writes
\* is a register of its own, and the table names that of the last writer.
LEMMA RegistersAre ==
  ASSUME BInv
  PROVE  /\ \A k \in Live : issued[k].areg = 0 <=> issued[k].preg = 0
         /\ \A j, k \in Live :
              issued[j].preg = issued[k].preg /\ issued[j].preg # 0 => j = k
         /\ \A k \in Live, a \in 1 .. NumAregs - 1 :
              issued[k].preg # 0 => issued[k].preg # arch[a]
         /\ \A a \in 1 .. NumAregs - 1 :
              /\ rename_table[a].preg \in 1 .. NumPregs - 1
              /\ \E j \in 0 .. Len(issued) : Writer(a, j, Coming)
              /\ \A j \in 0 .. Len(issued) :
                   Writer(a, j, Coming) =>
                     rename_table[a].preg = IF j = 0 THEN arch[a] ELSE issued[j].preg
              /\ \A k \in Live :
                   issued[k].preg = rename_table[a].preg /\ ~rename_table[a].pending
                     => issued[k].done
<1> DEFINE n == Len(issued)
<1>1. n \in Nat /\ Live = 1 .. n
  BY InFlightIs, Parts DEF Live
<1>2. /\ Renamed \in Seq(RTP!Issued) /\ Len(Renamed) = n
      /\ \A k \in Live : /\ Renamed[k].areg = issued[k].areg /\ Renamed[k].preg = issued[k].preg
                         /\ Renamed[k].ppreg = issued[k].ppreg /\ Renamed[k].done = issued[k].done
  BY RenamedIs, Parts DEF RenamedOK, Live
<1>3. RTP!FullInv /\ RTP!IInv /\ RTP!Live = Live
  BY <1>1, <1>2, Parts DEF RTP!FullInv, RTP!Live
<1>4. /\ RTP!Named /\ RTP!Chain /\ RTP!PendingIsRunning
      /\ rename_table \in [1 .. NumAregs - 1 -> [pending : BOOLEAN, preg : 1 .. NumPregs - 1]]
  BY <1>3, SameTable, Zenon DEF RTP!FullInv, RTP!Order, RTP!IInv, RTP!TypeOK
<1>5. \A k \in Live : issued[k].areg = 0 <=> issued[k].preg = 0
  BY <1>2, <1>3, <1>4, Zenon DEF RTP!Named
<1>6. \A j, k \in Live : issued[j].preg = issued[k].preg /\ issued[j].preg # 0 => j = k
  <2>1. \A j, k \in RTP!Live : Renamed[j].preg = Renamed[k].preg /\ Renamed[j].preg # 0 => j = k
    BY <1>3, RTP!WriterIsUnique, NumAregsAssumption, NumPregsAssumption, NSeqAssumption, Zenon
  <2>. QED  BY <1>2, <1>3, <2>1, Zenon
<1>7. \A k \in Live, a \in 1 .. NumAregs - 1 : issued[k].preg # 0 => issued[k].preg # arch[a]
  <2>1. \A k \in RTP!Live, a \in RTP!RenamedAreg : Renamed[k].preg # 0 => Renamed[k].preg # arch[a]
    BY <1>3, RTP!CommittedIsNotWritten, NumAregsAssumption, NumPregsAssumption, NSeqAssumption, Zenon
  <2>. QED  BY <1>2, <1>3, <2>1, SameTable, Zenon
<1>8. ASSUME NEW a \in 1 .. NumAregs - 1, NEW j \in 0 .. n
      PROVE  /\ RTP!Linked(a, j, n + 1) <=> Writer(a, j, Coming)
             /\ Writer(a, j, Coming) =>
                  rename_table[a].preg = IF j = 0 THEN arch[a] ELSE issued[j].preg
  <2>1. \A k \in 1 .. n : RTP!Writes(k, a) <=> issued[k].areg = a
    BY <1>1, <1>2, <1>3, Zenon DEF RTP!Writes
  <2>2. /\ j < n + 1 /\ j \in 0 .. n + 1 - 1 /\ (j = 0 \/ j \in 1 .. n)
        /\ \A m \in j + 1 .. n + 1 - 1 : m \in 1 .. n
    BY <1>1
  <2>3. \A l : l = Len(Renamed) + 1 =>
          (RTP!Linked(a, j, l) <=>
             /\ j < l
             /\ j = 0 \/ RTP!Writes(j, a)
             /\ \A m \in j + 1 .. l - 1 : ~RTP!Writes(m, a))
    BY Zenon DEF RTP!Linked
  <2>4. RTP!Linked(a, j, n + 1) <=> Writer(a, j, Coming)
    <3>1. RTP!Linked(a, j, n + 1) <=>
            /\ j < n + 1
            /\ j = 0 \/ RTP!Writes(j, a)
            /\ \A m \in j + 1 .. n + 1 - 1 : ~RTP!Writes(m, a)
      BY <1>2, <2>3
    <3>2. Writer(a, j, Coming) <=>
            /\ j \in 0 .. n + 1 - 1
            /\ j = 0 \/ issued[j].areg = a
            /\ \A m \in j + 1 .. n + 1 - 1 : issued[m].areg # a
      BY DEF Writer, Coming
    <3> HIDE DEF n
    <3>. QED  BY <2>1, <2>2, <3>1, <3>2, Zenon
  <2>5. ASSUME RTP!Linked(a, j, n + 1)
        PROVE  rename_table[a].preg = IF j = 0 THEN arch[a] ELSE issued[j].preg
    <3>1. n + 1 \in 1 .. n + 1
      BY <1>1
    <3>2. RTP!After(n + 1, a) = RTP!Before(j, a)
      BY <1>2, <1>4, <2>5, <3>1, SameTable, Zenon DEF RTP!Chain
    <3>3. RTP!After(n + 1, a) = rename_table[a].preg
      BY <1>2, Zenon DEF RTP!After
    <3>4. RTP!Before(j, a) = IF j = 0 THEN arch[a] ELSE Renamed[j].preg
      BY Zenon DEF RTP!Before
    <3>5. j # 0 => Renamed[j].preg = issued[j].preg
      BY <1>1, <1>2, <2>2, Zenon
    <3>. QED  BY <3>2, <3>3, <3>4, <3>5, Zenon
  <2>. QED  BY <2>4, <2>5
<1>9. ASSUME NEW a \in 1 .. NumAregs - 1
      PROVE  \E j \in 0 .. n : Writer(a, j, Coming)
  <2>1. \E j \in 0 .. Len(Renamed) : RTP!Linked(a, j, Len(Renamed) + 1)
    BY <1>3, <1>9, SameTable, RTP!LastInChain, NumAregsAssumption, NumPregsAssumption, NSeqAssumption, Zenon
  <2>. QED  BY <1>2, <1>8, <2>1, Zenon
<1>10. ASSUME NEW a \in 1 .. NumAregs - 1, NEW k \in Live,
              issued[k].preg = rename_table[a].preg, ~rename_table[a].pending
       PROVE  issued[k].done
  BY <1>2, <1>3, <1>4, <1>10, SameTable, Zenon DEF RTP!PendingIsRunning
<1>11. \A a \in 1 .. NumAregs - 1 : rename_table[a].preg \in 1 .. NumPregs - 1
  BY <1>4
<1>. QED  BY <1>5, <1>6, <1>7, <1>8, <1>9, <1>10, <1>11, Zenon

\* What an instruction with a destination offers is to be written.
LEMMA WritersWrite ==
  ASSUME NEW k, IsNext(k), issued[k].areg # 0, NEW wen \in Wens(Op(k).uop)
  PROVE  wen = TRUE
<1>1. Wen(prog[issued[k].pc]) /\ Op(k).uop = prog[issued[k].pc].uop
  BY Zenon DEF IsNext, Op
<1>2. Op(k).uop \notin Branches
  BY <1>1, Zenon DEF Wen
<1>3. CASE Op(k).uop \in Subset[CTRL]
  <2>1. Op(k).uop \in {"JAL", "JALR"}
    BY <1>2, <1>3, PipesAre DEF Branches
  <2>. QED  BY <1>3, <2>1, Zenon DEF Wens, CTRL_XU!Wens
<1>4. CASE Op(k).uop \notin Subset[CTRL]
  BY <1>4, Zenon DEF Wens
<1>. QED  BY <1>3, <1>4

\* A completion carries the result of the instruction that completes, and the
\* interface names no register otherwise.
LEMMA CompletionIs ==
  ASSUME BInv, InOrder
  PROVE  /\ \A k \in Live :
              Finishes(k) /\ issued[k].preg # 0 =>
                /\ complete.val /\ complete.wen /\ ~issued[k].done
                /\ complete.preg = issued[k].preg /\ complete.wdata = ResultOf(k)
         /\ complete.preg # 0 =>
              complete.val /\ \E k \in Live : Finishes(k) /\ issued[k].preg = complete.preg
<1>1. CASE complete = NoNotif
  BY <1>1 DEF NoNotif, Finishes
<1>2. ASSUME NEW i \in {ALU, M, CTRL}, NEW c \in Live, NEW wen \in Wens(Op(c).uop), Completes(i, c, wen)
      PROVE  /\ \A k \in Live :
                  Finishes(k) /\ issued[k].preg # 0 =>
                    /\ complete.val /\ complete.wen /\ ~issued[k].done
                    /\ complete.preg = issued[k].preg /\ complete.wdata = ResultOf(k)
             /\ complete.preg # 0 =>
                  complete.val /\ \E k \in Live : Finishes(k) /\ issued[k].preg = complete.preg
  <2>1. /\ complete.val = TRUE /\ complete.seq_num = issued[c].seq_num
        /\ complete.preg = issued[c].preg /\ complete.wen = wen
        /\ complete.wdata = Result(Op(c).uop, issued[c].pc, issued[c].op1, issued[c].op2)
    BY <1>2 DEF Completes
  <2>2. complete.wdata = ResultOf(c)
    BY <2>1, Zenon DEF ResultOf, Op
  <2>3. ~issued[c].done
    BY <1>2, Zenon DEF Completes, Offers, Running
  <2>4. \A k \in Live : Finishes(k) <=> k = c
    BY <2>1, Numbers, Parts, Zenon DEF Finishes
  <2>5. issued[c].preg # 0 => wen = TRUE
    <3>1. IsNext(c)
      BY Zenon DEF InOrder, Live
    <3>2. issued[c].areg = 0 <=> issued[c].preg = 0
      BY RegistersAre
    <3>. QED  BY <3>1, <3>2, WritersWrite
  <2>. QED  BY <2>1, <2>2, <2>3, <2>4, <2>5, Zenon
<1>. QED  BY <1>1, <1>2, CompleteShape, Parts

\* The physical registers after a cycle: only the one of the instruction that
\* completes changes.
LEMMA RegsNext ==
  ASSUME BInv, InOrder, regs' = DIU!NextRegs(complete)
  PROVE  /\ \A k \in Live : Finishes(k) /\ issued[k].preg # 0 => regs'[issued[k].preg] = ResultOf(k)
         /\ \A p : (\A k \in Live : Finishes(k) /\ issued[k].preg # 0 => issued[k].preg # p)
                     => regs'[p] = regs[p]
<1>1. regs' = IF complete.val /\ complete.wen /\ complete.preg # 0
              THEN [regs EXCEPT ![complete.preg] = complete.wdata]
              ELSE regs
  BY Zenon DEF DIU!NextRegs
<1>2. regs \in [1 .. NumPregs - 1 -> Val] /\ complete.val \in BOOLEAN
  BY Parts, CompleteType DEF Types
<1>3. complete.val => complete.preg \in 0 .. NumPregs - 1
  BY Parts, CompleteType
<1>4. ASSUME NEW k \in Live, Finishes(k), issued[k].preg # 0
      PROVE  regs'[issued[k].preg] = ResultOf(k)
  <2>1. /\ complete.val /\ complete.wen
        /\ complete.preg = issued[k].preg /\ complete.wdata = ResultOf(k)
    BY <1>4, CompletionIs
  <2>2. complete.preg \in 1 .. NumPregs - 1
    BY <1>3, <1>4, <2>1, NumPregsAssumption
  <2>. QED  BY <1>1, <1>2, <1>4, <2>1, <2>2
<1>5. ASSUME NEW p, \A k \in Live : Finishes(k) /\ issued[k].preg # 0 => issued[k].preg # p
      PROVE  regs'[p] = regs[p]
  <2>1. complete.preg # 0 => complete.preg # p
    BY <1>5, CompletionIs, Zenon
  <2>. QED  BY <1>1, <1>2, <2>1
<1>. QED  BY <1>4, <1>5

\* What decode reads for an operand that is not pending is what the program has
\* in the register, with the completion of this very cycle forwarded.
LEMMA RdataHolds ==
  ASSUME BInv, InOrder, NEW a \in Areg, ~DIU!RT!lookup_pending(a, complete)
  PROVE  Holding(DIU!rdata(a, complete), a, Coming)
<1> DEFINE p == DIU!RT!lookup_preg(a)
           v == DIU!rdata(a, complete)
<1>1. v = IF p = 0 THEN 0
          ELSE IF complete.val /\ complete.wen /\ complete.preg = p THEN complete.wdata
          ELSE regs[p]
  BY Zenon DEF DIU!rdata
<1>2. p = IF a = 0 THEN 0 ELSE rename_table[a].preg
  BY SameTable, Zenon
<1> HIDE DEF p
<1>3. CASE a = 0
  BY <1>1, <1>2, <1>3 DEF Holding
<1>4. CASE a # 0
  <2>1. a \in 1 .. NumAregs - 1
    BY <1>4 DEF Areg
  <2>2. /\ p = rename_table[a].preg /\ p # 0
        /\ \A j \in 0 .. Len(issued) :
             Writer(a, j, Coming) => p = IF j = 0 THEN arch[a] ELSE issued[j].preg
        /\ \A k \in Live : issued[k].preg = p /\ ~rename_table[a].pending => issued[k].done
    BY <1>2, <1>4, <2>1, RegistersAre
  <2>3. complete.preg = p \/ ~rename_table[a].pending
    BY <1>4, Zenon DEF DIU!RT!lookup_pending, p
  <2>4. Len(issued) \in Nat /\ Live = 1 .. Len(issued) /\ Coming - 1 = Len(issued)
    BY InFlightIs, Parts DEF Live, Coming
  <2>5. ASSUME NEW j \in 0 .. Len(issued), Writer(a, j, Coming)
        PROVE  v = IF j = 0 THEN regs[arch[a]] ELSE ResultOf(j)
    <3>1. CASE j = 0
      <4>1. p = arch[a]
        BY <2>2, <2>5, <3>1
      <4>2. \A k \in Live : issued[k].preg # p
        BY <2>1, <2>2, <4>1, RegistersAre
      <4>3. complete.preg # p
        BY <2>2, <4>2, CompletionIs, Zenon
      <4>. QED  BY <1>1, <2>2, <3>1, <4>1, <4>3, Zenon
    <3>2. CASE j # 0
      <4>1. j \in Live /\ p = issued[j].preg
        BY <2>2, <2>4, <2>5, <3>2
      <4>2. CASE complete.preg = p
        <5>1. PICK k \in Live : Finishes(k) /\ issued[k].preg = p
          BY <2>2, <4>2, CompletionIs, Zenon
        <5>2. k = j
          BY <2>2, <4>1, <5>1, RegistersAre
        <5>3. complete.val /\ complete.wen /\ complete.wdata = ResultOf(j)
          BY <2>2, <4>1, <5>1, <5>2, CompletionIs, Zenon
        <5>. QED  BY <1>1, <2>2, <3>2, <4>2, <5>3, Zenon
      <4>3. CASE complete.preg # p
        <5>1. issued[j].done
          BY <2>2, <2>3, <4>1, <4>3, Zenon
        <5>2. regs[p] = ResultOf(j)
          BY <2>2, <4>1, <5>1, Zenon DEF InOrder, Written, Live
        <5>. QED  BY <1>1, <2>2, <3>2, <4>3, <5>2, Zenon
      <4>. QED  BY <4>2, <4>3
    <3>. QED  BY <3>1, <3>2
  <2> HIDE DEF v
  <2>. QED  BY <1>4, <2>4, <2>5, Zenon DEF Holding, v
<1>. QED  BY <1>3, <1>4

\* It has one value there.
LEMMA HoldingIsUnique ==
  ASSUME BInv, NEW a \in Areg, NEW v, NEW w, Holding(v, a, Coming), Holding(w, a, Coming)
  PROVE  v = w
<1>1. CASE a = 0
  BY <1>1 DEF Holding
<1>2. CASE a # 0
  <2>1. a \in 1 .. NumAregs - 1
    BY <1>2 DEF Areg
  <2>2. PICK j \in 0 .. Len(issued) : Writer(a, j, Coming)
    BY <2>1, RegistersAre
  <2>3. Len(issued) \in Nat /\ j \in 0 .. Coming - 1
    BY InFlightIs, Parts DEF Coming
  <2>. QED  BY <1>2, <2>2, <2>3, Zenon DEF Holding
<1>. QED  BY <1>1, <1>2

-----------------------------------------------------------------------------
(* What stays true of an instruction until it commits.                     *)

\* An instruction that stays keeps its place in the program and its result.
LEMMA IssuedOn ==
  ASSUME BInv, BackEdge, NEW j \in 1 .. Len(issued) - Leaving
  PROVE  /\ j + Leaving \in Live
         /\ issued'[j].pc = issued[j + Leaving].pc
         /\ issued'[j].op1 = issued[j + Leaving].op1 /\ issued'[j].op2 = issued[j + Leaving].op2
         /\ issued'[j].areg = issued[j + Leaving].areg /\ issued'[j].preg = issued[j + Leaving].preg
         /\ issued'[j].done <=> issued[j + Leaving].done \/ Finishes(j + Leaving)
         /\ ResultOf(j)' = ResultOf(j + Leaving)
<1>1. PICK k \in Live : k = j + Leaving
  BY LeftIs
<1>2. issued'[j] = [issued[k] EXCEPT !.done = @ \/ Finishes(k)]
  BY <1>1, IssuedNext, LeftIs, Zenon
<1>3. issued[k] \in EntryType
  BY InFlightIs, Parts
<1>4. /\ issued'[j].pc = issued[k].pc /\ issued'[j].op1 = issued[k].op1
      /\ issued'[j].op2 = issued[k].op2 /\ issued'[j].areg = issued[k].areg
      /\ issued'[j].preg = issued[k].preg
      /\ issued'[j].done <=> issued[k].done \/ Finishes(k)
  BY <1>2, <1>3 DEF EntryType
<1>5. prog' = prog
  BY DEF BackEdge
<1>6. ResultOf(j)' = ResultOf(k)
  BY <1>4, <1>5, Zenon DEF ResultOf
<1>. QED  BY <1>1, <1>4, <1>6, Zenon

\* What retires is the oldest instruction, and it is done.
LEMMA RetiringIs ==
  ASSUME BInv
  PROVE  /\ retires => 1 \in Live /\ issued[1].done /\ Leaving = 1
         /\ ~retires => Leaving = 0
         /\ Len(issued) \in Nat /\ Leaving <= Len(issued)
<1>1. Len(issued) \in Nat /\ Leaving <= Len(issued)
  BY InFlightIs, Parts, LeftIs
<1>2. (commit.val <=> retires) /\ (commit.val => Len(issued) > 0 /\ issued[1].done)
  BY CommittingIs
<1>. QED  BY <1>1, <1>2 DEF Leaving, Live

\* The committed value of a register changes when an instruction that writes
\* it retires.
LEMMA CommittedNext ==
  ASSUME BInv, InOrder, BackEdge, DecodeEdge, NEW a \in 1 .. NumAregs - 1
  PROVE  regs'[arch'[a]] = IF retires /\ issued[1].areg = a THEN ResultOf(1) ELSE regs[arch[a]]
<1>1. regs' = DIU!NextRegs(complete)
  BY DEF DecodeEdge
<1>2. arch \in [1 .. NumAregs - 1 -> 0 .. NumPregs - 1]
  BY Parts, SameTable, Zenon DEF RTP!FullInv, RTP!IInv, RTP!TypeOK
<1>3. arch' = IF retires /\ issued[1].areg # 0
              THEN [arch EXCEPT ![issued[1].areg] = issued[1].preg] ELSE arch
  BY DEF BackEdge
<1>4. CASE retires /\ issued[1].areg = a
  <2>1. 1 \in Live /\ issued[1].done
    BY <1>4, RetiringIs
  <2>2. issued[1].preg # 0
    BY <1>4, <2>1, RegistersAre
  <2>3. arch'[a] = issued[1].preg
    BY <1>2, <1>3, <1>4
  <2>4. regs[issued[1].preg] = ResultOf(1)
    BY <2>1, <2>2, Zenon DEF InOrder, Written, Live
  <2>5. ASSUME NEW k \in Live, Finishes(k), issued[k].preg # 0
        PROVE  issued[k].preg # issued[1].preg
    <3>1. ~issued[k].done
      BY <2>5, CompletionIs
    <3>. QED  BY <2>1, <2>5, <3>1, RegistersAre
  <2>6. regs'[issued[1].preg] = regs[issued[1].preg]
    BY <1>1, <2>5, RegsNext
  <2>. QED  BY <1>4, <2>3, <2>4, <2>6
<1>5. CASE ~(retires /\ issued[1].areg = a)
  <2>1. arch'[a] = arch[a]
    BY <1>2, <1>3, <1>5
  <2>2. \A k \in Live : Finishes(k) /\ issued[k].preg # 0 => issued[k].preg # arch[a]
    BY RegistersAre
  <2>3. regs'[arch[a]] = regs[arch[a]]
    BY <1>1, <2>2, RegsNext
  <2>. QED  BY <1>5, <2>1, <2>3
<1>. QED  BY <1>4, <1>5

\* What the program has in a register when it comes to an instruction stays the
\* same while older instructions retire.
LEMMA HoldingOn ==
  ASSUME BInv, InOrder, BackEdge, DecodeEdge, NEW a \in Areg, NEW v,
         NEW i \in 1 .. Coming - Leaving, Holding(v, a, i + Leaving)
  PROVE  Holding(v, a, i)'
<1> DEFINE n == Len(issued)
<1>1. /\ n \in Nat /\ Leaving \in {0, 1} /\ Leaving <= n /\ i \in 1 .. n + 1 - Leaving
      /\ (Leaving = 1 <=> retires) /\ (retires => 1 \in Live)
  BY RetiringIs, LeftIs DEF Coming
<1> HIDE DEF n
<1>2. CASE a = 0
  BY <1>2, Zenon DEF Holding
<1>3. CASE a # 0
  <2>1. a \in 1 .. NumAregs - 1
    BY <1>3 DEF Areg
  <2>2. \A j \in 0 .. (i + Leaving) - 1 :
          Writer(a, j, i + Leaving) => v = IF j = 0 THEN regs[arch[a]] ELSE ResultOf(j)
    BY <1>3 DEF Holding
  <2>3. \A m \in 1 .. n - Leaving : /\ issued'[m].areg = issued[m + Leaving].areg
                              /\ ResultOf(m)' = ResultOf(m + Leaving)
    BY IssuedOn DEF n
  <2>4. regs'[arch'[a]] = IF retires /\ issued[1].areg = a THEN ResultOf(1) ELSE regs[arch[a]]
    BY <2>1, CommittedNext
  <2>5. ASSUME NEW j \in 0 .. i - 1, j = 0 \/ issued'[j].areg = a,
               \A m \in j + 1 .. i - 1 : issued'[m].areg # a
        PROVE  /\ j = 0 => v = regs'[arch'[a]]
               /\ j # 0 => v = ResultOf(j)'
    <3>1. \A m \in j + Leaving + 1 .. (i + Leaving) - 1 : issued[m].areg # a
      <4> SUFFICES ASSUME NEW m \in j + Leaving + 1 .. (i + Leaving) - 1 PROVE issued[m].areg # a
        OBVIOUS
      <4>1. PICK l \in j + 1 .. i - 1 : l + Leaving = m
        <5>1. m - Leaving \in j + 1 .. i - 1 /\ m - Leaving + Leaving = m
          BY <1>1
        <5>. QED  BY <5>1
      <4>2. l \in 1 .. n - Leaving
        BY <1>1
      <4>. QED  BY <2>3, <2>5, <4>1, <4>2
    <3>2. CASE j # 0
      <4>1. j \in 1 .. n - Leaving /\ j + Leaving \in 0 .. (i + Leaving) - 1 /\ j + Leaving # 0
        BY <1>1, <3>2
      <4>2. Writer(a, j + Leaving, i + Leaving)
        <5>1. issued[j + Leaving].areg = a
          BY <2>3, <2>5, <3>2, <4>1
        <5>. QED  BY <3>1, <4>1, <5>1, Zenon DEF Writer
      <4>. QED  BY <2>2, <2>3, <3>2, <4>1, <4>2
    <3>3. CASE j = 0 /\ ~(retires /\ issued[1].areg = a)
      <4>1. 0 \in 0 .. (i + Leaving) - 1
        BY <1>1
      <4>2. \A m \in 0 + 1 .. (i + Leaving) - 1 : issued[m].areg # a
        BY <1>1, <3>1, <3>3
      <4>3. Writer(a, 0, i + Leaving)
        BY <4>1, <4>2 DEF Writer
      <4>. QED  BY <2>2, <2>4, <3>3, <4>1, <4>3
    <3>4. CASE j = 0 /\ retires /\ issued[1].areg = a
      <4>1. Leaving = 1 /\ 1 \in 0 .. (i + Leaving) - 1
        BY <1>1, <3>4
      <4>2. Writer(a, 1, i + Leaving)
        BY <3>1, <3>4, <4>1 DEF Writer
      <4>3. v = ResultOf(1)
        BY <2>2, <4>1, <4>2
      <4>. QED  BY <2>4, <3>4, <4>3
    <3>. QED  BY <3>2, <3>3, <3>4
  <2>. QED  BY <1>3, <2>5, Zenon DEF Holding, Writer, ResultOf
<1>. QED  BY <1>2, <1>3

-----------------------------------------------------------------------------
(* The path of the program.                                                *)

\* The program of module Isa, in the terms of this module.
LEMMA IsaIs ==
  /\ \A i : (ISA!Decodes(i) <=> Decodes(i)) /\ (ISA!Wen(i) <=> Wen(i))
  /\ \A u, p, a, b : ISA!Result(u, p, a, b) = Result(u, p, a, b)
  /\ ISA!inst = prog[isa_pc]
  /\ ISA!NextPc = Following(prog[isa_pc], isa_pc, ISA!op1, ISA!op2)
  /\ \A a \in Areg : ISA!Read(a) = IF a = 0 THEN 0 ELSE regs[arch[a]]
<1>1. \A i : (ISA!Decodes(i) <=> Decodes(i)) /\ (ISA!Wen(i) <=> Wen(i))
  BY Zenon DEF ISA!Wen, Wen, ISA!Decodes, Decodes, ISA!Subset, Subset, ISA!Branches, Branches,
               ISA!ALU, ALU, ISA!M, M, ISA!CTRL, CTRL
<1>2. \A u, p, a, b : ISA!Result(u, p, a, b) = Result(u, p, a, b)
  BY Zenon DEF ISA!Result, Result, ISA!Wrap, Wrap
<1>3. ISA!inst = prog[isa_pc]
  BY DEF ISA!inst
<1>4. ISA!NextPc = Following(prog[isa_pc], isa_pc, ISA!op1, ISA!op2)
  <2>1. /\ \A i : ISA!IsJump(i) <=> IsJump(i)
        /\ \A i, p, a : ISA!JumpTarget(i, p, a) = JumpTarget(i, p, a)
        /\ \A x : ISA!Wrap(x) = Wrap(x)
        /\ \A u, a, b : ISA!Taken(u, a, b) <=> Taken(u, a, b)
    BY Zenon DEF ISA!IsJump, IsJump, ISA!JumpTarget, JumpTarget, ISA!Wrap, Wrap, ISA!Taken, Taken
  <2>. QED  BY <1>3, <2>1, Zenon DEF ISA!NextPc, Following
<1>5. ASSUME NEW a \in Areg
      PROVE  ISA!Read(a) = IF a = 0 THEN 0 ELSE regs[arch[a]]
  <2>1. ISA!Areg = Areg
    BY DEF ISA!Areg, Areg
  <2>. QED  BY <2>1 DEF ISA!Read
<1>. QED  BY <1>1, <1>2, <1>3, <1>4, <1>5

\* The oldest instruction has the operands of the next one of the program.
LEMMA OldestIs ==
  ASSUME BInv, InOrder, 1 \in Live
  PROVE  /\ issued[1].pc = isa_pc /\ Decodes(prog[isa_pc])
         /\ issued[1].op1 = ISA!op1 /\ issued[1].op2 = ISA!op2
         /\ issued[1].areg = IF Wen(prog[isa_pc]) THEN prog[isa_pc].rd ELSE 0
<1> DEFINE i == prog[issued[1].pc]
<1>1. /\ issued[1].pc = isa_pc /\ Decodes(i)
      /\ issued[1].areg = IF Wen(i) THEN i.rd ELSE 0
      /\ Holding(issued[1].op1, i.rs1, 1)
      /\ IF i.op2_sel THEN issued[1].op2 = i.imm ELSE Holding(issued[1].op2, i.rs2, 1)
  BY Zenon DEF InOrder, IsNext, PcOf, Live
<1>2. i \in Instruction /\ issued[1].pc \in Addr
  BY Parts, InFlightIs DEF Types, EntryType
<1>3. i.rs1 \in Areg /\ i.rs2 \in Areg
  BY <1>2 DEF Instruction
<1>4. ASSUME NEW v, NEW a \in Areg, Holding(v, a, 1)
      PROVE  v = ISA!Read(a)
  <2>1. 0 \in 0 .. 1 - 1 /\ Writer(a, 0, 1)
    BY DEF Writer
  <2>2. v = IF a = 0 THEN 0 ELSE regs[arch[a]]
    BY <1>4, <2>1, Zenon DEF Holding
  <2>. QED  BY <2>2, IsaIs
<1>5. ISA!op1 = ISA!Read(i.rs1) /\ ISA!op2 = IF i.op2_sel THEN i.imm ELSE ISA!Read(i.rs2)
  BY <1>1, Zenon DEF ISA!op1, ISA!op2, ISA!inst
<1> HIDE DEF i
<1>6. issued[1].op1 = ISA!op1 /\ issued[1].op2 = ISA!op2
  BY <1>1, <1>3, <1>4, <1>5
<1>. QED  BY <1>1, <1>6 DEF i

\* The pc of an instruction, and of the one to be issued next, stays the same
\* while older instructions retire.
LEMMA PcOn ==
  ASSUME BInv, InOrder, BackEdge, NEW i \in 1 .. Coming - Leaving
  PROVE  PcOf(i)' = PcOf(i + Leaving)
<1>1. /\ Len(issued) \in Nat /\ Leaving \in {0, 1} /\ Leaving <= Len(issued)
      /\ i \in 1 .. Len(issued) + 1 - Leaving
      /\ (Leaving = 1 <=> retires) /\ (retires => 1 \in Live)
  BY RetiringIs, LeftIs DEF Coming
<1>2. prog' = prog /\ isa_pc' = IF retires THEN ISA!NextPc ELSE isa_pc
  BY DEF BackEdge
<1>3. CASE i # 1
  <2>1. PICK h \in 1 .. Len(issued) - Leaving : h = i - 1 /\ h + Leaving = (i + Leaving) - 1
    <3>1. i - 1 \in 1 .. Len(issued) - Leaving /\ (i - 1) + Leaving = (i + Leaving) - 1
      BY <1>1, <1>3
    <3>. QED  BY <3>1, Zenon
  <2>2. i + Leaving # 1
    BY <1>1, <1>3
  <2>3. /\ issued'[h].pc = issued[h + Leaving].pc /\ issued'[h].op1 = issued[h + Leaving].op1
        /\ issued'[h].op2 = issued[h + Leaving].op2
    BY IssuedOn
  <2>4. PcOf(i)' = Following(prog[issued[h + Leaving].pc], issued[h + Leaving].pc,
                             issued[h + Leaving].op1, issued[h + Leaving].op2)
    BY <1>2, <1>3, <2>1, <2>3, Zenon DEF PcOf, Following
  <2>. QED  BY <2>1, <2>2, <2>4, Zenon DEF PcOf
<1>4. CASE i = 1 /\ ~retires
  <2>1. i + Leaving = 1
    BY <1>1, <1>4
  <2>. QED  BY <1>2, <1>4, <2>1, Zenon DEF PcOf
<1>5. CASE i = 1 /\ retires
  <2>1. i + Leaving = 2 /\ 2 - 1 = 1 /\ 2 # 1
    BY <1>1, <1>5
  <2>2. PcOf(2) = Following(prog[issued[1].pc], issued[1].pc, issued[1].op1, issued[1].op2)
    BY <2>1, Zenon DEF PcOf
  <2>3. ISA!NextPc = Following(prog[isa_pc], isa_pc, ISA!op1, ISA!op2)
    BY IsaIs
  <2>4. isa_pc' = PcOf(2)
    BY <1>1, <1>2, <1>5, <2>2, <2>3, OldestIs
  <2>5. PcOf(i)' = isa_pc'
    BY <1>5, Zenon DEF PcOf
  <2>. QED  BY <2>1, <2>4, <2>5
<1>. QED  BY <1>3, <1>4, <1>5

\* A cycle in which an instruction commits is the program's next step, and the
\* others are none.
LEMMA IsaStep ==
  ASSUME BInv, InOrder, BackEdge, DecodeEdge
  PROVE  ISA!Next
<1> DEFINE file == [a \in Areg \ {0} |-> regs[arch[a]]]
           i == prog[isa_pc]
<1>1. /\ trace' = inst_trace(commit) /\ prog' = prog
      /\ isa_pc' = IF retires THEN ISA!NextPc ELSE isa_pc
  BY DEF BackEdge
<1>2. \A a \in Areg \ {0} :
        regs'[arch'[a]] = IF retires /\ issued[1].areg = a THEN ResultOf(1) ELSE regs[arch[a]]
  <2>1. \A a \in Areg \ {0} : a \in 1 .. NumAregs - 1
    BY DEF Areg
  <2>. QED  BY <2>1, CommittedNext
<1>3. file' = [a \in Areg \ {0} |-> IF retires /\ issued[1].areg = a THEN ResultOf(1) ELSE file[a]]
  BY <1>2 DEF Areg
<1>4. ISA!Areg = Areg
  BY DEF ISA!Areg, Areg
<1>5. (commit.val <=> retires) /\ (retires => 1 \in Live)
  BY CommittingIs, RetiringIs
<1>6. CASE ~retires
  <2>1. trace' = << >>
    BY <1>1, <1>5, <1>6 DEF inst_trace
  <2>2. file' = file
    BY <1>3, <1>6
  <2>. QED  BY <1>1, <1>4, <1>6, <2>1, <2>2, Zenon DEF ISA!Next, ISA!Wait
<1>7. CASE retires
  <2>1. /\ issued[1].pc = isa_pc /\ Decodes(i)
        /\ issued[1].op1 = ISA!op1 /\ issued[1].op2 = ISA!op2
        /\ issued[1].areg = IF Wen(i) THEN i.rd ELSE 0
    BY <1>5, <1>7, OldestIs
  <2>2. ISA!inst = i /\ ISA!wdata = ResultOf(1)
    BY <2>1, IsaIs, Zenon DEF ISA!wdata, ResultOf
  <2>3. ISA!wen <=> issued[1].areg # 0
    BY <2>1, <2>2, IsaIs, Zenon DEF ISA!wen
  <2>4. PICK wen \in Wens(Op(1).uop) : Commits(wen)
    BY <1>7, CommitShape, Parts
  <2>5. /\ commit.val = TRUE /\ commit.areg = issued[1].areg
        /\ commit.wen = (wen /\ issued[1].areg # 0)
        /\ commit.wdata = Result(Op(1).uop, issued[1].pc, issued[1].op1, issued[1].op2)
        /\ WCU!commit.msg = WCU!NoX0(Outcome(Op(1), wen).msg)
    BY <2>4 DEF Commits
  <2>6. commit.wdata = ResultOf(1)
    BY <2>5, Zenon DEF ResultOf, Op
  <2>7. WCU!commit.msg.pc = isa_pc
    <3>1. WCU!NoX0(Outcome(Op(1), wen).msg).pc = issued[1].pc
      <4>1. PICK m : m = Outcome(Op(1), wen).msg
        OBVIOUS
      <4>2. m = [pc |-> issued[1].pc, waddr |-> issued[1].areg,
                 wdata |-> Result(Op(1).uop, issued[1].pc, issued[1].op1, issued[1].op2),
                 wen |-> wen, preg |-> issued[1].preg, ppreg |-> issued[1].ppreg]
        BY <4>1, OutcomeIs
      <4>3. WCU!NoX0(m).pc = issued[1].pc
        BY <4>2 DEF WCU!NoX0
      <4>. QED  BY <4>1, <4>3
    <3>. QED  BY <2>1, <2>5, <3>1
  <2>8. commit.wen <=> ISA!wen
    <3>1. IsNext(1)
      BY <1>5, <1>7, Zenon DEF InOrder, Live
    <3>2. issued[1].areg # 0 => wen = TRUE
      BY <3>1, WritersWrite
    <3>. QED  BY <2>3, <2>5, <3>2
  <2>9. ISA!wen => issued[1].areg = i.rd /\ i.rd # 0
    BY <2>1, <2>3
  <2>10. trace' = <<IF ISA!wen THEN [pc |-> isa_pc, wen |-> TRUE, waddr |-> i.rd, wdata |-> ISA!wdata]
                    ELSE [pc |-> isa_pc, wen |-> FALSE]>>
    <3>1. CASE ISA!wen
      BY <1>1, <2>2, <2>5, <2>6, <2>7, <2>8, <2>9, <3>1 DEF inst_trace
    <3>2. CASE ~ISA!wen
      BY <1>1, <2>5, <2>7, <2>8, <3>2 DEF inst_trace
    <3>. QED  BY <3>1, <3>2
  <2>11. file' = IF ISA!wen THEN [file EXCEPT ![i.rd] = ISA!wdata] ELSE file
    <3>1. CASE ISA!wen
      <4>1. [file EXCEPT ![i.rd] = ISA!wdata]
              = [a \in Areg \ {0} |-> IF a = i.rd THEN ISA!wdata ELSE file[a]]
        OBVIOUS
      <4> HIDE DEF file
      <4>. QED  BY <1>3, <1>7, <2>2, <2>9, <3>1, <4>1
    <3>2. CASE ~ISA!wen
      <4>1. \A a \in Areg \ {0} : issued[1].areg # a
        BY <2>3, <3>2
      <4>. QED  BY <1>3, <3>2, <4>1
    <3>. QED  BY <3>1, <3>2
  <2>12. isa_pc' = ISA!NextPc
    BY <1>1, <1>7
  <2>13. ISA!Retire
    <3>1. ISA!Decodes(ISA!inst)
      BY <2>1, <2>2, IsaIs
    <3>2. file' = IF ISA!wen THEN [file EXCEPT ![ISA!inst.rd] = ISA!wdata] ELSE file
      BY <2>2, <2>11
    <3>3. trace' = <<IF ISA!wen THEN [pc |-> isa_pc, wen |-> TRUE, waddr |-> ISA!inst.rd, wdata |-> ISA!wdata]
                     ELSE [pc |-> isa_pc, wen |-> FALSE]>>
      BY <2>2, <2>10
    <3>. QED  BY <1>1, <1>4, <2>12, <3>1, <3>2, <3>3, Zenon DEF ISA!Retire
  <2>. QED  BY <2>13 DEF ISA!Next
<1>. QED  BY <1>6, <1>7

-----------------------------------------------------------------------------
(* What is issued is the next instruction of the program.                  *)

\* The operands decode sends are those of the program, and so is the rest.
LEMMA EntryIsNext ==
  ASSUME BInv, InOrder, OnPath, to # {}
  PROVE  LET i == prog[Entry.pc] IN
         /\ Entry.pc = F_reg.pc /\ i = F_reg.inst
         /\ i \in Instruction
         /\ Entry.pc = PcOf(Coming)
         /\ Decodes(i)
         /\ Entry.areg = IF Wen(i) THEN i.rd ELSE 0
         /\ Entry.op1 = DIU!rdata(i.rs1, complete)
         /\ Holding(Entry.op1, i.rs1, Coming)
         /\ IF i.op2_sel THEN Entry.op2 = i.imm ELSE Holding(Entry.op2, i.rs2, Coming)
         /\ ~Entry.done
<1> DEFINE i == F_reg.inst
<1>1. PICK pipe \in to : /\ F_reg.val /\ i.uop \in Subset[pipe] /\ pipe \in {ALU, M, CTRL}
                         /\ ~DIU!stall_pending(complete) /\ ~killed
  BY IssueShape, Zenon
<1>2. /\ Entry.pc = F_reg.pc /\ Entry.areg = DIU!waddr /\ ~Entry.done
      /\ i = prog[F_reg.pc] /\ i \in Instruction
  BY Parts, SentIs, InFlightIs, <1>1
<1>3. i.rs1 \in Areg /\ i.rs2 \in Areg
  BY <1>2 DEF Instruction
<1>4. F_reg.pc = PcOf(Coming)
  <2>1. ~branch.val
    BY <1>1, KilledIs, Parts
  <2>. QED  BY <1>1, <2>1, Zenon DEF OnPath, branch
<1>5. Decodes(i)
  <2>1. pipe \in DOMAIN Subset
    BY <1>1 DEF Subset
  <2>. QED  BY <1>1, <2>1, Zenon DEF Decodes
<1>6. Entry.areg = IF Wen(i) THEN i.rd ELSE 0
  <2>1. DIU!Wen(i) <=> Wen(i)
    BY Zenon DEF DIU!Wen, Wen, DIU!Decodes, Decodes, DIU!Subset, Subset, DIU!Branches, Branches,
                 DIU!ALU, ALU, DIU!M, M, DIU!CTRL, CTRL
  <2>. QED  BY <1>2, <2>1, Zenon DEF DIU!waddr, DIU!inst
<1>7. /\ Entry.op1 = DIU!rdata(i.rs1, complete)
      /\ Entry.op2 = IF i.op2_sel THEN i.imm ELSE DIU!rdata(i.rs2, complete)
  <2>1. /\ sent.op1 = DIU!rdata(i.rs1, complete)
        /\ sent.op2 = IF i.op2_sel THEN i.imm ELSE DIU!rdata(i.rs2, complete)
    BY DEF sent, DIU!X, DIU!inst
  <2>. QED  BY <2>1 DEF Entry
<1>8. /\ ~DIU!RT!lookup_pending(i.rs1, complete)
      /\ ~DIU!RT!lookup_pending(i.rs2, complete)
  BY <1>1, Zenon DEF DIU!stall_pending, DIU!inst
<1>9. /\ Holding(Entry.op1, i.rs1, Coming)
      /\ IF i.op2_sel THEN Entry.op2 = i.imm ELSE Holding(Entry.op2, i.rs2, Coming)
  BY <1>3, <1>7, <1>8, RdataHolds, Zenon
<1>. QED  BY <1>2, <1>4, <1>5, <1>6, <1>7, <1>9, Zenon

\* What an entry of the list needs to be the program's.
LEMMA IsNextOn ==
  ASSUME NEW k, NEW i, NEW x, NEW y,
         i = prog'[issued'[k].pc], x = issued'[k].op1, y = issued'[k].op2,
         issued'[k].pc = PcOf(k)', Decodes(i),
         issued'[k].areg = IF Wen(i) THEN i.rd ELSE 0,
         Holding(x, i.rs1, k)',
         IF i.op2_sel THEN y = i.imm ELSE Holding(y, i.rs2, k)'
  PROVE  IsNext(k)'
BY DEF IsNext, Holding

\* The instructions that stay are the program's, and what is done is in its
\* register, which no other instruction writes.
LEMMA StayInOrder ==
  ASSUME BInv, InOrder, BackEdge, DecodeEdge, NEW j \in 1 .. Len(issued) - Leaving
  PROVE  IsNext(j)' /\ Written(j)'
<1>1. PICK k \in Live : k = j + Leaving
  BY IssuedOn
<1>2. /\ issued'[j].pc = issued[k].pc /\ issued'[j].op1 = issued[k].op1
      /\ issued'[j].op2 = issued[k].op2 /\ issued'[j].areg = issued[k].areg
      /\ issued'[j].preg = issued[k].preg
      /\ issued'[j].done <=> issued[k].done \/ Finishes(k)
      /\ ResultOf(j)' = ResultOf(k)
  BY <1>1, IssuedOn
<1>3. IsNext(k) /\ Written(k)
  BY Zenon DEF InOrder, Live
<1>4. j \in 1 .. Coming - Leaving
  BY RetiringIs, LeftIs DEF Coming
<1>5. prog' = prog
  BY DEF BackEdge
<1>6. PICK i : i = prog[issued[k].pc]
  OBVIOUS
<1>7. i \in Instruction
  BY <1>6, Parts, InFlightIs DEF Types, EntryType
<1>8. i.rs1 \in Areg /\ i.rs2 \in Areg
  BY <1>7 DEF Instruction
<1>9. /\ issued[k].pc = PcOf(k) /\ Decodes(i)
      /\ issued[k].areg = IF Wen(i) THEN i.rd ELSE 0
      /\ Holding(issued[k].op1, i.rs1, k)
      /\ IF i.op2_sel THEN issued[k].op2 = i.imm ELSE Holding(issued[k].op2, i.rs2, k)
  BY <1>3, <1>6, Zenon DEF IsNext
<1>10. PcOf(j)' = PcOf(k)
  BY <1>1, <1>4, PcOn
<1>11. ASSUME NEW v, NEW a \in Areg, Holding(v, a, k)
       PROVE  Holding(v, a, j)'
  BY <1>1, <1>4, <1>11, HoldingOn
<1>12. IsNext(j)'
  <2>1. PICK x : x = issued[k].op1
    OBVIOUS
  <2>2. PICK y : y = issued[k].op2
    OBVIOUS
  <2>3. Holding(x, i.rs1, j)'
    BY <1>8, <1>9, <1>11, <2>1
  <2>4. ~i.op2_sel => Holding(y, i.rs2, j)'
    BY <1>8, <1>9, <1>11, <2>2
  <2>5. /\ i = prog'[issued'[j].pc] /\ x = issued'[j].op1 /\ y = issued'[j].op2
        /\ issued'[j].pc = PcOf(j)'
        /\ issued'[j].areg = IF Wen(i) THEN i.rd ELSE 0
        /\ i.op2_sel => y = i.imm
    BY <1>2, <1>5, <1>6, <1>9, <1>10, <2>1, <2>2
  <2>. QED  BY <1>9, <2>3, <2>4, <2>5, IsNextOn
<1>13. Written(j)'
  <2>1. regs' = DIU!NextRegs(complete)
    BY DEF DecodeEdge
  <2>2. CASE issued[k].preg # 0 /\ Finishes(k)
    <3>1. regs'[issued[k].preg] = ResultOf(k)
      BY <2>1, <2>2, RegsNext
    <3>. QED  BY <1>2, <3>1, Zenon DEF Written, ResultOf
  <2>3. CASE issued[k].preg # 0 /\ ~Finishes(k) /\ issued[k].done
    <3>1. ASSUME NEW h \in Live, Finishes(h), issued[h].preg # 0
          PROVE  issued[h].preg # issued[k].preg
      BY <2>3, <3>1, RegistersAre
    <3>2. regs'[issued[k].preg] = regs[issued[k].preg]
      BY <2>1, <3>1, RegsNext
    <3>3. regs[issued[k].preg] = ResultOf(k)
      BY <1>3, <2>3, Zenon DEF Written
    <3>4. regs'[issued'[j].preg] = ResultOf(j)'
      BY <1>2, <3>2, <3>3
    <3>. QED  BY <3>4, Zenon DEF Written, ResultOf
  <2>4. CASE issued[k].preg = 0 \/ (~Finishes(k) /\ ~issued[k].done)
    BY <1>2, <2>4, Zenon DEF Written
  <2>. QED  BY <2>2, <2>3, <2>4
<1>. QED  BY <1>12, <1>13

\* So are all after a cycle.
LEMMA InOrderStep ==
  ASSUME BInv, InOrder, OnPath, BackEdge, DecodeEdge
  PROVE  InOrder'
<1>1. /\ Len(issued) \in Nat /\ Leaving \in {0, 1} /\ Leaving <= Len(issued) /\ Joining \in {0, 1}
      /\ Len(issued') = Len(issued) - Leaving + Joining
      /\ to # {} <=> Joining = 1
  BY RetiringIs, LeftIs, IssuedNext DEF Joining
<1>2. ASSUME NEW j \in 1 .. Len(issued'), to # {}, j = Len(issued) - Leaving + 1
      PROVE  IsNext(j)' /\ Written(j)'
  <2>1. issued'[j] = Entry /\ prog' = prog
    BY <1>2, IssuedNext DEF BackEdge
  <2>2. PICK i : i = prog[Entry.pc]
    OBVIOUS
  <2>3. /\ Entry.pc = PcOf(Coming) /\ i \in Instruction
        /\ Decodes(i)
        /\ Entry.areg = IF Wen(i) THEN i.rd ELSE 0
        /\ Holding(Entry.op1, i.rs1, Coming)
        /\ IF i.op2_sel THEN Entry.op2 = i.imm ELSE Holding(Entry.op2, i.rs2, Coming)
        /\ ~Entry.done
    BY <1>2, <2>2, EntryIsNext
  <2>4. i.rs1 \in Areg /\ i.rs2 \in Areg
    BY <2>3 DEF Instruction
  <2>5. j \in 1 .. Coming - Leaving /\ j + Leaving = Coming
    BY <1>1, <1>2 DEF Coming
  <2>6. PcOf(j)' = PcOf(Coming)
    BY <2>5, PcOn
  <2>7. ASSUME NEW v, NEW a \in Areg, Holding(v, a, Coming)
        PROVE  Holding(v, a, j)'
    BY <2>5, <2>7, HoldingOn
  <2>8. PICK x : x = Entry.op1
    OBVIOUS
  <2>9. PICK y : y = Entry.op2
    OBVIOUS
  <2>10. Holding(x, i.rs1, j)' /\ (~i.op2_sel => Holding(y, i.rs2, j)')
    BY <2>3, <2>4, <2>7, <2>8, <2>9
  <2>11. /\ i = prog'[issued'[j].pc] /\ x = issued'[j].op1 /\ y = issued'[j].op2
         /\ issued'[j].pc = PcOf(j)'
         /\ issued'[j].areg = IF Wen(i) THEN i.rd ELSE 0
         /\ i.op2_sel => y = i.imm
    BY <2>1, <2>2, <2>3, <2>6, <2>8, <2>9
  <2>13. IsNext(j)'
    BY <2>3, <2>10, <2>11, IsNextOn
  <2>14. Written(j)'
    BY <2>1, <2>3, Zenon DEF Written
  <2>. QED  BY <2>13, <2>14
<1>3. ASSUME NEW j \in 1 .. Len(issued') PROVE IsNext(j)' /\ Written(j)'
  <2>1. j \in 1 .. Len(issued) - Leaving \/ (to # {} /\ j = Len(issued) - Leaving + 1)
    BY <1>1
  <2>. QED  BY <1>2, <2>1, StayInOrder
<1>. QED  BY <1>3, Zenon DEF InOrder, IsNext, Written, PcOf, Holding, Following, Writer, ResultOf

-----------------------------------------------------------------------------
(* Where fetch goes on.                                                    *)

\* What division and remainder are to each other.
LEMMA DivMod ==
  ASSUME NEW x \in Int, NEW m \in Nat \ {0}
  PROVE  x % m \in 0 .. m - 1 /\ x \div m \in Int /\ x = m * (x \div m) + (x % m)
OBVIOUS

\* The address after another one.
LEMMA SuccIsWrap ==
  ASSUME NEW x \in Addr
  PROVE  FU!Succ(x) = Wrap(x + 1)
<1> DEFINE y == x + 1
           q == y \div NAddr
           r == y % NAddr
<1>1. NAddr \in Nat \ {0} /\ y \in 1 .. NAddr
  BY AddrAssumption DEF Addr
<1>2. r \in 0 .. NAddr - 1 /\ q \in Int /\ y = NAddr * q + r
  <2>1. y \in Int
    BY <1>1
  <2> HIDE DEF y
  <2>. QED  BY <1>1, <2>1, DivMod, Zenon DEF q, r
<1>3. FU!Succ(x) = IF y = NAddr THEN 0 ELSE y
  BY AddrAssumption DEF FU!Succ, Addr
<1> HIDE DEF y, q, r
<1>4. q <= -1 => NAddr * q <= -NAddr
  BY <1>1, <1>2
<1>5. q >= 2 => NAddr * q >= 2 * NAddr
  BY <1>1, <1>2
<1>6. q \in {0, 1}
  BY <1>1, <1>2, <1>4, <1>5
<1>7. r = IF y = NAddr THEN 0 ELSE y
  <2>1. CASE q = 0
    <3>1. y = r
      BY <1>1, <1>2, <2>1
    <3>. QED  BY <1>1, <1>2, <3>1
  <2>2. CASE q = 1
    <3>1. y = NAddr + r
      BY <1>1, <1>2, <2>2
    <3>. QED  BY <1>1, <1>2, <3>1
  <2>. QED  BY <1>6, <2>1, <2>2
<1>. QED  BY <1>3, <1>7 DEF Wrap, r, y

\* What fetch is to deliver after a cycle.
LEMMA WantedNext ==
  ASSUME BInv, NEW resp_val \in BOOLEAN, NEW finish \in BOOLEAN, AtEdge(resp_val, finish)
  PROVE  /\ FU!Wanted \in Addr
         /\ squash.val => FU!Wanted' = squash.target
         /\ fetched => Head(resp_fifo) = FU!Wanted /\ FU!Wanted' = Wrap(FU!Wanted + 1)
         /\ ~squash.val /\ ~fetched => FU!Wanted' = FU!Wanted
<1>1. FU!Edge(TRUE, resp_val, F_rdy, SNG!alloc_val, target) /\ (resp_val => inst_mem # << >>)
  BY DEF AtEdge, FrontEdge
<1>2. target \in FU!Squashes /\ (target = << >> <=> ~squash.val)
      /\ (squash.val => target = <<squash.target>>)
  BY TargetType DEF target
<1>3. F_rdy \in BOOLEAN /\ SNG!alloc_val \in BOOLEAN
  BY Zenon DEF F_rdy, DIU!F_rdy, SNG!alloc_val
<1>4. FU!Cycle(TRUE, resp_val, F_rdy, SNG!alloc_val, target)
  BY <1>1, Zenon DEF FU!Cycle
<1>5. FU!Stream!Next
  BY <1>2, <1>3, <1>4, Parts, CycleStream
<1>6. FU!Wanted \in Addr
  <2>1. FU!Addr = Addr
    BY DEF FU!Addr, Addr
  <2>. QED  BY <2>1, WantedReq, Parts
<1>7. /\ delivered' = IF fetched THEN <<Head(resp_fifo)>> ELSE << >>
      /\ redirect' = target
  BY <1>1 DEF FU!Edge, fetched
<1>8. FU!Stream!Succ(FU!Wanted) = Wrap(FU!Wanted + 1)
  <2>1. FU!Stream!Succ(FU!Wanted) = FU!Succ(FU!Wanted)
    BY DEF FU!Stream!Succ, FU!Succ
  <2>. QED  BY <1>6, <2>1, SuccIsWrap
<1>9. CASE FU!Stream!Deliver
  <2>1. /\ delivered' = <<FU!Wanted>> /\ redirect' = << >>
        /\ FU!Wanted' = FU!Stream!Succ(FU!Wanted)
    BY <1>9 DEF FU!Stream!Deliver
  <2>2. fetched /\ Head(resp_fifo) = FU!Wanted
    BY <1>7, <2>1
  <2>. QED  BY <1>2, <1>6, <1>7, <1>8, <2>1, <2>2
<1>10. ASSUME NEW t, FU!Stream!Redirect(t)
       PROVE  /\ squash.val => FU!Wanted' = squash.target
              /\ ~fetched /\ squash.val
  <2>1. delivered' = << >> /\ redirect' = <<t>> /\ FU!Wanted' = t
    BY <1>10 DEF FU!Stream!Redirect
  <2>. QED  BY <1>2, <1>7, <2>1
<1>11. CASE FU!Stream!Wait
  <2>1. delivered' = << >> /\ redirect' = << >> /\ FU!Wanted' = FU!Wanted
    BY <1>11 DEF FU!Stream!Wait
  <2>. QED  BY <1>2, <1>6, <1>7, <2>1
<1>. QED  BY <1>5, <1>6, <1>9, <1>10, <1>11 DEF FU!Stream!Next

\* The pc of the instruction to be issued next, after a cycle.
LEMMA ComingOn ==
  ASSUME BInv, InOrder, BackEdge
  PROVE  /\ to = {} => PcOf(Coming)' = PcOf(Coming)
         /\ to # {} => PcOf(Coming)' = Following(prog[Entry.pc], Entry.pc, Entry.op1, Entry.op2)
<1>1. /\ Len(issued) \in Nat /\ Leaving \in {0, 1} /\ Leaving <= Len(issued)
      /\ Len(issued') = Len(issued) - Leaving + Joining
      /\ prog' = prog
  BY RetiringIs, LeftIs, IssuedNext DEF BackEdge
<1>2. PICK i : i = Coming'
  OBVIOUS
<1>3. i = Len(issued) - Leaving + Joining + 1
  BY <1>1, <1>2 DEF Coming
<1>4. PcOf(Coming)' = PcOf(i)'
  BY <1>2, Zenon DEF PcOf
<1>5. CASE to = {}
  <2>1. i \in 1 .. Coming - Leaving /\ i + Leaving = Coming
    BY <1>1, <1>3, <1>5 DEF Coming, Joining
  <2>2. PcOf(i)' = PcOf(i + Leaving)
    BY <2>1, PcOn
  <2>. QED  BY <1>4, <1>5, <2>1, <2>2
<1>6. CASE to # {}
  <2>1. PICK j : j = Len(issued) - Leaving + 1
    OBVIOUS
  <2>2. i # 1 /\ i - 1 = j
    BY <1>1, <1>3, <1>6, <2>1 DEF Joining
  <2>3. issued'[j] = Entry
    BY <1>6, <2>1, IssuedNext
  <2>4. PcOf(i)' = Following(prog[Entry.pc], Entry.pc, Entry.op1, Entry.op2)
    BY <1>1, <2>2, <2>3, Zenon DEF PcOf, Following
  <2>. QED  BY <1>4, <1>6, <2>4
<1>. QED  BY <1>5, <1>6

\* Only a branch is taken, and never a jump.
LEMMA TakenIs ==
  \A u, a, b : Taken(u, a, b) => u \in Branches /\ u \in Subset[CTRL] /\ u \notin {"JAL", "JALR"}
<1>1. \A u, a, b : Taken(u, a, b) => u \in Branches
  BY DEF Taken, Branches
<1>2. \A u : u \in Branches => u \in Subset[CTRL] /\ u \notin {"JAL", "JALR"}
  BY PipesAre DEF Branches
<1>. QED  BY <1>1, <1>2, Zenon

\* Decode, the branch pipe and module Isa go on in the same way.
LEMMA SamePath ==
  /\ \A i : DIU!IsJump(i) <=> IsJump(i)
  /\ \A i, p, a : DIU!JumpTarget(i, p, a) = JumpTarget(i, p, a)
  /\ \A u, a, b : CTRL_XU!Taken(u, a, b) <=> Taken(u, a, b)
  /\ \A x : CTRL_XU!Wrap(x) = Wrap(x)
BY Zenon DEF DIU!IsJump, IsJump, DIU!JumpTarget, JumpTarget, DIU!Wrap, Wrap,
             CTRL_XU!Wrap, CTRL_XU!Taken, Taken

\* A branch that is taken asks for its squash in the cycle after its issue.
LEMMA BranchNext ==
  ASSUME BInv, NEW finish, PipesEdge(finish), to # {},
         Taken(prog[Entry.pc].uop, Entry.op1, Entry.op2)
  PROVE  CTRL_XU!squash'.val
<1>1. PICK pipe \in to : pipe \in {ALU, M, CTRL} /\ F_reg.inst.uop \in Subset[pipe]
  BY IssueShape, Zenon
<1>2. /\ sent.uop = prog[Entry.pc].uop /\ sent.op1 = Entry.op1 /\ sent.op2 = Entry.op2
      /\ sent.uop = F_reg.inst.uop
  BY SentIs, Parts
<1>3. CTRL \in to
  <2>1. F_reg.inst.uop \in Subset[CTRL]
    BY <1>2, TakenIs
  <2>2. pipe = CTRL
    <3>1. CTRL \in {ALU, M, CTRL}
      OBVIOUS
    <3>. QED  BY <1>1, <2>1, <3>1, PipesAre, Zenon
  <2>. QED  BY <1>1, <2>2
<1>4. /\ \E wen \in CTRL_XU!Wens(sent.uop) : ctrl_reg' = CTRL_XU!Latched(sent, wen)
      /\ ctrl_sent' = FALSE
  BY <1>3 DEF PipesEdge
<1>5. PICK wen : ctrl_reg' = CTRL_XU!Latched(sent, wen)
  BY <1>4
<1>6. /\ ctrl_reg'.val = TRUE /\ ctrl_reg'.uop = sent.uop
      /\ ctrl_reg'.op1 = sent.op1 /\ ctrl_reg'.op2 = sent.op2
  BY <1>5 DEF CTRL_XU!Latched
<1>7. CTRL_XU!Taken(ctrl_reg'.uop, ctrl_reg'.op1, ctrl_reg'.op2)
  BY <1>2, <1>6, SamePath
<1>8. CTRL_XU!should_branch'
  BY <1>7, Zenon DEF CTRL_XU!should_branch, CTRL_XU!Taken
<1>. QED  BY <1>4, <1>6, <1>8 DEF CTRL_XU!squash

\* No other cycle makes it ask.
LEMMA NoBranchNext ==
  ASSUME NEW finish, PipesEdge(finish), CTRL \notin to
  PROVE  ~CTRL_XU!squash'.val
<1>1. ctrl_sent' = TRUE
  BY DEF PipesEdge
<1>. QED  BY <1>1 DEF CTRL_XU!squash

\* It redirects fetch to the instruction that comes after the branch.
LEMMA BranchTarget ==
  ASSUME BInv, branch.val
  PROVE  branch.target = PcOf(Coming)
<1> DEFINE k == Len(issued)
<1>1. k \in Live /\ ctrl_reg.val /\ ctrl_reg.seq_num = issued[k].seq_num
  BY SquashShape, Parts
<1>2. PICK h \in Live : \E wen \in Wens(Op(h).uop) :
                          Running(h, CTRL) /\ ctrl_reg = CTRL_XU!Latched(Op(h), wen)
  BY <1>1, Parts, NoneIs, Zenon DEF CtrlHolds
<1>3. /\ ctrl_reg.seq_num = issued[h].seq_num /\ ctrl_reg.pc = issued[h].pc
      /\ ctrl_reg.uop = prog[issued[h].pc].uop /\ ctrl_reg.imm = prog[issued[h].pc].imm
      /\ ctrl_reg.op1 = issued[h].op1 /\ ctrl_reg.op2 = issued[h].op2
  BY <1>2 DEF CTRL_XU!Latched, Op
<1>4. h = k
  BY <1>1, <1>3, Numbers, Parts
<1> DEFINE i == prog[issued[k].pc]
<1>5. /\ Taken(i.uop, issued[k].op1, issued[k].op2)
      /\ branch.target = Wrap(issued[k].pc + i.imm)
  <2>1. /\ CTRL_XU!should_branch /\ branch.target = CTRL_XU!Wrap(ctrl_reg.pc + ctrl_reg.imm)
    BY DEF branch, CTRL_XU!squash
  <2>2. CTRL_XU!Taken(ctrl_reg.uop, ctrl_reg.op1, ctrl_reg.op2)
    BY <2>1, Zenon DEF CTRL_XU!should_branch
  <2>. QED  BY <1>3, <1>4, <2>1, <2>2, SamePath
<1>6. ~IsJump(i)
  BY <1>5, TakenIs DEF IsJump
<1>7. Coming # 1 /\ Coming - 1 = k
  BY <1>1, Parts, InFlightIs DEF Coming, Live
<1>8. PcOf(Coming) = Following(i, issued[k].pc, issued[k].op1, issued[k].op2)
  BY <1>7 DEF PcOf
<1>. QED  BY <1>5, <1>6, <1>8 DEF Following

\* A jump asks decode to redirect fetch once its operand is there.
LEMMA AskedIs ==
  /\ asked.val <=> F_reg.val /\ IsJump(F_reg.inst) /\ ~jump_sent /\ ~DIU!stall_pending(complete)
  /\ asked.val => asked.target = JumpTarget(F_reg.inst, F_reg.pc,
                                            DIU!rdata(F_reg.inst.rs1, complete))
<1>1. DIU!IsJump(DIU!inst) <=> IsJump(F_reg.inst)
  BY SamePath DEF DIU!inst
<1>2. asked = IF F_reg.val /\ DIU!IsJump(DIU!inst) /\ ~jump_sent /\ ~DIU!stall_pending(complete)
              THEN [val |-> TRUE, seq_num |-> F_reg.seq_num,
                    target |-> DIU!JumpTarget(DIU!inst, F_reg.pc, DIU!rdata(DIU!inst.rs1, complete))]
              ELSE [val |-> FALSE, seq_num |-> 0]
  BY Zenon DEF asked, DIU!squash_pub
<1>3. DIU!JumpTarget(DIU!inst, F_reg.pc, DIU!rdata(DIU!inst.rs1, complete))
        = JumpTarget(F_reg.inst, F_reg.pc, DIU!rdata(F_reg.inst.rs1, complete))
  BY SamePath, Zenon DEF DIU!inst
<1> DEFINE t == JumpTarget(F_reg.inst, F_reg.pc, DIU!rdata(F_reg.inst.rs1, complete))
           s == F_reg.val /\ IsJump(F_reg.inst) /\ ~jump_sent /\ ~DIU!stall_pending(complete)
<1>4. asked = IF s THEN [val |-> TRUE, seq_num |-> F_reg.seq_num, target |-> t]
              ELSE [val |-> FALSE, seq_num |-> 0]
  BY <1>1, <1>2, <1>3, Zenon
<1> HIDE DEF s, t
<1>5. (asked.val <=> s) /\ (asked.val => asked.target = t)
  BY <1>4
<1>. QED  BY <1>5 DEF s, t

\* What decode holds after a cycle.
LEMMA DecodeNext ==
  ASSUME BInv, DecodeEdge
  PROVE  /\ fetched => /\ F_reg'.val /\ F_reg'.pc = Head(resp_fifo) /\ ~squash.val /\ ~jump_sent'
                       /\ to # {} \/ ~F_reg.val
         /\ ~fetched /\ (to # {} \/ killed) => ~F_reg'.val
         /\ ~fetched /\ to = {} /\ ~killed => F_reg' = F_reg
         /\ ~fetched => (jump_sent' <=> jump_sent \/ asked.val)
<1>1. /\ F_reg' = IF fetched THEN F_next ELSE IF to # {} \/ killed THEN None ELSE F_reg
      /\ jump_sent' = IF fetched THEN FALSE ELSE jump_sent \/ asked.val
  BY DEF DecodeEdge
<1>2. F_next.val = TRUE /\ F_next.pc = Head(resp_fifo) /\ None.val = FALSE
  BY DEF F_next, None
<1>3. fetched => ~squash.val /\ (to # {} \/ ~F_reg.val)
  BY FetchedIs
<1>. QED  BY <1>1, <1>2, <1>3

\* Where fetch goes on when an instruction is issued: where the program does,
\* unless the instruction is a branch that has yet to redirect it.
LEMMA AfterIssue ==
  ASSUME BInv, InOrder, OnPath, Ahead, to # {},
         ~Taken(prog[Entry.pc].uop, Entry.op1, Entry.op2)
  PROVE  (IF squash.val THEN squash.target ELSE FU!Wanted)
           = Following(prog[Entry.pc], Entry.pc, Entry.op1, Entry.op2)
<1> DEFINE i == F_reg.inst
           v == DIU!rdata(i.rs1, complete)
<1>1. /\ F_reg.val /\ ~killed /\ ~branch.val
      /\ ~DIU!stall_pending(complete)
  <2>1. PICK pipe \in to : F_reg.val /\ ~DIU!stall_pending(complete) /\ ~killed
    BY IssueShape, Zenon
  <2>. QED  BY <2>1, KilledIs, Parts
<1>2. /\ Entry.pc = F_reg.pc /\ prog[Entry.pc] = i /\ i \in Instruction
      /\ Entry.op1 = v /\ Holding(Entry.op1, i.rs1, Coming)
  BY EntryIsNext, Zenon
<1>3. i.rs1 \in Areg
  BY <1>2 DEF Instruction
<1>4. /\ asked.val <=> IsJump(i) /\ ~jump_sent
      /\ asked.val => asked.target = JumpTarget(i, F_reg.pc, v)
  BY <1>1, AskedIs
<1>5. /\ asked.val => squash.val /\ squash.target = asked.target
      /\ ~asked.val => ~squash.val
  BY <1>1, SquashShape, Parts
<1> HIDE DEF i, v
<1>6. CASE IsJump(i) /\ ~jump_sent
  BY <1>2, <1>4, <1>5, <1>6 DEF Following
<1>7. CASE IsJump(i) /\ jump_sent
  <2>1. PICK w \in Val : Holding(w, i.rs1, Coming) /\ FU!Wanted = JumpTarget(i, F_reg.pc, w)
    BY <1>1, <1>7, Zenon DEF Ahead, i
  <2>2. w = Entry.op1
    BY <1>2, <1>3, <2>1, HoldingIsUnique
  <2>. QED  BY <1>2, <1>4, <1>5, <1>7, <2>1, <2>2 DEF Following
<1>8. CASE ~IsJump(i)
  <2>1. FU!Wanted = Wrap(F_reg.pc + 1)
    BY <1>1, <1>8, Zenon DEF Ahead, i
  <2>. QED  BY <1>2, <1>4, <1>5, <1>8, <2>1 DEF Following
<1>. QED  BY <1>6, <1>7, <1>8

\* Decode gets the next instruction of the program after every cycle.
LEMMA OnPathStep ==
  ASSUME BInv, InOrder, OnPath, Ahead,
         NEW resp_val \in BOOLEAN, NEW finish \in BOOLEAN, AtEdge(resp_val, finish)
  PROVE  OnPath'
<1> SUFFICES ASSUME ~CTRL_XU!squash'.val
             PROVE  IF F_reg'.val THEN F_reg'.pc = PcOf(Coming)' ELSE FU!Wanted' = PcOf(Coming)'
  BY Zenon DEF OnPath, PcOf, Following
<1> DEFINE w == IF squash.val THEN squash.target ELSE FU!Wanted
<1>1. DecodeEdge /\ PipesEdge(finish) /\ BackEdge
  BY DEF AtEdge
<1>2. /\ fetched => F_reg'.val /\ F_reg'.pc = w
      /\ ~fetched => FU!Wanted' = w
  BY <1>1, DecodeNext, WantedNext
<1> HIDE DEF w
<1>3. /\ to = {} => PcOf(Coming)' = PcOf(Coming)
      /\ to # {} => PcOf(Coming)' = Following(prog[Entry.pc], Entry.pc, Entry.op1, Entry.op2)
  BY <1>1, ComingOn
<1>4. CASE branch.val
  <2>1. squash = branch /\ squash.val
    BY <1>4, SquashShape, Parts
  <2>2. w = PcOf(Coming)
    BY <1>4, <2>1, BranchTarget DEF w
  <2>3. (killed <=> F_reg.val) /\ to = {} /\ ~fetched
    BY <1>4, <2>1, KilledIs, FetchedIs, Parts
  <2>4. ~F_reg'.val
    BY <1>1, <2>3, DecodeNext
  <2>. QED  BY <1>2, <1>3, <2>2, <2>3, <2>4
<1>5. CASE ~branch.val /\ to = {}
  <2>1. ~killed /\ (IF F_reg.val THEN F_reg.pc = PcOf(Coming) ELSE FU!Wanted = PcOf(Coming))
    BY <1>5, KilledIs, Parts, Zenon DEF OnPath, branch
  <2>2. CASE F_reg.val
    <3>1. F_reg' = F_reg
      BY <1>1, <1>5, <2>1, <2>2, DecodeNext
    <3>. QED  BY <1>3, <1>5, <2>1, <2>2, <3>1
  <2>3. CASE ~F_reg.val
    <3>1. ~squash.val
      BY <1>5, <2>3, SquashShape, Parts
    <3>2. w = PcOf(Coming)
      BY <2>1, <2>3, <3>1 DEF w
    <3>3. ~fetched => ~F_reg'.val
      BY <1>1, <1>5, <2>1, <2>3, DecodeNext
    <3>. QED  BY <1>2, <1>3, <1>5, <3>2, <3>3
  <2>. QED  BY <2>2, <2>3
<1>6. CASE to # {}
  <2>1. ~Taken(prog[Entry.pc].uop, Entry.op1, Entry.op2)
    BY <1>1, <1>6, BranchNext
  <2>2. w = PcOf(Coming)'
    BY <1>3, <1>6, <2>1, AfterIssue DEF w
  <2>3. ~fetched => ~F_reg'.val
    BY <1>1, <1>6, DecodeNext
  <2>. QED  BY <1>2, <2>2, <2>3
<1>. QED  BY <1>4, <1>5, <1>6

\* Fetch is ahead of decode after every cycle.
LEMMA AheadStep ==
  ASSUME BInv, InOrder, OnPath, Ahead,
         NEW resp_val \in BOOLEAN, NEW finish \in BOOLEAN, AtEdge(resp_val, finish)
  PROVE  Ahead'
<1>1. DecodeEdge /\ PipesEdge(finish) /\ BackEdge
  BY DEF AtEdge
<1>2. CASE fetched
  <2>1. /\ F_reg'.pc = Head(resp_fifo) /\ ~jump_sent'
    BY <1>1, <1>2, DecodeNext
  <2>2. FU!Wanted' = Wrap(F_reg'.pc + 1)
    BY <1>2, <2>1, WantedNext
  <2>. QED  BY <2>1, <2>2, Zenon DEF Ahead, Wrap
<1>3. CASE ~fetched /\ (to # {} \/ killed)
  <2>1. ~F_reg'.val
    BY <1>1, <1>3, DecodeNext
  <2>. QED  BY <2>1, Zenon DEF Ahead
<1>4. CASE ~fetched /\ to = {} /\ ~killed
  <2>1. F_reg' = F_reg /\ (jump_sent' <=> jump_sent \/ asked.val)
    BY <1>1, <1>4, DecodeNext
  <2> SUFFICES ASSUME F_reg.val
               PROVE  Ahead'
    BY <2>1, Zenon DEF Ahead
  <2>2. ~branch.val
    BY <1>4, KilledIs, Parts
  <2>3. PICK i : i = F_reg.inst /\ i = F_reg'.inst
    BY <2>1
  <2>4. PICK pc : pc = F_reg.pc /\ pc = F_reg'.pc
    BY <2>1
  <2>5. i.rs1 \in Areg
    BY <2>3, InFlightIs, Parts DEF Instruction
  <2>6. ASSUME NEW v \in Val, Holding(v, i.rs1, Coming)
        PROVE  Holding(v, i.rs1, Coming)'
    <3>1. /\ Len(issued) \in Nat /\ Leaving \in {0, 1} /\ Leaving <= Len(issued)
          /\ Len(issued') = Len(issued) - Leaving
      BY <1>1, <1>4, RetiringIs, LeftIs, IssuedNext DEF Joining
    <3>2. PICK j : j = Coming'
      OBVIOUS
    <3>3. j \in 1 .. Coming - Leaving /\ j + Leaving = Coming
      BY <3>1, <3>2 DEF Coming
    <3>4. Holding(v, i.rs1, j + Leaving)
      BY <2>6, <3>3
    <3>5. Holding(v, i.rs1, j)'
      BY <1>1, <2>5, <3>3, <3>4, HoldingOn
    <3>. QED  BY <3>2, <3>5, Zenon DEF Holding
  <2>7. ASSUME NEW v \in Val, IsJump(i), jump_sent', Holding(v, i.rs1, Coming),
               FU!Wanted' = JumpTarget(i, pc, v)
        PROVE  Ahead'
    <3>1. Holding(v, i.rs1, Coming)'
      BY <2>6, <2>7
    <3>2. Holding(v, F_reg.inst.rs1, Coming)'
      BY <2>3, <3>1 DEF Holding
    <3>3. FU!Wanted' = JumpTarget(F_reg'.inst, F_reg'.pc, v) /\ IsJump(F_reg'.inst)
      BY <2>3, <2>4, <2>7
    <3>. QED  BY <2>7, <3>2, <3>3, Zenon DEF Ahead, IsJump, JumpTarget, Val, Addr, Wrap
  <2>8. CASE asked.val
    <3> DEFINE v == DIU!rdata(i.rs1, complete)
    <3>1. /\ IsJump(i) /\ ~DIU!stall_pending(complete)
          /\ asked.target = JumpTarget(i, pc, v)
      BY <2>3, <2>4, <2>8, AskedIs
    <3>2. FU!Wanted' = JumpTarget(i, pc, v)
      BY <2>2, <2>8, <3>1, SquashShape, WantedNext, Parts
    <3>3. v \in Val
      BY <2>5, RdataType, Parts
    <3>4. ~DIU!RT!lookup_pending(i.rs1, complete)
      BY <2>3, <3>1, Zenon DEF DIU!stall_pending, DIU!inst
    <3>5. Holding(v, i.rs1, Coming)
      BY <2>5, <3>4, RdataHolds
    <3>6. PICK u : u = v
      OBVIOUS
    <3>. QED  BY <2>1, <2>7, <2>8, <3>1, <3>2, <3>3, <3>5, <3>6
  <2>9. CASE ~asked.val
    <3>1. ~squash.val
      BY <2>2, <2>9, SquashShape, Parts
    <3>2. FU!Wanted' = FU!Wanted /\ (jump_sent' <=> jump_sent)
      BY <1>4, <2>1, <2>9, <3>1, WantedNext
    <3>3. CASE IsJump(i) /\ jump_sent
      <4>1. PICK v \in Val : Holding(v, i.rs1, Coming) /\ FU!Wanted = JumpTarget(i, pc, v)
        BY <2>3, <2>4, <3>3, Zenon DEF Ahead
      <4>. QED  BY <2>7, <3>2, <3>3, <4>1
    <3>4. CASE ~(IsJump(i) /\ jump_sent)
      <4>1. FU!Wanted = Wrap(pc + 1)
        BY <2>3, <2>4, <3>4, Zenon DEF Ahead
      <4>2. FU!Wanted' = Wrap(F_reg'.pc + 1) /\ ~(IsJump(F_reg'.inst) /\ jump_sent')
        BY <2>3, <2>4, <3>2, <3>4, <4>1
      <4>. QED  BY <4>2, Zenon DEF Ahead, IsJump, Wrap
    <3>. QED  BY <3>3, <3>4
  <2>. QED  BY <2>8, <2>9
<1>. QED  BY <1>2, <1>3, <1>4

-----------------------------------------------------------------------------
(* The processor implements the program.                                   *)

\* After reset the program is at its first instruction.
LEMMA IsaInit ==
  ASSUME Init
  PROVE  IsaInv /\ ISA!Init
<1>1. issued = << >> /\ F_reg = None /\ FU!Init
  BY InitShape
<1>2. /\ isa_pc = RstAddr /\ arch = [i \in RT!RenamedAreg |-> i] /\ trace = << >>
      /\ regs = [p \in DIU!RT!RenamedPreg |-> 0] /\ ctrl_reg = None
  BY NoneIs, Zenon DEF Init, DIU!Init, CTRL_XU!Init
<1>3. InOrder
  BY <1>1 DEF InOrder
<1>4. OnPath
  <2>1. FU!UnderWay = << >>
    BY <1>1 DEF FU!Init, FU!UnderWay
  <2>2. FU!Wanted = RstAddr
    BY <1>1, <2>1 DEF FU!Init, FU!Wanted
  <2>3. PcOf(Coming) = RstAddr
    BY <1>1, <1>2 DEF PcOf, Coming
  <2>. QED  BY <1>1, <2>2, <2>3, NoneIs DEF OnPath
<1>5. Ahead
  BY <1>1, NoneIs DEF Ahead
<1>6. \A a \in Areg \ {0} : a \in 1 .. NumAregs - 1 /\ a \in 1 .. NumPregs - 1
  BY NumAregsAssumption, NumPregsAssumption DEF Areg
<1>7. \A a \in Areg \ {0} : regs[arch[a]] = 0
  <2>1. RT!RenamedAreg = 1 .. NumAregs - 1
    BY DEF RT!RenamedAreg
  <2>2. DIU!RT!RenamedPreg = 1 .. NumPregs - 1
    BY SameTable, Zenon
  <2>. QED  BY <1>2, <1>6, <2>1, <2>2
<1>8. ISA!Init
  <2>1. ISA!Areg = Areg
    BY DEF ISA!Areg, Areg
  <2>2. [a \in Areg \ {0} |-> regs[arch[a]]] = [a \in Areg \ {0} |-> 0]
    BY <1>7
  <2>. QED  BY <1>2, <2>1, <2>2, Zenon DEF ISA!Init
<1>. QED  BY <1>3, <1>4, <1>5, <1>8 DEF IsaInv

\* Nothing moves in a stuttering step.
LEMMA IsaStutter ==
  ASSUME UNCHANGED vars
  PROVE  (IsaInv => IsaInv') /\ UNCHANGED ISA!vars
<1> USE DEF vars
<1>1. FU!Wanted' = FU!Wanted
  BY DEF FU!Wanted, FU!UnderWay
<1>2. CTRL_XU!squash'.val <=> CTRL_XU!squash.val
  <2>1. CTRL_XU!should_branch' <=> CTRL_XU!should_branch
    BY Zenon DEF CTRL_XU!should_branch, CTRL_XU!Taken
  <2>. QED  BY <2>1 DEF CTRL_XU!squash
<1>3. \A k : PcOf(k)' = PcOf(k) /\ ResultOf(k)' = ResultOf(k)
  BY Zenon DEF PcOf, Following, ResultOf
<1>4. \A v, a, k : Holding(v, a, k) => Holding(v, a, k)'
  BY Zenon DEF Holding, Writer, ResultOf
<1>5. InOrder => InOrder'
  <2>1. ASSUME NEW k \in 1 .. Len(issued), IsNext(k), Written(k)
        PROVE  IsNext(k)' /\ Written(k)'
    <3>1. PICK i : i = prog[issued[k].pc]
      OBVIOUS
    <3>2. PICK x : x = issued[k].op1
      OBVIOUS
    <3>3. PICK y : y = issued[k].op2
      OBVIOUS
    <3>4. /\ issued[k].pc = PcOf(k) /\ Decodes(i)
          /\ issued[k].areg = IF Wen(i) THEN i.rd ELSE 0
          /\ Holding(x, i.rs1, k)
          /\ IF i.op2_sel THEN y = i.imm ELSE Holding(y, i.rs2, k)
      BY <2>1, <3>1, <3>2, <3>3, Zenon DEF IsNext
    <3>5. /\ i = prog'[issued'[k].pc] /\ x = issued'[k].op1 /\ y = issued'[k].op2
          /\ issued'[k].pc = PcOf(k)' /\ issued'[k].areg = IF Wen(i) THEN i.rd ELSE 0
      BY <1>3, <3>1, <3>2, <3>3, <3>4
    <3>6. Holding(x, i.rs1, k)' /\ (IF i.op2_sel THEN y = i.imm ELSE Holding(y, i.rs2, k)')
      BY <1>4, <3>4
    <3>7. IsNext(k)'
      BY <3>4, <3>5, <3>6, IsNextOn
    <3>8. Written(k)'
      BY <1>3, <2>1, Zenon DEF Written, ResultOf
    <3>. QED  BY <3>7, <3>8
  <2>. QED  BY <2>1, Zenon DEF InOrder, IsNext, Written, PcOf, Holding, Following, Writer, ResultOf
<1>6. OnPath => OnPath'
  <2>1. PcOf(Coming)' = PcOf(Coming)
    BY Zenon DEF PcOf, Following, Coming
  <2>. QED  BY <1>1, <1>2, <2>1, Zenon DEF OnPath
<1>7. Ahead => Ahead'
  <2> SUFFICES ASSUME Ahead, F_reg.val PROVE Ahead'
    BY Zenon DEF Ahead
  <2>1. CASE IsJump(F_reg.inst) /\ jump_sent
    <3>1. PICK v \in Val : /\ Holding(v, F_reg.inst.rs1, Coming)
                           /\ FU!Wanted = JumpTarget(F_reg.inst, F_reg.pc, v)
      BY <2>1, Zenon DEF Ahead
    <3>2. Holding(v, F_reg.inst.rs1, Coming)'
      BY <3>1, Zenon DEF Holding, Writer, ResultOf, Coming
    <3>3. /\ FU!Wanted' = JumpTarget(F_reg'.inst, F_reg'.pc, v)
          /\ IsJump(F_reg'.inst) /\ jump_sent'
      BY <1>1, <2>1, <3>1
    <3>. QED  BY <3>2, <3>3, Zenon DEF Ahead, IsJump, JumpTarget, Val, Addr, Wrap
  <2>2. CASE ~(IsJump(F_reg.inst) /\ jump_sent)
    <3>1. FU!Wanted = Wrap(F_reg.pc + 1)
      BY <2>2, Zenon DEF Ahead
    <3>2. FU!Wanted' = Wrap(F_reg'.pc + 1) /\ ~(IsJump(F_reg'.inst) /\ jump_sent')
      BY <1>1, <2>2, <3>1
    <3>. QED  BY <3>2, Zenon DEF Ahead, IsJump, Wrap
  <2>. QED  BY <2>1, <2>2
<1>8. UNCHANGED ISA!vars
  BY DEF ISA!vars
<1>. QED  BY <1>5, <1>6, <1>7, <1>8, Zenon DEF IsaInv

\* Every cycle keeps the path, and is a step of the program or none.
LEMMA IsaCycle ==
  ASSUME BInv, IsaInv, Next
  PROVE  IsaInv' /\ ISA!Next
<1>1. PICK resp_val \in BOOLEAN, finish \in BOOLEAN : Cycle(resp_val, finish)
  BY DEF Next
<1>2. AtEdge(resp_val, finish)
  BY <1>1, CycleParts
<1>3. DecodeEdge /\ BackEdge
  BY <1>2 DEF AtEdge
<1>4. InOrder /\ OnPath /\ Ahead
  BY DEF IsaInv
<1>5. InOrder' /\ OnPath' /\ Ahead'
  BY <1>2, <1>3, <1>4, InOrderStep, OnPathStep, AheadStep
<1>6. ISA!Next
  BY <1>3, <1>4, IsaStep
<1>. QED  BY <1>5, <1>6, Zenon DEF IsaInv

\* What is in flight is the path of the program.
LEMMA IsaInvariant == Spec /\ [][HeadStaysBehindTail]_vars => []IsaInv
<1>1. Init => IsaInv
  BY IsaInit
<1>2. BInv /\ IsaInv /\ [Next]_vars => IsaInv'
  BY IsaCycle, IsaStutter
<1>. QED  BY <1>1, <1>2, Invariant, PTL DEF Spec

\* The processor executes the program one instruction after the other: what the
\* instruction trace shows and what the committed registers hold is what module
\* Isa says, for every program, every latency of the memory and every size of
\* the processor, as long as the head of SeqNumGen stays behind its tail.
THEOREM ProgramIsExecuted ==
  Spec /\ [][HeadStaysBehindTail]_vars => ImplementsIsa
<1>1. Init => ISA!Init
  BY IsaInit
<1>2. BInv /\ IsaInv /\ [Next]_vars => [ISA!Next]_(ISA!vars)
  BY IsaCycle, IsaStutter
<1>. QED  BY <1>1, <1>2, Invariant, IsaInvariant, PTL DEF Spec, ImplementsIsa, ISA!Spec
===============================================================================
