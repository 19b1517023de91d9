------------------------ MODULE LoadStoreUnit_proofs ------------------------
(***************************************************************************)
(* The load-store unit returns what the functional model loads, in order,  *)
(* for every depth of its queue that holds the memory's requests, every    *)
(* set of operations and bytes of any width.                               *)
(*                                                                         *)
(* The invariant IInv pairs the instructions that wait in stage 2, the     *)
(* oldest first, with the answers under way: the answer is what the        *)
(* instruction makes of it its result.  The instruction in stage 1 is the  *)
(* one that the functional model has carried out and the memory has not.   *)
(***************************************************************************)
EXTENDS LoadStoreUnit, SequenceTheorems, TLAPS

\* stage2_fifo, whose entries hold an instruction or nothing.
fifo == INSTANCE Fifo WITH
  Depth <- NumInFlight, Msg <- Entry \cup {None}, put <- << >>, got <- << >>

Slots == Entry \cup {None}

-----------------------------------------------------------------------------
(* The queue in front of stage 2: its pointers stay at most NumInFlight    *)
(* apart, so a push appends to what they enclose and a pop removes the     *)
(* head.  These are the facts that MCUnits_proofs shows of Fifo at large;  *)
(* a module has to show them of its own pointers.                          *)

QueueInv == fifo!TypeOK /\ fifo!NoOverrun

\* A transfer that stays within the queue.
Allowed(push, pop) ==
  /\ push \in BOOLEAN
  /\ pop \in BOOLEAN
  /\ pop => ~fifo!empty
  /\ push => ~fifo!full \/ pop

USE DEF fifo!Ptr, fifo!Slot, Slots

\* What the proofs use of the assumption on the queue's depth.
LEMMA QueueSize == NumInFlight \in Nat \ {0}
  BY NumInFlightAssumption

\* The distance of two pointers is a number, and the addresses of the entries
\* between them are in the array.
LEMMA Addresses ==
  ASSUME fifo!TypeOK
  PROVE  /\ fifo!Count \in 0 .. 2 * NumInFlight - 1
         /\ \A k \in 0 .. NumInFlight : fifo!Back(rptr, k) \in fifo!Ptr
         /\ \A p \in fifo!Ptr : fifo!Addr(p) \in fifo!Slot
  BY QueueSize DEF fifo!TypeOK, fifo!Count, fifo!Back, fifo!Addr

\* The contents are a sequence of entries, as long as the pointers are apart.
ContentsOK ==
  /\ fifo!Contents \in Seq(Slots)
  /\ Len(fifo!Contents) = fifo!Count
  /\ \A k \in 1 .. fifo!Count : fifo!Contents[k] = arr[fifo!Addr(fifo!Back(rptr, k - 1))]

\* The queue that the pointers delimit is a sequence of Count messages, read
\* from the array from rptr on.
LEMMA ContentsType == QueueInv => ContentsOK
<1> SUFFICES ASSUME QueueInv PROVE ContentsOK
  OBVIOUS
<1>1. fifo!Count \in 0 .. NumInFlight
  BY Addresses, QueueSize DEF QueueInv, fifo!NoOverrun
<1>2. ASSUME NEW k \in 1 .. fifo!Count PROVE arr[fifo!Addr(fifo!Back(rptr, k - 1))] \in Slots
  <2>1. fifo!Back(rptr, k - 1) \in fifo!Ptr
    BY <1>1, Addresses, QueueSize DEF QueueInv
  <2>2. fifo!Addr(fifo!Back(rptr, k - 1)) \in fifo!Slot
    BY <2>1, Addresses DEF QueueInv
  <2>. QED  BY <2>2 DEF QueueInv, fifo!TypeOK
<1>3. fifo!Contents \in [1 .. fifo!Count -> Slots]
  BY <1>2 DEF fifo!Contents
<1>. QED  BY <1>1, <1>3 DEF fifo!Contents, ContentsOK

\* full and empty tell the number of entries.
LEMMA FullEmpty ==
  ASSUME QueueInv
  PROVE  /\ fifo!empty <=> fifo!Count = 0
         /\ fifo!full <=> fifo!Count = NumInFlight
  BY QueueSize DEF QueueInv, fifo!TypeOK, fifo!NoOverrun, fifo!Count, fifo!empty,
                   fifo!full, fifo!Addr, fifo!Top

\* A transfer changes the number of entries as it should.
LEMMA CountStep ==
  ASSUME QueueInv, NEW push, NEW pop, NEW wdata \in Slots,
         Allowed(push, pop), fifo!FifoEdge(push, pop, wdata)
  PROVE  /\ fifo!Count' = fifo!Count + (IF push THEN 1 ELSE 0) - (IF pop THEN 1 ELSE 0)
         /\ fifo!Count' \in 0 .. NumInFlight
         /\ fifo!Count \in 0 .. NumInFlight
         /\ push => fifo!Count < NumInFlight \/ pop
         /\ pop => fifo!Count > 0
         /\ QueueInv'
<1>1. fifo!Count \in 0 .. NumInFlight
  BY Addresses, QueueSize DEF QueueInv, fifo!NoOverrun
<1>2. /\ push => fifo!Count < NumInFlight \/ pop
      /\ pop => fifo!Count > 0
  <2>1. /\ push => fifo!Count # NumInFlight \/ pop
        /\ pop => fifo!Count # 0
    BY FullEmpty, Zenon DEF Allowed
  <2>. QED  BY <1>1, <2>1, QueueSize
<1>3. /\ wptr' \in fifo!Ptr
      /\ rptr' \in fifo!Ptr
      /\ wptr' = IF push THEN fifo!Step(wptr) ELSE wptr
      /\ rptr' = IF pop THEN fifo!Step(rptr) ELSE rptr
  BY QueueSize DEF fifo!FifoEdge, fifo!Step, QueueInv, fifo!TypeOK
<1>4. fifo!Count' = fifo!Count + (IF push THEN 1 ELSE 0) - (IF pop THEN 1 ELSE 0)
  BY <1>1, <1>2, <1>3, QueueSize
     DEF fifo!Count, fifo!Step, QueueInv, fifo!TypeOK, Allowed
<1>5. arr' \in [fifo!Slot -> Slots]
  BY Addresses DEF fifo!FifoEdge, fifo!NextArr, QueueInv, fifo!TypeOK
<1>6. fifo!Count' \in 0 .. NumInFlight
  BY <1>1, <1>2, <1>4, QueueSize DEF Allowed
<1>. QED  BY <1>1, <1>2, <1>3, <1>4, <1>5, <1>6
             DEF QueueInv, fifo!TypeOK, fifo!NoOverrun

\* The entries after a transfer: those that were there, then the new one, and
\* without the first if there was a pop.
LEMMA EntryStep ==
  ASSUME QueueInv, NEW push, NEW pop, NEW wdata \in Slots,
         Allowed(push, pop), fifo!FifoEdge(push, pop, wdata),
         NEW k \in 1 .. fifo!Count'
  PROVE  fifo!Contents'[k] =
           LET j == IF pop THEN k + 1 ELSE k
           IN  IF j <= fifo!Count THEN fifo!Contents[j] ELSE wdata
<1> DEFINE j == IF pop THEN k + 1 ELSE k
<1>1. /\ fifo!Count' = fifo!Count + (IF push THEN 1 ELSE 0) - (IF pop THEN 1 ELSE 0)
      /\ fifo!Count' \in 0 .. NumInFlight
      /\ fifo!Count \in 0 .. NumInFlight
      /\ push => fifo!Count < NumInFlight \/ pop
      /\ pop => fifo!Count > 0
      /\ QueueInv'
  BY CountStep
<1>2. fifo!Contents'[k] = arr'[fifo!Addr(fifo!Back(rptr', k - 1))]
  BY DEF fifo!Contents, fifo!Addr, fifo!Back
<1>3. fifo!Back(rptr', k - 1) = fifo!Back(rptr, j - 1)
  BY <1>1, QueueSize DEF fifo!Back, fifo!FifoEdge, fifo!Step, QueueInv, fifo!TypeOK, Allowed
<1>4. CASE j <= fifo!Count
  <2>1. fifo!Contents[j] = arr[fifo!Addr(fifo!Back(rptr, j - 1))]
    BY <1>1, <1>4, ContentsType DEF Allowed, ContentsOK
  <2>2. push => fifo!Addr(wptr) # fifo!Addr(fifo!Back(rptr, j - 1))
    <3>1. push => j - 1 < fifo!Count /\ (fifo!Count < NumInFlight \/ (pop /\ j > 1))
      BY <1>1, <1>4 DEF Allowed
    <3>. QED  BY <3>1, <1>1, <1>4, QueueSize
                 DEF fifo!Addr, fifo!Back, fifo!Count, QueueInv, fifo!TypeOK, Allowed
  <2>3. fifo!Addr(fifo!Back(rptr, j - 1)) \in fifo!Slot
    <3>1. j - 1 \in 0 .. NumInFlight
      BY <1>1, <1>4, QueueSize DEF Allowed
    <3>2. fifo!Back(rptr, j - 1) \in fifo!Ptr
      BY <3>1, Addresses DEF QueueInv
    <3>. QED  BY <3>2, Addresses DEF QueueInv
  <2>4. arr'[fifo!Addr(fifo!Back(rptr, j - 1))] = arr[fifo!Addr(fifo!Back(rptr, j - 1))]
    BY <2>2, <2>3 DEF fifo!FifoEdge, fifo!NextArr, QueueInv, fifo!TypeOK
  <2>. QED  BY <1>2, <1>3, <1>4, <2>1, <2>4
<1>5. CASE ~(j <= fifo!Count)
  <2>1. push /\ j = fifo!Count + 1
    BY <1>1, <1>5 DEF Allowed
  <2>2. fifo!Back(rptr, j - 1) = wptr
    BY <1>1, <2>1, QueueSize DEF fifo!Back, fifo!Count, QueueInv, fifo!TypeOK
  <2>3. arr'[fifo!Addr(wptr)] = wdata
    BY <2>1, Addresses DEF fifo!FifoEdge, fifo!NextArr, QueueInv, fifo!TypeOK
  <2>. QED  BY <1>2, <1>3, <1>5, <2>2, <2>3
<1>. QED  BY <1>4, <1>5

\* Initially the queue is empty.
LEMMA InitQueue == fifo!FifoInit => QueueInv /\ fifo!Contents = << >>
<1> SUFFICES ASSUME fifo!FifoInit PROVE QueueInv /\ fifo!Contents = << >>
  OBVIOUS
<1>1. QueueInv /\ fifo!Count = 0
  BY QueueSize DEF fifo!FifoInit, QueueInv, fifo!TypeOK, fifo!NoOverrun, fifo!Count
<1>. QED  BY <1>1 DEF fifo!Contents

HIDE DEF fifo!Ptr, fifo!Slot

-----------------------------------------------------------------------------
(* The invariant.                                                          *)

\* What an instruction in stage 1 is kept as, and what is kept of it later.
Kept(op) == [val |-> TRUE, uop |-> op.uop, addr |-> op.addr,
             offset |-> op.offset, data |-> op.data]

Kept2(r) == [val |-> r.val, uop |-> r.uop, offset |-> r.offset]

Result == [wen : BOOLEAN, wdata : Word]

\* The instructions that wait for their answers, the oldest first.
Waiting(k) ==
  LET j == k - Count(stage2_reg)
  IN  IF j = 0 THEN stage2_reg ELSE fifo!Contents[j]

\* The result of a waiting instruction, from its answer.
ResultOf(e, data) ==
  IF Store(e.uop) THEN [wen |-> FALSE, wdata |-> Zero]
  ELSE [wen |-> TRUE, wdata |-> Extend(From(data, e.offset), e.uop)]

TypeOK ==
  /\ D_reg = None \/ \E op \in Ops : D_reg = Kept(op)
  /\ stage2_reg \in {None} \cup Entry
  /\ QueueInv
  /\ \A k \in 1 .. fifo!Count : fifo!Contents[k] \in Entry
  /\ mem \in [Addrs -> Word]
  /\ arch_mem \in [Addrs -> Word]
  /\ resps \in Seq(Word)
  /\ expected \in Seq(Result)

\* Every waiting instruction has its answer, and every instruction issued an
\* expected result.
Lengths ==
  /\ fifo!Count + Count(stage2_reg) = Len(resps)
  /\ Len(expected) = Len(resps) + Count(D_reg)

\* The answers are those of the waiting instructions.
AnswersAreRight ==
  \A k \in 1 .. Len(resps) : expected[k] = ResultOf(Waiting(k), resps[k])

\* The memory is where the functional model was before the instruction in
\* stage 1.
MemoryLags ==
  /\ ~D_reg.val => arch_mem = mem
  /\ D_reg.val => /\ arch_mem = Stored(mem, D_reg)
                  /\ expected[Len(expected)] = Meaning(mem, D_reg)

IInv == TypeOK /\ Lengths /\ AnswersAreRight /\ MemoryLags

-----------------------------------------------------------------------------
(* Words and memories.                                                     *)

\* What is loaded from a word is a word.
LEMMA LoadType ==
  ASSUME NEW w \in Word, NEW k \in Lane, NEW uop \in Uops
  PROVE  Extend(From(w, k), uop) \in Word
<1>1. 0 \in Byte /\ NByte - 1 \in Byte
  BY NByteAssumption DEF Byte
<1>2. \A l \in Lane : l + k \in Lane => w[l + k] \in Byte
  BY DEF Word
<1>3. From(w, k) \in Word
  BY <1>1, <1>2 DEF From, Word
<1> DEFINE v == From(w, k)
           fill == IF Signed(uop) /\ v[Size(uop) - 1] >= NByte \div 2 THEN NByte - 1 ELSE 0
<1> HIDE DEF v
<1>4. fill \in Byte
  BY <1>1
<1>5. [l \in Lane |-> IF l < Size(uop) THEN v[l] ELSE fill] \in Word
  <2> HIDE DEF fill
  <2>. QED  BY <1>3, <1>4 DEF Word, v
<1>. QED  BY <1>5, Zenon DEF Extend, v

\* What an operation of decode is.
LEMMA OpType ==
  ASSUME NEW op \in Ops
  PROVE  op.uop \in Uops /\ op.offset \in Lane /\ op.data \in Word /\ op.addr \in Addrs
BY OpsAssumption DEF Addrs

\* An operation is kept with what its result and its store depend on.
LEMMA KeptMeans ==
  ASSUME NEW op \in Ops, NEW m
  PROVE  /\ Meaning(m, Kept(op)) = Meaning(m, op)
         /\ Stored(m, Kept(op)) = Stored(m, op)
         /\ req_msg(Kept(op)) = req_msg(op)
<1>1. /\ Kept(op).uop = op.uop /\ Kept(op).addr = op.addr
      /\ Kept(op).offset = op.offset /\ Kept(op).data = op.data
  BY DEF Kept
<1>. QED  BY <1>1, Zenon DEF Meaning, Stored, req_msg

\* The functional model's results are results, and its memory stays a memory.
LEMMA MeaningType ==
  ASSUME NEW op \in Ops, NEW m \in [Addrs -> Word]
  PROVE  Meaning(m, op) \in Result /\ Stored(m, op) \in [Addrs -> Word]
<1>1. op.uop \in Uops /\ op.offset \in Lane /\ op.data \in Word /\ op.addr \in Addrs
  BY OpType
<1>2. Zero \in Word
  BY NByteAssumption DEF Zero, Word, Byte
<1>3. Extend(From(m[op.addr], op.offset), op.uop) \in Word
  BY <1>1, LoadType
<1>4. Meaning(m, op) \in Result
  BY <1>2, <1>3 DEF Meaning, Result
<1>5. Stored(m, op) \in [Addrs -> Word]
  <2> DEFINE new == [l \in Lane |-> IF l \in op.offset .. op.offset + Size(op.uop) - 1
                                    THEN op.data[l - op.offset] ELSE m[op.addr][l]]
  <2>1. ASSUME NEW l \in Lane, l \in op.offset .. op.offset + Size(op.uop) - 1
        PROVE  op.data[l - op.offset] \in Byte
    <3>1. l - op.offset \in Lane
      BY <1>1, <2>1 DEF Lane, Size
    <3>. QED  BY <1>1, <3>1 DEF Word
  <2>2. \A l \in Lane : m[op.addr][l] \in Byte
    BY <1>1 DEF Word
  <2>3. new \in Word
    BY <2>1, <2>2 DEF Word
  <2>4. Stored(m, op) = IF ~Store(op.uop) THEN m ELSE [m EXCEPT ![op.addr] = new]
    BY DEF Stored
  <2> HIDE DEF new
  <2>. QED  BY <1>1, <2>3, <2>4
<1>. QED  BY <1>4, <1>5

\* The strobes and the shifted data of a request write what a store stores.
LEMMA WriteIsStored ==
  ASSUME NEW op \in Ops, NEW m
  PROVE  LET q == req_msg(op)
         IN  Stored(m, op) = IF ~q.write THEN m
                             ELSE [m EXCEPT ![q.addr] =
                                     [l \in Lane |-> IF l \in q.strb THEN q.data[l] ELSE @[l]]]
<1> DEFINE q == req_msg(op)
<1>1. /\ q.write = Store(op.uop) /\ q.addr = op.addr
      /\ q.strb = {l \in Lane : l \in op.offset .. op.offset + Size(op.uop) - 1}
      /\ q.data = [l \in Lane |-> IF l - op.offset \in Lane THEN op.data[l - op.offset] ELSE 0]
  BY DEF req_msg
<1> HIDE DEF q
<1>2. op.uop \in Uops /\ op.offset \in Lane
  BY OpType
<1>3. ASSUME NEW l \in Lane
      PROVE  (IF l \in q.strb THEN q.data[l] ELSE m[op.addr][l]) =
             (IF l \in op.offset .. op.offset + Size(op.uop) - 1
              THEN op.data[l - op.offset] ELSE m[op.addr][l])
  <2>1. l \in q.strb => l - op.offset \in Lane
    BY <1>1, <1>2 DEF Lane, Size
  <2>. QED  BY <1>1, <2>1
<1>4. [l \in Lane |-> IF l \in q.strb THEN q.data[l] ELSE m[op.addr][l]] =
      [l \in Lane |-> IF l \in op.offset .. op.offset + Size(op.uop) - 1
                      THEN op.data[l - op.offset] ELSE m[op.addr][l]]
  BY <1>3
<1>. QED  BY <1>1, <1>4, Zenon DEF Stored, q

-----------------------------------------------------------------------------
(* One cycle of each part.                                                 *)

\* u is s without its first element if there is a drop, and with what is in t
\* at its end.
Shifted(s, u, drop, t) ==
  /\ Len(u) = Len(s) - (IF drop THEN 1 ELSE 0) + Len(t)
  /\ \A k \in 1 .. Len(u) :
       u[k] = LET j == IF drop THEN k + 1 ELSE k
              IN  IF j <= Len(s) THEN s[j] ELSE t[1]

\* As a queue: what was in s, then t, is what was dropped, then u.
Dropped(s, drop) == IF drop THEN <<Head(s)>> ELSE << >>

Passes(s, u, drop, t) == s \o t = Dropped(s, drop) \o u

\* Dropping and adding at the two ends of a sequence.
LEMMA Shift ==
  ASSUME NEW S, NEW s \in Seq(S), NEW drop \in BOOLEAN, drop => s # << >>,
         NEW t \in Seq(S), Len(t) <= 1
  PROVE  LET u == (IF drop THEN Tail(s) ELSE s) \o t
         IN  /\ u \in Seq(S)
             /\ Shifted(s, u, drop, t)
             /\ Passes(s, u, drop, t)
<1>1. /\ Len(s) \in Nat /\ Len(t) \in {0, 1}
      /\ drop => Len(s) > 0
  <2>1. Len(s) \in Nat /\ Len(t) \in Nat
    OBVIOUS
  <2>2. s # << >> => Len(s) # 0
    BY EmptySeq
  <2>3. \A i \in Nat : (i <= 1 => i \in {0, 1}) /\ (i # 0 => i > 0)
    OBVIOUS
  <2>. QED  BY <2>1, <2>2, <2>3, Zenon
<1> DEFINE left == IF drop THEN Tail(s) ELSE s
           d    == IF drop THEN 1 ELSE 0
           u    == left \o t
<1>2. /\ left \in Seq(S)
      /\ Len(left) = Len(s) - d
      /\ \A k \in 1 .. Len(left) : left[k] = s[k + d]
  <2>1. CASE drop
    BY <2>1, <1>1, HeadTailProperties
  <2>2. CASE ~drop
    <3>1. left = s /\ d = 0 /\ \A k \in 1 .. Len(s) : k + 0 = k
      BY <2>2, <1>1
    <3>. QED  BY <3>1, <1>1
  <2>. QED  BY <2>1, <2>2
<1>3. d = (IF drop THEN 1 ELSE 0) /\ d \in {0, 1}
  OBVIOUS
<1>4. s = Dropped(s, drop) \o left
  <2>1. CASE drop
    BY <2>1, HeadTailProperties DEF Dropped
  <2>2. CASE ~drop
    BY <2>2 DEF Dropped
  <2>. QED  BY <2>1, <2>2
<1> HIDE DEF left, d
<1>5. /\ u \in Seq(S)
      /\ Len(u) = Len(left) + Len(t)
      /\ \A k \in 1 .. Len(left) + Len(t) :
           u[k] = IF k <= Len(left) THEN left[k] ELSE t[k - Len(left)]
  BY <1>2, ConcatProperties
<1>6. ASSUME NEW k \in 1 .. Len(u)
      PROVE  u[k] = LET j == IF drop THEN k + 1 ELSE k
                    IN  IF j <= Len(s) THEN s[j] ELSE t[1]
  <2>1. CASE k <= Len(left)
    <3>1. k \in 1 .. Len(left) /\ k + d <= Len(s)
      BY <1>1, <1>2, <1>3, <2>1
    <3>2. u[k] = s[k + d]
      BY <1>1, <1>2, <1>3, <1>5, <2>1, <3>1
    <3>. QED  BY <1>3, <3>1, <3>2
  <2>2. CASE ~(k <= Len(left))
    <3>1. k - Len(left) = 1 /\ ~(k + d <= Len(s))
      BY <1>1, <1>2, <1>3, <1>5, <2>2
    <3>2. u[k] = t[1]
      BY <1>5, <2>2, <3>1
    <3>. QED  BY <1>3, <3>1, <3>2
  <2>. QED  BY <2>1, <2>2
<1>7. Shifted(s, u, drop, t)
  BY <1>2, <1>3, <1>5, <1>6 DEF Shifted
<1>8. Passes(s, u, drop, t)
  <2> DEFINE first == Dropped(s, drop)
  <2>1. first \in Seq(S)
    BY HeadTailProperties DEF Dropped
  <2> HIDE DEF first
  <2>2. (first \o left) \o t = first \o (left \o t)
    BY <2>1, <1>2, ConcatAssociative
  <2>. QED  BY <1>4, <2>2, Zenon DEF first, u, Passes
<1>. QED  BY <1>5, <1>7, <1>8 DEF left

\* The two names of the queue in front of stage 2.
LEMMA FifoNames ==
  /\ stage2_fifo!empty <=> fifo!empty
  /\ stage2_fifo!full <=> fifo!full
  /\ stage2_fifo!rdata = fifo!rdata
  /\ stage2_fifo!Count = fifo!Count
  /\ \A push, pop, w : stage2_fifo!FifoEdge(push, pop, w) <=> fifo!FifoEdge(push, pop, w)
BY DEF stage2_fifo!empty, fifo!empty, stage2_fifo!full, fifo!full, stage2_fifo!rdata,
       fifo!rdata, stage2_fifo!Count, fifo!Count, stage2_fifo!FifoEdge, fifo!FifoEdge,
       stage2_fifo!Step, fifo!Step, stage2_fifo!NextArr, fifo!NextArr,
       stage2_fifo!Addr, fifo!Addr, stage2_fifo!Top, fifo!Top

\* What is in the registers and in the queue.
LEMMA StateType ==
  ASSUME TypeOK
  PROVE  /\ D_reg.val \in BOOLEAN
         /\ stage2_reg.val \in BOOLEAN
         /\ stage2_reg.val => stage2_reg \in Entry
         /\ Count(D_reg) = IF D_reg.val THEN 1 ELSE 0
         /\ Count(stage2_reg) = IF stage2_reg.val THEN 1 ELSE 0
         /\ fifo!Count \in 0 .. NumInFlight
         /\ fifo!empty <=> fifo!Count = 0
         /\ fifo!full <=> fifo!Count = NumInFlight
         /\ Len(resps) \in Nat
         /\ Len(expected) \in Nat
<1>1. None.val = FALSE
  BY DEF None
<1>2. D_reg.val \in BOOLEAN
  <2>1. \A op \in Ops : Kept(op).val = TRUE
    BY DEF Kept
  <2>. QED  BY <1>1, <2>1, Zenon DEF TypeOK
<1>3. stage2_reg.val \in BOOLEAN /\ (stage2_reg.val => stage2_reg \in Entry)
  BY <1>1 DEF TypeOK, Entry
<1>4. fifo!Count \in 0 .. NumInFlight
  <2>1. fifo!Count \in Nat /\ fifo!Count <= NumInFlight
    BY NumInFlightAssumption, Addresses DEF TypeOK, QueueInv, fifo!NoOverrun
  <2>. QED  BY <2>1, NumInFlightAssumption
<1>5. (fifo!empty <=> fifo!Count = 0) /\ (fifo!full <=> fifo!Count = NumInFlight)
  BY NumInFlightAssumption, FullEmpty DEF TypeOK
<1>. QED  BY <1>2, <1>3, <1>4, <1>5 DEF TypeOK, Count

\* The inputs of a cycle, and what moves in it: an instruction into stage 2
\* (push), out of the queue (pop) and out of the unit (delivery).
InCycle(D, req_rdy, resp_val, W_rdy) ==
  /\ req_rdy \in BOOLEAN /\ resp_val \in BOOLEAN /\ W_rdy \in BOOLEAN
  /\ D \in Offers(req_rdy)
  /\ Cycle(D, req_rdy, resp_val, W_rdy)

delivery(resp_val, W_rdy) == W_val(resp_val) /\ W_rdy

\* The push, which looks at the memory only, finds room: the memory has a
\* request under way for every instruction in the queue, and takes no more
\* than the queue can hold.  So the request is sent in the same cycle.
LEMMA PushFindsRoom ==
  ASSUME IInv, NEW D, NEW req_rdy, NEW resp_val, NEW W_rdy,
         InCycle(D, req_rdy, resp_val, W_rdy), stage2_push(req_rdy)
  PROVE  stage2_rdy
<1>1. Len(resps) < MemDepth
  BY DEF InCycle, Cycle, stage2_push
<1>2. fifo!Count <= Len(resps) /\ fifo!Count \in Nat /\ Len(resps) \in Nat
  BY StateType DEF IInv, Lengths
<1>3. fifo!Count # NumInFlight
  BY <1>1, <1>2, NumInFlightAssumption
<1>. QED  BY <1>3, StateType, FifoNames DEF IInv, stage2_rdy

\* The moves of a cycle, as far as they depend on each other.
LEMMA Moves ==
  ASSUME IInv, NEW D, NEW req_rdy, NEW resp_val, NEW W_rdy,
         InCycle(D, req_rdy, resp_val, W_rdy)
  PROVE  LET push == stage2_push(req_rdy)
             pop  == stage2_pop(resp_val, W_rdy)
             done == delivery(resp_val, W_rdy)
         IN  /\ push \in BOOLEAN /\ pop \in BOOLEAN /\ done \in BOOLEAN
             /\ Allowed(push, pop)
             /\ push <=> req_val /\ req_rdy
             /\ push => D_reg.val
             /\ done <=> resp_val /\ resp_rdy(W_rdy)
             /\ done => stage2_reg.val /\ resps # << >>
             /\ pop <=> (done \/ ~stage2_reg.val) /\ ~fifo!empty
             /\ D # << >> => push \/ ~D_reg.val
<1> DEFINE push  == stage2_push(req_rdy)
           pop   == stage2_pop(resp_val, W_rdy)
           done == delivery(resp_val, W_rdy)
<1>1. /\ D_reg.val \in BOOLEAN /\ stage2_reg.val \in BOOLEAN
      /\ req_rdy \in BOOLEAN /\ resp_val \in BOOLEAN /\ W_rdy \in BOOLEAN
  BY StateType DEF IInv, InCycle
<1>2. push => stage2_rdy
  BY PushFindsRoom
<1>3. push <=> D_reg.val /\ req_rdy
  BY DEF stage2_push
<1>4. pop <=> ((W_rdy /\ resp_val) \/ ~stage2_reg.val) /\ ~fifo!empty
  BY FifoNames, Zenon DEF stage2_pop
<1>5. done <=> stage2_reg.val /\ resp_val /\ W_rdy
  BY DEF delivery, W_val
<1>6. resp_val => resps # << >>
  BY DEF InCycle, Cycle
<1>7. push \in BOOLEAN /\ pop \in BOOLEAN /\ done \in BOOLEAN
  BY <1>1, Zenon DEF stage2_push, stage2_pop, delivery, W_val
<1>8. D # << >> => D_rdy(req_rdy)
  BY DEF InCycle, Offers
<1>9. D_rdy(req_rdy) => req_rdy \/ ~D_reg.val
  BY DEF D_rdy
<1>10. stage2_rdy <=> ~fifo!full
  BY FifoNames, Zenon DEF stage2_rdy
<1> HIDE DEF push, pop, done
<1>11. Allowed(push, pop)
  BY <1>2, <1>4, <1>7, <1>10, Zenon DEF Allowed
<1>12. push <=> req_val /\ req_rdy
  BY <1>2, <1>3, Zenon DEF req_val
<1>13. done <=> resp_val /\ resp_rdy(W_rdy)
  BY <1>5, Zenon DEF resp_rdy
<1>. QED
  BY <1>1, <1>3, <1>4, <1>5, <1>6, <1>7, <1>8, <1>9, <1>11, <1>12, <1>13, Zenon
     DEF push, pop, done

\* What is kept of an instruction that moves to stage 2.
LEMMA KeptType ==
  ASSUME TypeOK, D_reg.val
  PROVE  /\ \E op \in Ops : D_reg = Kept(op)
         /\ Kept2(D_reg) \in Entry
         /\ Kept2(D_reg).uop = D_reg.uop
         /\ Kept2(D_reg).offset = D_reg.offset
<1>1. None.val = FALSE
  BY DEF None
<1>2. PICK op \in Ops : D_reg = Kept(op)
  BY <1>1, Zenon DEF TypeOK
<1>3. D_reg.val = TRUE /\ D_reg.uop = op.uop /\ D_reg.offset = op.offset
  BY <1>2 DEF Kept
<1>4. op.offset \in Lane
  BY OpType
<1>. QED  BY <1>2, <1>3, <1>4 DEF Kept2, Entry

\* The queue takes what leaves stage 1 and gives its head to stage 2.
LEMMA QueueStep ==
  ASSUME IInv, NEW D, NEW req_rdy, NEW resp_val, NEW W_rdy,
         InCycle(D, req_rdy, resp_val, W_rdy)
  PROVE  LET push == stage2_push(req_rdy)
             pop  == stage2_pop(resp_val, W_rdy)
         IN  /\ QueueInv'
             /\ fifo!Count' = fifo!Count + (IF push THEN 1 ELSE 0) - (IF pop THEN 1 ELSE 0)
             /\ fifo!Count' \in 0 .. NumInFlight
             /\ \A k \in 1 .. fifo!Count' :
                  fifo!Contents'[k] =
                    LET j == IF pop THEN k + 1 ELSE k
                    IN  IF j <= fifo!Count THEN fifo!Contents[j] ELSE Kept2(D_reg)
             /\ pop => fifo!Count > 0 /\ fifo!rdata = fifo!Contents[1]
<1> DEFINE push == stage2_push(req_rdy)
           pop  == stage2_pop(resp_val, W_rdy)
           w    == IF push THEN Kept2(D_reg) ELSE None
<1>1. QueueInv
  BY DEF IInv, TypeOK
<1>2. Allowed(push, pop) /\ (push => D_reg.val)
  BY Moves
<1>3. w \in Entry \cup {None}
  BY <1>2, KeptType DEF IInv
<1>4. fifo!FifoEdge(push, pop, w)
  <2>1. stage2_fifo!FifoEdge(push, pop, Kept2(D_reg))
    BY Zenon DEF InCycle, Cycle, Stage2, Kept2
  <2>2. fifo!FifoEdge(push, pop, Kept2(D_reg))
    BY <2>1, FifoNames
  <2>. QED  BY <2>2, Zenon DEF fifo!FifoEdge, fifo!NextArr
<1>5. /\ fifo!Count' = fifo!Count + (IF push THEN 1 ELSE 0) - (IF pop THEN 1 ELSE 0)
      /\ fifo!Count' \in 0 .. NumInFlight
      /\ pop => fifo!Count > 0
      /\ QueueInv'
  BY <1>1, <1>2, <1>3, <1>4, NumInFlightAssumption, CountStep
<1> HIDE DEF push, pop, w
<1>6. ASSUME NEW k \in 1 .. fifo!Count'
      PROVE  fifo!Contents'[k] =
               LET j == IF pop THEN k + 1 ELSE k
               IN  IF j <= fifo!Count THEN fifo!Contents[j] ELSE Kept2(D_reg)
  <2>1. fifo!Contents'[k] =
          LET j == IF pop THEN k + 1 ELSE k
          IN  IF j <= fifo!Count THEN fifo!Contents[j] ELSE w
    BY <1>1, <1>2, <1>3, <1>4, NumInFlightAssumption, EntryStep
  <2>2. ~push => (IF pop THEN k + 1 ELSE k) <= fifo!Count
    <3>1. fifo!Count \in Nat /\ push \in BOOLEAN /\ pop \in BOOLEAN
      BY <1>2, StateType DEF IInv, Allowed
    <3>. QED  BY <1>5, <3>1
  <2>. QED  BY <2>1, <2>2 DEF w
<1>7. fifo!Count > 0 => fifo!rdata = fifo!Contents[1]
  <2>1. fifo!Count \in 0 .. NumInFlight
    BY StateType DEF IInv
  <2>2. ContentsOK
    BY <1>1, NumInFlightAssumption, ContentsType
  <2>3. fifo!Back(rptr, 0) = rptr
    BY <1>1, NumInFlightAssumption DEF fifo!Back, QueueInv, fifo!TypeOK, fifo!Ptr
  <2>4. fifo!Count > 0 => fifo!Contents[1] = arr[fifo!Addr(fifo!Back(rptr, 1 - 1))]
    BY <2>1, <2>2 DEF ContentsOK
  <2>. QED  BY <2>3, <2>4 DEF fifo!rdata
<1>. QED  BY <1>5, <1>6, <1>7 DEF push, pop

\* The instructions that wait after a cycle: those that waited, without the
\* one that is done, then the one that leaves stage 1.
LEMMA WaitingStep ==
  ASSUME IInv, NEW D, NEW req_rdy, NEW resp_val, NEW W_rdy,
         InCycle(D, req_rdy, resp_val, W_rdy)
  PROVE  LET push == stage2_push(req_rdy)
             done == delivery(resp_val, W_rdy)
         IN  /\ stage2_reg' \in {None} \cup Entry
             /\ \A k \in 1 .. fifo!Count' : fifo!Contents'[k] \in Entry
             /\ fifo!Count' + Count(stage2_reg)' =
                  Len(resps) + (IF push THEN 1 ELSE 0) - (IF done THEN 1 ELSE 0)
             /\ \A k \in 1 .. fifo!Count' + Count(stage2_reg)' :
                  Waiting(k)' = LET j == IF done THEN k + 1 ELSE k
                                IN  IF j <= Len(resps) THEN Waiting(j) ELSE Kept2(D_reg)
<1> DEFINE push == stage2_push(req_rdy)
           pop  == stage2_pop(resp_val, W_rdy)
           done == delivery(resp_val, W_rdy)
           n    == fifo!Count
           c    == Count(stage2_reg)
<1>1. /\ push \in BOOLEAN /\ pop \in BOOLEAN /\ done \in BOOLEAN
      /\ push => D_reg.val
      /\ done => stage2_reg.val
      /\ pop <=> (done \/ ~stage2_reg.val) /\ n # 0
  BY Moves, StateType DEF IInv
<1>2. /\ stage2_reg.val \in BOOLEAN
      /\ c = IF stage2_reg.val THEN 1 ELSE 0
      /\ n \in Nat
      /\ n + c = Len(resps)
      /\ stage2_reg \in {None} \cup Entry
      /\ \A k \in 1 .. n : fifo!Contents[k] \in Entry
  BY StateType DEF IInv, TypeOK, Lengths
<1>3. stage2_reg' = IF pop THEN fifo!rdata ELSE IF done THEN None ELSE stage2_reg
  BY FifoNames, Zenon DEF InCycle, Cycle, Stage2, delivery
<1>4. /\ n' = n + (IF push THEN 1 ELSE 0) - (IF pop THEN 1 ELSE 0)
      /\ n' \in Nat
      /\ \A k \in 1 .. n' :
           fifo!Contents'[k] = LET j == IF pop THEN k + 1 ELSE k
                               IN  IF j <= n THEN fifo!Contents[j] ELSE Kept2(D_reg)
      /\ pop => n > 0 /\ fifo!rdata = fifo!Contents[1]
  BY QueueStep
<1>5. push => Kept2(D_reg) \in Entry
  BY <1>1, KeptType DEF IInv
<1>6. \A e \in Entry : e.val = TRUE
  BY DEF Entry
<1>7. None.val = FALSE
  BY DEF None
<1>8. c' = IF stage2_reg'.val THEN 1 ELSE 0
  BY DEF Count
<1>9. \A k \in Int : /\ Waiting(k) = IF k - c = 0 THEN stage2_reg ELSE fifo!Contents[k - c]
                     /\ Waiting(k)' = IF k - c' = 0 THEN stage2_reg' ELSE fifo!Contents'[k - c']
  BY Zenon DEF Waiting
<1> HIDE DEF push, pop, done, n, c
<1>10. ASSUME NEW k \in 1 .. n' PROVE fifo!Contents'[k] \in Entry
  <2> DEFINE j == IF pop THEN k + 1 ELSE k
  <2>1. CASE j <= n
    BY <1>1, <1>2, <1>4, <2>1
  <2>2. CASE ~(j <= n)
    <3>1. push
      BY <1>1, <1>2, <1>4, <2>2
    <3>. QED  BY <1>4, <1>5, <2>2, <3>1
  <2>. QED  BY <2>1, <2>2
<1>11. CASE pop
  <2>1. stage2_reg' = fifo!Contents[1] /\ stage2_reg' \in Entry /\ c' = 1
    BY <1>2, <1>3, <1>4, <1>6, <1>8, <1>11
  <2>2. c = IF done THEN 1 ELSE 0
    BY <1>1, <1>2, <1>11
  <2>3. n' + c' = n + c + (IF push THEN 1 ELSE 0) - (IF done THEN 1 ELSE 0)
    BY <1>1, <1>2, <1>4, <1>11, <2>1, <2>2
  <2>4. ASSUME NEW k \in 1 .. n' + c'
        PROVE  Waiting(k)' = LET j == IF done THEN k + 1 ELSE k
                             IN  IF j <= n + c THEN Waiting(j) ELSE Kept2(D_reg)
    <3>1. CASE k = 1
      <4>1. Waiting(k)' = fifo!Contents[1]
        BY <1>9, <2>1, <3>1
      <4>2. Waiting(1 + c) = fifo!Contents[1]
        BY <1>2, <1>9
      <4>. QED  BY <1>2, <1>4, <1>11, <2>2, <3>1, <4>1, <4>2
    <3>2. CASE k # 1
      <4>1. k - 1 \in 1 .. n' /\ k \in Int
        BY <1>2, <1>4, <2>1, <3>2
      <4>2. Waiting(k)' = IF k <= n THEN fifo!Contents[k] ELSE Kept2(D_reg)
        <5>1. Waiting(k)' = fifo!Contents'[k - 1]
          BY <1>9, <2>1, <4>1
        <5>2. (k - 1) + 1 = k
          BY <4>1
        <5>. QED  BY <1>4, <1>11, <4>1, <5>1, <5>2
      <4>3. Waiting(k + c) = fifo!Contents[k]
        BY <1>2, <1>9, <4>1
      <4>. QED  BY <1>2, <2>2, <4>1, <4>2, <4>3
    <3>. QED  BY <3>1, <3>2
  <2>. QED  BY <1>2, <1>10, <2>1, <2>3, <2>4 DEF push, done, n, c
<1>12. CASE ~pop /\ done
  <2>1. n = 0 /\ c = 1 /\ c' = 0 /\ stage2_reg' = None
    BY <1>1, <1>2, <1>3, <1>7, <1>8, <1>12
  <2>2. n' + c' = n + c + (IF push THEN 1 ELSE 0) - (IF done THEN 1 ELSE 0)
    BY <1>1, <1>2, <1>4, <1>12, <2>1
  <2>3. ASSUME NEW k \in 1 .. n' + c'
        PROVE  Waiting(k)' = LET j == IF done THEN k + 1 ELSE k
                             IN  IF j <= n + c THEN Waiting(j) ELSE Kept2(D_reg)
    <3>1. k \in 1 .. n' /\ k - c' = k /\ k # 0 /\ ~(k <= n) /\ ~(k + 1 <= n + c)
      BY <1>4, <2>1
    <3>2. Waiting(k)' = fifo!Contents'[k]
      BY <1>9, <3>1
    <3>. QED  BY <1>4, <1>12, <3>1, <3>2
  <2>. QED  BY <1>2, <1>10, <2>1, <2>2, <2>3 DEF push, done, n, c
<1>13. CASE ~pop /\ ~done
  <2>1. c' = c /\ stage2_reg' = stage2_reg
    BY <1>2, <1>3, <1>8, <1>13
  <2>2. n' + c' = n + c + (IF push THEN 1 ELSE 0) - (IF done THEN 1 ELSE 0)
    BY <1>1, <1>2, <1>4, <1>13, <2>1
  <2>3. ASSUME NEW k \in 1 .. n' + c'
        PROVE  Waiting(k)' = LET j == IF done THEN k + 1 ELSE k
                             IN  IF j <= n + c THEN Waiting(j) ELSE Kept2(D_reg)
    <3>1. CASE k - c = 0
      BY <1>2, <1>9, <1>13, <2>1, <3>1
    <3>2. CASE k - c # 0
      <4>1. k - c \in 1 .. n' /\ (k - c <= n <=> k <= n + c)
        BY <1>2, <1>4, <2>1, <3>2
      <4>2. Waiting(k)' = fifo!Contents'[k - c]
        BY <1>9, <2>1, <3>2
      <4>3. Waiting(k)' = IF k - c <= n THEN fifo!Contents[k - c] ELSE Kept2(D_reg)
        BY <1>4, <1>13, <4>1, <4>2
      <4>. QED  BY <1>9, <1>13, <3>2, <4>1, <4>3
    <3>. QED  BY <3>1, <3>2
  <2>. QED  BY <1>2, <1>10, <2>1, <2>2, <2>3 DEF push, done, n, c
<1>. QED  BY <1>1, <1>11, <1>12, <1>13

-----------------------------------------------------------------------------
(* What a cycle makes of the answers, the memories and the results.        *)

\* The memory's answer to the instruction in stage 1.
Answer == IF Store(D_reg.uop) THEN Zero ELSE mem[D_reg.addr]

\* The memory carries out what leaves stage 1, and adds its answer.
LEMMA MemoryStep ==
  ASSUME IInv, NEW D, NEW req_rdy, NEW resp_val, NEW W_rdy,
         InCycle(D, req_rdy, resp_val, W_rdy)
  PROVE  LET push == stage2_push(req_rdy)
             done == delivery(resp_val, W_rdy)
         IN  /\ mem' = IF push THEN Stored(mem, D_reg) ELSE mem
             /\ mem' \in [Addrs -> Word]
             /\ resps' \in Seq(Word)
             /\ Shifted(resps, resps', done, IF push THEN <<Answer>> ELSE << >>)
<1> DEFINE push == stage2_push(req_rdy)
           done == delivery(resp_val, W_rdy)
           t    == IF push THEN <<Answer>> ELSE << >>
           m    == req_msg(D_reg)
           left == IF done THEN Tail(resps) ELSE resps
<1>1. /\ push \in BOOLEAN /\ done \in BOOLEAN
      /\ push <=> req_val /\ req_rdy
      /\ push => D_reg.val
      /\ done <=> resp_val /\ resp_rdy(W_rdy)
      /\ done => resps # << >>
  BY Moves
<1>2. mem \in [Addrs -> Word] /\ resps \in Seq(Word)
  BY DEF IInv, TypeOK
<1>3. m.write = Store(D_reg.uop) /\ m.addr = D_reg.addr
  BY DEF req_msg
<1>4. /\ mem' = IF ~(push /\ m.write) THEN mem
               ELSE [mem EXCEPT ![m.addr] =
                       [l \in Lane |-> IF l \in m.strb THEN m.data[l] ELSE @[l]]]
      /\ resps' = IF push THEN Append(left, IF m.write THEN Zero ELSE mem[m.addr]) ELSE left
  <2>1. Memory(req_rdy, resp_val, W_rdy)
    BY DEF InCycle, Cycle
  <2> HIDE DEF push, done
  <2>. QED  BY <1>1, <2>1, Zenon DEF Memory
<1> HIDE DEF push, done, m
<1>5. mem' = IF push THEN Stored(mem, D_reg) ELSE mem
  <2>1. CASE push
    <3>1. PICK op \in Ops : D_reg = Kept(op)
      BY <1>1, <2>1, KeptType DEF IInv
    <3>2. m = req_msg(op) /\ Stored(mem, D_reg) = Stored(mem, op)
      BY <3>1, KeptMeans, Zenon DEF m
    <3>3. Stored(mem, op) = IF ~m.write THEN mem
                            ELSE [mem EXCEPT ![m.addr] =
                                    [l \in Lane |-> IF l \in m.strb THEN m.data[l] ELSE @[l]]]
      BY <3>2, WriteIsStored
    <3>. QED  BY <1>4, <2>1, <3>2, <3>3, Zenon
  <2>2. CASE ~push
    BY <1>4, <2>2, Zenon
  <2>. QED  BY <2>1, <2>2
<1>6. mem' \in [Addrs -> Word] /\ (push => Answer \in Word)
  <2>1. CASE push
    <3>1. PICK op \in Ops : D_reg = Kept(op)
      BY <1>1, <2>1, KeptType DEF IInv
    <3>2. Stored(mem, D_reg) = Stored(mem, op) /\ Stored(mem, op) \in [Addrs -> Word]
      BY <1>2, <3>1, KeptMeans, MeaningType, Zenon
    <3>3. D_reg.addr \in Addrs
      <4>1. D_reg.addr = op.addr
        BY <3>1 DEF Kept
      <4>. QED  BY <4>1, OpType
    <3>4. Zero \in Word
      BY NByteAssumption DEF Zero, Word, Byte
    <3>. QED  BY <1>2, <1>5, <2>1, <3>2, <3>3, <3>4 DEF Answer
  <2>2. CASE ~push
    BY <1>2, <1>5, <2>2
  <2>. QED  BY <2>1, <2>2
<1>7. t \in Seq(Word) /\ Len(t) <= 1
  BY <1>6
<1>8. left \in Seq(Word)
  BY <1>1, <1>2, HeadTailProperties
<1> HIDE DEF left
<1>9. resps' = left \o t
  <2>1. CASE push
    <3>1. resps' = Append(left, Answer)
      BY <1>3, <1>4, <2>1, Zenon DEF Answer
    <3>2. Append(left, Answer) = left \o <<Answer>>
      BY <1>6, <1>8, <2>1, AppendIsConcat
    <3>. QED  BY <2>1, <3>1, <3>2
  <2>2. CASE ~push
    <3>1. resps' = left /\ t = << >>
      BY <1>4, <2>2, Zenon
    <3>. QED  BY <1>8, <3>1, ConcatEmptySeq
  <2>. QED  BY <2>1, <2>2
<1> HIDE DEF t
<1>10. resps' \in Seq(Word) /\ Shifted(resps, resps', done, t)
  BY <1>1, <1>2, <1>7, <1>9, Shift DEF left
<1>. QED  BY <1>5, <1>6, <1>10 DEF push, done, t

\* What is offered to stage 1 is taken into an empty stage, or one that is
\* left in the same cycle.
LEMMA IssueStep ==
  ASSUME IInv, NEW D, NEW req_rdy, NEW resp_val, NEW W_rdy,
         InCycle(D, req_rdy, resp_val, W_rdy)
  PROVE  LET push == stage2_push(req_rdy)
         IN  \/ /\ \E op \in Ops : /\ D_reg' = Kept(op)
                                   /\ put' = <<Meaning(arch_mem, op)>>
                                   /\ arch_mem' = Stored(arch_mem, op)
                /\ push \/ ~D_reg.val
             \/ /\ put' = << >> /\ arch_mem' = arch_mem
                /\ D_reg' = IF push THEN None ELSE D_reg
<1> DEFINE push == stage2_push(req_rdy)
<1>1. D \in Offers(req_rdy) /\ Stage1(D, req_rdy) /\ Expect(D, req_rdy, resp_val, W_rdy)
  BY DEF InCycle, Cycle
<1>2. CASE D # << >>
  <2>1. PICK op \in Ops : D = <<op>> /\ D_rdy(req_rdy)
    BY <1>1, <1>2 DEF Offers
  <2>2. D[1] = op
    BY <2>1
  <2>3. push \/ ~D_reg.val
    BY <1>2, Moves
  <2>4. D_reg' = Kept(op)
    BY <1>1, <1>2, <2>1, <2>2, Zenon DEF Stage1, Kept
  <2>5. put' = <<Meaning(arch_mem, op)>>
    BY <1>1, <1>2, <2>1, <2>2, Zenon DEF Expect
  <2>6. put' # << >>
    BY <2>5
  <2>7. arch_mem' = Stored(arch_mem, op)
    BY <1>1, <2>2, <2>6, Zenon DEF Expect
  <2>. QED  BY <2>3, <2>4, <2>5, <2>7
<1>3. CASE D = << >>
  <2>1. put' = << >>
    BY <1>1, <1>3, Zenon DEF Expect
  <2>2. arch_mem' = arch_mem
    BY <1>1, <2>1, Zenon DEF Expect
  <2>3. D_reg' = IF push THEN None ELSE D_reg
    BY <1>1, <1>3, Zenon DEF Stage1
  <2>. QED  BY <2>1, <2>2, <2>3
<1>. QED  BY <1>2, <1>3

\* The result that leaves is the one expected of the oldest instruction, and
\* what is expected of the instruction issued is added at the end.
LEMMA ExpectStep ==
  ASSUME IInv, NEW D, NEW req_rdy, NEW resp_val, NEW W_rdy,
         InCycle(D, req_rdy, resp_val, W_rdy)
  PROVE  LET done == delivery(resp_val, W_rdy)
         IN  /\ put' \in Seq(Result) /\ Len(put') <= 1
             /\ got' \in Seq(Result) /\ Len(got') <= 1
             /\ expected' \in Seq(Result)
             /\ Shifted(expected, expected', done, put')
             /\ expected \o put' = got' \o expected'
<1> DEFINE done == delivery(resp_val, W_rdy)
<1>1. /\ done \in BOOLEAN
      /\ done => stage2_reg.val /\ resps # << >>
  BY Moves
<1>2. /\ expected \in Seq(Result) /\ resps \in Seq(Word) /\ arch_mem \in [Addrs -> Word]
      /\ Len(expected) >= Len(resps)
  BY StateType DEF IInv, TypeOK, Lengths
<1>3. put' \in Seq(Result) /\ Len(put') <= 1
  <2>1. CASE \E op \in Ops : put' = <<Meaning(arch_mem, op)>>
    BY <1>2, <2>1, MeaningType
  <2>2. CASE put' = << >>
    BY <2>2
  <2>. QED  BY <2>1, <2>2, IssueStep, Zenon
<1>4. Expect(D, req_rdy, resp_val, W_rdy)
  BY DEF InCycle, Cycle
<1>5. got' = IF done THEN <<W_msg(Head(resps))>> ELSE << >>
  BY <1>4, Zenon DEF Expect, delivery
<1>6. done => expected # << >> /\ W_msg(Head(resps)) = Head(expected)
  <2>. SUFFICES ASSUME done PROVE expected # << >> /\ W_msg(Head(resps)) = Head(expected)
    OBVIOUS
  <2>1. Len(resps) >= 1 /\ Len(expected) >= 1
    BY <1>1, <1>2, EmptySeq
  <2>2. Waiting(1) = stage2_reg
    BY <1>1, StateType DEF IInv, Waiting
  <2>3. expected[1] = ResultOf(stage2_reg, resps[1])
    BY <1>2, <2>1, <2>2 DEF IInv, AnswersAreRight
  <2>4. Head(resps) = resps[1] /\ Head(expected) = expected[1] /\ expected # << >>
    BY <1>2, <2>1
  <2>. QED  BY <2>3, <2>4, Zenon DEF W_msg, ResultOf
<1>7. expected' = (IF done THEN Tail(expected) ELSE expected) \o put'
  <2>1. got' # << >> <=> done
    BY <1>5
  <2>. QED  BY <1>4, <1>6, <2>1, Zenon DEF Expect
<1>8. got' = Dropped(expected, done)
  BY <1>5, <1>6, Zenon DEF Dropped
<1> HIDE DEF done
<1>9. got' \in Seq(Result) /\ Len(got') <= 1
  BY <1>2, <1>6, <1>8, HeadTailProperties DEF Dropped
<1>10. /\ expected' \in Seq(Result)
       /\ Shifted(expected, expected', done, put')
       /\ Passes(expected, expected', done, put')
  <2>1. expected \in Seq(Result) /\ put' \in Seq(Result) /\ Len(put') <= 1
        /\ done \in BOOLEAN /\ (done => expected # << >>)
    BY <1>1, <1>2, <1>3, <1>6
  <2>2. ASSUME NEW t \in Seq(Result), Len(t) <= 1
        PROVE  LET u == (IF done THEN Tail(expected) ELSE expected) \o t
               IN  /\ u \in Seq(Result)
                   /\ Shifted(expected, u, done, t)
                   /\ Passes(expected, u, done, t)
    BY <2>1, <2>2, Shift
  <2>. QED  BY <1>7, <2>1, <2>2, Zenon
<1>11. expected \o put' = got' \o expected'
  BY <1>8, <1>10, Zenon DEF Passes
<1>. QED  BY <1>3, <1>9, <1>10, <1>11 DEF done

-----------------------------------------------------------------------------
(* The invariant.                                                          *)

\* The registers, the queue, the memories and the sequences keep their types,
\* and one answer stays under way for each instruction in stage 2.
LEMMA TypeStep ==
  ASSUME IInv, NEW D, NEW req_rdy, NEW resp_val, NEW W_rdy,
         InCycle(D, req_rdy, resp_val, W_rdy)
  PROVE  TypeOK' /\ Lengths'
<1> DEFINE push == stage2_push(req_rdy)
           done == delivery(resp_val, W_rdy)
<1>1. /\ push \in BOOLEAN /\ done \in BOOLEAN /\ (push => D_reg.val)
  BY Moves
<1>2. D_reg' = None \/ \E op \in Ops : D_reg' = Kept(op)
  BY IssueStep, Zenon DEF IInv, TypeOK
<1>3. arch_mem' \in [Addrs -> Word]
  <2>1. CASE \E op \in Ops : arch_mem' = Stored(arch_mem, op)
    BY <2>1, MeaningType DEF IInv, TypeOK
  <2>2. CASE arch_mem' = arch_mem
    BY <2>2 DEF IInv, TypeOK
  <2>. QED  BY <2>1, <2>2, IssueStep, Zenon
<1>4. QueueInv'
  BY QueueStep, Zenon
<1>5. /\ stage2_reg' \in {None} \cup Entry
      /\ \A k \in 1 .. fifo!Count' : fifo!Contents'[k] \in Entry
      /\ fifo!Count' + Count(stage2_reg)' =
           Len(resps) + (IF push THEN 1 ELSE 0) - (IF done THEN 1 ELSE 0)
  BY WaitingStep
<1>6. /\ mem' \in [Addrs -> Word] /\ resps' \in Seq(Word)
      /\ Shifted(resps, resps', done, IF push THEN <<Answer>> ELSE << >>)
  BY MemoryStep
<1>7. /\ expected' \in Seq(Result)
      /\ Shifted(expected, expected', done, put')
  BY ExpectStep
<1>8. TypeOK'
  BY <1>2, <1>3, <1>4, <1>5, <1>6, <1>7, Zenon DEF TypeOK
<1> HIDE DEF push, done
<1>9. Len(resps) \in Nat /\ Len(expected) = Len(resps) + Count(D_reg)
  BY StateType DEF IInv, Lengths
<1>10. Len(resps') = Len(resps) + (IF push THEN 1 ELSE 0) - (IF done THEN 1 ELSE 0)
  <2>1. Len(IF push THEN <<Answer>> ELSE << >>) = IF push THEN 1 ELSE 0
    BY <1>1
  <2>2. Len(resps') = Len(resps) - (IF done THEN 1 ELSE 0) + (IF push THEN 1 ELSE 0)
    BY <1>6, <2>1, Zenon DEF Shifted
  <2>. QED  BY <1>9, <2>2
<1>11. Len(expected') = Len(expected) - (IF done THEN 1 ELSE 0) + Len(put')
  BY <1>7, Zenon DEF Shifted
<1>12. Count(D_reg) = IF D_reg.val THEN 1 ELSE 0
  BY DEF Count
<1>13. Count(D_reg)' = IF D_reg'.val THEN 1 ELSE 0
  BY DEF Count
<1>14. None.val = FALSE /\ \A op : Kept(op).val = TRUE
  BY DEF None, Kept
<1>15. Count(D_reg)' = Count(D_reg) - (IF push THEN 1 ELSE 0) + Len(put')
  <2>1. CASE \E op \in Ops : D_reg' = Kept(op) /\ put' = <<Meaning(arch_mem, op)>>
                            /\ (push \/ ~D_reg.val)
    <3>1. Len(put') = 1 /\ Count(D_reg)' = 1
      BY <1>13, <1>14, <2>1
    <3>. QED  BY <1>1, <1>12, <2>1, <3>1
  <2>2. CASE put' = << >> /\ D_reg' = IF push THEN None ELSE D_reg
    <3>1. Len(put') = 0
      BY <2>2
    <3>2. D_reg'.val = IF push THEN FALSE ELSE D_reg.val
      BY <1>14, <2>2
    <3>. QED  BY <1>1, <1>12, <1>13, <3>1, <3>2
  <2>. QED  BY <2>1, <2>2, IssueStep, Zenon DEF push
<1>16. Len(put') \in Nat
  BY ExpectStep
<1>17. Len(expected') = Len(resps') + Count(D_reg)'
  <2> DEFINE r == Len(resps')  e == Len(expected')  p == Len(put')
             c == Count(D_reg)  d == Count(D_reg)'
             out == IF done THEN 1 ELSE 0  in == IF push THEN 1 ELSE 0
  <2>1. c \in Nat /\ out \in Nat /\ in \in Nat
    BY <1>12
  <2> HIDE DEF r, e, p, c, d, out, in
  <2>2. r = Len(resps) + in - out /\ e = Len(expected) - out + p /\ d = c - in + p
    BY <1>10, <1>11, <1>15, Zenon DEF r, e, p, c, d, out, in
  <2>3. p \in Nat
    BY <1>16 DEF p
  <2>4. Len(expected) = Len(resps) + c /\ Len(resps) \in Nat
    BY <1>9 DEF c
  <2>5. e = r + d
    BY <2>1, <2>2, <2>3, <2>4
  <2>. QED  BY <2>5 DEF r, e, d
<1>18. Lengths'
  BY <1>5, <1>10, <1>17 DEF Lengths, push, done
<1>. QED  BY <1>8, <1>18

\* An answer stays with its instruction, and the memory's answer to the
\* instruction that leaves stage 1 is the one that gives its result.
LEMMA AnswersStep ==
  ASSUME IInv, NEW D, NEW req_rdy, NEW resp_val, NEW W_rdy,
         InCycle(D, req_rdy, resp_val, W_rdy)
  PROVE  AnswersAreRight'
<1> DEFINE push == stage2_push(req_rdy)
           done == delivery(resp_val, W_rdy)
           t    == IF push THEN <<Answer>> ELSE << >>
           n    == Len(resps)
<1>1. /\ push \in BOOLEAN /\ done \in BOOLEAN /\ (push => D_reg.val)
  BY Moves
<1>2. Shifted(resps, resps', done, t)
  BY MemoryStep
<1>3. Shifted(expected, expected', done, put')
  BY ExpectStep
<1>4. \A k \in 1 .. fifo!Count' + Count(stage2_reg)' :
        Waiting(k)' = LET j == IF done THEN k + 1 ELSE k
                      IN  IF j <= n THEN Waiting(j) ELSE Kept2(D_reg)
  BY WaitingStep
<1>5. fifo!Count' + Count(stage2_reg)' = Len(resps') /\ Len(resps') \in Nat
  BY TypeStep DEF TypeOK, Lengths
<1>6. n \in Nat /\ Len(expected) = n + Count(D_reg) /\ Count(D_reg) \in {0, 1}
  BY StateType DEF IInv, Lengths
<1>7. Len(expected') >= Len(resps') /\ Len(expected') \in Nat
  <2>1. TypeOK' /\ Lengths'
    BY TypeStep
  <2>2. Len(resps') \in Nat /\ Len(expected') \in Nat /\ Count(D_reg)' \in Nat
    BY <2>1 DEF TypeOK, Count
  <2>. QED  BY <2>1, <2>2 DEF Lengths
<1>8. Len(t) = (IF push THEN 1 ELSE 0) /\ (push => t[1] = Answer)
  BY <1>1
<1> HIDE DEF push, done, t, n
<1>9. ASSUME NEW k \in 1 .. Len(resps')
      PROVE  expected'[k] = ResultOf(Waiting(k)', resps'[k])
  <2> DEFINE j == IF done THEN k + 1 ELSE k
  <2>1. k \in 1 .. Len(expected') /\ j \in Nat /\ j >= 1
    BY <1>1, <1>5, <1>7
  <2>2. /\ resps'[k] = IF j <= n THEN resps[j] ELSE t[1]
        /\ expected'[k] = IF j <= Len(expected) THEN expected[j] ELSE put'[1]
        /\ Waiting(k)' = IF j <= n THEN Waiting(j) ELSE Kept2(D_reg)
    <3>1. resps'[k] = IF j <= n THEN resps[j] ELSE t[1]
      BY <1>2, Zenon DEF Shifted, n
    <3>2. expected'[k] = IF j <= Len(expected) THEN expected[j] ELSE put'[1]
      BY <1>3, <2>1, Zenon DEF Shifted
    <3>3. Waiting(k)' = IF j <= n THEN Waiting(j) ELSE Kept2(D_reg)
      BY <1>4, <1>5, Zenon
    <3>. QED  BY <3>1, <3>2, <3>3
  <2>3. Len(resps') = n - (IF done THEN 1 ELSE 0) + (IF push THEN 1 ELSE 0)
    BY <1>2, <1>8, Zenon DEF Shifted, n
  <2>4. j <= n + (IF push THEN 1 ELSE 0)
    BY <1>1, <1>5, <1>6, <2>3
  <2> HIDE DEF j
  <2>5. CASE j <= n
    <3>1. j \in 1 .. n /\ j <= Len(expected)
      BY <1>6, <2>1, <2>5
    <3>2. expected[j] = ResultOf(Waiting(j), resps[j])
      BY <3>1 DEF IInv, AnswersAreRight, n
    <3>. QED  BY <2>2, <2>5, <3>1, <3>2, Zenon
  <2>6. CASE ~(j <= n)
    <3>1. push /\ D_reg.val /\ Count(D_reg) = 1
      BY <1>1, <1>6, <2>1, <2>4, <2>6, StateType DEF IInv
    <3>2. j = Len(expected)
      BY <1>6, <2>1, <2>4, <2>6, <3>1
    <3>3. j <= Len(expected)
      BY <2>1, <3>2
    <3>4. expected'[k] = Meaning(mem, D_reg)
      <4>1. expected[Len(expected)] = Meaning(mem, D_reg)
        BY <3>1 DEF IInv, MemoryLags
      <4>. QED  BY <2>2, <3>2, <3>3, <4>1, Zenon
    <3>5. ResultOf(Kept2(D_reg), Answer) = Meaning(mem, D_reg)
      <4>1. Kept2(D_reg).uop = D_reg.uop /\ Kept2(D_reg).offset = D_reg.offset
        BY DEF Kept2
      <4>. QED  BY <4>1, Zenon DEF ResultOf, Meaning, Answer
    <3>. QED  BY <1>8, <2>2, <2>6, <3>1, <3>4, <3>5, Zenon
  <2>. QED  BY <2>5, <2>6
<1>10. \A k \in 1 .. Len(resps)' : expected'[k] = ResultOf(Waiting(k)', resps'[k])
  BY <1>9
<1>. QED  BY <1>10, Zenon DEF AnswersAreRight

\* The functional model is one instruction ahead of the memory, or none.
LEMMA MemoriesStep ==
  ASSUME IInv, NEW D, NEW req_rdy, NEW resp_val, NEW W_rdy,
         InCycle(D, req_rdy, resp_val, W_rdy)
  PROVE  MemoryLags'
<1> DEFINE push == stage2_push(req_rdy)
           done == delivery(resp_val, W_rdy)
<1>1. /\ push \in BOOLEAN /\ done \in BOOLEAN /\ (push => D_reg.val)
      /\ done => resps # << >>
  BY Moves
<1>2. mem' = IF push THEN Stored(mem, D_reg) ELSE mem
  BY MemoryStep
<1>3. Shifted(expected, expected', done, put')
  BY ExpectStep
<1>4. /\ ~D_reg.val => arch_mem = mem
      /\ D_reg.val => /\ arch_mem = Stored(mem, D_reg)
                      /\ expected[Len(expected)] = Meaning(mem, D_reg)
  BY DEF IInv, MemoryLags
<1>5. /\ Len(resps) \in Nat /\ Len(expected) \in Nat
      /\ D_reg.val => Len(expected) = Len(resps) + 1
  BY StateType DEF IInv, Lengths
<1>6. resps # << >> => Len(resps) # 0
  BY EmptySeq DEF IInv, TypeOK
<1>7. None.val = FALSE /\ \A op : Kept(op).val = TRUE
  BY DEF None, Kept
<1> HIDE DEF push, done
<1>8. CASE \E op \in Ops : /\ D_reg' = Kept(op)
                           /\ put' = <<Meaning(arch_mem, op)>>
                           /\ arch_mem' = Stored(arch_mem, op)
                           /\ push \/ ~D_reg.val
  <2>1. PICK op \in Ops : /\ D_reg' = Kept(op)
                          /\ put' = <<Meaning(arch_mem, op)>>
                          /\ arch_mem' = Stored(arch_mem, op)
                          /\ push \/ ~D_reg.val
    BY <1>8
  <2>2. arch_mem = mem'
    BY <1>1, <1>2, <1>4, <2>1, Zenon
  <2>3. arch_mem' = Stored(mem', D_reg')
    BY <2>1, <2>2, KeptMeans, Zenon
  <2>4. expected'[Len(expected')] = Meaning(mem', D_reg')
    <3>1. Len(put') = 1 /\ put'[1] = Meaning(arch_mem, op)
      BY <2>1
    <3>2. Len(expected') = Len(expected) - (IF done THEN 1 ELSE 0) + 1
      BY <1>3, <3>1, Zenon DEF Shifted
    <3>3. done => Len(expected) # 0
      BY <1>1, <1>5, <1>6 , StateType DEF IInv, Lengths
    <3>4. /\ Len(expected') \in 1 .. Len(expected')
          /\ (IF done THEN Len(expected') + 1 ELSE Len(expected')) = Len(expected) + 1
          /\ ~(Len(expected) + 1 <= Len(expected))
      BY <1>1, <1>5, <3>2, <3>3
    <3>5. expected'[Len(expected')] = put'[1]
      BY <1>3, <3>4, Zenon DEF Shifted
    <3>6. Meaning(mem', Kept(op)) = Meaning(arch_mem, op)
      BY <2>2, KeptMeans, Zenon
    <3>. QED  BY <2>1, <3>1, <3>5, <3>6, Zenon
  <2>5. D_reg'.val = TRUE
    BY <1>7, <2>1
  <2>. QED  BY <2>3, <2>4, <2>5, Zenon DEF MemoryLags
<1>9. CASE put' = << >> /\ arch_mem' = arch_mem /\ D_reg' = IF push THEN None ELSE D_reg
  <2>1. CASE push
    <3>1. D_reg'.val = FALSE
      BY <1>7, <1>9, <2>1
    <3>2. arch_mem' = mem'
      BY <1>1, <1>2, <1>4, <1>9, <2>1, Zenon
    <3>. QED  BY <3>1, <3>2, Zenon DEF MemoryLags
  <2>2. CASE ~push
    <3>1. D_reg' = D_reg /\ arch_mem' = arch_mem /\ mem' = mem
      BY <1>2, <1>9, <2>2, Zenon
    <3>2. D_reg.val => expected'[Len(expected')] = expected[Len(expected)]
      <4>. SUFFICES ASSUME D_reg.val
                    PROVE  expected'[Len(expected')] = expected[Len(expected)]
        OBVIOUS
      <4>1. Len(put') = 0
        BY <1>9
      <4>2. Len(expected') = Len(expected) - (IF done THEN 1 ELSE 0) + 0
        BY <1>3, <4>1, Zenon DEF Shifted
      <4>3. /\ Len(expected') \in 1 .. Len(expected')
            /\ (IF done THEN Len(expected') + 1 ELSE Len(expected')) = Len(expected)
            /\ Len(expected) <= Len(expected)
        BY <1>1, <1>5, <1>6, <4>2
      <4>. QED  BY <1>3, <4>3, Zenon DEF Shifted
    <3>. QED  BY <1>4, <3>1, <3>2, Zenon DEF MemoryLags
  <2>. QED  BY <2>1, <2>2
<1>. QED  BY <1>8, <1>9, IssueStep, Zenon DEF push

\* Before the first cycle nothing is under way.
LEMMA InitIInv == Init => IInv
<1> SUFFICES ASSUME Init PROVE IInv
  OBVIOUS
<1>1. None.val = FALSE
  BY DEF None
<1>2. fifo!FifoInit
  BY Zenon DEF Init, fifo!FifoInit, fifo!Slot, stage2_fifo!Slot
<1>3. QueueInv /\ fifo!Count = 0
  <2>1. QueueInv
    BY <1>2, NumInFlightAssumption, InitQueue
  <2>. QED  BY <2>1 DEF Init, fifo!Count
<1>4. Zero \in Word
  BY NByteAssumption DEF Zero, Word, Byte
<1>5. TypeOK
  BY <1>3, <1>4 DEF Init, TypeOK
<1>6. Count(stage2_reg) = 0 /\ Count(D_reg) = 0 /\ Len(resps) = 0 /\ Len(expected) = 0
  BY <1>1 DEF Init, Count
<1>7. Lengths /\ AnswersAreRight /\ MemoryLags
  BY <1>1, <1>3, <1>6 DEF Init, Lengths, AnswersAreRight, MemoryLags
<1>. QED  BY <1>5, <1>7 DEF IInv

\* Every cycle keeps the invariant, and is a step of the queue of results.
LEMMA CycleStep == IInv /\ Next => IInv' /\ Queue!Next
<1> SUFFICES ASSUME IInv, Next PROVE IInv' /\ Queue!Next
  OBVIOUS
<1>0. PICK req_rdy \in BOOLEAN, resp_val \in BOOLEAN, W_rdy \in BOOLEAN :
        Clock(req_rdy, resp_val, W_rdy)
  BY DEF Next
<1>1. PICK D \in Offers(req_rdy) : Cycle(D, req_rdy, resp_val, W_rdy)
  BY <1>0 DEF Clock
<1>2. InCycle(D, req_rdy, resp_val, W_rdy)
  BY <1>1 DEF InCycle
<1>3. TypeOK' /\ Lengths'
  BY <1>2, TypeStep
<1>4. AnswersAreRight' /\ MemoryLags'
  BY <1>2, AnswersStep, MemoriesStep
<1>5. /\ put' \in Seq(Result) /\ Len(put') <= 1
      /\ got' \in Seq(Result) /\ Len(got') <= 1
      /\ expected \o put' = got' \o expected'
  BY <1>2, ExpectStep
<1>6. \A s \in Seq(Result) : Len(s) <= 1 => s \in Queue!AtMostOne
  <2> SUFFICES ASSUME NEW s \in Seq(Result), Len(s) <= 1 PROVE s \in Queue!AtMostOne
    OBVIOUS
  <2>1. CASE Len(s) = 0
    <3>1. s = << >>
      BY <2>1, EmptySeq
    <3>. QED  BY <3>1 DEF Queue!AtMostOne
  <2>2. CASE Len(s) = 1
    <3>1. s[1] \in Result /\ s = <<s[1]>>
      BY <2>2
    <3>. QED  BY <3>1 DEF Queue!AtMostOne, Result
  <2>3. Len(s) \in Nat /\ \A i \in Nat : i <= 1 => i = 0 \/ i = 1
    OBVIOUS
  <2>. QED  BY <2>1, <2>2, <2>3, Zenon
<1>7. Len(expected') <= NumInFlight + 2
  <2>1. /\ (fifo!Count \in 0 .. NumInFlight)'
        /\ (Count(stage2_reg) = IF stage2_reg.val THEN 1 ELSE 0)'
        /\ (Count(D_reg) = IF D_reg.val THEN 1 ELSE 0)'
    BY <1>3, StateType, PTL
  <2> DEFINE c == fifo!Count'  s == Count(stage2_reg)'  d == Count(D_reg)'
  <2>2. c \in 0 .. NumInFlight /\ s \in {0, 1} /\ d \in {0, 1}
    BY <2>1
  <2>3. c + s = Len(resps') /\ Len(expected') = Len(resps') + d
    BY <1>3, Zenon DEF Lengths
  <2> HIDE DEF c, s, d
  <2>. QED  BY <2>2, <2>3, NumInFlightAssumption
<1>8. Queue!Next
  BY <1>5, <1>6, <1>7 DEF Queue!Next
<1>. QED  BY <1>3, <1>4, <1>8 DEF IInv

\* Nothing changes in a stuttering step.
LEMMA Stutter == UNCHANGED vars => UNCHANGED Queue!vars /\ (IInv => IInv')
<1> SUFFICES ASSUME UNCHANGED vars PROVE UNCHANGED Queue!vars /\ (IInv => IInv')
  OBVIOUS
<1>1. /\ D_reg' = D_reg /\ stage2_reg' = stage2_reg /\ wptr' = wptr /\ rptr' = rptr
      /\ arr' = arr /\ mem' = mem /\ arch_mem' = arch_mem /\ resps' = resps
      /\ expected' = expected /\ put' = put /\ got' = got
  BY DEF vars
<1>2. fifo!Count' = fifo!Count /\ fifo!Contents' = fifo!Contents /\ (QueueInv => QueueInv')
  <2>1. fifo!Count' = fifo!Count
    BY <1>1, Zenon DEF fifo!Count
  <2>2. fifo!Contents' = fifo!Contents
    BY <1>1, <2>1, Zenon DEF fifo!Contents, fifo!Back, fifo!Addr
  <2>3. QueueInv => QueueInv'
    BY <1>1, <2>1, Zenon DEF QueueInv, fifo!TypeOK, fifo!NoOverrun
  <2>. QED  BY <2>1, <2>2, <2>3
<1>3. \A k : Waiting(k)' = Waiting(k)
  BY <1>1, <1>2 DEF Waiting, Count
<1>4. TypeOK => TypeOK'
  BY <1>1, <1>2, Zenon DEF TypeOK
<1>5. Lengths => Lengths'
  BY <1>1, <1>2, Zenon DEF Lengths, Count
<1>6. AnswersAreRight => AnswersAreRight'
  BY <1>1, <1>3, Zenon DEF AnswersAreRight
<1>7. MemoryLags => MemoryLags'
  BY <1>1, Zenon DEF MemoryLags
<1>. QED  BY <1>1, <1>4, <1>5, <1>6, <1>7 DEF IInv, Queue!vars

\* Every instruction in stage 2 has the answer under way that gives its
\* result, and the memory is one instruction behind at the most.
THEOREM Inductive == Spec => []IInv
<1>1. IInv /\ [Next]_vars => IInv'
  BY CycleStep, Stutter
<1>. QED  BY <1>1, InitIInv, PTL DEF Spec

\* Instructions and answers are in step, and the push that looks at the
\* memory only never overruns stage2_fifo, as long as the queue holds what
\* the memory can have under way.
THEOREM PushIsSafe == Spec => []AnswersMatch
<1>1. IInv => AnswersMatch
  <2> SUFFICES ASSUME IInv PROVE AnswersMatch
    OBVIOUS
  <2>1. fifo!Count \in 0 .. NumInFlight /\ fifo!Count = stage2_fifo!Count
    BY StateType, FifoNames DEF IInv
  <2>2. stage2_fifo!NoOverrun
    BY <2>1, NumInFlightAssumption DEF stage2_fifo!NoOverrun
  <2>. QED  BY <2>1, <2>2 DEF IInv, Lengths, AnswersMatch
<1>. QED  BY <1>1, Inductive, PTL

\* The unit is a queue of the results that the functional model computes at
\* issue: every load returns what the stores before it left, and results
\* leave in order, however the memory and the writeback unit stall.
THEOREM LoadsSeeStores == Spec => ImplementsMemory
<1>1. Init => Queue!Init
  BY Zenon DEF Init, Queue!Init
<1>2. IInv /\ [Next]_vars => [Queue!Next]_(Queue!vars)
  BY CycleStep, Stutter
<1>. QED  BY <1>1, <1>2, Inductive, PTL DEF Spec, ImplementsMemory, Queue!Spec
=============================================================================
