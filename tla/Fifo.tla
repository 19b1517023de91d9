-------------------------------- MODULE Fifo --------------------------------
(***************************************************************************)
(* The pointer-based queue of hw/common/Fifo.v.  One step is one clock     *)
(* edge.  The pointers carry one bit more than an address, and count down. *)
(***************************************************************************)
EXTENDS Integers, Sequences

CONSTANTS
  Depth,   \* p_depth; the slices of the pointers need a power of two
  Msg      \* the entries

ASSUME DepthAssumption == Depth \in Nat \ {0} /\ \E k \in 0 .. Depth : Depth = 2 ^ k

VARIABLES
  wptr, rptr,
  arr,        \* the data array
  put, got    \* what went in and out in the last cycle

fifoVars == <<wptr, rptr, arr, put, got>>

Ptr  == 0 .. 2 * Depth - 1
Slot == 0 .. Depth - 1

\* The low bits of a pointer, and its top bit.
Addr(ptr) == IF ptr < Depth THEN ptr ELSE ptr - Depth
Top(ptr)  == ptr >= Depth

\* Adding all ones to a pointer.
Step(ptr) == IF ptr = 0 THEN 2 * Depth - 1 ELSE ptr - 1

FifoInit ==
  /\ wptr = 0
  /\ rptr = 0
  /\ arr \in {[s \in Slot |-> m] : m \in Msg}
  /\ put = << >>
  /\ got = << >>

empty == wptr = rptr

full == Addr(wptr) = Addr(rptr) /\ Top(wptr) # Top(rptr)

rdata == arr[Addr(rptr)]

NextArr(push, wdata) ==
  IF push THEN [arr EXCEPT ![Addr(wptr)] = wdata] ELSE arr

FifoEdge(push, pop, wdata) ==
  /\ wptr' = IF push THEN Step(wptr) ELSE wptr
  /\ rptr' = IF pop THEN Step(rptr) ELSE rptr
  /\ arr'  = NextArr(push, wdata)

-----------------------------------------------------------------------------
(* The environment: it pops only what is there, and pushes into a full     *)
(* queue only in the cycle of a pop, as ExQueue does.                      *)

FifoCycle(push, pop, wdata) ==
  /\ pop => ~empty
  /\ push => ~full \/ pop
  /\ FifoEdge(push, pop, wdata)
  /\ put' = IF push THEN <<wdata>> ELSE << >>
  /\ got' = IF pop THEN <<rdata>> ELSE << >>

FifoNext == \E push, pop \in BOOLEAN, wdata \in Msg : FifoCycle(push, pop, wdata)

FifoSpec == FifoInit /\ [][FifoNext]_fifoVars

-----------------------------------------------------------------------------
(* Properties.                                                             *)

\* Type invariant.
TypeOK ==
  /\ wptr \in Ptr
  /\ rptr \in Ptr
  /\ arr \in [Slot -> Msg]

\* The entries between the pointers, the oldest first.
Count == IF wptr <= rptr THEN rptr - wptr ELSE rptr - wptr + 2 * Depth

Back(ptr, k) == IF k <= ptr THEN ptr - k ELSE ptr - k + 2 * Depth

Contents == [k \in 1 .. Count |-> arr[Addr(Back(rptr, k - 1))]]

\* The difference of the pointers is the number of entries: the queue is
\* never overrun, so full and empty are never confused.
NoOverrun == Count <= Depth

Queue == INSTANCE BoundedQueue WITH q <- Contents

\* The pointers and the array implement a queue of Depth entries.
ImplementsQueue == Queue!Spec
=============================================================================
