------------------------------- MODULE SeqAge -------------------------------
(***************************************************************************)
(* Sequence numbers and the age comparator of hw/util/SeqAge.v.            *)
(*                                                                         *)
(* Every instruction in flight carries a sequence number of p_seq_num_bits *)
(* bits.  Numbers are handed out in program order and wrap around, so an   *)
(* age can only be told relative to the oldest number still in flight.     *)
(***************************************************************************)
EXTENDS Integers

CONSTANT NSeq   \* the number of sequence numbers, 2 ** p_seq_num_bits

ASSUME NSeqAssumption == NSeq \in Nat \ {0}

SeqNum == 0 .. NSeq - 1

\* Addition and subtraction truncated to p_seq_num_bits, for k, a, b within
\* one turn of the ring.
Plus(s, k)  == IF s + k < NSeq THEN s + k ELSE s + k - NSeq
Minus(a, b) == IF b <= a THEN a - b ELSE a - b + NSeq

\* The register oldest_seq_num after a clock edge.
OldestNext(oldest, commit) ==
  IF commit.val THEN Plus(commit.seq_num, 1) ELSE oldest

\* Mutant: a comparator that forgets the wrap-around.
IsOlder_NoWrap(oldest, a, b) == a < b

\* The exclusive or of three comparisons.
IsOlder(oldest, a, b) ==
  (a < b) # ((a < oldest) # (b < oldest))

-----------------------------------------------------------------------------

\* What the comparator is for: on the ring that starts at the oldest number,
\* a comes before b.
Precedes(oldest, a, b) == Minus(a, oldest) < Minus(b, oldest)
=============================================================================
