----------------------------- MODULE BoundedQueue -----------------------------
(***************************************************************************)
(* What a hardware queue promises: the messages it was given come out, each*)
(* once and in order, and it never holds more than Depth of them.  `put`   *)
(* and `got` are what its two ports transferred in the last clock cycle: a *)
(* sequence of no message or of one.                                       *)
(***************************************************************************)
EXTENDS Naturals, Sequences

CONSTANTS Depth, Msg

VARIABLES q, put, got

vars == <<q, put, got>>

AtMostOne == {<< >>} \cup {<<m>> : m \in Msg}

Init ==
  /\ q   = << >>
  /\ put = << >>
  /\ got = << >>

\* Nothing is lost, made up or reordered, also when a message passes through
\* in one cycle.
Next ==
  /\ put' \in AtMostOne
  /\ got' \in AtMostOne
  /\ q \o put' = got' \o q'
  /\ Len(q') <= Depth

Spec == Init /\ [][Next]_vars
=============================================================================
