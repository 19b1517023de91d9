----------------------------- MODULE FetchStream -----------------------------
(***************************************************************************)
(* What a fetch unit promises to decode: the instructions at consecutive   *)
(* addresses, from the reset address or from the target of the last        *)
(* squash, each once.  `delivered` and `redirect` are what the interface   *)
(* to decode and the squash notification carried in the last clock cycle:  *)
(* no address or one.                                                      *)
(***************************************************************************)
EXTENDS Integers, Sequences

CONSTANTS
  NAddr,     \* the number of word addresses
  RstAddr    \* p_rst_addr

Addr == 0 .. NAddr - 1

\* The address of the next instruction: pc + 4.
Succ(addr) == IF addr = NAddr - 1 THEN 0 ELSE addr + 1

VARIABLES pc, delivered, redirect

vars == <<pc, delivered, redirect>>

Init ==
  /\ pc        = RstAddr
  /\ delivered = << >>
  /\ redirect  = << >>

Deliver ==
  /\ delivered' = <<pc>>
  /\ redirect'  = << >>
  /\ pc'        = Succ(pc)

\* What is on the way is dropped: nothing is delivered in the cycle of a
\* squash.
Redirect(target) ==
  /\ delivered' = << >>
  /\ redirect'  = <<target>>
  /\ pc'        = target

Wait ==
  /\ delivered' = << >>
  /\ redirect'  = << >>
  /\ pc'        = pc

Next == Deliver \/ (\E target \in Addr : Redirect(target)) \/ Wait

Spec == Init /\ [][Next]_vars
=============================================================================
