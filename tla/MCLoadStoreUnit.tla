--------------------------- MODULE MCLoadStoreUnit ---------------------------
(***************************************************************************)
(* Instances of LoadStoreUnit for TLC.  A byte has the two bits that tell  *)
(* its sign and its value apart.                                           *)
(***************************************************************************)
EXTENDS LoadStoreUnit

Op(uop, addr, offset, data) == [uop |-> uop, addr |-> addr, offset |-> offset, data |-> data]

\* Two negative bytes and two others.
Data == [l \in Lane |-> NByte - 1 - l]

\* A store of each size, one of them across the end of the word, and loads of
\* the whole word and of a halfword whose sign depends on the stores before.
MCOps ==
  {Op("SW", 0, 0, Data), Op("SH", 0, 3, Data), Op("SB", 0, 1, Data),
   Op("LH", 0, 2, Zero), Op("LW", 0, 0, Zero)}
=============================================================================
