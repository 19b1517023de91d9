------------------------------- MODULE SeqArb -------------------------------
(***************************************************************************)
(* What picks the oldest of several requests: SeqArb (hw/util/SeqArb.v),   *)
(* between results waiting to be written back, and the two squash units,   *)
(* between the squash notifications of one cycle, SquashUnitL1             *)
(* (hw/squash/SquashUnitL1.v) and SquashUnitL1Chain.  The first two are    *)
(* the same binary tree of two-way helpers over wires numbered from the    *)
(* leaves up to the root.                                                  *)
(*                                                                         *)
(* A request is a record with the fields val and seq_num and whatever else *)
(* travels with it (the target of a squash).  n requests are a function on *)
(* 0 .. n - 1.                                                             *)
(***************************************************************************)
EXTENDS SeqAge

Idle == [val |-> FALSE, seq_num |-> 0]

\* The valid request, or the older of two.
Helper(oldest, arb0, arb1) ==
  IF ~arb0.val THEN arb1
  ELSE IF ~arb1.val THEN arb0
  ELSE IF IsOlder(oldest, arb0.seq_num, arb1.seq_num) THEN arb0
  ELSE arb1

NumLevels(n) == CHOOSE l \in 0 .. n : 2 ^ l >= n /\ \A m \in 0 .. l - 1 : 2 ^ m < n

\* Of a tree with so many leaves, wires 0 .. leaves - 1 are the leaves and
\* p - 1 is the root; wire k is driven by the helper between wires 2k - p and
\* 2k - p - 1.
Tree(oldest, req, n, leaves) ==
  LET p == 2 * leaves - 1
      intermediate[k \in 0 .. p - 1] ==
        IF k < leaves
        THEN IF k < n THEN req[k] ELSE Idle
        ELSE Helper(oldest, intermediate[2 * k - p], intermediate[2 * k - p - 1])
  IN  intermediate

\* The wire at the root.
Arbitrate(oldest, req, n) ==
  LET leaves == 2 ^ NumLevels(n)
  IN  Tree(oldest, req, n, leaves)[2 * leaves - 2]

\* SeqArb compares every request with the number at the root.
Granted(oldest, req, n) ==
  LET root == Arbitrate(oldest, req, n)
  IN  {i \in 0 .. n - 1 : req[i].val /\ req[i].seq_num = root.seq_num}

SquashUnitL1(oldest, arb, n) ==
  IF n = 1 THEN arb[0] ELSE Arbitrate(oldest, arb, n)

\* Mutant: a valid notification always replaces the one before it.
SquashUnitL1Chain_Last(oldest, arb, n) ==
  LET chain[i \in 0 .. n - 1] ==
        IF i = 0 THEN arb[0] ELSE IF arb[i].val THEN arb[i] ELSE chain[i - 1]
  IN  chain[n - 1]

\* Link i passes on notification i or what link i - 1 passed on.
Chain(oldest, arb, n) ==
  LET chain[i \in 0 .. n - 1] ==
        IF i = 0 THEN arb[0]
        ELSE IF /\ arb[i].val
                /\ ~chain[i - 1].val \/ IsOlder(oldest, arb[i].seq_num, chain[i - 1].seq_num)
          THEN arb[i]
        ELSE chain[i - 1]
  IN  chain

SquashUnitL1Chain(oldest, arb, n) == Chain(oldest, arb, n)[n - 1]

-----------------------------------------------------------------------------

\* What they are for: gnt is the oldest of the valid requests, if there is any.
IsOldest(oldest, req, n, gnt) ==
  LET valid == {i \in 0 .. n - 1 : req[i].val}
  IN  /\ gnt.val <=> valid # {}
      /\ gnt.val => \E i \in valid : /\ req[i] = gnt
                                     /\ \A j \in valid \ {i} :
                                          Precedes(oldest, gnt.seq_num, req[j].seq_num)

\* One grant and to the oldest request, if there is a request.
GrantsOldest(oldest, req, n, granted) ==
  /\ granted = {} <=> \A i \in 0 .. n - 1 : ~req[i].val
  /\ \A i \in granted :
       /\ i \in 0 .. n - 1 /\ req[i].val
       /\ \A j \in 0 .. n - 1 : req[j].val /\ j # i => Precedes(oldest, req[i].seq_num, req[j].seq_num)
=============================================================================
