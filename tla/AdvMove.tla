------------------------------ MODULE AdvMove ------------------------------
(***************************************************************************)
(* Moving in Colossal Cave: domove, goback, copytrv, dotrav and spcmove of *)
(* app/adventure/turn.c.  The array travel is an argument: domove loads it *)
(* with the table of the room, goback writes over it.                      *)
(***************************************************************************)
EXTENDS AdvWorld

NULLX == 21
BACK == 8
LOOK == 57
CAVE == 67
ENTRANCE == 64
DEPRESSION == 63

\* Is the condition of an entry met?  Below 100 it is a chance in percent.
passable(g, rcond) ==
  LET robject == rcond % 100
  IN  CASE rcond \div 100 = 0 -> rcond = 0 \/ pct(g, rcond)
        [] rcond \div 100 = 1 -> robject = 0 \/ toting(g, robject)
        [] rcond \div 100 = 2 -> toting(g, robject) \/ at(g, robject)
        [] OTHER              -> g.prop[robject] # rcond \div 100 - 3

\* Routine to handle very special movement: through the alcove with nothing but
\* the emerald; out of the plover room the wrong way; over the troll bridge.
spcmove(g, rdest) ==
  CASE rdest = 301 -> IF g.holding = 0 \/ (g.holding = 1 /\ toting(g, EMERALD))
                      THEN [g EXCEPT !.newloc = 199 - g.loc] ELSE g
    [] rdest = 302 -> drop(g, EMERALD, g.loc)
    [] rdest = 303 ->
         IF g.prop[TROLL] = 1
         THEN LET g1 == pspeak([g EXCEPT !.prop[TROLL] = 0], TROLL, 1)
                  g2 == moveFixed(move(g1, TROLL2, 0), TROLL2, 0)
              IN  [moveFixed(move(g2, TROLL, 117), TROLL, 122) EXCEPT !.newloc = g.loc]
         ELSE LET over  == IF g.loc = 117 THEN 122 ELSE 117
                  cross == [g EXCEPT !.newloc = over,
                                     !.prop[TROLL] = IF @ = 0 THEN 1 ELSE @]
              IN  IF ~toting(g, BEAR) THEN cross
                  ELSE death([drop(cross, BEAR, over) EXCEPT
                                !.prop[CHASM] = 1, !.prop[TROLL] = 2, !.prop[BEAR] = 3,
                                !.fixed[BEAR] = -1,
                                !.tally2 = IF g.prop[SPICES] < 0 THEN @ + 1 ELSE @,
                                !.oldloc2 = over])
    [] OTHER -> bug(g, 38)

\* Routine to figure out a new location: from the first entry for this motion
\* on (tverb 1 is any motion) the first one whose condition is met, whatever
\* its motion.  A destination above 500 is a message, above 300 a special move.
dotrav(g, travel) ==
  LET size  == Min({k \in 0 .. MAXTRAV - 1 : travel[k].tdest < 0})
      hits  == {k \in 0 .. size - 1 : travel[k].tverb \in {1, g.motion}}
      taken == {k \in 0 .. size - 1 : hits # {} /\ k >= Min(hits)
                                      /\ passable(g, travel[k].tcond)}
      rdest == travel[Min(taken)].tdest
      stay  == [g EXCEPT !.newloc = g.loc]
  IN  IF taken = {} \/ rdest > 500 THEN stay
      ELSE IF rdest > 300 THEN spcmove(stay, rdest)
      ELSE [g EXCEPT !.newloc = rdest]

\* Routine to copy a travel array: neither pointer moves, so only the first
\* entry of trav2 changes, and it ends as the first of trav1.
copytrv(trav1, trav2) == [trav2 EXCEPT ![0] = trav1[0]]

\* One round of the walk of goback, at entry kk.  To see whether a neighbour is
\* a forced move its table is loaded over travel; the copy that should bring the
\* table of this room back only brings back its first entry, so the walk goes on
\* through the other room's entries.  k2 may become the number of a room.
look(w, kk, table, want) ==
  LET entry == w.travel[kk]
      via   == gettrav(w.travel, entry.tdest)
  IN  IF entry.tcond # 0 \/ ~TravelRoom(entry.tdest) THEN w
      ELSE [travel |-> copytrv(table, via),
            k2     |-> IF forced(entry.tdest) /\ via[0].tdest = want THEN entry.tdest ELSE kk]

\* What travel and k2 are when the walk comes to entry kk.
walk(table, want) ==
  LET w[kk \in 0 .. MAXTRAV - 1] ==
        IF kk = 0 THEN [travel |-> table, k2 |-> 0] ELSE look(w[kk - 1], kk - 1, table, want)
  IN  w

\* Routine to handle a request to return from whence we came: by the entry that
\* leads there, or by k2.  If that is the number of a room the motion is
\* whatever lies there behind travel.
goback(g, table) ==
  LET want   == IF forced(g.oldloc) THEN g.oldloc2 ELSE g.oldloc
      w      == walk(table, want)
      entry(kk) == w[kk].travel[kk]
      kk     == Min({k \in 0 .. MAXTRAV - 1 :
                       \/ entry(k).tdest = -1
                       \/ entry(k).tcond = 0 /\ (entry(k).tdest = want \/ ~TravelRoom(entry(k).tdest))})
      travel == w[kk].travel
      k2     == w[kk].k2
      g1     == [g EXCEPT !.oldloc2 = g.oldloc, !.oldloc = g.loc]
      known  == k2 < MAXTRAV /\ travel[k2].tverb # Unknown
  IN  IF want = g.loc THEN g1
      ELSE IF entry(kk).tdest = -1
      THEN IF k2 = 0 THEN g1
           ELSE dotrav([g1 EXCEPT !.motion = IF known THEN travel[k2].tverb ELSE g.luck.wild], travel)
      ELSE IF entry(kk).tdest = want
      THEN dotrav([g1 EXCEPT !.motion = entry(kk).tverb], travel)
      ELSE bug(g1, 42)

\* Routine to handle motion requests.
domove(g) ==
  LET travel == gettrav(NoTravel, g.loc)
  IN  IF ~TravelRoom(g.loc) THEN bug(g, 42)
      ELSE CASE g.motion \in {NULLX, CAVE} -> g
             [] g.motion = BACK -> goback(g, travel)
             [] g.motion = LOOK -> [g EXCEPT !.wzdark = FALSE, !.newloc = g.loc, !.loc = 0]
             [] OTHER -> dotrav([g EXCEPT !.oldloc2 = g.oldloc, !.oldloc = g.loc], travel)
=============================================================================
