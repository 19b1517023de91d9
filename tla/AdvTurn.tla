------------------------------ MODULE AdvTurn ------------------------------
(***************************************************************************)
(* One turn of Colossal Cave (turn, dwarves, dopirate and stimer of        *)
(* app/adventure/turn.c): from the end of the player's last instruction to *)
(* the moment the program waits for the next one, or to an early return,   *)
(* after which turn is called again.                                       *)
(***************************************************************************)
EXTENDS AdvVerbs

\* Values of limit from LimitCap on are one: none of them is compared with.
CONSTANT LimitCap

ASSUME LimitCapAssumption == LimitCap \in Nat /\ LimitCap > 35

Dwarf  == 1 .. DWARFMAX - 2
Pirate == DWARFMAX - 1

\* Mutant: the time is set again whenever the player tries to get out.
headed_Again(g) ==
  LET g1 == IF g.newloc < 9 /\ g.newloc # 0 /\ g.closing
            THEN [g EXCEPT !.newloc = g.loc, !.clock2 = 15, !.panic = TRUE]
            ELSE g
      blocked == /\ g1.newloc # g1.loc /\ ~forced(g1.loc) /\ ~noPirate(g1.loc)
                 /\ \E i \in Dwarf : g1.odloc[i] = g1.newloc /\ g1.dseen[i]
  IN  IF blocked THEN [g1 EXCEPT !.newloc = g1.loc] ELSE g1

\* The start of turn: the closing cave is left by the main office only, and a
\* dwarf that follows the player stands in the way he came.
headed(g) ==
  LET g1 == IF g.newloc < 9 /\ g.newloc # 0 /\ g.closing
            THEN [g EXCEPT !.newloc = g.loc, !.clock2 = IF g.panic THEN @ ELSE 15,
                           !.panic = TRUE]
            ELSE g
      blocked == /\ g1.newloc # g1.loc /\ ~forced(g1.loc) /\ ~noPirate(g1.loc)
                 /\ \E i \in Dwarf : g1.odloc[i] = g1.newloc /\ g1.dseen[i]
  IN  IF blocked THEN [g1 EXCEPT !.newloc = g1.loc] ELSE g1

\* The pyramid is not stolen where it was found or where the emerald lies.
spared(g, j) == j = PYRAMID /\ g.newloc \in {g.place[PYRAMID], g.place[EMERALD]}

\* What the pirate takes goes to his chest, and he goes with it.  He comes to the
\* emerald before the pyramid.
stealit(g) ==
  LET hoard == IF g.place[MESSAGE] = 0 THEN move(g, CHEST, chloc) ELSE g
      h     == move(hoard, MESSAGE, chloc2)
      free  == {j \in Treasure : toting(h, j) \/ (at(h, j) /\ h.fixed[j] = 0)}
      left  == \/ h.newloc = h.place[PYRAMID]
               \/ h.newloc = h.place[EMERALD] /\ EMERALD \notin free
  IN  dropThose(h, IF left THEN free \ {PYRAMID} ELSE free, LAMBDA j : chloc)

goneHome(g) == [g EXCEPT !.dloc[Pirate] = chloc, !.odloc[Pirate] = chloc, !.dseen[Pirate] = FALSE]

\* Pirate stuff: he steals from a player who carries a treasure; the last one
\* that is left to find, his own, he brings to its place when he is seen.
dopirate(g) ==
  LET open == {j \in Treasure : ~spared(g, j)}
  IN  IF g.newloc = chloc \/ g.prop[CHEST] >= 0 THEN g
      ELSE IF \E j \in open : toting(g, j) THEN goneHome(stealit(g))
      ELSE IF /\ g.tally = g.tally2 + 1 /\ ~ \E j \in open : here(g, j)
              /\ g.place[CHEST] = 0 /\ here(g, LAMP) /\ g.prop[LAMP] = 1
      THEN goneHome(move(move(g, CHEST, chloc), MESSAGE, chloc2))
      ELSE g

\* The first encounter: up to two dwarves are killed, one that is here moves
\* away, and an axe is thrown.
firstMeeting(g) ==
  LET away == [i \in 1 .. Pirate |->
                IF i \in g.luck.kills THEN 0
                ELSE IF i \in Dwarf /\ g.dloc[i] = g.newloc THEN daltloc ELSE g.dloc[i]]
      from == [i \in 1 .. Pirate |-> IF i \in Dwarf THEN away[i] ELSE g.odloc[i]]
  IN  drop([g EXCEPT !.dflag = 2, !.dloc = Array(away), !.odloc = Array(from)], AXE, g.newloc)

\* Every dwarf that lives moves, or follows the player if it has seen him.
prowl(g) ==
  LET seen == [i \in DOMAIN g.dloc |->
                IF g.dloc[i] = 0 THEN g.dseen[i]
                ELSE \/ g.dseen[i] /\ g.newloc >= 15
                     \/ g.luck.rooms[i] = g.newloc \/ g.dloc[i] = g.newloc]
      from == [i \in DOMAIN g.dloc |-> IF g.dloc[i] = 0 THEN g.odloc[i] ELSE g.dloc[i]]
      to   == [i \in DOMAIN g.dloc |-> IF g.dloc[i] = 0 THEN 0
                                       ELSE IF seen[i] THEN g.newloc ELSE g.luck.rooms[i]]
  IN  [g EXCEPT !.odloc = Array(from), !.dseen = Array(seen), !.dloc = Array(to)]

\* Dwarf stuff: those that were here already throw their knives, and of the
\* knives luck.stick hit; none does in the first fight.
dwarves(g) ==
  LET g1     == prowl(g)
      near   == {i \in Dwarf : g1.dloc[i] # 0 /\ g1.dseen[i]}
      attack == {i \in near : g1.odloc[i] = g1.dloc[i]}
      g2     == [g1 EXCEPT !.knfloc = IF attack # {} /\ @ >= 0 THEN g.newloc ELSE @]
      g3     == IF g1.dloc[Pirate] # 0 /\ g1.dseen[Pirate] THEN dopirate(g2) ELSE g2
      stick  == IF g.dflag = 2 THEN 0 ELSE Min({g.luck.stick, Cardinality(attack)})
  IN  IF g.newloc = 0 \/ forced(g.newloc) \/ noPirate(g.newloc) THEN g
      ELSE IF g.dflag = 0 THEN IF g.newloc > 15 THEN [g EXCEPT !.dflag = 1] ELSE g
      ELSE IF g.dflag = 1
      THEN IF g.newloc < 15 \/ ~g.luck.meet THEN g ELSE firstMeeting(g)
      ELSE IF attack = {} THEN g3
      ELSE IF stick = 0 THEN [g3 EXCEPT !.dflag = IF @ = 2 THEN 3 ELSE @]
      ELSE death([g3 EXCEPT !.oldloc2 = g.newloc])

----------------------------------------------------------------------------
\* The cave begins to close: no dwarf follows, the bridge is the troll's no
\* more, and the bear is gone unless it fell.
startClosing(g) ==
  LET g1 == trollLeaves([g EXCEPT !.prop[GRATE] = 0, !.prop[FISSURE] = 0,
                                  !.dseen = Array([i \in DOMAIN @ |-> FALSE])])
      g2 == IF g1.prop[BEAR] # 3 THEN dstroy(g1, BEAR) ELSE g1
  IN  [g2 EXCEPT !.prop[CHAIN] = 0, !.fixed[CHAIN] = 0, !.prop[AXE] = 0, !.fixed[AXE] = 0,
                 !.clock1 = -1, !.closing = TRUE]

\* The repository: what is put in its two rooms, 115 and 116, by the value that
\* put is given.
repository ==
  [i \in {BOTTLE, PLANT, OYSTER, LAMP, ROD, DWARF, MIRROR, GRATE, SNAKE, BIRD, CAGE, ROD2, PILLOW} |->
    [room |-> IF i \in {GRATE, SNAKE, BIRD, CAGE, ROD2, PILLOW} THEN 116 ELSE 115,
     pval |-> IF i \in {BOTTLE, SNAKE, BIRD} THEN 1 ELSE 0]]

\* The cave is closed: the player wakes up in the repository, with nothing.  An
\* object that was put there has state -1 - pval, but the grate keeps its own.
closeCave(g) ==
  LET stored == DOMAIN repository
      g1     == dropThose(g, stored \cup {i \in Object : toting(g, i)},
                          LAMBDA i : IF i \in stored THEN repository[i].room ELSE 0)
  IN  [g1 EXCEPT !.loc = 115, !.oldloc = 115, !.newloc = 115, !.fixed[MIRROR] = 116,
                 !.prop = Array([i \in Object |-> IF i \in stored \ {GRATE} THEN -1 - repository[i].pval
                                                  ELSE @[i]]),
                 !.closed = TRUE]

\* The lamp: with plenty left a turn may or may not reach the values that
\* count.  Fresh batteries that are here are put in, an empty lamp goes out,
\* and outside the cave the game ends with it.
lampTimer(g) ==
  LET g1 == IF g.prop[LAMP] # 1 \/ (g.limit = LimitCap /\ ~g.luck.worn) THEN g
            ELSE [g EXCEPT !.limit = @ - 1]
      new == [g1 EXCEPT !.prop[BATTERIES] = 1, !.limit = LimitCap]
  IN  IF /\ g1.limit <= 30 /\ here(g1, BATTERIES) /\ g1.prop[BATTERIES] = 0
         /\ here(g1, LAMP)
      THEN IF toting(new, BATTERIES) THEN drop(new, BATTERIES, new.loc) ELSE new
      ELSE IF g1.limit = 0 THEN [g1 EXCEPT !.limit = -1, !.prop[LAMP] = 0]
      ELSE IF g1.limit < 0 /\ g1.loc <= 8 THEN normend([g1 EXCEPT !.gaveup = TRUE])
      ELSE g1

\* Special time limit stuff, and what follows it: a closing that has just been
\* completed ends the turn, else the words of the player are waited for.
\* Below -1 the clocks are not told apart.
stimer(g) ==
  LET wait(h) == [h EXCEPT !.phase = IF @ = "over" THEN @ ELSE "english", !.motion = 0]
      g1 == [g EXCEPT !.foobar = IF @ > 0 THEN -@ ELSE 0,
                      !.clock1 = IF g.tally = 0 /\ g.loc >= 15 /\ g.loc # 33 /\ @ >= 0
                                 THEN @ - 1 ELSE @]
      g2 == [g1 EXCEPT !.clock2 = IF g1.clock1 < 0 /\ @ >= 0 THEN @ - 1 ELSE @]
  IN  IF g1.clock1 = 0 THEN wait(startClosing(g1))
      ELSE IF g2.clock2 = 0 THEN closeCave(g2)
      ELSE wait(lampTimer(g2))

\* After the player has moved, or has not: in the closed cave what he picks up
\* is as it should be.
afterMove(g) ==
  LET woken == [i \in Object |-> IF toting(g, i) /\ g.prop[i] < 0 THEN -1 - g.prop[i]
                                                                    ELSE g.prop[i]]
      g1 == IF ~g.closed THEN g
            ELSE LET h == IF g.prop[OYSTER] < 0 /\ toting(g, OYSTER) THEN pspeak(g, OYSTER, 1)
                                                                     ELSE g
                 IN  [h EXCEPT !.prop = Array(woken)]
  IN  Then(g1, LAMBDA h : stimer([h EXCEPT !.wzdark = dark(h),
                                           !.knfloc = IF @ > 0 /\ @ # h.loc THEN 0 ELSE @]))

\* The player enters a room: he may be dead, fall on, or stumble in the dark.
enter(g0) ==
  LET g == [g0 EXCEPT !.loc = g0.newloc]
  IN  IF g.loc = 0 THEN death(g)
      ELSE IF forced(g.loc) THEN domove(g)
      ELSE IF g.wzdark /\ dark(g) /\ pct(g, 35) THEN death([g EXCEPT !.oldloc2 = g.loc])
      ELSE Then(IF dark(g) THEN g ELSE descitem(g), afterMove)

\* Routine to take 1 turn, up to the player's instructions.
turn(g) ==
  Then(dwarves(headed(g)), LAMBDA h : IF h.loc # h.newloc THEN enter(h) ELSE afterMove(h))

\* What the sentence asks for.
instructed(g) ==
  IF g.motion # 0 THEN domove(g) ELSE IF g.object # 0 THEN doobj(g) ELSE itverb(g)

\* The rest of the turn: the instructions of the player, a sentence s that
\* begins with w1.
obey(g, s, w1) ==
  [instructed([g EXCEPT !.phase = "turn", !.verb = s.verb, !.object = s.object,
                        !.motion = s.motion, !.word1 = w1])
     EXCEPT !.verb = 0, !.object = 0, !.word1 = ""]
=============================================================================
