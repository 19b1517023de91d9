------------------------------ MODULE AdvWorld ------------------------------
(***************************************************************************)
(* The state of a game of Colossal Cave and the small routines every other *)
(* routine is made of (app/adventure/database.c, and death and score of    *)
(* turn.c).  The global variables of the program are the fields of one     *)
(* record g; a routine is an operator from g to g.                         *)
(*                                                                         *)
(* g.luck holds what blimp_rand and the player's answer to a yes or no     *)
(* question will be in this step.  g.phase says where the program is:      *)
(* "turn", at the start of turn(); "english", waiting for words; "saved",  *)
(* suspended; "over", after exit.  g.fatal is the number given to bug().   *)
(*                                                                         *)
(* Left out: what is printed, and the variables that only choose between   *)
(* texts (turns, visited, detail, lmwarn, dkill).                          *)
(***************************************************************************)
EXTENDS AdvCave, FiniteSetsExt, SequencesExt

\* Objects.
KEYS == 1
LAMP == 2
GRATE == 3
CAGE == 4
ROD == 5
ROD2 == 6
STEPS == 7
BIRD == 8
DOOR == 9
PILLOW == 10
SNAKE == 11
FISSURE == 12
CLAM == 14
OYSTER == 15
MAGAZINE == 16
DWARF == 17
KNIFE == 18
FOOD == 19
BOTTLE == 20
WATER == 21
OIL == 22
MIRROR == 23
PLANT == 24
PLANT2 == 25
AXE == 28
DRAGON == 31
CHASM == 32
TROLL == 33
TROLL2 == 34
BEAR == 35
MESSAGE == 36
VEND == 38
BATTERIES == 39
NUGGET == 50
COINS == 54
CHEST == 55
EGGS == 56
TRIDENT == 57
VASE == 58
EMERALD == 59
PYRAMID == 60
PEARL == 61
RUG == 62
SPICES == 63
CHAIN == 64

\* The treasures: MAXTRS is 79, but there are no objects after the chain.
Treasure == 50 .. 64

DWARFMAX == 7
MAXDIE   == 3

\* Places initplay sets and nothing changes.
chloc   == 114
chloc2  == 140
daltloc == 18

----------------------------------------------------------------------------
\* Fatal error routine: the program exits.
bug(g, n) == [g EXCEPT !.phase = "over", !.fatal = n]

\* What follows a call that may have exited.
Then(g, Op(_)) == IF g.phase = "over" THEN g ELSE Op(g)

toting(g, item) == g.place[item] = -1
here(g, item)   == g.place[item] = g.loc \/ toting(g, item)
at(g, item)     == g.loc \in {g.place[item], g.fixed[item]}
dark(g)         == ~lit(g.loc) /\ (g.prop[LAMP] = 0 \/ ~here(g, LAMP))

\* Routine true x% of the time.
pct(g, x) == g.luck.roll < x

\* Routine to carry an object.
carry(g, obj) ==
  IF toting(g, obj) THEN g ELSE [g EXCEPT !.place[obj] = -1, !.holding = @ + 1]

\* Mutant: what is held is counted down for an object that was not.
drop_Always(g, obj, where) ==
  [g EXCEPT !.place[obj] = where, !.holding = @ - 1]

\* Routine to drop an object.
drop(g, obj, where) ==
  [g EXCEPT !.place[obj] = where, !.holding = IF toting(g, obj) THEN @ - 1 ELSE @]

\* A loop that drops the objects of S, wherever they are.
dropThose(g, S, Where(_)) ==
  [g EXCEPT !.place = Array([i \in Object |-> IF i \in S THEN Where(i) ELSE @[i]]),
            !.holding = @ - Cardinality({i \in S : toting(g, i)})]

\* A loop that drops everything that is carried.
dropAll(g, Where(_)) == dropThose(g, {i \in Object : toting(g, i)}, Where)

\* Routine to move an object; one that lies in a room is picked up first.
\* moveFixed is move of obj + MAXOBJ, its second place.
move(g, obj, where) ==
  drop(IF g.place[obj] \in 1 .. 300 THEN carry(g, obj) ELSE g, obj, where)
moveFixed(g, obj, where) == [g EXCEPT !.fixed[obj] = where]

dstroy(g, obj) == move(g, obj, 0)

\* Print a text of an item: there must be one.
pspeak(g, item, state) ==
  IF g.phase = "over" \/ TextFor(item, state) THEN g
  ELSE bug(g, IF slashes[item] = 0 THEN 31 ELSE 32)

\* Routine to check for presence of dwarves: the first one here, or 0.
dcheck(g) ==
  LET present == {i \in 1 .. DWARFMAX - 2 : g.dloc[i] = g.loc}
  IN  IF present = {} THEN 0 ELSE Min(present)

\* 0 is water, 1 nothing and 2 oil.
liq2(pbottle) == (1 - pbottle) * WATER + (pbottle \div 2) * (WATER + OIL)

\* Determine liquid in the bottle, and at a location.
liq(g) == LET i == g.prop[BOTTLE] IN liq2(IF i > -1 - i THEN i ELSE -1 - i)
watoil(loc) == IF Bit(cond[loc], WATOIL) THEN 2 ELSE 0
liqloc(loc) == IF Bit(cond[loc], LIQUID) THEN liq2(watoil(loc)) ELSE liq2(1)

----------------------------------------------------------------------------
\* The routine describe(): the state does not change.
\* Routine to describe visible items: a treasure seen for the first time is
\* counted, and when only lost ones are left the lamp has little time.
descitem(g) ==
  LET visible == {i \in Object : at(g, i) /\ ~(i = STEPS /\ toting(g, NUGGET))}
      found   == IF g.closed THEN {} ELSE {i \in visible : g.prop[i] < 0}
      prop1   == [i \in Object |-> IF i \notin found THEN g.prop[i]
                                   ELSE IF i \in {RUG, CHAIN} THEN 1 ELSE 0]
      tally1  == g.tally - Cardinality(found)
      state(i) == IF i = STEPS /\ g.loc = g.fixed[STEPS] THEN 1 ELSE prop1[i]
      silent  == {i \in visible : (g.closed /\ g.prop[i] < 0) \/ TextFor(i, state(i))}
      g1      == [g EXCEPT !.prop = Array(prop1), !.tally = tally1]
  IN  IF visible # silent THEN LET i == Min(visible \ silent) IN pspeak(g1, i, state(i))
      ELSE IF tally1 = g.tally2 /\ tally1 # 0 /\ g.limit > 35
      THEN [g1 EXCEPT !.limit = 35]
      ELSE g1

\* The points of a game that ends here.
bonusPoints == 0 :> 10 @@ 135 :> 25 @@ 134 :> 30 @@ 133 :> 45
score(g) ==
  LET worth(i)  == IF i = CHEST THEN 14 ELSE IF i > CHEST THEN 16 ELSE 12
      points(i) == (IF g.prop[i] >= 0 THEN 2 ELSE 0)
                   + (IF g.place[i] = 3 /\ g.prop[i] = 0 THEN worth(i) - 2 ELSE 0)
  IN  MapThenSumSet(points, Treasure)
      + (MAXDIE - g.numdie) * 10
      + (IF g.gaveup THEN 0 ELSE 4)
      + (IF g.dflag # 0 THEN 25 ELSE 0)
      + (IF g.closing THEN 25 ELSE 0)
      + (IF g.closed THEN bonusPoints[g.bonus] ELSE 0)
      + (IF g.place[MAGAZINE] = 108 THEN 1 ELSE 0)
      + 2

\* Normal end of game.
normend(g) == [g EXCEPT !.phase = "over"]

\* Mutant: what he carried goes home with him.
death_Home(g) ==
  IF g.closing THEN normend([g EXCEPT !.numdie = @ + 1])
  ELSE IF g.numdie + 1 >= MAXDIE \/ ~g.luck.answer
  THEN normend([g EXCEPT !.numdie = @ + 1])
  ELSE LET lost == [g EXCEPT !.numdie = @ + 1,
                             !.place[WATER] = 0, !.place[OIL] = 0,
                             !.prop[LAMP] = IF toting(g, LAMP) THEN 0 ELSE @]
           bare == dropAll(lost, LAMBDA i : IF i = LAMP THEN 1 ELSE 3)
       IN  [bare EXCEPT !.newloc = 3, !.oldloc = g.loc]

\* Routine to handle the passing on of one of the player's incarnations.
death(g) ==
  IF g.closing THEN normend([g EXCEPT !.numdie = @ + 1])
  ELSE IF g.numdie + 1 >= MAXDIE \/ ~g.luck.answer
  THEN normend([g EXCEPT !.numdie = @ + 1])
  ELSE LET lost == [g EXCEPT !.numdie = @ + 1,
                             !.place[WATER] = 0, !.place[OIL] = 0,
                             !.prop[LAMP] = IF toting(g, LAMP) THEN 0 ELSE @]
           bare == dropAll(lost, LAMBDA i : IF i = LAMP THEN 1 ELSE g.oldloc2)
       IN  [bare EXCEPT !.newloc = 3, !.oldloc = g.loc]

dwarfend(g) == normend(death(g))
=============================================================================
