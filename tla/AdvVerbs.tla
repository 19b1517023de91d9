------------------------------ MODULE AdvVerbs ------------------------------
(***************************************************************************)
(* What the words of the player do in Colossal Cave: trverb and the        *)
(* routines of the transitive verbs (app/adventure/verb.c), itverb and     *)
(* those of the intransitive ones (itverb.c), doobj and trobj (turn.c).    *)
(* A routine that only answers leaves g alone.                             *)
(***************************************************************************)
EXTENDS AdvMove, AdvVocab

\* TAKE is a word of TLA+.
TAKEN == 1
DROP == 2
OPEN == 4
NOTHING == 5
LOCK == 6
ON == 7
OFF == 8
WAVE == 9
WALK == 11
KILL == 12
POUR == 13
EAT == 14
DRINK == 15
THROW == 17
QUIT == 18
FEED == 21
FILL == 22
BLAST == 23
FOO == 25
READ == 27
BREAK == 28
WAKE == 29
SUSPEND == 30
INVENTORY == 20
LOG == 32
LOAD == 33

\* The bridge with the troll on it, and without.
trollGone(g)  == moveFixed(move(g, TROLL, 0), TROLL, 0)
trollLeaves(g) == moveFixed(move(trollGone(g), TROLL2, 117), TROLL2, 122)

\* vfill for the bottle: what flows here goes into it.
fillBottle(g) ==
  LET g1 == [g EXCEPT !.prop[BOTTLE] = watoil(g.loc)]
  IN  IF liq(g) # 0 \/ liqloc(g.loc) = 0 THEN g
      ELSE IF toting(g, BOTTLE) THEN [g1 EXCEPT !.place[liq(g1)] = -1]
      ELSE g1

\* Mutant: the cage stays behind when the bird in it is taken.
vtake_NoCage(g) ==
  LET g1  == IF g.object \in {WATER, OIL} THEN [g EXCEPT !.object = BOTTLE] ELSE g
      obj == g1.object
      full(h)   == h.holding >= 7
      wild      == obj = BIRD /\ g.prop[BIRD] = 0
      caught(h) == IF wild THEN [h EXCEPT !.prop[BIRD] = 1] ELSE h
      taken     == carry(caught(g1), obj)
  IN  IF toting(g, g.object) \/ g.fixed[g.object] # 0 THEN g
      ELSE IF g.object \in {WATER, OIL} /\ (~here(g, BOTTLE) \/ liq(g) # g.object)
      THEN IF toting(g, BOTTLE) /\ g.prop[BOTTLE] = 1 THEN fillBottle(g1) ELSE g1
      ELSE IF full(g1) \/ (wild /\ (toting(g, ROD) \/ ~toting(g, CAGE))) THEN g1
      ELSE IF obj = BOTTLE /\ liq(taken) # 0 THEN [taken EXCEPT !.place[liq(taken)] = -1]
      ELSE taken

\* CARRY, TAKE etc.  Water and oil are taken in the bottle; the bird is only
\* caught with the cage and without the rod, and the two go together from then.
vtake(g) ==
  LET g1  == IF g.object \in {WATER, OIL} THEN [g EXCEPT !.object = BOTTLE] ELSE g
      obj == g1.object
      full(h)   == h.holding >= 7
      wild      == obj = BIRD /\ g.prop[BIRD] = 0
      caught(h) == IF wild THEN [h EXCEPT !.prop[BIRD] = 1] ELSE h
      both(h)   == IF obj \in {BIRD, CAGE} /\ h.prop[BIRD] # 0
                   THEN carry(h, BIRD + CAGE - obj) ELSE h
      taken     == carry(both(caught(g1)), obj)
  IN  IF toting(g, g.object) \/ g.fixed[g.object] # 0 THEN g
      ELSE IF g.object \in {WATER, OIL} /\ (~here(g, BOTTLE) \/ liq(g) # g.object)
      THEN IF toting(g, BOTTLE) /\ g.prop[BOTTLE] = 1 THEN fillBottle(g1) ELSE g1
      ELSE IF full(g1) \/ (wild /\ (toting(g, ROD) \/ ~toting(g, CAGE))) THEN g1
      ELSE IF obj = BOTTLE /\ liq(taken) # 0 THEN [taken EXCEPT !.place[liq(taken)] = -1]
      ELSE taken

\* ROD stands for the dynamite if only that is carried.
dynamite(g) ==
  IF toting(g, ROD2) /\ g.object = ROD /\ ~toting(g, ROD) THEN [g EXCEPT !.object = ROD2] ELSE g

\* The end of vdrop: a liquid is dropped in its bottle, the bird in its cage.
letGo(g) ==
  LET i   == liq(g)
      obj == IF i = g.object THEN BOTTLE ELSE g.object
      g1  == IF obj = BOTTLE /\ i # 0 THEN [g EXCEPT !.place[i] = 0] ELSE g
      g2  == IF obj = CAGE /\ g.prop[BIRD] # 0 THEN drop(g1, BIRD, g.loc)
             ELSE IF obj = BIRD THEN [g1 EXCEPT !.prop[BIRD] = 0]
             ELSE g1
  IN  drop(g2, obj, g.loc)

\* DROP etc.
vdrop(g0) ==
  LET g   == dynamite(g0)
      obj == g.object
  IN  IF ~toting(g, obj) THEN g
      ELSE IF obj = BIRD /\ here(g, SNAKE)
      THEN Then(IF g.closed THEN dwarfend(g) ELSE g,
                LAMBDA h : letGo([dstroy(h, SNAKE) EXCEPT !.prop[SNAKE] = -1]))
      ELSE IF obj = COINS /\ here(g, VEND)
      THEN pspeak(drop(dstroy(g, COINS), BATTERIES, g.loc), BATTERIES, 0)
      ELSE IF obj = BIRD /\ at(g, DRAGON) /\ g.prop[DRAGON] = 0
      THEN [dstroy(g, BIRD) EXCEPT !.prop[BIRD] = 0,
                                   !.tally2 = IF g.place[SNAKE] # 0 THEN @ + 1 ELSE @]
      ELSE IF obj = BEAR /\ at(g, TROLL)
      THEN letGo([trollLeaves(g) EXCEPT !.prop[TROLL] = 2])
      ELSE IF obj = VASE /\ g.loc # 96
      THEN LET state == IF at(g, PILLOW) THEN 0 ELSE 2
               g1    == [g EXCEPT !.prop[VASE] = state,
                                  !.fixed[VASE] = IF state # 0 THEN -1 ELSE @]
           IN  Then(pspeak(g1, VASE, state + 1), letGo)
      ELSE letGo(g)

\* LOCK, UNLOCK, OPEN, CLOSE etc.
vopen(g) ==
  LET obj == g.object
  IN  CASE obj \in {CLAM, OYSTER} /\ g.verb # LOCK /\ toting(g, TRIDENT) /\ ~toting(g, obj) ->
             drop(drop(dstroy(g, CLAM), OYSTER, g.loc), PEARL, 105)
        [] obj = CHAIN /\ here(g, KEYS) /\ g.verb = LOCK /\ g.prop[CHAIN] = 0 /\ g.loc = 130 ->
             [(IF toting(g, CHAIN) THEN drop(g, CHAIN, g.loc) ELSE g) EXCEPT
                !.prop[CHAIN] = 2, !.fixed[CHAIN] = -1]
        [] obj = CHAIN /\ here(g, KEYS) /\ g.verb # LOCK /\ g.prop[BEAR] # 0
           /\ g.prop[CHAIN] # 0 ->
             LET tame == IF g.prop[BEAR] # 3 THEN 2 ELSE 3
             IN  [g EXCEPT !.prop[CHAIN] = 0, !.fixed[CHAIN] = 0,
                           !.prop[BEAR] = tame, !.fixed[BEAR] = 2 - tame]
        [] obj = GRATE /\ here(g, KEYS) /\ g.closing /\ ~g.panic ->
             [g EXCEPT !.clock2 = 15, !.panic = TRUE]
        [] obj = GRATE /\ here(g, KEYS) /\ ~g.closing ->
             [g EXCEPT !.prop[GRATE] = IF g.verb = LOCK THEN 0 ELSE 1]
        [] OTHER -> g

\* ON and OFF.
von(g) ==
  IF ~here(g, LAMP) \/ g.limit < 0 THEN g
  ELSE [g EXCEPT !.prop[LAMP] = 1, !.wzdark = FALSE]
voff(g) == IF here(g, LAMP) THEN [g EXCEPT !.prop[LAMP] = 0] ELSE g

\* WAVE etc.: the crystal bridge.
vwave(g) ==
  IF g.object # ROD \/ ~at(g, FISSURE) \/ ~toting(g, ROD) \/ g.closing THEN g
  ELSE LET g1 == [g EXCEPT !.prop[FISSURE] = 1 - @]
       IN  pspeak(g1, FISSURE, 2 - g1.prop[FISSURE])

\* The dragon dies: what lies at either end of its room is found in the middle.
slayDragon(g) ==
  LET dead == move(moveFixed([pspeak(g, DRAGON, 1) EXCEPT !.prop[DRAGON] = 2, !.prop[RUG] = 0],
                             DRAGON, -1), DRAGON, 120)
      rug  == move(moveFixed(dead, RUG, 0), RUG, 120)
      gathered == [i \in Object |-> IF rug.place[i] \in {119, 121} THEN 120 ELSE rug.place[i]]
  IN  [rug EXCEPT !.place = Array(gathered), !.newloc = 120]

\* ATTACK, KILL etc.
vkill(g) ==
  CASE g.object = BIRD /\ ~g.closed ->
         [dstroy(g, BIRD) EXCEPT !.prop[BIRD] = 0,
                                 !.tally2 = IF g.place[SNAKE] = 19 THEN @ + 1 ELSE @]
    [] g.object = DWARF /\ g.closed -> dwarfend(g)
    [] g.object = DRAGON /\ g.prop[DRAGON] = 0 /\ g.luck.answer -> slayDragon(g)
    [] OTHER -> g

\* Mutant: the top of the plant, seen from above, takes the state of its foot.
vpour_SameState(g0) ==
  LET g   == IF g0.object \in {BOTTLE, 0} THEN [g0 EXCEPT !.object = liq(g0)] ELSE g0
      obj == g.object
      out == [g EXCEPT !.prop[BOTTLE] = 1, !.place[obj] = 0]
  IN  IF obj \notin {OIL, WATER} \/ ~toting(g, obj) THEN g
      ELSE IF at(g, PLANT)
      THEN IF obj # WATER THEN out
           ELSE LET size == (g.prop[PLANT] + 2) % 6
                IN  Then(pspeak(out, PLANT, g.prop[PLANT] + 1),
                         LAMBDA h : [h EXCEPT !.prop[PLANT] = size, !.prop[PLANT2] = size])
      ELSE IF at(g, DOOR) THEN [out EXCEPT !.prop[DOOR] = IF obj = OIL THEN 1 ELSE 0]
      ELSE out

\* POUR: the plant drinks water, the door wants oil.
vpour(g0) ==
  LET g   == IF g0.object \in {BOTTLE, 0} THEN [g0 EXCEPT !.object = liq(g0)] ELSE g0
      obj == g.object
      out == [g EXCEPT !.prop[BOTTLE] = 1, !.place[obj] = 0]
  IN  IF obj \notin {OIL, WATER} \/ ~toting(g, obj) THEN g
      ELSE IF at(g, PLANT)
      THEN IF obj # WATER THEN out
           ELSE LET size == (g.prop[PLANT] + 2) % 6
                IN  Then(pspeak(out, PLANT, g.prop[PLANT] + 1),
                         LAMBDA h : [h EXCEPT !.prop[PLANT] = size, !.prop[PLANT2] = size \div 2])
      ELSE IF at(g, DOOR) THEN [out EXCEPT !.prop[DOOR] = IF obj = OIL THEN 1 ELSE 0]
      ELSE out

\* EAT and DRINK.
veat(g) == IF g.object = FOOD THEN dstroy(g, FOOD) ELSE g
vdrink(g) ==
  IF g.object # WATER \/ liq(g) # WATER \/ ~here(g, BOTTLE) THEN g
  ELSE [g EXCEPT !.prop[BOTTLE] = 1, !.place[WATER] = 0]

\* FEED.
vfeed(g) ==
  CASE g.object = DWARF /\ here(g, FOOD) -> [g EXCEPT !.dflag = @ + 1]
    [] g.object = BEAR /\ here(g, FOOD) ->
         [dstroy(g, FOOD) EXCEPT !.prop[BEAR] = 1, !.fixed[AXE] = 0, !.prop[AXE] = 0]
    [] g.object = SNAKE /\ ~g.closed /\ here(g, BIRD) ->
         [dstroy(g, BIRD) EXCEPT !.prop[BIRD] = 0, !.tally2 = @ + 1]
    [] OTHER -> g

\* ATTACK without an object: the one thing here that can be attacked.
ivkill(g) ==
  LET foes == (IF dcheck(g) # 0 /\ g.dflag >= 2 THEN {DWARF} ELSE {})
              \cup (IF here(g, SNAKE) THEN {SNAKE} ELSE {})
              \cup (IF at(g, DRAGON) /\ g.prop[DRAGON] = 0 THEN {DRAGON} ELSE {})
              \cup (IF at(g, TROLL) THEN {TROLL} ELSE {})
              \cup (IF here(g, BEAR) /\ g.prop[BEAR] = 0 THEN {BEAR} ELSE {})
      meek == (IF here(g, BIRD) /\ g.verb # THROW THEN {BIRD} ELSE {})
              \cup (IF here(g, CLAM) \/ here(g, OYSTER) THEN {CLAM} ELSE {})
      aims == IF foes # {} THEN foes ELSE meek
  IN  IF Cardinality(aims) > 1 THEN g
      ELSE vkill([g EXCEPT !.object = IF aims = {} THEN 0 ELSE Min(aims)])

\* The axe is thrown at the first of a dwarf, the dragon, the troll, a bear.
throwAxe(g) ==
  LET i == dcheck(g)
  IN  IF i # 0
      THEN drop(IF pct(g, 33) THEN [g EXCEPT !.dseen[i] = FALSE, !.dloc[i] = 0] ELSE g,
                AXE, g.loc)
      ELSE IF (at(g, DRAGON) /\ g.prop[DRAGON] = 0) \/ at(g, TROLL) THEN drop(g, AXE, g.loc)
      ELSE IF here(g, BEAR) /\ g.prop[BEAR] = 0
      THEN [drop(g, AXE, g.loc) EXCEPT !.fixed[AXE] = -1, !.prop[AXE] = 1]
      ELSE ivkill([g EXCEPT !.verb = KILL, !.object = 0])

\* Mutant: the troll that takes a treasure goes from one end of the bridge only.
vthrow_HalfTroll(g0) ==
  LET g == dynamite(g0)
  IN  IF ~toting(g, g.object) THEN g
      ELSE IF at(g, TROLL) /\ g.object >= 50
      THEN moveFixed(drop(move(drop(g, g.object, 0), TROLL, 0), TROLL2, 117), TROLL2, 122)
      ELSE IF g.object = FOOD /\ here(g, BEAR) THEN vfeed([g EXCEPT !.object = BEAR])
      ELSE IF g.object # AXE THEN vdrop(g)
      ELSE throwAxe(g)

\* THROW etc.: a treasure at the troll pays for the bridge.
vthrow(g0) ==
  LET g == dynamite(g0)
  IN  IF ~toting(g, g.object) THEN g
      ELSE IF at(g, TROLL) /\ g.object >= 50
      THEN moveFixed(drop(trollGone(drop(g, g.object, 0)), TROLL2, 117), TROLL2, 122)
      ELSE IF g.object = FOOD /\ here(g, BEAR) THEN vfeed([g EXCEPT !.object = BEAR])
      ELSE IF g.object # AXE THEN vdrop(g)
      ELSE throwAxe(g)

\* FILL: a vase that is filled is dropped.
vfill(g) ==
  CASE g.object = BOTTLE -> fillBottle(g)
    [] g.object = VASE /\ liqloc(g.loc) # 0 /\ toting(g, VASE) -> vdrop(g)
    [] OTHER -> g

\* BLAST etc.: the end of the game in the repository.
vblast(g) ==
  IF g.prop[ROD2] < 0 \/ ~g.closed THEN g
  ELSE normend([g EXCEPT !.bonus = IF here(g, ROD2) THEN 135
                                   ELSE IF g.loc = 115 THEN 134 ELSE 133])

\* BREAK etc.
vbreak(g) ==
  CASE g.object = MIRROR /\ g.closed -> dwarfend(g)
    [] g.object = VASE /\ g.prop[VASE] = 0 ->
         [(IF toting(g, VASE) THEN drop(g, VASE, g.loc) ELSE g) EXCEPT
            !.prop[VASE] = 2, !.fixed[VASE] = -1]
    [] OTHER -> g

vwake(g) == IF g.object = DWARF /\ g.closed THEN dwarfend(g) ELSE g

----------------------------------------------------------------------------
\* Routine to process a transitive verb; LOG is answered with a message that
\* actspk does not have.
trverb(g) ==
  CASE g.verb = TAKEN -> vtake(g)
    [] g.verb = DROP -> vdrop(g)
    [] g.verb \in {OPEN, LOCK} -> vopen(g)
    [] g.verb = ON -> von(g)
    [] g.verb = OFF -> voff(g)
    [] g.verb = WAVE -> vwave(g)
    [] g.verb = KILL -> vkill(g)
    [] g.verb = POUR -> vpour(g)
    [] g.verb = EAT -> veat(g)
    [] g.verb = DRINK -> vdrink(g)
    [] g.verb = THROW -> vthrow(g)
    [] g.verb = FEED -> vfeed(g)
    [] g.verb = FILL -> vfill(g)
    [] g.verb = BLAST -> vblast(g)
    [] g.verb = BREAK -> vbreak(g)
    [] g.verb = WAKE -> vwake(g)
    [] g.verb = LOG -> bug(g, 39)
    [] OTHER -> g

\* TAKE without an object: the only thing here, unless a dwarf watches.
ivtake(g) ==
  LET things == {i \in Object : g.place[i] = g.loc}
  IN  IF Cardinality(things) # 1 \/ (dcheck(g) # 0 /\ g.dflag >= 2) THEN g
      ELSE vtake([g EXCEPT !.object = Min(things)])

\* OPEN, LOCK without an object.
ivopen(g) ==
  LET obj == IF at(g, GRATE) THEN GRATE
             ELSE IF at(g, DOOR) THEN DOOR
             ELSE IF here(g, OYSTER) THEN OYSTER
             ELSE IF here(g, CLAM) THEN CLAM ELSE 0
      both == here(g, CHAIN) /\ obj # 0
      aim  == IF here(g, CHAIN) THEN CHAIN ELSE obj
  IN  IF both \/ aim = 0 THEN g ELSE vopen([g EXCEPT !.object = aim])

\* Handle fee fie foe foo: the words in their order bring the eggs back.
ivfoo(g) ==
  LET k    == vocab(g.word1, 3000)
      said == [g EXCEPT !.foobar = 0,
                        !.prop[TROLL] = IF g.place[EGGS] = 0 /\ g.place[TROLL] = 0 /\ @ = 0
                                        THEN 1 ELSE @]
      kind == IF here(g, EGGS) THEN 1 ELSE IF g.loc = 92 THEN 0 ELSE 2
  IN  IF g.foobar # 1 - k THEN g
      ELSE IF k # 4 THEN [g EXCEPT !.foobar = k]
      ELSE IF g.place[EGGS] = 92 \/ (toting(g, EGGS) /\ g.loc = 92) THEN [g EXCEPT !.foobar = 0]
      ELSE pspeak(move(said, EGGS, 92), EGGS, kind)

\* INVENTORY: a text for everything that is carried.
inventory(g) ==
  LET mute == {i \in Object \ {BEAR} : toting(g, i) /\ ~TextFor(i, -1)}
  IN  IF mute = {} THEN g ELSE pspeak(g, Min(mute), -1)

\* Routines to process intransitive verbs.
itverb(g) ==
  LET with(obj) == [g EXCEPT !.object = obj]
  IN  CASE g.verb = TAKEN -> ivtake(g)
        [] g.verb \in {OPEN, LOCK} -> ivopen(g)
        [] g.verb \in {ON, OFF, POUR} -> trverb(g)
        [] g.verb = KILL -> ivkill(g)
        [] g.verb = EAT /\ here(g, FOOD) -> veat(with(FOOD))
        [] g.verb = DRINK /\ (liqloc(g.loc) = WATER \/ (liq(g) = WATER /\ here(g, BOTTLE))) ->
             vdrink(with(WATER))
        [] g.verb = QUIT -> IF g.luck.answer THEN normend([g EXCEPT !.gaveup = TRUE])
                                             ELSE [g EXCEPT !.gaveup = FALSE]
        [] g.verb = FILL /\ here(g, BOTTLE) -> vfill(with(BOTTLE))
        [] g.verb = BLAST -> vblast(g)
        [] g.verb = FOO -> ivfoo(g)
        [] g.verb = SUSPEND -> [g EXCEPT !.phase = "saved"]
        [] g.verb = INVENTORY -> inventory(g)
        [] g.verb = LOAD -> [g EXCEPT !.phase = "load"]
        [] OTHER -> g

\* Routine to process an object being referred to.
trobj(g) == IF g.verb # 0 THEN trverb(g) ELSE g

\* Routine to process an object: one that is not here may stand for the way to
\* the grate, a dwarf, a liquid, the top of the plant, a knife or the dynamite.
doobj(g) ==
  LET obj == g.object
      as(o) == trobj([g EXCEPT !.object = o])
  IN  IF g.fixed[obj] = g.loc \/ here(g, obj) THEN trobj(g)
      ELSE IF obj = GRATE
      THEN IF g.loc \in {1, 4, 7} THEN domove([g EXCEPT !.motion = DEPRESSION])
           ELSE IF g.loc \in 10 .. 14 THEN domove([g EXCEPT !.motion = ENTRANCE])
           ELSE g
      ELSE IF dcheck(g) # 0 /\ g.dflag >= 2 THEN as(DWARF)
      ELSE IF (liq(g) = obj /\ here(g, BOTTLE)) \/ liqloc(g.loc) = obj THEN trobj(g)
      ELSE IF obj = PLANT /\ at(g, PLANT2) /\ g.prop[PLANT2] = 0 THEN as(PLANT2)
      ELSE IF obj = KNIFE /\ g.knfloc = g.loc THEN [g EXCEPT !.knfloc = -1]
      ELSE IF obj = ROD /\ here(g, ROD2) THEN as(ROD2)
      ELSE g
=============================================================================
