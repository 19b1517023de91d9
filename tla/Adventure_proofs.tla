------------------------- MODULE Adventure_proofs -------------------------
(***************************************************************************)
(* The invariants of Adventure, for every game: whatever the player says,  *)
(* in any order, whatever blimp_rand gives, however long the lamp lasts,   *)
(* and with any number of saved games in between.                          *)
(*                                                                         *)
(* The argument follows the calls.  Of every routine one lemma says that   *)
(* it leads from a game to a game: the counter holding in step with the    *)
(* places, what goes together together, the clocks and the closing alone.  *)
(* Routines that touch none of this are plain; move, carry and drop are    *)
(* plain for all but the few objects that go with others, and for these    *)
(* the routine that moves them moves both.  A turn, and a sentence, is     *)
(* such a routine after another.                                           *)
(*                                                                         *)
(* The invariant IInv adds the file: it holds the game that was left, as   *)
(* far as it goes, and that game is sound too.  A game read from a file    *)
(* that stops short is marked (torn), and nothing more is said of it than  *)
(* that a whole file is read back exactly.                                 *)
(*                                                                         *)
(* One thing is not kept by every sentence.  TAKE picks up whatever lies   *)
(* where the player is, and a player who looks around while a dwarf blocks *)
(* his way is in room 0, where everything is that is nowhere: the end of   *)
(* the bridge at which the troll is not shown among it.  So the bridge     *)
(* needs that the player is somewhere when he is asked for words.          *)
(***************************************************************************)
EXTENDS Adventure, FiniteSetTheorems, SequenceTheorems, WellFoundedInduction, TLAPS

-----------------------------------------------------------------------------
(* What a game is.                                                         *)

\* The variables of the program.
Fields ==
  {"loc", "newloc", "oldloc", "oldloc2", "place", "fixed", "prop", "tally", "tally2", "limit", "wzdark",
   "closing", "closed", "holding", "knfloc", "clock1", "clock2", "panic", "dloc", "odloc", "dseen",
   "dflag", "bonus", "numdie", "foobar", "gaveup", "verb", "object", "motion", "word1", "phase",
   "fatal", "luck"}

\* How many objects a player carries, the liquids not counted.
Held(p) == Cardinality({i \in Object \ {WATER, OIL} : p[i] = -1})

\* The numbers a location can have: spcmove may lead from a room to 199 less it.
Loc == 0 .. 199

Shape(g) == DOMAIN g = Fields

\* The places and states of the objects, and where the player is.
Typed(s) ==
  /\ s.place \in [Object -> Int] /\ s.fixed \in [Object -> Int] /\ s.prop \in [Object -> Int]
  /\ s.prop[BOTTLE] \in -3 .. 2
  /\ s.holding \in Int
  /\ s.loc \in Loc /\ s.newloc \in Loc /\ s.oldloc \in Loc /\ s.oldloc2 \in Loc
  /\ s.closed \in BOOLEAN

\* What fits together until the cave is closed: the counter and the places, the
\* liquid and the bottle, the bird and the cage.
Kept(s) ==
  ~s.closed =>
    /\ s.prop[BOTTLE] \in 0 .. 2 /\ s.prop[BIRD] \in 0 .. 1
    /\ s.holding = Held(s.place)
    /\ \A i \in {WATER, OIL} : s.place[i] = -1 => s.place[BOTTLE] = -1 /\ liq(s) = i
    /\ s.prop[BIRD] = 1 => s.place[BIRD] = s.place[CAGE]

\* All of this is a game.
Game(g) == Shape(g) /\ Typed(g) /\ Kept(g)

\* The troll holds his bridge.
Bridge(s) ==
  /\ s.prop[CHASM] \in 0 .. 1 /\ s.prop[TROLL] \in 0 .. 2
  /\ s.prop[CHASM] = 1 => s.prop[TROLL] = 2
  /\ \/ /\ s.place[TROLL] = 117 /\ s.fixed[TROLL] = 122
        /\ s.place[TROLL2] = 0 /\ s.fixed[TROLL2] = 0
     \/ /\ s.place[TROLL] = 0 /\ s.fixed[TROLL] = 0
        /\ s.place[TROLL2] = 117 /\ s.fixed[TROLL2] = 122

\* What routines other than the clocks' leave alone; only the first attempt to
\* get out of the closing cave gives the player more time.
Frame(g, h) ==
  /\ h.clock1 = g.clock1 /\ h.closing = g.closing /\ h.closed = g.closed
  /\ \/ h.clock2 = g.clock2 /\ h.panic = g.panic
     \/ g.closing /\ ~g.panic /\ h.clock2 = 15 /\ h.panic = TRUE
  /\ h.phase = "over" \/ (h.phase = g.phase /\ h.fatal = g.fatal)

\* h is a game that may follow g, as far as the clocks do not run.
Follows(g, h) == Game(h) /\ Frame(g, h) /\ (Bridge(g) => Bridge(h))

\* The objects that go with others, and the two ends of the bridge.
Paired == {CAGE, BIRD, BOTTLE, WATER, OIL}
Ends == {TROLL, TROLL2}

\* A change that disturbs nothing of what goes together.
Tidy(g, h) ==
  /\ Shape(h) /\ Typed(h) /\ Frame(g, h)
  /\ \A i \in Paired : h.place[i] = g.place[i]
  /\ h.prop[BOTTLE] = g.prop[BOTTLE] /\ h.prop[BIRD] = g.prop[BIRD]
  /\ h.holding - Held(h.place) = g.holding - Held(g.place)

\* The bridge is as it was.
SameBridge(g, h) ==
  /\ \A i \in Ends : h.place[i] = g.place[i] /\ h.fixed[i] = g.fixed[i]
  /\ h.prop[TROLL] = g.prop[TROLL] /\ h.prop[CHASM] = g.prop[CHASM]

\* A change of no consequence.
Plain(g, h) == Tidy(g, h) /\ SameBridge(g, h)

USE DEF KEYS, LAMP, GRATE, CAGE, ROD, ROD2, STEPS, BIRD, DOOR, PILLOW, SNAKE, FISSURE, CLAM, OYSTER,
  MAGAZINE, DWARF, KNIFE, FOOD, BOTTLE, WATER, OIL, MIRROR, PLANT, PLANT2, AXE, DRAGON, CHASM, TROLL,
  TROLL2, BEAR, MESSAGE, VEND, BATTERIES, NUGGET, COINS, CHEST, EGGS, TRIDENT, VASE, EMERALD, PYRAMID,
  PEARL, RUG, SPICES, CHAIN, Object

\* The function Array tabulates for TLC is the function itself.
LEMMA ArrayIsItself ==
  ASSUME NEW n \in Nat, NEW S, NEW f \in [1 .. n -> S]
  PROVE  Array(f) = f
<1>1. f \in Seq(S)
  BY SeqDef
<1>. QED  BY <1>1, ConcatEmptySeq DEF Array

\* What is held is a number of objects, of a finite set of them.
LEMMA HeldType ==
  ASSUME NEW p
  PROVE  /\ Held(p) \in Nat
         /\ IsFiniteSet({i \in Object \ {WATER, OIL} : p[i] = -1})
<1>1. IsFiniteSet(1 .. 64)
  BY FS_Interval, 1 \in Int, 64 \in Int, Zenon
<1>2. IsFiniteSet({i \in Object \ {WATER, OIL} : p[i] = -1})
  <2>1. {i \in Object \ {WATER, OIL} : p[i] = -1} \subseteq 1 .. 64
    OBVIOUS
  <2>. QED  BY <2>1, <1>1, FS_Subset
<1>. QED  BY <1>2, FS_CardinalityType DEF Held

\* The same, for arithmetic.
LEMMA HeldIsInt ==
  ASSUME NEW p
  PROVE  Held(p) \in Int
<1>1. Held(p) \in Nat
  BY HeldType, Zenon
<1>. QED  BY <1>1

\* An object that was not held and is not now does not count.
LEMMA HeldSame ==
  ASSUME NEW p \in [Object -> Int], NEW obj \in Object, NEW w, w # -1, p[obj] # -1
  PROVE  Held([p EXCEPT ![obj] = w]) = Held(p)
<1>1. {i \in Object \ {WATER, OIL} : [p EXCEPT ![obj] = w][i] = -1} = {i \in Object \ {WATER, OIL} : p[i] = -1}
  OBVIOUS
<1>. QED  BY <1>1, Zenon DEF Held

\* An object that is picked up is one more.
LEMMA HeldMore ==
  ASSUME NEW p \in [Object -> Int], NEW obj \in Object \ {WATER, OIL}, p[obj] # -1
  PROVE  Held([p EXCEPT ![obj] = -1]) = Held(p) + 1
<1> DEFINE C(q) == {i \in Object \ {WATER, OIL} : q[i] = -1}
<1>1. C([p EXCEPT ![obj] = -1]) = C(p) \cup {obj} /\ obj \notin C(p)
  OBVIOUS
<1>2. IsFiniteSet(C(p))
  BY HeldType
<1> HIDE DEF C
<1>3. Cardinality(C([p EXCEPT ![obj] = -1])) = Cardinality(C(p)) + 1
  BY <1>1, <1>2, FS_AddElement
<1>. QED  BY <1>3, Zenon DEF Held, C

\* An object that is let go is one less.
LEMMA HeldLess ==
  ASSUME NEW p \in [Object -> Int], NEW obj \in Object \ {WATER, OIL}, p[obj] = -1, NEW w, w # -1
  PROVE  Held([p EXCEPT ![obj] = w]) = Held(p) - 1
<1> DEFINE C(q) == {i \in Object \ {WATER, OIL} : q[i] = -1}
<1>1. C([p EXCEPT ![obj] = w]) = C(p) \ {obj} /\ obj \in C(p)
  OBVIOUS
<1>2. IsFiniteSet(C(p))
  BY HeldType
<1> HIDE DEF C
<1>3. Cardinality(C([p EXCEPT ![obj] = w])) = Cardinality(C(p)) - 1
  BY <1>1, <1>2, FS_RemoveElement
<1>. QED  BY <1>3, Zenon DEF Held, C

\* A tidy change leaves a game.
LEMMA TidyGame ==
  ASSUME NEW g, NEW h, Game(g), Tidy(g, h)
  PROVE  Game(h) /\ Frame(g, h)
<1> SUFFICES ASSUME ~h.closed PROVE Kept(h)
  BY DEF Kept, Tidy, Game
<1>1. ~g.closed
  BY DEF Tidy, Frame
<1>2. h.holding = Held(h.place)
  <2>1. Held(h.place) \in Int /\ Held(g.place) \in Int
    BY HeldIsInt
  <2>2. h.holding \in Int /\ g.holding \in Int
    BY DEF Game, Tidy, Typed
  <2>3. g.holding = Held(g.place)
    BY <1>1 DEF Game, Kept
  <2>4. h.holding - Held(h.place) = g.holding - Held(g.place)
    BY DEF Tidy
  <2>. QED  BY <2>1, <2>2, <2>3, <2>4
<1>3. liq(h) = liq(g)
  BY DEF Tidy, liq
<1>. QED  BY <1>1, <1>2, <1>3 DEF Kept, Tidy, Paired, Game

\* A plain change leaves a game, and leaves the bridge alone.
LEMMA PlainFollows ==
  ASSUME NEW g, NEW h, Game(g), Plain(g, h)
  PROVE  Follows(g, h)
<1>1. Game(h) /\ Frame(g, h)
  BY TidyGame DEF Plain
<1>2. Bridge(g) => Bridge(h)
  BY DEF Plain, SameBridge, Bridge, Ends
<1>. QED  BY <1>1, <1>2 DEF Follows

\* What two routines in a row leave alone.
LEMMA FrameTrans ==
  ASSUME NEW g, NEW h, NEW k, Frame(g, h), Frame(h, k)
  PROVE  Frame(g, k)
  BY DEF Frame

\* Two tidy changes are one.
LEMMA TidyTrans ==
  ASSUME NEW g, NEW h, NEW k, Tidy(g, h), Tidy(h, k)
  PROVE  Tidy(g, k)
  BY FrameTrans DEF Tidy

\* Two plain changes are one.
LEMMA PlainTrans ==
  ASSUME NEW g, NEW h, NEW k, Plain(g, h), Plain(h, k)
  PROVE  Plain(g, k)
  BY TidyTrans DEF Plain, SameBridge

\* A routine that changes nothing is plain.
LEMMA PlainSelf ==
  ASSUME NEW g, Game(g)
  PROVE  Plain(g, g) /\ Follows(g, g)
  BY DEF Plain, Tidy, SameBridge, Frame, Game, Follows

\* One routine after another.
LEMMA FollowsTrans ==
  ASSUME NEW g, NEW h, NEW k, Follows(g, h), Follows(h, k)
  PROVE  Follows(g, k)
  BY FrameTrans DEF Follows

\* h is g with other places, and the counter keeps step with them.
Moved(g, h, p) ==
  /\ Shape(h) /\ Typed(h) /\ h.place = p
  /\ h.holding - Held(p) = g.holding - Held(g.place)
  /\ \A f \in Fields \ {"place", "holding"} : h[f] = g[f]

\* drop puts the object down and counts it if it was carried.
LEMMA DropDoes ==
  ASSUME NEW g, Shape(g), Typed(g), NEW obj \in Object \ {WATER, OIL}, NEW where \in Nat
  PROVE  Moved(g, drop(g, obj, where), [g.place EXCEPT ![obj] = where])
<1> DEFINE h == drop(g, obj, where)
<1>1. /\ h.place = [g.place EXCEPT ![obj] = where]
      /\ h.holding = IF g.place[obj] = -1 THEN g.holding - 1 ELSE g.holding
  BY DEF drop, toting, Shape, Fields
<1>2. h.holding - Held(h.place) = g.holding - Held(g.place)
  <2>1. g.place \in [Object -> Int] /\ obj \in Object \ {WATER, OIL} /\ g.holding \in Int
    BY DEF Typed
  <2>2. Held(h.place) \in Int /\ Held(g.place) \in Int
    BY HeldIsInt
  <2> HIDE DEF h
  <2>3. CASE g.place[obj] = -1
    <3>1. where # -1
      OBVIOUS
    <3>2. Held([g.place EXCEPT ![obj] = where]) = Held(g.place) - 1
      BY <2>1, <2>3, <3>1, HeldLess
    <3>. QED  BY <1>1, <2>1, <2>2, <2>3, <3>2
  <2>4. CASE g.place[obj] # -1
    <3>1. where # -1 /\ obj \in Object
      OBVIOUS
    <3>2. Held([g.place EXCEPT ![obj] = where]) = Held(g.place)
      BY <2>1, <2>4, <3>1, HeldSame, Zenon
    <3>3. Held(h.place) = Held(g.place)
      BY <1>1, <3>2, Zenon
    <3>. QED  BY <1>1, <2>1, <2>2, <2>4, <3>3
  <2>. QED  BY <2>3, <2>4
<1>3. Shape(h) /\ \A f \in Fields \ {"place", "holding"} : h[f] = g[f]
  BY DEF drop, Shape
<1>4. Typed(h)
  BY <1>1, <1>3 DEF Typed, Fields
<1>. QED  BY <1>1, <1>2, <1>3, <1>4, Zenon DEF Moved

\* carry picks the object up and counts it, once.
LEMMA CarryDoes ==
  ASSUME NEW g, Shape(g), Typed(g), NEW obj \in Object \ {WATER, OIL}
  PROVE  Moved(g, carry(g, obj), [g.place EXCEPT ![obj] = -1])
<1> DEFINE h == carry(g, obj)
<1>1. /\ h.place = [g.place EXCEPT ![obj] = -1]
      /\ h.holding = IF g.place[obj] = -1 THEN g.holding ELSE g.holding + 1
  BY DEF carry, toting, Shape, Fields, Typed
<1>2. h.holding - Held(h.place) = g.holding - Held(g.place)
  <2>1. g.place \in [Object -> Int] /\ obj \in Object \ {WATER, OIL} /\ g.holding \in Int
    BY DEF Typed
  <2>2. Held(h.place) \in Int /\ Held(g.place) \in Int
    BY HeldIsInt
  <2> HIDE DEF h
  <2>3. CASE g.place[obj] = -1
    <3>1. [g.place EXCEPT ![obj] = -1] = g.place
      BY <2>1, <2>3
    <3>. QED  BY <1>1, <2>1, <2>2, <2>3, <3>1
  <2>4. CASE g.place[obj] # -1
    <3>1. Held([g.place EXCEPT ![obj] = -1]) = Held(g.place) + 1
      BY <2>1, <2>4, HeldMore
    <3>. QED  BY <1>1, <2>1, <2>2, <2>4, <3>1
  <2>. QED  BY <2>3, <2>4
<1>3. Shape(h) /\ \A f \in Fields \ {"place", "holding"} : h[f] = g[f]
  BY DEF carry, Shape
<1>4. Typed(h)
  BY <1>1, <1>3 DEF Typed, Fields
<1>. QED  BY <1>1, <1>2, <1>3, <1>4, Zenon DEF Moved

\* Two moves in a row.
LEMMA MovedTrans ==
  ASSUME NEW g, NEW h, NEW k, NEW p, NEW q, Moved(g, h, p), Moved(h, k, q)
  PROVE  Moved(g, k, q)
  BY DEF Moved

\* move, whose carry and drop count up and down again, only moves.
LEMMA MoveDoes ==
  ASSUME NEW g, Shape(g), Typed(g), NEW obj \in Object \ {WATER, OIL}, NEW where \in Nat
  PROVE  Moved(g, move(g, obj, where), [g.place EXCEPT ![obj] = where])
<1>1. CASE g.place[obj] \in 1 .. 300
  <2> DEFINE c == carry(g, obj)
  <2>1. Moved(g, c, [g.place EXCEPT ![obj] = -1])
    BY CarryDoes
  <2>2. Moved(c, drop(c, obj, where), [c.place EXCEPT ![obj] = where])
    BY <2>1, DropDoes DEF Moved
  <2>3. [c.place EXCEPT ![obj] = where] = [g.place EXCEPT ![obj] = where]
    BY <2>1 DEF Moved, Typed
  <2>. QED  BY <1>1, <2>1, <2>2, <2>3, MovedTrans DEF move
<1>2. CASE g.place[obj] \notin 1 .. 300
  BY <1>2, DropDoes DEF move
<1>. QED  BY <1>1, <1>2

\* Moving an object that goes with no other is tidy, and plain if it is no end
\* of the bridge.
LEMMA MovedTidy ==
  ASSUME NEW g, NEW h, Game(g), NEW obj \in Object \ Paired, NEW w,
         Moved(g, h, [g.place EXCEPT ![obj] = w])
  PROVE  /\ Tidy(g, h)
         /\ obj \notin Ends => Plain(g, h)
<1>1. Frame(g, h) /\ h.fixed = g.fixed /\ h.prop = g.prop
  BY DEF Moved, Frame, Fields
<1>2. \A i \in Object \ {obj} : h.place[i] = g.place[i]
  BY DEF Moved, Typed, Game
<1>3. Tidy(g, h)
  BY <1>1, <1>2 DEF Tidy, Moved, Paired
<1>4. obj \notin Ends => SameBridge(g, h)
  BY <1>1, <1>2 DEF SameBridge, Ends
<1>. QED  BY <1>3, <1>4 DEF Plain

\* So drop is tidy,
LEMMA DropPlain ==
  ASSUME NEW g, Game(g), NEW obj \in Object \ Paired, NEW where \in Loc
  PROVE  /\ Tidy(g, drop(g, obj, where))
         /\ obj \notin Ends => Plain(g, drop(g, obj, where))
<1>1. obj \in Object \ {WATER, OIL} /\ where \in Nat
  BY DEF Paired, Loc
<1>2. Moved(g, drop(g, obj, where), [g.place EXCEPT ![obj] = where])
  BY <1>1, DropDoes DEF Game
<1>. QED  BY <1>2, MovedTidy

\* so carry is,
LEMMA CarryPlain ==
  ASSUME NEW g, Game(g), NEW obj \in Object \ Paired
  PROVE  /\ Tidy(g, carry(g, obj))
         /\ obj \notin Ends => Plain(g, carry(g, obj))
<1>1. obj \in Object \ {WATER, OIL}
  BY DEF Paired
<1>2. Moved(g, carry(g, obj), [g.place EXCEPT ![obj] = -1])
  BY <1>1, CarryDoes DEF Game
<1>. QED  BY <1>2, MovedTidy

\* and so is move.
LEMMA MovePlain ==
  ASSUME NEW g, Game(g), NEW obj \in Object \ Paired, NEW where \in Loc
  PROVE  /\ Tidy(g, move(g, obj, where))
         /\ obj \notin Ends => Plain(g, move(g, obj, where))
<1>1. obj \in Object \ {WATER, OIL} /\ where \in Nat
  BY DEF Paired, Loc
<1>2. Moved(g, move(g, obj, where), [g.place EXCEPT ![obj] = where])
  BY <1>1, MoveDoes DEF Game
<1>. QED  BY <1>2, MovedTidy

\* A routine that moves nothing, and leaves the bottle and the bird as they are.
LEMMA StillPlain ==
  ASSUME NEW g, Game(g), NEW h, Shape(h), Frame(g, h),
         h.place = g.place, h.holding = g.holding,
         h.fixed \in [Object -> Int],
         h.fixed[TROLL] = g.fixed[TROLL], h.fixed[TROLL2] = g.fixed[TROLL2],
         h.prop \in [Object -> Int],
         h.prop[BOTTLE] = g.prop[BOTTLE], h.prop[BIRD] = g.prop[BIRD],
         h.prop[TROLL] = g.prop[TROLL], h.prop[CHASM] = g.prop[CHASM],
         h.loc \in Loc, h.newloc \in Loc, h.oldloc \in Loc, h.oldloc2 \in Loc
  PROVE  Plain(g, h)
<1>1. Typed(h)
  BY DEF Typed, Game, Frame
<1>2. Tidy(g, h)
  BY <1>1 DEF Tidy
<1>. QED  BY <1>2 DEF Plain, SameBridge, Ends

\* The variables no invariant is about.
Aside ==
  {"tally", "tally2", "limit", "wzdark", "knfloc", "dloc", "odloc", "dseen", "dflag", "bonus", "numdie",
   "foobar", "gaveup", "verb", "object", "motion", "word1", "luck"}
Locs == {"loc", "newloc", "oldloc", "oldloc2"}

\* A routine that only has the player go somewhere, or sets what no invariant
\* is about.
LEMMA AsidePlain ==
  ASSUME NEW g, Game(g), NEW h, Shape(h),
         \A f \in Fields \ (Aside \cup Locs) : h[f] = g[f],
         h.loc \in Loc, h.newloc \in Loc, h.oldloc \in Loc, h.oldloc2 \in Loc
  PROVE  Plain(g, h) /\ Game(h)
<1>1. Frame(g, h) /\ h.place = g.place /\ h.holding = g.holding /\ h.fixed = g.fixed /\ h.prop = g.prop
  BY DEF Frame, Fields, Aside, Locs
<1>2. Plain(g, h)
  BY <1>1, StillPlain DEF Game, Typed
<1>. QED  BY <1>2, TidyGame DEF Plain

\* bug ends the program and changes nothing else.
LEMMA BugPlain ==
  ASSUME NEW g, Game(g), NEW n
  PROVE  Plain(g, bug(g, n))
<1> DEFINE h == bug(g, n)
<1>1. Shape(h) /\ h.phase = "over" /\ \A f \in Fields \ {"phase", "fatal"} : h[f] = g[f]
  BY DEF bug, Game, Shape, Fields
<1> HIDE DEF h
<1>2. Frame(g, h) /\ h.place = g.place /\ h.holding = g.holding /\ h.fixed = g.fixed /\ h.prop = g.prop
      /\ h.loc = g.loc /\ h.newloc = g.newloc /\ h.oldloc = g.oldloc /\ h.oldloc2 = g.oldloc2
  BY <1>1 DEF Frame, Fields
<1>. QED  BY <1>1, <1>2, StillPlain DEF Game, Typed, h

\* pspeak, which prints or ends the program, changes nothing else.
LEMMA PspeakPlain ==
  ASSUME NEW g, Game(g), NEW i, NEW state
  PROVE  /\ Plain(g, pspeak(g, i, state))
         /\ \A f \in Fields \ {"phase", "fatal"} : pspeak(g, i, state)[f] = g[f]
<1>1. pspeak(g, i, state) = g \/ \E n : pspeak(g, i, state) = bug(g, n)
  BY DEF pspeak
<1>2. \A n : \A f \in Fields \ {"phase", "fatal"} : bug(g, n)[f] = g[f]
  BY DEF bug, Game, Shape
<1>. QED  BY <1>1, <1>2, BugPlain, PlainSelf

----------------------------------------------------------------------------
\* move of a second place changes no first place.
LEMMA MoveFixedPlain ==
  ASSUME NEW g, Game(g), NEW obj \in Object, NEW where \in Int
  PROVE  /\ Tidy(g, moveFixed(g, obj, where))
         /\ obj \notin Ends => Plain(g, moveFixed(g, obj, where))
<1> DEFINE h == moveFixed(g, obj, where)
<1>1. Shape(h) /\ h.fixed = [g.fixed EXCEPT ![obj] = where]
      /\ \A f \in Fields \ {"fixed"} : h[f] = g[f]
  BY DEF moveFixed, Game, Shape, Fields
<1> HIDE DEF h
<1>2. Frame(g, h) /\ h.place = g.place /\ h.holding = g.holding /\ h.prop = g.prop
      /\ h.loc = g.loc /\ h.newloc = g.newloc /\ h.oldloc = g.oldloc /\ h.oldloc2 = g.oldloc2
  BY <1>1 DEF Frame, Fields
<1>3. h.fixed \in [Object -> Int] /\ \A i \in Object \ {obj} : h.fixed[i] = g.fixed[i]
  BY <1>1 DEF Game, Typed
<1>4. Typed(h) /\ Tidy(g, h)
  BY <1>1, <1>2, <1>3 DEF Typed, Game, Tidy, Frame
<1>5. obj \notin Ends => SameBridge(g, h)
  BY <1>2, <1>3 DEF SameBridge, Ends
<1>. QED  BY <1>4, <1>5 DEF Plain, h

\* A loop that drops objects, none of them a liquid.
LEMMA DropThoseDoes ==
  ASSUME NEW g, Shape(g), Typed(g), NEW S \in SUBSET Object, NEW p \in [Object -> Int],
         \A i \in {WATER, OIL} : i \in S => g.place[i] # -1,
         \A i \in S : p[i] # -1,
         \A i \in Object \ S : p[i] = g.place[i]
  PROVE  Moved(g, [g EXCEPT !.place = p, !.holding = g.holding - Cardinality({i \in S : toting(g, i)})], p)
<1> DEFINE A == {i \in Object \ {WATER, OIL} : g.place[i] = -1}
           B == {i \in S : toting(g, i)}
           C == {i \in Object \ {WATER, OIL} : p[i] = -1}
           h == [g EXCEPT !.place = p, !.holding = g.holding - Cardinality(B)]
<1>1. B \subseteq A /\ C = A \ B
  BY DEF toting
<1>2. IsFiniteSet(A) /\ Cardinality(A) = Held(g.place) /\ Cardinality(C) = Held(p)
  BY HeldType DEF Held
<1> HIDE DEF A, B, C
<1>3. IsFiniteSet(B) /\ Cardinality(B) \in Nat /\ Cardinality(A) \in Nat
  BY <1>1, <1>2, FS_Subset, FS_CardinalityType
<1>4. Cardinality(C) = Cardinality(A) - Cardinality(B)
  <2>1. A \cap B = B
    BY <1>1
  <2>2. Cardinality(A \ B) = Cardinality(A) - Cardinality(A \cap B)
    BY <1>2, FS_Difference, Zenon
  <2>. QED  BY <1>1, <2>1, <2>2
<1>5. Shape(h) /\ h.place = p /\ h.holding = g.holding - Cardinality(B)
      /\ \A f \in Fields \ {"place", "holding"} : h[f] = g[f]
  BY DEF Shape, Fields
<1> HIDE DEF h
<1>6. Typed(h)
  <2>1. /\ h.fixed = g.fixed /\ h.prop = g.prop /\ h.closed = g.closed
        /\ h.loc = g.loc /\ h.newloc = g.newloc /\ h.oldloc = g.oldloc /\ h.oldloc2 = g.oldloc2
    BY <1>5 DEF Fields
  <2>2. h.holding \in Int
    BY <1>3, <1>5 DEF Typed
  <2>. QED  BY <1>5, <2>1, <2>2 DEF Typed
<1>7. h.holding - Held(p) = g.holding - Held(g.place)
  BY <1>2, <1>3, <1>4, <1>5 DEF Typed
<1>. QED  BY <1>5, <1>6, <1>7 DEF Moved, h, B

\* normend ends the program and changes nothing else.
LEMMA NormendPlain ==
  ASSUME NEW g, Game(g)
  PROVE  Plain(g, normend(g))
<1> DEFINE h == normend(g)
<1>1. Shape(h) /\ h.phase = "over" /\ \A f \in Fields \ {"phase"} : h[f] = g[f]
  BY DEF normend, Game, Shape, Fields
<1> HIDE DEF h
<1>2. Frame(g, h) /\ h.place = g.place /\ h.holding = g.holding /\ h.fixed = g.fixed /\ h.prop = g.prop
      /\ h.loc = g.loc /\ h.newloc = g.newloc /\ h.oldloc = g.oldloc /\ h.oldloc2 = g.oldloc2
  BY <1>1 DEF Frame, Fields
<1>. QED  BY <1>1, <1>2, StillPlain DEF Game, Typed, h

\* The death of the player: the liquids are gone, and everything he carried
\* lies where he was and is counted down.
LEMMA DeathFollows ==
  ASSUME NEW g, Game(g)
  PROVE  Follows(g, death(g))
<1> DEFINE k == [g EXCEPT !.numdie = @ + 1]
           lost == [g EXCEPT !.numdie = @ + 1, !.place[WATER] = 0, !.place[OIL] = 0,
                             !.prop[LAMP] = IF toting(g, LAMP) THEN 0 ELSE @]
           S == {i \in Object : toting(lost, i)}
           p == [i \in Object |-> IF i \in S THEN IF i = LAMP THEN 1 ELSE g.oldloc2 ELSE lost.place[i]]
           bare == [lost EXCEPT !.place = p, !.holding = lost.holding - Cardinality({i \in S : toting(lost, i)})]
           h == [bare EXCEPT !.newloc = 3, !.oldloc = g.loc]
<1>1. death(g) = normend(k) \/ death(g) = h
  <2>1. p \in [1 .. 64 -> Int]
    <3>1. lost.place \in [Object -> Int]
      BY DEF Game, Shape, Typed, Fields
    <3>2. g.oldloc2 \in Int
      BY DEF Game, Typed, Loc
    <3> HIDE DEF lost
    <3>. QED  BY <3>1, <3>2
  <2>2. Array(p) = p
    BY <2>1, ArrayIsItself
  <2>. QED  BY <2>2 DEF death, dropAll, dropThose
<1>2. CASE death(g) = normend(k)
  <2>1. Shape(k) /\ \A f \in Fields \ {"numdie"} : k[f] = g[f]
    BY DEF Game, Shape
  <2> HIDE DEF k
  <2>2. Plain(g, k)
    BY <2>1, StillPlain DEF Game, Typed, Frame, Fields
  <2>3. Game(k)
    BY <2>2, PlainFollows DEF Follows
  <2>. QED  BY <1>2, <2>2, <2>3, NormendPlain, PlainTrans, PlainFollows
<1>3. CASE death(g) = h
  <2>1. /\ Shape(lost) /\ lost.place = [g.place EXCEPT ![WATER] = 0, ![OIL] = 0]
        /\ lost.prop \in [Object -> Int] /\ \A i \in Object \ {LAMP} : lost.prop[i] = g.prop[i]
        /\ \A f \in Fields \ {"place", "prop", "numdie"} : lost[f] = g[f]
    <3>1. Shape(lost) /\ \A f \in Fields \ {"place", "prop", "numdie"} : lost[f] = g[f]
      BY DEF Game, Shape
    <3>2. lost.place = [g.place EXCEPT ![WATER] = 0, ![OIL] = 0]
      BY DEF Game, Shape, Fields
    <3>3. lost.prop = [g.prop EXCEPT ![LAMP] = IF toting(g, LAMP) THEN 0 ELSE g.prop[LAMP]]
      BY DEF Game, Shape, Fields
    <3>4. g.prop \in [Object -> Int]
      BY DEF Game, Typed
    <3> HIDE DEF lost
    <3>. QED  BY <3>1, <3>2, <3>3, <3>4
  <2> HIDE DEF lost
  <2>2. /\ lost.place \in [Object -> Int] /\ lost.place[WATER] = 0 /\ lost.place[OIL] = 0
        /\ \A i \in Object \ {WATER, OIL} : lost.place[i] = g.place[i]
    BY <2>1 DEF Game, Typed
  <2>3. Typed(lost)
    <3>1. /\ lost.fixed = g.fixed /\ lost.holding = g.holding /\ lost.closed = g.closed
          /\ lost.loc = g.loc /\ lost.newloc = g.newloc /\ lost.oldloc = g.oldloc /\ lost.oldloc2 = g.oldloc2
      BY <2>1 DEF Fields
    <3>. QED  BY <2>1, <2>2, <3>1 DEF Typed, Game
  <2>4. Held(lost.place) = Held(g.place)
    <3>1. {i \in Object \ {WATER, OIL} : lost.place[i] = -1} = {i \in Object \ {WATER, OIL} : g.place[i] = -1}
      BY <2>2
    <3>. QED  BY <3>1, Zenon DEF Held
  <2>5. /\ p \in [Object -> Int] /\ \A i \in Object : p[i] # -1
        /\ \A i \in S : p[i] = IF i = LAMP THEN 1 ELSE g.oldloc2
        /\ \A i \in Object \ S : p[i] = lost.place[i]
    <3>1. g.oldloc2 \in Int /\ g.oldloc2 # -1
      BY DEF Game, Typed, Loc
    <3>2. \A i \in Object \ S : lost.place[i] # -1
      BY DEF toting
    <3>. QED  BY <2>2, <3>1, <3>2
  <2>6. Moved(lost, bare, p)
    <3>1. S \in SUBSET Object
      OBVIOUS
    <3> HIDE DEF p, S
    <3>2. /\ \A i \in {WATER, OIL} : i \in S => lost.place[i] # -1
          /\ \A i \in S : p[i] # -1
          /\ \A i \in Object \ S : p[i] = lost.place[i]
          /\ p \in [Object -> Int] /\ Shape(lost)
      BY <2>1, <2>2, <2>5, <3>1
    <3>. QED  BY <2>3, <3>1, <3>2, DropThoseDoes, Zenon
  <2> HIDE DEF bare, p
  <2>7. /\ Shape(h) /\ h.newloc = 3 /\ h.oldloc = g.loc
        /\ \A f \in Fields \ {"newloc", "oldloc"} : h[f] = bare[f]
    BY <2>6 DEF Moved, Shape, Fields
  <2> HIDE DEF h
  <2>8. /\ h.place = p /\ h.holding = bare.holding /\ h.fixed = g.fixed /\ h.prop = lost.prop
        /\ h.loc = g.loc /\ h.oldloc2 = g.oldloc2 /\ Frame(g, h)
    BY <2>1, <2>6, <2>7 DEF Moved, Frame, Fields
  <2>9. Typed(h)
    BY <2>1, <2>5, <2>6, <2>7, <2>8 DEF Typed, Game, Moved, Frame, Loc
  <2>10. Kept(h)
    <3> SUFFICES ASSUME ~h.closed PROVE Kept(h)
      BY DEF Kept
    <3>1. ~g.closed
      BY <2>8 DEF Frame
    <3>2. h.holding = Held(h.place)
      <4>1. Held(p) \in Int /\ Held(g.place) \in Int /\ h.holding \in Int /\ g.holding \in Int /\ lost.holding = g.holding
        BY HeldIsInt, <2>1, <2>9 DEF Typed, Game, Fields
      <4>2. g.holding = Held(g.place)
        BY <3>1 DEF Game, Kept
      <4>3. bare.holding - Held(p) = lost.holding - Held(lost.place)
        BY <2>6 DEF Moved
      <4>. QED  BY <4>1, <4>2, <4>3, <2>4, <2>8
    <3>3. h.prop[BIRD] = 1 => h.place[BIRD] = h.place[CAGE]
      BY <3>1, <2>1, <2>2, <2>5, <2>8 DEF Game, Kept, toting
    <3>. QED  BY <3>1, <3>2, <3>3, <2>1, <2>5, <2>8 DEF Kept, Game
  <2>11. Bridge(g) => Bridge(h)
    BY <2>1, <2>2, <2>5, <2>8 DEF Bridge, toting
  <2>. QED  BY <1>3, <2>7, <2>8, <2>9, <2>10, <2>11 DEF Follows, Game
<1>. QED  BY <1>1, <1>2, <1>3

\* The end of a player killed by a dwarf.
LEMMA DwarfendFollows ==
  ASSUME NEW g, Game(g)
  PROVE  Follows(g, dwarfend(g))
  BY DeathFollows, NormendPlain, PlainFollows, FollowsTrans DEF dwarfend, Follows

\* One end of the bridge shows nothing now, the other the troll, or the sign
\* that he is gone.
LEMMA SwapEnds ==
  ASSUME NEW g, Game(g), NEW a \in Ends, NEW b \in Ends, a # b
  PROVE  LET h == moveFixed(move(moveFixed(move(g, a, 0), a, 0), b, 117), b, 122)
         IN  /\ Tidy(g, h) /\ Game(h)
             /\ h.place[a] = 0 /\ h.fixed[a] = 0 /\ h.place[b] = 117 /\ h.fixed[b] = 122
             /\ h.prop = g.prop /\ h.loc = g.loc /\ h.closed = g.closed /\ h.object = g.object
<1> DEFINE h1 == move(g, a, 0)
           h2 == moveFixed(h1, a, 0)
           h3 == move(h2, b, 117)
           h4 == moveFixed(h3, b, 122)
<1>1. a \in Object \ Paired /\ b \in Object \ Paired /\ a \in Object \ {WATER, OIL} /\ b \in Object \ {WATER, OIL}
  BY DEF Ends, Paired
<1>2. Tidy(g, h1) /\ Game(h1) /\ Moved(g, h1, [g.place EXCEPT ![a] = 0])
  <2>1. Tidy(g, h1)
    BY <1>1, MovePlain, 0 \in Loc DEF Loc
  <2>. QED  BY <1>1, <2>1, TidyGame, MoveDoes DEF Game
<1>3. Tidy(h1, h2) /\ Game(h2)
  <2>1. Tidy(h1, h2)
    <3>1. a \in Object /\ 0 \in Int
      BY <1>1
    <3> HIDE DEF h1
    <3>. QED  BY <1>2, <3>1, MoveFixedPlain
  <2>. QED  BY <1>2, <2>1, TidyGame
<1>4. Tidy(h2, h3) /\ Game(h3) /\ Moved(h2, h3, [h2.place EXCEPT ![b] = 117])
  <2>1. Tidy(h2, h3)
    BY <1>1, <1>3, MovePlain, 117 \in Loc DEF Loc
  <2>. QED  BY <1>1, <1>3, <2>1, TidyGame, MoveDoes DEF Game
<1>5. Tidy(h3, h4) /\ Game(h4)
  <2>1. b \in Object /\ 122 \in Int
    BY <1>1
  <2>2. Tidy(h3, h4)
    BY <1>4, <2>1, MoveFixedPlain, Zenon
  <2>. QED  BY <1>4, <2>2, TidyGame
<1>6. Tidy(g, h4)
  BY <1>2, <1>3, <1>4, <1>5, TidyTrans
<1>7. /\ h2.fixed = [h1.fixed EXCEPT ![a] = 0] /\ h2.place = h1.place /\ h2.prop = h1.prop
      /\ h2.loc = h1.loc /\ h2.closed = h1.closed /\ h2.object = h1.object
      /\ h4.fixed = [h3.fixed EXCEPT ![b] = 122] /\ h4.place = h3.place /\ h4.prop = h3.prop
      /\ h4.loc = h3.loc /\ h4.closed = h3.closed /\ h4.object = h3.object
  BY <1>2, <1>4 DEF moveFixed, Game, Shape, Fields
<1>8. /\ h1.place = [g.place EXCEPT ![a] = 0] /\ h1.fixed = g.fixed /\ h1.prop = g.prop
      /\ h1.loc = g.loc /\ h1.closed = g.closed /\ h1.object = g.object
      /\ h3.place = [h2.place EXCEPT ![b] = 117] /\ h3.fixed = h2.fixed /\ h3.prop = h2.prop
      /\ h3.loc = h2.loc /\ h3.closed = h2.closed /\ h3.object = h2.object
  BY <1>2, <1>4 DEF Moved, Fields
<1>9. /\ g.place \in [Object -> Int] /\ g.fixed \in [Object -> Int]
      /\ h2.place \in [Object -> Int] /\ h3.fixed \in [Object -> Int]
  BY <1>3, <1>4 DEF Game, Typed
<1>10. a \in Object /\ b \in Object
  BY <1>1
<1> HIDE DEF h1, h2, h3, h4
<1>11. /\ h4.place[a] = 0 /\ h4.fixed[a] = 0 /\ h4.place[b] = 117 /\ h4.fixed[b] = 122
       /\ h4.prop = g.prop /\ h4.loc = g.loc /\ h4.closed = g.closed /\ h4.object = g.object
  BY <1>7, <1>8, <1>9, <1>10
<1>. QED  BY <1>5, <1>6, <1>11 DEF h1, h2, h3, h4

\* The special moves: the plover alcove, the troll bridge and what falls with
\* it.
LEMMA SpcmoveFollows ==
  ASSUME NEW g, Game(g), NEW rdest
  PROVE  Follows(g, spcmove(g, rdest))
<1>1. CASE rdest = 301
  <2> DEFINE h == [g EXCEPT !.newloc = 199 - g.loc]
  <2>1. Shape(h) /\ h.newloc = 199 - g.loc /\ \A f \in Fields \ {"newloc"} : h[f] = g[f]
    BY DEF Game, Shape, Fields
  <2>2. spcmove(g, rdest) \in {g, h}
    BY <1>1 DEF spcmove
  <2> HIDE DEF h
  <2>3. Plain(g, h)
    <3>1. h.loc \in Loc /\ h.newloc \in Loc /\ h.oldloc \in Loc /\ h.oldloc2 \in Loc
      BY <2>1 DEF Game, Typed, Fields, Loc
    <3>2. \A f \in Fields \ (Aside \cup Locs) : h[f] = g[f]
      BY <2>1 DEF Locs
    <3>. QED  BY <2>1, <3>1, <3>2, AsidePlain
  <2>. QED  BY <2>2, <2>3, PlainFollows, PlainSelf
<1>2. CASE rdest = 302
  <2>1. EMERALD \in Object \ Paired /\ EMERALD \notin Ends
    BY DEF Paired, Ends
  <2>2. Plain(g, drop(g, EMERALD, g.loc))
    BY <2>1, DropPlain DEF Game, Typed
  <2>. QED  BY <1>2, <2>2, PlainFollows DEF spcmove
<1>3. CASE rdest = 303 /\ g.prop[TROLL] = 1
  <2> DEFINE g0 == [g EXCEPT !.prop[TROLL] = 0]
             g1 == pspeak(g0, TROLL, 1)
             g2 == moveFixed(move(moveFixed(move(g1, TROLL2, 0), TROLL2, 0), TROLL, 117), TROLL, 122)
             h  == [g2 EXCEPT !.newloc = g.loc]
  <2>1. spcmove(g, rdest) = h
    BY <1>3 DEF spcmove
  <2>2. Shape(g0) /\ g0.prop = [g.prop EXCEPT ![TROLL] = 0] /\ \A f \in Fields \ {"prop"} : g0[f] = g[f]
    BY DEF Game, Shape, Fields
  <2> HIDE DEF g0
  <2>3. Tidy(g, g0) /\ Game(g0)
    <3>1. Typed(g0) /\ Frame(g, g0)
      BY <2>2 DEF Game, Typed, Frame, Fields
    <3>2. Tidy(g, g0)
      BY <2>2, <3>1 DEF Tidy, Game, Typed, Fields
    <3>. QED  BY <3>2, TidyGame
  <2>4. /\ Tidy(g0, g1) /\ Game(g1) /\ g1.prop = g0.prop
    BY <2>3, PspeakPlain, TidyGame DEF Plain, Fields
  <2>5. /\ Tidy(g1, g2) /\ Game(g2)
        /\ g2.place[TROLL2] = 0 /\ g2.fixed[TROLL2] = 0 /\ g2.place[TROLL] = 117 /\ g2.fixed[TROLL] = 122
        /\ g2.prop = g1.prop
    BY <2>4, SwapEnds DEF Ends
  <2> HIDE DEF g1, g2
  <2>6. Shape(h) /\ h.newloc = g.loc /\ \A f \in Fields \ {"newloc"} : h[f] = g2[f]
    BY <2>5 DEF Game, Shape, Fields
  <2> HIDE DEF h
  <2>7. Plain(g2, h)
    <3>1. h.loc \in Loc /\ h.newloc \in Loc /\ h.oldloc \in Loc /\ h.oldloc2 \in Loc
      BY <2>5, <2>6 DEF Game, Typed, Fields
    <3>2. \A f \in Fields \ (Aside \cup Locs) : h[f] = g2[f]
      BY <2>6 DEF Locs
    <3>. QED  BY <2>5, <2>6, <3>1, <3>2, AsidePlain
  <2>8. Game(h) /\ Frame(g, h)
    BY <2>3, <2>4, <2>5, <2>7, TidyTrans, TidyGame DEF Plain
  <2>9. Bridge(g) => Bridge(h)
    BY <1>3, <2>2, <2>4, <2>5, <2>7 DEF Bridge, Plain, SameBridge, Ends, Game, Typed
  <2>. QED  BY <2>1, <2>8, <2>9 DEF Follows
<1>4. CASE rdest = 303 /\ g.prop[TROLL] # 1
  <2> DEFINE over  == IF g.loc = 117 THEN 122 ELSE 117
             cross == [g EXCEPT !.newloc = over, !.prop[TROLL] = IF @ = 0 THEN 1 ELSE @]
             fell  == [drop(cross, BEAR, over) EXCEPT
                                !.prop[CHASM] = 1, !.prop[TROLL] = 2, !.prop[BEAR] = 3,
                                !.fixed[BEAR] = -1,
                                !.tally2 = IF g.prop[SPICES] < 0 THEN @ + 1 ELSE @,
                                !.oldloc2 = over]
  <2>1. spcmove(g, rdest) \in {cross, death(fell)}
    BY <1>4 DEF spcmove
  <2>2. /\ Shape(cross) /\ cross.newloc = over /\ \A f \in Fields \ {"newloc", "prop"} : cross[f] = g[f]
        /\ cross.prop = [g.prop EXCEPT ![TROLL] = IF @ = 0 THEN 1 ELSE @]
    BY DEF Game, Shape, Fields
  <2> HIDE DEF cross
  <2>3. Tidy(g, cross) /\ Game(cross)
    <3>1. Frame(g, cross) /\ cross.place = g.place /\ cross.fixed = g.fixed /\ cross.holding = g.holding
      BY <2>2 DEF Frame, Fields
    <3>2. cross.loc = g.loc /\ cross.oldloc = g.oldloc /\ cross.oldloc2 = g.oldloc2 /\ cross.closed = g.closed
      BY <2>2 DEF Fields
    <3>3. /\ cross.prop \in [Object -> Int]
          /\ cross.prop[BOTTLE] = g.prop[BOTTLE] /\ cross.prop[BIRD] = g.prop[BIRD]
      BY <2>2 DEF Game, Typed
    <3>4. Typed(cross)
      BY <2>2, <3>1, <3>2, <3>3 DEF Game, Typed, Loc
    <3>. QED  BY <2>2, <3>1, <3>3, <3>4, TidyGame DEF Tidy
  <2>4. Follows(g, cross)
    <3>1. cross.place = g.place /\ cross.fixed = g.fixed
      BY <2>2 DEF Fields
    <3>2. /\ cross.prop[CHASM] = g.prop[CHASM]
          /\ cross.prop[TROLL] = IF g.prop[TROLL] = 0 THEN 1 ELSE g.prop[TROLL]
      BY <2>2 DEF Game, Typed
    <3>3. Bridge(g) => Bridge(cross)
      BY <3>1, <3>2 DEF Bridge
    <3>. QED  BY <2>3, <3>3 DEF Follows, Tidy
  <2>5. over \in Loc /\ BEAR \in Object \ Paired /\ BEAR \notin Ends
    BY DEF Loc, Paired, Ends
  <2> DEFINE d == drop(cross, BEAR, over)
  <2>6. Plain(cross, d) /\ Game(d)
    BY <2>3, <2>5, DropPlain, TidyGame DEF Plain
  <2> HIDE DEF d
  <2>7. /\ Shape(fell) /\ fell.oldloc2 = over
        /\ \A f \in Fields \ {"prop", "fixed", "tally2", "oldloc2"} : fell[f] = d[f]
        /\ fell.prop = [d.prop EXCEPT ![CHASM] = 1, ![TROLL] = 2, ![BEAR] = 3]
        /\ fell.fixed = [d.fixed EXCEPT ![BEAR] = -1]
    <3>1. Shape(fell) /\ \A f \in Fields \ {"prop", "fixed", "tally2", "oldloc2"} : fell[f] = d[f]
      BY <2>6 DEF Game, Shape, d
    <3>2. fell.oldloc2 = over /\ fell.fixed = [d.fixed EXCEPT ![BEAR] = -1]
      BY <2>6 DEF Game, Shape, d, Fields
    <3>3. fell.prop = [d.prop EXCEPT ![CHASM] = 1, ![TROLL] = 2, ![BEAR] = 3]
      BY <2>6 DEF Game, Shape, d, Fields
    <3>. QED  BY <3>1, <3>2, <3>3
  <2> HIDE DEF fell, over
  <2>8. Typed(fell) /\ Frame(d, fell)
    <3>1. /\ Frame(d, fell) /\ fell.place = d.place /\ fell.holding = d.holding /\ fell.closed = d.closed
          /\ fell.loc = d.loc /\ fell.newloc = d.newloc /\ fell.oldloc = d.oldloc
      BY <2>7 DEF Frame, Fields
    <3>2. /\ fell.prop \in [Object -> Int] /\ fell.prop[BOTTLE] = d.prop[BOTTLE]
          /\ fell.fixed \in [Object -> Int]
      BY <2>6, <2>7 DEF Game, Typed
    <3>. QED  BY <2>5, <2>6, <2>7, <3>1, <3>2 DEF Game, Typed
  <2>9. Tidy(d, fell) /\ Game(fell)
    <3>1. fell.prop[BOTTLE] = d.prop[BOTTLE] /\ fell.prop[BIRD] = d.prop[BIRD]
      BY <2>6, <2>7 DEF Game, Typed
    <3>2. fell.place = d.place /\ fell.holding = d.holding
      BY <2>7 DEF Fields
    <3>3. Tidy(d, fell)
      BY <2>7, <2>8, <3>1, <3>2 DEF Tidy
    <3>. QED  BY <2>6, <3>3, TidyGame
  <2>10. Bridge(d) => Bridge(fell)
    <3>1. fell.prop[CHASM] = 1 /\ fell.prop[TROLL] = 2
      BY <2>6, <2>7 DEF Game, Typed
    <3>2. fell.place = d.place /\ fell.fixed[TROLL] = d.fixed[TROLL] /\ fell.fixed[TROLL2] = d.fixed[TROLL2]
      BY <2>6, <2>7 DEF Fields, Game, Typed
    <3>. QED  BY <3>1, <3>2 DEF Bridge
  <2>11. Follows(cross, fell)
    BY <2>3, <2>6, <2>8, <2>9, <2>10, PlainFollows, FollowsTrans DEF Follows
  <2>. QED  BY <2>1, <2>4, <2>9, <2>11, DeathFollows, FollowsTrans
<1>5. CASE rdest \notin {301, 302, 303}
  <2>1. spcmove(g, rdest) = bug(g, 38)
    BY <1>5 DEF spcmove
  <2>. QED  BY <2>1, BugPlain, PlainFollows
<1>. QED  BY <1>1, <1>2, <1>3, <1>4, <1>5

----------------------------------------------------------------------------
\* Every nonempty set of natural numbers has a least element.
LessNat == {p \in Nat \X Nat : p[1] < p[2]}

\* Every set of numbers has a least one.
LEMMA LeastNat ==
  ASSUME NEW S, S \subseteq Nat, S # {}
  PROVE  \E m \in S : \A n \in S : m <= n
<1>1. IsWellFoundedOn(LessNat, Nat)
  BY NatLessThanWellFounded, Zenon DEF OpToRel, LessNat
<1>2. \E x \in S : \A y \in S : ~ (<<y, x>> \in LessNat)
  BY <1>1, WFMin
<1>3. \A x, y \in S : ~ (<<y, x>> \in LessNat) => x <= y
  BY DEF LessNat
<1>. QED  BY <1>2, <1>3

\* Min is that number.
LEMMA MinIsLeast ==
  ASSUME NEW S, S \subseteq Nat, S # {}
  PROVE  Min(S) \in S /\ \A n \in S : Min(S) <= n
  BY LeastNat DEF Min

\* A table of travel: its destinations are locations, messages and special
\* moves, and its last slot is never a room's.
Dest == {n \in Int : n \in 0 .. 140 \/ n > 300 \/ n = -1}
Travel(t) ==
  /\ t \in [0 .. MAXTRAV - 1 -> [tdest : Dest, tverb : Int, tcond : Int]]
  /\ t[MAXTRAV - 1].tdest = -1

\* gettrav copies a table of travel, or leaves the one there was.
LEMMA GettravTravel ==
  ASSUME NEW t, Travel(t), NEW l, TravelRoom(l), l \in Int
  PROVE  Travel(gettrav(t, l))
<1>1. l \in Room /\ cave[l] \in Seq(Nat) /\ Len(cave[l]) \in Nat /\ Len(cave[l]) < MAXTRAV
  BY CaveAssumption DEF TravelRoom, Room, cavesz
<1>2. \A k \in 1 .. Len(cave[l]) : Entry(cave[l][k]) \in [tdest : Dest, tverb : Int, tcond : Int]
  <2> SUFFICES ASSUME NEW k \in 1 .. Len(cave[l])
               PROVE  Entry(cave[l][k]) \in [tdest : Dest, tverb : Int, tcond : Int]
    OBVIOUS
  <2>1. cave[l][k] \in Nat
    BY <1>1, ElementOfSeq
  <2>2. Entry(cave[l][k]).tdest \in 0 .. 140 \/ Entry(cave[l][k]).tdest > 300
    BY <1>1, CaveAssumption
  <2>. QED  BY <2>1, <2>2 DEF Entry, Dest
<1> DEFINE e(i) == IF i < Len(cave[l]) THEN Entry(cave[l][i + 1])
                   ELSE IF i = Len(cave[l]) THEN [t[i] EXCEPT !.tdest = -1]
                   ELSE t[i]
<1>3. \A i \in 0 .. MAXTRAV - 1 : e(i) \in [tdest : Dest, tverb : Int, tcond : Int]
  <2> SUFFICES ASSUME NEW i \in 0 .. MAXTRAV - 1 PROVE e(i) \in [tdest : Dest, tverb : Int, tcond : Int]
    OBVIOUS
  <2>1. t[i] \in [tdest : Dest, tverb : Int, tcond : Int] /\ -1 \in Dest
    BY DEF Travel, Dest
  <2>2. CASE i < Len(cave[l])
    <3>1. i + 1 \in 1 .. Len(cave[l])
      BY <1>1, <2>2
    <3>. QED  BY <1>2, <2>2, <3>1
  <2>3. CASE i = Len(cave[l])
    <3>1. [t[i] EXCEPT !.tdest = -1] \in [tdest : Dest, tverb : Int, tcond : Int]
      BY <2>1
    <3>. QED  BY <2>3, <3>1
  <2>4. CASE ~(i < Len(cave[l])) /\ i # Len(cave[l])
    BY <2>1, <2>4
  <2>. QED  BY <2>2, <2>3, <2>4
<1>4. e(MAXTRAV - 1).tdest = -1
  <2>1. t[MAXTRAV - 1] \in [tdest : Dest, tverb : Int, tcond : Int] /\ t[MAXTRAV - 1].tdest = -1
    BY DEF Travel, MAXTRAV
  <2>2. ~(MAXTRAV - 1 < Len(cave[l]))
    BY <1>1 DEF MAXTRAV
  <2>3. [t[MAXTRAV - 1] EXCEPT !.tdest = -1].tdest = -1
    BY <2>1
  <2>. QED  BY <2>1, <2>2, <2>3
<1>5. gettrav(t, l) = [i \in 0 .. MAXTRAV - 1 |-> e(i)]
  BY DEF gettrav
<1> HIDE DEF e
<1>. QED  BY <1>3, <1>4, <1>5 DEF Travel, MAXTRAV

\* dotrav takes the player somewhere, or to a special move.
LEMMA DotravFollows ==
  ASSUME NEW g, Game(g), NEW t, Travel(t)
  PROVE  Follows(g, dotrav(g, t))
<1> DEFINE ends  == {k \in 0 .. MAXTRAV - 1 : t[k].tdest < 0}
           size  == Min(ends)
           hits  == {k \in 0 .. size - 1 : t[k].tverb \in {1, g.motion}}
           taken == {k \in 0 .. size - 1 : hits # {} /\ k >= Min(hits) /\ passable(g, t[k].tcond)}
           rdest == t[Min(taken)].tdest
           stay  == [g EXCEPT !.newloc = g.loc]
           there == [g EXCEPT !.newloc = rdest]
<1>1. \A k \in 0 .. MAXTRAV - 1 : t[k].tdest \in Dest
  BY DEF Travel
<1>2. size \in 0 .. MAXTRAV - 1 /\ \A k \in 0 .. size - 1 : t[k].tdest \in 0 .. 140 \/ t[k].tdest > 300
  <2>1. MAXTRAV - 1 \in ends /\ ends \subseteq Nat
    BY DEF Travel, MAXTRAV
  <2>2. size \in ends /\ \A k \in ends : size <= k
    BY <2>1, MinIsLeast
  <2> HIDE DEF size
  <2>3. \A k \in 0 .. size - 1 : k \in 0 .. MAXTRAV - 1 /\ k \notin ends
    BY <2>2 DEF MAXTRAV
  <2>. QED  BY <2>2, <2>3, <1>1 DEF Dest
<1> HIDE DEF size
<1>3. Plain(g, stay) /\ Game(stay)
  <2>1. Shape(stay) /\ stay.newloc = g.loc /\ \A f \in Fields \ {"newloc"} : stay[f] = g[f]
    BY DEF Game, Shape, Fields
  <2> HIDE DEF stay
  <2>2. stay.loc \in Loc /\ stay.newloc \in Loc /\ stay.oldloc \in Loc /\ stay.oldloc2 \in Loc
    BY <2>1 DEF Game, Typed, Fields
  <2>3. \A f \in Fields \ (Aside \cup Locs) : stay[f] = g[f]
    BY <2>1 DEF Locs
  <2>. QED  BY <2>1, <2>2, <2>3, AsidePlain
<1>0. dotrav(g, t) = IF taken = {} \/ rdest > 500 THEN stay
                      ELSE IF rdest > 300 THEN spcmove(stay, rdest) ELSE there
  BY Zenon DEF dotrav, size
<1> HIDE DEF stay, there
<1>4. CASE taken = {} \/ rdest > 500
  <2>1. dotrav(g, t) = stay
    <3> HIDE DEF taken, rdest
    <3>. QED  BY <1>0, <1>4
  <2>. QED  BY <1>3, <2>1, PlainFollows
<1>5. CASE taken # {} /\ ~(rdest > 500) /\ rdest > 300
  <2>1. dotrav(g, t) = spcmove(stay, rdest)
    <3> HIDE DEF taken, rdest
    <3>. QED  BY <1>0, <1>5
  <2>. QED  BY <1>3, <2>1, PlainFollows, SpcmoveFollows, FollowsTrans
<1>6. CASE taken # {} /\ ~(rdest > 500) /\ ~(rdest > 300)
  <2>1. dotrav(g, t) = there
    <3> HIDE DEF taken, rdest
    <3>. QED  BY <1>0, <1>6
  <2>2. rdest \in Loc
    <3>1. taken \subseteq Nat /\ taken # {}
      BY <1>2, <1>6
    <3>2. Min(taken) \in taken
      BY <3>1, MinIsLeast
    <3>3. Min(taken) \in 0 .. size - 1
      BY <3>2
    <3>4. rdest \in 0 .. 140 \/ rdest > 300
      BY <1>2, <3>3
    <3> HIDE DEF rdest
    <3>. QED  BY <1>6, <3>4 DEF Loc
  <2> HIDE DEF rdest
  <2>3. Shape(there) /\ there.newloc = rdest /\ \A f \in Fields \ {"newloc"} : there[f] = g[f]
    BY DEF Game, Shape, Fields, there
  <2>4. there.loc \in Loc /\ there.newloc \in Loc /\ there.oldloc \in Loc /\ there.oldloc2 \in Loc
    BY <2>2, <2>3 DEF Game, Typed, Fields
  <2>5. \A f \in Fields \ (Aside \cup Locs) : there[f] = g[f]
    BY <2>3 DEF Locs
  <2>. QED  BY <2>1, <2>3, <2>4, <2>5, AsidePlain, PlainFollows
<1>. QED  BY <1>4, <1>5, <1>6

\* The walk of goback, a step at a time.
LEMMA WalkIs ==
  ASSUME NEW table, NEW want
  PROVE  LET w == walk(table, want)
         IN  w = [kk \in 0 .. MAXTRAV - 1 |-> IF kk = 0 THEN [travel |-> table, k2 |-> 0]
                                              ELSE look(w[kk - 1], kk - 1, table, want)]
<1> DEFINE a == [travel |-> table, k2 |-> 0]
           Rounds(f, n) == \A kk \in 0 .. n : f[kk] = IF kk = 0 THEN a ELSE look(f[kk - 1], kk - 1, table, want)
           T == {n \in Nat : ~ \E f : Rounds(f, n)}
<1>1. T = {}
  <2> SUFFICES ASSUME T # {} PROVE FALSE
    OBVIOUS
  <2>1. PICK m \in T : \A n \in T : m <= n
    BY LeastNat
  <2>2. CASE m = 0
    <3>1. Rounds([kk \in {0} |-> a], 0)
      OBVIOUS
    <3>. QED  BY <2>2, <3>1
  <2>3. CASE m # 0
    <3>1. m - 1 \in Nat /\ m - 1 \notin T
      BY <2>1, <2>3
    <3>2. PICK f : Rounds(f, m - 1)
      BY <3>1
    <3> DEFINE f2 == [kk \in 0 .. m |-> IF kk = m THEN look(f[m - 1], m - 1, table, want) ELSE f[kk]]
    <3>3. Rounds(f2, m)
      <4> SUFFICES ASSUME NEW kk \in 0 .. m
                   PROVE  f2[kk] = IF kk = 0 THEN a ELSE look(f2[kk - 1], kk - 1, table, want)
        OBVIOUS
      <4>1. CASE kk = m
        <5>1. f2[m] = look(f[m - 1], m - 1, table, want) /\ f2[m - 1] = f[m - 1]
          BY <3>1, <2>3
        <5>. QED  BY <4>1, <5>1, <2>3
      <4>2. CASE kk # m
        <5>1. kk \in 0 .. m - 1 /\ f2[kk] = f[kk] /\ (kk # 0 => f2[kk - 1] = f[kk - 1])
          BY <4>2, <2>1
        <5>. QED  BY <3>2, <5>1
      <4>. QED  BY <4>1, <4>2
    <3>. QED  BY <2>1, <3>3
  <2>. QED  BY <2>2, <2>3
<1>2. PICK f : Rounds(f, MAXTRAV - 1)
  <2>1. 16 \in Nat => 16 \in T \/ \E f : Rounds(f, 16)
    OBVIOUS
  <2> HIDE DEF T, Rounds
  <2>2. 16 \notin T
    BY <1>1
  <2>3. MAXTRAV - 1 = 16
    BY DEF MAXTRAV
  <2>. QED  BY <2>1, <2>2, <2>3
<1> DEFINE G(w) == [kk \in 0 .. MAXTRAV - 1 |-> IF kk = 0 THEN a ELSE look(w[kk - 1], kk - 1, table, want)]
           v == [kk \in 0 .. MAXTRAV - 1 |-> f[kk]]
<1>3. v = G(v)
  BY <1>2 DEF MAXTRAV
<1>4. walk(table, want) = CHOOSE w : w = G(w)
  BY DEF walk
<1> HIDE DEF v
<1>. QED  BY <1>3, <1>4

\* A look at one entry leaves a table of travel,
LEMMA LookTravel ==
  ASSUME NEW w, Travel(w.travel), NEW kk \in 0 .. MAXTRAV - 1, NEW table, Travel(table), NEW want
  PROVE  Travel(look(w, kk, table, want).travel)
<1> DEFINE entry == w.travel[kk]
           via   == gettrav(w.travel, entry.tdest)
           c     == copytrv(table, via)
           w2    == [travel |-> c, k2 |-> IF forced(entry.tdest) /\ via[0].tdest = want THEN entry.tdest ELSE kk]
<1>1. look(w, kk, table, want) = IF entry.tcond # 0 \/ ~TravelRoom(entry.tdest) THEN w ELSE w2
  BY Zenon DEF look
<1>2. w2.travel = c
  OBVIOUS
<1>3. entry.tdest \in Int
  BY DEF Travel, Dest
<1> HIDE DEF entry, w2
<1>4. CASE entry.tcond # 0 \/ ~TravelRoom(entry.tdest)
  <2>1. look(w, kk, table, want) = w
    BY <1>1, <1>4
  <2>. QED  BY <2>1
<1>5. CASE ~(entry.tcond # 0 \/ ~TravelRoom(entry.tdest))
  <2>1. look(w, kk, table, want) = w2
    BY <1>1, <1>5
  <2>2. Travel(via)
    BY <1>3, <1>5, GettravTravel
  <2> HIDE DEF via
  <2>3. Travel(c)
    BY <2>2 DEF copytrv, Travel, MAXTRAV
  <2>. QED  BY <2>1, <2>3, <1>2
<1>. QED  BY <1>4, <1>5

\* and so does every step of the walk.
LEMMA WalkTravel ==
  ASSUME NEW table, Travel(table), NEW want, NEW kk \in 0 .. MAXTRAV - 1
  PROVE  Travel(walk(table, want)[kk].travel)
<1> DEFINE w == walk(table, want)
           T == {n \in Nat : n \in 0 .. MAXTRAV - 1 /\ ~Travel(w[n].travel)}
<1>0. w = [n \in 0 .. MAXTRAV - 1 |-> IF n = 0 THEN [travel |-> table, k2 |-> 0]
                                      ELSE look(w[n - 1], n - 1, table, want)]
  BY WalkIs
<1> HIDE DEF w
<1> SUFFICES ASSUME T # {} PROVE FALSE
  <2>1. kk \in Nat
    OBVIOUS
  <2>. QED  BY <2>1 DEF w
<1>1. PICK n \in T : \A m \in T : n <= m
  BY LeastNat
<1>2. CASE n = 0
  BY <1>0, <1>1, <1>2 DEF MAXTRAV
<1>3. CASE n # 0
  <2>0. n \in 0 .. MAXTRAV - 1 /\ n \in Nat /\ MAXTRAV = 17
    BY <1>1 DEF MAXTRAV
  <2>1. n - 1 \in 0 .. MAXTRAV - 1 /\ n - 1 \notin T /\ n \in 0 .. MAXTRAV - 1
    <3> HIDE DEF T
    <3>. QED  BY <1>1, <1>3, <2>0
  <2>2. Travel(w[n - 1].travel)
    BY <2>1
  <2>3. w[n] = look(w[n - 1], n - 1, table, want)
    BY <1>0, <1>3, <2>1
  <2>4. Travel(w[n].travel)
    BY <2>1, <2>2, <2>3, LookTravel
  <2>. QED  BY <1>1, <2>4
<1>. QED  BY <1>2, <1>3

\* The way back.
LEMMA GobackFollows ==
  ASSUME NEW g, Game(g), NEW table, Travel(table)
  PROVE  Follows(g, goback(g, table))
<1> DEFINE want   == IF forced(g.oldloc) THEN g.oldloc2 ELSE g.oldloc
           w      == walk(table, want)
           stops  == {k \in 0 .. MAXTRAV - 1 :
                       \/ w[k].travel[k].tdest = -1
                       \/ w[k].travel[k].tcond = 0
                          /\ (w[k].travel[k].tdest = want \/ ~TravelRoom(w[k].travel[k].tdest))}
           kk     == Min(stops)
           travel == w[kk].travel
           g1     == [g EXCEPT !.oldloc2 = g.oldloc, !.oldloc = g.loc]
<1>1. \/ goback(g, table) = g1
      \/ \E m : goback(g, table) = dotrav([g1 EXCEPT !.motion = m], travel)
      \/ goback(g, table) = bug(g1, 42)
  BY Zenon DEF goback
<1>2. Travel(travel)
  <2>1. MAXTRAV - 1 \in stops /\ stops \subseteq Nat
    <3>1. Travel(w[MAXTRAV - 1].travel)
      BY WalkTravel DEF MAXTRAV
    <3>2. w[MAXTRAV - 1].travel[MAXTRAV - 1].tdest = -1
      BY <3>1 DEF Travel
    <3> HIDE DEF w
    <3>3. MAXTRAV - 1 \in 0 .. MAXTRAV - 1 /\ 0 .. MAXTRAV - 1 \subseteq Nat
      BY DEF MAXTRAV
    <3>. QED  BY <3>2, <3>3
  <2>2. kk \in stops
    BY <2>1, MinIsLeast
  <2>3. kk \in 0 .. MAXTRAV - 1
    BY <2>2
  <2>. QED  BY <2>3, WalkTravel
<1> HIDE DEF travel
<1>3. Plain(g, g1) /\ Game(g1)
  <2>1. Shape(g1) /\ g1.oldloc2 = g.oldloc /\ g1.oldloc = g.loc
        /\ \A f \in Fields \ {"oldloc", "oldloc2"} : g1[f] = g[f]
    BY DEF Game, Shape, Fields
  <2> HIDE DEF g1
  <2>2. g1.loc \in Loc /\ g1.newloc \in Loc /\ g1.oldloc \in Loc /\ g1.oldloc2 \in Loc
    BY <2>1 DEF Game, Typed, Fields
  <2>3. \A f \in Fields \ (Aside \cup Locs) : g1[f] = g[f]
    BY <2>1 DEF Locs
  <2>. QED  BY <2>1, <2>2, <2>3, AsidePlain
<1> HIDE DEF g1
<1>4. ASSUME NEW m PROVE Follows(g1, dotrav([g1 EXCEPT !.motion = m], travel))
  <2> DEFINE h == [g1 EXCEPT !.motion = m]
  <2>1. Shape(h) /\ \A f \in Fields \ {"motion"} : h[f] = g1[f]
    BY <1>3 DEF Game, Shape
  <2> HIDE DEF h
  <2>2. h.loc \in Loc /\ h.newloc \in Loc /\ h.oldloc \in Loc /\ h.oldloc2 \in Loc
    BY <1>3, <2>1 DEF Game, Typed, Fields
  <2>3. \A f \in Fields \ (Aside \cup Locs) : h[f] = g1[f]
    BY <2>1 DEF Aside
  <2>4. Plain(g1, h) /\ Game(h)
    BY <1>3, <2>1, <2>2, <2>3, AsidePlain
  <2>5. Follows(h, dotrav(h, travel))
    BY <1>2, <2>4, DotravFollows
  <2>. QED  BY <1>3, <2>4, <2>5, PlainFollows, FollowsTrans DEF h
<1>5. Follows(g, g1) /\ Follows(g1, bug(g1, 42))
  BY <1>3, BugPlain, PlainFollows
<1>6. CASE \E m : goback(g, table) = dotrav([g1 EXCEPT !.motion = m], travel)
  <2>1. PICK m : goback(g, table) = dotrav([g1 EXCEPT !.motion = m], travel)
    BY <1>6
  <2>2. Follows(g1, goback(g, table))
    BY <1>4, <2>1
  <2>. QED  BY <1>5, <2>2, FollowsTrans
<1>7. CASE goback(g, table) = g1
  BY <1>5, <1>7, Zenon
<1>8. CASE goback(g, table) = bug(g1, 42)
  BY <1>5, <1>8, FollowsTrans
<1>. QED  BY <1>1, <1>6, <1>7, <1>8, Zenon

\* Every motion.
LEMMA DomoveFollows ==
  ASSUME NEW g, Game(g)
  PROVE  Follows(g, domove(g))
<1> DEFINE travel == gettrav(NoTravel, g.loc)
           looked == [g EXCEPT !.wzdark = FALSE, !.newloc = g.loc, !.loc = 0]
           gone   == [g EXCEPT !.oldloc2 = g.oldloc, !.oldloc = g.loc]
<1>1. \/ domove(g) \in {g, bug(g, 42), looked}
      \/ TravelRoom(g.loc) /\ domove(g) \in {goback(g, travel), dotrav(gone, travel)}
  BY DEF domove
<1>2. TravelRoom(g.loc) => Travel(travel)
  <2>1. Travel(NoTravel)
    BY DEF Travel, NoTravel, Unknown, MAXTRAV, Dest
  <2>. QED  BY <2>1, GettravTravel DEF Game, Typed, Loc
<1> HIDE DEF travel
<1>3. Plain(g, looked)
  <2>1. Shape(looked) /\ looked.loc = 0 /\ looked.newloc = g.loc
        /\ \A f \in Fields \ {"loc", "newloc", "wzdark"} : looked[f] = g[f]
    BY DEF Game, Shape, Fields
  <2> HIDE DEF looked
  <2>2. looked.loc \in Loc /\ looked.newloc \in Loc /\ looked.oldloc \in Loc /\ looked.oldloc2 \in Loc
    BY <2>1 DEF Game, Typed, Fields, Loc
  <2>3. \A f \in Fields \ (Aside \cup Locs) : looked[f] = g[f]
    BY <2>1 DEF Locs, Aside
  <2>. QED  BY <2>1, <2>2, <2>3, AsidePlain
<1>4. Plain(g, gone) /\ Game(gone)
  <2>1. Shape(gone) /\ gone.oldloc2 = g.oldloc /\ gone.oldloc = g.loc
        /\ \A f \in Fields \ {"oldloc", "oldloc2"} : gone[f] = g[f]
    BY DEF Game, Shape, Fields
  <2> HIDE DEF gone
  <2>2. gone.loc \in Loc /\ gone.newloc \in Loc /\ gone.oldloc \in Loc /\ gone.oldloc2 \in Loc
    BY <2>1 DEF Game, Typed, Fields
  <2>3. \A f \in Fields \ (Aside \cup Locs) : gone[f] = g[f]
    BY <2>1 DEF Locs
  <2>. QED  BY <2>1, <2>2, <2>3, AsidePlain
<1> HIDE DEF looked, gone
<1>. QED  BY <1>1, <1>2, <1>3, <1>4, BugPlain, PlainFollows, PlainSelf, GobackFollows, DotravFollows, FollowsTrans

----------------------------------------------------------------------------
\* What is in a bottle that is intact.
LEMMA LiqIs ==
  ASSUME NEW g, g.prop[BOTTLE] \in 0 .. 2
  PROVE  liq(g) = IF g.prop[BOTTLE] = 0 THEN WATER ELSE IF g.prop[BOTTLE] = 1 THEN 0 ELSE OIL
<1>1. CASE g.prop[BOTTLE] = 0
  BY <1>1 DEF liq, liq2
<1>2. CASE g.prop[BOTTLE] = 1
  BY <1>2 DEF liq, liq2
<1>3. CASE g.prop[BOTTLE] = 2
  BY <1>3 DEF liq, liq2
<1>. QED  BY <1>1, <1>2, <1>3

\* A routine that moves nothing but the liquids.
LEMMA LiquidFollows ==
  ASSUME NEW g, Game(g), NEW h, Shape(h), Frame(g, h),
         h.place \in [Object -> Int],
         {i \in Object \ {WATER, OIL} : h.place[i] # g.place[i]} = {},
         h.holding = g.holding, h.fixed = g.fixed,
         h.prop \in [Object -> Int],
         h.prop[BIRD] = g.prop[BIRD], h.prop[TROLL] = g.prop[TROLL], h.prop[CHASM] = g.prop[CHASM],
         h.loc = g.loc, h.newloc = g.newloc, h.oldloc = g.oldloc, h.oldloc2 = g.oldloc2,
         h.prop[BOTTLE] \in 0 .. 2,
         ~g.closed => /\ h.place[WATER] = -1 => h.place[BOTTLE] = -1 /\ h.prop[BOTTLE] = 0
                      /\ h.place[OIL] = -1 => h.place[BOTTLE] = -1 /\ h.prop[BOTTLE] = 2
  PROVE  Follows(g, h)
<1>1. Typed(h)
  BY DEF Game, Typed, Frame
<1>2. \A i \in Object \ {WATER, OIL} : h.place[i] = g.place[i]
  OBVIOUS
<1>3. Held(h.place) = Held(g.place)
  <2>1. {i \in Object \ {WATER, OIL} : h.place[i] = -1} = {i \in Object \ {WATER, OIL} : g.place[i] = -1}
    BY <1>2
  <2>. QED  BY <2>1, Zenon DEF Held
<1>4. Kept(h)
  <2> SUFFICES ASSUME ~h.closed PROVE Kept(h)
    BY DEF Kept
  <2>1. ~g.closed
    BY DEF Frame
  <2>2. liq(h) = IF h.prop[BOTTLE] = 0 THEN WATER ELSE IF h.prop[BOTTLE] = 1 THEN 0 ELSE OIL
    BY <2>1, LiqIs
  <2>. QED  BY <2>1, <2>2, <1>2, <1>3 DEF Kept, Game
<1>5. Bridge(g) => Bridge(h)
  BY <1>2 DEF Bridge
<1>. QED  BY <1>1, <1>4, <1>5 DEF Follows, Game

\* What a game that is not closed says of the liquids.
LEMMA Liquids ==
  ASSUME NEW g, Game(g), ~g.closed
  PROVE  /\ g.prop[BOTTLE] \in 0 .. 2
         /\ liq(g) = IF g.prop[BOTTLE] = 0 THEN WATER ELSE IF g.prop[BOTTLE] = 1 THEN 0 ELSE OIL
         /\ g.place[WATER] = -1 => g.place[BOTTLE] = -1 /\ g.prop[BOTTLE] = 0
         /\ g.place[OIL] = -1 => g.place[BOTTLE] = -1 /\ g.prop[BOTTLE] = 2
<1>1. g.prop[BOTTLE] \in 0 .. 2
  BY DEF Game, Kept
<1>2. liq(g) = IF g.prop[BOTTLE] = 0 THEN WATER ELSE IF g.prop[BOTTLE] = 1 THEN 0 ELSE OIL
  BY <1>1, LiqIs
<1>. QED  BY <1>1, <1>2 DEF Game, Kept

\* A bottle that is filled holds the liquid of the place, carried if the bottle
\* is.
LEMMA FillBottleFollows ==
  ASSUME NEW g, Game(g)
  PROVE  Follows(g, fillBottle(g))
<1> DEFINE g1 == [g EXCEPT !.prop[BOTTLE] = watoil(g.loc)]
           h  == [g1 EXCEPT !.place[liq(g1)] = -1]
<1>1. /\ Shape(g1) /\ g1.prop = [g.prop EXCEPT ![BOTTLE] = watoil(g.loc)]
      /\ \A f \in Fields \ {"prop"} : g1[f] = g[f]
  BY DEF Game, Shape, Fields
<1>2. g1.prop[BOTTLE] \in {0, 2} /\ g1.prop \in [Object -> Int]
      /\ \A i \in Object \ {BOTTLE} : g1.prop[i] = g.prop[i]
  <2>1. watoil(g.loc) \in {0, 2}
    BY DEF watoil
  <2>. QED  BY <1>1, <2>1 DEF Game, Typed
<1>3. liq(g1) = IF g1.prop[BOTTLE] = 0 THEN WATER ELSE OIL
  <2>1. g1.prop[BOTTLE] \in 0 .. 2
    BY <1>2
  <2> HIDE DEF g1
  <2>. QED  BY <1>2, <2>1, LiqIs
<1>4. \/ fillBottle(g) = g
      \/ liq(g) = 0 /\ (toting(g, BOTTLE) => fillBottle(g) = h) /\ (~toting(g, BOTTLE) => fillBottle(g) = g1)
  BY DEF fillBottle
<1> HIDE DEF g1
<1>5. Shape(h) /\ h.place = [g.place EXCEPT ![liq(g1)] = -1] /\ \A f \in Fields \ {"place"} : h[f] = g1[f]
  BY <1>1 DEF Shape, Fields
<1> HIDE DEF h
<1>6. liq(g) = 0 /\ ~g.closed => g.place[WATER] # -1 /\ g.place[OIL] # -1
  BY Liquids
<1>7. CASE fillBottle(g) = g1 /\ liq(g) = 0
  <2>1. Frame(g, g1) /\ g1.place = g.place /\ g1.place \in [Object -> Int] /\ g1.holding = g.holding /\ g1.fixed = g.fixed
        /\ g1.loc = g.loc /\ g1.newloc = g.newloc /\ g1.oldloc = g.oldloc /\ g1.oldloc2 = g.oldloc2
    BY <1>1 DEF Frame, Fields, Game, Typed
  <2>2. g1.prop[BIRD] = g.prop[BIRD] /\ g1.prop[TROLL] = g.prop[TROLL] /\ g1.prop[CHASM] = g.prop[CHASM]
    BY <1>2
  <2>3. {i \in Object \ {WATER, OIL} : g1.place[i] # g.place[i]} = {}
    BY <2>1
  <2>4. g1.prop[BOTTLE] \in 0 .. 2 /\ Shape(g1) /\ g1.prop \in [Object -> Int]
    BY <1>1, <1>2
  <2>5. ~g.closed => g1.place[WATER] # -1 /\ g1.place[OIL] # -1
    BY <1>6, <1>7, <2>1
  <2>6. Follows(g, g1)
    BY <2>1, <2>2, <2>3, <2>4, <2>5, LiquidFollows
  <2>. QED  BY <1>7, <2>6
<1>8. CASE fillBottle(g) = h /\ liq(g) = 0 /\ toting(g, BOTTLE)
  <2>1. Frame(g, h) /\ h.holding = g.holding /\ h.fixed = g.fixed /\ h.prop = g1.prop
        /\ h.loc = g.loc /\ h.newloc = g.newloc /\ h.oldloc = g.oldloc /\ h.oldloc2 = g.oldloc2
    BY <1>1, <1>5 DEF Frame, Fields
  <2>2. h.prop[BIRD] = g.prop[BIRD] /\ h.prop[TROLL] = g.prop[TROLL] /\ h.prop[CHASM] = g.prop[CHASM]
    BY <1>2, <2>1
  <2>3. h.place \in [Object -> Int] /\ \A i \in Object \ {liq(g1)} : h.place[i] = g.place[i]
    <3>1. g.place \in [Object -> Int]
      BY DEF Game, Typed
    <3>2. liq(g1) \in {WATER, OIL}
      BY <1>3
    <3>. QED  BY <1>5, <3>1, <3>2
  <2>4. {i \in Object \ {WATER, OIL} : h.place[i] # g.place[i]} = {}
    BY <1>3, <2>3
  <2>5. g.place[BOTTLE] = -1
    BY <1>8 DEF toting
  <2>6. h.place[BOTTLE] = -1
    BY <1>3, <2>3, <2>5
  <2>7. h.prop[BOTTLE] \in {0, 2} /\ h.prop \in [Object -> Int] /\ Shape(h)
    BY <1>2, <1>5, <2>1
  <2>8. ~g.closed => /\ h.place[WATER] = -1 => h.prop[BOTTLE] = 0
                     /\ h.place[OIL] = -1 => h.prop[BOTTLE] = 2
    BY <1>3, <1>6, <1>8, <2>1, <2>3, <2>7
  <2>9. Follows(g, h)
    BY <2>1, <2>2, <2>3, <2>4, <2>6, <2>7, <2>8, LiquidFollows
  <2>. QED  BY <1>8, <2>9
<1>. QED  BY <1>4, <1>7, <1>8, PlainSelf

\* The bottle is emptied.
LEMMA EmptyFollows ==
  ASSUME NEW g, Game(g), NEW obj \in {WATER, OIL}, toting(g, obj) \/ liq(g) = obj
  PROVE  Follows(g, [g EXCEPT !.prop[BOTTLE] = 1, !.place[obj] = 0])
<1> DEFINE h == [g EXCEPT !.prop[BOTTLE] = 1, !.place[obj] = 0]
<1>1. /\ Shape(h) /\ h.place = [g.place EXCEPT ![obj] = 0] /\ h.prop = [g.prop EXCEPT ![BOTTLE] = 1]
      /\ \A f \in Fields \ {"place", "prop"} : h[f] = g[f]
  BY DEF Game, Shape, Fields
<1>2. g.place \in [Object -> Int] /\ g.prop \in [Object -> Int]
  BY DEF Game, Typed
<1> HIDE DEF h
<1>3. /\ h.place \in [Object -> Int] /\ h.place[obj] = 0 /\ \A i \in Object \ {obj} : h.place[i] = g.place[i]
      /\ h.prop \in [Object -> Int] /\ h.prop[BOTTLE] = 1 /\ \A i \in Object \ {BOTTLE} : h.prop[i] = g.prop[i]
  BY <1>1, <1>2
<1>4. {i \in Object \ {WATER, OIL} : h.place[i] # g.place[i]} = {}
  BY <1>3
<1>5. ~g.closed => g.place[WATER] # -1 \/ g.place[OIL] # -1
  BY Liquids
<1>6. ~g.closed => h.place[WATER] # -1 /\ h.place[OIL] # -1
  BY <1>3, Liquids DEF toting
<1>7. Frame(g, h) /\ h.holding = g.holding /\ h.fixed = g.fixed
      /\ h.loc = g.loc /\ h.newloc = g.newloc /\ h.oldloc = g.oldloc /\ h.oldloc2 = g.oldloc2
  BY <1>1 DEF Frame, Fields
<1>8. h.prop[BIRD] = g.prop[BIRD] /\ h.prop[TROLL] = g.prop[TROLL] /\ h.prop[CHASM] = g.prop[CHASM]
  BY <1>3
<1>9. h.prop[BOTTLE] \in 0 .. 2
  BY <1>3
<1>10. Follows(g, h)
  BY <1>1, <1>3, <1>4, <1>6, <1>7, <1>8, <1>9, LiquidFollows
<1>. QED  BY <1>10 DEF h

\* DRINK: the water of the bottle is gone.
LEMMA VdrinkFollows ==
  ASSUME NEW g, Game(g)
  PROVE  Follows(g, vdrink(g))
<1>1. vdrink(g) = g \/ (liq(g) = WATER /\ vdrink(g) = [g EXCEPT !.prop[BOTTLE] = 1, !.place[WATER] = 0])
  BY DEF vdrink
<1>. QED  BY <1>1, EmptyFollows, PlainSelf

\* A routine that moves nothing, and changes states and second places no
\* invariant is about.
LEMMA OtherPlain ==
  ASSUME NEW g, Game(g), NEW h, Shape(h),
         \A f \in Fields \ ({"prop", "fixed"} \cup Aside \cup Locs) : h[f] = g[f],
         h.prop \in [Object -> Int],
         h.prop[BOTTLE] = g.prop[BOTTLE], h.prop[BIRD] = g.prop[BIRD],
         h.prop[TROLL] = g.prop[TROLL], h.prop[CHASM] = g.prop[CHASM],
         h.fixed \in [Object -> Int],
         h.fixed[TROLL] = g.fixed[TROLL], h.fixed[TROLL2] = g.fixed[TROLL2],
         h.loc \in Loc, h.newloc \in Loc, h.oldloc \in Loc, h.oldloc2 \in Loc
  PROVE  Plain(g, h) /\ Game(h) /\ Follows(g, h)
<1>1. Frame(g, h) /\ h.place = g.place /\ h.holding = g.holding
  BY DEF Frame, Fields, Aside, Locs
<1>2. Plain(g, h)
  BY <1>1, StillPlain
<1>. QED  BY <1>2, TidyGame, PlainFollows DEF Plain

\* The states of objects no invariant is about.
Free == Object \ {BOTTLE, BIRD, TROLL, CHASM}

\* A change of the state of an object of no consequence.
LEMMA PropPlain ==
  ASSUME NEW g, Game(g), NEW h, Shape(h), NEW obj \in Free, NEW n \in Int,
         h.prop = [g.prop EXCEPT ![obj] = n],
         \A f \in Fields \ ({"prop"} \cup Aside) : h[f] = g[f]
  PROVE  Plain(g, h) /\ Game(h) /\ Follows(g, h)
<1>1. g.prop \in [Object -> Int] /\ g.fixed \in [Object -> Int]
      /\ g.loc \in Loc /\ g.newloc \in Loc /\ g.oldloc \in Loc /\ g.oldloc2 \in Loc
  BY DEF Game, Typed
<1>2. h.prop \in [Object -> Int] /\ \A i \in Object \ {obj} : h.prop[i] = g.prop[i]
  BY <1>1 DEF Free
<1>3. \A f \in Fields \ ({"prop", "fixed"} \cup Aside \cup Locs) : h[f] = g[f]
  OBVIOUS
<1>4. h.fixed = g.fixed /\ h.loc = g.loc /\ h.newloc = g.newloc /\ h.oldloc = g.oldloc /\ h.oldloc2 = g.oldloc2
  BY DEF Fields, Aside
<1>5. h.prop[BOTTLE] = g.prop[BOTTLE] /\ h.prop[BIRD] = g.prop[BIRD]
      /\ h.prop[TROLL] = g.prop[TROLL] /\ h.prop[CHASM] = g.prop[CHASM]
  BY <1>2 DEF Free
<1>. QED  BY <1>1, <1>2, <1>3, <1>4, <1>5, OtherPlain

\* A change of the object of the sentence.
LEMMA ObjectPlain ==
  ASSUME NEW g, Game(g), NEW obj
  PROVE  LET h == [g EXCEPT !.object = obj]
         IN  /\ Plain(g, h) /\ Game(h) /\ Follows(g, h)
             /\ h.object = obj /\ \A f \in Fields \ {"object"} : h[f] = g[f]
<1> DEFINE h == [g EXCEPT !.object = obj]
<1>1. Shape(h) /\ h.object = obj /\ \A f \in Fields \ {"object"} : h[f] = g[f]
  BY DEF Game, Shape, Fields
<1> HIDE DEF h
<1>2. \A f \in Fields \ (Aside \cup Locs) : h[f] = g[f]
  BY <1>1 DEF Aside
<1>3. h.loc \in Loc /\ h.newloc \in Loc /\ h.oldloc \in Loc /\ h.oldloc2 \in Loc
  BY <1>1 DEF Game, Typed, Fields
<1>4. Plain(g, h) /\ Game(h)
  BY <1>1, <1>2, <1>3, AsidePlain
<1>5. Follows(g, h)
  BY <1>4, PlainFollows
<1>. QED  BY <1>1, <1>4, <1>5 DEF h

\* The plant grows, and its top with it.
LEMMA GrowPlain ==
  ASSUME NEW g, Game(g), NEW m \in Int, NEW n \in Int
  PROVE  Plain(g, [g EXCEPT !.prop[PLANT] = m, !.prop[PLANT2] = n])
<1> DEFINE h == [g EXCEPT !.prop[PLANT] = m, !.prop[PLANT2] = n]
           k == [g EXCEPT !.prop[PLANT] = m]
<1>1. Shape(k) /\ k.prop = [g.prop EXCEPT ![PLANT] = m] /\ \A f \in Fields \ {"prop"} : k[f] = g[f]
  BY DEF Game, Shape, Fields
<1>2. h = [k EXCEPT !.prop[PLANT2] = n]
  OBVIOUS
<1> HIDE DEF k
<1>3. Plain(g, k) /\ Game(k)
  BY <1>1, PropPlain DEF Free
<1>4. Shape(h) /\ h.prop = [k.prop EXCEPT ![PLANT2] = n] /\ \A f \in Fields \ {"prop"} : h[f] = k[f]
  BY <1>1, <1>2 DEF Shape, Fields
<1> HIDE DEF h
<1>5. Plain(k, h)
  BY <1>3, <1>4, PropPlain DEF Free
<1>6. Plain(g, h)
  BY <1>3, <1>5, PlainTrans
<1>. QED  BY <1>6 DEF h

\* A routine after another that may have exited.
LEMMA ThenFollows ==
  ASSUME NEW g, NEW h, Follows(g, h), NEW k, Follows(h, k)
  PROVE  Follows(g, IF h.phase = "over" THEN h ELSE k)
  BY FollowsTrans

\* POUR: the bottle is empty, and the plant or the door has the liquid.
LEMMA VpourFollows ==
  ASSUME NEW g0, Game(g0)
  PROVE  Follows(g0, vpour(g0))
<1> DEFINE g   == IF g0.object \in {BOTTLE, 0} THEN [g0 EXCEPT !.object = liq(g0)] ELSE g0
           obj == g.object
           out == [g EXCEPT !.prop[BOTTLE] = 1, !.place[obj] = 0]
           size == (g.prop[PLANT] + 2) % 6
           p   == pspeak(out, PLANT, g.prop[PLANT] + 1)
           grown == [p EXCEPT !.prop[PLANT] = size, !.prop[PLANT2] = size \div 2]
           oiled(n) == [out EXCEPT !.prop[DOOR] = n]
<1>1. Game(g) /\ Follows(g0, g)
  BY ObjectPlain, PlainSelf
<1>2. \/ vpour(g0) = g
      \/ /\ obj \in {OIL, WATER} /\ toting(g, obj)
         /\ vpour(g0) \in {out, IF p.phase = "over" THEN p ELSE grown, oiled(0), oiled(1)}
  BY DEF vpour, Then
<1>3. g.prop[PLANT] \in Int
  BY <1>1 DEF Game, Typed
<1> HIDE DEF g
<1>4. CASE obj \in {OIL, WATER} /\ toting(g, obj)
           /\ vpour(g0) \in {out, IF p.phase = "over" THEN p ELSE grown, oiled(0), oiled(1)}
  <2>1. Follows(g, out) /\ Game(out)
    BY <1>1, <1>4, EmptyFollows DEF Follows
  <2>2. Shape(oiled(0)) /\ oiled(0).prop = [out.prop EXCEPT ![DOOR] = 0] /\ \A f \in Fields \ {"prop"} : oiled(0)[f] = out[f]
    BY <2>1 DEF Game, Shape, Fields
  <2>3. Shape(oiled(1)) /\ oiled(1).prop = [out.prop EXCEPT ![DOOR] = 1] /\ \A f \in Fields \ {"prop"} : oiled(1)[f] = out[f]
    BY <2>1 DEF Game, Shape, Fields
  <2>4. size \in Int /\ size \div 2 \in Int
    BY <1>3
  <2> HIDE DEF out, size
  <2>5. Follows(out, p) /\ Game(p)
    BY <2>1, PspeakPlain, PlainFollows DEF Follows
  <2> HIDE DEF p
  <2>6. Follows(p, grown)
    BY <2>4, <2>5, GrowPlain, PlainFollows
  <2>7. Follows(out, oiled(0)) /\ Follows(out, oiled(1))
    <3> HIDE DEF oiled
    <3>. QED  BY <2>1, <2>2, <2>3, PropPlain DEF Free
  <2> HIDE DEF grown, oiled
  <2>8. Follows(out, IF p.phase = "over" THEN p ELSE grown)
    BY <2>5, <2>6, ThenFollows
  <2>. QED  BY <1>1, <1>4, <2>1, <2>7, <2>8, FollowsTrans, PlainSelf
<1>. QED  BY <1>1, <1>2, <1>4

\* What is left to show of a routine that keeps count of what it moves.
LEMMA GameIf ==
  ASSUME NEW g, Game(g), NEW h, Shape(h), Typed(h), Frame(g, h),
         h.holding - Held(h.place) = g.holding - Held(g.place),
         ~g.closed => /\ h.prop[BOTTLE] \in 0 .. 2 /\ h.prop[BIRD] \in 0 .. 1
                      /\ h.place[WATER] = -1 => h.place[BOTTLE] = -1 /\ h.prop[BOTTLE] = 0
                      /\ h.place[OIL] = -1 => h.place[BOTTLE] = -1 /\ h.prop[BOTTLE] = 2
                      /\ h.prop[BIRD] = 1 => h.place[BIRD] = h.place[CAGE]
  PROVE  Game(h)
<1> SUFFICES ASSUME ~h.closed PROVE Kept(h)
  BY DEF Game, Kept
<1>1. ~g.closed
  BY DEF Frame
<1>2. liq(h) = IF h.prop[BOTTLE] = 0 THEN WATER ELSE IF h.prop[BOTTLE] = 1 THEN 0 ELSE OIL
  BY <1>1, LiqIs
<1>3. h.holding = Held(h.place)
  <2>1. g.holding = Held(g.place)
    BY <1>1 DEF Game, Kept
  <2>2. Held(h.place) \in Int /\ Held(g.place) \in Int /\ h.holding \in Int /\ g.holding \in Int
    BY HeldIsInt DEF Typed, Game
  <2>. QED  BY <2>1, <2>2
<1>. QED  BY <1>1, <1>2, <1>3 DEF Kept

\* What the bottle holds, by its state or by the state it has in the repository.
LEMMA LiqAlways ==
  ASSUME NEW g, g.prop[BOTTLE] \in -3 .. 2
  PROVE  liq(g) \in {0, WATER, OIL}
<1>1. CASE g.prop[BOTTLE] \in 0 .. 2
  BY <1>1, LiqIs
<1>2. CASE g.prop[BOTTLE] \in {-3, -2, -1}
  <2>1. CASE g.prop[BOTTLE] = -3
    BY <2>1 DEF liq, liq2
  <2>2. CASE g.prop[BOTTLE] = -2
    BY <2>2 DEF liq, liq2
  <2>3. CASE g.prop[BOTTLE] = -1
    BY <2>3 DEF liq, liq2
  <2>. QED  BY <1>2, <2>1, <2>2, <2>3
<1>. QED  BY <1>1, <1>2

\* An object dropped that is neither bird nor bottle; an end of the bridge only
\* if it is carried, which it is not while the troll holds the bridge.
LEMMA DropOtherFollows ==
  ASSUME NEW g, Game(g), NEW obj \in Object \ Paired, NEW where \in Loc,
         toting(g, obj) \/ obj \notin Ends
  PROVE  Follows(g, drop(g, obj, where)) /\ (obj \notin Ends => Plain(g, drop(g, obj, where)))
<1>1. CASE obj \notin Ends
  BY <1>1, DropPlain, PlainFollows
<1>2. CASE obj \in Ends
  <2>1. ~Bridge(g)
    BY <1>2 DEF Bridge, toting, Ends
  <2>2. Tidy(g, drop(g, obj, where))
    BY DropPlain
  <2>. QED  BY <1>2, <2>1, <2>2, TidyGame DEF Follows
<1>. QED  BY <1>1, <1>2

\* In the closed cave nothing is counted, and any object may be dropped.
LEMMA DropClosedFollows ==
  ASSUME NEW g, Game(g), g.closed, NEW obj \in Object, NEW where \in Loc,
         toting(g, obj) \/ obj \notin Ends
  PROVE  Follows(g, drop(g, obj, where))
<1> DEFINE h == drop(g, obj, where)
<1>1. Shape(h) /\ \A f \in Fields \ {"place", "holding"} : h[f] = g[f]
  BY DEF drop, Game, Shape, Fields
<1>2. h.place = [g.place EXCEPT ![obj] = where]
  BY DEF drop, Game, Shape, Fields
<1>3. h.holding \in Int
  BY DEF drop, Game, Shape, Fields, Typed
<1> HIDE DEF h
<1>4. Frame(g, h) /\ h.fixed = g.fixed /\ h.prop = g.prop
      /\ h.loc = g.loc /\ h.newloc = g.newloc /\ h.oldloc = g.oldloc /\ h.oldloc2 = g.oldloc2
  BY <1>1 DEF Frame, Fields
<1>5. g.place \in [Object -> Int]
  BY DEF Game, Typed
<1>6. h.place \in [Object -> Int] /\ \A i \in Object \ {obj} : h.place[i] = g.place[i]
  BY <1>2, <1>5 DEF Loc
<1>7. Game(h)
  BY <1>1, <1>3, <1>4, <1>6 DEF Game, Typed, Kept, Frame
<1>8. Bridge(g) => obj \notin Ends
  BY DEF Bridge, Ends, toting
<1>9. Bridge(g) => Bridge(h)
  BY <1>4, <1>6, <1>8 DEF Bridge, Ends
<1>10. Follows(g, h)
  BY <1>4, <1>7, <1>9 DEF Follows
<1>. QED  BY <1>10 DEF h

\* The bottle is dropped, with what is in it.
LEMMA DropBottleFollows ==
  ASSUME NEW g, Game(g), toting(g, BOTTLE) \/ toting(g, liq(g))
  PROVE  Follows(g, drop(IF liq(g) # 0 THEN [g EXCEPT !.place[liq(g)] = 0] ELSE g, BOTTLE, g.loc))
<1> DEFINE g1 == IF liq(g) # 0 THEN [g EXCEPT !.place[liq(g)] = 0] ELSE g
           h  == drop(g1, BOTTLE, g.loc)
<1>1. liq(g) \in {0, WATER, OIL}
  BY LiqAlways DEF Game, Typed
<1>2. g.place \in [Object -> Int]
  BY DEF Game, Typed
<1>3. /\ Shape(g1) /\ \A f \in Fields \ {"place"} : g1[f] = g[f]
      /\ g1.place = IF liq(g) # 0 THEN [g.place EXCEPT ![liq(g)] = 0] ELSE g.place
  BY DEF Game, Shape, Fields
<1> HIDE DEF g1
<1>4. /\ g1.place \in [Object -> Int] /\ \A i \in Object \ {WATER, OIL} : g1.place[i] = g.place[i]
      /\ liq(g) # 0 => g1.place[liq(g)] = 0
      /\ \A i \in {WATER, OIL} : i # liq(g) => g1.place[i] = g.place[i]
  BY <1>1, <1>2, <1>3
<1>5. Typed(g1)
  BY <1>3, <1>4 DEF Game, Typed, Fields
<1>6. Held(g1.place) = Held(g.place)
  <2>1. {i \in Object \ {WATER, OIL} : g1.place[i] = -1} = {i \in Object \ {WATER, OIL} : g.place[i] = -1}
    BY <1>4
  <2>. QED  BY <2>1, Zenon DEF Held
<1>7. Moved(g1, h, [g1.place EXCEPT ![BOTTLE] = g.loc])
  <2>1. BOTTLE \in Object \ {WATER, OIL} /\ g.loc \in Nat
    BY DEF Game, Typed, Loc
  <2>. QED  BY <1>3, <1>5, <2>1, DropDoes
<1> HIDE DEF h
<1>8. /\ Shape(h) /\ Typed(h) /\ h.holding - Held(h.place) = g.holding - Held(g.place)
      /\ Frame(g, h) /\ h.fixed = g.fixed /\ h.prop = g.prop
  BY <1>3, <1>6, <1>7 DEF Moved, Frame, Fields
<1>9. \A i \in Object \ {BOTTLE} : h.place[i] = g1.place[i]
  BY <1>4, <1>7 DEF Moved
<1>10. ~g.closed => h.place[WATER] # -1 /\ h.place[OIL] # -1
  BY <1>4, <1>9, Liquids
<1>11. Game(h)
  <2> SUFFICES ASSUME ~g.closed
               PROVE  /\ h.prop[BOTTLE] \in 0 .. 2 /\ h.prop[BIRD] \in 0 .. 1
                      /\ h.prop[BIRD] = 1 => h.place[BIRD] = h.place[CAGE]
    BY <1>8, <1>10, GameIf
  <2>. QED  BY <1>4, <1>8, <1>9 DEF Game, Kept
<1>12. Bridge(g) => Bridge(h)
  BY <1>4, <1>8, <1>9 DEF Bridge
<1>13. Follows(g, h)
  BY <1>8, <1>11, <1>12 DEF Follows
<1>. QED  BY <1>13 DEF h, g1

\* The bird is out of its cage, somewhere else or nowhere.
LEMMA BirdFreed ==
  ASSUME NEW g, Game(g), NEW h, Shape(h), NEW w \in Loc,
         h.place = [g.place EXCEPT ![BIRD] = w], h.prop = [g.prop EXCEPT ![BIRD] = 0],
         h.holding \in Int, h.holding - Held(h.place) = g.holding - Held(g.place),
         \A f \in Fields \ ({"place", "holding", "prop"} \cup Aside) : h[f] = g[f]
  PROVE  Follows(g, h)
<1>1. g.place \in [Object -> Int] /\ g.prop \in [Object -> Int]
  BY DEF Game, Typed
<1>2. /\ h.place \in [Object -> Int] /\ \A i \in Object \ {BIRD} : h.place[i] = g.place[i]
      /\ h.prop \in [Object -> Int] /\ h.prop[BIRD] = 0 /\ \A i \in Object \ {BIRD} : h.prop[i] = g.prop[i]
  BY <1>1 DEF Loc
<1>3. Frame(g, h) /\ h.fixed = g.fixed
      /\ h.loc = g.loc /\ h.newloc = g.newloc /\ h.oldloc = g.oldloc /\ h.oldloc2 = g.oldloc2
  BY DEF Frame, Fields, Aside
<1>4. Typed(h)
  BY <1>2, <1>3 DEF Game, Typed, Frame
<1>5. ~g.closed => /\ h.prop[BOTTLE] \in 0 .. 2
                   /\ h.place[WATER] = -1 => h.place[BOTTLE] = -1 /\ h.prop[BOTTLE] = 0
                   /\ h.place[OIL] = -1 => h.place[BOTTLE] = -1 /\ h.prop[BOTTLE] = 2
  BY <1>2, Liquids
<1>6. Game(h)
  BY <1>2, <1>3, <1>4, <1>5, GameIf
<1>7. Bridge(g) => Bridge(h)
  BY <1>2, <1>3 DEF Bridge
<1>. QED  BY <1>3, <1>6, <1>7 DEF Follows

\* The cage is dropped, with the bird that is in it.
LEMMA DropCageFollows ==
  ASSUME NEW g, Game(g)
  PROVE  Follows(g, drop(IF g.prop[BIRD] # 0 THEN drop(g, BIRD, g.loc) ELSE g, CAGE, g.loc))
<1> DEFINE g1 == IF g.prop[BIRD] # 0 THEN drop(g, BIRD, g.loc) ELSE g
           h  == drop(g1, CAGE, g.loc)
           p  == IF g.prop[BIRD] # 0 THEN [g.place EXCEPT ![BIRD] = g.loc] ELSE g.place
<1>1. BIRD \in Object \ {WATER, OIL} /\ CAGE \in Object \ {WATER, OIL} /\ g.loc \in Nat /\ g.place \in [Object -> Int]
  BY DEF Game, Typed, Loc
<1>2. Moved(g, g1, p)
  <2>1. Moved(g, g, g.place)
    BY DEF Moved, Game
  <2>2. Moved(g, drop(g, BIRD, g.loc), [g.place EXCEPT ![BIRD] = g.loc])
    BY <1>1, DropDoes DEF Game
  <2>. QED  BY <2>1, <2>2
<1> HIDE DEF g1
<1>3. Moved(g1, h, [g1.place EXCEPT ![CAGE] = g.loc])
  <2>1. Shape(g1) /\ Typed(g1)
    BY <1>2 DEF Moved
  <2>. QED  BY <1>1, <2>1, DropDoes
<1> HIDE DEF h
<1>4. Moved(g, h, [p EXCEPT ![CAGE] = g.loc])
  BY <1>2, <1>3, MovedTrans DEF Moved
<1>5. /\ h.place[CAGE] = g.loc
      /\ g.prop[BIRD] # 0 => h.place[BIRD] = g.loc
      /\ \A i \in Object \ {CAGE, BIRD} : h.place[i] = g.place[i]
  BY <1>1, <1>4 DEF Moved
<1>6. Frame(g, h) /\ h.fixed = g.fixed /\ h.prop = g.prop
  BY <1>4 DEF Moved, Frame, Fields
<1>7. ~g.closed => /\ h.prop[BOTTLE] \in 0 .. 2 /\ h.prop[BIRD] \in 0 .. 1
                   /\ h.place[WATER] = -1 => h.place[BOTTLE] = -1 /\ h.prop[BOTTLE] = 0
                   /\ h.place[OIL] = -1 => h.place[BOTTLE] = -1 /\ h.prop[BOTTLE] = 2
                   /\ h.prop[BIRD] = 1 => h.place[BIRD] = h.place[CAGE]
  <2> SUFFICES ASSUME ~g.closed
               PROVE  /\ h.prop[BIRD] \in 0 .. 1
                      /\ h.prop[BIRD] = 1 => h.place[BIRD] = h.place[CAGE]
    BY <1>5, <1>6, Liquids
  <2>1. g.prop[BIRD] \in 0 .. 1
    BY DEF Game, Kept
  <2>. QED  BY <1>5, <1>6, <2>1
<1>8. Game(h)
  BY <1>4, <1>6, <1>7, GameIf DEF Moved
<1>9. Bridge(g) => Bridge(h)
  BY <1>5, <1>6 DEF Bridge
<1>10. Follows(g, h)
  BY <1>6, <1>8, <1>9 DEF Follows
<1>. QED  BY <1>10 DEF h, g1

\* What DROP lets go, with what goes with it.
LEMMA LetGoFollows ==
  ASSUME NEW g, Game(g), g.object \in Object, toting(g, g.object)
  PROVE  Follows(g, letGo(g))
<1> DEFINE freed == [g EXCEPT !.prop[BIRD] = 0]
<1>0. g.loc \in Loc /\ liq(g) \in {0, WATER, OIL}
  BY LiqAlways DEF Game, Typed
<1>1. CASE liq(g) = g.object \/ g.object = BOTTLE
  <2>1. letGo(g) = drop(IF liq(g) # 0 THEN [g EXCEPT !.place[liq(g)] = 0] ELSE g, BOTTLE, g.loc)
    BY <1>1 DEF letGo
  <2>. QED  BY <1>1, <2>1, DropBottleFollows
<1>2. CASE g.object = CAGE
  <2>1. letGo(g) = drop(IF g.prop[BIRD] # 0 THEN drop(g, BIRD, g.loc) ELSE g, CAGE, g.loc)
    BY <1>0, <1>2 DEF letGo
  <2>. QED  BY <2>1, DropCageFollows
<1>3. CASE g.object = BIRD
  <2>1. letGo(g) = drop(freed, BIRD, g.loc)
    BY <1>0, <1>3 DEF letGo
  <2>2. Shape(freed) /\ freed.prop = [g.prop EXCEPT ![BIRD] = 0] /\ \A f \in Fields \ {"prop"} : freed[f] = g[f]
    BY DEF Game, Shape, Fields
  <2> HIDE DEF freed
  <2>3. Typed(freed) /\ freed.place = g.place /\ freed.holding = g.holding
    BY <2>2 DEF Game, Typed, Fields
  <2>4. BIRD \in Object \ {WATER, OIL} /\ g.loc \in Nat
    BY <1>0 DEF Loc
  <2>5. Moved(freed, drop(freed, BIRD, g.loc), [freed.place EXCEPT ![BIRD] = g.loc])
    BY <2>2, <2>3, <2>4, DropDoes
  <2> DEFINE h == drop(freed, BIRD, g.loc)
  <2> HIDE DEF h
  <2>6. /\ Shape(h) /\ h.place = [g.place EXCEPT ![BIRD] = g.loc] /\ h.prop = [g.prop EXCEPT ![BIRD] = 0]
        /\ h.holding \in Int /\ h.holding - Held(h.place) = g.holding - Held(g.place)
        /\ \A f \in Fields \ ({"place", "holding", "prop"} \cup Aside) : h[f] = g[f]
    BY <2>2, <2>3, <2>5 DEF Moved, Typed, h, Fields
  <2>7. Follows(g, h)
    BY <1>0, <2>6, BirdFreed
  <2>. QED  BY <2>1, <2>7 DEF h
<1>4. CASE liq(g) # g.object /\ g.object \notin {BOTTLE, CAGE, BIRD}
  <2>1. letGo(g) = drop(g, g.object, g.loc)
    BY <1>4 DEF letGo
  <2>2. CASE g.object \in {WATER, OIL}
    <3>1. g.closed
      BY <1>4, <2>2, Liquids DEF toting
    <3>. QED  BY <1>0, <2>1, <3>1, DropClosedFollows
  <2>3. CASE g.object \notin {WATER, OIL}
    BY <1>0, <1>4, <2>1, <2>3, DropOtherFollows DEF Paired
  <2>. QED  BY <2>2, <2>3
<1>. QED  BY <1>1, <1>2, <1>3, <1>4

\* Putting a thing down that is nothing to the bottle, the cage and the bridge.
LEMMA LetGoPlain ==
  ASSUME NEW g, Game(g), g.object \in Object \ (Paired \cup Ends)
  PROVE  Follows(g, letGo(g))
<1>1. g.loc \in Loc /\ liq(g) \in {0, WATER, OIL}
  BY LiqAlways DEF Game, Typed
<1>2. letGo(g) = drop(g, g.object, g.loc)
  BY <1>1 DEF letGo, Paired
<1>. QED  BY <1>1, <1>2, DropPlain, PlainFollows

\* DROP of the rod in the closed cave.
LEMMA DynamiteFollows ==
  ASSUME NEW g, Game(g), g.object \in Object
  PROVE  LET h == dynamite(g)
         IN  Follows(g, h) /\ Game(h) /\ h.object \in Object
<1> DEFINE k == [g EXCEPT !.object = ROD2]
<1>1. dynamite(g) = g \/ dynamite(g) = k
  BY DEF dynamite
<1>2. Follows(g, k) /\ Game(k) /\ k.object = ROD2
  BY ObjectPlain
<1>3. Follows(g, g)
  BY PlainSelf
<1> HIDE DEF k
<1>. QED  BY <1>1, <1>2, <1>3

\* The bird drives the snake away, and is let go.
LEMMA SnakeFlees ==
  ASSUME NEW g, Game(g), g.object \in Object, toting(g, g.object), g.object # SNAKE
  PROVE  Follows(g, letGo([dstroy(g, SNAKE) EXCEPT !.prop[SNAKE] = -1]))
<1> DEFINE d == dstroy(g, SNAKE)
           h == [d EXCEPT !.prop[SNAKE] = -1]
<1>1. SNAKE \in Object \ (Paired \cup Ends) /\ SNAKE \in Object \ {WATER, OIL} /\ 0 \in Loc /\ 0 \in Nat
  BY DEF Paired, Ends, Loc
<1>2. Plain(g, d) /\ Game(d)
  BY <1>1, MovePlain, TidyGame DEF dstroy, Plain
<1>3. Moved(g, d, [g.place EXCEPT ![SNAKE] = 0])
  BY <1>1, MoveDoes DEF Game, dstroy
<1> HIDE DEF d
<1>4. Shape(h) /\ h.prop = [d.prop EXCEPT ![SNAKE] = -1] /\ \A f \in Fields \ {"prop"} : h[f] = d[f]
  BY <1>2 DEF Game, Shape, Fields
<1> HIDE DEF h
<1>5. Plain(d, h) /\ Game(h)
  <2>1. -1 \in Int /\ SNAKE \in Free
    BY DEF Free
  <2>. QED  BY <1>2, <1>4, <2>1, PropPlain
<1>6. Follows(g, h)
  BY <1>2, <1>5, PlainFollows, FollowsTrans
<1>7. h.object = g.object /\ h.place = [g.place EXCEPT ![SNAKE] = 0]
  BY <1>3, <1>4 DEF Moved, Fields
<1>8. toting(h, h.object)
  BY <1>7 DEF toting, Game, Typed
<1>9. Follows(h, letGo(h))
  BY <1>5, <1>7, <1>8, LetGoFollows
<1>10. Follows(g, letGo(h))
  BY <1>6, <1>9, FollowsTrans
<1>. QED  BY <1>10 DEF h, d

\* The bird is nowhere.
LEMMA BirdLost ==
  ASSUME NEW g, Game(g), NEW n
  PROVE  Follows(g, [dstroy(g, BIRD) EXCEPT !.prop[BIRD] = 0, !.tally2 = n])
<1> DEFINE d == dstroy(g, BIRD)
           h == [d EXCEPT !.prop[BIRD] = 0, !.tally2 = n]
<1>1. BIRD \in Object \ {WATER, OIL} /\ 0 \in Loc /\ 0 \in Nat
  BY DEF Loc
<1>2. Moved(g, d, [g.place EXCEPT ![BIRD] = 0])
  BY <1>1, MoveDoes DEF Game, dstroy
<1> HIDE DEF d
<1>3. Shape(h) /\ h.prop = [d.prop EXCEPT ![BIRD] = 0] /\ \A f \in Fields \ {"prop", "tally2"} : h[f] = d[f]
  BY <1>2 DEF Moved, Shape, Fields
<1> HIDE DEF h
<1>4. /\ h.place = [g.place EXCEPT ![BIRD] = 0] /\ h.prop = [g.prop EXCEPT ![BIRD] = 0]
      /\ h.holding \in Int /\ h.holding - Held(h.place) = g.holding - Held(g.place)
      /\ \A f \in Fields \ ({"place", "holding", "prop"} \cup Aside) : h[f] = g[f]
  BY <1>2, <1>3 DEF Moved, Typed, Fields, Aside
<1>5. Follows(g, h)
  BY <1>1, <1>3, <1>4, BirdFreed
<1>. QED  BY <1>5 DEF h, d

\* A change of the state of the troll that fits the bridge.
LEMMA TrollState ==
  ASSUME NEW g, Game(g), NEW h, Shape(h), NEW n, n \in Int,
         h.prop = [g.prop EXCEPT ![TROLL] = n],
         n = 2 \/ ~Bridge(g) \/ (n \in 0 .. 2 /\ g.prop[CHASM] # 1),
         \A f \in Fields \ ({"prop"} \cup Aside) : h[f] = g[f]
  PROVE  Follows(g, h)
<1>1. g.prop \in [Object -> Int]
  BY DEF Game, Typed
<1>2. h.prop \in [Object -> Int] /\ h.prop[TROLL] = n /\ \A i \in Object \ {TROLL} : h.prop[i] = g.prop[i]
  BY <1>1
<1>3. Frame(g, h) /\ h.place = g.place /\ h.holding = g.holding /\ h.fixed = g.fixed
      /\ h.loc = g.loc /\ h.newloc = g.newloc /\ h.oldloc = g.oldloc /\ h.oldloc2 = g.oldloc2
  BY DEF Frame, Fields, Aside
<1>4. Typed(h)
  BY <1>2, <1>3 DEF Game, Typed, Frame
<1>5. Tidy(g, h)
  BY <1>2, <1>3, <1>4 DEF Tidy
<1>6. Game(h)
  BY <1>5, TidyGame
<1>7. Bridge(g) => Bridge(h)
  BY <1>2, <1>3 DEF Bridge
<1>. QED  BY <1>3, <1>6, <1>7 DEF Follows

\* The troll runs away.
LEMMA TrollLeavesFollows ==
  ASSUME NEW g, Game(g)
  PROVE  LET h == trollLeaves(g)
         IN  Follows(g, h) /\ Game(h) /\ h.object = g.object /\ h.loc = g.loc /\ h.prop = g.prop
<1> DEFINE h == trollLeaves(g)
<1>1. TROLL \in Ends /\ TROLL2 \in Ends /\ TROLL # TROLL2
  BY DEF Ends
<1>2. h = moveFixed(move(moveFixed(move(g, TROLL, 0), TROLL, 0), TROLL2, 117), TROLL2, 122)
  BY DEF trollLeaves, trollGone
<1> HIDE DEF h
<1>3. /\ Tidy(g, h) /\ Game(h)
      /\ h.place[TROLL] = 0 /\ h.fixed[TROLL] = 0 /\ h.place[TROLL2] = 117 /\ h.fixed[TROLL2] = 122
      /\ h.prop = g.prop /\ h.loc = g.loc /\ h.object = g.object
  BY <1>1, <1>2, SwapEnds
<1>4. Bridge(g) => Bridge(h)
  BY <1>3 DEF Bridge
<1>5. Follows(g, h)
  BY <1>3, <1>4 DEF Follows, Tidy
<1>. QED  BY <1>3, <1>5 DEF h

\* A change of the state and the second place of an object of no consequence.
LEMMA ThingPlain ==
  ASSUME NEW g, Game(g), NEW h, Shape(h), NEW obj \in Free \ Ends, NEW m \in Int, NEW n \in Int,
         h.prop = [g.prop EXCEPT ![obj] = m], h.fixed = [g.fixed EXCEPT ![obj] = n],
         \A f \in Fields \ ({"prop", "fixed"} \cup Aside) : h[f] = g[f]
  PROVE  Plain(g, h) /\ Game(h) /\ Follows(g, h)
<1>1. g.prop \in [Object -> Int] /\ g.fixed \in [Object -> Int]
      /\ g.loc \in Loc /\ g.newloc \in Loc /\ g.oldloc \in Loc /\ g.oldloc2 \in Loc
  BY DEF Game, Typed
<1>2. /\ h.prop \in [Object -> Int] /\ \A i \in Object \ {obj} : h.prop[i] = g.prop[i]
      /\ h.fixed \in [Object -> Int] /\ \A i \in Object \ {obj} : h.fixed[i] = g.fixed[i]
  BY <1>1
<1>3. h.loc = g.loc /\ h.newloc = g.newloc /\ h.oldloc = g.oldloc /\ h.oldloc2 = g.oldloc2
  BY DEF Fields, Aside
<1>4. /\ h.prop[BOTTLE] = g.prop[BOTTLE] /\ h.prop[BIRD] = g.prop[BIRD]
      /\ h.prop[TROLL] = g.prop[TROLL] /\ h.prop[CHASM] = g.prop[CHASM]
      /\ h.fixed[TROLL] = g.fixed[TROLL] /\ h.fixed[TROLL2] = g.fixed[TROLL2]
  BY <1>2 DEF Free, Ends
<1>5. \A f \in Fields \ ({"prop", "fixed"} \cup Aside \cup Locs) : h[f] = g[f]
  OBVIOUS
<1>. QED  BY <1>1, <1>2, <1>3, <1>4, <1>5, OtherPlain

\* DROP: the bird attacks, the coins go into the machine, the bear scares the
\* troll, the vase breaks or lands on the pillow.
LEMMA VdropFollows ==
  ASSUME NEW g0, Game(g0), g0.object \in Object
  PROVE  Follows(g0, vdrop(g0))
<1> DEFINE g   == dynamite(g0)
           obj == g.object
           flown == letGo([dstroy(g, SNAKE) EXCEPT !.prop[SNAKE] = -1])
           sold  == drop(dstroy(g, COINS), BATTERIES, g.loc)
           more == IF g.place[SNAKE] # 0 THEN dstroy(g, BIRD).tally2 + 1 ELSE dstroy(g, BIRD).tally2
           lost == [dstroy(g, BIRD) EXCEPT !.prop[BIRD] = 0, !.tally2 = more]
           scared == [trollLeaves(g) EXCEPT !.prop[TROLL] = 2]
           state == IF at(g, PILLOW) THEN 0 ELSE 2
           vase  == [g EXCEPT !.prop[VASE] = state, !.fixed[VASE] = IF state # 0 THEN -1 ELSE @]
           told  == pspeak(vase, VASE, state + 1)
<1>1. Follows(g0, g) /\ Game(g) /\ obj \in Object
  BY DynamiteFollows
<1>2. g.loc \in Loc
  BY <1>1 DEF Game, Typed
<1>3. \/ vdrop(g0) = g
      \/ obj = BIRD /\ toting(g, obj) /\ vdrop(g0) \in {dwarfend(g), flown}
      \/ vdrop(g0) = pspeak(sold, BATTERIES, 0)
      \/ vdrop(g0) = lost
      \/ obj = BEAR /\ vdrop(g0) = letGo(scared)
      \/ obj = VASE /\ vdrop(g0) = IF told.phase = "over" THEN told ELSE letGo(told)
      \/ toting(g, obj) /\ vdrop(g0) = letGo(g)
  <2> DEFINE r == IF obj = BIRD /\ here(g, SNAKE)
      THEN Then(IF g.closed THEN dwarfend(g) ELSE g,
                LAMBDA h : letGo([dstroy(h, SNAKE) EXCEPT !.prop[SNAKE] = -1]))
      ELSE IF obj = COINS /\ here(g, VEND)
      THEN pspeak(sold, BATTERIES, 0)
      ELSE IF obj = BIRD /\ at(g, DRAGON) /\ g.prop[DRAGON] = 0
      THEN lost
      ELSE IF obj = BEAR /\ at(g, TROLL)
      THEN letGo(scared)
      ELSE IF obj = VASE /\ g.loc # 96
      THEN Then(told, letGo)
      ELSE letGo(g)
  <2>1. vdrop(g0) = IF ~toting(g, obj) THEN g ELSE r
    BY Zenon DEF vdrop
  <2>2. Then(IF g.closed THEN dwarfend(g) ELSE g,
             LAMBDA h : letGo([dstroy(h, SNAKE) EXCEPT !.prop[SNAKE] = -1])) \in {g, dwarfend(g), flown}
    <3>1. dwarfend(g).phase = "over"
      <4>1. Shape(death(g))
        BY <1>1, DeathFollows DEF Follows, Game
      <4>. QED  BY <4>1 DEF dwarfend, normend, Shape, Fields
    <3>. QED  BY <3>1 DEF Then
  <2>3. Then(told, letGo) = IF told.phase = "over" THEN told ELSE letGo(told)
    BY DEF Then
  <2> HIDE DEF flown, sold, lost, scared, told, obj, g
  <2>. QED  BY <2>1, <2>2, <2>3
<1>4. Follows(g, dwarfend(g)) /\ Follows(g, g) /\ Follows(g, lost)
  BY <1>1, DwarfendFollows, PlainSelf, BirdLost
<1>5. obj = BIRD /\ toting(g, obj) => Follows(g, flown)
  BY <1>1, SnakeFlees
<1>6. Follows(g, pspeak(sold, BATTERIES, 0))
  <2>1. COINS \in Object \ (Paired \cup Ends) /\ BATTERIES \in Object \ (Paired \cup Ends) /\ 0 \in Loc
    BY DEF Paired, Ends, Loc
  <2> DEFINE d == dstroy(g, COINS)
  <2>2. Plain(g, d) /\ Game(d)
    BY <1>1, <2>1, MovePlain, TidyGame DEF dstroy, Plain
  <2>3. Plain(d, sold) /\ Game(sold)
    BY <1>2, <2>1, <2>2, DropPlain, TidyGame DEF Plain
  <2> HIDE DEF sold, d
  <2>4. Plain(sold, pspeak(sold, BATTERIES, 0))
    BY <2>3, PspeakPlain
  <2>. QED  BY <1>1, <2>2, <2>3, <2>4, PlainTrans, PlainFollows
<1>7. obj = BEAR => Follows(g, letGo(scared))
  <2> SUFFICES ASSUME obj = BEAR PROVE Follows(g, letGo(scared))
    OBVIOUS
  <2> DEFINE l == trollLeaves(g)
  <2>1. Follows(g, l) /\ Game(l) /\ l.object = obj
    BY <1>1, TrollLeavesFollows
  <2> HIDE DEF l, obj
  <2>2. Shape(scared) /\ scared.prop = [l.prop EXCEPT ![TROLL] = 2] /\ \A f \in Fields \ {"prop"} : scared[f] = l[f]
    BY <2>1 DEF Game, Shape, Fields, l
  <2> HIDE DEF scared
  <2>3. Follows(l, scared)
    <3>1. 2 \in Int /\ \A f \in Fields \ ({"prop"} \cup Aside) : scared[f] = l[f]
      BY <2>2
    <3>. QED  BY <2>1, <2>2, <3>1, TrollState
  <2>4. Game(scared) /\ scared.object = BEAR
    BY <2>1, <2>2, <2>3 DEF Follows, Fields
  <2>5. Follows(scared, letGo(scared))
    BY <2>4, LetGoPlain DEF Paired, Ends
  <2>. QED  BY <2>1, <2>3, <2>5, FollowsTrans
<1>8. obj = VASE => Follows(g, IF told.phase = "over" THEN told ELSE letGo(told))
  <2> SUFFICES ASSUME obj = VASE PROVE Follows(g, IF told.phase = "over" THEN told ELSE letGo(told))
    OBVIOUS
  <2>1. state \in Int /\ (IF state # 0 THEN -1 ELSE g.fixed[VASE]) \in Int
    BY <1>1 DEF Game, Typed
  <2> DEFINE n == IF state # 0 THEN -1 ELSE g.fixed[VASE]
  <2>2. /\ Shape(vase) /\ vase.prop = [g.prop EXCEPT ![VASE] = state] /\ vase.fixed = [g.fixed EXCEPT ![VASE] = n]
        /\ \A f \in Fields \ {"prop", "fixed"} : vase[f] = g[f]
    BY <1>1 DEF Game, Shape, Fields
  <2> HIDE DEF vase, state, n, g, obj
  <2>3. n \in Int
    BY <2>1 DEF n
  <2>4. Follows(g, vase) /\ Game(vase) /\ vase.object = VASE
    <3>1. VASE \in Free \ Ends /\ \A f \in Fields \ ({"prop", "fixed"} \cup Aside) : vase[f] = g[f]
      BY <2>2 DEF Free, Ends
    <3>2. Follows(g, vase) /\ Game(vase)
      BY <1>1, <2>1, <2>2, <2>3, <3>1, ThingPlain
    <3>. QED  BY <2>2, <3>2 DEF Fields, obj
  <2>5. Follows(vase, told) /\ Game(told) /\ told.object = vase.object
    BY <2>4, PspeakPlain, PlainFollows DEF Follows, Fields
  <2> HIDE DEF told
  <2>6. Follows(told, letGo(told))
    BY <2>4, <2>5, LetGoPlain DEF Paired, Ends
  <2>. QED  BY <2>4, <2>5, <2>6, FollowsTrans
<1>9. toting(g, obj) => Follows(g, letGo(g))
  BY <1>1, LetGoFollows
<1> HIDE DEF g, obj, flown, sold, lost, scared, told
<1>. QED  BY <1>1, <1>3, <1>4, <1>5, <1>6, <1>7, <1>8, <1>9, FollowsTrans

\* The bird and the cage are picked up, the one with the other.
LEMMA CarryBoth ==
  ASSUME NEW g, Game(g), NEW a, NEW b, {a, b} = {BIRD, CAGE},
         NEW c, Shape(c), NEW n, n \in Int, ~g.closed => n \in 0 .. 1,
         c.prop = [g.prop EXCEPT ![BIRD] = n],
         \A f \in Fields \ ({"prop"} \cup Aside) : c[f] = g[f]
  PROVE  Follows(g, carry(carry(c, a), b))
<1> DEFINE d == carry(c, a)
           h == carry(d, b)
<1>1. a \in Object \ {WATER, OIL} /\ b \in Object \ {WATER, OIL}
  OBVIOUS
<1>2. g.place \in [Object -> Int] /\ g.prop \in [Object -> Int]
  BY DEF Game, Typed
<1>3. c.prop \in [Object -> Int] /\ c.prop[BIRD] = n /\ \A i \in Object \ {BIRD} : c.prop[i] = g.prop[i]
  BY <1>2
<1>4. c.place = g.place /\ c.holding = g.holding /\ Frame(g, c) /\ c.fixed = g.fixed
  BY DEF Fields, Aside, Frame
<1>5. Typed(c)
  BY <1>3, <1>4 DEF Game, Typed, Fields, Aside
<1>6. Moved(c, d, [c.place EXCEPT ![a] = -1])
  BY <1>1, <1>5, CarryDoes
<1> HIDE DEF d
<1>7. Moved(d, h, [d.place EXCEPT ![b] = -1])
  BY <1>1, <1>6, CarryDoes DEF Moved
<1> HIDE DEF h
<1>8. Moved(c, h, [[c.place EXCEPT ![a] = -1] EXCEPT ![b] = -1])
  BY <1>6, <1>7, MovedTrans DEF Moved
<1>9. h.place[BIRD] = -1 /\ h.place[CAGE] = -1 /\ \A i \in Object \ {BIRD, CAGE} : h.place[i] = g.place[i]
  <2>1. h.place = [[g.place EXCEPT ![a] = -1] EXCEPT ![b] = -1]
    BY <1>4, <1>8 DEF Moved
  <2>2. CASE a = BIRD /\ b = CAGE
    BY <1>2, <2>1, <2>2
  <2>3. CASE a = CAGE /\ b = BIRD
    BY <1>2, <2>1, <2>3
  <2>4. (a = BIRD /\ b = CAGE) \/ (a = CAGE /\ b = BIRD)
    OBVIOUS
  <2>. QED  BY <2>2, <2>3, <2>4
<1>10. Frame(g, h) /\ h.fixed = g.fixed /\ h.prop = c.prop
  BY <1>4, <1>8 DEF Moved, Frame, Fields
<1>11. h.holding - Held(h.place) = g.holding - Held(g.place) /\ Shape(h) /\ Typed(h)
  BY <1>4, <1>8 DEF Moved
<1>12. ~g.closed => /\ h.prop[BOTTLE] \in 0 .. 2 /\ h.prop[BIRD] \in 0 .. 1
                    /\ h.place[WATER] = -1 => h.place[BOTTLE] = -1 /\ h.prop[BOTTLE] = 0
                    /\ h.place[OIL] = -1 => h.place[BOTTLE] = -1 /\ h.prop[BOTTLE] = 2
                    /\ h.prop[BIRD] = 1 => h.place[BIRD] = h.place[CAGE]
  BY <1>3, <1>9, <1>10, Liquids
<1>13. Game(h)
  BY <1>10, <1>11, <1>12, GameIf
<1>14. Bridge(g) => Bridge(h)
  BY <1>3, <1>9, <1>10 DEF Bridge
<1>15. Follows(g, h)
  BY <1>10, <1>13, <1>14 DEF Follows
<1>. QED  BY <1>15 DEF h, d

\* The bottle is picked up, with what is in it.
LEMMA CarryBottle ==
  ASSUME NEW g, Game(g)
  PROVE  LET t == carry(g, BOTTLE)
         IN  Follows(g, IF liq(t) # 0 THEN [t EXCEPT !.place[liq(t)] = -1] ELSE t)
<1> DEFINE t == carry(g, BOTTLE)
           h == IF liq(t) # 0 THEN [t EXCEPT !.place[liq(t)] = -1] ELSE t
<1>1. BOTTLE \in Object \ {WATER, OIL} /\ g.place \in [Object -> Int]
  BY DEF Game, Typed
<1>2. Moved(g, t, [g.place EXCEPT ![BOTTLE] = -1])
  BY <1>1, CarryDoes DEF Game
<1> HIDE DEF t
<1>3. liq(t) \in {0, WATER, OIL}
  BY <1>2, LiqAlways DEF Moved, Typed
<1>4. /\ Shape(h) /\ \A f \in Fields \ {"place"} : h[f] = t[f]
      /\ h.place = IF liq(t) # 0 THEN [t.place EXCEPT ![liq(t)] = -1] ELSE t.place
  BY <1>2 DEF Moved, Shape, Fields
<1> HIDE DEF h
<1>5. /\ t.place \in [Object -> Int] /\ t.place[BOTTLE] = -1 /\ \A i \in Object \ {BOTTLE} : t.place[i] = g.place[i]
  BY <1>1, <1>2 DEF Moved
<1>6. /\ h.place \in [Object -> Int] /\ \A i \in Object \ {WATER, OIL} : h.place[i] = t.place[i]
      /\ \A i \in {WATER, OIL} : i # liq(t) => h.place[i] = g.place[i]
  BY <1>3, <1>4, <1>5
<1>7. Held(h.place) = Held(t.place)
  <2>1. {i \in Object \ {WATER, OIL} : h.place[i] = -1} = {i \in Object \ {WATER, OIL} : t.place[i] = -1}
    BY <1>6
  <2>. QED  BY <2>1, Zenon DEF Held
<1>8. /\ Frame(g, h) /\ h.fixed = g.fixed /\ h.prop = g.prop /\ t.prop = g.prop
      /\ h.holding = t.holding
  BY <1>2, <1>4 DEF Moved, Frame, Fields
<1>9. Typed(h)
  BY <1>2, <1>4, <1>6 DEF Moved, Typed, Fields
<1>10. h.holding - Held(h.place) = g.holding - Held(g.place)
  BY <1>2, <1>7, <1>8 DEF Moved
<1>11. ~g.closed => /\ h.prop[BOTTLE] \in 0 .. 2 /\ h.prop[BIRD] \in 0 .. 1
                    /\ h.place[WATER] = -1 => h.place[BOTTLE] = -1 /\ h.prop[BOTTLE] = 0
                    /\ h.place[OIL] = -1 => h.place[BOTTLE] = -1 /\ h.prop[BOTTLE] = 2
                    /\ h.prop[BIRD] = 1 => h.place[BIRD] = h.place[CAGE]
  <2> SUFFICES ASSUME ~g.closed
               PROVE  /\ h.prop[BOTTLE] \in 0 .. 2 /\ h.prop[BIRD] \in 0 .. 1
                      /\ h.place[WATER] = -1 => h.prop[BOTTLE] = 0
                      /\ h.place[OIL] = -1 => h.prop[BOTTLE] = 2
                      /\ h.prop[BIRD] = 1 => h.place[BIRD] = h.place[CAGE]
    BY <1>5, <1>6
  <2>1. g.prop[BIRD] \in 0 .. 1 /\ (g.prop[BIRD] = 1 => g.place[BIRD] = g.place[CAGE])
    BY DEF Game, Kept
  <2>2. t.prop[BOTTLE] \in 0 .. 2
    BY <1>8, Liquids
  <2>3. liq(t) = IF g.prop[BOTTLE] = 0 THEN WATER ELSE IF g.prop[BOTTLE] = 1 THEN 0 ELSE OIL
    BY <1>8, <2>2, LiqIs
  <2>. QED  BY <1>5, <1>6, <1>8, <2>1, <2>2, <2>3, Liquids
<1>12. Game(h)
  BY <1>4, <1>8, <1>9, <1>10, <1>11, GameIf
<1>13. Bridge(g) => Bridge(h)
  BY <1>5, <1>6, <1>8 DEF Bridge
<1>14. Follows(g, h)
  BY <1>8, <1>12, <1>13 DEF Follows
<1>. QED  BY <1>14 DEF h, t

\* The cage picked up without the bird, who is not caught.
LEMMA CarryCage ==
  ASSUME NEW g, Game(g), g.prop[BIRD] = 0
  PROVE  Follows(g, carry(g, CAGE))
<1> DEFINE h == carry(g, CAGE)
<1>1. CAGE \in Object \ {WATER, OIL} /\ g.place \in [Object -> Int]
  BY DEF Game, Typed
<1>2. Moved(g, h, [g.place EXCEPT ![CAGE] = -1])
  BY <1>1, CarryDoes DEF Game
<1> HIDE DEF h
<1>3. \A i \in Object \ {CAGE} : h.place[i] = g.place[i]
  BY <1>1, <1>2 DEF Moved
<1>4. Frame(g, h) /\ h.fixed = g.fixed /\ h.prop = g.prop
  BY <1>2 DEF Moved, Frame, Fields
<1>5. ~g.closed => /\ h.prop[BOTTLE] \in 0 .. 2 /\ h.prop[BIRD] \in 0 .. 1
                   /\ h.place[WATER] = -1 => h.place[BOTTLE] = -1 /\ h.prop[BOTTLE] = 0
                   /\ h.place[OIL] = -1 => h.place[BOTTLE] = -1 /\ h.prop[BOTTLE] = 2
                   /\ h.prop[BIRD] = 1 => h.place[BIRD] = h.place[CAGE]
  BY <1>3, <1>4, Liquids
<1>6. Shape(h) /\ Typed(h) /\ h.holding - Held(h.place) = g.holding - Held(g.place)
  BY <1>2 DEF Moved
<1>7. Game(h)
  BY <1>4, <1>5, <1>6, GameIf
<1>8. Bridge(g) => Bridge(h)
  BY <1>3, <1>4 DEF Bridge
<1>9. Follows(g, h)
  BY <1>4, <1>7, <1>8 DEF Follows
<1>. QED  BY <1>9 DEF h

\* The object that is meant is not an end of the bridge that shows nothing.
Reached(g) == g.object \in Ends => g.fixed[g.object] # 0

\* TAKE: the bird goes with the cage and the liquid with the bottle. Only an end
\* of the bridge whose second place is nowhere can be picked up at all.
LEMMA VtakeFollows ==
  ASSUME NEW g, Game(g), g.object \in Object
  PROVE  LET h == vtake(g)
         IN  Game(h) /\ Frame(g, h) /\ (Reached(g) => Follows(g, h))
<1> DEFINE g1  == IF g.object \in {WATER, OIL} THEN [g EXCEPT !.object = BOTTLE] ELSE g
           obj == g1.object
           wild      == obj = BIRD /\ g.prop[BIRD] = 0
           caught(h) == IF wild THEN [h EXCEPT !.prop[BIRD] = 1] ELSE h
           both(h)   == IF obj \in {BIRD, CAGE} /\ h.prop[BIRD] # 0
                        THEN carry(h, BIRD + CAGE - obj) ELSE h
           c      == caught(g1)
           taken  == carry(both(c), obj)
           last   == IF obj = BOTTLE /\ liq(taken) # 0 THEN [taken EXCEPT !.place[liq(taken)] = -1] ELSE taken
           r      == vtake(g)
<1>1. Game(g1) /\ Follows(g, g1) /\ obj \in Object \ {WATER, OIL}
      /\ (obj = g.object \/ obj = BOTTLE) /\ g1.prop = g.prop
  <2> DEFINE k == [g EXCEPT !.object = BOTTLE]
  <2>1. Game(k) /\ Follows(g, k) /\ k.object = BOTTLE /\ k.prop = g.prop
    BY ObjectPlain DEF Fields
  <2>2. Follows(g, g)
    BY PlainSelf
  <2> HIDE DEF k
  <2>3. g1 = IF g.object \in {WATER, OIL} THEN k ELSE g
    BY DEF k
  <2>. QED  BY <2>1, <2>2, <2>3
<1>2. r \in {g, g1, fillBottle(g1)} \/ (r = last /\ g.fixed[g.object] = 0)
  BY Zenon DEF vtake
<1>3. CASE r \in {g, g1, fillBottle(g1)}
  <2>1. Follows(g, r)
    BY <1>1, <1>3, FillBottleFollows, FollowsTrans, PlainSelf
  <2>. QED  BY <2>1 DEF Follows
<1>4. CASE r = last /\ g.fixed[g.object] = 0
  <2>1. Reached(g) => g.object \notin Ends
    BY <1>4 DEF Reached
  <2> HIDE DEF g1
  <2>2. g1.prop \in [Object -> Int] /\ Shape(g1)
    BY <1>1 DEF Game, Typed
  <2>3. CASE obj = BOTTLE
    <3>1. r = IF liq(carry(g1, BOTTLE)) # 0 THEN [carry(g1, BOTTLE) EXCEPT !.place[liq(carry(g1, BOTTLE))] = -1]
                                           ELSE carry(g1, BOTTLE)
      BY <1>4, <2>3
    <3>2. Follows(g1, r)
      BY <1>1, <3>1, CarryBottle
    <3>3. Follows(g, r)
      BY <1>1, <3>2, FollowsTrans
    <3>. QED  BY <3>3 DEF Follows
  <2>4. CASE obj \in {BIRD, CAGE} /\ c.prop[BIRD] # 0
    <3>1. BIRD + CAGE - obj \in {BIRD, CAGE} /\ {BIRD + CAGE - obj, obj} = {BIRD, CAGE}
      BY <2>4
    <3>2. r = carry(carry(c, BIRD + CAGE - obj), obj)
      BY <1>4, <2>4
    <3>3. Shape(c) /\ \A f \in Fields \ ({"prop"} \cup Aside) : c[f] = g1[f]
      BY <2>2 DEF Shape
    <3>4. c.prop = [g1.prop EXCEPT ![BIRD] = c.prop[BIRD]] /\ c.prop[BIRD] \in {1, g1.prop[BIRD]}
      BY <2>2 DEF Shape, Fields
    <3>5. c.prop[BIRD] \in Int /\ (~g1.closed => c.prop[BIRD] \in 0 .. 1)
      BY <1>1, <2>2, <3>4 DEF Game, Kept
    <3> HIDE DEF c, obj
    <3>6. Follows(g1, r)
      BY <1>1, <3>1, <3>2, <3>3, <3>4, <3>5, CarryBoth
    <3>7. Follows(g, r)
      BY <1>1, <3>6, FollowsTrans
    <3>. QED  BY <3>7 DEF Follows
  <2>5. CASE obj \in {BIRD, CAGE} /\ c.prop[BIRD] = 0
    <3>1. obj = CAGE /\ c = g1 /\ g1.prop[BIRD] = 0
      <4>1. CASE wild
        <5>1. c.prop[BIRD] = 1
          BY <2>2, <4>1 DEF Shape, Fields
        <5>. QED  BY <2>5, <5>1
      <4>2. CASE ~wild
        BY <1>1, <2>5, <4>2
      <4>. QED  BY <4>1, <4>2
    <3>2. r = carry(g1, CAGE)
      BY <1>4, <2>5, <3>1
    <3> HIDE DEF c, obj
    <3>3. Follows(g1, r)
      BY <1>1, <3>1, <3>2, CarryCage
    <3>4. Follows(g, r)
      BY <1>1, <3>3, FollowsTrans
    <3>. QED  BY <3>4 DEF Follows
  <2>6. CASE obj \notin {BOTTLE, BIRD, CAGE}
    <3>1. r = carry(g1, obj) /\ obj \in Object \ Paired
      BY <1>1, <1>4, <2>6 DEF Paired
    <3> HIDE DEF obj
    <3>2. Tidy(g1, r) /\ (obj \notin Ends => Plain(g1, r))
      BY <1>1, <3>1, CarryPlain
    <3>3. Game(r) /\ Frame(g1, r)
      BY <1>1, <3>2, TidyGame
    <3>4. Frame(g, r)
      BY <1>1, <3>3, FrameTrans DEF Follows
    <3>5. Reached(g) => obj \notin Ends
      BY <1>1, <2>1 DEF Ends
    <3>6. obj \notin Ends => Follows(g, r)
      BY <1>1, <3>2, PlainFollows, FollowsTrans
    <3>. QED  BY <3>3, <3>4, <3>5, <3>6
  <2>. QED  BY <2>3, <2>4, <2>5, <2>6
<1>. QED  BY <1>2, <1>3, <1>4

\* The player is seen to try to get out.
LEMMA PanicFollows ==
  ASSUME NEW g, Game(g), NEW h, Shape(h), h.newloc \in Loc, g.closing,
         h.clock2 = IF g.panic THEN g.clock2 ELSE 15, h.panic = TRUE,
         g.panic => g.panic = TRUE,
         \A f \in Fields \ {"clock2", "panic", "newloc"} : h[f] = g[f]
  PROVE  Plain(g, h)
<1>1. Frame(g, h)
  BY DEF Frame, Fields
<1>2. h.place = g.place /\ h.holding = g.holding /\ h.fixed = g.fixed /\ h.prop = g.prop
      /\ h.loc = g.loc /\ h.oldloc = g.oldloc /\ h.oldloc2 = g.oldloc2
  BY DEF Fields
<1>. QED  BY <1>1, <1>2, StillPlain DEF Game, Typed

\* The chain is off the bear, and the bear free.
LEMMA UnchainPlain ==
  ASSUME NEW g, Game(g), NEW tame, tame \in Int
  PROVE  Follows(g, [g EXCEPT !.prop[CHAIN] = 0, !.fixed[CHAIN] = 0, !.prop[BEAR] = tame, !.fixed[BEAR] = 2 - tame])
<1> DEFINE h == [g EXCEPT !.prop[CHAIN] = 0, !.fixed[CHAIN] = 0, !.prop[BEAR] = tame, !.fixed[BEAR] = 2 - tame]
<1>1. /\ Shape(h) /\ h.prop = [[g.prop EXCEPT ![CHAIN] = 0] EXCEPT ![BEAR] = tame]
      /\ h.fixed = [[g.fixed EXCEPT ![CHAIN] = 0] EXCEPT ![BEAR] = 2 - tame]
      /\ \A f \in Fields \ {"prop", "fixed"} : h[f] = g[f]
  BY DEF Game, Shape, Fields
<1>2. g.prop \in [Object -> Int] /\ g.fixed \in [Object -> Int]
      /\ g.loc \in Loc /\ g.newloc \in Loc /\ g.oldloc \in Loc /\ g.oldloc2 \in Loc
  BY DEF Game, Typed
<1> HIDE DEF h
<1>3. /\ h.prop \in [Object -> Int] /\ \A i \in Object \ {BEAR, CHAIN} : h.prop[i] = g.prop[i]
      /\ h.fixed \in [Object -> Int] /\ \A i \in Object \ {BEAR, CHAIN} : h.fixed[i] = g.fixed[i]
  BY <1>1, <1>2
<1>4. /\ h.prop[BOTTLE] = g.prop[BOTTLE] /\ h.prop[BIRD] = g.prop[BIRD]
      /\ h.prop[TROLL] = g.prop[TROLL] /\ h.prop[CHASM] = g.prop[CHASM]
      /\ h.fixed[TROLL] = g.fixed[TROLL] /\ h.fixed[TROLL2] = g.fixed[TROLL2]
  BY <1>3
<1>5. /\ \A f \in Fields \ ({"prop", "fixed"} \cup Aside \cup Locs) : h[f] = g[f]
      /\ h.loc = g.loc /\ h.newloc = g.newloc /\ h.oldloc = g.oldloc /\ h.oldloc2 = g.oldloc2
  BY <1>1 DEF Fields
<1>6. Follows(g, h)
  BY <1>1, <1>2, <1>3, <1>4, <1>5, OtherPlain
<1>. QED  BY <1>6 DEF h

\* OPEN and CLOSE.
LEMMA VopenFollows ==
  ASSUME NEW g, Game(g)
  PROVE  Follows(g, vopen(g))
<1> DEFINE obj   == g.object
           clam  == dstroy(g, CLAM)
           shell == drop(clam, OYSTER, g.loc)
           pearl == drop(shell, PEARL, 105)
           down  == IF toting(g, CHAIN) THEN drop(g, CHAIN, g.loc) ELSE g
           bound == [down EXCEPT !.prop[CHAIN] = 2, !.fixed[CHAIN] = -1]
           tame  == IF g.prop[BEAR] # 3 THEN 2 ELSE 3
           loose == [g EXCEPT !.prop[CHAIN] = 0, !.fixed[CHAIN] = 0, !.prop[BEAR] = tame, !.fixed[BEAR] = 2 - tame]
           alarm == [g EXCEPT !.clock2 = 15, !.panic = TRUE]
           n     == IF g.verb = LOCK THEN 0 ELSE 1
           grate == [g EXCEPT !.prop[GRATE] = n]
<1>0. /\ g.loc \in Loc /\ 0 \in Loc /\ 105 \in Loc
      /\ CLAM \in Object \ (Paired \cup Ends) /\ OYSTER \in Object \ (Paired \cup Ends)
      /\ PEARL \in Object \ (Paired \cup Ends) /\ CHAIN \in Object \ (Paired \cup Ends)
  BY DEF Game, Typed, Loc, Paired, Ends
<1>1. \/ vopen(g) \in {g, pearl, bound, loose, grate}
      \/ g.closing /\ ~g.panic /\ vopen(g) = alarm
  <2>1. vopen(g) =
      CASE obj \in {CLAM, OYSTER} /\ g.verb # LOCK /\ toting(g, TRIDENT) /\ ~toting(g, obj) -> pearl
        [] obj = CHAIN /\ here(g, KEYS) /\ g.verb = LOCK /\ g.prop[CHAIN] = 0 /\ g.loc = 130 -> bound
        [] obj = CHAIN /\ here(g, KEYS) /\ g.verb # LOCK /\ g.prop[BEAR] # 0 /\ g.prop[CHAIN] # 0 -> loose
        [] obj = GRATE /\ here(g, KEYS) /\ g.closing /\ ~g.panic -> alarm
        [] obj = GRATE /\ here(g, KEYS) /\ ~g.closing -> grate
        [] OTHER -> g
    BY DEF vopen
  <2> HIDE DEF obj, pearl, bound, loose, alarm, grate
  <2>. QED  BY <2>1
<1>2. Follows(g, g)
  BY PlainSelf
<1>3. Follows(g, pearl)
  <2>1. Plain(g, clam) /\ Game(clam)
    BY <1>0, MovePlain, TidyGame DEF dstroy, Plain
  <2> HIDE DEF clam
  <2>2. Plain(clam, shell) /\ Game(shell)
    BY <1>0, <2>1, DropPlain, TidyGame DEF Plain
  <2> HIDE DEF shell
  <2>3. Plain(shell, pearl)
    BY <1>0, <2>2, DropPlain
  <2>. QED  BY <2>1, <2>2, <2>3, PlainTrans, PlainFollows
<1>4. Follows(g, bound)
  <2>1. Follows(g, down) /\ Game(down)
    BY <1>0, DropPlain, PlainFollows, PlainSelf DEF Follows
  <2> HIDE DEF down
  <2>2. /\ Shape(bound) /\ bound.prop = [down.prop EXCEPT ![CHAIN] = 2] /\ bound.fixed = [down.fixed EXCEPT ![CHAIN] = -1]
        /\ \A f \in Fields \ {"prop", "fixed"} : bound[f] = down[f]
    BY <2>1 DEF Game, Shape, Fields
  <2> HIDE DEF bound
  <2>3. CHAIN \in Free \ Ends /\ 2 \in Int /\ -1 \in Int /\ \A f \in Fields \ ({"prop", "fixed"} \cup Aside) : bound[f] = down[f]
    BY <2>2 DEF Free, Ends
  <2>4. Follows(down, bound)
    BY <2>1, <2>2, <2>3, ThingPlain
  <2>. QED  BY <2>1, <2>4, FollowsTrans
<1>5. Follows(g, loose)
  <2>1. tame \in Int
    OBVIOUS
  <2> HIDE DEF tame
  <2>. QED  BY <2>1, UnchainPlain
<1>6. Follows(g, grate)
  <2>1. n \in Int
    OBVIOUS
  <2>2. Shape(grate) /\ grate.prop = [g.prop EXCEPT ![GRATE] = n] /\ \A f \in Fields \ {"prop"} : grate[f] = g[f]
    BY DEF Game, Shape, Fields
  <2> HIDE DEF grate, n
  <2>3. GRATE \in Free /\ \A f \in Fields \ ({"prop"} \cup Aside) : grate[f] = g[f]
    BY <2>2 DEF Free
  <2>. QED  BY <2>1, <2>2, <2>3, PropPlain
<1>7. g.closing /\ ~g.panic => Follows(g, alarm)
  <2> SUFFICES ASSUME g.closing, ~g.panic PROVE Follows(g, alarm)
    OBVIOUS
  <2>1. Shape(alarm) /\ alarm.clock2 = 15 /\ alarm.panic = TRUE /\ \A f \in Fields \ {"clock2", "panic"} : alarm[f] = g[f]
    BY DEF Game, Shape, Fields
  <2> HIDE DEF alarm
  <2>2. alarm.newloc \in Loc
    BY <2>1 DEF Fields, Game, Typed
  <2>. QED  BY <2>1, <2>2, PanicFollows, PlainFollows
<1>. QED  BY <1>1, <1>2, <1>3, <1>4, <1>5, <1>6, <1>7

\* ON and OFF.
LEMMA VonFollows ==
  ASSUME NEW g, Game(g)
  PROVE  Follows(g, von(g)) /\ Follows(g, voff(g))
<1> DEFINE h == [g EXCEPT !.prop[LAMP] = 1, !.wzdark = FALSE]
           k == [g EXCEPT !.prop[LAMP] = 0]
<1>1. von(g) \in {g, h} /\ voff(g) \in {g, k}
  BY DEF von, voff
<1>2. Shape(h) /\ h.prop = [g.prop EXCEPT ![LAMP] = 1] /\ \A f \in Fields \ {"prop", "wzdark"} : h[f] = g[f]
  BY DEF Game, Shape, Fields
<1>3. Shape(k) /\ k.prop = [g.prop EXCEPT ![LAMP] = 0] /\ \A f \in Fields \ {"prop"} : k[f] = g[f]
  BY DEF Game, Shape, Fields
<1> HIDE DEF h, k
<1>4. LAMP \in Free /\ 0 \in Int /\ 1 \in Int
      /\ \A f \in Fields \ ({"prop"} \cup Aside) : h[f] = g[f] /\ k[f] = g[f]
  BY <1>2, <1>3 DEF Free, Aside
<1>5. Follows(g, h)
  BY <1>2, <1>4, PropPlain
<1>6. Follows(g, k)
  BY <1>3, <1>4, PropPlain
<1>. QED  BY <1>1, <1>5, <1>6, PlainSelf

\* WAVE.
LEMMA VwaveFollows ==
  ASSUME NEW g, Game(g)
  PROVE  Follows(g, vwave(g))
<1> DEFINE n == 1 - g.prop[FISSURE]
           h == [g EXCEPT !.prop[FISSURE] = n]
           r == pspeak(h, FISSURE, 2 - h.prop[FISSURE])
<1>1. vwave(g) \in {g, r}
  BY DEF vwave
<1>2. n \in Int
  BY DEF Game, Typed
<1>3. Shape(h) /\ h.prop = [g.prop EXCEPT ![FISSURE] = n] /\ \A f \in Fields \ {"prop"} : h[f] = g[f]
  BY DEF Game, Shape, Fields
<1> HIDE DEF h, n
<1>4. FISSURE \in Free /\ \A f \in Fields \ ({"prop"} \cup Aside) : h[f] = g[f]
  BY <1>3 DEF Free
<1>5. Plain(g, h) /\ Game(h)
  BY <1>2, <1>3, <1>4, PropPlain
<1>6. Plain(h, r)
  BY <1>5, PspeakPlain
<1>7. Follows(g, r)
  BY <1>5, <1>6, PlainTrans, PlainFollows
<1>. QED  BY <1>1, <1>7, PlainSelf

\* What lies in the rooms beside the dragon's is found in the middle.
LEMMA GatherFollows ==
  ASSUME NEW g, Game(g)
  PROVE  Follows(g, [g EXCEPT !.place = Array([i \in Object |-> IF g.place[i] \in {119, 121} THEN 120 ELSE g.place[i]]),
                              !.newloc = 120])
<1> DEFINE p == [i \in Object |-> IF g.place[i] \in {119, 121} THEN 120 ELSE g.place[i]]
           h == [g EXCEPT !.place = Array(p), !.newloc = 120]
<1>1. g.place \in [Object -> Int]
  BY DEF Game, Typed
<1>2. p \in [1 .. 64 -> Int]
  BY <1>1
<1>3. Array(p) = p
  BY <1>2, ArrayIsItself
<1>4. Shape(h) /\ h.place = p /\ h.newloc = 120 /\ \A f \in Fields \ {"place", "newloc"} : h[f] = g[f]
  BY <1>3 DEF Game, Shape, Fields
<1>5. p \in [Object -> Int]
  BY <1>2
<1>5a. \A i \in Object : p[i] = IF g.place[i] \in {119, 121} THEN 120 ELSE g.place[i]
  BY <1>1
<1> HIDE DEF h, p
<1>6. Held(h.place) = Held(g.place)
  <2>1. {i \in Object \ {WATER, OIL} : h.place[i] = -1} = {i \in Object \ {WATER, OIL} : g.place[i] = -1}
    BY <1>4, <1>5a
  <2>. QED  BY <2>1, Zenon DEF Held
<1>7. Frame(g, h) /\ h.fixed = g.fixed /\ h.prop = g.prop /\ h.holding = g.holding
      /\ h.loc = g.loc /\ h.oldloc = g.oldloc /\ h.oldloc2 = g.oldloc2
  BY <1>4 DEF Frame, Fields
<1>8. Typed(h)
  <2>1. h.place \in [Object -> Int] /\ 120 \in Loc
    BY <1>4, <1>5 DEF Loc
  <2>. QED  BY <1>4, <1>7, <2>1 DEF Typed, Game, Frame
<1>9. ~g.closed => /\ h.prop[BOTTLE] \in 0 .. 2 /\ h.prop[BIRD] \in 0 .. 1
                   /\ h.place[WATER] = -1 => h.place[BOTTLE] = -1 /\ h.prop[BOTTLE] = 0
                   /\ h.place[OIL] = -1 => h.place[BOTTLE] = -1 /\ h.prop[BOTTLE] = 2
                   /\ h.prop[BIRD] = 1 => h.place[BIRD] = h.place[CAGE]
  <2>1. ~g.closed => g.prop[BIRD] \in 0 .. 1 /\ (g.prop[BIRD] = 1 => g.place[BIRD] = g.place[CAGE])
    BY DEF Game, Kept
  <2>2. h.place[BIRD] = p[BIRD] /\ h.place[CAGE] = p[CAGE] /\ h.place[BOTTLE] = p[BOTTLE]
        /\ h.place[WATER] = p[WATER] /\ h.place[OIL] = p[OIL]
    BY <1>4
  <2>. QED  BY <1>5a, <1>7, <2>1, <2>2, Liquids
<1>10. Game(h)
  BY <1>4, <1>6, <1>7, <1>8, <1>9, GameIf
<1>11. Bridge(g) => Bridge(h)
  BY <1>4, <1>5a, <1>7 DEF Bridge
<1>12. Follows(g, h)
  BY <1>7, <1>10, <1>11 DEF Follows
<1>. QED  BY <1>12 DEF h, p

\* The dragon is slain with bare hands, and the player and all that lies here
\* stand in the next room.
LEMMA SlayDragonFollows ==
  ASSUME NEW g, Game(g)
  PROVE  Follows(g, slayDragon(g))
<1> DEFINE k0 == pspeak(g, DRAGON, 1)
           k1 == [k0 EXCEPT !.prop[DRAGON] = 2, !.prop[RUG] = 0]
           k2 == moveFixed(k1, DRAGON, -1)
           k3 == move(k2, DRAGON, 120)
           k4 == moveFixed(k3, RUG, 0)
           k5 == move(k4, RUG, 120)
           r  == [k5 EXCEPT !.place = Array([i \in Object |-> IF k5.place[i] \in {119, 121} THEN 120 ELSE k5.place[i]]),
                            !.newloc = 120]
<1>1. slayDragon(g) = r
  BY DEF slayDragon
<1>2. /\ DRAGON \in Object \ (Paired \cup Ends) /\ RUG \in Object \ (Paired \cup Ends)
      /\ 120 \in Loc /\ -1 \in Int /\ 0 \in Int
  BY DEF Paired, Ends, Loc
<1>3. Plain(g, k0) /\ Game(k0)
  BY PspeakPlain, TidyGame DEF Plain
<1> HIDE DEF k0
<1>4. Plain(k0, k1) /\ Game(k1)
  <2>1. /\ Shape(k1) /\ k1.prop = [[k0.prop EXCEPT ![DRAGON] = 2] EXCEPT ![RUG] = 0]
        /\ \A f \in Fields \ {"prop"} : k1[f] = k0[f]
    BY <1>3 DEF Game, Shape, Fields
  <2>2. k0.prop \in [Object -> Int] /\ k0.fixed \in [Object -> Int]
      /\ k0.loc \in Loc /\ k0.newloc \in Loc /\ k0.oldloc \in Loc /\ k0.oldloc2 \in Loc
    BY <1>3 DEF Game, Typed
  <2> HIDE DEF k1
  <2>3. k1.prop \in [Object -> Int] /\ \A i \in Object \ {DRAGON, RUG} : k1.prop[i] = k0.prop[i]
    BY <2>1, <2>2
  <2>4. k1.fixed = k0.fixed /\ k1.loc = k0.loc /\ k1.newloc = k0.newloc /\ k1.oldloc = k0.oldloc /\ k1.oldloc2 = k0.oldloc2
    BY <2>1 DEF Fields
  <2>5. \A f \in Fields \ ({"prop", "fixed"} \cup Aside \cup Locs) : k1[f] = k0[f]
    BY <2>1
  <2>6. /\ k1.prop[BOTTLE] = k0.prop[BOTTLE] /\ k1.prop[BIRD] = k0.prop[BIRD]
        /\ k1.prop[TROLL] = k0.prop[TROLL] /\ k1.prop[CHASM] = k0.prop[CHASM]
    BY <2>3
  <2>. QED  BY <1>3, <2>1, <2>2, <2>3, <2>4, <2>5, <2>6, OtherPlain
<1> HIDE DEF k1
<1>5. Plain(k1, k2) /\ Game(k2)
  BY <1>2, <1>4, MoveFixedPlain, TidyGame DEF Plain
<1> HIDE DEF k2
<1>6. Plain(k2, k3) /\ Game(k3)
  BY <1>2, <1>5, MovePlain, TidyGame DEF Plain
<1> HIDE DEF k3
<1>7. Plain(k3, k4) /\ Game(k4)
  <2>1. Plain(k3, k4)
    BY <1>2, <1>6, MoveFixedPlain
  <2>. QED  BY <1>6, <2>1, TidyGame DEF Plain
<1> HIDE DEF k4
<1>8. Plain(k4, k5) /\ Game(k5)
  BY <1>2, <1>7, MovePlain, TidyGame DEF Plain
<1> HIDE DEF k5
<1>9. Follows(k5, r)
  BY <1>8, GatherFollows
<1>10. Plain(g, k5)
  BY <1>3, <1>4, <1>5, <1>6, <1>7, <1>8, PlainTrans
<1> HIDE DEF r
<1>. QED  BY <1>1, <1>9, <1>10, PlainFollows, FollowsTrans

\* KILL.
LEMMA VkillFollows ==
  ASSUME NEW g, Game(g)
  PROVE  Follows(g, vkill(g))
<1> DEFINE more == IF g.place[SNAKE] = 19 THEN dstroy(g, BIRD).tally2 + 1 ELSE dstroy(g, BIRD).tally2
           lost == [dstroy(g, BIRD) EXCEPT !.prop[BIRD] = 0, !.tally2 = more]
<1>1. vkill(g) =
      CASE g.object = BIRD /\ ~g.closed -> lost
        [] g.object = DWARF /\ g.closed -> dwarfend(g)
        [] g.object = DRAGON /\ g.prop[DRAGON] = 0 /\ g.luck.answer -> slayDragon(g)
        [] OTHER -> g
  BY DEF vkill
<1>2. Follows(g, lost)
  BY BirdLost
<1> HIDE DEF lost
<1>3. vkill(g) \in {g, lost, dwarfend(g), slayDragon(g)}
  BY <1>1
<1>. QED  BY <1>2, <1>3, DwarfendFollows, SlayDragonFollows, PlainSelf

\* A routine that sets what no invariant is about, and nothing else.
LEMMA AsideFollows ==
  ASSUME NEW g, Game(g), NEW h, Shape(h), \A f \in Fields \ Aside : h[f] = g[f]
  PROVE  Plain(g, h) /\ Game(h) /\ Follows(g, h) /\ h.loc = g.loc
<1>1. h.loc = g.loc /\ h.newloc = g.newloc /\ h.oldloc = g.oldloc /\ h.oldloc2 = g.oldloc2
  BY DEF Fields, Aside
<1>2. Plain(g, h) /\ Game(h)
  BY <1>1, AsidePlain DEF Game, Typed
<1>. QED  BY <1>1, <1>2, PlainFollows

\* EAT.
LEMMA VeatFollows ==
  ASSUME NEW g, Game(g)
  PROVE  Follows(g, veat(g))
<1>1. FOOD \in Object \ (Paired \cup Ends) /\ 0 \in Loc
  BY DEF Paired, Ends, Loc
<1>2. Follows(g, dstroy(g, FOOD))
  BY <1>1, MovePlain, PlainFollows DEF dstroy
<1>. QED  BY <1>2, PlainSelf DEF veat

\* FEED.
LEMMA VfeedFollows ==
  ASSUME NEW g, Game(g)
  PROVE  Follows(g, vfeed(g))
<1> DEFINE dwarf == [g EXCEPT !.dflag = @ + 1]
           d     == dstroy(g, FOOD)
           bear  == [d EXCEPT !.prop[BEAR] = 1, !.fixed[AXE] = 0, !.prop[AXE] = 0]
           n     == dstroy(g, BIRD).tally2 + 1
           bird  == [dstroy(g, BIRD) EXCEPT !.prop[BIRD] = 0, !.tally2 = n]
<1>1. vfeed(g) =
      CASE g.object = DWARF /\ here(g, FOOD) -> dwarf
        [] g.object = BEAR /\ here(g, FOOD) -> bear
        [] g.object = SNAKE /\ ~g.closed /\ here(g, BIRD) -> bird
        [] OTHER -> g
  BY DEF vfeed
<1>2. Follows(g, dwarf)
  <2>1. Shape(dwarf) /\ \A f \in Fields \ {"dflag"} : dwarf[f] = g[f]
    BY DEF Game, Shape, Fields
  <2>2. \A f \in Fields \ Aside : dwarf[f] = g[f]
    BY <2>1 DEF Aside
  <2> HIDE DEF dwarf
  <2>. QED  BY <2>1, <2>2, AsideFollows
<1>3. Follows(g, bear)
  <2>1. FOOD \in Object \ (Paired \cup Ends) /\ 0 \in Loc
    BY DEF Paired, Ends, Loc
  <2>2. Plain(g, d) /\ Game(d)
    BY <2>1, MovePlain, TidyGame DEF dstroy, Plain
  <2> HIDE DEF d
  <2>3. /\ Shape(bear) /\ bear.prop = [[d.prop EXCEPT ![BEAR] = 1] EXCEPT ![AXE] = 0]
        /\ bear.fixed = [d.fixed EXCEPT ![AXE] = 0]
        /\ \A f \in Fields \ {"prop", "fixed"} : bear[f] = d[f]
    BY <2>2 DEF Game, Shape, Fields
  <2> HIDE DEF bear
  <2>4. d.prop \in [Object -> Int] /\ d.fixed \in [Object -> Int]
        /\ d.loc \in Loc /\ d.newloc \in Loc /\ d.oldloc \in Loc /\ d.oldloc2 \in Loc
    BY <2>2 DEF Game, Typed
  <2>5. bear.prop \in [Object -> Int] /\ \A i \in Object \ {BEAR, AXE} : bear.prop[i] = d.prop[i]
    BY <2>3, <2>4
  <2>6. bear.fixed \in [Object -> Int] /\ \A i \in Object \ {AXE} : bear.fixed[i] = d.fixed[i]
    BY <2>3, <2>4
  <2>7. /\ bear.prop[BOTTLE] = d.prop[BOTTLE] /\ bear.prop[BIRD] = d.prop[BIRD]
        /\ bear.prop[TROLL] = d.prop[TROLL] /\ bear.prop[CHASM] = d.prop[CHASM]
        /\ bear.fixed[TROLL] = d.fixed[TROLL] /\ bear.fixed[TROLL2] = d.fixed[TROLL2]
    BY <2>5, <2>6
  <2>8. /\ bear.loc = d.loc /\ bear.newloc = d.newloc /\ bear.oldloc = d.oldloc /\ bear.oldloc2 = d.oldloc2
        /\ \A f \in Fields \ ({"prop", "fixed"} \cup Aside \cup Locs) : bear[f] = d[f]
    BY <2>3 DEF Fields
  <2>9. Plain(d, bear)
    BY <2>2, <2>3, <2>4, <2>5, <2>6, <2>7, <2>8, OtherPlain
  <2>. QED  BY <2>2, <2>9, PlainTrans, PlainFollows
<1>4. Follows(g, bird)
  BY BirdLost
<1> HIDE DEF dwarf, bear, bird
<1>5. vfeed(g) \in {g, dwarf, bear, bird}
  BY <1>1
<1>. QED  BY <1>2, <1>3, <1>4, <1>5, PlainSelf

\* KILL without an object: whoever is here.
LEMMA IvkillFollows ==
  ASSUME NEW g, Game(g)
  PROVE  Follows(g, ivkill(g))
<1>1. ivkill(g) = g \/ \E n : ivkill(g) = vkill([g EXCEPT !.object = n])
  BY DEF ivkill
<1>2. ASSUME NEW n PROVE Follows(g, vkill([g EXCEPT !.object = n]))
  <2> DEFINE h == [g EXCEPT !.object = n]
  <2>1. Game(h) /\ Follows(g, h)
    BY ObjectPlain
  <2> HIDE DEF h
  <2>2. Follows(h, vkill(h))
    BY <2>1, VkillFollows
  <2>3. Follows(g, vkill(h))
    BY <2>1, <2>2, FollowsTrans
  <2>. QED  BY <2>3 DEF h
<1>. QED  BY <1>1, <1>2, PlainSelf

\* THROW of the axe: at a dwarf, the dragon, the troll or the bear.
LEMMA ThrowAxeFollows ==
  ASSUME NEW g, Game(g)
  PROVE  Follows(g, throwAxe(g))
<1> DEFINE i     == dcheck(g)
           hit   == [g EXCEPT !.dseen[i] = FALSE, !.dloc[i] = 0]
           d     == drop(g, AXE, g.loc)
           stuck == [d EXCEPT !.fixed[AXE] = -1, !.prop[AXE] = 1]
           aim   == [g EXCEPT !.verb = KILL, !.object = 0]
<1>0. AXE \in Object \ (Paired \cup Ends) /\ AXE \in Free \ Ends /\ g.loc \in Loc
  BY DEF Paired, Ends, Free, Game, Typed
<1>1. throwAxe(g) \in {drop(hit, AXE, g.loc), d, stuck, ivkill(aim)}
  BY DEF throwAxe
<1>2. Follows(g, drop(hit, AXE, g.loc))
  <2>1. Shape(hit) /\ \A f \in Fields \ {"dseen", "dloc"} : hit[f] = g[f]
    BY DEF Game, Shape, Fields
  <2> HIDE DEF hit
  <2>2. \A f \in Fields \ Aside : hit[f] = g[f]
    BY <2>1 DEF Aside
  <2>3. Game(hit) /\ Follows(g, hit)
    BY <2>1, <2>2, AsideFollows
  <2>4. Follows(hit, drop(hit, AXE, g.loc))
    BY <1>0, <2>3, DropPlain, PlainFollows
  <2>. QED  BY <2>3, <2>4, FollowsTrans
<1>3. Follows(g, d) /\ Game(d)
  BY <1>0, DropPlain, PlainFollows DEF Follows
<1>4. Follows(g, stuck)
  <2> HIDE DEF d
  <2>1. /\ Shape(stuck) /\ stuck.prop = [d.prop EXCEPT ![AXE] = 1] /\ stuck.fixed = [d.fixed EXCEPT ![AXE] = -1]
        /\ \A f \in Fields \ {"prop", "fixed"} : stuck[f] = d[f]
    BY <1>3 DEF Game, Shape, Fields
  <2> HIDE DEF stuck
  <2>2. 1 \in Int /\ -1 \in Int /\ \A f \in Fields \ ({"prop", "fixed"} \cup Aside) : stuck[f] = d[f]
    BY <2>1
  <2>3. Follows(d, stuck)
    BY <1>0, <1>3, <2>1, <2>2, ThingPlain
  <2>. QED  BY <1>3, <2>3, FollowsTrans
<1>5. Follows(g, ivkill(aim))
  <2>1. Shape(aim) /\ \A f \in Fields \ {"verb", "object"} : aim[f] = g[f]
    BY DEF Game, Shape, Fields
  <2> HIDE DEF aim
  <2>2. \A f \in Fields \ Aside : aim[f] = g[f]
    BY <2>1 DEF Aside
  <2>3. Game(aim) /\ Follows(g, aim)
    BY <2>1, <2>2, AsideFollows
  <2>. QED  BY <2>3, IvkillFollows, FollowsTrans
<1> HIDE DEF hit, d, stuck, aim
<1>. QED  BY <1>1, <1>2, <1>3, <1>4, <1>5

\* A treasure is thrown at the troll: it is gone, and so is he.
LEMMA TrollPaid ==
  ASSUME NEW g, Game(g), NEW obj \in Object, obj >= 50
  PROVE  Follows(g, moveFixed(drop(trollGone(drop(g, obj, 0)), TROLL2, 117), TROLL2, 122))
<1> DEFINE h0 == drop(g, obj, 0)
           h1 == move(h0, TROLL, 0)
           h2 == moveFixed(h1, TROLL, 0)
           h3 == drop(h2, TROLL2, 117)
           h4 == moveFixed(h3, TROLL2, 122)
           r  == moveFixed(drop(trollGone(drop(g, obj, 0)), TROLL2, 117), TROLL2, 122)
<1>1. r = h4
  BY DEF trollGone
<1>2. /\ obj \in Object \ (Paired \cup Ends) /\ TROLL \in Object \ Paired /\ TROLL2 \in Object \ Paired
      /\ TROLL \in Object \ {WATER, OIL} /\ TROLL2 \in Object \ {WATER, OIL}
      /\ 0 \in Loc /\ 117 \in Loc /\ 0 \in Int /\ 122 \in Int /\ 0 \in Nat /\ 117 \in Nat
      /\ TROLL \in Object /\ TROLL2 \in Object
  BY DEF Paired, Ends, Loc
<1>3. Plain(g, h0) /\ Game(h0)
  BY <1>2, DropPlain, TidyGame DEF Plain
<1> HIDE DEF r, h0
<1>4. Tidy(h0, h1) /\ Game(h1) /\ Moved(h0, h1, [h0.place EXCEPT ![TROLL] = 0])
  <2>1. Tidy(h0, h1)
    BY <1>2, <1>3, MovePlain
  <2>. QED  BY <1>2, <1>3, <2>1, TidyGame, MoveDoes DEF Game
<1> HIDE DEF h1
<1>5. Tidy(h1, h2) /\ Game(h2)
  BY <1>2, <1>4, MoveFixedPlain, TidyGame
<1>6. Shape(h2) /\ h2.fixed = [h1.fixed EXCEPT ![TROLL] = 0] /\ \A f \in Fields \ {"fixed"} : h2[f] = h1[f]
  BY <1>4 DEF moveFixed, Game, Shape, Fields
<1> HIDE DEF h2
<1>7. Tidy(h2, h3) /\ Game(h3) /\ Moved(h2, h3, [h2.place EXCEPT ![TROLL2] = 117])
  <2>1. Tidy(h2, h3)
    BY <1>2, <1>5, DropPlain
  <2>. QED  BY <1>2, <1>5, <2>1, TidyGame, DropDoes DEF Game
<1> HIDE DEF h3
<1>8. Tidy(h3, h4) /\ Game(h4)
  BY <1>2, <1>7, MoveFixedPlain, TidyGame
<1>9. Shape(h4) /\ h4.fixed = [h3.fixed EXCEPT ![TROLL2] = 122] /\ \A f \in Fields \ {"fixed"} : h4[f] = h3[f]
  BY <1>7 DEF moveFixed, Game, Shape, Fields
<1> HIDE DEF h4
<1>10. Tidy(g, h4)
  BY <1>3, <1>4, <1>5, <1>7, <1>8, TidyTrans DEF Plain
<1>11. /\ h4.prop = h0.prop
       /\ h4.place = [[h0.place EXCEPT ![TROLL] = 0] EXCEPT ![TROLL2] = 117]
       /\ h4.fixed = [[h0.fixed EXCEPT ![TROLL] = 0] EXCEPT ![TROLL2] = 122]
  BY <1>4, <1>6, <1>7, <1>9 DEF Moved, Fields
<1>12. h0.place \in [Object -> Int] /\ h0.fixed \in [Object -> Int]
  BY <1>3 DEF Game, Typed
<1>13. Bridge(h0) => Bridge(h4)
  BY <1>11, <1>12 DEF Bridge
<1>14. Bridge(g) => Bridge(h0)
  BY <1>3, PlainFollows DEF Follows
<1>15. Follows(g, h4)
  BY <1>8, <1>10, <1>13, <1>14 DEF Follows, Tidy
<1>16. Follows(g, r)
  BY <1>1, <1>15
<1>. QED  BY <1>16 DEF r

\* THROW: a treasure to the troll, food to the bear, the axe, or a drop.
LEMMA VthrowFollows ==
  ASSUME NEW g0, Game(g0), g0.object \in Object
  PROVE  Follows(g0, vthrow(g0))
<1> DEFINE g     == dynamite(g0)
           paid  == moveFixed(drop(trollGone(drop(g, g.object, 0)), TROLL2, 117), TROLL2, 122)
           meal  == [g EXCEPT !.object = BEAR]
           r     == vthrow(g0)
<1>1. Follows(g0, g) /\ Game(g) /\ g.object \in Object
  BY DynamiteFollows
<1>2. r \in {g, vfeed(meal), vdrop(g), throwAxe(g)} \/ (g.object >= 50 /\ r = paid)
  BY DEF vthrow
<1> HIDE DEF r, g
<1>3. Follows(g, g) /\ Follows(g, vdrop(g)) /\ Follows(g, throwAxe(g))
  BY <1>1, PlainSelf, VdropFollows, ThrowAxeFollows
<1>4. Follows(g, vfeed(meal))
  <2>1. Game(meal) /\ Follows(g, meal)
    BY <1>1, ObjectPlain
  <2> HIDE DEF meal
  <2>. QED  BY <2>1, VfeedFollows, FollowsTrans
<1>5. g.object >= 50 => Follows(g, paid)
  BY <1>1, TrollPaid
<1> HIDE DEF paid, meal
<1>6. Follows(g, r)
  BY <1>2, <1>3, <1>4, <1>5
<1>7. Follows(g0, r)
  BY <1>1, <1>6, FollowsTrans
<1>. QED  BY <1>7 DEF r

\* FILL.
LEMMA VfillFollows ==
  ASSUME NEW g, Game(g), g.object \in Object
  PROVE  Follows(g, vfill(g))
<1>1. vfill(g) \in {g, fillBottle(g), vdrop(g)}
  BY DEF vfill
<1>. QED  BY <1>1, FillBottleFollows, VdropFollows, PlainSelf

\* BLAST.
LEMMA VblastFollows ==
  ASSUME NEW g, Game(g)
  PROVE  Follows(g, vblast(g))
<1>1. ASSUME NEW n PROVE Follows(g, normend([g EXCEPT !.bonus = n]))
  <2> DEFINE h == [g EXCEPT !.bonus = n]
  <2>1. Shape(h) /\ \A f \in Fields \ {"bonus"} : h[f] = g[f]
    BY DEF Game, Shape, Fields
  <2> HIDE DEF h
  <2>2. \A f \in Fields \ Aside : h[f] = g[f]
    BY <2>1 DEF Aside
  <2>3. Game(h) /\ Plain(g, h)
    BY <2>1, <2>2, AsideFollows
  <2>4. Plain(h, normend(h))
    BY <2>3, NormendPlain
  <2>5. Follows(g, normend(h))
    BY <2>3, <2>4, PlainTrans, PlainFollows
  <2>. QED  BY <2>5 DEF h
<1>2. PICK n : n = IF here(g, ROD2) THEN 135 ELSE IF g.loc = 115 THEN 134 ELSE 133
  OBVIOUS
<1>3. vblast(g) = g \/ vblast(g) = normend([g EXCEPT !.bonus = n])
  BY <1>2 DEF vblast
<1>. QED  BY <1>1, <1>3, PlainSelf

\* BREAK and WAKE.
LEMMA VbreakFollows ==
  ASSUME NEW g, Game(g)
  PROVE  Follows(g, vbreak(g)) /\ Follows(g, vwake(g))
<1> DEFINE d == IF toting(g, VASE) THEN drop(g, VASE, g.loc) ELSE g
           h == [d EXCEPT !.prop[VASE] = 2, !.fixed[VASE] = -1]
<1>1. vbreak(g) =
      CASE g.object = MIRROR /\ g.closed -> dwarfend(g)
        [] g.object = VASE /\ g.prop[VASE] = 0 -> h
        [] OTHER -> g
  BY DEF vbreak
<1>2. VASE \in Object \ (Paired \cup Ends) /\ VASE \in Free \ Ends /\ g.loc \in Loc
  BY DEF Paired, Ends, Free, Game, Typed
<1>3. Follows(g, d) /\ Game(d)
  BY <1>2, DropPlain, PlainFollows, PlainSelf DEF Follows
<1> HIDE DEF d
<1>4. /\ Shape(h) /\ h.prop = [d.prop EXCEPT ![VASE] = 2] /\ h.fixed = [d.fixed EXCEPT ![VASE] = -1]
      /\ \A f \in Fields \ {"prop", "fixed"} : h[f] = d[f]
  BY <1>3 DEF Game, Shape, Fields
<1> HIDE DEF h
<1>5. 2 \in Int /\ -1 \in Int /\ \A f \in Fields \ ({"prop", "fixed"} \cup Aside) : h[f] = d[f]
  BY <1>4
<1>6. Follows(d, h)
  BY <1>2, <1>3, <1>4, <1>5, ThingPlain
<1>7. Follows(g, h)
  BY <1>3, <1>6, FollowsTrans
<1>8. vbreak(g) \in {g, h, dwarfend(g)} /\ vwake(g) \in {g, dwarfend(g)}
  BY <1>1 DEF vwake
<1>. QED  BY <1>7, <1>8, DwarfendFollows, PlainSelf

\* Everything a verb does to an object that is there.
LEMMA TrverbFollows ==
  ASSUME NEW g, Game(g), g.object \in Object
  PROVE  LET h == trverb(g)
         IN  Game(h) /\ Frame(g, h) /\ (Reached(g) => Follows(g, h))
<1>1. trverb(g) \in {vtake(g), vdrop(g), vopen(g), von(g), voff(g), vwave(g), vkill(g), vpour(g), veat(g),
                     vdrink(g), vthrow(g), vfeed(g), vfill(g), vblast(g), vbreak(g), vwake(g), bug(g, 39), g}
  BY DEF trverb
<1>2. CASE trverb(g) = vtake(g)
  BY <1>2, VtakeFollows
<1>3. CASE trverb(g) # vtake(g)
  <2>1. Follows(g, bug(g, 39)) /\ Follows(g, g)
    BY BugPlain, PlainFollows, PlainSelf
  <2>2. Follows(g, trverb(g))
    BY <1>1, <1>3, <2>1, VdropFollows, VopenFollows, VonFollows, VwaveFollows, VkillFollows, VpourFollows,
       VeatFollows, VdrinkFollows, VthrowFollows, VfeedFollows, VfillFollows, VblastFollows, VbreakFollows, Zenon
  <2>. QED  BY <2>2 DEF Follows
<1>. QED  BY <1>2, <1>3

\* What a step of the player does, who is somewhere.
Leads(g, h) == Game(h) /\ Frame(g, h) /\ (Bridge(g) /\ g.loc # 0 => Bridge(h))

\* A routine that keeps the bridge everywhere keeps it where the player is in a
\* room.
LEMMA FollowsLeads ==
  ASSUME NEW g, NEW h, Follows(g, h)
  PROVE  Leads(g, h)
  BY DEF Follows, Leads

\* TAKE without an object: the one thing here.
LEMMA IvtakeLeads ==
  ASSUME NEW g, Game(g)
  PROVE  Leads(g, ivtake(g))
<1> DEFINE things == {i \in Object : g.place[i] = g.loc}
           m == Min(things)
           h == [g EXCEPT !.object = m]
<1>1. ivtake(g) = g \/ (Cardinality(things) = 1 /\ ivtake(g) = vtake(h))
  BY DEF ivtake
<1>2. CASE ivtake(g) = g
  BY <1>2, PlainSelf, FollowsLeads
<1>3. CASE Cardinality(things) = 1 /\ ivtake(g) = vtake(h)
  <2>1. m \in Object /\ g.place[m] = g.loc
    <3>1. things # {}
      BY <1>3, FS_EmptySet
    <3>2. things \subseteq Nat
      OBVIOUS
    <3> HIDE DEF things
    <3>3. m \in things
      BY <3>1, <3>2, MinIsLeast
    <3>. QED  BY <3>3 DEF things
  <2> HIDE DEF m
  <2>2. Game(h) /\ Follows(g, h) /\ h.object = m /\ h.fixed = g.fixed
    BY ObjectPlain DEF Fields
  <2> HIDE DEF h
  <2>3. Game(vtake(h)) /\ Frame(h, vtake(h)) /\ (Reached(h) => Follows(h, vtake(h)))
    BY <2>1, <2>2, VtakeFollows
  <2>4. Bridge(g) /\ g.loc # 0 => Reached(h)
    BY <2>1, <2>2 DEF Bridge, Reached, Ends
  <2>5. Frame(g, vtake(h))
    BY <2>2, <2>3, FrameTrans DEF Follows
  <2>. QED  BY <1>3, <2>2, <2>3, <2>4, <2>5 DEF Leads, Follows
<1>. QED  BY <1>1, <1>2, <1>3

\* OPEN without an object.
LEMMA IvopenFollows ==
  ASSUME NEW g, Game(g)
  PROVE  Follows(g, ivopen(g))
<1>1. ivopen(g) = g \/ \E n : ivopen(g) = vopen([g EXCEPT !.object = n])
  BY DEF ivopen
<1>2. ASSUME NEW n PROVE Follows(g, vopen([g EXCEPT !.object = n]))
  <2> DEFINE h == [g EXCEPT !.object = n]
  <2>1. Game(h) /\ Follows(g, h)
    BY ObjectPlain
  <2> HIDE DEF h
  <2>2. Follows(h, vopen(h))
    BY <2>1, VopenFollows
  <2>3. Follows(g, vopen(h))
    BY <2>1, <2>2, FollowsTrans
  <2>. QED  BY <2>3 DEF h
<1>. QED  BY <1>1, <1>2, PlainSelf

\* The magic word that brings the eggs home.
LEMMA IvfooFollows ==
  ASSUME NEW g, Game(g)
  PROVE  Follows(g, ivfoo(g))
<1> DEFINE k    == vocab(g.word1, 3000)
           n    == IF g.place[EGGS] = 0 /\ g.place[TROLL] = 0 /\ g.prop[TROLL] = 0 THEN 1 ELSE g.prop[TROLL]
           said == [g EXCEPT !.foobar = 0, !.prop[TROLL] = n]
           back == move(said, EGGS, 92)
           kind == IF here(g, EGGS) THEN 1 ELSE IF g.loc = 92 THEN 0 ELSE 2
           told == pspeak(back, EGGS, kind)
           word == [g EXCEPT !.foobar = k]
           none == [g EXCEPT !.foobar = 0]
<1>1. ivfoo(g) \in {g, word, none, told}
  BY DEF ivfoo
<1>2. Follows(g, word) /\ Follows(g, none)
  <2>1. Shape(word) /\ \A f \in Fields \ {"foobar"} : word[f] = g[f]
    BY DEF Game, Shape, Fields
  <2>2. Shape(none) /\ \A f \in Fields \ {"foobar"} : none[f] = g[f]
    BY DEF Game, Shape, Fields
  <2> HIDE DEF word, none
  <2>3. \A f \in Fields \ Aside : word[f] = g[f] /\ none[f] = g[f]
    BY <2>1, <2>2 DEF Aside
  <2>. QED  BY <2>1, <2>2, <2>3, AsideFollows
<1>3. Follows(g, said) /\ Game(said)
  <2>1. n \in Int
    BY DEF Game, Typed
  <2>2. Shape(said) /\ said.prop = [g.prop EXCEPT ![TROLL] = n] /\ \A f \in Fields \ {"prop", "foobar"} : said[f] = g[f]
    BY DEF Game, Shape, Fields
  <2>3. n = 2 \/ ~Bridge(g) \/ (n \in 0 .. 2 /\ g.prop[CHASM] # 1)
    BY DEF Bridge
  <2> HIDE DEF said, n
  <2>4. \A f \in Fields \ ({"prop"} \cup Aside) : said[f] = g[f]
    BY <2>2 DEF Aside
  <2>5. Follows(g, said)
    BY <2>1, <2>2, <2>3, <2>4, TrollState
  <2>. QED  BY <2>5 DEF Follows
<1>4. EGGS \in Object \ (Paired \cup Ends) /\ 92 \in Loc
  BY DEF Paired, Ends, Loc
<1> HIDE DEF said
<1>5. Plain(said, back) /\ Game(back)
  BY <1>3, <1>4, MovePlain, TidyGame DEF Plain
<1> HIDE DEF back
<1>6. Follows(said, told)
  <2>1. Plain(back, told)
    BY <1>5, PspeakPlain
  <2> HIDE DEF told
  <2>2. Plain(said, told)
    BY <1>5, <2>1, PlainTrans
  <2>. QED  BY <1>3, <2>2, PlainFollows
<1>7. Follows(g, told)
  BY <1>3, <1>6, FollowsTrans
<1>. QED  BY <1>1, <1>2, <1>7, PlainSelf

\* INVENTORY.
LEMMA InventoryFollows ==
  ASSUME NEW g, Game(g)
  PROVE  Follows(g, inventory(g))
<1>1. inventory(g) = g \/ \E n : inventory(g) = pspeak(g, n, -1)
  BY DEF inventory
<1>. QED  BY <1>1, PspeakPlain, PlainFollows, PlainSelf

\* What a verb without an object does.  The two verbs that leave the game say so.
LEMMA ItverbLeads ==
  ASSUME NEW g, Game(g)
  PROVE  \/ Leads(g, itverb(g))
         \/ itverb(g) = [g EXCEPT !.phase = "saved"]
         \/ itverb(g) = [g EXCEPT !.phase = "load"]
<1> DEFINE with(obj) == [g EXCEPT !.object = obj]
           quit == [g EXCEPT !.gaveup = TRUE]
           stay == [g EXCEPT !.gaveup = FALSE]
           saved == [g EXCEPT !.phase = "saved"]
           load  == [g EXCEPT !.phase = "load"]
           r == itverb(g)
<1>1. \/ r \in {ivopen(g), ivkill(g), veat(with(FOOD)), vdrink(with(WATER)), vfill(with(BOTTLE)),
               normend(quit), stay, vblast(g), ivfoo(g), inventory(g), g}
      \/ r = ivtake(g) \/ r = saved \/ r = load
      \/ g.verb \in {ON, OFF, POUR} /\ r = trverb(g)
  <2>1. r =
      CASE g.verb = TAKEN -> ivtake(g)
        [] g.verb \in {OPEN, LOCK} -> ivopen(g)
        [] g.verb \in {ON, OFF, POUR} -> trverb(g)
        [] g.verb = KILL -> ivkill(g)
        [] g.verb = EAT /\ here(g, FOOD) -> veat(with(FOOD))
        [] g.verb = DRINK /\ (liqloc(g.loc) = WATER \/ (liq(g) = WATER /\ here(g, BOTTLE))) -> vdrink(with(WATER))
        [] g.verb = QUIT -> IF g.luck.answer THEN normend(quit) ELSE stay
        [] g.verb = FILL /\ here(g, BOTTLE) -> vfill(with(BOTTLE))
        [] g.verb = BLAST -> vblast(g)
        [] g.verb = FOO -> ivfoo(g)
        [] g.verb = SUSPEND -> saved
        [] g.verb = INVENTORY -> inventory(g)
        [] g.verb = LOAD -> load
        [] OTHER -> g
    BY DEF itverb
  <2> HIDE DEF r, with, quit, stay, saved, load
  <2>2. r \in {ivtake(g), ivopen(g), trverb(g), ivkill(g), veat(with(FOOD)), vdrink(with(WATER)), normend(quit),
               stay, vfill(with(BOTTLE)), vblast(g), ivfoo(g), saved, inventory(g), load, g}
    BY <2>1
  <2>3. g.verb \notin {ON, OFF, POUR} =>
          r \in {ivtake(g), ivopen(g), ivkill(g), veat(with(FOOD)), vdrink(with(WATER)), normend(quit),
                 stay, vfill(with(BOTTLE)), vblast(g), ivfoo(g), saved, inventory(g), load, g}
    BY <2>1
  <2>. QED  BY <2>2, <2>3
<1>2. g.verb \in {ON, OFF, POUR} => trverb(g) \in {von(g), voff(g), vpour(g)}
  <2>1. CASE g.verb = ON
    <3>1. trverb(g) = von(g)
      BY <2>1 DEF trverb, TAKEN, DROP, OPEN, LOCK, ON, OFF, WAVE, KILL, POUR, EAT, DRINK, THROW, FEED, FILL, BLAST, BREAK, WAKE, LOG
    <3>. QED  BY <3>1
  <2>2. CASE g.verb = OFF
    <3>1. trverb(g) = voff(g)
      BY <2>2 DEF trverb, TAKEN, DROP, OPEN, LOCK, ON, OFF, WAVE, KILL, POUR, EAT, DRINK, THROW, FEED, FILL, BLAST, BREAK, WAKE, LOG
    <3>. QED  BY <3>1
  <2>3. CASE g.verb = POUR
    <3>1. trverb(g) = vpour(g)
      BY <2>3 DEF trverb, TAKEN, DROP, OPEN, LOCK, ON, OFF, WAVE, KILL, POUR, EAT, DRINK, THROW, FEED, FILL, BLAST, BREAK, WAKE, LOG
    <3>. QED  BY <3>1
  <2>. QED  BY <2>1, <2>2, <2>3
<1>3. Follows(g, veat(with(FOOD))) /\ Follows(g, vdrink(with(WATER))) /\ Follows(g, vfill(with(BOTTLE)))
  <2>1. Game(with(FOOD)) /\ Follows(g, with(FOOD))
    BY ObjectPlain
  <2>2. Game(with(WATER)) /\ Follows(g, with(WATER))
    BY ObjectPlain
  <2>3. Game(with(BOTTLE)) /\ Follows(g, with(BOTTLE)) /\ with(BOTTLE).object = BOTTLE
    BY ObjectPlain
  <2> HIDE DEF with
  <2>. QED  BY <2>1, <2>2, <2>3, VeatFollows, VdrinkFollows, VfillFollows, FollowsTrans
<1>4. Follows(g, normend(quit)) /\ Follows(g, stay)
  <2>1. Shape(quit) /\ \A f \in Fields \ {"gaveup"} : quit[f] = g[f]
    BY DEF Game, Shape, Fields
  <2>2. Shape(stay) /\ \A f \in Fields \ {"gaveup"} : stay[f] = g[f]
    BY DEF Game, Shape, Fields
  <2> HIDE DEF quit, stay
  <2>3. \A f \in Fields \ Aside : quit[f] = g[f] /\ stay[f] = g[f]
    BY <2>1, <2>2 DEF Aside
  <2>4. Follows(g, stay)
    BY <2>2, <2>3, AsideFollows
  <2>5. Game(quit) /\ Plain(g, quit)
    BY <2>1, <2>3, AsideFollows
  <2>6. Plain(quit, normend(quit))
    BY <2>5, NormendPlain
  <2>. QED  BY <2>4, <2>5, <2>6, PlainTrans, PlainFollows
<1> HIDE DEF r, with, quit, stay, saved, load
<1>5. \/ r \in {ivopen(g), von(g), voff(g), vpour(g), ivkill(g), veat(with(FOOD)), vdrink(with(WATER)),
                normend(quit), stay, vfill(with(BOTTLE)), vblast(g), ivfoo(g), inventory(g), g}
      \/ r = ivtake(g) \/ r = saved \/ r = load
  BY <1>1, <1>2
<1>6. CASE r \in {ivopen(g), von(g), voff(g), vpour(g), ivkill(g), veat(with(FOOD)), vdrink(with(WATER)),
                normend(quit), stay, vfill(with(BOTTLE)), vblast(g), ivfoo(g), inventory(g), g}
  <2>1. Follows(g, g)
    BY PlainSelf
  <2>2. Follows(g, r)
    BY <1>3, <1>4, <1>6, <2>1, IvopenFollows, VonFollows, VpourFollows, IvkillFollows, VblastFollows,
       IvfooFollows, InventoryFollows, Zenon
  <2>3. Leads(g, r)
    BY <2>2, FollowsLeads
  <2>. QED  BY <2>3 DEF r
<1>7. CASE r = ivtake(g)
  BY <1>7, IvtakeLeads DEF r
<1>8. CASE r = saved \/ r = load
  BY <1>8 DEF r, saved, load
<1>. QED  BY <1>5, <1>6, <1>7, <1>8

\* Every verb with an object.
LEMMA TrobjFollows ==
  ASSUME NEW g, Game(g), g.object \in Object
  PROVE  LET h == trobj(g)
         IN  Game(h) /\ Frame(g, h) /\ (Reached(g) => Follows(g, h))
<1>1. trobj(g) = trverb(g) \/ trobj(g) = g
  BY DEF trobj
<1>2. Follows(g, g)
  BY PlainSelf
<1>. QED  BY <1>1, <1>2, TrverbFollows DEF Follows

\* The object that is meant is another than the one that was named.
LEMMA StandsFor ==
  ASSUME NEW g, Game(g), NEW obj \in Object \ Ends
  PROVE  Follows(g, trobj([g EXCEPT !.object = obj]))
<1> DEFINE h == [g EXCEPT !.object = obj]
<1>1. Game(h) /\ Follows(g, h) /\ h.object = obj
  BY ObjectPlain
<1> HIDE DEF h
<1>2. Follows(h, trobj(h))
  BY <1>1, TrobjFollows DEF Reached
<1>3. Follows(g, trobj(h))
  BY <1>1, <1>2, FollowsTrans
<1>. QED  BY <1>3 DEF h

\* Every sentence with an object: where the player is in a room he reaches no
\* end of the bridge.
LEMMA DoobjLeads ==
  ASSUME NEW g, Game(g), g.object \in Object
  PROVE  Leads(g, doobj(g))
<1> DEFINE obj == g.object
           as(o) == trobj([g EXCEPT !.object = o])
           to(n) == [g EXCEPT !.motion = n]
           knife == [g EXCEPT !.knfloc = -1]
           r == doobj(g)
<1>1. \/ (g.fixed[obj] = g.loc \/ here(g, obj)) /\ r = trobj(g)
      \/ (liq(g) = obj \/ liqloc(g.loc) = obj) /\ r = trobj(g)
      \/ r \in {domove(to(DEPRESSION)), domove(to(ENTRANCE)), as(DWARF), as(PLANT2), knife, as(ROD2), g}
  BY DEF doobj
<1>2. CASE (g.fixed[obj] = g.loc \/ here(g, obj)) /\ r = trobj(g)
  <2>1. Bridge(g) /\ g.loc # 0 => Reached(g)
    BY <1>2 DEF Bridge, Reached, Ends, here, toting
  <2>. QED  BY <1>2, <2>1, TrobjFollows DEF Leads, Follows
<1>3. CASE (liq(g) = obj \/ liqloc(g.loc) = obj) /\ r = trobj(g)
  <2>1. liq(g) \in {0, WATER, OIL}
    BY LiqAlways DEF Game, Typed
  <2>2. liqloc(g.loc) \in {0, WATER, OIL}
    BY DEF liqloc, liq2, watoil
  <2>3. Reached(g)
    BY <1>3, <2>1, <2>2 DEF Reached, Ends
  <2>. QED  BY <1>3, <2>3, TrobjFollows, FollowsLeads
<1>4. Follows(g, as(DWARF)) /\ Follows(g, as(PLANT2)) /\ Follows(g, as(ROD2)) /\ Follows(g, g)
  BY StandsFor, PlainSelf DEF Ends
<1>5. ASSUME NEW n PROVE Follows(g, domove(to(n)))
  <2> DEFINE h == to(n)
  <2>1. Shape(h) /\ \A f \in Fields \ {"motion"} : h[f] = g[f]
    BY DEF Game, Shape, Fields
  <2> HIDE DEF h
  <2>2. \A f \in Fields \ Aside : h[f] = g[f]
    BY <2>1 DEF Aside
  <2>3. Game(h) /\ Follows(g, h)
    BY <2>1, <2>2, AsideFollows
  <2>4. Follows(g, domove(h))
    BY <2>3, DomoveFollows, FollowsTrans
  <2>. QED  BY <2>4 DEF h
<1>6. Follows(g, knife)
  <2>1. Shape(knife) /\ \A f \in Fields \ {"knfloc"} : knife[f] = g[f]
    BY DEF Game, Shape, Fields
  <2> HIDE DEF knife
  <2>2. \A f \in Fields \ Aside : knife[f] = g[f]
    BY <2>1 DEF Aside
  <2>. QED  BY <2>1, <2>2, AsideFollows
<1>7. CASE r \in {domove(to(DEPRESSION)), domove(to(ENTRANCE)), as(DWARF), as(PLANT2), knife, as(ROD2), g}
  <2>1. Follows(g, domove(to(DEPRESSION))) /\ Follows(g, domove(to(ENTRANCE)))
    BY <1>5
  <2> HIDE DEF r, as, to, knife
  <2>2. Follows(g, r)
    BY <1>4, <1>6, <1>7, <2>1
  <2>3. Leads(g, r)
    BY <2>2, FollowsLeads
  <2>. QED  BY <2>3 DEF r
<1>. QED  BY <1>1, <1>2, <1>3, <1>7

\* What a sentence does.
LEMMA InstructedLeads ==
  ASSUME NEW g, Game(g), g.object \in Object \cup {0}
  PROVE  \/ Leads(g, instructed(g))
         \/ /\ g.motion = 0 /\ g.object = 0
            /\ \/ instructed(g) = [g EXCEPT !.phase = "saved"]
               \/ instructed(g) = [g EXCEPT !.phase = "load"]
<1>1. CASE g.motion # 0
  BY <1>1, DomoveFollows, FollowsLeads DEF instructed
<1>2. CASE g.motion = 0 /\ g.object # 0
  <2>1. instructed(g) = doobj(g) /\ g.object \in Object
    BY <1>2 DEF instructed
  <2>. QED  BY <2>1, DoobjLeads
<1>3. CASE g.motion = 0 /\ g.object = 0
  <2>1. instructed(g) = itverb(g)
    BY <1>3 DEF instructed
  <2>. QED  BY <1>3, <2>1, ItverbLeads
<1>. QED  BY <1>1, <1>2, <1>3

\* What the invariants of a game speak of.
Matter == {"place", "fixed", "prop", "holding", "loc", "newloc", "oldloc", "oldloc2", "closed"}

\* A routine that changes nothing of it.
LEMMA MatterSame ==
  ASSUME NEW g, Game(g), NEW h, Shape(h), \A f \in Matter : h[f] = g[f]
  PROVE  Game(h) /\ (Bridge(g) => Bridge(h))
<1>1. /\ h.place = g.place /\ h.fixed = g.fixed /\ h.prop = g.prop /\ h.holding = g.holding
      /\ h.loc = g.loc /\ h.newloc = g.newloc /\ h.oldloc = g.oldloc /\ h.oldloc2 = g.oldloc2
      /\ h.closed = g.closed
  BY DEF Matter
<1>2. Typed(h)
  BY <1>1 DEF Game, Typed
<1>3. liq(h) = liq(g)
  BY <1>1 DEF liq
<1>4. Kept(h)
  BY <1>1, <1>3 DEF Game, Kept
<1>5. Bridge(g) => Bridge(h)
  BY <1>1 DEF Bridge
<1>. QED  BY <1>2, <1>4, <1>5 DEF Game

\* The two clocks of the closing: the first runs before it, the second from
\* then on until the cave is closed.
Clocks(s) ==
  /\ s.closing \in BOOLEAN /\ s.panic \in BOOLEAN
  /\ s.clock1 \in Int /\ s.clock2 \in Int
  /\ s.closing => s.clock1 < 0
  /\ ~s.closing => s.clock1 > 0
  /\ ~s.closed => s.clock2 > 0

\* What leaves the clocks alone.
LEMMA FrameClocks ==
  ASSUME NEW g, NEW h, Clocks(g), Frame(g, h)
  PROVE  Clocks(h)
<1>1. h.closing = g.closing /\ h.clock1 = g.clock1 /\ h.closed = g.closed
  BY DEF Frame
<1>2. (h.clock2 = g.clock2 /\ h.panic = g.panic) \/ (h.clock2 = 15 /\ h.panic = TRUE)
  BY DEF Frame
<1>3. h.panic \in BOOLEAN
  BY <1>2 DEF Clocks
<1>4. h.clock2 \in Int /\ (~h.closed => h.clock2 > 0)
  BY <1>1, <1>2 DEF Clocks
<1>. QED  BY <1>1, <1>3, <1>4 DEF Clocks

\* The start of a turn.
LEMMA HeadedFollows ==
  ASSUME NEW g, Game(g), Clocks(g)
  PROVE  Follows(g, headed(g))
<1> DEFINE panicked == [g EXCEPT !.newloc = g.loc, !.clock2 = IF g.panic THEN @ ELSE 15, !.panic = TRUE]
           g1 == IF g.newloc < 9 /\ g.newloc # 0 /\ g.closing THEN panicked ELSE g
           stay == [g1 EXCEPT !.newloc = g1.loc]
<1>1. headed(g) = g1 \/ headed(g) = stay
  BY DEF headed
<1>2. g.closing => Follows(g, panicked)
  <2>1. /\ Shape(panicked) /\ panicked.newloc = g.loc /\ panicked.panic = TRUE
        /\ panicked.clock2 = (IF g.panic THEN g.clock2 ELSE 15)
        /\ \A f \in Fields \ {"clock2", "panic", "newloc"} : panicked[f] = g[f]
    BY DEF Game, Shape, Fields
  <2>2. g.loc \in Loc /\ (g.panic => g.panic = TRUE)
    BY DEF Game, Typed, Clocks
  <2> HIDE DEF panicked
  <2>3. g.closing => Plain(g, panicked)
    BY <2>1, <2>2, PanicFollows
  <2>. QED  BY <2>3, PlainFollows
<1>3. Follows(g, g1) /\ Game(g1)
  BY <1>2, PlainSelf DEF Follows
<1> HIDE DEF g1
<1>4. Follows(g1, stay)
  <2>1. Shape(stay) /\ stay.newloc = g1.loc /\ \A f \in Fields \ {"newloc"} : stay[f] = g1[f]
    BY <1>3 DEF Game, Shape, Fields
  <2> HIDE DEF stay
  <2>2. /\ \A f \in Fields \ (Aside \cup Locs) : stay[f] = g1[f]
        /\ stay.loc \in Loc /\ stay.newloc \in Loc /\ stay.oldloc \in Loc /\ stay.oldloc2 \in Loc
    BY <1>3, <2>1 DEF Locs, Game, Typed, Fields
  <2>. QED  BY <1>3, <2>1, <2>2, AsidePlain, PlainFollows
<1>5. Follows(g, stay)
  BY <1>3, <1>4, FollowsTrans
<1>. QED  BY <1>1, <1>3, <1>5

\* A loop that puts treasures into a room.
LEMMA TreasuresPlain ==
  ASSUME NEW g, Game(g), NEW S \in SUBSET Treasure, NEW room \in Loc
  PROVE  Plain(g, dropThose(g, S, LAMBDA j : room))
<1> DEFINE p == [i \in Object |-> IF i \in S THEN room ELSE g.place[i]]
           h == [g EXCEPT !.place = p, !.holding = g.holding - Cardinality({i \in S : toting(g, i)})]
<1>1. g.place \in [Object -> Int] /\ room \in Int /\ room # -1
  BY DEF Game, Typed, Loc
<1>2. p \in [1 .. 64 -> Int]
  BY <1>1
<1>3. Array(p) = p
  BY <1>2, ArrayIsItself
<1>4. dropThose(g, S, LAMBDA j : room) = h
  BY <1>3 DEF dropThose
<1>5. S \in SUBSET Object /\ S \cap (Paired \cup Ends) = {}
  BY DEF Treasure, Paired, Ends
<1>6. /\ p \in [Object -> Int] /\ \A i \in S : p[i] = room
      /\ \A i \in Object \ S : p[i] = g.place[i]
  BY <1>1, <1>2, <1>5
<1> HIDE DEF p
<1>7. Moved(g, h, p)
  <2>1. /\ \A i \in {WATER, OIL} : i \in S => g.place[i] # -1
        /\ \A i \in S : p[i] # -1
    BY <1>1, <1>5, <1>6 DEF Paired
  <2>2. Shape(g) /\ Typed(g)
    BY DEF Game
  <2>. QED  BY <1>5, <1>6, <2>1, <2>2, DropThoseDoes, Zenon
<1> HIDE DEF h
<1>8. Frame(g, h) /\ h.fixed = g.fixed /\ h.prop = g.prop
  BY <1>7 DEF Moved, Frame, Fields
<1>9. \A i \in Paired \cup Ends : h.place[i] = g.place[i]
  BY <1>5, <1>6, <1>7 DEF Moved, Paired, Ends
<1>10. Plain(g, h)
  BY <1>7, <1>8, <1>9 DEF Plain, Tidy, SameBridge, Moved
<1>. QED  BY <1>4, <1>10

\* The pirate takes the treasures to his maze, each of them counted down.
LEMMA StealitPlain ==
  ASSUME NEW g, Game(g)
  PROVE  Plain(g, stealit(g))
<1> DEFINE hoard == IF g.place[MESSAGE] = 0 THEN move(g, CHEST, chloc) ELSE g
           h     == move(hoard, MESSAGE, chloc2)
           free  == {j \in Treasure : toting(h, j) \/ (at(h, j) /\ h.fixed[j] = 0)}
           lies  == h.newloc = h.place[PYRAMID] \/ (h.newloc = h.place[EMERALD] /\ EMERALD \notin free)
           S     == IF lies THEN free \ {PYRAMID} ELSE free
<1>1. stealit(g) = dropThose(h, S, LAMBDA j : chloc)
  BY DEF stealit
<1>2. /\ MESSAGE \in Object \ (Paired \cup Ends) /\ CHEST \in Object \ (Paired \cup Ends)
      /\ chloc \in Loc /\ chloc2 \in Loc
  BY DEF Paired, Ends, Loc, chloc, chloc2
<1>3. Plain(g, hoard) /\ Game(hoard)
  BY <1>2, MovePlain, PlainSelf, TidyGame DEF Plain
<1> HIDE DEF hoard
<1>4. Plain(hoard, h) /\ Game(h)
  BY <1>2, <1>3, MovePlain, TidyGame DEF Plain
<1> HIDE DEF h
<1>5. S \in SUBSET Treasure
  OBVIOUS
<1> HIDE DEF S
<1>6. Plain(h, dropThose(h, S, LAMBDA j : chloc))
  BY <1>2, <1>4, <1>5, TreasuresPlain
<1>. QED  BY <1>1, <1>3, <1>4, <1>6, PlainTrans

\* The pirate, whether he steals or is seen or goes.
LEMMA DopiratePlain ==
  ASSUME NEW g, Game(g)
  PROVE  Plain(g, dopirate(g))
<1> DEFINE c == move(g, CHEST, chloc)
           m == move(c, MESSAGE, chloc2)
<1>1. ASSUME NEW h, Plain(g, h)
      PROVE  Plain(g, goneHome(h))
  <2> DEFINE k == goneHome(h)
  <2>1. Game(h)
    BY <1>1, TidyGame DEF Plain
  <2>2. Shape(k) /\ \A f \in Fields \ {"dloc", "odloc", "dseen"} : k[f] = h[f]
    BY <2>1 DEF Game, Shape, Fields, goneHome
  <2> HIDE DEF k
  <2>3. \A f \in Fields \ Aside : k[f] = h[f]
    BY <2>2 DEF Aside
  <2>4. Plain(h, k)
    BY <2>1, <2>2, <2>3, AsideFollows
  <2>. QED  BY <1>1, <2>4, PlainTrans DEF k
<1>2. dopirate(g) \in {g, goneHome(stealit(g)), goneHome(m)}
  BY DEF dopirate
<1>3. /\ MESSAGE \in Object \ (Paired \cup Ends) /\ CHEST \in Object \ (Paired \cup Ends)
      /\ chloc \in Loc /\ chloc2 \in Loc
  BY DEF Paired, Ends, Loc, chloc, chloc2
<1>4. Plain(g, c) /\ Game(c)
  BY <1>3, MovePlain, TidyGame DEF Plain
<1> HIDE DEF c
<1>5. Plain(c, m)
  BY <1>3, <1>4, MovePlain DEF Plain
<1> HIDE DEF m
<1>6. Plain(g, m)
  BY <1>4, <1>5, PlainTrans
<1>. QED  BY <1>1, <1>2, <1>6, StealitPlain, PlainSelf

\* What the dwarves do.
LEMMA DwarvesFollows ==
  ASSUME NEW g, Game(g)
  PROVE  Follows(g, dwarves(g))
<1> DEFINE g1     == prowl(g)
           near   == {i \in Dwarf : g1.dloc[i] # 0 /\ g1.dseen[i]}
           attack == {i \in near : g1.odloc[i] = g1.dloc[i]}
           g2     == [g1 EXCEPT !.knfloc = IF attack # {} /\ @ >= 0 THEN g.newloc ELSE @]
           g3     == IF g1.dloc[Pirate] # 0 /\ g1.dseen[Pirate] THEN dopirate(g2) ELSE g2
           first  == [g EXCEPT !.dflag = 1]
           second == [g3 EXCEPT !.dflag = IF @ = 2 THEN 3 ELSE @]
           hit    == [g3 EXCEPT !.oldloc2 = g.newloc]
<1>1. dwarves(g) \in {g, first, firstMeeting(g), g3, second, death(hit)}
  BY DEF dwarves
<1>2. Follows(g, first)
  <2>1. Shape(first) /\ \A f \in Fields \ {"dflag"} : first[f] = g[f]
    BY DEF Game, Shape, Fields
  <2> HIDE DEF first
  <2>2. \A f \in Fields \ Aside : first[f] = g[f]
    BY <2>1 DEF Aside
  <2>. QED  BY <2>1, <2>2, AsideFollows
<1>3. Follows(g, firstMeeting(g))
  <2> DEFINE away == [i \in 1 .. Pirate |->
                IF i \in g.luck.kills THEN 0
                ELSE IF i \in Dwarf /\ g.dloc[i] = g.newloc THEN daltloc ELSE g.dloc[i]]
             from == [i \in 1 .. Pirate |-> IF i \in Dwarf THEN away[i] ELSE g.odloc[i]]
             h == [g EXCEPT !.dflag = 2, !.dloc = Array(away), !.odloc = Array(from)]
  <2>1. firstMeeting(g) = drop(h, AXE, g.newloc)
    BY DEF firstMeeting
  <2>2. Shape(h) /\ \A f \in Fields \ {"dflag", "dloc", "odloc"} : h[f] = g[f]
    BY DEF Game, Shape, Fields
  <2> HIDE DEF h
  <2>3. \A f \in Fields \ Aside : h[f] = g[f]
    BY <2>2 DEF Aside
  <2>4. Plain(g, h) /\ Game(h)
    BY <2>2, <2>3, AsideFollows
  <2>5. AXE \in Object \ (Paired \cup Ends) /\ g.newloc \in Loc
    BY DEF Paired, Ends, Game, Typed
  <2>6. Plain(h, drop(h, AXE, g.newloc))
    BY <2>4, <2>5, DropPlain
  <2>. QED  BY <2>1, <2>4, <2>6, PlainTrans, PlainFollows
<1>4. Plain(g, g1) /\ Game(g1)
  <2>1. Shape(g1) /\ \A f \in Fields \ {"dloc", "odloc", "dseen"} : g1[f] = g[f]
    BY DEF Game, Shape, Fields, prowl
  <2> HIDE DEF g1
  <2>2. \A f \in Fields \ Aside : g1[f] = g[f]
    BY <2>1 DEF Aside
  <2>. QED  BY <2>1, <2>2, AsideFollows
<1> HIDE DEF g1
<1>5. Plain(g1, g2) /\ Game(g2)
  <2>1. Shape(g2) /\ \A f \in Fields \ {"knfloc"} : g2[f] = g1[f]
    BY <1>4 DEF Game, Shape, Fields
  <2> HIDE DEF g2
  <2>2. \A f \in Fields \ Aside : g2[f] = g1[f]
    BY <2>1 DEF Aside
  <2>. QED  BY <1>4, <2>1, <2>2, AsideFollows
<1> HIDE DEF g2
<1>6. Plain(g2, g3) /\ Game(g3)
  BY <1>5, DopiratePlain, PlainSelf, TidyGame DEF Plain
<1> HIDE DEF g3
<1>7. Plain(g, g3) /\ Follows(g, g3)
  BY <1>4, <1>5, <1>6, PlainTrans, PlainFollows
<1>8. Follows(g, second)
  <2>1. Shape(second) /\ \A f \in Fields \ {"dflag"} : second[f] = g3[f]
    BY <1>6 DEF Game, Shape, Fields
  <2> HIDE DEF second
  <2>2. \A f \in Fields \ Aside : second[f] = g3[f]
    BY <2>1 DEF Aside
  <2>. QED  BY <1>6, <1>7, <2>1, <2>2, AsideFollows, FollowsTrans
<1>9. Follows(g, death(hit))
  <2>1. Shape(hit) /\ hit.oldloc2 = g.newloc /\ \A f \in Fields \ {"oldloc2"} : hit[f] = g3[f]
    BY <1>6 DEF Game, Shape, Fields
  <2> HIDE DEF hit
  <2>2. /\ \A f \in Fields \ (Aside \cup Locs) : hit[f] = g3[f]
        /\ hit.loc \in Loc /\ hit.newloc \in Loc /\ hit.oldloc \in Loc /\ hit.oldloc2 \in Loc
    BY <1>6, <2>1 DEF Locs, Game, Typed, Fields
  <2>3. Plain(g3, hit) /\ Game(hit)
    BY <1>6, <2>1, <2>2, AsidePlain
  <2>4. Follows(g, hit)
    BY <1>7, <1>6, <2>3, PlainFollows, FollowsTrans
  <2>. QED  BY <2>3, <2>4, DeathFollows, FollowsTrans
<1>10. Follows(g, g)
  BY PlainSelf
<1> HIDE DEF first, second, hit
<1>. QED  BY <1>1, <1>2, <1>3, <1>7, <1>8, <1>9, <1>10

\* A routine that sets the states of many objects.
LEMMA PropsFollow ==
  ASSUME NEW g, Game(g), NEW h, Shape(h),
         h.prop \in [Object -> Int], h.prop[BOTTLE] \in -3 .. 2,
         ~g.closed => h.prop[BOTTLE] = g.prop[BOTTLE] /\ h.prop[BIRD] = g.prop[BIRD],
         Bridge(g) => h.prop[TROLL] = g.prop[TROLL] /\ h.prop[CHASM] = g.prop[CHASM],
         \A f \in Fields \ ({"prop"} \cup Aside) : h[f] = g[f]
  PROVE  Follows(g, h)
<1>1. /\ h.place = g.place /\ h.fixed = g.fixed /\ h.holding = g.holding /\ h.closed = g.closed
      /\ h.loc = g.loc /\ h.newloc = g.newloc /\ h.oldloc = g.oldloc /\ h.oldloc2 = g.oldloc2
      /\ Frame(g, h)
  BY DEF Fields, Aside, Frame
<1>2. Typed(h)
  BY <1>1 DEF Game, Typed
<1>3. h.holding - Held(h.place) = g.holding - Held(g.place)
  BY <1>1
<1>4. ~g.closed => /\ h.prop[BOTTLE] \in 0 .. 2 /\ h.prop[BIRD] \in 0 .. 1
                   /\ h.place[WATER] = -1 => h.place[BOTTLE] = -1 /\ h.prop[BOTTLE] = 0
                   /\ h.place[OIL] = -1 => h.place[BOTTLE] = -1 /\ h.prop[BOTTLE] = 2
                   /\ h.prop[BIRD] = 1 => h.place[BIRD] = h.place[CAGE]
  <2>1. ~g.closed => g.prop[BIRD] \in 0 .. 1 /\ (g.prop[BIRD] = 1 => g.place[BIRD] = g.place[CAGE])
    BY DEF Game, Kept
  <2>. QED  BY <1>1, <2>1, Liquids
<1>5. Game(h)
  BY <1>1, <1>2, <1>3, <1>4, GameIf
<1>6. Bridge(g) => Bridge(h)
  BY <1>1 DEF Bridge
<1>. QED  BY <1>1, <1>5, <1>6 DEF Follows

\* The description of what lies in a room.
LEMMA DescitemFollows ==
  ASSUME NEW g, Game(g)
  PROVE  Follows(g, descitem(g))
<1> DEFINE visible == {i \in Object : at(g, i) /\ ~(i = STEPS /\ toting(g, NUGGET))}
           found   == IF g.closed THEN {} ELSE {i \in visible : g.prop[i] < 0}
           prop1   == [i \in Object |-> IF i \notin found THEN g.prop[i]
                                        ELSE IF i \in {RUG, CHAIN} THEN 1 ELSE 0]
           tally1  == g.tally - Cardinality(found)
           g1      == [g EXCEPT !.prop = Array(prop1), !.tally = tally1]
           last    == [g1 EXCEPT !.limit = 35]
<1>1. descitem(g) \in {g1, last} \/ \E i, n : descitem(g) = pspeak(g1, i, n)
  <2> DEFINE state(i) == IF i = STEPS /\ g.loc = g.fixed[STEPS] THEN 1 ELSE prop1[i]
             silent   == {i \in visible : (g.closed /\ g.prop[i] < 0) \/ TextFor(i, state(i))}
             m        == Min(visible \ silent)
  <2>1. descitem(g) \in {g1, last, pspeak(g1, m, state(m))}
    BY DEF descitem
  <2> HIDE DEF m, state, g1, last
  <2>. QED  BY <2>1
<1>2. g.prop \in [Object -> Int] /\ g.prop[BOTTLE] \in -3 .. 2
  BY DEF Game, Typed
<1>3. prop1 \in [1 .. 64 -> Int]
  BY <1>2
<1>4. Array(prop1) = prop1
  BY <1>3, ArrayIsItself
<1>5. Shape(g1) /\ g1.prop = prop1 /\ \A f \in Fields \ {"prop", "tally"} : g1[f] = g[f]
  BY <1>4 DEF Game, Shape, Fields
<1>6. /\ prop1 \in [Object -> Int] /\ prop1[BOTTLE] \in -3 .. 2
      /\ \A i \in Object : g.prop[i] >= 0 => prop1[i] = g.prop[i]
  BY <1>2, <1>3
<1>7. Follows(g, g1) /\ Game(g1)
  <2>1. ~g.closed => g.prop[BOTTLE] >= 0 /\ g.prop[BIRD] >= 0
    BY DEF Game, Kept
  <2>2. Bridge(g) => g.prop[TROLL] >= 0 /\ g.prop[CHASM] >= 0
    BY DEF Bridge
  <2> HIDE DEF g1, prop1
  <2>3. \A f \in Fields \ ({"prop"} \cup Aside) : g1[f] = g[f]
    BY <1>5 DEF Aside
  <2>4. Follows(g, g1)
    BY <1>5, <1>6, <2>1, <2>2, <2>3, PropsFollow
  <2>. QED  BY <2>4 DEF Follows
<1> HIDE DEF g1
<1>8. Follows(g1, last)
  <2>1. Shape(last) /\ \A f \in Fields \ {"limit"} : last[f] = g1[f]
    BY <1>7 DEF Game, Shape, Fields
  <2> HIDE DEF last
  <2>2. \A f \in Fields \ Aside : last[f] = g1[f]
    BY <2>1 DEF Aside
  <2>. QED  BY <1>7, <2>1, <2>2, AsideFollows
<1> HIDE DEF last
<1>9. \A i, n : Follows(g1, pspeak(g1, i, n))
  BY <1>7, PspeakPlain, PlainFollows
<1>10. Follows(g1, descitem(g))
  <2>1. Follows(g1, g1)
    BY <1>7, PlainSelf
  <2>. QED  BY <1>1, <1>8, <1>9, <2>1
<1>. QED  BY <1>7, <1>10, FollowsTrans

\* The lamp.
LEMMA LampTimerFollows ==
  ASSUME NEW g, Game(g)
  PROVE  Follows(g, lampTimer(g))
<1> DEFINE worn == [g EXCEPT !.limit = @ - 1]
           g1   == IF g.prop[LAMP] # 1 \/ (g.limit = LimitCap /\ ~g.luck.worn) THEN g ELSE worn
           new  == [g1 EXCEPT !.prop[BATTERIES] = 1, !.limit = LimitCap]
           out  == [g1 EXCEPT !.limit = -1, !.prop[LAMP] = 0]
           gone == [g1 EXCEPT !.gaveup = TRUE]
<1>1. lampTimer(g) \in {drop(new, BATTERIES, new.loc), new, out, normend(gone), g1}
  BY DEF lampTimer
<1>2. Follows(g, g1) /\ Game(g1)
  <2>1. Shape(worn) /\ \A f \in Fields \ {"limit"} : worn[f] = g[f]
    BY DEF Game, Shape, Fields
  <2> HIDE DEF worn
  <2>2. \A f \in Fields \ Aside : worn[f] = g[f]
    BY <2>1 DEF Aside
  <2>3. Follows(g, worn)
    BY <2>1, <2>2, AsideFollows
  <2>. QED  BY <2>3, PlainSelf DEF Follows
<1> HIDE DEF g1
<1>3. Follows(g1, new) /\ Game(new)
  <2>1. /\ Shape(new) /\ new.prop = [g1.prop EXCEPT ![BATTERIES] = 1]
        /\ \A f \in Fields \ {"prop", "limit"} : new[f] = g1[f]
    BY <1>2 DEF Game, Shape, Fields
  <2> HIDE DEF new
  <2>2. BATTERIES \in Free /\ 1 \in Int /\ \A f \in Fields \ ({"prop"} \cup Aside) : new[f] = g1[f]
    BY <2>1 DEF Aside, Free
  <2>. QED  BY <1>2, <2>1, <2>2, PropPlain
<1>4. Follows(g1, out)
  <2>1. /\ Shape(out) /\ out.prop = [g1.prop EXCEPT ![LAMP] = 0]
        /\ \A f \in Fields \ {"prop", "limit"} : out[f] = g1[f]
    BY <1>2 DEF Game, Shape, Fields
  <2> HIDE DEF out
  <2>2. LAMP \in Free /\ 0 \in Int /\ \A f \in Fields \ ({"prop"} \cup Aside) : out[f] = g1[f]
    BY <2>1 DEF Aside, Free
  <2>. QED  BY <1>2, <2>1, <2>2, PropPlain
<1>5. Follows(g1, normend(gone))
  <2>1. Shape(gone) /\ \A f \in Fields \ {"gaveup"} : gone[f] = g1[f]
    BY <1>2 DEF Game, Shape, Fields
  <2> HIDE DEF gone
  <2>2. \A f \in Fields \ Aside : gone[f] = g1[f]
    BY <2>1 DEF Aside
  <2>3. Plain(g1, gone) /\ Game(gone)
    BY <1>2, <2>1, <2>2, AsideFollows
  <2>. QED  BY <1>2, <2>3, NormendPlain, PlainTrans, PlainFollows
<1>6. Follows(g1, drop(new, BATTERIES, new.loc))
  <2>1. BATTERIES \in Object \ (Paired \cup Ends) /\ new.loc \in Loc
    BY <1>3 DEF Paired, Ends, Game, Typed
  <2> HIDE DEF new
  <2>2. Follows(new, drop(new, BATTERIES, new.loc))
    BY <1>3, <2>1, DropPlain, PlainFollows
  <2>. QED  BY <1>3, <2>2, FollowsTrans
<1>7. Follows(g1, g1)
  BY <1>2, PlainSelf
<1> HIDE DEF new, out, gone
<1>8. Follows(g1, lampTimer(g))
  BY <1>1, <1>3, <1>4, <1>5, <1>6, <1>7
<1>. QED  BY <1>2, <1>8, FollowsTrans

\* The cave closes: the game has only its types to keep, and the bridge.
LEMMA CloseCaveGame ==
  ASSUME NEW g, Game(g)
  PROVE  LET h == closeCave(g)
         IN  /\ Game(h) /\ (Bridge(g) => Bridge(h))
             /\ h.closed = TRUE /\ h.closing = g.closing /\ h.panic = g.panic
             /\ h.clock1 = g.clock1 /\ h.clock2 = g.clock2 /\ h.phase = g.phase /\ h.fatal = g.fatal
<1> DEFINE stored == DOMAIN repository
           held   == {i \in Object : toting(g, i)}
           to(i)  == IF i \in stored THEN repository[i].room ELSE 0
           p      == [i \in Object |-> IF i \in stored \cup held THEN to(i) ELSE g.place[i]]
           q      == [i \in Object |-> IF i \in stored \ {GRATE} THEN -1 - repository[i].pval ELSE g.prop[i]]
           B      == {i \in stored \cup held : toting(g, i)}
           h      == [g EXCEPT !.place = p, !.holding = @ - Cardinality(B),
                               !.loc = 115, !.oldloc = 115, !.newloc = 115, !.fixed[MIRROR] = 116,
                               !.prop = q, !.closed = TRUE]
<1>1. /\ stored = {BOTTLE, PLANT, OYSTER, LAMP, ROD, DWARF, MIRROR, GRATE, SNAKE, BIRD, CAGE, ROD2, PILLOW}
      /\ \A i \in stored : repository[i].room \in 115 .. 116 /\ repository[i].pval \in 0 .. 1
  BY DEF repository
<1>2. g.place \in [Object -> Int] /\ g.prop \in [Object -> Int] /\ g.fixed \in [Object -> Int] /\ g.holding \in Int
      /\ g.oldloc2 \in Loc /\ g.prop[BOTTLE] \in -3 .. 2
  BY DEF Game, Typed
<1>3. \A i \in Object : to(i) \in {0, 115, 116} /\ (i \notin stored => to(i) = 0)
  BY <1>1
<1> HIDE DEF to
<1>4. p \in [1 .. 64 -> Int]
  BY <1>2, <1>3
<1>5. \A i \in Object : q[i] = (IF i \in stored \ {GRATE} THEN -1 - repository[i].pval ELSE g.prop[i])
  OBVIOUS
<1>6. q \in [1 .. 64 -> Int]
  <2>1. \A i \in Object : (IF i \in stored \ {GRATE} THEN -1 - repository[i].pval ELSE g.prop[i]) \in Int
    BY <1>1, <1>2
  <2>. QED  BY <2>1
<1>7. Array(p) = p /\ Array(q) = q
  BY <1>4, <1>6, ArrayIsItself
<1>8. closeCave(g) = h
  <2> DEFINE g1 == [g EXCEPT !.place = Array(p), !.holding = @ - Cardinality(B)]
             r  == [i \in Object |-> IF i \in stored \ {GRATE} THEN -1 - repository[i].pval ELSE g1.prop[i]]
  <2>1. closeCave(g) = [g1 EXCEPT !.loc = 115, !.oldloc = 115, !.newloc = 115, !.fixed[MIRROR] = 116,
                                  !.prop = Array(r), !.closed = TRUE]
    BY DEF closeCave, dropThose, to
  <2>2. Shape(g1) /\ g1.prop = g.prop
    BY DEF Game, Shape, Fields
  <2>3. r = q
    BY <2>2
  <2> HIDE DEF r, q, p, B
  <2>. QED  BY <1>7, <2>1, <2>3 DEF Game, Shape, Fields
<1> HIDE DEF p, q
<1>9. /\ Shape(h) /\ h.place = p /\ h.prop = q /\ h.fixed = [g.fixed EXCEPT ![MIRROR] = 116]
      /\ h.holding = g.holding - Cardinality(B)
      /\ h.loc = 115 /\ h.newloc = 115 /\ h.oldloc = 115 /\ h.oldloc2 = g.oldloc2 /\ h.closed = TRUE
      /\ h.closing = g.closing /\ h.panic = g.panic /\ h.clock1 = g.clock1 /\ h.clock2 = g.clock2
      /\ h.phase = g.phase /\ h.fatal = g.fatal
  BY DEF Game, Shape, Fields
<1>10. Cardinality(B) \in Int
  <2>1. IsFiniteSet(1 .. 64)
    BY FS_Interval, 1 \in Int, 64 \in Int, Zenon
  <2>2. B \subseteq 1 .. 64
    BY <1>1
  <2> HIDE DEF B
  <2>3. IsFiniteSet(B)
    BY <2>1, <2>2, FS_Subset
  <2>4. Cardinality(B) \in Nat
    BY <2>3, FS_CardinalityType
  <2>. QED  BY <2>4
<1> HIDE DEF h, B
<1>11. h.prop[BOTTLE] \in -3 .. 2
  BY <1>1, <1>5, <1>9
<1>12. Typed(h)
  <2>1. h.place \in [Object -> Int] /\ h.prop \in [Object -> Int] /\ h.fixed \in [Object -> Int] /\ h.holding \in Int
    BY <1>2, <1>4, <1>6, <1>9, <1>10
  <2>2. h.loc \in Loc /\ h.newloc \in Loc /\ h.oldloc \in Loc /\ h.oldloc2 \in Loc
    <3>1. 115 \in Loc
      BY DEF Loc
    <3>. QED  BY <1>2, <1>9, <3>1
  <2>3. h.closed \in BOOLEAN
    <3>1. h.closed = TRUE
      BY <1>9
    <3>. QED  BY <3>1
  <2>. QED  BY <1>11, <2>1, <2>2, <2>3 DEF Typed
<1>13. Kept(h)
  BY <1>9 DEF Kept
<1>14. Bridge(g) => Bridge(h)
  <2>1. /\ h.prop[CHASM] = g.prop[CHASM] /\ h.prop[TROLL] = g.prop[TROLL]
        /\ h.fixed[TROLL] = g.fixed[TROLL] /\ h.fixed[TROLL2] = g.fixed[TROLL2]
    BY <1>1, <1>2, <1>5, <1>9
  <2>2. Bridge(g) => h.place[TROLL] = g.place[TROLL] /\ h.place[TROLL2] = g.place[TROLL2]
    BY <1>1, <1>9 DEF p, Bridge, toting
  <2>. QED  BY <2>1, <2>2 DEF Bridge
<1>. QED  BY <1>8, <1>9, <1>12, <1>13, <1>14 DEF Game

\* The cave begins to close.
LEMMA StartClosingGame ==
  ASSUME NEW g, Game(g), g.closing = FALSE
  PROVE  LET h == startClosing(g)
         IN  /\ Game(h) /\ (Bridge(g) => Bridge(h))
             /\ h.closing = TRUE /\ h.clock1 = -1
             /\ h.closed = g.closed /\ h.panic = g.panic /\ h.clock2 = g.clock2
             /\ h.phase = "over" \/ (h.phase = g.phase /\ h.fatal = g.fatal)
<1> DEFINE a  == [g EXCEPT !.prop[GRATE] = 0, !.prop[FISSURE] = 0, !.dseen = Array([i \in DOMAIN @ |-> FALSE])]
           g1 == trollLeaves(a)
           g2 == IF g1.prop[BEAR] # 3 THEN dstroy(g1, BEAR) ELSE g1
           b  == [g2 EXCEPT !.prop[CHAIN] = 0, !.fixed[CHAIN] = 0, !.prop[AXE] = 0, !.fixed[AXE] = 0]
           h  == [g2 EXCEPT !.prop[CHAIN] = 0, !.fixed[CHAIN] = 0, !.prop[AXE] = 0, !.fixed[AXE] = 0,
                            !.clock1 = -1, !.closing = TRUE]
<1>1. startClosing(g) = h
  BY DEF startClosing
<1>2. Follows(g, a) /\ Game(a)
  <2>1. /\ Shape(a) /\ a.prop = [[g.prop EXCEPT ![GRATE] = 0] EXCEPT ![FISSURE] = 0]
        /\ \A f \in Fields \ {"prop", "dseen"} : a[f] = g[f]
    BY DEF Game, Shape, Fields
  <2>2. g.prop \in [Object -> Int] /\ g.prop[BOTTLE] \in -3 .. 2
    BY DEF Game, Typed
  <2> HIDE DEF a
  <2>3. /\ a.prop \in [Object -> Int] /\ a.prop[BOTTLE] = g.prop[BOTTLE] /\ a.prop[BIRD] = g.prop[BIRD]
        /\ a.prop[TROLL] = g.prop[TROLL] /\ a.prop[CHASM] = g.prop[CHASM]
    BY <2>1, <2>2
  <2>4. \A f \in Fields \ ({"prop"} \cup Aside) : a[f] = g[f]
    BY <2>1 DEF Aside
  <2>5. Follows(g, a)
    BY <2>1, <2>2, <2>3, <2>4, PropsFollow
  <2>. QED  BY <2>5 DEF Follows
<1> HIDE DEF a
<1>3. Follows(a, g1) /\ Game(g1)
  BY <1>2, TrollLeavesFollows
<1> HIDE DEF g1
<1>4. Follows(g1, g2) /\ Game(g2)
  <2>1. BEAR \in Object \ (Paired \cup Ends) /\ 0 \in Loc
    BY DEF Paired, Ends, Loc
  <2>2. Follows(g1, dstroy(g1, BEAR)) /\ Follows(g1, g1)
    BY <1>3, <2>1, MovePlain, PlainFollows, PlainSelf DEF dstroy
  <2>. QED  BY <2>2 DEF Follows
<1> HIDE DEF g2
<1>5. Follows(g2, b) /\ Game(b)
  <2>1. /\ Shape(b) /\ b.prop = [[g2.prop EXCEPT ![CHAIN] = 0] EXCEPT ![AXE] = 0]
        /\ b.fixed = [[g2.fixed EXCEPT ![CHAIN] = 0] EXCEPT ![AXE] = 0]
        /\ \A f \in Fields \ {"prop", "fixed"} : b[f] = g2[f]
    BY <1>4 DEF Game, Shape, Fields
  <2>2. g2.prop \in [Object -> Int] /\ g2.fixed \in [Object -> Int]
        /\ g2.loc \in Loc /\ g2.newloc \in Loc /\ g2.oldloc \in Loc /\ g2.oldloc2 \in Loc
    BY <1>4 DEF Game, Typed
  <2> HIDE DEF b
  <2>3. /\ b.prop \in [Object -> Int] /\ b.prop[BOTTLE] = g2.prop[BOTTLE] /\ b.prop[BIRD] = g2.prop[BIRD]
        /\ b.prop[TROLL] = g2.prop[TROLL] /\ b.prop[CHASM] = g2.prop[CHASM]
        /\ b.fixed \in [Object -> Int]
        /\ b.fixed[TROLL] = g2.fixed[TROLL] /\ b.fixed[TROLL2] = g2.fixed[TROLL2]
    BY <2>1, <2>2
  <2>4. \A f \in Fields \ ({"prop", "fixed"} \cup Aside \cup Locs) : b[f] = g2[f]
    BY <2>1
  <2>5. b.loc \in Loc /\ b.newloc \in Loc /\ b.oldloc \in Loc /\ b.oldloc2 \in Loc
    BY <2>1, <2>2 DEF Fields
  <2>. QED  BY <1>4, <2>1, <2>3, <2>4, <2>5, OtherPlain
<1>6. Shape(h) /\ h.closing = TRUE /\ h.clock1 = -1 /\ \A f \in Fields \ {"clock1", "closing"} : h[f] = b[f]
  BY <1>4 DEF Game, Shape, Fields
<1> HIDE DEF b, h
<1>7. Game(h) /\ (Bridge(b) => Bridge(h))
  <2>1. \A f \in Matter : h[f] = b[f]
    BY <1>6 DEF Matter, Fields
  <2>. QED  BY <1>5, <1>6, <2>1, MatterSame
<1>8. Follows(g, b)
  BY <1>2, <1>3, <1>4, <1>5, FollowsTrans
<1>9. /\ b.closed = g.closed /\ b.panic = g.panic /\ b.clock2 = g.clock2
      /\ b.phase = "over" \/ (b.phase = g.phase /\ b.fatal = g.fatal)
  BY <1>8 DEF Follows, Frame
<1>10. /\ h.closed = g.closed /\ h.panic = g.panic /\ h.clock2 = g.clock2
       /\ h.phase = "over" \/ (h.phase = g.phase /\ h.fatal = g.fatal)
  BY <1>6, <1>9 DEF Fields
<1>. QED  BY <1>1, <1>6, <1>7, <1>8, <1>10 DEF Follows

\* Less time is left, or no more.
Nearer(g, h) ==
  /\ h.panic = g.panic
  /\ h.clock2 <= g.clock2
  /\ g.phase = "turn" /\ h.phase = "english" => h.clock2 < g.clock2

\* What a turn does.
Passes(g, h) ==
  /\ Game(h) /\ Clocks(h) /\ (Bridge(g) => Bridge(h))
  /\ g.closed => h.closed
  /\ h.phase = "over" \/ (h.phase \in {"turn", "english"} /\ h.fatal = g.fatal)
  /\ g.closing /\ ~h.closed => Nearer(g, h) \/ (~g.panic /\ h.panic)

\* A routine that takes no time.
LEMMA FollowsPasses ==
  ASSUME NEW g, Game(g), Clocks(g), g.phase = "turn", NEW h, Follows(g, h)
  PROVE  Passes(g, h)
<1>1. Frame(g, h) /\ Game(h) /\ (Bridge(g) => Bridge(h))
  BY DEF Follows
<1>2. Clocks(h)
  BY <1>1, FrameClocks
<1>3. h.phase = "over" \/ (h.phase = "turn" /\ h.fatal = g.fatal)
  BY <1>1 DEF Frame
<1>4. h.closed = g.closed
  BY <1>1 DEF Frame
<1>5. (h.clock2 = g.clock2 /\ h.panic = g.panic) \/ (~g.panic /\ h.panic = TRUE)
  BY <1>1 DEF Frame
<1>6. h.clock2 = g.clock2 /\ h.panic = g.panic => Nearer(g, h)
  BY <1>3 DEF Nearer, Clocks
<1>7. Nearer(g, h) \/ (~g.panic /\ h.panic)
  BY <1>5, <1>6
<1>. QED  BY <1>1, <1>2, <1>3, <1>4, <1>7 DEF Passes

\* A turn that goes on after such a routine.
LEMMA FollowsThenPasses ==
  ASSUME NEW g, Clocks(g), g.phase = "turn", NEW h, Follows(g, h), h.phase = "turn",
         NEW k, Passes(h, k)
  PROVE  Passes(g, k)
<1>1. Frame(g, h) /\ (Bridge(g) => Bridge(h))
  BY DEF Follows
<1>2. h.closed = g.closed /\ h.closing = g.closing /\ h.fatal = g.fatal
  BY <1>1 DEF Frame
<1>3. k.phase = "over" \/ (k.phase \in {"turn", "english"} /\ k.fatal = g.fatal)
  BY <1>2 DEF Passes
<1>4. ASSUME g.closing, ~k.closed
      PROVE  Nearer(g, k) \/ (~g.panic /\ k.panic)
  <2>1. Nearer(h, k) \/ (~h.panic /\ k.panic)
    BY <1>2, <1>4 DEF Passes
  <2>2. (h.clock2 = g.clock2 /\ h.panic = g.panic) \/ (~g.panic /\ h.panic = TRUE)
    BY <1>1 DEF Frame
  <2>3. CASE h.clock2 = g.clock2 /\ h.panic = g.panic
    BY <2>1, <2>3 DEF Nearer
  <2>4. CASE ~g.panic /\ h.panic = TRUE
    BY <2>1, <2>4 DEF Nearer
  <2>. QED  BY <2>2, <2>3, <2>4
<1>. QED  BY <1>1, <1>2, <1>3, <1>4 DEF Passes

\* The program waits for the player.
LEMMA WaitGame ==
  ASSUME NEW h, Game(h)
  PROVE  LET k == [h EXCEPT !.phase = IF @ = "over" THEN @ ELSE "english", !.motion = 0]
         IN  /\ Game(k) /\ (Bridge(h) => Bridge(k))
             /\ k.phase \in {"over", "english"} /\ (k.phase # "over" => h.phase # "over")
             /\ \A f \in Fields \ {"phase", "motion"} : k[f] = h[f]
<1> DEFINE k == [h EXCEPT !.phase = IF @ = "over" THEN @ ELSE "english", !.motion = 0]
<1>1. /\ Shape(k) /\ k.phase = (IF h.phase = "over" THEN h.phase ELSE "english")
      /\ \A f \in Fields \ {"phase", "motion"} : k[f] = h[f]
  BY DEF Game, Shape, Fields
<1> HIDE DEF k
<1>2. \A f \in Matter : k[f] = h[f]
  BY <1>1 DEF Matter, Fields
<1>3. Game(k) /\ (Bridge(h) => Bridge(k))
  BY <1>1, <1>2, MatterSame
<1>4. k.phase \in {"over", "english"} /\ (k.phase # "over" => h.phase # "over")
  BY <1>1
<1>. QED  BY <1>1, <1>3, <1>4 DEF k

\* The clocks of a turn.
LEMMA StimerPasses ==
  ASSUME NEW g, Game(g), Clocks(g), g.phase = "turn"
  PROVE  Passes(g, stimer(g))
<1> DEFINE wait(h) == [h EXCEPT !.phase = IF @ = "over" THEN @ ELSE "english", !.motion = 0]
           g1 == [g EXCEPT !.foobar = IF @ > 0 THEN -@ ELSE 0,
                           !.clock1 = IF g.tally = 0 /\ g.loc >= 15 /\ g.loc # 33 /\ @ >= 0 THEN @ - 1 ELSE @]
           g2 == [g1 EXCEPT !.clock2 = IF g1.clock1 < 0 /\ @ >= 0 THEN @ - 1 ELSE @]
<1>1. stimer(g) = IF g1.clock1 = 0 THEN wait(startClosing(g1))
                  ELSE IF g2.clock2 = 0 THEN closeCave(g2) ELSE wait(lampTimer(g2))
  BY DEF stimer
<1>2. /\ Shape(g1) /\ g1.clock1 \in {g.clock1, g.clock1 - 1} /\ (g.clock1 < 0 => g1.clock1 = g.clock1)
      /\ \A f \in Fields \ {"foobar", "clock1"} : g1[f] = g[f]
  <2>1. /\ Shape(g1) /\ \A f \in Fields \ {"foobar", "clock1"} : g1[f] = g[f]
        /\ g1.clock1 = IF g.tally = 0 /\ g.loc >= 15 /\ g.loc # 33 /\ g.clock1 >= 0 THEN g.clock1 - 1 ELSE g.clock1
    BY DEF Game, Shape, Fields
  <2>2. g.clock1 \in Int
    BY DEF Clocks
  <2> HIDE DEF g1
  <2>. QED  BY <2>1, <2>2
<1>3. /\ Shape(g2) /\ g2.clock2 = (IF g1.clock1 < 0 /\ g1.clock2 >= 0 THEN g1.clock2 - 1 ELSE g1.clock2)
      /\ \A f \in Fields \ {"clock2"} : g2[f] = g1[f]
  BY <1>2 DEF Shape, Fields
<1> HIDE DEF g1, g2
<1>4. Game(g1) /\ (Bridge(g) => Bridge(g1))
  <2>1. \A f \in Matter : g1[f] = g[f]
    BY <1>2 DEF Matter, Fields
  <2>. QED  BY <1>2, <2>1, MatterSame
<1>5. Game(g2) /\ (Bridge(g1) => Bridge(g2))
  <2>1. \A f \in Matter : g2[f] = g1[f]
    BY <1>3 DEF Matter, Fields
  <2>. QED  BY <1>3, <1>4, <2>1, MatterSame
<1>6. /\ g1.closing = g.closing /\ g1.closed = g.closed /\ g1.panic = g.panic /\ g1.clock2 = g.clock2
      /\ g1.phase = "turn" /\ g1.fatal = g.fatal
      /\ g2.closing = g.closing /\ g2.closed = g.closed /\ g2.panic = g.panic /\ g2.clock1 = g1.clock1
      /\ g2.phase = "turn" /\ g2.fatal = g.fatal
  BY <1>2, <1>3 DEF Fields
<1>7. CASE g1.clock1 = 0
  <2> DEFINE h == startClosing(g1)
             k == wait(h)
  <2>1. ~g.closing /\ g.closing = FALSE
    BY <1>2, <1>7 DEF Clocks
  <2>2. /\ Game(h) /\ (Bridge(g1) => Bridge(h)) /\ h.closing = TRUE /\ h.clock1 = -1
        /\ h.closed = g.closed /\ h.panic = g.panic /\ h.clock2 = g.clock2
        /\ h.phase = "over" \/ (h.phase = "turn" /\ h.fatal = g.fatal)
    BY <1>4, <1>6, <2>1, StartClosingGame
  <2> HIDE DEF h
  <2>3. /\ Game(k) /\ (Bridge(h) => Bridge(k)) /\ k.phase \in {"over", "english"} /\ (k.phase # "over" => h.phase # "over")
        /\ \A f \in Fields \ {"phase", "motion"} : k[f] = h[f]
    BY <2>2, WaitGame
  <2> HIDE DEF k
  <2>4. /\ k.closing = TRUE /\ k.clock1 = -1 /\ k.closed = g.closed /\ k.panic = g.panic /\ k.clock2 = g.clock2
        /\ k.fatal = h.fatal
    BY <2>2, <2>3 DEF Fields
  <2>5. Clocks(k)
    <3>1. k.closing \in BOOLEAN /\ k.closing /\ k.clock1 \in Int /\ k.clock1 < 0
      <4>1. k.closing = TRUE
        BY <2>4
      <4>2. k.closing \in BOOLEAN /\ k.closing
        BY <4>1, Zenon
      <4>3. k.clock1 \in Int /\ k.clock1 < 0
        BY <2>4
      <4>. QED  BY <4>2, <4>3
    <3>2. k.panic \in BOOLEAN /\ k.clock2 \in Int /\ (~k.closed => k.clock2 > 0)
      BY <2>4 DEF Clocks
    <3>. QED  BY <3>1, <3>2 DEF Clocks
  <2>6. k.phase = "over" \/ (k.phase = "english" /\ k.fatal = g.fatal)
    BY <2>2, <2>3, <2>4
  <2>7. Passes(g, k)
    BY <1>4, <2>1, <2>2, <2>3, <2>4, <2>5, <2>6 DEF Passes
  <2>. QED  BY <1>1, <1>7, <2>7 DEF k, h
<1>8. CASE g1.clock1 # 0 /\ g2.clock2 = 0
  <2> DEFINE k == closeCave(g2)
  <2>1. /\ Game(k) /\ (Bridge(g2) => Bridge(k)) /\ k.closed = TRUE /\ k.closing = g.closing /\ k.panic = g.panic
        /\ k.clock1 = g1.clock1 /\ k.clock2 = 0 /\ k.phase = "turn" /\ k.fatal = g.fatal
    BY <1>5, <1>6, <1>8, CloseCaveGame
  <2> HIDE DEF k
  <2>2. k.closed /\ k.closing \in BOOLEAN /\ k.panic \in BOOLEAN
    BY <2>1 DEF Clocks
  <2>3. (g.closing => g1.clock1 < 0) /\ (~g.closing => g1.clock1 > 0) /\ g1.clock1 \in Int
    BY <1>2, <1>8 DEF Clocks
  <2>4. Clocks(k)
    BY <2>1, <2>2, <2>3 DEF Clocks
  <2>5. Passes(g, k)
    BY <1>4, <1>5, <2>1, <2>2, <2>4 DEF Passes
  <2>. QED  BY <1>1, <1>8, <2>5 DEF k
<1>9. CASE g1.clock1 # 0 /\ g2.clock2 # 0
  <2> DEFINE h == lampTimer(g2)
             k == wait(h)
  <2>1. (g.closing => g1.clock1 < 0) /\ (~g.closing => g1.clock1 > 0) /\ g1.clock1 \in Int
    BY <1>2, <1>9 DEF Clocks
  <2>2. g2.clock2 \in Int /\ (~g.closed => g2.clock2 > 0) /\ (g.closing /\ ~g.closed => g2.clock2 < g.clock2)
    BY <1>3, <1>6, <1>9, <2>1 DEF Clocks
  <2>3. Clocks(g2)
    BY <1>6, <2>1, <2>2 DEF Clocks
  <2>4. Follows(g2, h)
    BY <1>5, LampTimerFollows
  <2>5. Follows(g2, h) /\ Game(h) /\ Frame(g2, h) /\ Clocks(h)
    BY <2>3, <2>4, FrameClocks DEF Follows
  <2>6. (h.clock2 = g2.clock2 /\ h.panic = g.panic) \/ (~g.panic /\ h.panic = TRUE)
    BY <1>6, <2>5 DEF Frame
  <2> HIDE DEF h
  <2>7. /\ Game(k) /\ (Bridge(h) => Bridge(k)) /\ k.phase \in {"over", "english"} /\ (k.phase # "over" => h.phase # "over")
        /\ \A f \in Fields \ {"phase", "motion"} : k[f] = h[f]
    BY <2>5, WaitGame
  <2> HIDE DEF k
  <2>8. /\ k.closing = h.closing /\ k.closed = h.closed /\ k.panic = h.panic /\ k.clock1 = h.clock1
        /\ k.clock2 = h.clock2 /\ k.fatal = h.fatal
    BY <2>7 DEF Fields
  <2>9. Clocks(k)
    BY <2>5, <2>8 DEF Clocks
  <2>10. h.closed = g.closed /\ (h.phase = "over" \/ h.fatal = g.fatal)
    BY <1>6, <2>5 DEF Frame
  <2>11. k.phase = "over" \/ (k.phase = "english" /\ k.fatal = g.fatal)
    BY <2>7, <2>8, <2>10
  <2>12. g.closing /\ ~k.closed => Nearer(g, k) \/ (~g.panic /\ k.panic)
    <3>1. CASE h.clock2 = g2.clock2 /\ h.panic = g.panic
      BY <2>2, <2>8, <2>10, <3>1 DEF Nearer, Clocks
    <3>2. CASE ~g.panic /\ h.panic = TRUE
      BY <2>8, <3>2
    <3>. QED  BY <2>6, <3>1, <3>2
  <2>13. Bridge(g) => Bridge(k)
    BY <1>4, <1>5, <2>5, <2>7 DEF Follows
  <2>14. g.closed => k.closed
    BY <2>8, <2>10
  <2>15. Passes(g, k)
    BY <2>7, <2>9, <2>11, <2>12, <2>13, <2>14 DEF Passes
  <2>. QED  BY <1>1, <1>9, <2>15 DEF k, h
<1>. QED  BY <1>7, <1>8, <1>9

\* What follows a part of a turn that may have been the last.
LEMMA ThenPasses ==
  ASSUME NEW g, Game(g), Clocks(g), g.phase = "turn", NEW h, Follows(g, h), NEW k, h.phase = "turn" => Passes(h, k)
  PROVE  Passes(g, IF h.phase = "over" THEN h ELSE k)
<1>1. h.phase = "over" \/ h.phase = "turn"
  BY DEF Follows, Frame
<1>2. CASE h.phase = "over"
  BY <1>2, FollowsPasses
<1>3. CASE h.phase = "turn"
  <2>1. Passes(g, k)
    BY <1>3, FollowsThenPasses
  <2>. QED  BY <1>3, <2>1
<1>. QED  BY <1>1, <1>2, <1>3

\* The rest of a turn after a move.
LEMMA AfterMovePasses ==
  ASSUME NEW g, Game(g), Clocks(g), g.phase = "turn"
  PROVE  Passes(g, afterMove(g))
<1> DEFINE woken == [i \in Object |-> IF toting(g, i) /\ g.prop[i] < 0 THEN -1 - g.prop[i] ELSE g.prop[i]]
           h  == IF g.prop[OYSTER] < 0 /\ toting(g, OYSTER) THEN pspeak(g, OYSTER, 1) ELSE g
           w  == [h EXCEPT !.prop = Array(woken)]
           g1 == IF ~g.closed THEN g ELSE w
           g2 == [g1 EXCEPT !.wzdark = dark(g1), !.knfloc = IF @ > 0 /\ @ # g1.loc THEN 0 ELSE @]
<1>1. afterMove(g) = IF g1.phase = "over" THEN g1 ELSE stimer(g2)
  BY DEF afterMove, Then
<1>2. g.prop \in [Object -> Int] /\ g.prop[BOTTLE] \in -3 .. 2
  BY DEF Game, Typed
<1>3. woken \in [1 .. 64 -> Int]
  BY <1>2
<1>4. Array(woken) = woken
  BY <1>3, ArrayIsItself
<1>5. /\ woken \in [Object -> Int] /\ woken[BOTTLE] \in -3 .. 2
      /\ \A i \in Object : g.prop[i] >= 0 => woken[i] = g.prop[i]
  BY <1>2, <1>3
<1>6. Follows(g, h) /\ Game(h) /\ \A f \in Fields \ {"phase", "fatal"} : h[f] = g[f]
  <2>1. Follows(g, g) /\ Follows(g, pspeak(g, OYSTER, 1))
    BY PspeakPlain, PlainFollows, PlainSelf
  <2>2. \A f \in Fields \ {"phase", "fatal"} : pspeak(g, OYSTER, 1)[f] = g[f]
    BY PspeakPlain
  <2>. QED  BY <2>1, <2>2 DEF Follows
<1> HIDE DEF h
<1>7. ASSUME g.closed PROVE Follows(h, w)
  <2>1. Shape(w) /\ w.prop = woken /\ \A f \in Fields \ {"prop"} : w[f] = h[f]
    BY <1>4, <1>6 DEF Game, Shape, Fields
  <2>2. h.prop = g.prop /\ h.closed = g.closed
    BY <1>6 DEF Fields
  <2>3. Bridge(h) => g.prop[TROLL] >= 0 /\ g.prop[CHASM] >= 0
    BY <2>2 DEF Bridge
  <2> HIDE DEF w, woken
  <2>4. \A f \in Fields \ ({"prop"} \cup Aside) : w[f] = h[f]
    BY <2>1
  <2>5. w.prop \in [Object -> Int] /\ w.prop[BOTTLE] \in -3 .. 2
    BY <1>5, <2>1
  <2>6. Bridge(h) => w.prop[TROLL] = h.prop[TROLL] /\ w.prop[CHASM] = h.prop[CHASM]
    BY <1>5, <2>1, <2>2, <2>3
  <2>7. h.closed
    BY <1>7, <2>2
  <2>. QED  BY <1>6, <2>1, <2>4, <2>5, <2>6, <2>7, PropsFollow
<1> HIDE DEF w
<1>8. Follows(g, g1) /\ Game(g1)
  <2>1. Follows(g, g)
    BY PlainSelf
  <2>2. g.closed => Follows(g, w)
    BY <1>6, <1>7, FollowsTrans
  <2>3. Follows(g, g1)
    BY <2>1, <2>2
  <2>. QED  BY <2>3 DEF Follows
<1> HIDE DEF g1
<1>9. ASSUME g1.phase = "turn" PROVE Passes(g1, stimer(g2))
  <2>1. Shape(g2) /\ \A f \in Fields \ {"wzdark", "knfloc"} : g2[f] = g1[f]
    BY <1>8 DEF Game, Shape, Fields
  <2> HIDE DEF g2
  <2>2. (\A f \in Fields \ Aside : g2[f] = g1[f]) /\ g2.phase = "turn"
    BY <1>9, <2>1 DEF Aside, Fields
  <2>3. Follows(g1, g2) /\ Game(g2)
    BY <1>8, <2>1, <2>2, AsideFollows
  <2>4. Clocks(g1) /\ Clocks(g2)
    BY <1>8, <2>3, FrameClocks DEF Follows
  <2>5. Passes(g2, stimer(g2))
    BY <2>2, <2>3, <2>4, StimerPasses
  <2>. QED  BY <1>9, <2>2, <2>3, <2>4, <2>5, FollowsThenPasses
<1>10. Passes(g, IF g1.phase = "over" THEN g1 ELSE stimer(g2))
  BY <1>8, <1>9, ThenPasses
<1>. QED  BY <1>1, <1>10

\* A turn that ends in another room.
LEMMA EnterPasses ==
  ASSUME NEW g0, Game(g0), Clocks(g0), g0.phase = "turn"
  PROVE  Passes(g0, enter(g0))
<1> DEFINE g   == [g0 EXCEPT !.loc = g0.newloc]
           hit == [g EXCEPT !.oldloc2 = g.loc]
           h   == IF dark(g) THEN g ELSE descitem(g)
           k   == IF h.phase = "over" THEN h ELSE afterMove(h)
<1>1. enter(g0) \in {death(g), domove(g), death(hit), k}
  BY DEF enter, Then
<1>2. Follows(g0, g) /\ Game(g) /\ g.phase = "turn"
  <2>1. Shape(g) /\ g.loc = g0.newloc /\ \A f \in Fields \ {"loc"} : g[f] = g0[f]
    BY DEF Game, Shape, Fields
  <2> HIDE DEF g
  <2>2. /\ \A f \in Fields \ (Aside \cup Locs) : g[f] = g0[f]
        /\ g.loc \in Loc /\ g.newloc \in Loc /\ g.oldloc \in Loc /\ g.oldloc2 \in Loc /\ g.phase = "turn"
    BY <2>1 DEF Locs, Game, Typed, Fields
  <2>. QED  BY <2>1, <2>2, AsidePlain, PlainFollows
<1> HIDE DEF g
<1>3. Follows(g, hit) /\ Game(hit)
  <2>1. Shape(hit) /\ hit.oldloc2 = g.loc /\ \A f \in Fields \ {"oldloc2"} : hit[f] = g[f]
    BY <1>2 DEF Game, Shape, Fields
  <2> HIDE DEF hit
  <2>2. /\ \A f \in Fields \ (Aside \cup Locs) : hit[f] = g[f]
        /\ hit.loc \in Loc /\ hit.newloc \in Loc /\ hit.oldloc \in Loc /\ hit.oldloc2 \in Loc
    BY <1>2, <2>1 DEF Locs, Game, Typed, Fields
  <2>. QED  BY <1>2, <2>1, <2>2, AsidePlain, PlainFollows
<1> HIDE DEF hit
<1>4. Clocks(g)
  BY <1>2, FrameClocks DEF Follows
<1>5. Follows(g, death(g)) /\ Follows(g, domove(g)) /\ Follows(g, death(hit))
  BY <1>2, <1>3, DeathFollows, DomoveFollows, FollowsTrans
<1>6. Follows(g, h) /\ Game(h)
  BY <1>2, DescitemFollows, PlainSelf DEF Follows
<1> HIDE DEF h
<1>7. Passes(g, k)
  <2>1. h.phase = "turn" => Passes(h, afterMove(h))
    <3>1. Clocks(h)
      BY <1>4, <1>6, FrameClocks DEF Follows
    <3>. QED  BY <1>6, <3>1, AfterMovePasses
  <2>. QED  BY <1>2, <1>4, <1>6, <2>1, ThenPasses
<1> HIDE DEF k
<1>8. Passes(g, enter(g0))
  BY <1>1, <1>2, <1>4, <1>5, <1>7, FollowsPasses
<1>. QED  BY <1>2, <1>8, FollowsThenPasses

\* A turn, up to the player's instructions.
LEMMA TurnPasses ==
  ASSUME NEW g, Game(g), Clocks(g), g.phase = "turn"
  PROVE  Passes(g, turn(g))
<1> DEFINE a == headed(g)
           h == dwarves(a)
           k == IF h.loc # h.newloc THEN enter(h) ELSE afterMove(h)
<1>1. turn(g) = IF h.phase = "over" THEN h ELSE k
  BY DEF turn, Then
<1>2. Follows(g, a) /\ Game(a)
  BY HeadedFollows DEF Follows
<1> HIDE DEF a
<1>3. Follows(g, h) /\ Game(h)
  BY <1>2, DwarvesFollows, FollowsTrans DEF Follows
<1> HIDE DEF h
<1>4. Clocks(h)
  BY <1>3, FrameClocks DEF Follows
<1>5. h.phase = "turn" => Passes(h, k)
  BY <1>3, <1>4, EnterPasses, AfterMovePasses
<1> HIDE DEF k
<1>6. Passes(g, IF h.phase = "over" THEN h ELSE k)
  BY <1>3, <1>5, ThenPasses
<1>. QED  BY <1>1, <1>6

----------------------------------------------------------------------------
\* What a sentence does to a game.
Heeds(g, h) ==
  /\ Game(h) /\ Clocks(h) /\ (Bridge(g) /\ g.loc # 0 => Bridge(h)) /\ h.closed = g.closed
  /\ h.phase = "over" \/ (h.phase \in {"turn", "saved", "load"} /\ h.fatal = g.fatal)
  /\ h.phase \in {"saved", "load"} => h.motion = 0
  /\ h.verb = 0 /\ h.object = 0 /\ h.word1 = ""
  /\ g.closing => Nearer(g, h) \/ (~g.panic /\ h.panic)

\* Every sentence: the motions, the verbs and what is left over of it.
LEMMA ObeyHeeds ==
  ASSUME NEW g, Game(g), Clocks(g), g.phase = "english", NEW s, s.object \in Object \cup {0}, NEW w1
  PROVE  Heeds(g, obey(g, s, w1))
<1> DEFINE a == [g EXCEPT !.phase = "turn", !.verb = s.verb, !.object = s.object, !.motion = s.motion, !.word1 = w1]
           b == instructed(a)
           h == [b EXCEPT !.verb = 0, !.object = 0, !.word1 = ""]
<1>1. obey(g, s, w1) = h
  BY DEF obey
<1>2. /\ Shape(a) /\ a.phase = "turn" /\ a.object = s.object
      /\ \A f \in Fields \ {"phase", "verb", "object", "motion", "word1"} : a[f] = g[f]
  BY DEF Game, Shape, Fields
<1> HIDE DEF a
<1>3. Game(a) /\ (Bridge(g) => Bridge(a))
  <2>1. \A f \in Matter : a[f] = g[f]
    BY <1>2 DEF Matter, Fields
  <2>. QED  BY <1>2, <2>1, MatterSame
<1>4. /\ a.loc = g.loc /\ a.closing = g.closing /\ a.closed = g.closed /\ a.panic = g.panic
      /\ a.clock1 = g.clock1 /\ a.clock2 = g.clock2 /\ a.fatal = g.fatal
  BY <1>2 DEF Fields
<1>5. Clocks(a)
  BY <1>4 DEF Clocks
<1>6. /\ Game(b) /\ Clocks(b) /\ (Bridge(a) /\ a.loc # 0 => Bridge(b)) /\ b.closed = a.closed
      /\ b.phase = "over" \/ (b.phase \in {"turn", "saved", "load"} /\ b.fatal = a.fatal)
      /\ b.phase \in {"saved", "load"} => b.motion = 0
      /\ (b.clock2 = a.clock2 /\ b.panic = a.panic) \/ (~a.panic /\ b.panic = TRUE)
  <2>1. CASE Leads(a, b)
    <3>1. Game(b) /\ Frame(a, b) /\ (Bridge(a) /\ a.loc # 0 => Bridge(b))
      BY <2>1 DEF Leads
    <3>2. Clocks(b)
      BY <1>5, <3>1, FrameClocks
    <3>3. b.closed = a.closed /\ (b.phase = "over" \/ (b.phase = "turn" /\ b.fatal = a.fatal))
      BY <1>2, <3>1 DEF Frame
    <3>4. (b.clock2 = a.clock2 /\ b.panic = a.panic) \/ (~a.panic /\ b.panic = TRUE)
      BY <3>1 DEF Frame
    <3> HIDE DEF b
    <3>. QED  BY <3>1, <3>2, <3>3, <3>4
  <2>2. ASSUME NEW p \in {"saved", "load"}, a.motion = 0, b = [a EXCEPT !.phase = p]
        PROVE  /\ Game(b) /\ Clocks(b) /\ (Bridge(a) => Bridge(b)) /\ b.closed = a.closed
               /\ b.phase = p /\ b.fatal = a.fatal /\ b.motion = 0
               /\ b.clock2 = a.clock2 /\ b.panic = a.panic
    <3> HIDE DEF b
    <3>1. Shape(b) /\ b.phase = p /\ \A f \in Fields \ {"phase"} : b[f] = a[f]
      BY <1>2, <2>2 DEF Shape, Fields
    <3>2. \A f \in Matter : b[f] = a[f]
      BY <3>1 DEF Matter, Fields
    <3>3. Game(b) /\ (Bridge(a) => Bridge(b))
      BY <1>3, <3>1, <3>2, MatterSame
    <3>4. /\ b.closing = a.closing /\ b.closed = a.closed /\ b.panic = a.panic
          /\ b.clock1 = a.clock1 /\ b.clock2 = a.clock2 /\ b.fatal = a.fatal /\ b.motion = a.motion
      BY <3>1 DEF Fields
    <3>5. Clocks(b)
      BY <1>5, <3>4 DEF Clocks
    <3>. QED  BY <2>2, <3>1, <3>3, <3>4, <3>5
  <2>3. \/ Leads(a, b)
        \/ a.motion = 0 /\ b = [a EXCEPT !.phase = "saved"]
        \/ a.motion = 0 /\ b = [a EXCEPT !.phase = "load"]
    BY <1>2, <1>3, InstructedLeads
  <2> HIDE DEF b
  <2>. QED  BY <2>1, <2>2, <2>3
<1> HIDE DEF b
<1>7. /\ Shape(h) /\ h.verb = 0 /\ h.object = 0 /\ h.word1 = ""
      /\ \A f \in Fields \ {"verb", "object", "word1"} : h[f] = b[f]
  BY <1>6 DEF Game, Shape, Fields
<1> HIDE DEF h
<1>8. Game(h) /\ (Bridge(b) => Bridge(h))
  <2>1. \A f \in Matter : h[f] = b[f]
    BY <1>7 DEF Matter, Fields
  <2>. QED  BY <1>6, <1>7, <2>1, MatterSame
<1>9. /\ h.closing = b.closing /\ h.closed = b.closed /\ h.panic = b.panic /\ h.phase = b.phase
      /\ h.clock1 = b.clock1 /\ h.clock2 = b.clock2 /\ h.fatal = b.fatal /\ h.motion = b.motion
  BY <1>7 DEF Fields
<1>10. Clocks(h)
  BY <1>6, <1>9 DEF Clocks
<1>11. Nearer(g, h) \/ (~g.panic /\ h.panic)
  <2>1. CASE b.clock2 = a.clock2 /\ b.panic = a.panic
    BY <1>4, <1>9, <2>1 DEF Nearer, Clocks
  <2>2. CASE ~a.panic /\ b.panic = TRUE
    BY <1>4, <1>9, <2>2
  <2>. QED  BY <1>6, <2>1, <2>2
<1>12. Heeds(g, h)
  BY <1>3, <1>4, <1>6, <1>7, <1>8, <1>9, <1>10, <1>11 DEF Heeds
<1>. QED  BY <1>1, <1>12

\* A sentence that is accepted names an object of the cave or none.
LEMMA GrammarObject ==
  ASSUME NEW a1, NEW a2,
         a1.type = 1 => a1.value \in Object, a2.type = 1 => a2.value \in Object
  PROVE  Grammar(a1, a2).object \in Object \cup {0}
<1>1. Grammar(a1, a2).object \in {0, 1} \/ (a1.type = 1 /\ Grammar(a1, a2).object = a1.value)
      \/ (a2.type = 1 /\ Grammar(a1, a2).object = a2.value)
  BY DEF Grammar, Sentence, NoSentence
<1> DEFINE o == Grammar(a1, a2).object
<1>2. o \in {0, 1} \/ o \in Object
  BY <1>1, Zenon
<1> HIDE DEF o
<1>3. o \in Object \cup {0}
  BY <1>2 DEF Object
<1>. QED  BY <1>3 DEF o

\* No second word names no object.
LEMMA UnknownNames ==
  [type |-> -1, value |-> -1, known |-> TRUE].type # 1
OBVIOUS

\* A sentence has no object or one there is.
LEMMA EnglishObject ==
  ASSUME NEW w1, w1 \in Words, NEW w2, w2 # "" => w2 \in Words
  PROVE  english(w1, w2).object \in Object \cup {0}
<1>1. analyze(w1).type = 1 => analyze(w1).value \in Object
  BY WordsAssumption, Zenon
<1>2. CASE w2 = ""
  <2> DEFINE a2 == [type |-> -1, value |-> -1, known |-> TRUE]
  <2>1. english(w1, w2) = Grammar(analyze(w1), a2)
    BY <1>2, Zenon DEF english
  <2>2. a2.type = 1 => a2.value \in Object
    BY UnknownNames, Zenon
  <2> HIDE DEF a2
  <2>. QED  BY <1>1, <2>1, <2>2, GrammarObject, Zenon
<1>3. CASE w2 # ""
  <2>1. english(w1, w2) = Grammar(analyze(w1), analyze(w2))
    BY <1>3, Zenon DEF english
  <2>2. analyze(w2).type = 1 => analyze(w2).value \in Object
    BY <1>3, WordsAssumption, Zenon
  <2>. QED  BY <1>1, <2>1, <2>2, GrammarObject, Zenon
<1>. QED  BY <1>2, <1>3, Zenon
----------------------------------------------------------------------------
\* What Game and Clocks are about.
Substance == Matter \cup {"closing", "panic", "clock1", "clock2"}

\* A game with its clocks.
Sound(s) == Game(s) /\ Clocks(s)

\* A game with the same substance is as sound.
LEMMA SubstanceSame ==
  ASSUME NEW g, Sound(g), NEW h, Shape(h), \A f \in Substance : h[f] = g[f]
  PROVE  Sound(h) /\ (Bridge(g) => Bridge(h))
<1>1. \A f \in Matter : h[f] = g[f]
  BY DEF Substance
<1>2. Game(h) /\ (Bridge(g) => Bridge(h))
  BY <1>1, MatterSame DEF Sound
<1>3. /\ h.closing = g.closing /\ h.panic = g.panic /\ h.clock1 = g.clock1 /\ h.clock2 = g.clock2
      /\ h.closed = g.closed
  BY DEF Substance, Matter
<1>4. Clocks(h)
  BY <1>3 DEF Clocks, Sound
<1>. QED  BY <1>2, <1>4 DEF Sound

\* A step begins with any luck,
LEMMA LuckSet ==
  ASSUME NEW g, Sound(g), NEW luck, NEW h, h = [g EXCEPT !.luck = luck]
  PROVE  /\ Shape(h) /\ h.luck = luck /\ \A f \in Fields \ {"luck"} : h[f] = g[f]
         /\ Sound(h) /\ (Bridge(g) <=> Bridge(h))
<1>1. Shape(h) /\ h.luck = luck /\ \A f \in Fields \ {"luck"} : h[f] = g[f]
  BY DEF Sound, Game, Shape, Fields
<1>2. Shape(g)
  BY DEF Sound, Game
<1>3. \A f \in Substance : h[f] = g[f] /\ g[f] = h[f]
  BY <1>1 DEF Substance, Matter, Fields
<1>4. Sound(h) /\ (Bridge(g) => Bridge(h))
  BY <1>1, <1>3, SubstanceSame
<1>5. Bridge(h) => Bridge(g)
  BY <1>2, <1>3, <1>4, SubstanceSame
<1>. QED  BY <1>1, <1>4, <1>5

\* The program goes on, or ends.
LEMMA PhaseSet ==
  ASSUME NEW g, Sound(g), NEW phase, NEW h, h = [g EXCEPT !.phase = phase]
  PROVE  /\ Shape(h) /\ h.phase = phase /\ \A f \in Fields \ {"phase"} : h[f] = g[f]
         /\ Sound(h) /\ (Bridge(g) => Bridge(h))
<1>1. Shape(h) /\ h.phase = phase /\ \A f \in Fields \ {"phase"} : h[f] = g[f]
  BY DEF Sound, Game, Shape, Fields
<1>2. \A f \in Substance : h[f] = g[f]
  BY <1>1 DEF Substance, Matter, Fields
<1>3. Sound(h) /\ (Bridge(g) => Bridge(h))
  BY <1>1, <1>2, SubstanceSame
<1>. QED  BY <1>1, <1>3

\* A step ends with no luck left over.
LEMMA CalmSet ==
  ASSUME NEW g, Sound(g), NEW h, h = [g EXCEPT !.luck = Calm]
  PROVE  /\ Shape(h) /\ h.luck = Calm /\ \A f \in Fields \ {"luck"} : h[f] = g[f]
         /\ Sound(h) /\ (Bridge(g) <=> Bridge(h))
BY LuckSet

----------------------------------------------------------------------------
\* The variables after initplay.
LEMMA InitplayFields ==
  /\ Shape(initplay)
  /\ initplay.loc = 3 /\ initplay.newloc = 1 /\ initplay.oldloc = 3 /\ initplay.oldloc2 = 3
  /\ initplay.place = initPlace /\ initplay.fixed = initFixed
  /\ initplay.prop = [i \in Object |-> IF i >= 50 THEN -1 ELSE 0]
  /\ initplay.holding = 0 /\ initplay.closed = FALSE /\ initplay.closing = FALSE
  /\ initplay.clock1 = 30 /\ initplay.clock2 = 50 /\ initplay.panic = FALSE
  /\ initplay.verb = 0 /\ initplay.object = 0 /\ initplay.motion = 0 /\ initplay.word1 = ""
  /\ initplay.phase = "turn" /\ initplay.fatal = 0 /\ initplay.luck = Calm
<1> DEFINE p == [i \in Object |-> IF i >= 50 THEN -1 ELSE 0]
<1>1. p \in [1 .. 64 -> Int]
  OBVIOUS
<1> HIDE DEF p
<1>2. Array(p) = p
  BY <1>1, ArrayIsItself, 64 \in Nat, Zenon
<1>3. initplay.prop = Array(p)
  BY DEF initplay, p
<1>4. initplay.prop = p
  BY <1>2, <1>3
<1>5. initplay.prop = [i \in Object |-> IF i >= 50 THEN -1 ELSE 0]
  BY <1>4 DEF p
<1>6. Shape(initplay)
  BY DEF initplay, Shape, Fields
<1>7. /\ initplay.loc = 3 /\ initplay.newloc = 1 /\ initplay.oldloc = 3 /\ initplay.oldloc2 = 3
      /\ initplay.place = initPlace /\ initplay.fixed = initFixed
      /\ initplay.holding = 0 /\ initplay.closed = FALSE /\ initplay.closing = FALSE
      /\ initplay.clock1 = 30 /\ initplay.clock2 = 50 /\ initplay.panic = FALSE
      /\ initplay.verb = 0 /\ initplay.object = 0 /\ initplay.motion = 0 /\ initplay.word1 = ""
      /\ initplay.phase = "turn" /\ initplay.fatal = 0 /\ initplay.luck = Calm
  BY DEF initplay
<1>. QED  BY <1>5, <1>6, <1>7

\* A new game is sound, and the troll holds his bridge.
LEMMA InitplaySound ==
  Sound(initplay) /\ Bridge(initplay)
<1> DEFINE g == initplay
<1>1. /\ Shape(g)
      /\ g.loc = 3 /\ g.newloc = 1 /\ g.oldloc = 3 /\ g.oldloc2 = 3
      /\ g.place = initPlace /\ g.fixed = initFixed
      /\ g.prop = [i \in Object |-> IF i >= 50 THEN -1 ELSE 0]
      /\ g.holding = 0 /\ g.closed = FALSE /\ g.closing = FALSE
      /\ g.clock1 = 30 /\ g.clock2 = 50 /\ g.panic = FALSE
  BY InitplayFields
<1> HIDE DEF g
<1>2. /\ initPlace \in [Object -> Nat] /\ initFixed \in [Object -> Int]
      /\ initPlace[TROLL] = 117 /\ initFixed[TROLL] = 122
      /\ initPlace[TROLL2] = 0 /\ initFixed[TROLL2] = 0
  BY PlacesAssumption
<1>3. Held(g.place) = 0
  <2>1. {i \in Object \ {WATER, OIL} : g.place[i] = -1} = {}
    BY <1>1, <1>2
  <2>. QED  BY <2>1, FS_EmptySet, Zenon DEF Held
<1>4. /\ g.prop \in [Object -> Int] /\ g.prop[BOTTLE] = 0 /\ g.prop[BIRD] = 0
      /\ g.prop[CHASM] = 0 /\ g.prop[TROLL] = 0
  BY <1>1
<1>5. g.place \in [Object -> Int] /\ \A i \in Object : g.place[i] # -1
  BY <1>1, <1>2
<1>6. Typed(g)
  <2>1. g.closed \in BOOLEAN
    BY <1>1, Zenon
  <2>2. g.loc \in Loc /\ g.newloc \in Loc /\ g.oldloc \in Loc /\ g.oldloc2 \in Loc /\ g.holding \in Int
    BY <1>1 DEF Loc
  <2>3. g.fixed \in [Object -> Int] /\ g.prop[BOTTLE] \in -3 .. 2
    BY <1>1, <1>2, <1>4
  <2>. QED  BY <1>4, <1>5, <2>1, <2>2, <2>3 DEF Typed
<1>7. Kept(g)
  BY <1>1, <1>3, <1>4, <1>5 DEF Kept
<1>8. Clocks(g)
  <2>1. g.closing \in BOOLEAN /\ g.panic \in BOOLEAN /\ ~g.closing
    BY <1>1, Zenon
  <2>2. g.clock1 \in Int /\ g.clock2 \in Int /\ g.clock1 > 0 /\ g.clock2 > 0
    BY <1>1
  <2>. QED  BY <2>1, <2>2 DEF Clocks
<1>9. Bridge(g)
  BY <1>1, <1>2, <1>4 DEF Bridge
<1>. QED  BY <1>1, <1>6, <1>7, <1>8, <1>9 DEF Sound, Game, g

\* There are 64 objects.
LEMMA ObjectCount ==
  Cardinality(Object) = 64
<1>1. Cardinality(1 .. 64) = IF 1 > 64 THEN 0 ELSE 64 - 1 + 1
  BY FS_Interval, 1 \in Int, 64 \in Int, Zenon
<1>. QED  BY <1>1 DEF Object

----------------------------------------------------------------------------
(* The file.                                                               *)

\* What every fwrite put there is of the game that was left.
FileIsLeft ==
  \A i \in DOMAIN file :
    \E m \in Nat : file[i] = [j \in 1 .. m |-> element(left, Writes[i], j)]

\* saveadv, whatever becomes of it, keeps it so.
LEMMA SaveadvIsLeft ==
  ASSUME FileIsLeft, NEW g, NEW disk \in Disk, saveadv(g, disk)
  PROVE  FileIsLeft'
<1>1. CASE disk = <<>>
  BY <1>1 DEF saveadv, FileIsLeft
<1>2. CASE disk # <<>>
  <2>1. file' = Saved(g, disk) /\ left' = g
    BY <1>2 DEF saveadv
  <2>2. \A f : Size(f) \in Nat
    BY ObjectCount DEF Size, DWARFMAX
  <2>3. disk[2] \in Nat
    BY <1>2, <2>2 DEF Disk
  <2>4. ASSUME NEW i \in DOMAIN file'
        PROVE  \E m \in Nat : file'[i] = [j \in 1 .. m |-> element(left', Writes[i], j)]
    <3> DEFINE m == IF i = disk[1] THEN disk[2] ELSE Size(Writes[i])
    <3>1. file'[i] = [j \in 1 .. m |-> element(g, Writes[i], j)]
      BY <2>1 DEF Saved
    <3>2. m \in Nat
      BY <2>2, <2>3
    <3>. QED  BY <2>1, <3>1, <3>2
  <2>. QED  BY <2>4 DEF FileIsLeft
<1>. QED  BY <1>1, <1>2

\* What the file has for a variable is what was written of it: the calls come in
\* one order.
LEMMA StoredIsLeft ==
  ASSUME FileIsLeft, NEW f, NEW j \in DOMAIN Stored(f)
  PROVE  Stored(f)[j] = element(left, f, j)
<1> DEFINE calls == {i \in DOMAIN Reads \cap DOMAIN file : Reads[i] = f}
           i == CHOOSE c \in calls : TRUE
<1>1. calls # {}
  BY DEF Stored
<1>2. i \in DOMAIN file /\ Reads[i] = f /\ Stored(f) = file[i]
  BY <1>1 DEF Stored
<1>3. Writes[i] = f
  BY <1>2 DEF Reads, Writes
<1> HIDE DEF i
<1>4. PICK m \in Nat : file[i] = [k \in 1 .. m |-> element(left, f, k)]
  BY <1>2, <1>3 DEF FileIsLeft
<1>. QED  BY <1>2, <1>4

\* Every variable but the passing ones is in the list.
LEMMA EveryFieldIsRead ==
  /\ \A f \in Fields \ Passing : \E i \in DOMAIN Reads : Reads[i] = f
  /\ \A f \in Passing : \A i \in DOMAIN Reads : Reads[i] # f
<1> DEFINE R == Reads
<1>1. DOMAIN R = 1 .. 26
  BY DEF Reads
<1>2. /\ R[1] = "loc" /\ R[2] = "oldloc" /\ R[3] = "oldloc2" /\ R[4] = "newloc" /\ R[5] = "place"
      /\ R[6] = "fixed" /\ R[7] = "prop" /\ R[8] = "tally" /\ R[9] = "tally2" /\ R[10] = "limit"
      /\ R[11] = "wzdark" /\ R[12] = "closing" /\ R[13] = "closed" /\ R[14] = "holding"
      /\ R[15] = "knfloc" /\ R[16] = "clock1" /\ R[17] = "clock2" /\ R[18] = "panic"
      /\ R[19] = "dloc" /\ R[20] = "dflag" /\ R[21] = "dseen" /\ R[22] = "odloc"
      /\ R[23] = "bonus" /\ R[24] = "numdie" /\ R[25] = "gaveup" /\ R[26] = "foobar"
  BY DEF Reads
<1>3. \A i \in DOMAIN R : R[i] \notin Passing
  BY DEF Reads, Passing
<1> HIDE DEF R
<1>4. \A f \in Fields \ Passing : \E i \in DOMAIN R : R[i] = f
  BY <1>1, <1>2 DEF Fields, Passing
<1>. QED  BY <1>3, <1>4 DEF R

\* With all of a file, there is something for every element.
LEMMA AllIsStored ==
  ASSUME FileIsLeft, ReadsAll, NEW f \in Fields \ Passing
  PROVE  DOMAIN Stored(f) = 1 .. Size(f)
<1> DEFINE calls == {i \in DOMAIN Reads \cap DOMAIN file : Reads[i] = f}
           i == CHOOSE c \in calls : TRUE
<1>1. calls # {}
  BY EveryFieldIsRead DEF ReadsAll
<1>2. i \in DOMAIN file /\ i \in DOMAIN Reads /\ Reads[i] = f /\ Stored(f) = file[i]
  BY <1>1 DEF Stored
<1>3. PICK m \in Nat : file[i] = [k \in 1 .. m |-> element(left, Writes[i], k)]
  BY <1>2 DEF FileIsLeft
<1>4. Len(file[i]) = m
  BY <1>3
<1>5. Len(file[i]) = Size(f)
  BY <1>2 DEF ReadsAll
<1>. QED  BY <1>2, <1>3, <1>4, <1>5

\* What restore makes of a variable: what the file has of it and the rest as it
\* was.
LEMMA RestoredElements ==
  ASSUME NEW g, NEW h, h = [Restored(g) EXCEPT !.phase = "turn"]
  PROVE  /\ Shape(h) /\ h.phase = "turn"
         /\ \A f \in Passing \ {"phase"} : h[f] = g[f]
         /\ \A f \in Fields \ Passing : \A j \in 1 .. Size(f) :
              element(h, f, j) = IF j \in DOMAIN Stored(f) THEN Stored(f)[j] ELSE element(g, f, j)
         /\ \A f \in Tables : \E S : h[f] \in [Object -> S]
<1> DEFINE value(f, j) == IF j \in DOMAIN Stored(f) THEN Stored(f)[j] ELSE element(g, f, j)
           array(f) == [j \in 1 .. Size(f) |-> value(f, j)]
<1>1. Shape(initplay)
  BY InitplayFields
<1>2. Restored(g) = [f \in Fields |-> IF \A i \in DOMAIN Reads : Reads[i] # f THEN g[f]
                                      ELSE IF f \in Arrays THEN Array(array(f)) ELSE value(f, 1)]
  BY <1>1 DEF Restored, Shape
<1> DEFINE r == Restored(g)
<1>3. /\ DOMAIN r = Fields
      /\ \A f \in Passing : r[f] = g[f]
      /\ \A f \in Fields \ Passing : r[f] = IF f \in Arrays THEN Array(array(f)) ELSE value(f, 1)
  <2>1. Passing \subseteq Fields
    BY DEF Passing, Fields
  <2> HIDE DEF array, value
  <2>. QED  BY <1>2, <2>1, EveryFieldIsRead, Zenon
<1> HIDE DEF r
<1>4. h = [r EXCEPT !.phase = "turn"]
  BY DEF r
<1>5. "phase" \in Fields \cap Passing
  BY DEF Fields, Passing
<1>6. /\ Shape(h) /\ h.phase = "turn"
      /\ \A f \in Passing \ {"phase"} : h[f] = g[f]
      /\ \A f \in Fields \ Passing : h[f] = IF f \in Arrays THEN Array(array(f)) ELSE value(f, 1)
  <2> HIDE DEF array, value
  <2>. QED  BY <1>3, <1>4, <1>5 DEF Shape, Passing, Fields
<1>7. ASSUME NEW f
      PROVE  Array(array(f)) = array(f)
  <2> DEFINE S == {value(f, j) : j \in 1 .. Size(f)}
  <2>1. Size(f) \in Nat
    BY ObjectCount DEF Size, DWARFMAX
  <2>2. array(f) \in [1 .. Size(f) -> S]
    <3> HIDE DEF value
    <3>. QED  OBVIOUS
  <2> HIDE DEF array, S
  <2>. QED  BY <2>1, <2>2, ArrayIsItself, Zenon
<1>8. ASSUME NEW f \in Fields \ Passing, NEW j \in 1 .. Size(f)
      PROVE  element(h, f, j) = value(f, j)
  <2>1. CASE f \in Arrays
    <3>1. h[f] = array(f)
      BY <1>6, <1>7, <2>1
    <3>2. array(f)[j] = value(f, j)
      BY DEF array
    <3>. QED  BY <2>1, <3>1, <3>2 DEF element
  <2>2. CASE f \notin Arrays
    <3>1. j = 1
      BY <2>2 DEF Size, Arrays
    <3>. QED  BY <1>6, <2>2, <3>1 DEF element
  <2>. QED  BY <2>1, <2>2
<1>9. ASSUME NEW f \in Tables
      PROVE  \E S : h[f] \in [Object -> S]
  <2>1. Size(f) = 64 /\ f \in Fields \ Passing /\ f \in Arrays
    BY ObjectCount DEF Size, Tables, Fields, Passing, Arrays
  <2>2. h[f] = array(f)
    BY <1>6, <1>7, <2>1
  <2>3. array(f) \in [Object -> {value(f, j) : j \in Object}]
    <3> HIDE DEF value
    <3>. QED  BY <2>1 DEF Object
  <2>. QED  BY <2>2, <2>3
<1>. QED  BY <1>6, <1>8, <1>9

\* Two games alike have the same substance.
LEMMA AlikeSubstance ==
  ASSUME NEW g, NEW h, Sound(g), Shape(h), Alike(h, g), \A f \in Tables : \E S : h[f] \in [Object -> S]
  PROVE  Sound(h) /\ (Bridge(g) => Bridge(h))
<1>1. \A f \in Fields \ Passing : \A j \in 1 .. Size(f) : element(h, f, j) = element(g, f, j)
  BY InitplayFields DEF Alike, Shape
<1>2. \A f \in Substance \ Tables : h[f] = g[f]
  <2> TAKE f \in Substance \ Tables
  <2>1. f \in Fields \ Passing /\ f \notin Arrays
    BY DEF Substance, Matter, Tables, Arrays, Fields, Passing
  <2>2. Size(f) = 1
    BY <2>1 DEF Size, Arrays
  <2>. QED  BY <1>1, <2>1, <2>2 DEF element
<1>3. \A f \in Tables : g[f] \in [Object -> Int]
  BY DEF Sound, Game, Typed, Tables
<1>4. ASSUME NEW f \in Tables PROVE h[f] = g[f]
  <2>1. f \in Fields \ Passing /\ f \in Arrays /\ Size(f) = 64
    BY ObjectCount DEF Tables, Arrays, Fields, Passing, Size
  <2>2. \A j \in Object : h[f][j] = g[f][j]
    BY <1>1, <2>1 DEF element, Object
  <2>3. PICK S : h[f] \in [Object -> S]
    OBVIOUS
  <2>. QED  BY <1>3, <2>2, <2>3
<1>5. \A f \in Substance : h[f] = g[f]
  BY <1>2, <1>4
<1>. QED  BY <1>5, SubstanceSame

\* What restore leaves: the game of the file if it is all there, the game as it
\* was if there is no file.
LEMMA RestoreIsAlike ==
  ASSUME FileIsLeft, NEW g, NEW h, h = [Restored(g) EXCEPT !.phase = "turn"]
  PROVE  /\ ReadsAll => Alike(h, left)
         /\ file = <<>> => Alike(h, g)
<1>1. DOMAIN initplay = Fields
  BY InitplayFields DEF Shape
<1>2. \A f \in Fields \ Passing : \A j \in 1 .. Size(f) :
        element(h, f, j) = IF j \in DOMAIN Stored(f) THEN Stored(f)[j] ELSE element(g, f, j)
  BY RestoredElements
<1>3. ASSUME ReadsAll PROVE Alike(h, left)
  <2>1. \A f \in Fields \ Passing : \A j \in 1 .. Size(f) : element(h, f, j) = element(left, f, j)
    BY <1>2, <1>3, AllIsStored, StoredIsLeft
  <2>. QED  BY <1>1, <2>1 DEF Alike
<1>4. ASSUME file = <<>> PROVE Alike(h, g)
  <2>1. \A f : DOMAIN Stored(f) = {}
    BY <1>4 DEF Stored
  <2>2. \A f \in Fields \ Passing : \A j \in 1 .. Size(f) : element(h, f, j) = element(g, f, j)
    BY <1>2, <2>1
  <2>. QED  BY <1>1, <2>2 DEF Alike
<1>. QED  BY <1>3, <1>4

\* A process that has read all of a file, or found none, has a sound game.
LEMMA RestoreSound ==
  ASSUME FileIsLeft, Sound(left), NEW g, Sound(g), file = <<>> \/ ReadsAll,
         NEW h, h = [Restored(g) EXCEPT !.phase = "turn"]
  PROVE  /\ Sound(h) /\ h.phase = "turn" /\ h.fatal = g.fatal /\ h.luck = g.luck
         /\ Bridge(g) /\ Bridge(left) => Bridge(h)
<1>1. /\ Shape(h) /\ h.phase = "turn"
      /\ \A f \in Passing \ {"phase"} : h[f] = g[f]
      /\ \A f \in Tables : \E S : h[f] \in [Object -> S]
  BY RestoredElements
<1>2. h.fatal = g.fatal /\ h.luck = g.luck
  BY <1>1 DEF Passing
<1>3. ReadsAll => Alike(h, left)
  BY RestoreIsAlike
<1>4. file = <<>> => Alike(h, g)
  BY RestoreIsAlike
<1>5. ReadsAll => Sound(h) /\ (Bridge(left) => Bridge(h))
  BY <1>1, <1>3, AlikeSubstance
<1>6. file = <<>> => Sound(h) /\ (Bridge(g) => Bridge(h))
  BY <1>1, <1>4, AlikeSubstance
<1>. QED  BY <1>1, <1>2, <1>5, <1>6

----------------------------------------------------------------------------
\* The inductive invariant: the game is sound, and so is the game that was left
\* in the file, while no game was read from one that stops short.
GameSound ==
  /\ Sound(game)
  /\ game.phase \in {"turn", "english", "saved", "over"}
  /\ game.phase # "over" => game.fatal = 0

\* Between two steps no luck is left over.
AtRest == game.luck = Calm

\* The invariant.
IInv == FileIsLeft /\ (torn \/ (GameSound /\ Sound(left) /\ AtRest))

\* The troll holds his bridge, in the game that was left as well.
BridgeHeld == torn \/ (Bridge(game) /\ Bridge(left))

----------------------------------------------------------------------------
\* A turn with the luck of its step.
LEMMA ArrivePasses ==
  ASSUME NEW g, Sound(g), g.phase = "turn", NEW luck,
         NEW a, a = [g EXCEPT !.luck = luck], NEW b, b = turn(a),
         NEW h, h = [b EXCEPT !.luck = Calm]
  PROVE  Passes(g, h) /\ h.luck = Calm
<1>1. Sound(a) /\ (Bridge(g) <=> Bridge(a)) /\ \A f \in Fields \ {"luck"} : a[f] = g[f]
  BY LuckSet
<1>2. /\ a.phase = "turn" /\ a.closed = g.closed /\ a.fatal = g.fatal /\ a.closing = g.closing
      /\ a.panic = g.panic /\ a.clock2 = g.clock2
  BY <1>1 DEF Fields
<1>3. Passes(a, b)
  BY <1>1, <1>2, TurnPasses DEF Sound
<1>4. Sound(b)
  BY <1>3 DEF Passes, Sound
<1>5. /\ Sound(h) /\ (Bridge(b) <=> Bridge(h)) /\ h.luck = Calm
      /\ \A f \in Fields \ {"luck"} : h[f] = b[f]
  BY <1>4, CalmSet
<1>6. /\ h.phase = b.phase /\ h.closed = b.closed /\ h.fatal = b.fatal /\ h.panic = b.panic
      /\ h.clock2 = b.clock2
  BY <1>5 DEF Fields
<1>7. Passes(g, h)
  BY <1>1, <1>2, <1>3, <1>5, <1>6 DEF Passes, Sound, Nearer
<1>. QED  BY <1>5, <1>7

\* A sentence with the luck of its step.
LEMMA CommandHeeds ==
  ASSUME NEW g, Sound(g), g.phase = "english", NEW luck,
         NEW s, s.object \in Object \cup {0}, NEW w1,
         NEW a, a = [g EXCEPT !.luck = luck], NEW b, b = obey(a, s, w1),
         NEW h, h = [b EXCEPT !.luck = Calm]
  PROVE  Heeds(g, h) /\ h.luck = Calm
<1>1. Sound(a) /\ (Bridge(g) <=> Bridge(a)) /\ \A f \in Fields \ {"luck"} : a[f] = g[f]
  BY LuckSet
<1>2. /\ a.phase = "english" /\ a.closed = g.closed /\ a.fatal = g.fatal /\ a.closing = g.closing
      /\ a.panic = g.panic /\ a.clock2 = g.clock2 /\ a.loc = g.loc
  BY <1>1 DEF Fields
<1>3. Heeds(a, b)
  BY <1>1, <1>2, ObeyHeeds DEF Sound
<1>4. Sound(b)
  BY <1>3 DEF Heeds, Sound
<1>5. /\ Sound(h) /\ (Bridge(b) <=> Bridge(h)) /\ h.luck = Calm
      /\ \A f \in Fields \ {"luck"} : h[f] = b[f]
  BY <1>4, CalmSet
<1>6. /\ h.phase = b.phase /\ h.closed = b.closed /\ h.fatal = b.fatal /\ h.panic = b.panic
      /\ h.clock2 = b.clock2 /\ h.motion = b.motion /\ h.verb = b.verb /\ h.object = b.object
      /\ h.word1 = b.word1
  BY <1>5 DEF Fields
<1>7. Heeds(g, h)
  <2>1. /\ Game(h) /\ Clocks(h) /\ (Bridge(g) /\ g.loc # 0 => Bridge(h)) /\ h.closed = g.closed
        /\ h.phase = "over" \/ (h.phase \in {"turn", "saved", "load"} /\ h.fatal = g.fatal)
    BY <1>1, <1>2, <1>3, <1>5, <1>6 DEF Heeds, Sound
  <2>2. /\ h.phase \in {"saved", "load"} => h.motion = 0
        /\ h.verb = 0 /\ h.object = 0 /\ h.word1 = ""
    BY <1>3, <1>6 DEF Heeds
  <2>3. g.closing => Nearer(g, h) \/ (~g.panic /\ h.panic)
    BY <1>2, <1>3, <1>6 DEF Heeds, Nearer
  <2>. QED  BY <2>1, <2>2, <2>3 DEF Heeds
<1>. QED  BY <1>5, <1>7

\* A game with the luck of a step.
WithLuck(g, luck) == [g EXCEPT !.luck = luck]

\* The same, said of the step.
LEMMA CommandWithLuck ==
  ASSUME NEW g, Sound(g), g.phase = "english", NEW luck,
         NEW s, s.object \in Object \cup {0}, NEW w1
  PROVE  LET h == WithLuck(obey(WithLuck(g, luck), s, w1), Calm)
         IN  Heeds(g, h) /\ h.luck = Calm
<1> DEFINE a == WithLuck(g, luck)
           b == obey(a, s, w1)
           h == WithLuck(b, Calm)
<1>1. a = [g EXCEPT !.luck = luck]
  BY DEF WithLuck
<1>2. h = [b EXCEPT !.luck = Calm]
  BY DEF WithLuck
<1>3. b = obey(a, s, w1)
  OBVIOUS
<1> HIDE DEF a, b, h
<1>4. Heeds(g, h) /\ h.luck = Calm
  BY <1>1, <1>2, <1>3, CommandHeeds
<1>. QED  BY <1>4 DEF a, b, h

----------------------------------------------------------------------------
\* So is the first state.
LEMMA InitSound ==
  Init => IInv /\ BridgeHeld
<1> SUFFICES ASSUME Init PROVE IInv /\ BridgeHeld
  OBVIOUS
<1>1. game = initplay /\ file = <<>> /\ left = initplay
  BY DEF Init
<1>2. Sound(initplay) /\ Bridge(initplay)
  BY InitplaySound
<1>3. game.phase = "turn" /\ game.fatal = 0 /\ game.luck = Calm
  BY <1>1, InitplayFields
<1>4. GameSound
  BY <1>1, <1>2, <1>3 DEF GameSound
<1>5. FileIsLeft
  BY <1>1 DEF FileIsLeft
<1>. QED  BY <1>1, <1>2, <1>3, <1>4, <1>5 DEF IInv, AtRest, BridgeHeld

\* A step keeps the invariant if what a file that stops short leaves behind is
\* marked, and stays so.
LEMMA TornKeeps ==
  ASSUME FileIsLeft', torn'
  PROVE  IInv' /\ BridgeHeld'
BY DEF IInv, BridgeHeld

\* A step that writes nothing leaves the file what it was.
LEMMA LeftStays ==
  ASSUME IInv, file' = file, left' = left
  PROVE  FileIsLeft'
BY DEF IInv, FileIsLeft

\* Games alike have the same time.
LEMMA AlikeClocks ==
  ASSUME NEW g, NEW h, Alike(h, g)
  PROVE  h.clock2 = g.clock2 /\ h.panic = g.panic
<1>1. \A f \in Fields \ Passing : \A j \in 1 .. Size(f) : element(h, f, j) = element(g, f, j)
  BY InitplayFields DEF Alike, Shape
<1>2. \A f \in {"clock2", "panic"} : f \in Fields \ Passing /\ f \notin Arrays /\ Size(f) = 1
  BY DEF Fields, Passing, Arrays, Tables, Size
<1>3. \A f \in {"clock2", "panic"} : h[f] = g[f]
  BY <1>1, <1>2 DEF element
<1>. QED  BY <1>3

\* A turn up to the prompt keeps the invariant.
LEMMA ArriveStep ==
  ASSUME IInv, NEW luck, Arrive(luck)
  PROVE  IInv' /\ (BridgeHeld => BridgeHeld') /\ (~torn => Passes(game, game'))
<1>1. FileIsLeft' /\ torn' = torn /\ left' = left /\ game.phase = "turn"
  BY DEF IInv, FileIsLeft, Arrive
<1>2. CASE torn
  BY <1>1, <1>2, TornKeeps
<1>3. CASE ~torn
  <2>1. Sound(game) /\ game.fatal = 0
    BY <1>1, <1>3 DEF IInv, GameSound
  <2> DEFINE a == [game EXCEPT !.luck = luck]
  <2>2. a = [game EXCEPT !.luck = luck] /\ game' = [turn(a) EXCEPT !.luck = Calm]
    BY DEF Arrive
  <2> HIDE DEF a
  <2>3. Passes(game, game') /\ game'.luck = Calm
    BY <1>1, <2>1, <2>2, ArrivePasses
  <2>4. /\ Sound(game') /\ game'.phase \in {"over", "turn", "english"}
        /\ game'.phase # "over" => game'.fatal = 0
        /\ Bridge(game) => Bridge(game')
    BY <2>1, <2>3 DEF Passes, Sound
  <2>5. IInv'
    BY <1>1, <1>3, <2>3, <2>4 DEF IInv, GameSound, AtRest
  <2>. QED  BY <1>1, <1>3, <2>3, <2>4, <2>5 DEF BridgeHeld
<1>. QED  BY <1>2, <1>3

\* restore keeps it: whoever calls it has a sound game or goes on with a torn one.
LEMMA RestoreStep ==
  ASSUME IInv, NEW g, restore(g), ~torn => Sound(g) /\ g.fatal = 0 /\ g.luck = Calm
  PROVE  /\ IInv'
         /\ BridgeHeld /\ (~torn => Bridge(g)) => BridgeHeld'
         /\ ReadsAll => Alike(game', left)
         /\ file = <<>> => Alike(game', g)
<1>1. /\ game' = [Restored(g) EXCEPT !.phase = "turn"] /\ file' = file /\ left' = left
      /\ torn' = (torn \/ (file # <<>> /\ ~ReadsAll))
  BY DEF restore
<1>2. FileIsLeft
  BY DEF IInv
<1>3. FileIsLeft'
  BY <1>1, <1>2 DEF FileIsLeft
<1>4. (ReadsAll => Alike(game', left)) /\ (file = <<>> => Alike(game', g))
  BY <1>1, <1>2, RestoreIsAlike, Zenon
<1>5. CASE torn'
  BY <1>3, <1>4, <1>5, TornKeeps
<1>6. CASE ~torn'
  <2>1. ~torn /\ (file = <<>> \/ ReadsAll)
    BY <1>1, <1>6, Zenon
  <2>2. Sound(g) /\ g.fatal = 0 /\ g.luck = Calm /\ Sound(left)
    BY <2>1 DEF IInv
  <2>3. /\ Sound(game') /\ game'.phase = "turn" /\ game'.fatal = 0 /\ game'.luck = Calm
        /\ Bridge(g) /\ Bridge(left) => Bridge(game')
    BY <1>1, <1>2, <2>1, <2>2, RestoreSound
  <2>4. IInv'
    BY <1>1, <1>3, <2>2, <2>3 DEF IInv, GameSound, AtRest
  <2>5. BridgeHeld /\ Bridge(g) => BridgeHeld'
    BY <1>1, <2>1, <2>3 DEF BridgeHeld
  <2>. QED  BY <1>4, <2>1, <2>4, <2>5
<1>. QED  BY <1>5, <1>6

\* saveadv keeps it, whatever becomes of the file.
LEMMA SaveadvStep ==
  ASSUME IInv, NEW g, g.phase = "saved", NEW disk \in Disk, saveadv(g, disk),
         ~torn => Sound(g) /\ g.fatal = 0 /\ g.luck = Calm
  PROVE  /\ IInv'
         /\ BridgeHeld /\ (~torn => Bridge(g)) => BridgeHeld'
         /\ ~torn => game'.clock2 = g.clock2 /\ game'.panic = g.panic
<1>1. FileIsLeft' /\ torn' = torn
  BY SaveadvIsLeft DEF IInv, saveadv
<1>2. CASE torn
  BY <1>1, <1>2, TornKeeps
<1>3. CASE ~torn /\ disk = <<>>
  <2>1. Sound(g) /\ game' = [g EXCEPT !.phase = "over"] /\ left' = left
    BY <1>3 DEF saveadv
  <2>2. /\ Sound(game') /\ game'.phase = "over" /\ (Bridge(g) => Bridge(game'))
        /\ \A f \in Fields \ {"phase"} : game'[f] = g[f]
    BY <2>1, PhaseSet
  <2>3. game'.luck = g.luck /\ game'.clock2 = g.clock2 /\ game'.panic = g.panic
    BY <2>2 DEF Fields
  <2>. QED  BY <1>1, <1>3, <2>1, <2>2, <2>3 DEF IInv, GameSound, AtRest, BridgeHeld
<1>4. CASE ~torn /\ disk # <<>>
  <2>1. game' = g /\ left' = g
    BY <1>4 DEF saveadv
  <2>. QED  BY <1>1, <1>4, <2>1 DEF IInv, GameSound, AtRest, BridgeHeld
<1>. QED  BY <1>2, <1>3, <1>4

\* What a sentence does, the loading of a file and the saving of one included.
LEMMA CommandStep ==
  ASSUME IInv, NEW w1 \in Words, NEW w2 \in Words \cup {""}, NEW luck, NEW disk \in Disk,
         Command(w1, w2, luck, disk)
  PROVE  /\ IInv'
         /\ BridgeHeld /\ game.loc # 0 => BridgeHeld'
         /\ ~torn /\ file = <<>> /\ game.closing /\ ~game'.closed
              => Nearer(game, game') \/ (~game.panic /\ game'.panic)
<1> DEFINE s == english(w1, w2)
           g == WithLuck(obey(WithLuck(game, luck), s, w1), Calm)
<1>1. /\ game.phase = "english"
      /\ \/ g.phase = "load" /\ restore(g)
         \/ g.phase = "saved" /\ saveadv(g, disk)
         \/ g.phase \notin {"load", "saved"} /\ game' = g /\ UNCHANGED <<file, left, torn>>
  BY DEF Command, Heard, WithLuck
<1>2. s.object \in Object \cup {0}
  <2>1. w2 # "" => w2 \in Words
    OBVIOUS
  <2>. QED  BY <2>1, EnglishObject
<1> HIDE DEF s
<1>3. ASSUME ~torn
      PROVE  /\ Sound(g) /\ (Bridge(game) /\ game.loc # 0 => Bridge(g)) /\ g.luck = Calm
             /\ g.phase \in {"over", "turn", "saved", "load"}
             /\ g.phase # "over" => g.fatal = 0
             /\ game.closing => Nearer(game, g) \/ (~game.panic /\ g.panic)
  <2>1. Sound(game) /\ game.fatal = 0
    BY <1>1, <1>3 DEF IInv, GameSound
  <2>2. game.phase = "english"
    BY <1>1
  <2>3. Heeds(game, g) /\ g.luck = Calm
    BY <1>2, <2>1, <2>2, CommandWithLuck, Zenon
  <2> HIDE DEF g
  <2>. QED  BY <2>1, <2>3 DEF Heeds, Sound
<1> HIDE DEF g
<1>4. CASE g.phase = "load"
  <2>1. restore(g)
    BY <1>1, <1>4
  <2>2. ~torn => Sound(g) /\ g.fatal = 0 /\ g.luck = Calm
    BY <1>3, <1>4
  <2>3. IInv' /\ (BridgeHeld /\ (~torn => Bridge(g)) => BridgeHeld')
    BY <2>1, <2>2, RestoreStep, Zenon
  <2>4. BridgeHeld /\ game.loc # 0 => BridgeHeld'
    BY <1>3, <2>3 DEF BridgeHeld
  <2>5. ASSUME ~torn, file = <<>>, game.closing
        PROVE  Nearer(game, game') \/ (~game.panic /\ game'.panic)
    <3>1. Alike(game', g) /\ game'.phase = "turn"
      BY <2>1, <2>2, <2>5, RestoreStep, RestoredElements DEF restore
    <3>2. game'.clock2 = g.clock2 /\ game'.panic = g.panic
      BY <3>1, AlikeClocks
    <3>. QED  BY <1>1, <1>3, <2>5, <3>1, <3>2 DEF Nearer
  <2>. QED  BY <2>3, <2>4, <2>5
<1>5. CASE g.phase = "saved"
  <2>1. saveadv(g, disk)
    BY <1>1, <1>5
  <2>2. ~torn => Sound(g) /\ g.fatal = 0 /\ g.luck = Calm
    BY <1>3, <1>5
  <2>3. /\ IInv' /\ (BridgeHeld /\ (~torn => Bridge(g)) => BridgeHeld')
        /\ ~torn => game'.clock2 = g.clock2 /\ game'.panic = g.panic
    BY <1>5, <2>1, <2>2, SaveadvStep, Zenon
  <2>4. BridgeHeld /\ game.loc # 0 => BridgeHeld'
    BY <1>3, <2>3 DEF BridgeHeld
  <2>5. ASSUME ~torn, game.closing
        PROVE  Nearer(game, game') \/ (~game.panic /\ game'.panic)
    BY <1>1, <1>3, <2>3, <2>5 DEF Nearer
  <2>. QED  BY <2>3, <2>4, <2>5
<1>6. CASE g.phase \notin {"load", "saved"}
  <2>1. game' = g /\ file' = file /\ left' = left /\ torn' = torn
    BY <1>1, <1>6
  <2>2. FileIsLeft'
    BY <2>1, LeftStays
  <2>3. CASE torn
    BY <2>1, <2>2, <2>3, TornKeeps
  <2>4. CASE ~torn
    <3>1. IInv'
      BY <1>3, <1>6, <2>1, <2>2, <2>4 DEF IInv, GameSound, AtRest
    <3>. QED  BY <1>3, <2>1, <2>4, <3>1 DEF BridgeHeld
  <2>. QED  BY <2>3, <2>4
<1>. QED  BY <1>4, <1>5, <1>6

\* The end of the input keeps it.
LEMMA EndOfInputStep ==
  ASSUME IInv, EndOfInput
  PROVE  IInv' /\ (BridgeHeld => BridgeHeld') /\ (~torn => Nearer(game, game'))
<1> DEFINE h == game'
<1>1. /\ h = [game EXCEPT !.phase = "over"] /\ game.phase = "english"
      /\ FileIsLeft' /\ left' = left /\ torn' = torn
  BY DEF IInv, FileIsLeft, EndOfInput
<1>2. CASE torn
  BY <1>1, <1>2, TornKeeps
<1>3. CASE ~torn
  <2>1. Sound(game) /\ game.luck = Calm
    BY <1>3 DEF IInv, GameSound, AtRest
  <2>2. /\ Sound(h) /\ h.phase = "over" /\ (Bridge(game) => Bridge(h))
        /\ \A f \in Fields \ {"phase"} : h[f] = game[f]
    BY <1>1, <2>1, PhaseSet
  <2>3. h.luck = Calm /\ h.panic = game.panic /\ h.clock2 = game.clock2
    BY <2>1, <2>2 DEF Fields
  <2>4. IInv'
    BY <1>1, <1>3, <2>2, <2>3 DEF IInv, GameSound, AtRest
  <2>5. Nearer(game, game')
    BY <1>1, <2>1, <2>2, <2>3 DEF Nearer, Sound, Clocks
  <2>. QED  BY <1>1, <1>3, <2>2, <2>4, <2>5 DEF BridgeHeld
<1>. QED  BY <1>2, <1>3

\* The next process starts with a sound game, or one that is marked.
LEMMA RestartStep ==
  ASSUME IInv, Restart
  PROVE  IInv' /\ (BridgeHeld => BridgeHeld') /\ (ReadsAll => Alike(game', left))
<1>1. restore(initplay)
  BY DEF Restart
<1>2. Sound(initplay) /\ Bridge(initplay) /\ initplay.fatal = 0 /\ initplay.luck = Calm
  BY InitplayFields, InitplaySound
<1>. QED  BY <1>1, <1>2, RestoreStep, Zenon

----------------------------------------------------------------------------
\* The invariant is inductive.
LEMMA NextSound ==
  IInv /\ [Next]_vars => IInv'
<1> SUFFICES ASSUME IInv, [Next]_vars PROVE IInv'
  OBVIOUS
<1>1. ASSUME NEW luck \in Luck, Arrive(luck) PROVE IInv'
  BY <1>1, ArriveStep
<1>2. ASSUME NEW w1 \in Words, NEW w2 \in Words \cup {""}, NEW luck \in Luck, NEW disk \in Disk,
             Command(w1, w2, luck, disk)
      PROVE  IInv'
  BY <1>2, CommandStep
<1>3. CASE EndOfInput
  BY <1>3, EndOfInputStep
<1>4. CASE Restart
  BY <1>4, RestartStep
<1>5. CASE UNCHANGED vars
  BY <1>5 DEF vars, IInv, FileIsLeft, GameSound, AtRest
<1>. QED  BY <1>1, <1>2, <1>3, <1>4, <1>5 DEF Next

\* Every game is one the program can be in: what the player carries and what
\* lies where fits together, the clocks run as the cave closes, and what was
\* saved is such a game too; all this until a file that stops short is read.  The
\* file holds the values of the game that was saved, in its order, as far as it
\* goes, whatever was read before.
THEOREM GamesAreSound == Spec => []IInv
<1>1. Init => IInv
  BY InitSound
<1>. QED  BY <1>1, NextSound, PTL DEF Spec

\* holding is the number of the objects that are carried, the liquid not
\* counted, until the cave closes.
THEOREM HoldingAlwaysCounts == Spec => []HoldingCounts
<1>1. IInv => HoldingCounts
  <2> SUFFICES ASSUME IInv, ~torn, ~game.closed PROVE game.holding = Cardinality(Carried)
    BY DEF HoldingCounts
  <2>1. game.holding = Held(game.place)
    BY DEF IInv, GameSound, Sound, Game, Kept
  <2>2. Carried = {i \in Object \ {WATER, OIL} : game.place[i] = -1}
    BY DEF Carried, toting
  <2>. QED  BY <2>1, <2>2, Zenon DEF Held
<1>. QED  BY <1>1, GamesAreSound, PTL

\* The liquid is carried with the bottle, and never without; the caught bird is
\* where the cage is.
THEOREM AlwaysGoTogether == Spec => []GoTogether
<1>1. IInv => GoTogether
  <2> SUFFICES ASSUME IInv, ~torn, ~game.closed
               PROVE  /\ \A i \in {WATER, OIL} : toting(game, i) => toting(game, BOTTLE) /\ liq(game) = i
                      /\ game.prop[BIRD] = 1 => game.place[BIRD] = game.place[CAGE]
    BY DEF GoTogether
  <2>. QED  BY DEF IInv, GameSound, Sound, Game, Kept, toting
<1>. QED  BY <1>1, GamesAreSound, PTL

\* Wherever a whole file is read, at the start of a process or in the middle of
\* another game, in whatever state this one is, the game is from then on the one
\* that was left when the file was written.
THEOREM RestoreIsAlwaysExact == Spec => RestoreIsExact
<1> DEFINE Exact == ReadsAll /\ (Restart \/ Load) => Alike(game', left)
<1>1. ASSUME IInv, ReadsAll, NEW g, restore(g)
      PROVE  Alike(game', left)
  <2>1. FileIsLeft /\ game' = [Restored(g) EXCEPT !.phase = "turn"]
    BY <1>1 DEF IInv, restore
  <2>. QED  BY <1>1, <2>1, RestoreIsAlike, Zenon
<1>2. ASSUME IInv, ReadsAll, Restart PROVE Alike(game', left)
  BY <1>1, <1>2 DEF Restart
<1>3. ASSUME IInv, ReadsAll, Load PROVE Alike(game', left)
  BY <1>1, <1>3 DEF Load
<1>4. IInv /\ [Next]_vars => [Exact]_vars
  BY <1>2, <1>3
<1>. QED  BY <1>4, GamesAreSound, PTL DEF Spec, RestoreIsExact

\* When the cave begins to close it does close: the time that is left falls
\* with every prompt and rises but once.
THEOREM ClosingAlwaysRunsDown == Spec => ClosingRunsDown
<1> DEFINE Runs == ~torn /\ game.closing /\ ~game'.closed /\ game'.closing
                     /\ game.phase \in {"turn", "english"} /\ file = <<>>
                   => NearerToTheEnd \/ (~game.panic /\ game'.panic)
<1>1. NearerToTheEnd <=> Nearer(game, game')
  BY DEF NearerToTheEnd, Nearer
<1>2. ASSUME IInv, NEW luck, Arrive(luck) PROVE Runs
  BY <1>1, <1>2, ArriveStep DEF Passes
<1>3. ASSUME IInv, NEW w1 \in Words, NEW w2 \in Words \cup {""}, NEW luck, NEW disk \in Disk,
             Command(w1, w2, luck, disk)
      PROVE  Runs
  BY <1>1, <1>3, CommandStep
<1>4. ASSUME IInv, EndOfInput PROVE Runs
  BY <1>1, <1>4, EndOfInputStep
<1>5. ASSUME Restart PROVE Runs
  BY <1>5 DEF Restart
<1>6. IInv /\ [Next]_vars => [Runs]_vars
  BY <1>2, <1>3, <1>4, <1>5 DEF Next
<1>. QED  BY <1>6, GamesAreSound, PTL DEF Spec, ClosingRunsDown

\* Where the player is when he is asked: in a room, and not nowhere, as he is
\* when a dwarf blocks his way while he looks around.
Somewhere == game.phase = "english" => game.loc # 0

\* And so is the bridge, while the player is somewhere when he is asked.
LEMMA NextBridge ==
  IInv /\ Somewhere /\ BridgeHeld /\ [Next]_vars => BridgeHeld'
<1> SUFFICES ASSUME IInv, Somewhere, BridgeHeld, [Next]_vars PROVE BridgeHeld'
  OBVIOUS
<1>1. ASSUME NEW luck \in Luck, Arrive(luck) PROVE BridgeHeld'
  BY <1>1, ArriveStep
<1>2. ASSUME NEW w1 \in Words, NEW w2 \in Words \cup {""}, NEW luck \in Luck, NEW disk \in Disk,
             Command(w1, w2, luck, disk)
      PROVE  BridgeHeld'
  <2>1. game.loc # 0
    BY <1>2 DEF Somewhere, Command
  <2>. QED  BY <1>2, <2>1, CommandStep
<1>3. CASE EndOfInput
  BY <1>3, EndOfInputStep
<1>4. CASE Restart
  BY <1>4, RestartStep
<1>5. CASE UNCHANGED vars
  BY <1>5 DEF vars, BridgeHeld
<1>. QED  BY <1>1, <1>2, <1>3, <1>4, <1>5 DEF Next

\* The troll holds his bridge in every game in which the player is never
\* asked for words while he is nowhere.
THEOREM TrollAlwaysHoldsBridge == Spec /\ []Somewhere => []TrollHoldsBridge
<1>1. Init => BridgeHeld
  BY InitSound
<1>2. BridgeHeld => TrollHoldsBridge
  BY DEF BridgeHeld, Bridge, TrollHoldsBridge
<1>. QED  BY <1>1, <1>2, NextBridge, GamesAreSound, PTL DEF Spec
=============================================================================
