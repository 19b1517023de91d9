----------------------------- MODULE MCAdventure -----------------------------
(***************************************************************************)
(* Instances of Adventure for TLC: scenes, each with the game it starts    *)
(* from, the sentences the player uses and the rooms he stays in.          *)
(*                                                                         *)
(* A scene starts with initplay and a script, sentences that are played    *)
(* with even luck before the player is free to choose, or where it would   *)
(* take hundreds of turns to get to: with what the player carries, where   *)
(* he is and what he has found set by hand.                                *)
(***************************************************************************)
EXTENDS Adventure

CONSTANT Scenes

VARIABLES scene, script

Even == [Calm EXCEPT !.roll = 70]

\* Sentences of one word.
Say(w) == <<w, "">>

toHouse  == <<Say("enter"), <<"take", "lamp">>, <<"take", "keys">>, <<"take", "food">>, Say("on")>>
toBridge == <<Say("plugh"), Say("s"), <<"take", "bars">>, Say("d"), Say("w"), Say("d"), Say("w"),
              Say("n"), Say("sw"), Say("above")>>

Script(s) == CASE s = "bird"   -> Append(toHouse, Say("xyzzy"))
               [] s = "bridge" -> toHouse \o toBridge
               [] OTHER        -> <<>>

\* The lamp is on.
lit_lamp == [initplay EXCEPT !.prop[LAMP] = 1]

\* A player who carries the objects of S and nothing else.
Carrying(g, S) ==
  [g EXCEPT !.place = Array([i \in Object |-> IF i \in S THEN -1 ELSE IF @[i] = -1 THEN 3 ELSE @[i]]),
            !.holding = Cardinality(S \ {WATER, OIL})]

InRoom(g, r) == [g EXCEPT !.loc = r, !.newloc = r, !.oldloc = r, !.oldloc2 = r, !.phase = "turn", !.wzdark = FALSE]

\* The treasures of S have been found.
Found(g, S) == [g EXCEPT !.prop = Array([i \in Object |-> IF i \in S THEN 0 ELSE @[i]]),
                         !.tally = 15 - Cardinality(S)]

\* The scenes.  By hand: the plant has been watered once; the snake's hall with
\* the bird caught; three dwarves are dead; all is found but the chest, or all.
pit     == [InRoom(Carrying(lit_lamp, {LAMP, BOTTLE, WATER}), 25) EXCEPT
              !.prop[PLANT] = 2, !.prop[PLANT2] = 1, !.dflag = 1]
snake   == [InRoom(Carrying(lit_lamp, {LAMP, CAGE, BIRD}), 19) EXCEPT !.prop[BIRD] = 1, !.dflag = 1]
alcove  == [InRoom(Carrying(lit_lamp, {LAMP}), 33) EXCEPT !.dflag = 1]
dragon  == [InRoom(Carrying(lit_lamp, {LAMP, FOOD}), 119) EXCEPT !.dflag = 1]
meeting == [InRoom(Carrying(lit_lamp, {LAMP}), 15) EXCEPT !.dflag = 1]
axeman  == [InRoom(Carrying(lit_lamp, {LAMP, AXE}), 15) EXCEPT
              !.dflag = 2, !.dloc = <<19, 27, 0, 0, 0, 114>>, !.odloc = <<19, 27, 0, 0, 0, 114>>]
hunted  == {[Found(InRoom(Carrying(lit_lamp, {LAMP, NUGGET}), 15), S) EXCEPT
               !.dflag = 3, !.dloc = <<0, 0, 0, 0, 0, 114>>] : S \in {{NUGGET}, Treasure \ {CHEST}}}
closing == [Found(InRoom(Carrying(lit_lamp, {LAMP, KEYS}), 33), Treasure) EXCEPT
              !.dflag = 3, !.clock1 = 3, !.dloc = <<0, 0, 0, 0, 0, 114>>]
asleep  == [closing EXCEPT !.closing = TRUE, !.clock1 = -1, !.clock2 = 1]
dimming == {[Found(InRoom(Carrying(lit_lamp, {LAMP, COINS}), r), {COINS}) EXCEPT !.limit = 32]
              : r \in {11, 112}}
boulders == [InRoom(Carrying(lit_lamp, {LAMP}), 125) EXCEPT !.dflag = 1]

Scene ==
  [bird    |-> [start |-> {initplay}, rooms |-> {10, 11, 12, 13}, comers |-> {}, rolls |-> {99}, answers |-> {FALSE},
                said  |-> {<<"take", "cage">>, <<"drop", "cage">>, <<"take", "bird">>, <<"drop", "bird">>,
                           <<"kill", "bird">>, Say("take"), <<"drop", "rod">>, Say("e"), Say("w")}],
   snake   |-> [start |-> {snake}, rooms |-> {15, 19, 28, 29}, comers |-> {}, rolls |-> {0, 99}, answers |-> {FALSE},
                said  |-> {<<"drop", "bird">>, <<"take", "bird">>, <<"drop", "cage">>, <<"feed", "snake">>,
                           <<"kill", "snake">>, Say("kill"), Say("s"), Say("n"), Say("above"), Say("back")}],
   bridge  |-> [start |-> {initplay}, rooms |-> {3, 117, 122, 123, 124, 129, 130}, comers |-> {}, rolls |-> {99}, answers |-> {TRUE},
                said  |-> {<<"throw", "bars">>, Say("over"), Say("barren"), Say("w"), Say("fork"), Say("e"),
                           <<"feed", "bear">>, <<"open", "chain">>, <<"take", "bear">>,
                           <<"drop", "bear">>, <<"take", "chain">>, <<"throw", "chain">>}],
   pit     |-> [start |-> {pit}, rooms |-> {23, 25, 26, 24, 67, 88, 92, 94, 95}, comers |-> {}, rolls |-> {99}, answers |-> {FALSE},
                said  |-> {<<"take", "water">>, <<"pour", "water">>, <<"drop", "bottle">>, <<"take", "bottle">>,
                           <<"take", "oil">>, <<"pour", "oil">>, Say("climb"), Say("d"), Say("above"), Say("e"), Say("w"),
                           Say("n"), Say("s")}],
   alcove  |-> [start |-> {alcove}, rooms |-> {33, 99, 100, 101}, comers |-> {}, rolls |-> {0, 99}, answers |-> {FALSE},
                said  |-> {Say("plover"), Say("e"), Say("w"), Say("ne"), <<"take", "emerald">>, <<"drop", "emerald">>,
                           <<"drop", "lamp">>, <<"take", "lamp">>, Say("take"), <<"take", "pyramid">>}],
   dragon  |-> [start |-> {dragon}, rooms |-> {119, 120, 121, 69, 74}, comers |-> {}, rolls |-> {99}, answers |-> BOOLEAN,
                said  |-> {Say("kill"), <<"take", "rug">>, <<"drop", "rug">>, <<"drop", "food">>, Say("n"), Say("s"),
                           Say("e"), Say("look")}],
   meeting |-> [start |-> {meeting}, rooms |-> {15, 18}, comers |-> {1}, rolls |-> {0, 99}, answers |-> {FALSE},
                said  |-> {Say("s"), Say("n"), <<"throw", "axe">>, Say("look")}],
   axeman  |-> [start |-> {axeman}, rooms |-> {15, 18}, comers |-> {1, 2}, rolls |-> {0, 99}, answers |-> {FALSE},
                said  |-> {Say("s"), Say("n"), <<"throw", "axe">>, Say("take")}],
   saved   |-> [start |-> {axeman}, rooms |-> {15}, comers |-> {1}, rolls |-> {99}, answers |-> {FALSE},
                said  |-> {<<"drop", "axe">>, <<"log", "axe">>, Say("save"), Say("load")}],
   hunted  |-> [start |-> hunted, rooms |-> {15, 18}, comers |-> {Pirate}, rolls |-> {0, 99}, answers |-> BOOLEAN,
                said  |-> {Say("s"), Say("n"), <<"drop", "gold">>, <<"take", "gold">>, Say("off"), Say("on")}],
   closing |-> [start |-> {closing}, rooms |-> {3, 28, 33}, comers |-> {}, rolls |-> {99}, answers |-> {FALSE},
                said  |-> {Say("s"), Say("n"), Say("plugh")}],
   asleep  |-> [start |-> {asleep}, rooms |-> {115, 116}, comers |-> {}, rolls |-> {99}, answers |-> {FALSE},
                said  |-> {<<"take", "rod">>, <<"drop", "rod">>, <<"take", "bird">>, <<"drop", "bird">>,
                           Say("blast"), <<"break", "mirror">>, <<"wake", "dwarf">>, Say("ne"), Say("sw"),
                           <<"take", "oyster">>}],
   dimming |-> [start |-> dimming, rooms |-> {3, 11, 112, 140}, comers |-> {}, rolls |-> {0, 99}, answers |-> BOOLEAN,
                said  |-> {Say("xyzzy"), Say("n"), <<"drop", "coins">>, Say("s"), Say("off"), Say("on")}],
   boulders |-> [start |-> {boulders}, rooms |-> {124, 125, 126, 127}, comers |-> {}, rolls |-> {99}, answers |-> {FALSE},
                said  |-> {Say("e"), Say("w"), Say("n"), Say("ne"), Say("fork"), Say("back")}]]

\* A room the dwarves turn to far away from the player.
Far(g, i) == CHOOSE r \in 118 .. 120 : r \notin {g.odloc[i], g.dloc[i]}

\* Whom a random walk may bring to the player in this turn: nobody, or one.
Comers(g) ==
  {{}} \cup {{i} : i \in {j \in 1 .. DWARFMAX - 1 :
               /\ j \in Scene[scene].comers /\ g.dflag >= 2 /\ g.newloc \in 15 .. 120
               /\ g.dloc[j] # 0 /\ g.newloc \notin {g.odloc[j], g.dloc[j]}}}

\* What may be chosen in a state of a scene.
Lucks(g) ==
  {[Calm EXCEPT !.answer = a, !.roll = r, !.meet = m, !.kills = k, !.stick = h, !.worn = w,
                !.rooms = [i \in DOMAIN @ |-> IF i \in c THEN g.newloc ELSE Far(g, i)]] :
     a \in Scene[scene].answers, r \in Scene[scene].rolls, c \in Comers(g),
     m \in IF g.dflag = 1 THEN {FALSE, scene = "meeting"} ELSE {FALSE},
     k \in IF g.dflag = 1 /\ scene = "meeting" THEN {{}, {2, 3}} ELSE {{}},
     h \in IF g.dflag > 2 THEN 0 .. 1 ELSE {0},
     w \in {FALSE, scene = "dimming"}}

\* What becomes of a save: it is whole or the disk is full, before the first
\* value, in a table, between tables and their counter, or before the last.
Disks(s) ==
  IF s[1] # "save" THEN {Undamaged}
  ELSE {Undamaged, <<>>, <<0, 0>>, <<5, AXE>>, <<7, Size("prop")>>, <<Len(Writes) - 1, 1>>}

MCInit == /\ scene \in Scenes
          /\ script = Script(scene)
          /\ game \in Scene[scene].start
          /\ file = <<>> /\ left = initplay /\ torn = FALSE

\* The script, a sentence at a time.
Rehearse ==
  /\ script # <<>>
  /\ \/ Arrive(Even) /\ UNCHANGED script
     \/ Command(Head(script)[1], Head(script)[2], Even, Undamaged) /\ script' = Tail(script)

Perform ==
  /\ script = <<>>
  /\ UNCHANGED script
  /\ \/ \E luck \in Lucks(game) : Arrive(luck)
     \/ \E s \in Scene[scene].said, luck \in Lucks(game) :
          /\ \E disk \in Disks(s) : Command(s[1], s[2], luck, disk)
          /\ game'.newloc \in Scene[scene].rooms \cup {game.newloc}
     \/ scene = "saved" /\ EndOfInput
     \/ Restart

\* In a torn game, the counter may fall by one with every file that is read.
LeastHolding == -1

MCNext == /\ UNCHANGED scene
          /\ Rehearse \/ Perform
          /\ torn' => game'.holding >= LeastHolding

MCSpec == MCInit /\ [][MCNext]_<<scene, script, vars>>
=============================================================================
