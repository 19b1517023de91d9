------------------------------ MODULE Adventure ------------------------------
(***************************************************************************)
(* The program adventure (main, initplay, saveadv and restore of           *)
(* app/adventure/adventure.c): a process that takes turns until the player *)
(* saves the game, the game is over or the input ends, and the file that   *)
(* is left for the next process.                                           *)
(*                                                                         *)
(* A turn is two steps, because the program waits for the player in the    *)
(* middle of it: Arrive runs from the start of turn() to the prompt,       *)
(* Command is the rest of turn() for one sentence.  What blimp_rand and    *)
(* the player's yes or no will be is chosen first, as luck.                *)
(***************************************************************************)
EXTENDS AdvTurn

VARIABLES
  game,     \* the variables of the process
  file,     \* what is on disk: for each fwrite, the values that got there
  left,     \* the game that was written to it
  torn      \* whether a game was ever read from a file that stops short

vars == <<game, file, left, torn>>

\* The values luck can take.  wild is a motion word, rooms are those the
\* dwarves and the pirate turn to.
Luck == [answer : BOOLEAN, roll : 0 .. 99, wild : 2 .. 78, meet : BOOLEAN,
         kills : {K \in SUBSET Dwarf : Cardinality(K) <= 2},
         rooms : [1 .. DWARFMAX - 1 -> 15 .. 120], stick : 0 .. 5, worn : BOOLEAN]

Calm == [answer |-> FALSE, roll |-> 99, wild |-> NULLX, meet |-> FALSE, kills |-> {},
         rooms |-> [i \in 1 .. DWARFMAX - 1 |-> 119 + (i % 2)], stick |-> 0, worn |-> FALSE]

\* Initialization of adventure play variables.  prop and the rest of a treasure
\* are unknown until it is found.
initplay ==
  [loc |-> 3, newloc |-> 1, oldloc |-> 3, oldloc2 |-> 3,
   place |-> initPlace, fixed |-> initFixed,
   prop |-> Array([i \in Object |-> IF i >= 50 THEN -1 ELSE 0]),
   tally |-> 15, tally2 |-> 0, limit |-> LimitCap, wzdark |-> FALSE,
   closing |-> FALSE, closed |-> FALSE, holding |-> 0, knfloc |-> 0,
   clock1 |-> 30, clock2 |-> 50, panic |-> FALSE,
   dloc |-> <<19, 27, 33, 44, 64, 114>>, odloc |-> <<0, 0, 0, 0, 0, 0>>,
   dseen |-> Array([i \in 1 .. DWARFMAX - 1 |-> FALSE]), dflag |-> 0,
   bonus |-> 0, numdie |-> 0, foobar |-> 0, gaveup |-> FALSE,
   verb |-> 0, object |-> 0, motion |-> 0, word1 |-> "",
   phase |-> "turn", fatal |-> 0, luck |-> Calm]

\* The tables of initplay: nothing is carried, and the troll shows himself at
\* both ends of his bridge.
ASSUME PlacesAssumption ==
  /\ initPlace \in [Object -> Nat] /\ initFixed \in [Object -> Int]
  /\ <<initPlace[TROLL], initFixed[TROLL]>> = <<117, 122>>
  /\ <<initPlace[TROLL2], initFixed[TROLL2]>> = <<0, 0>>

\* The vocabulary: a word that names an object has the number of one.
ASSUME WordsAssumption ==
  \A w \in Words : analyze(w).type = 1 => analyze(w).value \in Object

----------------------------------------------------------------------------
(* The file.  It is written and read one variable after the other; turns,  *)
(* cond, visited and the others no step depends on are left out of it.     *)

Tables == {"place", "fixed", "prop"}
Arrays == Tables \cup {"dloc", "dseen", "odloc"}

\* How many values a variable has.
Size(f) == IF f \in Tables THEN Cardinality(Object) ELSE IF f \in Arrays THEN DWARFMAX - 1 ELSE 1

element(g, f, j) == IF f \in Arrays THEN g[f][j] ELSE g[f]

\* The calls of fwrite in saveadv.
Writes ==
  <<"loc", "oldloc", "oldloc2", "newloc", "place", "fixed", "prop", "tally", "tally2", "limit",
    "wzdark", "closing", "closed", "holding", "knfloc", "clock1", "clock2", "panic", "dloc",
    "dflag", "dseen", "odloc", "bonus", "numdie", "gaveup", "foobar">>

\* Mutant: two variables are read in the other order.
Reads_Swapped ==
  <<"loc", "oldloc", "oldloc2", "newloc", "place", "fixed", "prop", "tally", "tally2", "limit",
    "wzdark", "closing", "closed", "holding", "knfloc", "clock2", "clock1", "panic", "dloc",
    "dflag", "dseen", "odloc", "bonus", "numdie", "gaveup", "foobar">>

\* The calls of fread in restore.
Reads ==
  <<"loc", "oldloc", "oldloc2", "newloc", "place", "fixed", "prop", "tally", "tally2", "limit",
    "wzdark", "closing", "closed", "holding", "knfloc", "clock1", "clock2", "panic", "dloc",
    "dflag", "dseen", "odloc", "bonus", "numdie", "gaveup", "foobar">>

\* What becomes of a save: the file cannot be opened, or so many of the calls
\* get to the disk, the last of them with so many of its values.
Disk == {<<>>, <<0, 0>>} \cup UNION {{n} \X (1 .. Size(Writes[n])) : n \in DOMAIN Writes}

Undamaged == <<Len(Writes), Size(Writes[Len(Writes)])>>

\* What saveadv leaves on disk.
Saved(g, disk) ==
  [i \in 1 .. disk[1] |->
    [j \in 1 .. (IF i = disk[1] THEN disk[2] ELSE Size(Writes[i])) |-> element(g, Writes[i], j)]]

\* Nobody looks at what fopen, fwrite and fclose return: without a file fwrite
\* gets a null pointer and the process dies, and a file that is cut short counts
\* as saved.
saveadv(g, disk) ==
  IF disk = <<>>
    THEN game' = [g EXCEPT !.phase = "over"] /\ UNCHANGED <<file, left, torn>>
    ELSE game' = g /\ file' = Saved(g, disk) /\ left' = g /\ UNCHANGED torn

\* What the file has for a variable.
Stored(f) ==
  LET calls == {i \in DOMAIN Reads \cap DOMAIN file : Reads[i] = f}
  IN  IF calls = {} THEN <<>> ELSE file[CHOOSE i \in calls : TRUE]

\* Every fread finds all it asks for.
ReadsAll == \A i \in DOMAIN Reads : i \in DOMAIN file /\ Len(file[i]) = Size(Reads[i])

\* The variables after the calls of fread: as far as the file goes.
Restored(g) ==
  LET value(f, j) == IF j \in DOMAIN Stored(f) THEN Stored(f)[j] ELSE element(g, f, j)
  IN  [f \in DOMAIN initplay |-> IF \A i \in DOMAIN Reads : Reads[i] # f THEN g[f]
                                 ELSE IF f \in Arrays THEN Array([j \in 1 .. Size(f) |-> value(f, j)])
                                 ELSE value(f, 1)]

\* restore reads straight into the variables, and goes on with what it got when
\* the file is too short.
restore(g) ==
  /\ game' = [Restored(g) EXCEPT !.phase = "turn"]
  /\ torn' = (torn \/ (file # <<>> /\ ~ReadsAll))
  /\ UNCHANGED <<file, left>>

Init == game = initplay /\ file = <<>> /\ left = initplay /\ torn = FALSE

----------------------------------------------------------------------------
\* From the start of a turn to the prompt, or to an early return.
Arrive(luck) ==
  /\ game.phase = "turn"
  /\ game' = [turn([game EXCEPT !.luck = luck]) EXCEPT !.luck = Calm]
  /\ UNCHANGED <<file, left, torn>>

\* What a sentence makes of the game.
Heard(w1, w2, luck) ==
  [obey([game EXCEPT !.luck = luck], english(w1, w2), w1) EXCEPT !.luck = Calm]

\* One sentence of the player.  English asks again for one it does not accept.
\* The process ends with saveadv when the sentence suspends it.
Command(w1, w2, luck, disk) ==
  /\ game.phase = "english"
  /\ english(w1, w2).ok
  /\ \E g \in {Heard(w1, w2, luck)} :
       \/ g.phase = "load" /\ restore(g)
       \/ g.phase = "saved" /\ saveadv(g, disk)
       \/ g.phase \notin {"load", "saved"} /\ game' = g /\ UNCHANGED <<file, left, torn>>

\* getwords finds the end of the input.
EndOfInput ==
  /\ game.phase = "english"
  /\ game' = [game EXCEPT !.phase = "over"]
  /\ UNCHANGED <<file, left, torn>>

\* The next process, started to restore a game.
Restart ==
  /\ game.phase \in {"saved", "over"}
  /\ restore(initplay)

Next == \/ \E luck \in Luck : Arrive(luck)
        \/ \E w1 \in Words, w2 \in Words \cup {""}, luck \in Luck, disk \in Disk : Command(w1, w2, luck, disk)
        \/ EndOfInput
        \/ Restart

Spec == Init /\ [][Next]_vars

----------------------------------------------------------------------------
(* Of a game that was read from a file that stops short (torn) little is   *)
(* said: some of its variables are of one game and some of another, so     *)
(* that the counter, for one, is not that of the objects carried.          *)

\* holding, the counter that carry and drop keep and the limit of seven and the
\* plover alcove rely on, is the number of objects that are carried, the liquid
\* in the bottle not counted, until the cave closes.
Carried == {i \in Object \ {WATER, OIL} : toting(game, i)}
HoldingCounts == ~torn /\ ~game.closed => game.holding = Cardinality(Carried)

\* What is one thing for the player stays together: the liquid is carried with
\* the bottle that holds it, and never without; the bird that was caught is
\* where the cage is, or was set free or lost.
GoTogether ==
  ~torn /\ ~game.closed =>
    /\ \A i \in {WATER, OIL} : toting(game, i) => toting(game, BOTTLE) /\ liq(game) = i
    /\ game.prop[BIRD] = 1 => game.place[BIRD] = game.place[CAGE]

\* The bridge is held by the troll or by nobody: each of its two ends shows the
\* troll, or each shows the troll gone, and once the bear fell with the bridge
\* he is gone for good.  (A player in room 0, which a dwarf who blocks his way
\* after LOOK leaves him in, can break this by TAKE: what is nowhere lies there,
\* and so does the end that is not shown.)
TrollHoldsBridge ==
  LET ends(i) == <<game.place[i], game.fixed[i]>>
  IN  ~torn =>
      /\ \/ ends(TROLL) = <<117, 122>> /\ ends(TROLL2) = <<0, 0>>
         \/ ends(TROLL) = <<0, 0>> /\ ends(TROLL2) = <<117, 122>>
      /\ game.prop[CHASM] = 1 => game.prop[TROLL] = 2

\* The program ends with a fatal error only where it reads the travel table of a
\* room that has none (in the room of the vending machine, whose number the
\* check of gettrav leaves out, after a LOOK when the player could not move on,
\* as his room is 0 then, and in the walk of BACK), and in actspk, which has no
\* message for LOG said of an object.  No object is ever in a state
\* it has no text for.
FatalHasKnownCause ==
  game.fatal # 0 =>
    \/ game.fatal = 42 /\ (game.loc \in {0, 140} \/ game.motion = BACK)
    \/ game.fatal = 39

\* Dying costs the player points, whatever falls from his hands and wherever it
\* falls: he is never better off for a death.
DyingNeverPays ==
  [][~torn /\ file = <<>> /\ game'.numdie > game.numdie => score(game') < score(game)]_vars

\* Variables that are of one sentence only, and where the process stands.
Passing == {"verb", "object", "motion", "word1", "phase", "fatal", "luck"}

Alike(g, h) ==
  \A f \in DOMAIN initplay \ Passing : \A j \in 1 .. Size(f) : element(g, f, j) = element(h, f, j)

\* Wherever a whole file is read, by the next process or in the middle of
\* another game, the game goes on as it was left when the file was written, in
\* every variable that a later turn depends on; whatever became of other attempts
\* to save in between.
Load == game.phase = "english" /\ \E g \in {Heard("load", "", Calm)} : restore(g)
RestoreIsExact == [][ReadsAll /\ (Restart \/ Load) => Alike(game', left)]_vars

\* A step of a game whose cave is closing leaves less time, and none more.
NearerToTheEnd ==
  /\ game'.panic = game.panic
  /\ game'.clock2 <= game.clock2
  /\ game.phase = "turn" /\ game'.phase = "english" => game'.clock2 < game.clock2

\* When the cave begins to close it does close: the time left falls with every
\* prompt and never rises, but once, when the player is first seen to try to
\* get out.  So at most 50 + 15 sentences are left to him.
ClosingRunsDown ==
  [][~torn /\ game.closing /\ ~game'.closed /\ game'.closing /\ game.phase \in {"turn", "english"}
       /\ file = <<>> => NearerToTheEnd \/ (~game.panic /\ game'.panic)]_vars
=============================================================================
