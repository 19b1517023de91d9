------------------------------ MODULE AdvVocab ------------------------------
(***************************************************************************)
(* The vocabulary of Colossal Cave (app/adventure/advword.h) and the       *)
(* routines that look a word up in it (database.c, english.c).  A code is  *)
(* 1000 * type + value: type 0 is a motion, 1 an object, 2 a verb and 3 a  *)
(* word that is only answered.                                             *)
(*                                                                         *)
(* strcmp is abstracted to the order of the table: a word is compared by   *)
(* its rank.  Only the first entry is out of order, it sorts behind        *)
(* "spelunker".                                                            *)
(***************************************************************************)
EXTENDS Integers, Sequences

MAXWC == 306

\* The table, in the order of the source; index m of the code is m + 1 here.
wc == <<
  <<"spelunker today", 1016>>, <<"?", 3051>>, <<"above", 29>>, <<"abra", 3050>>,
  <<"abracadabra", 3050>>, <<"across", 42>>, <<"ascend", 29>>, <<"attack", 2012>>,
  <<"awkward", 26>>, <<"axe", 1028>>, <<"back", 8>>, <<"barren", 40>>, <<"bars", 1052>>,
  <<"batteries", 1039>>, <<"battery", 1039>>, <<"beans", 1024>>, <<"bear", 1035>>, <<"bed", 16>>,
  <<"bedquilt", 70>>, <<"bird", 1008>>, <<"blast", 2023>>, <<"blowup", 2023>>, <<"bottle", 1020>>,
  <<"box", 1055>>, <<"break", 2028>>, <<"brief", 2026>>, <<"broken", 54>>, <<"building", 12>>,
  <<"cage", 1004>>, <<"calm", 2010>>, <<"canyon", 25>>, <<"capture", 2001>>, <<"carpet", 1040>>,
  <<"carry", 2001>>, <<"catch", 2001>>, <<"cave", 67>>, <<"cavern", 73>>, <<"chain", 1064>>,
  <<"chant", 2003>>, <<"chasm", 1032>>, <<"chest", 1055>>, <<"clam", 1014>>, <<"climb", 56>>,
  <<"close", 2006>>, <<"cobblestone", 18>>, <<"coins", 1054>>, <<"continue", 2011>>,
  <<"crack", 33>>, <<"crap", 3079>>, <<"crawl", 17>>, <<"cross", 69>>, <<"d", 30>>,
  <<"damn", 3079>>, <<"damnit", 3079>>, <<"dark", 22>>, <<"debris", 51>>, <<"depression", 63>>,
  <<"descend", 30>>, <<"describe", 57>>, <<"detonate", 2023>>, <<"devour", 2014>>,
  <<"diamonds", 1051>>, <<"dig", 3066>>, <<"discard", 2002>>, <<"disturb", 2029>>, <<"dome", 35>>,
  <<"door", 1009>>, <<"down", 30>>, <<"downstream", 4>>, <<"downward", 30>>, <<"dragon", 1031>>,
  <<"drawing", 1029>>, <<"drink", 2015>>, <<"drop", 2002>>, <<"dump", 2002>>, <<"dwarf", 1017>>,
  <<"dwarves", 1017>>, <<"e", 43>>, <<"east", 43>>, <<"eat", 2014>>, <<"egg", 1056>>,
  <<"eggs", 1056>>, <<"emerald", 1059>>, <<"enter", 3>>, <<"entrance", 64>>, <<"examine", 57>>,
  <<"excavate", 3066>>, <<"exit", 11>>, <<"explore", 2011>>, <<"extinguish", 2008>>,
  <<"fee", 2025>>, <<"fee", 3001>>, <<"feed", 2021>>, <<"fie", 2025>>, <<"fie", 3002>>,
  <<"fight", 2012>>, <<"figure", 1027>>, <<"fill", 2022>>, <<"find", 2019>>, <<"fissure", 1012>>,
  <<"floor", 58>>, <<"foe", 2025>>, <<"foe", 3003>>, <<"follow", 2011>>, <<"foo", 2025>>,
  <<"foo", 3004>>, <<"food", 1019>>, <<"forest", 6>>, <<"fork", 77>>, <<"forward", 7>>,
  <<"free", 2002>>, <<"fuck", 3079>>, <<"fum", 2025>>, <<"fum", 3005>>, <<"get", 2001>>,
  <<"geyser", 1037>>, <<"giant", 27>>, <<"go", 2011>>, <<"gold", 1050>>, <<"goto", 2011>>,
  <<"grate", 1003>>, <<"gully", 13>>, <<"h2o", 1021>>, <<"hall", 38>>, <<"headlamp", 1002>>,
  <<"help", 3051>>, <<"hill", 2>>, <<"hit", 2012>>, <<"hocus", 3050>>, <<"hole", 52>>,
  <<"hours", 2031>>, <<"house", 12>>, <<"i", 2020>>, <<"ignite", 2023>>, <<"in", 19>>,
  <<"info", 3142>>, <<"information", 3142>>, <<"inside", 19>>, <<"inventory", 2020>>,
  <<"inward", 19>>, <<"issue", 1016>>, <<"jar", 1020>>, <<"jewel", 1053>>, <<"jewelry", 1053>>,
  <<"jewels", 1053>>, <<"jump", 39>>, <<"keep", 2001>>, <<"key", 1001>>, <<"keys", 1001>>,
  <<"kill", 2012>>, <<"knife", 1018>>, <<"knives", 1018>>, <<"l", 57>>, <<"lamp", 1002>>,
  <<"lantern", 1002>>, <<"leave", 11>>, <<"left", 36>>, <<"light", 2007>>, <<"lite", 2007>>,
  <<"load", 2033>>, <<"lock", 2006>>, <<"log", 2032>>, <<"look", 57>>, <<"lost", 3068>>,
  <<"low", 24>>, <<"machine", 1038>>, <<"magazine", 1016>>, <<"main", 76>>, <<"message", 1036>>,
  <<"ming", 1058>>, <<"mirror", 1023>>, <<"mist", 3069>>, <<"moss", 1040>>, <<"mumble", 2003>>,
  <<"n", 45>>, <<"ne", 47>>, <<"nest", 1056>>, <<"north", 45>>, <<"nothing", 2005>>,
  <<"nowhere", 21>>, <<"nugget", 1050>>, <<"null", 21>>, <<"nw", 50>>, <<"off", 2008>>,
  <<"office", 76>>, <<"oil", 1022>>, <<"on", 2007>>, <<"onward", 7>>, <<"open", 2004>>,
  <<"opensesame", 3050>>, <<"oriental", 72>>, <<"out", 11>>, <<"outdoors", 32>>, <<"outside", 11>>,
  <<"over", 41>>, <<"oyster", 1015>>, <<"passage", 23>>, <<"pause", 2030>>, <<"pearl", 1061>>,
  <<"persian", 1062>>, <<"peruse", 2027>>, <<"pillow", 1010>>, <<"pirate", 1030>>, <<"pit", 31>>,
  <<"placate", 2010>>, <<"plant", 1024>>, <<"plant", 1025>>, <<"platinum", 1060>>,
  <<"plover", 71>>, <<"plugh", 65>>, <<"pocus", 3050>>, <<"pottery", 1058>>, <<"pour", 2013>>,
  <<"proceed", 2011>>, <<"pyramid", 1060>>, <<"quit", 2018>>, <<"rations", 1019>>,
  <<"read", 2027>>, <<"release", 2002>>, <<"reservoir", 75>>, <<"restore", 2033>>,
  <<"retreat", 8>>, <<"return", 8>>, <<"right", 37>>, <<"road", 2>>, <<"rock", 15>>,
  <<"rod", 1005>>, <<"rod", 1006>>, <<"room", 59>>, <<"rub", 2016>>, <<"rug", 1062>>,
  <<"run", 2011>>, <<"s", 46>>, <<"save", 2030>>, <<"say", 2003>>, <<"score", 2024>>, <<"se", 48>>,
  <<"secret", 66>>, <<"sesame", 3050>>, <<"shadow", 1027>>, <<"shake", 2009>>, <<"shard", 1058>>,
  <<"shatter", 2028>>, <<"shazam", 3050>>, <<"shell", 74>>, <<"shit", 3079>>, <<"silver", 1052>>,
  <<"sing", 2003>>, <<"slab", 61>>, <<"slit", 60>>, <<"smash", 2028>>, <<"snake", 1011>>,
  <<"south", 46>>, <<"spelunker", 1016>>, <<"spice", 1063>>, <<"spices", 1063>>, <<"stairs", 10>>,
  <<"stalactite", 1026>>, <<"steal", 2001>>, <<"steps", 1007>>, <<"steps", 34>>, <<"stop", 3139>>,
  <<"stream", 14>>, <<"strike", 2012>>, <<"surface", 20>>, <<"suspend", 2030>>, <<"sw", 49>>,
  <<"swim", 3147>>, <<"swing", 2009>>, <<"tablet", 1013>>, <<"take", 2001>>, <<"tame", 2010>>,
  <<"throw", 2017>>, <<"toss", 2017>>, <<"tote", 2001>>, <<"touch", 57>>, <<"travel", 2011>>,
  <<"treasure", 1055>>, <<"tree", 3064>>, <<"trees", 3064>>, <<"trident", 1057>>,
  <<"troll", 1033>>, <<"troll", 1034>>, <<"tunnel", 23>>, <<"turn", 2011>>, <<"u", 29>>,
  <<"unlock", 2004>>, <<"up", 29>>, <<"upstream", 4>>, <<"upward", 29>>, <<"utter", 2003>>,
  <<"valley", 9>>, <<"vase", 1058>>, <<"velvet", 1010>>, <<"vending", 1038>>, <<"view", 28>>,
  <<"volcano", 1037>>, <<"w", 44>>, <<"wake", 2029>>, <<"walk", 2011>>, <<"wall", 53>>,
  <<"water", 1021>>, <<"wave", 2009>>, <<"west", 44>>, <<"xyzzy", 62>>, <<"y2", 55>>
  >>

WordsOf(table) == {table[i][1] : i \in 1 .. MAXWC}
Words == WordsOf(wc)

\* The place of a word in an order in which the table is sorted.
RankIn(table) ==
  LET position == [w \in WordsOf(table) |-> CHOOSE i \in 1 .. MAXWC :
                                               /\ table[i][1] = w
                                               /\ \A j \in 1 .. i - 1 : table[j][1] # w]
  IN  [w \in DOMAIN position |-> IF w = table[1][1] THEN 2 * position["spelunker"] + 1
                                                   ELSE 2 * position[w]]
Rank == RankIn(wc)

\* Binary search in the first maxwc entries: an index of the word, or -1.
binary(w, wctable, rank, maxwc) ==
  LET search[lo \in 0 .. maxwc, hi \in -1 .. maxwc - 1] ==
        IF lo > hi THEN -1
        ELSE LET mid   == (lo + hi) \div 2
                 check == rank[w] - rank[wctable[mid + 1][1]]
             IN  IF check < 0 THEN search[lo, mid - 1]
                 ELSE IF check > 0 THEN search[mid + 1, hi]
                 ELSE mid
  IN  search[0, maxwc - 1]

\* Of the two entries of a word the smaller code if val is 0, else the first
\* code that is at least val, without its type.
pickCode(c1, c2, val) ==
  IF val = 0 THEN IF c1 < c2 THEN c1 ELSE c2
  ELSE IF val <= c1 THEN c1 % 1000
  ELSE IF val <= c2 THEN c2 % 1000
  ELSE -1

\* The code of a word, or -1: a word that is not in the table, or that is not
\* found, has none.
vocabIn(table, rank, w, val) ==
  LET v1 == binary(w, table, rank, MAXWC)
      v2 == binary(w, table, rank, MAXWC - 1)
  IN  IF w \notin DOMAIN rank \/ v1 < 0 THEN -1
      ELSE pickCode(table[v1 + 1][2], table[(IF v2 < 0 THEN v1 ELSE v2) + 1][2], val)
vocab(w, val) == vocabIn(wc, Rank, w, val)

\* analyze: the type and the value of a word; one that is not known has type -1.
Code == [w \in Words |-> vocab(w, 0)]
Meaning(code) ==
  IF code = -1 THEN [type |-> -1, value |-> -1, known |-> FALSE]
  ELSE [type |-> code \div 1000, value |-> code % 1000, known |-> TRUE]
analyze(w) == Meaning(IF w \in Words THEN Code[w] ELSE -1)

SAY == 3

Sentence(v, o, m) == [ok |-> TRUE, verb |-> v, object |-> o, motion |-> m]
NoSentence        == [ok |-> FALSE, verb |-> 0, object |-> 0, motion |-> 0]

\* What two analyzed words say together; most pairs are answered with a text.
Grammar(a1, a2) ==
  IF a1.type = 2 /\ a1.value = SAY THEN Sentence(SAY, 1, 0)
  ELSE IF \/ ~a1.known \/ ~a2.known
          \/ 3 \in {a1.type, a2.type}
          \/ a1.type = a2.type THEN NoSentence
  ELSE IF a1.type = 0 THEN Sentence(0, 0, a1.value)
  ELSE IF a2.type = 0 THEN Sentence(0, 0, a2.value)
  ELSE IF a1.type = 1 THEN Sentence(IF a2.type = 2 THEN a2.value ELSE 0, a1.value, 0)
  ELSE Sentence(a1.value, IF a2.type = 1 THEN a2.value ELSE 0, 0)

\* english: a sentence of one or two words becomes a motion, an object, a verb,
\* or a verb and an object; everything else is asked for again.  w2 is "" when
\* there is no second word.
english(w1, w2) ==
  Grammar(analyze(w1), IF w2 = "" THEN [type |-> -1, value |-> -1, known |-> TRUE] ELSE analyze(w2))
=============================================================================
