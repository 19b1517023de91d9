------------------------- MODULE RenameTable_proofs -------------------------
(***************************************************************************)
(* No physical register is lost or used twice, for every number of         *)
(* registers and every depth of the back end.                              *)
(*                                                                         *)
(* IInv is inductive as it stands.  An edge may allocate, complete and     *)
(* commit at once; the lemmas below reduce all of these to the four        *)
(* numbers of PartitionEffect (how many instructions retire, which         *)
(* register is taken for which architectural one, how many are issued),    *)
(* and PartitionStep is the argument about sets of registers.              *)
(***************************************************************************)
EXTENDS RenameTable, SequenceTheorems, WellFoundedInduction, TLAPS

IInv == TypeOK /\ Partition

USE DEF Areg, Preg, RenamedAreg, RenamedPreg

\* After reset x1, x2 ... hold the first physical registers, and the others
\* are free.
LEMMA InitIInv == Init => IInv
<1> SUFFICES ASSUME Init PROVE IInv
  OBVIOUS
<1>1. TypeOK
  BY NumAregsAssumption, NumPregsAssumption DEF Init, TypeOK, Issued
<1>2. Partition
  <2>1. TableInjective /\ PpregInjective /\ MappedNotRetiring
    BY DEF Init, TableInjective, PpregInjective, MappedNotRetiring, Live
  <2>2. FreeIsTheRest
    <3> SUFFICES ASSUME Init, NEW p \in RenamedPreg
                 PROVE  free_list[p] <=> \A i \in RenamedAreg : rename_table[i].preg # p
      BY DEF FreeIsTheRest, Live, Init
    <3>1. free_list[p] <=> p >= NumAregs
      BY DEF Init
    <3>2. \A i \in RenamedAreg : rename_table[i].preg = i
      BY DEF Init
    <3>3. CASE p >= NumAregs
      BY <3>1, <3>2, <3>3, NumAregsAssumption, NumPregsAssumption
    <3>4. CASE ~(p >= NumAregs)
      <4>1. p \in RenamedAreg
        BY <3>4, NumAregsAssumption, NumPregsAssumption
      <4>2. ~free_list[p]
        BY <3>1, <3>4
      <4>. QED  BY <4>1, <4>2, <3>2
    <3>. QED  BY <3>3, <3>4
  <2>. QED  BY <2>1, <2>2 DEF Partition
<1>. QED  BY <1>1, <1>2 DEF IInv

\* What a cycle leaves of the instructions in flight: the same registers,
\* shifted by one place when the oldest commits.
LEMMA RetiredKeeps ==
  ASSUME TypeOK, NEW k \in 0 .. MaxIssued, NEW c \in {0, 1},
         MayComplete(k), MayCommit(c)
  PROVE  /\ Retired(k, c) \in Seq(Issued)
         /\ Len(Retired(k, c)) = Len(inflight) - c
         /\ \A j \in 1 .. Len(inflight) - c :
              /\ j + c \in Live
              /\ Retired(k, c)[j].areg  = inflight[j + c].areg
              /\ Retired(k, c)[j].preg  = inflight[j + c].preg
              /\ Retired(k, c)[j].ppreg = inflight[j + c].ppreg
              /\ Retired(k, c)[j].done <=> inflight[j + c].done \/ j + c = k
<1>1. /\ Completed(k) \in Seq(Issued)
      /\ Len(Completed(k)) = Len(inflight)
      /\ \A j \in Live : /\ Completed(k)[j].areg  = inflight[j].areg
                         /\ Completed(k)[j].preg  = inflight[j].preg
                         /\ Completed(k)[j].ppreg = inflight[j].ppreg
                         /\ Completed(k)[j].done <=> inflight[j].done \/ j = k
  <2>1. CASE k = 0
    BY <2>1 DEF Completed, TypeOK, Live
  <2>2. CASE k # 0 /\ k \in Live
    <3> DEFINE e == [inflight[k] EXCEPT !.done = TRUE]
    <3>1. inflight \in Seq(Issued) /\ k \in 1 .. Len(inflight)
      BY <2>2 DEF TypeOK, Live
    <3>2. /\ e \in Issued /\ e.areg = inflight[k].areg /\ e.preg = inflight[k].preg
          /\ e.ppreg = inflight[k].ppreg /\ e.done
      <4>1. inflight[k] \in Issued
        BY <3>1, ElementOfSeq
      <4>2. \A x \in Issued : /\ [x EXCEPT !.done = TRUE] \in Issued
                              /\ [x EXCEPT !.done = TRUE].areg = x.areg
                              /\ [x EXCEPT !.done = TRUE].preg = x.preg
                              /\ [x EXCEPT !.done = TRUE].ppreg = x.ppreg
                              /\ [x EXCEPT !.done = TRUE].done
        BY DEF Issued
      <4>. QED  BY <4>1, <4>2
    <3>3. Completed(k) = [inflight EXCEPT ![k] = e]
      BY <2>2 DEF Completed
    <3> HIDE DEF e
    <3>4. /\ Completed(k) \in Seq(Issued)
          /\ Len(Completed(k)) = Len(inflight)
          /\ \A j \in 1 .. Len(inflight) : Completed(k)[j] = IF j = k THEN e ELSE inflight[j]
      BY <3>1, <3>2, <3>3, ExceptSeq
    <3>. QED  BY <3>2, <3>4 DEF Live
  <2>. QED  BY <2>1, <2>2 DEF MayComplete
<1>2. CASE c = 0
  BY <1>1, <1>2 DEF Retired, Live
<1>3. CASE c = 1
  <2>1. Len(inflight) \in Nat /\ Len(inflight) > 0
    BY <1>3 DEF MayCommit, Live, TypeOK
  <2>2. Retired(k, c) = Tail(Completed(k))
    BY <1>3 DEF Retired
  <2>3. /\ Tail(Completed(k)) \in Seq(Issued)
        /\ Len(Tail(Completed(k))) = Len(inflight) - 1
        /\ \A j \in 1 .. Len(inflight) - 1 : Tail(Completed(k))[j] = Completed(k)[j + 1]
    BY <1>1, <2>1
  <2>4. \A j \in 1 .. Len(inflight) - 1 : j + 1 \in Live
    BY <2>1 DEF Live
  <2>. QED  BY <1>1, <1>3, <2>2, <2>3, <2>4
<1>. QED  BY <1>2, <1>3

\* The register that a commit notification frees, 0 for none.
LEMMA NotifFrees ==
  ASSUME TypeOK, NEW c \in {0, 1}, MayCommit(c)
  PROVE  /\ Notif(c).val <=> c = 1
         /\ c = 1 => 1 \in Live /\ Notif(c).ppreg = inflight[1].ppreg
BY DEF Notif, NoNotif, MayCommit

-----------------------------------------------------------------------------

\* What Partition needs to know of a cycle: `taken` is the register allocated
\* to areg, or 0, and `last` tells whether decode issues an instruction.
PartitionEffect(c, areg, taken, last) ==
  /\ c = 1 => 1 \in Live
  /\ taken # 0 => free_list[taken] /\ areg # 0 /\ last = 1
  /\ taken = 0 => areg = 0
  /\ \A i \in RenamedAreg :
       rename_table'[i].preg = IF taken # 0 /\ i = areg THEN taken ELSE rename_table[i].preg
  /\ \A p \in RenamedPreg :
       free_list'[p] <=> p # taken /\ (free_list[p] \/ (c = 1 /\ p = inflight[1].ppreg))
  /\ Len(inflight') = Len(inflight) - c + last
  /\ \A j \in 1 .. Len(inflight) - c : inflight'[j].ppreg = inflight[j + c].ppreg
  /\ last = 1 => inflight'[Len(inflight')].ppreg = alloc_ppreg(areg)

\* The core of the argument: an edge that frees the register of the oldest
\* instruction and moves one free register into the table keeps the free, the
\* mapped and the superseded registers apart and complete.
LEMMA PartitionStep ==
  ASSUME IInv, TypeOK',
         NEW c \in {0, 1}, NEW areg \in Areg, NEW taken \in Preg, NEW last \in {0, 1},
         PartitionEffect(c, areg, taken, last)
  PROVE  Partition'
<1> USE DEF PartitionEffect
<1> DEFINE n == Len(inflight)
<1>1. n \in Nat /\ n - c \in Nat
  BY DEF IInv, TypeOK, Live
<1>2. \A j \in Live' : \/ j \in 1 .. n - c /\ j + c \in Live /\ inflight'[j].ppreg = inflight[j + c].ppreg
                       \/ j = n - c + 1 /\ last = 1 /\ inflight'[j].ppreg = alloc_ppreg(areg)
  BY <1>1 DEF Live
<1>3. \A i \in RenamedAreg : rename_table[i].preg \in RenamedPreg
  BY DEF IInv, TypeOK
<1>4. alloc_ppreg(areg) = IF taken = 0 THEN 0 ELSE rename_table[areg].preg
  BY DEF alloc_ppreg
<1>5. TableInjective'
  BY <1>3 DEF IInv, Partition, TableInjective, FreeIsTheRest
<1>6. PpregInjective'
  <2> SUFFICES ASSUME NEW j \in Live', NEW l \in Live',
                      inflight'[j].ppreg = inflight'[l].ppreg, inflight'[j].ppreg # 0
               PROVE  j = l
    BY DEF PpregInjective
  <2>1. CASE j \in 1 .. n - c /\ l \in 1 .. n - c
    <3>1. /\ j + c \in Live /\ l + c \in Live
          /\ inflight'[j].ppreg = inflight[j + c].ppreg
          /\ inflight'[l].ppreg = inflight[l + c].ppreg
      BY <1>1, <2>1, SMT DEF Live
    <3>2. inflight[j + c].ppreg = inflight[l + c].ppreg /\ inflight[j + c].ppreg # 0
      BY <3>1
    <3>3. \A a, b \in Live : inflight[a].ppreg = inflight[b].ppreg /\ inflight[a].ppreg # 0 => a = b
      BY DEF IInv, Partition, PpregInjective
    <3>4. j + c = l + c
      BY ONLY <3>1, <3>2, <3>3
    <3>. QED  BY <1>1, <2>1, <3>4, SMT
  <2>2. CASE ~(j \in 1 .. n - c /\ l \in 1 .. n - c)
    <3>1. ASSUME NEW m \in Live', m \notin 1 .. n - c, inflight'[m].ppreg # 0
          PROVE  /\ m = n - c + 1
                 /\ areg \in RenamedAreg
                 /\ inflight'[m].ppreg = rename_table[areg].preg
      BY <1>2, <1>4, <3>1
    <3>2. ASSUME NEW m \in Live', m \in 1 .. n - c, NEW i \in RenamedAreg
          PROVE  inflight'[m].ppreg # rename_table[i].preg
      BY <1>1, <1>2, <3>2, SMT DEF IInv, Partition, MappedNotRetiring
    <3>. QED  BY <2>2, <3>1, <3>2
  <2>. QED  BY <2>1, <2>2
<1>7. MappedNotRetiring'
  <2> SUFFICES ASSUME NEW i \in RenamedAreg, NEW j \in Live'
               PROVE  rename_table'[i].preg # inflight'[j].ppreg
    BY DEF MappedNotRetiring
  <2>1. CASE j \in 1 .. n - c
    BY <1>1, <1>2, <2>1, SMT DEF IInv, Partition, MappedNotRetiring, FreeIsTheRest
  <2>2. CASE ~(j \in 1 .. n - c)
    BY <1>2, <1>3, <1>4, <2>2 DEF IInv, Partition, TableInjective, FreeIsTheRest
  <2>. QED  BY <2>1, <2>2
<1>8. FreeIsTheRest'
  <2> SUFFICES ASSUME NEW p \in RenamedPreg
               PROVE  free_list'[p] <=> /\ \A i \in RenamedAreg : rename_table'[i].preg # p
                                        /\ \A j \in Live' : inflight'[j].ppreg # p
    BY DEF FreeIsTheRest
  <2>1. ASSUME free_list'[p]
        PROVE  /\ \A i \in RenamedAreg : rename_table'[i].preg # p
               /\ \A j \in Live' : inflight'[j].ppreg # p
    <3>1. p # taken /\ (free_list[p] \/ (c = 1 /\ p = inflight[1].ppreg))
      BY <2>1
    <3>2. CASE free_list[p]
      <4>1. /\ \A i \in RenamedAreg : rename_table[i].preg # p
            /\ \A l \in Live : inflight[l].ppreg # p
        BY <3>2 DEF IInv, Partition, FreeIsTheRest
      <4>2. alloc_ppreg(areg) # p
        BY <1>4, <4>1
      <4>4. \A i \in RenamedAreg : rename_table'[i].preg # p
        BY <3>1, <4>1
      <4>5. \A j \in Live' : inflight'[j].ppreg # p
        BY <1>2, <3>1, <4>1, <4>2
      <4>. QED  BY <4>4, <4>5
    <3>3. CASE c = 1 /\ p = inflight[1].ppreg
      <4>1. \A i \in RenamedAreg : rename_table[i].preg # p
        BY <3>3 DEF IInv, Partition, MappedNotRetiring
      <4>2. \A j \in 1 .. n - c : inflight[j + c].ppreg # p
        BY <1>1, <3>3, SMT DEF IInv, Partition, PpregInjective, Live
      <4>3. alloc_ppreg(areg) # p
        BY <1>4, <4>1
      <4>4. \A i \in RenamedAreg : rename_table'[i].preg # p
        BY <3>1, <4>1
      <4>5. ASSUME NEW j \in Live' PROVE inflight'[j].ppreg # p
        <5>1. CASE j \in 1 .. n - c /\ inflight'[j].ppreg = inflight[j + c].ppreg
          BY <4>2, <5>1
        <5>2. CASE inflight'[j].ppreg = alloc_ppreg(areg)
          BY <4>3, <5>2
        <5>. QED  BY <1>2, <5>1, <5>2
      <4>. QED  BY <4>4, <4>5
    <3>. QED  BY <3>1, <3>2, <3>3
  <2>2. ASSUME ~free_list'[p]
        PROVE  ~ /\ \A i \in RenamedAreg : rename_table'[i].preg # p
                 /\ \A j \in Live' : inflight'[j].ppreg # p
    <3>1. p = taken \/ (~free_list[p] /\ ~(c = 1 /\ p = inflight[1].ppreg))
      BY <2>2
    <3>2. CASE p = taken
      <4>1. areg \in RenamedAreg /\ rename_table'[areg].preg = p
        BY <3>2
      <4>. QED  BY <4>1
    <3>3. CASE p # taken /\ ~free_list[p] /\ ~(c = 1 /\ p = inflight[1].ppreg)
      <4>1. CASE \E i \in RenamedAreg : rename_table[i].preg = p
        <5>1. PICK i \in RenamedAreg : rename_table[i].preg = p
          BY <4>1
        <5>2. CASE taken # 0 /\ i = areg
          <6>1. n - c + 1 \in Live' /\ inflight'[n - c + 1].ppreg = p
            BY <1>1, <1>4, <5>1, <5>2, SMT DEF Live
          <6>. QED  BY <6>1
        <5>3. CASE ~(taken # 0 /\ i = areg)
          BY <5>1, <5>3
        <5>. QED  BY <5>2, <5>3
      <4>2. CASE \E l \in Live : inflight[l].ppreg = p
        <5>1. PICK l \in Live : inflight[l].ppreg = p
          BY <4>2
        <5>2. l - c \in 1 .. n - c /\ l - c \in Live' /\ (l - c) + c = l
          BY <1>1, <3>3, <5>1, SMT DEF Live
        <5>3. inflight'[l - c].ppreg = p
          BY <5>1, <5>2
        <5>. QED  BY <5>2, <5>3
      <4>. QED  BY <3>3, <4>1, <4>2 DEF IInv, Partition, FreeIsTheRest
    <3>. QED  BY <3>1, <3>2, <3>3
  <2>. QED  BY <2>1, <2>2
<1>. QED  BY <1>5, <1>6, <1>7, <1>8 DEF Partition

-----------------------------------------------------------------------------

\* A commit notification names a physical register, or 0.
LEMMA NotifType ==
  ASSUME TypeOK, NEW k \in Nat, k = 0 \/ k \in Live
  PROVE  /\ Notif(k).val \in BOOLEAN
         /\ Notif(k).preg \in Preg
         /\ Notif(k).ppreg \in Preg
<1>1. CASE k = 0
  BY <1>1, NumAregsAssumption, NumPregsAssumption DEF Notif, NoNotif
<1>2. CASE k # 0 /\ k \in Live
  <2>1. inflight[k] \in Issued
    BY <1>2, ElementOfSeq DEF TypeOK, Live
  <2>. QED  BY <1>2, <2>1 DEF Notif, Issued
<1>. QED  BY <1>1, <1>2

\* The table and the free list keep their types, and change as PartitionStep
\* wants, when register p goes to areg (or 0 to x0).
LEMMA EdgeEffect ==
  ASSUME IInv, NEW k \in 0 .. MaxIssued, NEW c \in {0, 1},
         MayComplete(k), MayCommit(c),
         NEW en \in BOOLEAN, NEW areg \in Areg, NEW p \in Preg,
         en => alloc_rdy /\ IsAllocPreg(areg, p),
         ~en => areg = 0 /\ p = 0,
         Edge(en, areg, p, Notif(k), Notif(c))
  PROVE  /\ rename_table' \in [RenamedAreg -> [pending : BOOLEAN, preg : RenamedPreg]]
         /\ free_list' \in [RenamedPreg -> BOOLEAN]
         /\ \A i \in RenamedAreg :
              /\ rename_table'[i].preg = IF p # 0 /\ i = areg THEN p ELSE rename_table[i].preg
              /\ rename_table'[i].pending <=>
                   \/ p # 0 /\ i = areg
                   \/ rename_table[i].pending /\ ~(k # 0 /\ inflight[k].preg = rename_table[i].preg)
         /\ \A q \in RenamedPreg :
              free_list'[q] <=> q # p /\ (free_list[q] \/ (c = 1 /\ q = inflight[1].ppreg))
         /\ p # 0 => free_list[p] /\ areg # 0
         /\ p = 0 => areg = 0
<1>1. /\ p # 0 => free_list[p] /\ areg # 0 /\ en /\ p \in RenamedPreg
      /\ p = 0 => areg = 0
  BY DEF IsAllocPreg
<1>2. rename_table' = NextTable(en, areg, p, Notif(k)) /\ free_list' = NextFree(en, p, Notif(c))
  BY DEF Edge
<1>3. \A i \in RenamedAreg : rename_table[i] \in [pending : BOOLEAN, preg : RenamedPreg]
  BY DEF IInv, TypeOK
<1>c. /\ Notif(k).val <=> k # 0
      /\ k # 0 => Notif(k).preg = inflight[k].preg
  BY DEF Notif, NoNotif
<1>4. \A i \in RenamedAreg :
        /\ rename_table'[i] \in [pending : BOOLEAN, preg : RenamedPreg]
        /\ rename_table'[i].preg = IF p # 0 /\ i = areg THEN p ELSE rename_table[i].preg
        /\ rename_table'[i].pending <=>
             \/ p # 0 /\ i = areg
             \/ rename_table[i].pending /\ ~(k # 0 /\ inflight[k].preg = rename_table[i].preg)
  <2> SUFFICES ASSUME NEW i \in RenamedAreg
               PROVE  /\ rename_table'[i] \in [pending : BOOLEAN, preg : RenamedPreg]
                      /\ rename_table'[i].preg = IF p # 0 /\ i = areg THEN p ELSE rename_table[i].preg
                      /\ rename_table'[i].pending <=>
                           \/ p # 0 /\ i = areg
                           \/ /\ rename_table[i].pending
                              /\ ~(k # 0 /\ inflight[k].preg = rename_table[i].preg)
    OBVIOUS
  <2>1. CASE en /\ areg = i
    <3>1. rename_table'[i] = [pending |-> TRUE, preg |-> p] /\ p # 0
      BY <1>1, <1>2, <2>1 DEF NextTable
    <3>. QED  BY <1>1, <2>1, <3>1
  <2>2. CASE ~(en /\ areg = i)
    <3>1. ~(p # 0 /\ i = areg)
      BY <1>1, <2>2
    <3>2. CASE k # 0 /\ inflight[k].preg = rename_table[i].preg
      <4>1. rename_table'[i] = [rename_table[i] EXCEPT !.pending = FALSE]
        BY <1>2, <1>c, <2>2, <3>2 DEF NextTable
      <4>. QED  BY <1>3, <3>1, <3>2, <4>1
    <3>3. CASE ~(k # 0 /\ inflight[k].preg = rename_table[i].preg)
      <4>1. rename_table'[i] = rename_table[i]
        BY <1>2, <1>c, <2>2, <3>3 DEF NextTable
      <4>. QED  BY <1>3, <3>1, <3>3, <4>1
    <3>. QED  BY <3>2, <3>3
  <2>. QED  BY <2>1, <2>2
<1>5. rename_table' \in [RenamedAreg -> [pending : BOOLEAN, preg : RenamedPreg]]
  BY <1>2, <1>4 DEF NextTable
<1>6. Notif(c).val <=> c = 1
  BY NotifFrees DEF IInv
<1>7. c = 1 => Notif(c).ppreg = inflight[1].ppreg
  BY NotifFrees DEF IInv
<1>8. \A q \in RenamedPreg :
        /\ free_list'[q] \in BOOLEAN
        /\ free_list'[q] <=> q # p /\ (free_list[q] \/ (c = 1 /\ q = inflight[1].ppreg))
  <2> SUFFICES ASSUME NEW q \in RenamedPreg
               PROVE  /\ free_list'[q] \in BOOLEAN
                      /\ free_list'[q] <=> q # p /\ (free_list[q] \/ (c = 1 /\ q = inflight[1].ppreg))
    OBVIOUS
  <2>1. free_list'[q] = IF en /\ p = q THEN FALSE
                        ELSE free_list[q] \/ (Notif(c).val /\ Notif(c).ppreg = q)
    BY <1>2 DEF NextFree
  <2>2. q = p <=> en /\ p = q
    BY <1>1, NumPregsAssumption, NumAregsAssumption
  <2>3. free_list[q] \in BOOLEAN
    BY DEF IInv, TypeOK
  <2>4. (Notif(c).val /\ Notif(c).ppreg = q) <=> (c = 1 /\ q = inflight[1].ppreg)
    BY <1>6, <1>7
  <2>. QED  BY <2>1, <2>2, <2>3, <2>4, Zenon
<1>9. free_list' \in [RenamedPreg -> BOOLEAN]
  BY <1>2, <1>8 DEF NextFree
<1>. QED  BY <1>1, <1>4, <1>5, <1>8, <1>9

\* Committing the oldest instruction of the list moves its entry, and no
\* other, into the architectural table.
LEMMA ArchStep ==
  ASSUME TypeOK, NEW c \in {0, 1}, MayCommit(c), arch' = NextArch(c)
  PROVE  arch' \in [RenamedAreg -> Preg]
<1>1. CASE c = 1 /\ inflight[1].areg # 0
  <2>1. inflight[1] \in Issued
    BY <1>1, ElementOfSeq DEF TypeOK, MayCommit, Live
  <2>. QED  BY <1>1, <2>1 DEF NextArch, TypeOK, Issued
<1>2. CASE ~(c = 1 /\ inflight[1].areg # 0)
  BY <1>2 DEF NextArch, TypeOK
<1>. QED  BY <1>1, <1>2

\* One cycle: decode issues e when last = 1, and takes register p for areg
\* when en.
OneCycle(k, c, en, areg, p, last, e) ==
  /\ MayComplete(k) /\ MayCommit(c) /\ arch' = NextArch(c)
  /\ en => alloc_rdy /\ IsAllocPreg(areg, p) /\ last = 1
  /\ ~en => areg = 0 /\ p = 0
  /\ Edge(en, areg, p, Notif(k), Notif(c))
  /\ e = [areg |-> areg, preg |-> p, ppreg |-> alloc_ppreg(areg), done |-> FALSE]
  /\ inflight' = IF last = 1 THEN Append(Retired(k, c), e) ELSE Retired(k, c)

\* What a cycle does to the table, the free list and the instructions in
\* flight: instruction k completes, c of them commit, decode issues `last`
\* and takes register p for areg, or 0 for x0.
CycleEffect(k, c, areg, p, last) ==
  /\ TypeOK'
  /\ PartitionEffect(c, areg, p, last)
  /\ MayComplete(k) /\ MayCommit(c) /\ arch' = NextArch(c)
  /\ \A i \in RenamedAreg :
       rename_table'[i].pending <=>
         \/ p # 0 /\ i = areg
         \/ rename_table[i].pending /\ ~(k # 0 /\ inflight[k].preg = rename_table[i].preg)
  /\ \A j \in 1 .. Len(inflight) - c :
       /\ j + c \in Live
       /\ inflight'[j].areg = inflight[j + c].areg
       /\ inflight'[j].preg = inflight[j + c].preg
       /\ inflight'[j].done <=> inflight[j + c].done \/ j + c = k
  /\ last = 1 => /\ inflight'[Len(inflight')].areg = areg
                 /\ inflight'[Len(inflight')].preg = p
                 /\ ~inflight'[Len(inflight')].done

\* An edge with or without an allocation and a commit has such an effect.
LEMMA OneCycleEffect ==
  ASSUME IInv, NEW k \in 0 .. MaxIssued, NEW c \in {0, 1},
         NEW en \in BOOLEAN, NEW areg \in Areg, NEW p \in Preg,
         NEW last \in {0, 1}, NEW e \in Issued,
         OneCycle(k, c, en, areg, p, last, e)
  PROVE  CycleEffect(k, c, areg, p, last)
<1> USE DEF OneCycle
<1> DEFINE rest == Retired(k, c)
<1>1. /\ rest \in Seq(Issued)
      /\ Len(rest) = Len(inflight) - c
      /\ \A j \in 1 .. Len(inflight) - c :
           /\ j + c \in Live
           /\ rest[j].areg = inflight[j + c].areg
           /\ rest[j].preg = inflight[j + c].preg
           /\ rest[j].ppreg = inflight[j + c].ppreg
           /\ rest[j].done <=> inflight[j + c].done \/ j + c = k
  BY RetiredKeeps DEF IInv
<1>2. /\ inflight' \in Seq(Issued)
      /\ Len(inflight') = Len(inflight) - c + last
      /\ \A j \in 1 .. Len(inflight) - c : inflight'[j] = rest[j]
      /\ last = 1 => inflight'[Len(inflight')] = e
  <2> HIDE DEF rest
  <2>1. CASE last = 1
    <3>1. inflight' = Append(rest, e)
      BY <2>1 DEF rest
    <3>2. /\ Append(rest, e) \in Seq(Issued)
          /\ Len(Append(rest, e)) = Len(rest) + 1
          /\ \A j \in 1 .. Len(rest) : Append(rest, e)[j] = rest[j]
          /\ Append(rest, e)[Len(rest) + 1] = e
      BY <1>1, AppendProperties
    <3>. QED  BY <1>1, <2>1, <3>1, <3>2
  <2>2. CASE last = 0
    <3>1. inflight' = rest
      BY <2>2 DEF rest
    <3>. QED  BY <1>1, <2>2, <3>1
  <2>. QED  BY <2>1, <2>2
<1>3. /\ rename_table' \in [RenamedAreg -> [pending : BOOLEAN, preg : RenamedPreg]]
      /\ free_list' \in [RenamedPreg -> BOOLEAN]
      /\ \A i \in RenamedAreg :
           /\ rename_table'[i].preg = IF p # 0 /\ i = areg THEN p ELSE rename_table[i].preg
           /\ rename_table'[i].pending <=>
                \/ p # 0 /\ i = areg
                \/ rename_table[i].pending /\ ~(k # 0 /\ inflight[k].preg = rename_table[i].preg)
      /\ \A q \in RenamedPreg :
           free_list'[q] <=> q # p /\ (free_list[q] \/ (c = 1 /\ q = inflight[1].ppreg))
      /\ p # 0 => free_list[p] /\ areg # 0
      /\ p = 0 => areg = 0
  BY EdgeEffect
<1>4. TypeOK'
  <2>1. arch' \in [RenamedAreg -> Preg]
    BY ArchStep DEF IInv
  <2>. QED  BY <1>2, <1>3, <2>1 DEF TypeOK
<1>5. p # 0 => last = 1
  OBVIOUS
<1>6. c = 1 => 1 \in Live
  BY DEF MayCommit
<1>7. \A j \in 1 .. Len(inflight) - c :
        /\ j + c \in Live
        /\ inflight'[j].areg = inflight[j + c].areg
        /\ inflight'[j].preg = inflight[j + c].preg
        /\ inflight'[j].ppreg = inflight[j + c].ppreg
        /\ inflight'[j].done <=> inflight[j + c].done \/ j + c = k
  BY <1>1, <1>2
<1>8. last = 1 => /\ inflight'[Len(inflight')].areg = areg
                  /\ inflight'[Len(inflight')].preg = p
                  /\ inflight'[Len(inflight')].ppreg = alloc_ppreg(areg)
                  /\ ~inflight'[Len(inflight')].done
  BY <1>2
<1>9. PartitionEffect(c, areg, p, last)
  BY <1>2, <1>3, <1>5, <1>6, <1>7, <1>8 DEF PartitionEffect
<1>10. MayComplete(k) /\ MayCommit(c) /\ arch' = NextArch(c)
  OBVIOUS
<1>. QED  BY ONLY <1>3, <1>4, <1>7, <1>8, <1>9, <1>10 DEF CycleEffect

\* Every step of the specification is such a cycle.
LEMMA NextEffect ==
  ASSUME IInv, Next
  PROVE  \E k \in 0 .. MaxIssued, c \in {0, 1}, areg \in Areg, p \in Preg, last \in {0, 1} :
           CycleEffect(k, c, areg, p, last)
<1>1. PICK k \in 0 .. MaxIssued, c \in {0, 1} : Cycle(k, c)
  BY DEF Next
<1>2. MayComplete(k) /\ MayCommit(c) /\ arch' = NextArch(c)
  BY <1>1 DEF Cycle
<1> DEFINE none == [areg |-> 0, preg |-> 0, ppreg |-> 0, done |-> FALSE]
<1>3. 0 \in Areg /\ 0 \in Preg /\ none \in Issued /\ alloc_ppreg(0) = 0
  BY NumAregsAssumption, NumPregsAssumption DEF Issued, alloc_ppreg
<1>4. CASE Hold(k, c)
  <2>1. Edge(FALSE, 0, 0, Notif(k), Notif(c)) /\ inflight' = Retired(k, c)
    BY <1>4 DEF Hold
  <2>2. OneCycle(k, c, FALSE, 0, 0, 0, none)
    <3>1. inflight' = IF 0 = 1 THEN Append(Retired(k, c), none) ELSE Retired(k, c)
      BY <2>1
    <3>. QED  BY <1>2, <1>3, <2>1, <3>1 DEF OneCycle
  <2>. QED  BY <1>3, <2>2, OneCycleEffect
<1>5. CASE IssueNoWrite(k, c)
  <2>1. /\ Edge(FALSE, 0, 0, Notif(k), Notif(c))
        /\ inflight' = Append(Retired(k, c), none)
    BY <1>5 DEF IssueNoWrite
  <2>2. OneCycle(k, c, FALSE, 0, 0, 1, none)
    BY <1>2, <1>3, <2>1 DEF OneCycle
  <2>. QED  BY <1>3, <2>2, OneCycleEffect
<1>6. ASSUME NEW areg \in Areg, Issue(k, c, areg)
      PROVE  \E p \in Preg : CycleEffect(k, c, areg, p, 1)
  <2>1. PICK p \in Preg :
          /\ alloc_rdy
          /\ IsAllocPreg(areg, p)
          /\ Edge(TRUE, areg, p, Notif(k), Notif(c))
          /\ inflight' = Append(Retired(k, c),
               [areg |-> areg, preg |-> p, ppreg |-> alloc_ppreg(areg), done |-> FALSE])
    BY <1>6 DEF Issue
  <2> DEFINE e == [areg |-> areg, preg |-> p, ppreg |-> alloc_ppreg(areg), done |-> FALSE]
  <2>2. alloc_ppreg(areg) \in Preg
    BY <1>3, NumPregsAssumption, NumAregsAssumption DEF alloc_ppreg, IInv, TypeOK
  <2>3. e \in Issued
    BY <2>2 DEF Issued
  <2>4. OneCycle(k, c, TRUE, areg, p, 1, e)
    BY <1>2, <2>1 DEF OneCycle
  <2>. QED  BY <2>3, <2>4, OneCycleEffect
<1>. QED  BY <1>1, <1>4, <1>5, <1>6 DEF Cycle

\* Every edge keeps the invariant.
LEMMA InductiveStep == IInv /\ [Next]_vars => IInv'
<1>1. ASSUME IInv, Next PROVE IInv'
  <2>1. PICK k \in 0 .. MaxIssued, c \in {0, 1}, areg \in Areg, p \in Preg, last \in {0, 1} :
          CycleEffect(k, c, areg, p, last)
    BY <1>1, NextEffect
  <2>2. TypeOK' /\ PartitionEffect(c, areg, p, last)
    BY <2>1 DEF CycleEffect
  <2>. QED  BY <1>1, <2>2, PartitionStep DEF IInv
<1>2. ASSUME IInv, UNCHANGED vars PROVE IInv'
  BY <1>2 DEF vars, IInv, TypeOK, Partition, TableInjective, PpregInjective,
              MappedNotRetiring, FreeIsTheRest, Live
<1>. QED  BY <1>1, <1>2

\* Every physical register is free, mapped or waiting to be freed, for every
\* number of registers and every depth of the back end.
THEOREM PartitionHolds == Spec => []Partition
<1>1. IInv => Partition
  BY DEF IInv
<1>. QED  BY <1>1, InitIInv, InductiveStep, PTL DEF Spec

\* The registers of the table keep their types.
THEOREM TypeCorrect == Spec => []TypeOK
<1>1. IInv => TypeOK
  BY DEF IInv
<1>. QED  BY <1>1, InitIInv, InductiveStep, PTL DEF Spec

-----------------------------------------------------------------------------
(* Program order.  Each architectural register has a chain of physical     *)
(* ones: the one with the committed value, those of its writers in flight  *)
(* in program order, and the last of these is in the table.  Every writer  *)
(* supersedes the register before its own in the chain.                    *)

Writes(k, i) == k \in Live /\ inflight[k].areg = i

\* The register that holds i after instruction k, or before all of them, and
\* the one that instruction l supersedes, or the table names at the end.
Before(k, i) == IF k = 0 THEN arch[i] ELSE inflight[k].preg
After(l, i)  == IF l = Len(inflight) + 1 THEN rename_table[i].preg ELSE inflight[l].ppreg

\* k and l are neighbours in the chain of i.
Linked(i, k, l) ==
  /\ k < l
  /\ k = 0 \/ Writes(k, i)
  /\ l = Len(inflight) + 1 \/ Writes(l, i)
  /\ \A m \in k + 1 .. l - 1 : ~Writes(m, i)

Chain ==
  \A i \in RenamedAreg, k \in 0 .. Len(inflight), l \in 1 .. Len(inflight) + 1 :
    Linked(i, k, l) => After(l, i) = Before(k, i)

\* Just the writers of x0, and those that write nothing, have p0.
Named == \A k \in Live : inflight[k].areg = 0 <=> inflight[k].preg = 0

\* An entry is pending just while the writer of its register runs.
PendingIsRunning ==
  \A i \in RenamedAreg :
    rename_table[i].pending <=>
      \E k \in Live : inflight[k].preg = rename_table[i].preg /\ ~inflight[k].done

Order == Named /\ Chain /\ PendingIsRunning

FullInv == IInv /\ Order

LessNat == {pair \in Nat \X Nat : pair[1] < pair[2]}

\* Every nonempty set of natural numbers has a least element.
LEMMA LeastNat ==
  ASSUME NEW S, S \subseteq Nat, S # {}
  PROVE  \E m \in S : \A n \in S : m <= n
<1>1. IsWellFoundedOn(LessNat, Nat)
  BY NatLessThanWellFounded, Zenon DEF OpToRel, LessNat
<1>2. \E x \in S : \A y \in S : ~ (<<y, x>> \in LessNat)
  BY <1>1, WFMin
<1>3. \A x, y \in S : ~ (<<y, x>> \in LessNat) => x <= y
  BY DEF LessNat
<1>. QED  BY <1>2, <1>3

\* From every member of a chain there is a next one.
LEMMA NextInChain ==
  ASSUME IInv, NEW i \in RenamedAreg, NEW k \in 0 .. Len(inflight), k = 0 \/ Writes(k, i)
  PROVE  \E l \in k + 1 .. Len(inflight) + 1 : Linked(i, k, l)
<1> DEFINE S == {l \in k + 1 .. Len(inflight) + 1 : l = Len(inflight) + 1 \/ Writes(l, i)}
<1>1. Len(inflight) \in Nat
  BY DEF IInv, TypeOK
<1>2. Len(inflight) + 1 \in S /\ S \subseteq Nat
  BY <1>1
<1>3. PICK l \in S : \A m \in S : l <= m
  <2> HIDE DEF S
  <2>. QED  BY <1>2, LeastNat
<1>4. \A m \in k + 1 .. l - 1 : ~Writes(m, i)
  BY <1>1, <1>3
<1>. QED  BY <1>1, <1>3, <1>4 DEF Linked

\* The chain ends at the table.
LEMMA LastInChain ==
  ASSUME IInv, NEW i \in RenamedAreg
  PROVE  \E k \in 0 .. Len(inflight) : Linked(i, k, Len(inflight) + 1)
<1> DEFINE n == Len(inflight)
           S == {d \in 0 .. n : d = n \/ Writes(n - d, i)}
<1>1. n \in Nat
  BY DEF IInv, TypeOK
<1> HIDE DEF n
<1>2. n \in S /\ S \subseteq Nat
  BY <1>1
<1>3. PICK d \in S : \A e \in S : d <= e
  <2> HIDE DEF S
  <2>. QED  BY <1>2, LeastNat
<1>4. n - d \in 0 .. n /\ (n - d = 0 \/ Writes(n - d, i))
  BY <1>1, <1>3
<1>5. ASSUME NEW m \in n - d + 1 .. n, Writes(m, i) PROVE FALSE
  <2>1. n - (n - m) = m /\ n - m \in 0 .. n /\ n - m < d
    BY <1>1, <1>3
  <2>2. n - m \in S
    BY <1>5, <2>1
  <2>. QED  BY <1>1, <1>3, <2>1, <2>2
<1>6. \A m \in (n - d) + 1 .. (n + 1) - 1 : ~Writes(m, i)
  BY <1>1, <1>4, <1>5
<1>7. n - d < n + 1
  BY <1>1, <1>4
<1>8. Linked(i, n - d, n + 1)
  BY <1>4, <1>6, <1>7 DEF Linked, n
<1>. QED  BY <1>4, <1>8 DEF n

\* The register a table entry names is written by the last writer only.
LEMMA HolderIsLast ==
  ASSUME FullInv, NEW i \in RenamedAreg, NEW k \in Live,
         inflight[k].preg = rename_table[i].preg
  PROVE  Linked(i, k, Len(inflight) + 1)
<1> DEFINE n == Len(inflight)
           j == inflight[k].areg
<1>1. n \in Nat /\ k \in 0 .. n /\ k \in 1 .. n
  BY DEF FullInv, IInv, TypeOK, Live
<1>2. rename_table[i].preg \in RenamedPreg
  BY DEF FullInv, IInv, TypeOK
<1>3. inflight[k] \in Issued
  BY <1>1, ElementOfSeq DEF FullInv, IInv, TypeOK
<1>4. j \in RenamedAreg
  BY <1>2, <1>3, NumPregsAssumption, NumAregsAssumption DEF FullInv, Order, Named, Issued
<1>5. PICK l \in k + 1 .. n + 1 : Linked(j, k, l)
  BY <1>1, <1>4, NextInChain DEF FullInv, Writes
<1>6. After(l, j) = rename_table[i].preg
  <2>1. l \in 1 .. n + 1 /\ k # 0
    BY <1>1, <1>5
  <2>2. After(l, j) = Before(k, j)
    BY <1>1, <1>4, <1>5, <2>1 DEF FullInv, Order, Chain
  <2>. QED  BY <2>1, <2>2 DEF Before
<1>7. l = n + 1
  <2> SUFFICES ASSUME l # n + 1 PROVE FALSE
    OBVIOUS
  <2>1. l \in Live
    BY <1>1, <1>5 DEF Live
  <2>. QED  BY <1>6, <2>1 DEF After, FullInv, IInv, Partition, MappedNotRetiring
<1>8. j = i
  BY <1>4, <1>6, <1>7 DEF After, FullInv, IInv, Partition, TableInjective
<1>. QED  BY <1>5, <1>7, <1>8

\* A writer has a successor in its chain, which supersedes its register.
LEMMA WriterIsFollowed ==
  ASSUME FullInv, NEW k \in Live, inflight[k].preg # 0
  PROVE  \E x \in k + 1 .. Len(inflight) + 1 :
           /\ inflight[k].areg \in RenamedAreg
           /\ Linked(inflight[k].areg, k, x)
           /\ After(x, inflight[k].areg) = inflight[k].preg
<1> DEFINE n == Len(inflight)
<1>1. n \in Nat /\ k \in 1 .. n /\ inflight[k] \in Issued
  BY ElementOfSeq DEF FullInv, IInv, TypeOK, Live
<1>2. inflight[k].areg \in RenamedAreg
  BY <1>1, NumAregsAssumption DEF FullInv, Order, Named, Issued
<1>3. PICK x \in k + 1 .. n + 1 : Linked(inflight[k].areg, k, x)
  <2>1. k \in 0 .. n /\ Writes(k, inflight[k].areg) /\ IInv
    BY <1>1 DEF FullInv, Writes
  <2>. QED  BY <1>2, <2>1, NextInChain
<1>4. k \in 0 .. n /\ x \in 1 .. n + 1 /\ k # 0
  BY <1>1, <1>3
<1>5. After(x, inflight[k].areg) = Before(k, inflight[k].areg)
  BY <1>2, <1>3, <1>4 DEF FullInv, Order, Chain
<1>. QED  BY <1>2, <1>3, <1>4, <1>5 DEF Before

\* A register is superseded in one place.
LEMMA SupersededOnce ==
  ASSUME FullInv, NEW i \in RenamedAreg, NEW j \in RenamedAreg,
         NEW x \in 1 .. Len(inflight) + 1, NEW y \in 1 .. Len(inflight) + 1,
         x = Len(inflight) + 1 \/ Writes(x, i),
         y = Len(inflight) + 1 \/ Writes(y, j),
         After(x, i) = After(y, j), After(x, i) # 0
  PROVE  x = y /\ i = j
<1> DEFINE n == Len(inflight)
<1>1. /\ n \in Nat
      /\ x # n + 1 => x \in Live
      /\ y # n + 1 => y \in Live
  BY DEF FullInv, IInv, TypeOK, Live
<1>2. CASE x = n + 1 /\ y = n + 1
  BY <1>2 DEF After, FullInv, IInv, Partition, TableInjective
<1>3. CASE x # n + 1 /\ y # n + 1
  <2>1. inflight[x].ppreg = inflight[y].ppreg /\ inflight[x].ppreg # 0
    BY <1>3 DEF After
  <2>2. x = y
    BY <1>1, <1>3, <2>1 DEF FullInv, IInv, Partition, PpregInjective
  <2>. QED  BY <1>3, <2>2 DEF Writes
<1>4. CASE (x = n + 1) # (y = n + 1)
  BY <1>1, <1>4 DEF After, FullInv, IInv, Partition, MappedNotRetiring
<1>. QED  BY <1>2, <1>3, <1>4

\* No two instructions in flight write the same register.
LEMMA WriterIsUnique ==
  ASSUME FullInv, NEW k \in Live, NEW l \in Live,
         inflight[k].preg = inflight[l].preg, inflight[k].preg # 0
  PROVE  k = l
<1> DEFINE n == Len(inflight)
<1>1. n \in Nat /\ k \in 1 .. n /\ l \in 1 .. n
  BY DEF FullInv, IInv, TypeOK, Live
<1>2. PICK x \in k + 1 .. n + 1 :
        /\ inflight[k].areg \in RenamedAreg
        /\ Linked(inflight[k].areg, k, x)
        /\ After(x, inflight[k].areg) = inflight[k].preg
  BY WriterIsFollowed
<1>3. PICK y \in l + 1 .. n + 1 :
        /\ inflight[l].areg \in RenamedAreg
        /\ Linked(inflight[l].areg, l, y)
        /\ After(y, inflight[l].areg) = inflight[k].preg
  BY WriterIsFollowed
<1>4. x = y /\ inflight[k].areg = inflight[l].areg
  <2>1. x \in 1 .. n + 1 /\ y \in 1 .. n + 1
    BY <1>1, <1>2, <1>3
  <2>. QED  BY <1>2, <1>3, <2>1, SupersededOnce DEF Linked
<1>5. /\ ~(l \in k + 1 .. x - 1)
      /\ ~(k \in l + 1 .. x - 1)
  BY <1>2, <1>3, <1>4 DEF Linked, Writes
<1>. QED  BY <1>1, <1>2, <1>3, <1>4, <1>5

\* ... and none writes a register that holds a committed value.
LEMMA CommittedIsNotWritten ==
  ASSUME FullInv, NEW k \in Live, NEW i \in RenamedAreg, inflight[k].preg # 0
  PROVE  inflight[k].preg # arch[i]
<1> SUFFICES ASSUME inflight[k].preg = arch[i] PROVE FALSE
  OBVIOUS
<1> DEFINE n == Len(inflight)
<1>1. n \in Nat /\ k \in 1 .. n /\ 0 \in 0 .. n
  BY DEF FullInv, IInv, TypeOK, Live
<1>2. PICK x \in k + 1 .. n + 1 :
        /\ inflight[k].areg \in RenamedAreg
        /\ Linked(inflight[k].areg, k, x)
        /\ After(x, inflight[k].areg) = inflight[k].preg
  BY WriterIsFollowed
<1>3. PICK y \in 0 + 1 .. n + 1 : Linked(i, 0, y)
  BY <1>1, NextInChain DEF FullInv
<1>4. x \in 1 .. n + 1 /\ y \in 1 .. n + 1
  BY <1>1, <1>2, <1>3
<1>5. After(y, i) = arch[i]
  <2>1. After(y, i) = Before(0, i)
    BY <1>1, <1>3, <1>4 DEF FullInv, Order, Chain
  <2>. QED  BY <2>1 DEF Before
<1>6. x = y /\ inflight[k].areg = i
  BY <1>2, <1>3, <1>4, <1>5, SupersededOnce DEF Linked
<1>7. Writes(k, i) /\ k \in 0 + 1 .. y - 1
  BY <1>1, <1>2, <1>3, <1>6 DEF Linked, Writes
<1>. QED  BY <1>3, <1>7 DEF Linked

\* A cycle extends a chain at its end when it renames the register, and takes
\* the first register away when its first writer commits.
LEMMA ChainStep ==
  ASSUME FullInv, NEW c \in {0, 1}, NEW k0 \in 0 .. MaxIssued, NEW areg \in Areg,
         NEW p \in Preg, NEW last \in {0, 1}, CycleEffect(k0, c, areg, p, last)
  PROVE  Chain'
<1> DEFINE n == Len(inflight)
           m == Len(inflight')
<1>1. /\ n \in Nat /\ n - c \in Nat
      /\ m = n - c + last
      /\ c = 1 => 1 \in 1 .. n
      /\ IInv
  BY DEF CycleEffect, PartitionEffect, FullInv, IInv, TypeOK, Live
<1>2. /\ p # 0 => areg # 0 /\ last = 1
      /\ p = 0 => areg = 0
      /\ \A i \in RenamedAreg :
           rename_table'[i].preg = IF p # 0 /\ i = areg THEN p ELSE rename_table[i].preg
      /\ \A j \in 1 .. n - c : /\ inflight'[j].areg = inflight[j + c].areg
                               /\ inflight'[j].preg = inflight[j + c].preg
                               /\ inflight'[j].ppreg = inflight[j + c].ppreg
      /\ last = 1 => /\ inflight'[m].areg = areg
                     /\ inflight'[m].preg = p
                     /\ inflight'[m].ppreg = alloc_ppreg(areg)
  BY DEF CycleEffect, PartitionEffect
<1> SUFFICES ASSUME NEW i \in RenamedAreg, NEW k \in 0 .. m, NEW l \in 1 .. m + 1,
                    Linked(i, k, l)'
             PROVE  After(l, i)' = Before(k, i)'
  BY DEF Chain
<1>3. /\ k < l
      /\ k = 0 \/ (k \in 1 .. m /\ inflight'[k].areg = i)
      /\ l = m + 1 \/ (l \in 1 .. m /\ inflight'[l].areg = i)
      /\ \A x \in k + 1 .. l - 1 : x \in 1 .. m => inflight'[x].areg # i
  BY DEF Linked, Writes, Live
<1>4. /\ After(l, i)' = IF l = m + 1 THEN rename_table'[i].preg ELSE inflight'[l].ppreg
      /\ Before(k, i)' = IF k = 0 THEN arch'[i] ELSE inflight'[k].preg
  BY DEF After, Before
<1>5. CASE p # 0 /\ i = areg /\ l = m + 1
  <2>1. m \in 1 .. m /\ inflight'[m].areg = i
    BY <1>1, <1>2, <1>5
  <2>2. k = m
    BY <1>1, <1>3, <1>5, <2>1
  <2>. QED  BY <1>2, <1>4, <1>5, <2>1, <2>2
<1>6. CASE ~(p # 0 /\ i = areg /\ l = m + 1)
  <2> DEFINE first == c = 1 /\ inflight[1].areg = i
             K == IF k = 0 THEN (IF first THEN 1 ELSE 0) ELSE k + c
             L == IF l <= n - c THEN l + c ELSE n + 1
  <2>1. k <= n - c
    <3> SUFFICES ASSUME k > n - c PROVE FALSE
      BY <1>1
    <3>1. last = 1 /\ k = m /\ inflight'[k].areg = i /\ l = m + 1
      BY <1>1, <1>3
    <3>. QED  BY <1>2, <1>6, <3>1
  <2>2. Before(k, i)' = Before(K, i)
    <3>1. CASE k = 0
      <4>1. arch' = NextArch(c) /\ arch \in [RenamedAreg -> Preg]
        BY DEF CycleEffect, FullInv, IInv, TypeOK
      <4>2. CASE first
        <5>1. arch'[i] = inflight[1].preg
          BY <4>1, <4>2 DEF NextArch
        <5>. QED  BY <1>4, <3>1, <4>2, <5>1 DEF Before
      <4>3. CASE ~first
        <5>1. arch'[i] = arch[i]
          BY <4>1, <4>3 DEF NextArch
        <5>. QED  BY <1>4, <3>1, <4>3, <5>1 DEF Before
      <4>. QED  BY <4>2, <4>3
    <3>2. CASE k # 0
      <4>1. k \in 1 .. n - c /\ K = k + c /\ K # 0
        BY <1>1, <2>1, <3>2
      <4>. QED  BY <1>2, <1>4, <3>2, <4>1 DEF Before
    <3>. QED  BY <3>1, <3>2
  <2>3. After(l, i)' = After(L, i)
    <3>1. CASE l <= n - c
      <4>1. l \in 1 .. n - c /\ L = l + c /\ L # n + 1 /\ l # m + 1
        BY <1>1, <3>1
      <4>. QED  BY <1>2, <1>4, <4>1 DEF After
    <3>2. CASE ~(l <= n - c)
      <4>1. L = n + 1
        BY <3>2
      <4>2. CASE l = m + 1
        BY <1>2, <1>4, <1>6, <4>1, <4>2 DEF After
      <4>3. CASE l # m + 1
        <5>1. last = 1 /\ l = m /\ areg = i
          BY <1>1, <1>2, <1>3, <3>2, <4>3
        <5>2. alloc_ppreg(areg) = rename_table[i].preg
          BY <5>1, NumAregsAssumption DEF alloc_ppreg
        <5>. QED  BY <1>2, <1>4, <4>1, <4>3, <5>1, <5>2 DEF After
      <4>. QED  BY <4>2, <4>3
    <3>. QED  BY <3>1, <3>2
  <2>4. K \in 0 .. n /\ L \in 1 .. n + 1 /\ K < L
    <3>1. CASE k = 0
      BY <1>1, <2>1, <3>1
    <3>2. CASE k # 0
      BY <1>1, <1>3, <2>1, <3>2
    <3>. QED  BY <3>1, <3>2
  <2>5. Linked(i, K, L)
    <3>1. K = 0 \/ Writes(K, i)
      <4>1. CASE k = 0
        BY <1>1, <4>1 DEF Writes, Live
      <4>2. CASE k # 0
        <5>1. k \in 1 .. n - c /\ K = k + c /\ K \in 1 .. n
          BY <1>1, <2>1, <4>2
        <5>. QED  BY <1>2, <1>3, <4>2, <5>1 DEF Writes, Live
      <4>. QED  BY <4>1, <4>2
    <3>2. L = n + 1 \/ Writes(L, i)
      <4>1. CASE l <= n - c
        <5>1. l \in 1 .. n - c /\ L = l + c /\ L \in 1 .. n /\ l # m + 1
          BY <1>1, <4>1
        <5>. QED  BY <1>2, <1>3, <5>1 DEF Writes, Live
      <4>2. CASE ~(l <= n - c)
        BY <4>2
      <4>. QED  BY <4>1, <4>2
    <3>3. ASSUME NEW x \in K + 1 .. L - 1, Writes(x, i) PROVE FALSE
      <4>1. x \in 1 .. n /\ inflight[x].areg = i
        BY <3>3 DEF Writes, Live
      <4>2. CASE x - c = 0
        <5>1. x = 1 /\ c = 1 /\ first
          BY <1>1, <4>1, <4>2
        <5>. QED  BY <1>1, <2>4, <3>3, <5>1
      <4>3. CASE x - c # 0
        <5>1. x - c \in 1 .. n - c /\ x - c \in 1 .. m /\ (x - c) + c = x
          <6>1. n - c <= m
            BY <1>1
          <6> HIDE DEF n, m
          <6>. QED  BY <1>1, <4>1, <4>3, <6>1
        <5>2. x - c \in k + 1 .. l - 1
          <6>1. x - c >= k + 1
            BY <1>1, <3>3, <5>1, <2>4
          <6>2. x - c <= l - 1
            BY <1>1, <3>3, <5>1, <2>4
          <6>. QED  BY <6>1, <6>2, <5>1
        <5>3. inflight'[x - c].areg = i
          BY <1>2, <4>1, <5>1
        <5>. QED  BY <1>3, <5>1, <5>2, <5>3
      <4>. QED  BY <4>2, <4>3
    <3>. QED  BY <2>4, <3>1, <3>2, <3>3 DEF Linked
  <2>. QED  BY <2>2, <2>3, <2>4, <2>5 DEF FullInv, Order, Chain
<1>. QED  BY <1>5, <1>6

\* Pending bits stay exact: only the running writer of an entry's register
\* clears its bit, and a new entry gets a register nobody else writes.
LEMMA PendingStep ==
  ASSUME FullInv, NEW c \in {0, 1}, NEW k0 \in 0 .. MaxIssued, NEW areg \in Areg,
         NEW p \in Preg, NEW last \in {0, 1}, CycleEffect(k0, c, areg, p, last)
  PROVE  Named' /\ PendingIsRunning'
<1> DEFINE n == Len(inflight)
           m == Len(inflight')
<1>1. /\ n \in Nat /\ n - c \in Nat
      /\ m = n - c + last
      /\ c = 1 => 1 \in Live /\ inflight[1].done
      /\ k0 = 0 \/ (k0 \in Live /\ ~inflight[k0].done)
  BY DEF CycleEffect, PartitionEffect, FullInv, IInv, TypeOK, MayCommit, MayComplete, Live
<1>2. /\ p # 0 => areg # 0 /\ last = 1 /\ free_list[p]
      /\ p = 0 => areg = 0
      /\ \A i \in RenamedAreg :
           /\ rename_table'[i].preg = IF p # 0 /\ i = areg THEN p ELSE rename_table[i].preg
           /\ rename_table'[i].pending <=>
                \/ p # 0 /\ i = areg
                \/ rename_table[i].pending /\ ~(k0 # 0 /\ inflight[k0].preg = rename_table[i].preg)
      /\ \A j \in 1 .. n - c : /\ j + c \in Live
                               /\ inflight'[j].areg = inflight[j + c].areg
                               /\ inflight'[j].preg = inflight[j + c].preg
                               /\ inflight'[j].done <=> inflight[j + c].done \/ j + c = k0
      /\ last = 1 => /\ inflight'[m].areg = areg
                     /\ inflight'[m].preg = p
                     /\ ~inflight'[m].done
  BY DEF CycleEffect, PartitionEffect
<1>3. \A j \in Live' : j \in 1 .. n - c \/ (j = m /\ last = 1)
  BY <1>1 DEF Live
<1>4. Named'
  <2> SUFFICES ASSUME NEW j \in Live'
               PROVE  inflight'[j].areg = 0 <=> inflight'[j].preg = 0
    BY DEF Named
  <2>1. CASE j \in 1 .. n - c
    BY <1>2, <2>1 DEF FullInv, Order, Named
  <2>2. CASE j = m /\ last = 1
    BY <1>2, <2>2
  <2>. QED  BY <1>3, <2>1, <2>2
<1>5. ASSUME NEW i \in RenamedAreg
      PROVE  rename_table'[i].pending <=>
               \E k \in Live' : inflight'[k].preg = rename_table'[i].preg /\ ~inflight'[k].done
  <2>1. CASE p # 0 /\ i = areg
    <3>1. m \in Live'
      BY <1>1, <1>2, <2>1 DEF Live
    <3>. QED  BY <1>2, <2>1, <3>1
  <2>2. CASE ~(p # 0 /\ i = areg)
    <3>1. /\ rename_table'[i].preg = rename_table[i].preg
          /\ rename_table[i].preg \in RenamedPreg
          /\ rename_table[i].preg # 0
      BY <1>2, <2>2, NumPregsAssumption, NumAregsAssumption DEF FullInv, IInv, TypeOK
    <3>2. last = 1 => p # rename_table[i].preg
      <4>1. p # 0 => p \in RenamedPreg /\ free_list[p]
        BY <1>2
      <4>. QED  BY <3>1, <4>1 DEF FullInv, IInv, Partition, FreeIsTheRest
    <3>3. ASSUME rename_table'[i].pending
          PROVE  \E k \in Live' : inflight'[k].preg = rename_table[i].preg /\ ~inflight'[k].done
      <4>1. rename_table[i].pending /\ ~(k0 # 0 /\ inflight[k0].preg = rename_table[i].preg)
        BY <1>2, <2>2, <3>3
      <4>2. PICK k \in Live : inflight[k].preg = rename_table[i].preg /\ ~inflight[k].done
        BY <4>1 DEF FullInv, Order, PendingIsRunning
      <4>3. /\ k - c \in 1 .. n - c /\ (k - c) + c = k
            /\ k - c \in Live' /\ k # k0
        <5>1. c = 1 => k # 1
          BY <1>1, <4>2, Zenon
        <5>2. k \in 1 .. n /\ k # k0
          BY <1>1, <4>1, <4>2 DEF Live
        <5>3. k - c \in 1 .. n - c /\ (k - c) + c = k
          <6> HIDE DEF n
          <6>. QED  BY <1>1, <5>1, <5>2
        <5>4. Live' = 1 .. m
          BY DEF Live
        <5>5. k - c \in 1 .. m
          <6> HIDE DEF n, m
          <6>. QED  BY <1>1, <5>3
        <5>. QED  BY <5>2, <5>3, <5>4, <5>5
      <4>4. /\ inflight'[k - c].preg = inflight[(k - c) + c].preg
            /\ inflight'[k - c].done <=> inflight[(k - c) + c].done \/ (k - c) + c = k0
        BY <1>2, <4>3
      <4>5. inflight'[k - c].preg = rename_table[i].preg /\ ~inflight'[k - c].done
        BY <4>2, <4>3, <4>4
      <4>. QED  BY <4>3, <4>5
    <3>4. ASSUME NEW j \in Live', inflight'[j].preg = rename_table[i].preg, ~inflight'[j].done
          PROVE  rename_table'[i].pending
      <4>1. j \in 1 .. n - c
        BY <1>2, <1>3, <3>2, <3>4
      <4>2. /\ j + c \in Live /\ j + c # k0
            /\ inflight[j + c].preg = rename_table[i].preg /\ ~inflight[j + c].done
        BY <1>2, <3>4, <4>1
      <4>3. rename_table[i].pending
        BY <4>2 DEF FullInv, Order, PendingIsRunning
      <4>4. ~(k0 # 0 /\ inflight[k0].preg = rename_table[i].preg)
        BY <1>1, <3>1, <4>2, WriterIsUnique
      <4>. QED  BY <1>2, <4>3, <4>4
    <3>. QED  BY <3>1, <3>3, <3>4
  <2>. QED  BY <2>1, <2>2
<1>. QED  BY <1>4, <1>5 DEF PendingIsRunning

\* Every step keeps the order of the table and the meaning of the pending bits.
LEMMA FullStep == FullInv /\ [Next]_vars => FullInv'
<1>1. ASSUME FullInv, Next PROVE FullInv'
  <2>1. PICK k \in 0 .. MaxIssued, c \in {0, 1}, areg \in Areg, p \in Preg, last \in {0, 1} :
          CycleEffect(k, c, areg, p, last)
    BY <1>1, NextEffect DEF FullInv
  <2>2. IInv'
    BY <1>1, InductiveStep DEF FullInv
  <2>. QED  BY <1>1, <2>1, <2>2, ChainStep, PendingStep DEF FullInv, Order
<1>2. ASSUME FullInv, UNCHANGED vars PROVE FullInv'
  <2>1. IInv'
    BY <1>2, InductiveStep DEF FullInv
  <2>2. Order'
    BY <1>2 DEF vars, FullInv, Order, Named, Chain, PendingIsRunning, Linked, Writes,
                Before, After, Live
  <2>. QED  BY <2>1, <2>2 DEF FullInv
<1>. QED  BY <1>1, <1>2

\* Initially the table and the committed registers are the same.
LEMMA InitFull == Init => FullInv
<1> SUFFICES ASSUME Init PROVE FullInv
  OBVIOUS
<1>1. Len(inflight) = 0 /\ Live = {}
  BY DEF Init, Live
<1>2. Chain
  BY <1>1 DEF Init, Chain, Linked, Writes, Before, After
<1>3. Named /\ PendingIsRunning
  BY <1>1 DEF Init, Named, PendingIsRunning
<1>. QED  BY <1>2, <1>3, InitIInv DEF FullInv, Order

\* So they hold in every state.
LEMMA FullInvariant == Spec => []FullInv
BY InitFull, FullStep, PTL DEF Spec

-----------------------------------------------------------------------------

\* The table is the committed state overwritten in program order, and commit
\* frees the register with the value committed before.
THEOREM TableIsInOrder == Spec => []TableIsProgramOrder
<1>1. ASSUME FullInv PROVE TableIsProgramOrder
  <2> DEFINE n == Len(inflight)
  <2>0. n \in Nat
    BY <1>1 DEF FullInv, IInv, TypeOK
  <2>1. ASSUME NEW i \in RenamedAreg, LastWriter(i) = {}
        PROVE  rename_table[i].preg = arch[i]
    <3>1. PICK k \in 0 .. n : Linked(i, k, n + 1)
      BY <1>1, LastInChain DEF FullInv
    <3>2. k = 0
      BY <2>0, <2>1, <3>1 DEF Linked, Writes, LastWriter, Live
    <3>3. After(n + 1, i) = Before(0, i)
      BY <1>1, <2>0, <3>1, <3>2 DEF FullInv, Order, Chain
    <3>. QED  BY <3>3 DEF After, Before
  <2>2. ASSUME NEW i \in RenamedAreg, NEW k \in LastWriter(i)
        PROVE  rename_table[i].preg = inflight[k].preg
    <3>1. k \in 0 .. n /\ k # 0 /\ Linked(i, k, n + 1)
      BY <2>0 DEF LastWriter, Linked, Writes, Live
    <3>2. After(n + 1, i) = Before(k, i)
      BY <1>1, <2>0, <3>1 DEF FullInv, Order, Chain
    <3>. QED  BY <3>1, <3>2 DEF After, Before
  <2>3. ASSUME NEW k \in Live, inflight[k].areg # 0,
               \A l \in 1 .. k - 1 : inflight[l].areg # inflight[k].areg
        PROVE  inflight[k].ppreg = arch[inflight[k].areg]
    <3>1. k \in 1 .. n /\ k # n + 1
      BY <2>0 DEF Live
    <3>2. inflight[k] \in Issued
      BY <1>1, <3>1, ElementOfSeq DEF FullInv, IInv, TypeOK
    <3>3. inflight[k].areg \in RenamedAreg
      BY <2>3, <3>2, NumAregsAssumption DEF Issued
    <3>4. Linked(inflight[k].areg, 0, k)
      BY <2>0, <2>3, <3>1 DEF Linked, Writes, Live
    <3>5. After(k, inflight[k].areg) = Before(0, inflight[k].areg)
      BY <1>1, <2>0, <3>1, <3>3, <3>4 DEF FullInv, Order, Chain
    <3>. QED  BY <3>1, <3>5 DEF After, Before
  <2>. QED  BY <2>1, <2>2, <2>3 DEF TableIsProgramOrder
<1>. QED  BY <1>1, FullInvariant, PTL

\* A pending bit says exactly that the last writer has not completed.
THEOREM PendingBitsExact == Spec => []PendingIsExact
<1>1. ASSUME FullInv PROVE PendingIsExact
  <2> DEFINE n == Len(inflight)
  <2>0. n \in Nat
    BY <1>1 DEF FullInv, IInv, TypeOK
  <2>1. ASSUME NEW k \in {0} \cup Live, MayComplete(k), NEW i \in RenamedAreg,
               ~lookup_pending(i, Notif(k)), NEW w \in LastWriter(i)
        PROVE  inflight[w].done \/ w = k
    <3>1. w \in Live /\ w \in 0 .. n /\ w # 0 /\ Linked(i, w, n + 1)
      BY <2>0 DEF LastWriter, Linked, Writes, Live
    <3>2. After(n + 1, i) = Before(w, i)
      BY <1>1, <2>0, <3>1 DEF FullInv, Order, Chain
    <3>3. inflight[w].preg = rename_table[i].preg
      BY <3>1, <3>2 DEF After, Before
    <3>4. rename_table[i].preg # 0
      BY <1>1, NumPregsAssumption, NumAregsAssumption DEF FullInv, IInv, TypeOK
    <3>5. CASE ~rename_table[i].pending
      BY <1>1, <3>1, <3>3, <3>5 DEF FullInv, Order, PendingIsRunning
    <3>6. CASE Notif(k).preg = lookup_preg(i)
      <4>1. lookup_preg(i) = rename_table[i].preg
        BY NumAregsAssumption DEF lookup_preg
      <4>2. k \in Live /\ inflight[k].preg = rename_table[i].preg
        BY <3>4, <3>6, <4>1 DEF Notif, NoNotif
      <4>. QED  BY <1>1, <3>1, <3>3, <3>4, <4>2, WriterIsUnique
    <3>. QED  BY <2>1, <3>5, <3>6, NumAregsAssumption DEF lookup_pending
  <2>2. ASSUME NEW i \in RenamedAreg, rename_table[i].pending
        PROVE  \E w \in LastWriter(i) : ~inflight[w].done
    <3>1. PICK w \in Live : inflight[w].preg = rename_table[i].preg /\ ~inflight[w].done
      BY <1>1, <2>2 DEF FullInv, Order, PendingIsRunning
    <3>2. Linked(i, w, n + 1)
      BY <1>1, <3>1, HolderIsLast
    <3>3. w \in LastWriter(i)
      BY <2>0, <3>1, <3>2 DEF Linked, Writes, LastWriter, Live
    <3>. QED  BY <3>1, <3>3
  <2>. QED  BY <2>1, <2>2 DEF PendingIsExact, ReadyIsDone, PendingIsNotDone
<1>. QED  BY <1>1, FullInvariant, PTL

\* No register is handed out again while an instruction in flight has still
\* to write it.
THEOREM WritersKeepTheirRegisters == Spec => []NoWriteAfterFree
<1>1. ASSUME FullInv PROVE NoWriteAfterFree
  <2> SUFFICES ASSUME NEW k \in Live, inflight[k].preg # 0, free_list[inflight[k].preg]
               PROVE  FALSE
    BY DEF NoWriteAfterFree
  <2> DEFINE n == Len(inflight)
             i == inflight[k].areg
  <2>1. n \in Nat /\ k \in 1 .. n
    BY <1>1 DEF FullInv, IInv, TypeOK, Live
  <2>2. inflight[k] \in Issued
    BY <1>1, <2>1, ElementOfSeq DEF FullInv, IInv, TypeOK
  <2>3. i \in RenamedAreg /\ inflight[k].preg \in RenamedPreg
    BY <1>1, <2>2, NumAregsAssumption, NumPregsAssumption DEF FullInv, Order, Named, Issued
  <2>4. PICK l \in k + 1 .. n + 1 : Linked(i, k, l)
    <3>1. k \in 0 .. n /\ Writes(k, i) /\ IInv
      BY <1>1, <2>1 DEF FullInv, Writes
    <3>. QED  BY <2>3, <3>1, NextInChain
  <2>5. After(l, i) = inflight[k].preg
    <3>1. k \in 0 .. n /\ l \in 1 .. n + 1 /\ k # 0
      BY <2>1, <2>4
    <3>2. After(l, i) = Before(k, i)
      BY <1>1, <2>3, <2>4, <3>1 DEF FullInv, Order, Chain
    <3>. QED  BY <3>1, <3>2 DEF Before
  <2>6. l = n + 1 \/ l \in Live
    BY <2>1, <2>4 DEF Live
  <2>. QED  BY <1>1, <2>3, <2>5, <2>6 DEF After, FullInv, IInv, Partition, FreeIsTheRest
<1>. QED  BY <1>1, FullInvariant, PTL
=============================================================================
