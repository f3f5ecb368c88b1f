---------------------------- MODULE KvCache_proofs ----------------------------
(***************************************************************************)
(* Theorems of KvCache, for every number of cells and sequences, all       *)
(* batches, windows and moves: every call keeps the indexes of the cells   *)
(* exact and the keys rotated as their positions say.                      *)
(***************************************************************************)
EXTENDS KvCells_proofs

-----------------------------------------------------------------------------
(* The cache: its methods *)

IsKv(k) == DOMAIN k = {"cells", "head", "data"} /\ CellsInv(k.cells) /\ k.head \in 0..NCells

LEMMA AfterFreeingIs ==
    ASSUME NEW k, IsKv(k), NEW c, CellsInv(c), NEW d, d = AfterFreeing(k, c)
    PROVE  IsKv(d) /\ d.cells = c /\ d.data = k.data
<1> DEFINE freed == Freed(k.cells, c)
           head == IF freed # {} /\ Min(freed) < k.head THEN Min(freed) ELSE k.head
<1>1. DOMAIN d = DOMAIN k /\ d.cells = c /\ d.data = k.data /\ d.head = head
  BY DEF AfterFreeing, IsKv
<1>2. head \in 0..NCells
  <2>1. freed \subseteq Cell /\ Cell \subseteq 0..NCells /\ freed \subseteq Int /\ IsFiniteSet(freed)
    BY CellFinite, CellsAssumption DEF Freed, Cell
  <2>2. freed # {} => Min(freed) \in 0..NCells
    BY <2>1, LeastIn
  <2> HIDE DEF freed
  <2> QED BY <2>2 DEF IsKv
<1> QED BY <1>1, <1>2 DEF IsKv

LEMMA OfSeqIs == ASSUME NEW c, NEW s, NEW p0, NEW p1
                 PROVE  /\ OfSeq(c, s, p0, p1) \subseteq Cell
                        /\ \A i \in OfSeq(c, s, p0, p1) : c.pos[i] # -1 /\ s \in c.seq[i]
BY DEF OfSeq, InRange, IsEmpty

LEMMA SeqRemoveIs ==
    ASSUME NEW k, IsKv(k), NEW s \in Seqs, NEW p0, NEW p1, NEW d, d = SeqRemove(k, s, p0, p1)
    PROVE  /\ IsKv(d) /\ Shrinks(d.cells, k.cells) /\ d.data = k.data
           /\ \A i \in OfSeq(k.cells, s, p0, p1) : s \notin d.cells.seq[i]
<1> DEFINE I == OfSeq(k.cells, s, p0, p1)
           e == Each(LAMBDA acc, i : SeqRm(acc, i, s), k.cells, I)
<1>1. I \subseteq Cell /\ \A i \in I : s \in k.cells.seq[i]
  BY OfSeqIs
<1>2. CellsInv(k.cells)
  BY DEF IsKv
<1>3. d = AfterFreeing(k, e)
  BY Zenon DEF SeqRemove
<1> HIDE DEF I
<1>4. SeqRmLeaves(e, I, k.cells, s, 0)
  BY Zenon, <1>1, <1>2, SeqRmEach
<1> HIDE DEF e
<1>5. Shrinks(e, k.cells) /\ CellsInv(e) /\ \A i \in I : s \notin e.seq[i]
  BY <1>4 DEF SeqRmLeaves, Shrinks
<1>6. IsKv(d) /\ d.cells = e /\ d.data = k.data
  BY <1>3, <1>5, AfterFreeingIs
<1> QED BY <1>5, <1>6 DEF I

LEMMA HeldIs ==
    ASSUME NEW k, IsKv(k), NEW d, d = Held(k)
    PROVE  /\ IsKv(d) /\ d.cells = k.cells /\ d.head = k.head
           /\ DOMAIN d.data = k.cells.used /\ \A i \in k.cells.used : d.data[i] = k.data[i]
<1>1. /\ DOMAIN d = DOMAIN k /\ d.cells = k.cells /\ d.head = k.head
      /\ d.data = [i \in k.cells.used |-> k.data[i]]
  BY DEF Held, IsKv
<1> QED BY <1>1 DEF IsKv

-----------------------------------------------------------------------------
(* Placing a ubatch *)

Slot(h, ub) == h..h+Len(ub)-1
Over(k, h, ub) == {i \in Slot(h, ub) : ~IsEmpty(k.cells, i)}
Lost(k, h, ub, s) == {k.cells.pos[i] : i \in {j \in Over(k, h, ub) : k.cells.seq[j] = {s}}}

IsUbatch(ub) == ub \in Seq([seq : Seqs, pos : Nat])

LEMMA UbatchToken ==
    ASSUME NEW ub, IsUbatch(ub), NEW h \in 0..NCells-Len(ub), NEW i \in Slot(h, ub)
    PROVE  i \in Cell /\ ub[i-h+1].pos \in Nat /\ ub[i-h+1].seq \in Seqs
<1> DEFINE n == Len(ub)
<1>1. n \in Nat /\ \A j \in 1..n : ub[j] \in [seq : Seqs, pos : Nat]
  BY Zenon, ElementOfSeq, LenProperties DEF IsUbatch
<1>2. h \in 0..NCells-n /\ i \in h..h+n-1
  BY DEF Slot
<1> HIDE DEF n
<1>3. i \in Cell /\ i-h+1 \in 1..n
  BY <1>1, <1>2, CellsAssumption DEF Cell
<1> QED BY <1>1, <1>3

PutStep(i, acc, c, h, ub) == SeqAdd(PosSet(acc, i, ub[i-h+1].pos), i, ub[i-h+1].seq)
PutLeaves(acc, T, c, h, ub) ==
    /\ CellsInv(acc) /\ acc.hasShift = c.hasShift
    /\ Untouched(acc, c, T)
    /\ \A j \in Cell : acc.shift[j] = c.shift[j]
    /\ \A j \in T : acc.pos[j] = ub[j-h+1].pos /\ acc.seq[j] = {ub[j-h+1].seq}
PutFold == INSTANCE Folding WITH Step <- PutStep, Keeps <- PutLeaves, Pick <- SomeOf

LEMMA PutEach ==
    ASSUME NEW c, CellsInv(c), NEW ub, IsUbatch(ub), NEW h \in 0..NCells-Len(ub),
           \A i \in Slot(h, ub) : c.pos[i] = -1
    PROVE  PutLeaves(Each(LAMBDA acc, i : SeqAdd(PosSet(acc, i, ub[i-h+1].pos), i, ub[i-h+1].seq), c, Slot(h, ub)),
                     Slot(h, ub), c, h, ub)
<1> DEFINE I == Slot(h, ub)
<1>1. Each(LAMBDA acc, i : SeqAdd(PosSet(acc, i, ub[i-h+1].pos), i, ub[i-h+1].seq), c, I) = PutFold!Folded(c, I, c, h, ub)
  BY DEF Each, FoldSet, MapThenFoldSet, PutFold!Folded, PutStep, SomeOf
<1>2. \A i \in I : i \in Cell /\ ub[i-h+1].pos \in Nat /\ ub[i-h+1].seq \in Seqs /\ c.pos[i] = -1
  BY UbatchToken
<1> HIDE DEF I
<1>3. PutFold!IsFiniteSet(I)
  <2>1. I \subseteq Cell
    BY <1>2
  <2> QED BY <2>1, CellFinite DEF IsFiniteSet, PutFold!IsFiniteSet
<1>4. \A T \in SUBSET I : T # {} => SomeOf(T) \in T
  BY SomeIn
<1>5. PutLeaves(c, {}, c, h, ub)
  BY DEF PutLeaves, Untouched
<1>6. ASSUME NEW T \in SUBSET I, T # {}, NEW acc, PutLeaves(acc, T \ {SomeOf(T)}, c, h, ub)
      PROVE  PutLeaves(PutStep(SomeOf(T), acc, c, h, ub), T, c, h, ub)
  <2> DEFINE i == SomeOf(T)
             p == ub[i-h+1].pos
             s == ub[i-h+1].seq
             sh == acc.shift[i]
             e == PosSet(acc, i, p)
             d == SeqAdd(e, i, s)
  <2>1. i \in T /\ i \in Cell /\ c.pos[i] = -1 /\ p \in Nat /\ s \in Seqs
    BY <1>2, <1>6, SomeIn
  <2>2. /\ CellsInv(acc) /\ acc.hasShift = c.hasShift
        /\ Untouched(acc, c, T \ {i})
        /\ \A j \in Cell : acc.shift[j] = c.shift[j]
        /\ \A j \in T \ {i} : acc.pos[j] = ub[j-h+1].pos /\ acc.seq[j] = {ub[j-h+1].seq}
    BY <1>6 DEF PutLeaves
  <2>3. acc.pos[i] = -1
    BY <2>1, <2>2 DEF Untouched
  <2> HIDE DEF i
  <2>4. p = ub[i-h+1].pos /\ s = ub[i-h+1].seq
    OBVIOUS
  <2> HIDE DEF p, s
  <2>5. CellsInv(e) /\ e.hasShift = acc.hasShift /\ Changed(e, acc, i, p, sh, {})
    BY <2>1, <2>2, <2>3, PosSetIs
  <2> DEFINE n == {}
  <2>6. Changed(e, acc, i, p, sh, n) /\ n = {} /\ sh = acc.shift[i]
    BY <2>5
  <2> HIDE DEF n, sh, e
  <2>7. /\ \A j \in Cell : e.pos[j] = IF j = i THEN p ELSE acc.pos[j]
        /\ \A j \in Cell : e.shift[j] = IF j = i THEN sh ELSE acc.shift[j]
        /\ \A j \in Cell : e.seq[j] = IF j = i THEN n ELSE acc.seq[j]
    BY <2>1, <2>2, <2>6, ChangedCells
  <2>8. e.pos[i] # -1 /\ s \notin e.seq[i]
    BY <2>1, <2>6, <2>7
  <2> DEFINE q == e.pos[i]
             sf == e.shift[i]
             S == e.seq[i] \cup {s}
  <2>9. CellsInv(d) /\ d.hasShift = e.hasShift /\ Changed(d, e, i, q, sf, S)
    BY Zenon, <2>1, <2>5, <2>8, SeqAddIs
  <2>10. q = p /\ sf = sh /\ S = {s}
    BY <2>1, <2>6, <2>7
  <2> HIDE DEF d, q, sf, S
  <2>11. /\ \A j \in Cell : d.pos[j] = IF j = i THEN q ELSE e.pos[j]
         /\ \A j \in Cell : d.shift[j] = IF j = i THEN sf ELSE e.shift[j]
         /\ \A j \in Cell : d.seq[j] = IF j = i THEN S ELSE e.seq[j]
    BY <2>1, <2>5, <2>9, ChangedCells
  <2>12. Untouched(d, c, T)
    BY <2>1, <2>2, <2>7, <2>11 DEF Untouched
  <2>13. \A j \in Cell : d.shift[j] = c.shift[j]
    BY <2>1, <2>2, <2>6, <2>7, <2>10, <2>11
  <2>14. \A j \in T : d.pos[j] = ub[j-h+1].pos /\ d.seq[j] = {ub[j-h+1].seq}
    <3> SUFFICES ASSUME NEW j \in T PROVE d.pos[j] = ub[j-h+1].pos /\ d.seq[j] = {ub[j-h+1].seq}
      OBVIOUS
    <3>1. j \in Cell
      BY <1>2
    <3>2. CASE j = i
      BY <2>1, <2>4, <2>10, <2>11, <3>2
    <3>3. CASE j # i
      BY <2>2, <2>7, <2>11, <3>1, <3>3
    <3> QED BY <3>2, <3>3
  <2>15. PutLeaves(d, T, c, h, ub)
    BY <2>2, <2>5, <2>9, <2>12, <2>13, <2>14 DEF PutLeaves
  <2> QED BY <2>15 DEF PutStep, i, p, s, e, d
<1>7. \A T \in SUBSET I : T # {} => \A acc :
          PutLeaves(acc, T \ {SomeOf(T)}, c, h, ub) => PutLeaves(PutStep(SomeOf(T), acc, c, h, ub), T, c, h, ub)
  BY <1>6
<1>8. PutFold!Inductive(c, I, c, h, ub)
  BY <1>3, <1>4, <1>5, <1>7 DEF PutFold!Inductive
<1>9. PutLeaves(PutFold!Folded(c, I, c, h, ub), I, c, h, ub)
  BY <1>8, PutFold!FoldKeeps
<1> QED BY Zenon, <1>1, <1>9 DEF I

PutCells(k, h, ub) ==
    Each(LAMBDA c, i : SeqAdd(PosSet(c, i, ub[i-h+1].pos), i, ub[i-h+1].seq),
         Each(Rm, k.cells, Over(k, h, ub)), Slot(h, ub))
PutKv(k, h, ub) == [k EXCEPT !.cells = PutCells(k, h, ub)]
Purged(k, h, ub) ==
    FoldSet(LAMBDA s, acc : SeqRemove(acc, s, 0, Max(Lost(k, h, ub, s)) + 1),
            PutKv(k, h, ub), {s \in Seqs : Lost(k, h, ub, s) # {}})

PurgeStep(s, acc, k, h, ub) == SeqRemove(acc, s, 0, Max(Lost(k, h, ub, s)) + 1)
PurgeLeaves(acc, T, k, h, ub) == IsKv(acc) /\ Shrinks(acc.cells, PutCells(k, h, ub)) /\ acc.data = k.data
PurgeFold == INSTANCE Folding WITH Step <- PurgeStep, Keeps <- PurgeLeaves, Pick <- SomeOf

LEMMA SeqsFinite == ASSUME NEW T, T \subseteq Seqs PROVE IsFiniteSet(T)
<1>1. IsFiniteSet(Seqs)
  BY CellsAssumption, FS_Interval DEF Seqs
<1> QED BY <1>1, FS_Subset

LEMMA PutCellsIs ==
    ASSUME NEW k, IsKv(k), NEW ub, IsUbatch(ub), NEW h \in 0..NCells-Len(ub), NEW c, c = PutCells(k, h, ub)
    PROVE  /\ CellsInv(c) /\ c.hasShift = k.cells.hasShift
           /\ Untouched(c, k.cells, Slot(h, ub))
           /\ \A j \in Slot(h, ub) : /\ c.pos[j] = ub[j-h+1].pos /\ c.seq[j] = {ub[j-h+1].seq}
                                     /\ Calm(k.cells) => c.shift[j] = 0
<1> DEFINE b == k.cells
           O == Over(k, h, ub)
           I == Slot(h, ub)
           e == Each(Rm, b, O)
<1>1. CellsInv(b) /\ I \subseteq Cell /\ O = {i \in I : b.pos[i] # -1}
  BY UbatchToken DEF IsKv, Over, IsEmpty
<1>2. c = Each(LAMBDA acc, i : SeqAdd(PosSet(acc, i, ub[i-h+1].pos), i, ub[i-h+1].seq), e, I)
  BY Zenon DEF PutCells
<1> HIDE DEF b, O
<1>3. CellsInv(e) /\ e.hasShift = b.hasShift /\ Loses(e, b) /\ Untouched(e, b, O) /\ \A j \in O : e.pos[j] = -1
  <2>1. O \subseteq Cell
    BY <1>1
  <2>2. RmLeaves(e, O, b, 0, 0)
    BY <1>1, <2>1, RmEach
  <2> QED BY <2>2 DEF RmLeaves, Shrinks
<1> HIDE DEF e
<1>4. \A i \in I : e.pos[i] = -1
  BY <1>1, <1>3 DEF Untouched
<1>5. PutLeaves(c, I, e, h, ub)
  BY Zenon, <1>2, <1>3, <1>4, PutEach DEF I
<1> HIDE DEF I
<1>6. /\ CellsInv(c) /\ c.hasShift = e.hasShift /\ Untouched(c, e, I)
      /\ \A j \in Cell : c.shift[j] = e.shift[j]
      /\ \A j \in I : c.pos[j] = ub[j-h+1].pos /\ c.seq[j] = {ub[j-h+1].seq}
  BY <1>5 DEF PutLeaves
<1>7. Untouched(c, b, I)
  BY <1>1, <1>3, <1>6 DEF Untouched
<1>8. ASSUME NEW j \in I, Calm(b) PROVE c.shift[j] = 0
  <2>1. j \in Cell /\ e.pos[j] = -1 /\ c.shift[j] = e.shift[j]
    BY <1>1, <1>4, <1>6
  <2>2. Calm(e)
    BY <1>1, <1>3, <1>8, LosesTracks
  <2> QED BY <2>1, <2>2 DEF Calm
<1>9. CellsInv(c) /\ c.hasShift = b.hasShift
  BY <1>3, <1>6
<1> QED BY <1>6, <1>7, <1>8, <1>9 DEF b, I

\* The cells of the slot hold the ubatch, the others what they held; some
\* tokens may be gone.
Applied(d, k, h, ub) ==
    /\ IsKv(d) /\ d.data = k.data /\ d.cells.hasShift = k.cells.hasShift
    /\ \A j \in Cell :
           \/ d.cells.pos[j] = -1 /\ d.cells.shift[j] = 0
           \/ /\ j \in Slot(h, ub)
              /\ d.cells.pos[j] = ub[j-h+1].pos /\ d.cells.seq[j] = {ub[j-h+1].seq}
              /\ Calm(k.cells) => d.cells.shift[j] = 0
           \/ /\ j \notin Slot(h, ub)
              /\ d.cells.pos[j] = k.cells.pos[j] /\ d.cells.shift[j] = k.cells.shift[j]

LEMMA ApplyUbatchIs ==
    ASSUME NEW k, IsKv(k), NEW ub, IsUbatch(ub), NEW h \in 0..NCells-Len(ub)
    PROVE  Applied(ApplyUbatch(k, h, ub), k, h, ub)
<1> DEFINE I == {s \in Seqs : Lost(k, h, ub, s) # {}}
           c == PutCells(k, h, ub)
           e == Purged(k, h, ub)
           d == ApplyUbatch(k, h, ub)
<1>1. d = [e EXCEPT !.head = AfterSlot(h, ub)]
  BY DEF ApplyUbatch, Purged, PutKv, PutCells, Lost, Over, Slot
<1>2. e = PurgeFold!Folded(PutKv(k, h, ub), I, k, h, ub)
  BY DEF Purged, FoldSet, MapThenFoldSet, PurgeFold!Folded, PurgeStep, SomeOf
<1> HIDE DEF d, e
<1>3. PurgeFold!IsFiniteSet(I)
  BY Zenon, SeqsFinite DEF IsFiniteSet, PurgeFold!IsFiniteSet
<1>4. \A T \in SUBSET I : T # {} => SomeOf(T) \in T
  BY SomeIn
<1>5. /\ CellsInv(c) /\ c.hasShift = k.cells.hasShift
      /\ Untouched(c, k.cells, Slot(h, ub))
      /\ \A j \in Slot(h, ub) : /\ c.pos[j] = ub[j-h+1].pos /\ c.seq[j] = {ub[j-h+1].seq}
                                /\ Calm(k.cells) => c.shift[j] = 0
  BY PutCellsIs
<1> HIDE DEF c
<1>6. PurgeLeaves(PutKv(k, h, ub), {}, k, h, ub)
  <2> DEFINE b == PutKv(k, h, ub)
  <2>1. DOMAIN b = DOMAIN k /\ b.cells = c /\ b.head = k.head /\ b.data = k.data
    BY DEF PutKv, IsKv, c
  <2> HIDE DEF b
  <2>2. IsKv(b)
    BY <1>5, <2>1 DEF IsKv
  <2>3. Shrinks(b.cells, c)
    BY <1>5, <2>1, ShrinksRefl
  <2> QED BY <2>1, <2>2, <2>3 DEF PurgeLeaves, b, c
<1>7. ASSUME NEW T \in SUBSET I, T # {}, NEW acc, PurgeLeaves(acc, T \ {SomeOf(T)}, k, h, ub)
      PROVE  PurgeLeaves(PurgeStep(SomeOf(T), acc, k, h, ub), T, k, h, ub)
  <2> DEFINE s == SomeOf(T)
             n == PurgeStep(s, acc, k, h, ub)
  <2>1. s \in Seqs
    BY <1>7, SomeIn
  <2>2. IsKv(acc) /\ Shrinks(acc.cells, c) /\ acc.data = k.data
    BY <1>7 DEF PurgeLeaves, c
  <2> HIDE DEF s
  <2>3. IsKv(n) /\ Shrinks(n.cells, acc.cells) /\ n.data = acc.data
    BY <2>1, <2>2, SeqRemoveIs DEF PurgeStep
  <2> HIDE DEF n
  <2>4. Shrinks(n.cells, c)
    BY <2>2, <2>3, ShrinksTrans
  <2> QED BY <2>2, <2>3, <2>4 DEF PurgeLeaves, n, s, c
<1>8. \A T \in SUBSET I : T # {} => \A acc :
          PurgeLeaves(acc, T \ {SomeOf(T)}, k, h, ub) => PurgeLeaves(PurgeStep(SomeOf(T), acc, k, h, ub), T, k, h, ub)
  BY Zenon, <1>7
<1> HIDE DEF I
<1>9. PurgeFold!Inductive(PutKv(k, h, ub), I, k, h, ub)
  BY <1>3, <1>4, <1>6, <1>8 DEF PurgeFold!Inductive
<1>10. PurgeLeaves(e, I, k, h, ub)
  BY <1>2, <1>9, PurgeFold!FoldKeeps
<1>11. IsKv(e) /\ Shrinks(e.cells, c) /\ e.data = k.data
  BY <1>10 DEF PurgeLeaves, c
<1>12. IsKv(d) /\ d.cells = e.cells /\ d.data = e.data
  <2>1. DOMAIN d = DOMAIN e /\ d.cells = e.cells /\ d.data = e.data /\ d.head = AfterSlot(h, ub)
    BY <1>1, <1>11 DEF IsKv
  <2>2. AfterSlot(h, ub) \in 0..NCells
    <3> DEFINE n == Len(ub)
    <3>1. n \in Nat
      BY LenProperties DEF IsUbatch
    <3>2. h \in 0..NCells-n /\ AfterSlot(h, ub) = h + n
      BY DEF AfterSlot
    <3> HIDE DEF n
    <3> QED BY <3>1, <3>2, CellsAssumption
  <2> QED BY <1>11, <2>1, <2>2 DEF IsKv
<1>13. ASSUME NEW j \in Cell
       PROVE \/ d.cells.pos[j] = -1 /\ d.cells.shift[j] = 0
             \/ /\ j \in Slot(h, ub)
                /\ d.cells.pos[j] = ub[j-h+1].pos /\ d.cells.seq[j] = {ub[j-h+1].seq}
                /\ Calm(k.cells) => d.cells.shift[j] = 0
             \/ /\ j \notin Slot(h, ub)
                /\ d.cells.pos[j] = k.cells.pos[j] /\ d.cells.shift[j] = k.cells.shift[j]
  <2>1. \/ /\ e.cells.pos[j] = c.pos[j] /\ e.cells.shift[j] = c.shift[j]
           /\ Fewer(e.cells.seq[j], c.seq[j])
        \/ e.cells.pos[j] = -1 /\ e.cells.shift[j] = 0
    BY <1>11 DEF Shrinks, Loses
  <2>2. CASE j \in Slot(h, ub)
    <3> DEFINE R == c.seq[j]
               S == e.cells.seq[j]
    <3>1. R = {ub[j-h+1].seq} /\ c.pos[j] = ub[j-h+1].pos /\ (Calm(k.cells) => c.shift[j] = 0)
      BY <1>5, <2>2
    <3>2. Fewer(S, R) => S = R
      BY <3>1 DEF Fewer
    <3>3. d.cells.pos[j] = e.cells.pos[j] /\ d.cells.shift[j] = e.cells.shift[j] /\ d.cells.seq[j] = S
      BY <1>12
    <3> HIDE DEF R, S
    <3>4. CASE e.cells.pos[j] = -1 /\ e.cells.shift[j] = 0
      BY <3>3, <3>4
    <3>5. CASE e.cells.pos[j] = c.pos[j] /\ e.cells.shift[j] = c.shift[j] /\ Fewer(S, R)
      BY <2>2, <3>1, <3>2, <3>3, <3>5
    <3> QED BY <2>1, <3>4, <3>5 DEF R, S
  <2>3. CASE j \notin Slot(h, ub)
    BY <1>5, <1>12, <2>1, <2>3 DEF Untouched
  <2> QED BY <2>2, <2>3
<1>14. d.cells.hasShift = k.cells.hasShift
  BY <1>5, <1>11, <1>12 DEF Shrinks
<1>15. Applied(d, k, h, ub)
  BY <1>11, <1>12, <1>13, <1>14 DEF Applied
<1> QED BY <1>15 DEF d

LEMMA AppliedCalm ==
    ASSUME NEW k, IsKv(k), NEW d, NEW h, NEW ub, Applied(d, k, h, ub), Calm(k.cells)
    PROVE  Calm(d.cells)
<1> DEFINE c == k.cells
           e == d.cells
<1>1. /\ e.hasShift = c.hasShift
      /\ \A j \in Cell : \/ e.pos[j] = -1 /\ e.shift[j] = 0
                         \/ e.shift[j] = 0
                         \/ e.pos[j] = c.pos[j] /\ e.shift[j] = c.shift[j]
  BY DEF Applied
<1>2. Calm(c)
  OBVIOUS
<1> HIDE DEF c, e
<1>3. Calm(e)
  BY <1>1, <1>2 DEF Calm
<1> QED BY <1>3 DEF e

-----------------------------------------------------------------------------
(* Looking for room, and giving it back *)

LEMMA FindSlotIs ==
    ASSUME NEW k, NEW n \in Nat, NEW h, h = FindSlot(k, n), h >= 0
    PROVE  h \in 0..NCells-n
<1> DEFINE start == IF k.head > Cardinality(k.cells.used) + 2 * n THEN 0 ELSE k.head
           slots == {g \in 0..NCells-n : \A i \in g..g+n-1 : CanUse(k.cells, i)}
           ahead == {g \in slots : g >= start}
<1>1. h = IF ahead # {} THEN Min(ahead) ELSE IF slots # {} THEN Min(slots) ELSE -1
  BY DEF FindSlot
<1>2. slots \subseteq 0..NCells-n /\ ahead \subseteq slots
  OBVIOUS
<1> HIDE DEF ahead, slots
<1>3. slots \subseteq Int /\ IsFiniteSet(slots) /\ ahead \subseteq Int /\ IsFiniteSet(ahead)
  <2>1. IsFiniteSet(0..NCells-n) /\ 0..NCells-n \subseteq Int
    BY CellsAssumption, FS_Interval
  <2> QED BY Zenon, <1>2, <2>1, FS_Subset
<1>4. (ahead # {} => Min(ahead) \in ahead) /\ (slots # {} => Min(slots) \in slots)
  BY Zenon, <1>3, LeastIn
<1>5. h = -1 \/ h \in slots
  BY Zenon, <1>1, <1>2, <1>4
<1>6. h # -1
  OBVIOUS
<1> QED BY Zenon, <1>2, <1>5, <1>6

SetStep(i, acc, old, c, d) == SetCell(acc, i, old)
SetLeaves(acc, T, old, c, d) ==
    /\ CellsInv(acc) /\ acc.hasShift = c.hasShift
    /\ \A j \in Cell : acc.shift[j] = c.shift[j]
    /\ \A j \in Cell : acc.pos[j] = IF j \in T THEN old.pos[j] ELSE c.pos[j]
SetFold == INSTANCE Folding WITH Step <- SetStep, Keeps <- SetLeaves, Pick <- SomeOf

SetAll(c, old, I) == Each(LAMBDA acc, i : SetCell(acc, i, old), c, I)

LEMMA SetEach ==
    ASSUME NEW c, CellsInv(c), NEW old, CellsInv(old), NEW I, I \subseteq Cell
    PROVE  SetLeaves(SetAll(c, old, I), I, old, c, 0)
<1>1. SetAll(c, old, I) = SetFold!Folded(c, I, old, c, 0)
  BY DEF SetAll, Each, FoldSet, MapThenFoldSet, SetFold!Folded, SetStep, SomeOf
<1>2. SetFold!IsFiniteSet(I)
  BY CellFinite DEF IsFiniteSet, SetFold!IsFiniteSet
<1>3. \A T \in SUBSET I : T # {} => SomeOf(T) \in T
  BY SomeIn
<1>4. SetLeaves(c, {}, old, c, 0)
  BY DEF SetLeaves
<1>5. ASSUME NEW T \in SUBSET I, T # {}, NEW acc, SetLeaves(acc, T \ {SomeOf(T)}, old, c, 0)
      PROVE  SetLeaves(SetStep(SomeOf(T), acc, old, c, 0), T, old, c, 0)
  <2> DEFINE i == SomeOf(T)
             d == SetCell(acc, i, old)
             p == old.pos[i]
             sh == acc.shift[i]
             S == old.seq[i]
  <2>1. i \in T /\ i \in Cell
    BY <1>5, SomeIn
  <2> HIDE DEF i
  <2>2. /\ CellsInv(acc) /\ acc.hasShift = c.hasShift
        /\ \A j \in Cell : acc.shift[j] = c.shift[j]
        /\ \A j \in Cell : acc.pos[j] = IF j \in T \ {i} THEN old.pos[j] ELSE c.pos[j]
    BY <1>5 DEF SetLeaves, i
  <2>3. CellSets(old) /\ Occupied(old)
    BY DEF CellsInv
  <2>4. CellsInv(d) /\ d.hasShift = acc.hasShift /\ Changed(d, acc, i, p, sh, S)
    BY <2>1, <2>2, <2>3, SetCellIs
  <2>5. p = old.pos[i] /\ sh = acc.shift[i]
    OBVIOUS
  <2> HIDE DEF d, p, sh, S
  <2>6. /\ \A j \in Cell : d.pos[j] = IF j = i THEN p ELSE acc.pos[j]
        /\ \A j \in Cell : d.shift[j] = IF j = i THEN sh ELSE acc.shift[j]
    BY <2>1, <2>2, <2>4, ChangedCells
  <2>7. SetLeaves(d, T, old, c, 0)
    BY <2>1, <2>2, <2>4, <2>5, <2>6 DEF SetLeaves
  <2> QED BY <2>7 DEF SetStep, i, d
<1>6. \A T \in SUBSET I : T # {} => \A acc :
          SetLeaves(acc, T \ {SomeOf(T)}, old, c, 0) => SetLeaves(SetStep(SomeOf(T), acc, old, c, 0), T, old, c, 0)
  BY <1>5
<1>7. SetFold!Inductive(c, I, old, c, 0)
  BY <1>2, <1>3, <1>4, <1>6 DEF SetFold!Inductive
<1> QED BY <1>1, <1>7, SetFold!FoldKeeps

\* What a cell holds in d it holds in c, but for the cells of S.
Within(d, c, S) == \A j \in Cell \ S : d.pos[j] \in {-1, c.pos[j]}

LEMMA UndoIs ==
    ASSUME NEW k, IsKv(k), NEW old, IsKv(old.kv), old.slot \subseteq Cell, NEW d, d = Undo(old, k)
    PROVE  /\ IsKv(d) /\ d.data = k.data /\ d.cells.hasShift = k.cells.hasShift
           /\ \A j \in Cell : d.cells.shift[j] = k.cells.shift[j]
           /\ \A j \in Cell : d.cells.pos[j] = IF j \in old.slot THEN old.kv.cells.pos[j] ELSE k.cells.pos[j]
<1> DEFINE o == old.kv.cells
           c == k.cells
           I == old.slot
<1>1. CellsInv(o) /\ CellsInv(c) /\ I \subseteq Cell /\ old.kv.head \in 0..NCells
  BY DEF IsKv
<1> DEFINE e == SetAll(c, o, I)
<1>2. DOMAIN d = DOMAIN k /\ d.cells = e /\ d.head = old.kv.head /\ d.data = k.data
  BY DEF Undo, IsKv, SetAll
<1>3. SetLeaves(e, I, o, c, 0)
  BY <1>1, SetEach
<1> HIDE DEF e
<1>4. /\ CellsInv(e) /\ e.hasShift = c.hasShift
      /\ \A j \in Cell : e.shift[j] = c.shift[j]
      /\ \A j \in Cell : e.pos[j] = IF j \in I THEN o.pos[j] ELSE c.pos[j]
  BY <1>3 DEF SetLeaves
<1>5. IsKv(d)
  BY <1>1, <1>2, <1>4 DEF IsKv
<1> QED BY <1>2, <1>4, <1>5

AreUbatches(ubs) ==
    /\ Len(ubs) \in Nat /\ DOMAIN ubs = 1..Len(ubs)
    /\ \A u \in 1..Len(ubs) : IsUbatch(ubs[u]) /\ Len(ubs[u]) >= 1

IsList(s) == \E S : s \in Seq(S)

Appended(t, s, n, x) == t = Append(s, x) /\ n = Len(s)
Longer(t, s, n, x) ==
    /\ IsList(t) /\ n \in Nat /\ Len(t) = n + 1
    /\ \A i \in 1..n : t[i] = s[i]
    /\ t[n+1] = x

LEMMA AppendIs ==
    ASSUME NEW s, IsList(s), NEW x, NEW t, NEW n, Appended(t, s, n, x)
    PROVE  Longer(t, s, n, x)
<1>0. t = Append(s, x) /\ n = Len(s)
  BY DEF Appended
<1>1. PICK S : s \in Seq(S)
  BY DEF IsList
<1> DEFINE T == S \cup {x}
<1>2. s \in Seq(T) /\ x \in T
  <2>1. n \in Nat /\ DOMAIN s = 1..n /\ s \in [1..n -> S]
    BY <1>0, <1>1, LenProperties
  <2>2. s \in [1..n -> T]
    BY <2>1
  <2> QED BY <2>1, <2>2, SeqDef
<1> HIDE DEF T
<1>3. t \in Seq(T) /\ Len(t) = Len(s) + 1 /\ (\A i \in 1..Len(s) : t[i] = s[i]) /\ t[Len(s)+1] = x
  BY <1>0, <1>2, AppendProperties
<1>4. n \in Nat
  BY <1>0, <1>2, LenProperties
<1> QED BY <1>0, <1>3, <1>4 DEF IsList, Longer

\* What was remembered of an ubatch before it was placed.
Entry(b, ub) == IsKv(b.kv) /\ \E h \in 0..NCells-Len(ub) : b.slot = Slot(h, ub)

After(before, n, end, u) == IF u < n THEN before[u+1].kv ELSE end

\* From k to end, ubatch by ubatch.
Chain(before, n, end, ubs, k) ==
    /\ IsKv(end) /\ end.data = k.data /\ end.cells.hasShift = k.cells.hasShift
    /\ Calm(k.cells) => Calm(end.cells)
    /\ n = 0 => end = k
    /\ n > 0 => before[1].kv = k
    /\ \A u \in 1..n : /\ Entry(before[u], ubs[u])
                       /\ Within(After(before, n, end, u).cells, before[u].kv.cells, before[u].slot)

LEMMA ChainGrows ==
    ASSUME NEW before, NEW n \in Nat, NEW end, NEW ubs, NEW k, Chain(before, n, end, ubs, k),
           NEW x, x.kv = end, Entry(x, ubs[n+1]),
           NEW e, IsKv(e), e.data = end.data, e.cells.hasShift = end.cells.hasShift,
           Calm(end.cells) => Calm(e.cells), Within(e.cells, end.cells, x.slot),
           NEW t, \A i \in 1..n : t[i] = before[i], t[n+1] = x
    PROVE  Chain(t, n + 1, e, ubs, k)
<1>1. /\ e.data = k.data /\ e.cells.hasShift = k.cells.hasShift
      /\ Calm(k.cells) => Calm(e.cells)
  BY DEF Chain
<1>2. n + 1 > 0 /\ n + 1 # 0
  OBVIOUS
<1>3. t[1].kv = k
  <2>1. CASE n = 0
    BY <2>1 DEF Chain
  <2>2. CASE n > 0
    <3>1. 1 \in 1..n
      BY <2>2
    <3> QED BY <2>2, <3>1 DEF Chain
  <2> QED BY <2>1, <2>2
<1>4. ASSUME NEW u \in 1..n+1
      PROVE  /\ Entry(t[u], ubs[u])
             /\ Within(After(t, n + 1, e, u).cells, t[u].kv.cells, t[u].slot)
  <2>1. CASE u = n + 1
    <3>1. After(t, n + 1, e, u) = e
      BY <2>1 DEF After
    <3> QED BY <2>1, <3>1
  <2>2. CASE u # n + 1
    <3>1. u \in 1..n /\ t[u] = before[u]
      BY <2>2
    <3>2. After(t, n + 1, e, u) = After(before, n, end, u)
      <4>1. CASE u = n
        <5>1. u < n + 1 /\ ~(u < n)
          BY <4>1
        <5> QED BY <4>1, <5>1 DEF After
      <4>2. CASE u # n
        <5>1. u < n + 1 /\ u < n /\ u + 1 \in 1..n
          BY <3>1, <4>2
        <5> QED BY <5>1 DEF After
      <4> QED BY <4>1, <4>2
    <3> QED BY <3>1, <3>2 DEF Chain
  <2> QED BY <2>1, <2>2
<1> QED BY <1>1, <1>2, <1>3, <1>4 DEF Chain

TryStep(u, acc, ubs, k, d) == Try(acc, ubs[u])
TryLeaves(acc, m, ubs, k, d) ==
    /\ DOMAIN acc = {"ok", "kv", "before"} /\ acc.ok \in BOOLEAN
    /\ IsList(acc.before) /\ Len(acc.before) \in Nat /\ Len(acc.before) <= m
    /\ acc.ok => Len(acc.before) = m
    /\ Chain(acc.before, Len(acc.before), acc.kv, ubs, k)
TryFold == INSTANCE Folding WITH Step <- TryStep, Keeps <- TryLeaves, Pick <- Max

LEMMA TryIs ==
    ASSUME NEW ubs, AreUbatches(ubs), NEW m \in 1..Len(ubs), NEW k, NEW acc, TryLeaves(acc, m - 1, ubs, k, 0)
    PROVE  TryLeaves(Try(acc, ubs[m]), m, ubs, k, 0)
<1> DEFINE ub == ubs[m]
           h == FindSlot(acc.kv, Len(ub))
           n == Len(acc.before)
           b == acc.before
           e == ApplyUbatch(acc.kv, h, ub)
           x == [kv |-> acc.kv, slot |-> h..h+Len(ub)-1]
           t == Append(b, x)
           d == Try(acc, ub)
<1>1. /\ DOMAIN acc = {"ok", "kv", "before"} /\ acc.ok \in BOOLEAN
      /\ IsList(b) /\ n \in Nat /\ n <= m - 1
      /\ acc.ok => n = m - 1
      /\ Chain(b, n, acc.kv, ubs, k)
  BY DEF TryLeaves
<1>2. m \in Nat /\ IsUbatch(ub) /\ Len(ub) \in Nat
  <2>1. Len(ubs) \in Nat /\ IsUbatch(ub)
    BY DEF AreUbatches
  <2> HIDE DEF ub
  <2>2. Len(ub) \in Nat
    BY <2>1, LenProperties DEF IsUbatch
  <2> QED BY <2>1, <2>2
<1>3. CASE acc.ok /\ h >= 0
  <2>1. d = [ok |-> TRUE, kv |-> e, before |-> t]
    BY <1>3 DEF Try
  <2>2. h \in 0..NCells-Len(ub)
    <3> HIDE DEF ub
    <3> QED BY <1>2, <1>3, FindSlotIs
  <2>3. IsKv(acc.kv)
    BY <1>1 DEF Chain
  <2>4. Applied(e, acc.kv, h, ub)
    <3> HIDE DEF ub, h
    <3> QED BY <1>2, <2>2, <2>3, ApplyUbatchIs
  <2>5. x.kv = acc.kv /\ x.slot = Slot(h, ub)
    BY DEF Slot
  <2>6. n = m - 1 /\ n + 1 = m
    BY <1>1, <1>2, <1>3
  <2> HIDE DEF h, e, x
  <2>7. Entry(x, ub)
    BY <2>2, <2>3, <2>5 DEF Entry
  <2>8. /\ IsKv(e) /\ e.data = acc.kv.data /\ e.cells.hasShift = acc.kv.cells.hasShift
        /\ Calm(acc.kv.cells) => Calm(e.cells)
    BY Zenon, <2>3, <2>4, AppliedCalm DEF Applied
  <2>9. Within(e.cells, acc.kv.cells, x.slot)
    BY <2>4, <2>5 DEF Within, Applied
  <2> HIDE DEF ub, b, n
  <2>10. /\ IsList(t) /\ Len(t) = n + 1
         /\ \A i \in 1..n : t[i] = b[i]
         /\ t[n+1] = x
    <3>1. IsList(b) /\ Appended(t, b, n, x)
      BY <1>1 DEF n, b, Appended
    <3> HIDE DEF t
    <3>2. Longer(t, b, n, x)
      BY <3>1, AppendIs
    <3> QED BY <3>2 DEF Longer
  <2> HIDE DEF t
  <2>11. Chain(t, n + 1, e, ubs, k)
    <3>1. Entry(x, ubs[n+1])
      BY <2>6, <2>7 DEF ub
    <3> QED BY <1>1, <2>5, <2>8, <2>9, <2>10, <3>1, ChainGrows
  <2>12. DOMAIN d = {"ok", "kv", "before"} /\ d.ok = TRUE /\ d.kv = e /\ d.before = t
    BY <2>1
  <2> HIDE DEF d
  <2>13. TryLeaves(d, m, ubs, k, 0)
    <3>1. d.ok \in BOOLEAN
      BY <2>12, Zenon
    <3>2. Len(t) = m /\ Len(t) \in Nat /\ Len(t) <= m
      BY <1>2, <2>6, <2>10
    <3>3. Chain(t, Len(t), e, ubs, k)
      BY <2>10, <2>11
    <3> QED BY <2>10, <2>12, <3>1, <3>2, <3>3 DEF TryLeaves
  <2> QED BY <2>13 DEF d, ub
<1>4. CASE ~(acc.ok /\ h >= 0)
  <2>1. d = [acc EXCEPT !.ok = FALSE]
    BY <1>4 DEF Try
  <2>2. DOMAIN d = {"ok", "kv", "before"} /\ d.ok = FALSE /\ d.kv = acc.kv /\ d.before = b
    BY <1>1, <2>1
  <2>3. d.ok \in BOOLEAN
    BY <2>2, Zenon
  <2>4. n <= m
    BY <1>1, <1>2
  <2> HIDE DEF d
  <2>5. TryLeaves(d, m, ubs, k, 0)
    BY <1>1, <2>2, <2>3, <2>4 DEF TryLeaves
  <2> QED BY <2>5 DEF d
<1> QED BY <1>3, <1>4

LEMMA MaxPicks ==
    ASSUME NEW n \in Nat
    PROVE  /\ \A s \in SUBSET (1..n) : s # {} => Max(s) \in s
           /\ \A m \in 1..n : Max(1..m) = m
<1>1. \A s \in SUBSET (1..n) : s \subseteq Int /\ IsFiniteSet(s)
  <2>1. IsFiniteSet(1..n) /\ 1..n \subseteq Int
    BY FS_Interval
  <2> QED BY Zenon, <2>1, FS_Subset
<1>2. \A s \in SUBSET (1..n) : s # {} => Max(s) \in s /\ \A x \in s : x <= Max(s)
  BY Zenon, <1>1, GreatestIn
<1>3. ASSUME NEW m \in 1..n PROVE Max(1..m) = m
  <2>1. 1..m \in SUBSET (1..n) /\ m \in 1..m
    OBVIOUS
  <2>2. Max(1..m) \in 1..m /\ m <= Max(1..m)
    <3>1. Max(1..m) \in 1..m /\ \A x \in 1..m : x <= Max(1..m)
      BY Zenon, <1>2, <2>1
    <3> QED BY <2>1, <3>1
  <2> QED BY <2>2
<1> QED BY <1>2, <1>3

LEMMA MinPicks ==
    ASSUME NEW n \in Nat
    PROVE  /\ \A s \in SUBSET (1..n) : s # {} => Min(s) \in s
           /\ \A m \in 1..n : Min(m..n) = m
<1>1. \A s \in SUBSET (1..n) : s \subseteq Int /\ IsFiniteSet(s)
  <2>1. IsFiniteSet(1..n) /\ 1..n \subseteq Int
    BY FS_Interval
  <2> QED BY Zenon, <2>1, FS_Subset
<1>2. \A s \in SUBSET (1..n) : s # {} => Min(s) \in s /\ \A x \in s : Min(s) <= x
  BY Zenon, <1>1, LeastIn
<1>3. ASSUME NEW m \in 1..n PROVE Min(m..n) = m
  <2>1. m..n \in SUBSET (1..n) /\ m \in m..n
    OBVIOUS
  <2>2. Min(m..n) \in m..n /\ Min(m..n) <= m
    <3>1. Min(m..n) \in m..n /\ \A x \in m..n : Min(m..n) <= x
      BY Zenon, <1>2, <2>1
    <3> QED BY <2>1, <3>1
  <2> QED BY <2>2
<1> QED BY <1>2, <1>3

Tried(k, ubs) == FoldLeft(Try, [ok |-> TRUE, kv |-> k, before |-> <<>>], ubs)

LEMMA TriedIs ==
    ASSUME NEW k, IsKv(k), NEW ubs, AreUbatches(ubs)
    PROVE  TryLeaves(Tried(k, ubs), Len(ubs), ubs, k, 0)
<1> DEFINE base == [ok |-> TRUE, kv |-> k, before |-> <<>>]
           n == Len(ubs)
<1>1. n \in Nat /\ DOMAIN ubs = 1..n
  BY DEF AreUbatches
<1>2. Tried(k, ubs) = TryFold!Folded(base, DOMAIN ubs, ubs, k, 0)
  BY DEF Tried, FoldLeft, MapThenFoldSet, TryFold!Folded, TryStep
<1>3. TryLeaves(base, 0, ubs, k, 0)
  <2>1. DOMAIN base = {"ok", "kv", "before"} /\ base.kv = k /\ base.before = <<>>
    OBVIOUS
  <2>2. base.ok \in BOOLEAN
    OBVIOUS
  <2>3. IsList(<<>>) /\ Len(<<>>) = 0
    BY DEF IsList
  <2>4. Chain(<<>>, 0, k, ubs, k)
    BY DEF Chain
  <2> HIDE DEF base
  <2> QED BY <2>1, <2>2, <2>3, <2>4 DEF TryLeaves
<1> HIDE DEF base
<1>4. \A m \in 1..n : \A acc : TryLeaves(acc, m - 1, ubs, k, 0) => TryLeaves(TryStep(m, acc, ubs, k, 0), m, ubs, k, 0)
  BY TryIs DEF TryStep
<1> HIDE DEF n
<1>5. TryFold!InductiveUp(base, n, ubs, k, 0)
  BY <1>1, <1>3, <1>4, MaxPicks DEF TryFold!InductiveUp
<1>6. TryLeaves(TryFold!Folded(base, 1..n, ubs, k, 0), n, ubs, k, 0)
  BY <1>5, TryFold!FoldUpKeeps
<1> QED BY <1>1, <1>2, <1>6 DEF n

UndoStep(u, acc, before, end, n) == Undo(before[u], acc)
UndoLeaves(acc, m, before, end, n) ==
    /\ IsKv(acc) /\ acc.data = end.data /\ acc.cells.hasShift = end.cells.hasShift
    /\ \A j \in Cell : acc.cells.shift[j] = end.cells.shift[j]
    /\ Within(acc.cells, After(before, n, end, m - 1).cells, {})
UndoFold == INSTANCE Folding WITH Step <- UndoStep, Keeps <- UndoLeaves, Pick <- Min

LEMMA SlotInCells ==
    ASSUME NEW ub, IsUbatch(ub), NEW h \in 0..NCells-Len(ub)
    PROVE  Slot(h, ub) \subseteq Cell
BY UbatchToken

LEMMA UndoStepIs ==
    ASSUME NEW before, NEW n \in Nat, NEW end, NEW ubs, AreUbatches(ubs), n <= Len(ubs), NEW k,
           Chain(before, n, end, ubs, k), NEW m \in 1..n, NEW acc, UndoLeaves(acc, m + 1, before, end, n)
    PROVE  UndoLeaves(Undo(before[m], acc), m, before, end, n)
<1> DEFINE old == before[m]
           ub == ubs[m]
           aft == After(before, n, end, m)
           d == Undo(old, acc)
<1>1. /\ IsKv(acc) /\ acc.data = end.data /\ acc.cells.hasShift = end.cells.hasShift
      /\ \A j \in Cell : acc.cells.shift[j] = end.cells.shift[j]
      /\ Within(acc.cells, aft.cells, {})
  <2>1. (m + 1) - 1 = m
    OBVIOUS
  <2> QED BY <2>1 DEF UndoLeaves
<1>2. Entry(old, ub) /\ Within(aft.cells, old.kv.cells, old.slot)
  BY DEF Chain
<1>3. IsUbatch(ub)
  <2>1. m \in 1..Len(ubs)
    BY DEF AreUbatches
  <2> QED BY <2>1 DEF AreUbatches
<1>4. After(before, n, end, m - 1) = old.kv
  <2>1. m - 1 < n /\ (m - 1) + 1 = m
    OBVIOUS
  <2> QED BY <2>1 DEF After
<1> HIDE DEF old, ub, aft
<1>5. IsKv(old.kv) /\ old.slot \subseteq Cell
  BY <1>2, <1>3, SlotInCells DEF Entry
<1>6. /\ IsKv(d) /\ d.data = acc.data /\ d.cells.hasShift = acc.cells.hasShift
      /\ \A j \in Cell : d.cells.shift[j] = acc.cells.shift[j]
      /\ \A j \in Cell : d.cells.pos[j] = IF j \in old.slot THEN old.kv.cells.pos[j] ELSE acc.cells.pos[j]
  BY <1>1, <1>5, UndoIs
<1> HIDE DEF d
<1>7. Within(d.cells, old.kv.cells, {})
  BY <1>1, <1>2, <1>6 DEF Within
<1>8. UndoLeaves(d, m, before, end, n)
  BY <1>1, <1>4, <1>6, <1>7 DEF UndoLeaves
<1> QED BY <1>8 DEF d, old

\* A place for each ubatch, and the cells as before but for tokens gone.
Ready(r, k, ubs) ==
    /\ IsKv(r.kv) /\ r.kv.data = k.data /\ r.kv.cells.hasShift = k.cells.hasShift
    /\ Calm(k.cells) /\ ~k.cells.hasShift => Calm(r.kv.cells)
    /\ Within(r.kv.cells, k.cells, {})
    /\ r.ok => \A u \in 1..Len(ubs) : r.heads[u] \in 0..NCells-Len(ubs[u])

LEMMA RestoredIs ==
    ASSUME NEW k, NEW ubs, AreUbatches(ubs), NEW end, TryLeaves(end, Len(ubs), ubs, k, 0)
    PROVE  Ready(Restored(end), k, ubs)
<1> DEFINE b == end.before
           n == Len(b)
           e == end.kv
           r == Restored(end)
           o == FoldRight(Undo, b, e)
<1>1. /\ IsList(b) /\ n \in Nat /\ n <= Len(ubs)
      /\ end.ok => n = Len(ubs)
      /\ Chain(b, n, e, ubs, k)
  BY DEF TryLeaves
<1>2. DOMAIN b = 1..n
  <2>1. PICK S : b \in Seq(S)
    BY <1>1 DEF IsList
  <2> QED BY <2>1, LenProperties
<1>3. o = UndoFold!Folded(e, DOMAIN b, b, e, n)
  BY DEF FoldRight, MapThenFoldSet, UndoFold!Folded, UndoStep
<1>4. r.ok = end.ok /\ r.kv = o /\ r.heads = [u \in 1..n |-> Min(b[u].slot)]
  BY DEF Restored
<1> HIDE DEF r, o
<1>5. UndoLeaves(e, n + 1, b, e, n)
  <2>1. After(b, n, e, (n + 1) - 1) = e
    <3>1. ~((n + 1) - 1 < n)
      BY <1>1
    <3> QED BY <3>1 DEF After
  <2>2. IsKv(e)
    BY <1>1 DEF Chain
  <2> QED BY <2>1, <2>2 DEF UndoLeaves, Within
<1> HIDE DEF b, n, e
<1>6. \A m \in 1..n : \A acc : UndoLeaves(acc, m + 1, b, e, n) => UndoLeaves(UndoStep(m, acc, b, e, n), m, b, e, n)
  BY <1>1, UndoStepIs DEF UndoStep
<1>7. UndoFold!InductiveDown(e, n, b, e, n)
  BY <1>1, <1>5, <1>6, MinPicks DEF UndoFold!InductiveDown
<1>8. UndoLeaves(UndoFold!Folded(e, 1..n, b, e, n), 1, b, e, n)
  BY <1>7, UndoFold!FoldDownKeeps
<1>9. /\ IsKv(o) /\ o.data = e.data /\ o.cells.hasShift = e.cells.hasShift
      /\ \A j \in Cell : o.cells.shift[j] = e.cells.shift[j]
      /\ Within(o.cells, k.cells, {})
  <2>1. After(b, n, e, 0) = k
    <3>1. CASE n = 0
      BY <1>1, <3>1 DEF Chain, After
    <3>2. CASE n # 0
      <4>1. 0 < n /\ n > 0 /\ 0 + 1 = 1
        BY <1>1, <3>2
      <4> QED BY <1>1, <4>1 DEF Chain, After
    <3> QED BY <3>1, <3>2
  <2>2. UndoLeaves(o, 1, b, e, n) /\ 1 - 1 = 0
    BY <1>2, <1>3, <1>8
  <2> QED BY <2>1, <2>2 DEF UndoLeaves
<1>10. e.data = k.data /\ e.cells.hasShift = k.cells.hasShift /\ (Calm(k.cells) => Calm(e.cells))
  BY <1>1 DEF Chain
<1>11. ASSUME Calm(k.cells), ~k.cells.hasShift PROVE Calm(o.cells)
  <2>1. \A j \in Cell : o.cells.shift[j] = 0
    BY <1>9, <1>10, <1>11 DEF Calm
  <2> QED BY <2>1 DEF Calm
<1>12. ASSUME r.ok, NEW u \in 1..Len(ubs) PROVE r.heads[u] \in 0..NCells-Len(ubs[u])
  <2>1. n = Len(ubs) /\ u \in 1..n
    BY <1>1, <1>4, <1>12
  <2>2. Entry(b[u], ubs[u])
    BY <1>1, <2>1 DEF Chain
  <2>3. PICK h \in 0..NCells-Len(ubs[u]) : b[u].slot = Slot(h, ubs[u])
    BY <2>2 DEF Entry
  <2> DEFINE l == Len(ubs[u])
  <2>4. l \in Nat /\ l >= 1
    <3>1. IsUbatch(ubs[u]) /\ l >= 1
      BY <1>12 DEF AreUbatches
    <3>2. \A x : IsUbatch(x) => Len(x) \in Nat
      BY LenProperties DEF IsUbatch
    <3> QED BY <3>1, <3>2
  <2>5. r.heads[u] = Min(h..h+l-1)
    BY <1>4, <2>1, <2>3 DEF Slot
  <2>6. h \in 0..NCells-l
    BY <2>3
  <2> HIDE DEF l
  <2>7. h \in h..h+l-1 /\ h..h+l-1 \subseteq Int /\ IsFiniteSet(h..h+l-1)
    <3>1. h \in Int /\ h+l-1 \in Int /\ h \in h..h+l-1
      BY <2>4, <2>6, CellsAssumption
    <3> QED BY <3>1, FS_Interval
  <2> DEFINE S == h..h+l-1
             g == Min(S)
  <2>8. g \in S /\ g <= h
    <3>1. h \in S /\ S \subseteq Int /\ IsFiniteSet(S) /\ S # {}
      BY <2>7
    <3> HIDE DEF S
    <3>2. Min(S) \in S /\ \A x \in S : Min(S) <= x
      BY Zenon, <3>1, LeastIn
    <3> QED BY <3>1, <3>2
  <2> HIDE DEF g
  <2>9. g = h
    BY <2>4, <2>6, <2>8, CellsAssumption
  <2> QED BY <2>5, <2>6, <2>9 DEF g, l
<1>13. Ready(r, k, ubs)
  BY <1>4, <1>9, <1>10, <1>11, <1>12 DEF Ready
<1> QED BY <1>13 DEF r

LEMMA PrepareIs ==
    ASSUME NEW k, IsKv(k), NEW ubs, AreUbatches(ubs)
    PROVE  Ready(Prepare(k, ubs), k, ubs)
<1>1. Prepare(k, ubs) = Restored(Tried(k, ubs))
  BY DEF Prepare, Tried
<1>2. TryLeaves(Tried(k, ubs), Len(ubs), ubs, k, 0)
  BY TriedIs
<1>3. \A end : TryLeaves(end, Len(ubs), ubs, k, 0) => Ready(Restored(end), k, ubs)
  BY RestoredIs
<1> QED BY <1>1, <1>2, <1>3

-----------------------------------------------------------------------------
(* Numbers in their order *)

LEMMA SortedIs ==
    ASSUME NEW S, S \subseteq Int, IsFiniteSet(S), NEW n, n = Cardinality(S), NEW f, f = Sorted(S)
    PROVE  /\ n \in Nat /\ f \in [1..n -> S] /\ f \in Seq(S) /\ Len(f) = n
           /\ \A k, l \in 1..n : f[k] = f[l] => k = l
<1> DEFINE Below(x) == {y \in S : y < x}
           rank == [x \in S |-> Cardinality(Below(x))]
           R == 0..n-1
<1>1. n \in Nat
  BY FS_CardinalityType
<1>2. \A x \in S : /\ IsFiniteSet(Below(x)) /\ Below(x) \subseteq S /\ x \notin Below(x)
                   /\ Cardinality(Below(x)) \in R
  <2> SUFFICES ASSUME NEW x \in S
               PROVE  /\ IsFiniteSet(Below(x)) /\ Below(x) \subseteq S /\ x \notin Below(x)
                      /\ Cardinality(Below(x)) \in R
    OBVIOUS
  <2> DEFINE B == Below(x)
             m == Cardinality(B)
  <2>1. B \subseteq S /\ x \notin B
    <3>1. x \in Int /\ ~(x < x)
      OBVIOUS
    <3> QED BY <3>1
  <2>2. B # S
    BY <2>1
  <2> HIDE DEF B
  <2>3. IsFiniteSet(B) /\ m <= n /\ m # n
    BY Zenon, <2>1, <2>2, FS_Subset
  <2>4. m \in Nat
    BY <2>3, FS_CardinalityType
  <2> HIDE DEF m
  <2>5. m \in R
    BY <1>1, <2>3, <2>4
  <2> QED BY <2>1, <2>3, <2>5 DEF B, m
<1>3. ASSUME NEW x \in S, NEW y \in S, x < y PROVE rank[x] < rank[y]
  <2> DEFINE A == Below(x)
             B == Below(y)
             C == A \cup {x}
  <2>1. C \subseteq B
    <3>1. x \in Int /\ y \in Int /\ \A z \in S : z \in Int
      OBVIOUS
    <3>2. \A z \in S : z < x => z < y
      BY <1>3, <3>1
    <3> QED BY Zenon, <1>3, <3>2
  <2>2. IsFiniteSet(A) /\ IsFiniteSet(B) /\ x \notin A /\ Cardinality(A) \in R
    BY <1>2
  <2>3. rank[x] = Cardinality(A) /\ rank[y] = Cardinality(B)
    OBVIOUS
  <2> HIDE DEF A, B, rank
  <2>4. Cardinality(C) = Cardinality(A) + 1
    BY Zenon, <2>2, FS_AddElement
  <2>5. Cardinality(C) <= Cardinality(B)
    BY <2>1, <2>2, FS_Subset
  <2>6. Cardinality(B) \in Nat
    BY <2>2, FS_CardinalityType
  <2> QED BY <1>1, <2>2, <2>3, <2>4, <2>5, <2>6
<1>4. rank \in [S -> R] /\ \A x \in S : rank[x] = Cardinality(Below(x))
  <2> HIDE DEF Below, R
  <2> QED BY <1>2
<1>5. R \subseteq Int /\ IsFiniteSet(R) /\ Cardinality(R) = n
  <2>1. 0 \in Int /\ n - 1 \in Int /\ (0 > n - 1 => n = 0) /\ (n - 1) - 0 + 1 = n
    BY <1>1
  <2> QED BY <2>1, FS_Interval
<1>6. \A x, y \in S : rank[x] = rank[y] => x = y
  <2> SUFFICES ASSUME NEW x \in S, NEW y \in S, x # y PROVE rank[x] # rank[y]
    OBVIOUS
  <2>1. x < y \/ y < x
    OBVIOUS
  <2>2. rank[x] < rank[y] \/ rank[y] < rank[x]
    BY <1>3, <2>1
  <2>3. rank[x] \in Int /\ rank[y] \in Int
    <3> HIDE DEF rank, R
    <3> QED BY Zenon, <1>4, <1>5
  <2> HIDE DEF rank
  <2> QED BY <2>2, <2>3
<1> HIDE DEF rank, R
<1>7. rank \in Injection(S, R)
  BY <1>4, <1>6 DEF Injection, IsInjective
<1>8. rank \in Surjection(S, R)
  BY <1>5, <1>7, FS_Injection
<1>9. \A k \in 1..n : \E x \in S : Cardinality(Below(x)) = k - 1
  <2> SUFFICES ASSUME NEW k \in 1..n PROVE \E x \in S : Cardinality(Below(x)) = k - 1
    OBVIOUS
  <2>1. k - 1 \in R
    BY <1>1 DEF R
  <2>2. PICK x \in S : rank[x] = k - 1
    BY <1>8, <2>1 DEF Surjection
  <2> QED BY <1>4, <2>2
<1>10. f = [k \in 1..n |-> CHOOSE x \in S : Cardinality(Below(x)) = k - 1]
  BY DEF Sorted
<1> HIDE DEF Below
<1>11. \A k \in 1..n : f[k] \in S /\ Cardinality(Below(f[k])) = k - 1
  BY <1>9, <1>10
<1>12. f \in [1..n -> S]
  BY <1>10, <1>11
<1>13. f \in Seq(S) /\ Len(f) = n
  BY <1>1, <1>12, SeqDef, LenProperties
<1>14. ASSUME NEW k \in 1..n, NEW l \in 1..n, f[k] = f[l] PROVE k = l
  <2>1. k - 1 = l - 1
    BY <1>11, <1>14
  <2> QED BY <2>1
<1> QED BY <1>1, <1>12, <1>13, <1>14

-----------------------------------------------------------------------------
(* Compacting the cells *)

Holes(c) == {i \in 0..Cardinality(c.used)-1 : IsEmpty(c, i)}
Rest(c) == {i \in c.used : i >= Cardinality(c.used)}
RunStart(E, x) == Min({a \in E : a..x \subseteq E})
RunEnd(E, x) == Max({b \in E : x..b \subseteq E})
Before(E, x) == {i \in E : i < RunStart(E, x)}
\* The holes that are filled from cells after the one that fills x.
Later(E, x) == Before(E, x) \cup ((x+1)..RunEnd(E, x))

LEMMA FirstIs ==
    ASSUME NEW E, E \subseteq Int, IsFiniteSet(E), NEW x \in E, NEW f, f = RunStart(E, x)
    PROVE  f \in E /\ f <= x /\ f..x \subseteq E /\ \A a \in E : a..x \subseteq E => f <= a
<1> DEFINE A == {a \in E : a..x \subseteq E}
<1>1. x \in Int /\ x..x = {x}
  OBVIOUS
<1>2. x \in A /\ A \subseteq E
  BY <1>1
<1>3. A \subseteq Int /\ IsFiniteSet(A) /\ A # {}
  BY Zenon, <1>2, FS_Subset
<1>4. Min(A) \in A /\ \A a \in A : Min(A) <= a
  <2> HIDE DEF A
  <2> QED BY Zenon, <1>3, LeastIn
<1> QED BY <1>2, <1>4 DEF RunStart

LEMMA LastIs ==
    ASSUME NEW E, E \subseteq Int, IsFiniteSet(E), NEW x \in E, NEW f, f = RunEnd(E, x)
    PROVE  f \in E /\ x <= f /\ x..f \subseteq E /\ \A b \in E : x..b \subseteq E => b <= f
<1> DEFINE A == {b \in E : x..b \subseteq E}
<1>1. x \in Int /\ x..x = {x}
  OBVIOUS
<1>2. x \in A /\ A \subseteq E
  BY <1>1
<1>3. A \subseteq Int /\ IsFiniteSet(A) /\ A # {}
  BY Zenon, <1>2, FS_Subset
<1>4. Max(A) \in A /\ \A b \in A : b <= Max(A)
  <2> HIDE DEF A
  <2> QED BY Zenon, <1>3, GreatestIn
<1> QED BY <1>2, <1>4 DEF RunEnd

LEMMA LaterIs ==
    ASSUME NEW E, E \subseteq Int, IsFiniteSet(E), NEW x \in E
    PROVE  /\ Later(E, x) \subseteq E \ {x} /\ IsFiniteSet(Later(E, x))
           /\ Cardinality(Later(E, x)) = Cardinality(Before(E, x)) + (RunEnd(E, x) - x)
           /\ Cardinality(Later(E, x)) \in 0..Cardinality(E)-1
<1> DEFINE f == RunStart(E, x)
           l == RunEnd(E, x)
           A == Before(E, x)
           B == (x+1)..l
           C == Later(E, x)
<1>1. x \in Int /\ f \in E /\ f \in Int /\ f <= x
  BY Zenon, FirstIs
<1>2. l \in E /\ l \in Int /\ x <= l /\ x..l \subseteq E
  BY Zenon, LastIs
<1>3. C = A \cup B /\ A = {i \in E : i < f}
  BY DEF Later, Before
<1> HIDE DEF f, l, A, C
<1>4. A \subseteq E /\ IsFiniteSet(A) /\ x \notin A
  BY <1>1, <1>3, FS_Subset
<1>5. B \subseteq x..l /\ x \notin B
  BY <1>1, <1>2
<1>6. IsFiniteSet(B) /\ Cardinality(B) = l - x
  <2>1. x + 1 \in Int
    BY <1>1
  <2>2. IsFiniteSet(B) /\ Cardinality(B) = IF x + 1 > l THEN 0 ELSE l - (x + 1) + 1
    BY <1>2, <2>1, FS_Interval
  <2> HIDE DEF B
  <2> QED BY <1>1, <1>2, <2>2
<1>7. A \cap B = {}
  BY <1>1, <1>2, <1>3
<1>8. B \subseteq E
  BY <1>2, <1>5
<1> HIDE DEF B
<1>9. C \subseteq E \ {x}
  BY Zenon, <1>3, <1>4, <1>5, <1>8
<1>10. IsFiniteSet(C) /\ Cardinality(C) = Cardinality(A) + (l - x)
  <2>1. IsFiniteSet(C) /\ Cardinality(C) = Cardinality(A) + Cardinality(B) - Cardinality(A \cap B)
    BY <1>3, <1>4, <1>6, FS_Union
  <2>2. Cardinality(A \cap B) = 0 /\ Cardinality(A) \in Nat /\ Cardinality(B) \in Nat
    BY Zenon, <1>4, <1>6, <1>7, FS_EmptySet, FS_CardinalityType
  <2> QED BY <1>6, <2>1, <2>2
<1>11. Cardinality(C) \in 0..Cardinality(E)-1
  <2>1. Cardinality(C) <= Cardinality(E) - 1
    <3>1. IsFiniteSet(E \ {x}) /\ Cardinality(E \ {x}) = Cardinality(E) - 1
      BY FS_RemoveElement
    <3> QED BY Zenon, <1>9, <3>1, FS_Subset
  <2>2. Cardinality(C) \in Nat /\ Cardinality(E) \in Nat
    BY <1>10, FS_CardinalityType
  <2> QED BY <2>1, <2>2
<1> QED BY <1>9, <1>10, <1>11 DEF A, C, l

\* Two holes are not filled from the same cell.
LEMMA LaterDiffers ==
    ASSUME NEW E, E \subseteq Int, IsFiniteSet(E), NEW x \in E, NEW y \in E, x < y
    PROVE  Cardinality(Later(E, x)) # Cardinality(Later(E, y))
<1> DEFINE f == RunStart(E, x)
           l == RunEnd(E, x)
           g == RunStart(E, y)
           m == RunEnd(E, y)
           A == Later(E, x)
           B == Later(E, y)
<1>0. \A z \in E : z \in Int
  OBVIOUS
<1>1. f \in E /\ f <= x /\ f..x \subseteq E /\ \A a \in E : a..x \subseteq E => f <= a
  BY Zenon, FirstIs
<1>2. g \in E /\ g <= y /\ g..y \subseteq E /\ \A a \in E : a..y \subseteq E => g <= a
  BY Zenon, FirstIs
<1>3. l \in E /\ x <= l /\ x..l \subseteq E /\ \A b \in E : x..b \subseteq E => b <= l
  BY Zenon, LastIs
<1>4. m \in E /\ y <= m /\ y..m \subseteq E /\ \A b \in E : y..b \subseteq E => b <= m
  BY Zenon, LastIs
<1>5. /\ A = {i \in E : i < f} \cup ((x+1)..l)
      /\ B = {i \in E : i < g} \cup ((y+1)..m)
  BY DEF Later, Before
<1>6. A \subseteq E \ {x} /\ IsFiniteSet(A) /\ B \subseteq E \ {y} /\ IsFiniteSet(B)
  BY Zenon, LaterIs
<1> HIDE DEF f, g, l, m, A, B
<1>7. \E z : (z \in A \ B /\ B \subseteq A) \/ (z \in B \ A /\ A \subseteq B)
  <2>1. CASE y <= l
    <3>1. f = g
      <4>1. f..y \subseteq E
        <5> SUFFICES ASSUME NEW i \in f..y PROVE i \in E
          OBVIOUS
        <5>1. i \in f..x \/ i \in x..l
          BY <1>0, <1>1, <1>3, <2>1
        <5> QED BY <1>1, <1>3, <5>1
      <4>2. g <= f
        BY <1>1, <1>2, <4>1
      <4>3. g..x \subseteq E
        <5> SUFFICES ASSUME NEW i \in g..x PROVE i \in E
          OBVIOUS
        <5>1. i \in g..y
          BY <1>0, <1>2
        <5> QED BY <1>2, <5>1
      <4>4. f <= g
        BY <1>1, <1>2, <4>3
      <4> QED BY <1>0, <1>1, <1>2, <4>2, <4>4
    <3>2. l = m
      <4>1. y..l \subseteq E
        <5> SUFFICES ASSUME NEW i \in y..l PROVE i \in E
          OBVIOUS
        <5>1. i \in x..l
          BY <1>0, <1>3
        <5> QED BY <1>3, <5>1
      <4>2. l <= m
        BY <1>3, <1>4, <4>1
      <4>3. x..m \subseteq E
        <5> SUFFICES ASSUME NEW i \in x..m PROVE i \in E
          OBVIOUS
        <5>1. i \in x..l \/ i \in y..m
          BY <1>0, <1>3, <1>4, <2>1
        <5> QED BY <1>3, <1>4, <5>1
      <4>4. m <= l
        BY <1>3, <1>4, <4>3
      <4> QED BY <1>0, <1>3, <1>4, <4>2, <4>4
    <3>3. y \in A /\ y \notin B
      <4>1. y \in (x+1)..l
        BY <1>0, <1>3, <2>1
      <4> QED BY <1>5, <1>6, <4>1
    <3>4. B \subseteq A
      <4>1. (y+1)..m \subseteq (x+1)..l
        BY <1>0, <1>3, <3>2
      <4> QED BY <1>5, <3>1, <4>1
    <3> QED BY <3>3, <3>4
  <2>2. CASE ~(y <= l)
    <3>1. l < y /\ x < l + 1
      BY <1>0, <1>3, <2>2
    <3>2. l < g
      <4> SUFFICES ASSUME g <= l PROVE FALSE
        BY <1>0, <1>2, <1>3
      <4>1. x..y \subseteq E
        <5> SUFFICES ASSUME NEW i \in x..y PROVE i \in E
          OBVIOUS
        <5>1. i \in x..l \/ i \in g..y
          BY <1>0, <1>2, <1>3
        <5> QED BY <1>2, <1>3, <5>1
      <4> QED BY <1>3, <2>2, <4>1
    <3>3. x \in B /\ x \notin A
      <4>1. x < g
        BY <1>0, <1>2, <1>3, <3>2
      <4> QED BY <1>5, <1>6, <4>1
    <3>4. A \subseteq B
      <4> SUFFICES ASSUME NEW i \in A PROVE i < g
        BY Zenon, <1>5, <1>6
      <4>1. i \in E /\ (i < f \/ i \in (x+1)..l)
        BY <1>5, <1>6
      <4>2. i < g
        BY <1>0, <1>1, <1>2, <1>3, <3>2, <4>1
      <4> QED BY <4>2
    <3> QED BY <3>3, <3>4
  <2> QED BY <2>1, <2>2
<1>8. A # B
  BY <1>7
<1>9. A \subseteq B \/ B \subseteq A
  BY <1>7
<1>10. Cardinality(A) # Cardinality(B)
  BY Zenon, <1>6, <1>8, <1>9, FS_Subset
<1> QED BY <1>10 DEF A, B

\* Tokens move from cells in use to empty ones, each from a cell of its own.
Moves(plan, c) ==
    /\ DOMAIN plan \subseteq Cell
    /\ \A x \in DOMAIN plan : c.pos[x] = -1 /\ plan[x] \in Cell /\ c.pos[plan[x]] # -1
    /\ \A x, y \in DOMAIN plan : plan[x] = plan[y] => x = y

LEMMA PlanIs ==
    ASSUME NEW c, CellsInv(c)
    PROVE  Moves(DefragPlan(c), c)
<1> DEFINE U == c.used
           m == Cardinality(U)
           I == 0..m-1
           E == Holes(c)
           S == Rest(c)
           n == Cardinality(S)
           rest == Sorted(S)
           p == DefragPlan(c)
<1>1. /\ U \subseteq Cell /\ U = {i \in Cell : c.pos[i] # -1} /\ Cell = 0..NCells-1 /\ NCells \in Nat
      /\ Cell \subseteq Int
  BY CellsAssumption DEF CellsInv, CellSets, Occupied, Cell
<1>2. IsFiniteSet(U) /\ m \in Nat /\ m <= NCells
  <2>1. IsFiniteSet(Cell) /\ Cardinality(Cell) = NCells
    BY CellCount
  <2>2. IsFiniteSet(U) /\ m <= Cardinality(Cell)
    BY <1>1, <2>1, FS_Subset
  <2> QED BY <2>1, <2>2, FS_CardinalityType
<1>3. DOMAIN p \subseteq E
      /\ \A x \in DOMAIN p : p[x] = rest[Len(rest) - Cardinality(Before(E, x)) - (RunEnd(E, x) - x)]
  BY Zenon DEF DefragPlan, Holes, Rest, Before, RunStart, RunEnd
<1> HIDE DEF p
<1>4. E = {i \in I : c.pos[i] = -1} /\ S = {i \in U : i >= m}
  BY DEF Holes, Rest, IsEmpty
<1> HIDE DEF E, S, U, m
<1>5. I \subseteq Cell /\ IsFiniteSet(I) /\ Cardinality(I) = m
  <2>1. 0 \in Int /\ m - 1 \in Int /\ (0 > m - 1 => m = 0) /\ (m - 1) - 0 + 1 = m
    BY <1>2
  <2>2. I \subseteq Cell
    BY <1>1, <1>2
  <2> QED BY Zenon, <2>1, <2>2, FS_Interval
<1>6. E = I \ U
  BY <1>1, <1>4, <1>5
<1>7. S = U \ I
  <2>1. \A i \in U : i >= m <=> i \notin I
    BY <1>1, <1>2
  <2> QED BY <1>4, <2>1
<1> HIDE DEF I
<1>8. IsFiniteSet(E) /\ IsFiniteSet(S) /\ Cardinality(E) = n /\ n \in Nat
  <2>1. IsFiniteSet(E) /\ Cardinality(E) = m - Cardinality(I \cap U)
    BY Zenon, <1>5, <1>6, FS_Difference
  <2>2. IsFiniteSet(S) /\ n = m - Cardinality(U \cap I)
    BY <1>2, <1>7, FS_Difference DEF m
  <2>3. I \cap U = U \cap I
    OBVIOUS
  <2> QED BY Zenon, <2>1, <2>2, <2>3, FS_CardinalityType
<1>9. S \subseteq Int /\ E \subseteq Int
  BY Zenon, <1>1, <1>5, <1>6, <1>7
<1> HIDE DEF n, rest
<1>10. /\ Len(rest) = n /\ rest \in [1..n -> S]
       /\ \A k, l \in 1..n : rest[k] = rest[l] => k = l
  BY Zenon, <1>8, <1>9, SortedIs DEF n, rest
<1> DEFINE L(x) == Cardinality(Later(E, x))
<1>11. ASSUME NEW x \in DOMAIN p PROVE x \in E /\ n - L(x) \in 1..n /\ p[x] = rest[n - L(x)]
  <2>1. x \in E
    BY <1>3
  <2>2. /\ IsFiniteSet(Before(E, x)) /\ Cardinality(Before(E, x)) \in Nat
        /\ RunEnd(E, x) \in Int /\ x \in Int
    <3>1. Before(E, x) \subseteq E
      BY DEF Before
    <3>2. RunEnd(E, x) \in E
      BY Zenon, <1>8, <1>9, <2>1, LastIs
    <3> QED BY Zenon, <1>8, <1>9, <2>1, <3>1, <3>2, FS_Subset, FS_CardinalityType
  <2> DEFINE b == Cardinality(Before(E, x))
             e == RunEnd(E, x)
             l == L(x)
  <2>3. l = b + (e - x) /\ l \in 0..Cardinality(E)-1
    BY Zenon, <1>8, <1>9, <2>1, LaterIs
  <2>4. p[x] = rest[Len(rest) - b - (e - x)]
    BY <1>3
  <2> HIDE DEF b, e, l
  <2>5. n - b - (e - x) = n - l /\ n - l \in 1..n
    BY <1>8, <2>2, <2>3 DEF b, e
  <2>6. p[x] = rest[n - l]
    BY <1>10, <2>4, <2>5
  <2> QED BY <2>1, <2>5, <2>6 DEF l
<1>12. ASSUME NEW x \in DOMAIN p PROVE x \in Cell /\ c.pos[x] = -1 /\ p[x] \in Cell /\ c.pos[p[x]] # -1
  <2>1. x \in E /\ p[x] \in S
    BY <1>10, <1>11
  <2> QED BY Zenon, <1>1, <1>4, <1>5, <1>7, <2>1
<1>13. ASSUME NEW x \in DOMAIN p, NEW y \in DOMAIN p, p[x] = p[y] PROVE x = y
  <2>1. n - L(x) = n - L(y)
    BY <1>10, <1>11, <1>13
  <2>2. L(x) = L(y)
    <3>1. \A z \in E : L(z) \in 0..Cardinality(E)-1
      BY Zenon, <1>8, <1>9, LaterIs
    <3>2. x \in E /\ y \in E
      BY <1>11
    <3> HIDE DEF L
    <3>3. L(x) \in Int /\ L(y) \in Int
      BY <3>1, <3>2
    <3> QED BY <1>8, <2>1, <3>3
  <2>3. x \in E /\ y \in E /\ x \in Int /\ y \in Int
    BY <1>9, <1>11
  <2>4. ~(x < y) /\ ~(y < x)
    BY Zenon, <1>8, <1>9, <2>2, <2>3, LaterDiffers
  <2> QED BY <2>3, <2>4
<1>14. Moves(p, c)
  BY <1>12, <1>13 DEF Moves
<1> QED BY <1>14 DEF p

MvStep(x, acc, plan, c, d) == Mv(acc, plan[x], x)
MvLeaves(acc, T, plan, c, d) ==
    /\ CellsInv(acc) /\ acc.hasShift = c.hasShift
    /\ \A x \in T : acc.pos[x] = c.pos[plan[x]] /\ acc.shift[x] = c.shift[plan[x]]
    /\ \A j \in Cell \ T : \/ \E x \in T : plan[x] = j /\ acc.pos[j] = -1 /\ acc.shift[j] = 0
                           \/ /\ \A x \in T : plan[x] # j
                              /\ acc.pos[j] = c.pos[j] /\ acc.shift[j] = c.shift[j]
MvFold == INSTANCE Folding WITH Step <- MvStep, Keeps <- MvLeaves, Pick <- SomeOf

MvAll(c, plan) == FoldSet(LAMBDA x, acc : Mv(acc, plan[x], x), c, DOMAIN plan)

LEMMA MvStepIs ==
    ASSUME NEW c, CellsInv(c), NEW plan, Moves(plan, c), NEW T \in SUBSET DOMAIN plan, NEW x \in T,
           NEW acc, MvLeaves(acc, T \ {x}, plan, c, 0)
    PROVE  MvLeaves(Mv(acc, plan[x], x), T, plan, c, 0)
<1> DEFINE i == plan[x]
           d == Mv(acc, i, x)
           O == T \ {x}
<1>1. /\ T \subseteq Cell /\ x \in Cell /\ i \in Cell /\ c.pos[x] = -1 /\ c.pos[i] # -1
      /\ \A y \in T : c.pos[y] = -1 /\ plan[y] \in Cell /\ c.pos[plan[y]] # -1
      /\ \A y \in T : plan[y] = i => y = x
  BY DEF Moves
<1>2. i = plan[x]
  OBVIOUS
<1>3. /\ CellsInv(acc) /\ acc.hasShift = c.hasShift
      /\ \A y \in O : acc.pos[y] = c.pos[plan[y]] /\ acc.shift[y] = c.shift[plan[y]]
      /\ \A j \in Cell \ O : \/ \E y \in O : plan[y] = j /\ acc.pos[j] = -1 /\ acc.shift[j] = 0
                             \/ /\ \A y \in O : plan[y] # j
                                /\ acc.pos[j] = c.pos[j] /\ acc.shift[j] = c.shift[j]
  BY DEF MvLeaves
<1>4. O \subseteq T /\ x \notin O /\ T = O \cup {x}
  OBVIOUS
<1> HIDE DEF i, O
<1>5. acc.pos[x] = -1
  <2>1. \A y \in O : plan[y] # x
    BY <1>1, <1>4
  <2> QED BY <1>1, <1>3, <1>4, <2>1
<1>6. acc.pos[i] = c.pos[i] /\ acc.shift[i] = c.shift[i] /\ acc.pos[i] # -1 /\ i # x /\ i \notin T
  <2>1. \A y \in O : plan[y] # i
    BY <1>1, <1>4
  <2>2. i \notin T
    BY <1>1
  <2> QED BY <1>1, <1>3, <1>4, <2>1, <2>2
<1> DEFINE p == acc.pos[i]
           sh == acc.shift[i]
<1>7. /\ CellsInv(d) /\ d.hasShift = acc.hasShift
      /\ d.pos = [acc.pos EXCEPT ![x] = p, ![i] = -1]
      /\ d.shift = [acc.shift EXCEPT ![x] = sh, ![i] = 0]
  <2>1. d = Mv(acc, i, x)
    OBVIOUS
  <2> HIDE DEF d
  <2> QED BY <1>1, <1>3, <1>5, <1>6, <2>1, MvIs
<1>8. acc.pos \in [Cell -> Int] /\ acc.shift \in [Cell -> Int]
  BY <1>3 DEF CellsInv, CellSets
<1> HIDE DEF d
<1>9. p = c.pos[i] /\ sh = c.shift[i]
  BY <1>6
<1> HIDE DEF p, sh
<1>10. /\ \A j \in Cell : d.pos[j] = IF j = i THEN -1 ELSE IF j = x THEN p ELSE acc.pos[j]
       /\ \A j \in Cell : d.shift[j] = IF j = i THEN 0 ELSE IF j = x THEN sh ELSE acc.shift[j]
  BY <1>1, <1>6, <1>7, <1>8
<1>11. ASSUME NEW y \in T PROVE d.pos[y] = c.pos[plan[y]] /\ d.shift[y] = c.shift[plan[y]]
  <2>1. y \in Cell /\ y # i
    BY <1>1, <1>6
  <2>2. CASE y = x
    BY <1>2, <1>9, <1>10, <2>1, <2>2
  <2>3. CASE y # x
    BY <1>3, <1>4, <1>10, <2>1, <2>3
  <2> QED BY <2>2, <2>3
<1>12. ASSUME NEW j \in Cell \ T
       PROVE \/ \E y \in T : plan[y] = j /\ d.pos[j] = -1 /\ d.shift[j] = 0
             \/ /\ \A y \in T : plan[y] # j
                /\ d.pos[j] = c.pos[j] /\ d.shift[j] = c.shift[j]
  <2>1. CASE j = i
    BY <1>2, <1>10, <2>1
  <2>2. CASE j # i
    <3>1. d.pos[j] = acc.pos[j] /\ d.shift[j] = acc.shift[j]
      BY <1>4, <1>10, <2>2
    <3> QED BY <1>2, <1>3, <1>4, <2>2, <3>1
  <2> QED BY <2>1, <2>2
<1>13. MvLeaves(d, T, plan, c, 0)
  BY <1>3, <1>7, <1>11, <1>12 DEF MvLeaves
<1> QED BY <1>13 DEF d, i

LEMMA MvAllIs ==
    ASSUME NEW c, CellsInv(c), NEW plan, Moves(plan, c)
    PROVE  MvLeaves(MvAll(c, plan), DOMAIN plan, plan, c, 0)
<1> DEFINE I == DOMAIN plan
<1>1. MvAll(c, plan) = MvFold!Folded(c, I, plan, c, 0)
  BY DEF MvAll, FoldSet, MapThenFoldSet, MvFold!Folded, MvStep, SomeOf
<1>2. MvFold!IsFiniteSet(I)
  BY CellFinite DEF Moves, IsFiniteSet, MvFold!IsFiniteSet
<1>3. \A T \in SUBSET I : T # {} => SomeOf(T) \in T
  BY SomeIn
<1>4. MvLeaves(c, {}, plan, c, 0)
  BY DEF MvLeaves
<1>5. \A T \in SUBSET I : T # {} => \A acc :
          MvLeaves(acc, T \ {SomeOf(T)}, plan, c, 0) => MvLeaves(MvStep(SomeOf(T), acc, plan, c, 0), T, plan, c, 0)
  BY <1>3, MvStepIs DEF MvStep
<1>6. MvFold!Inductive(c, I, plan, c, 0)
  BY <1>2, <1>3, <1>4, <1>5 DEF MvFold!Inductive
<1> QED BY <1>1, <1>6, MvFold!FoldKeeps

-----------------------------------------------------------------------------
(* Updates *)

\* No batch is longer than the cache: then there are names for its tokens.
Short == \A b \in Batches : Len(b) <= NCells

\* Each cell in use has a key.
Keys(k) ==
    \A i \in k.cells.used : /\ i \in DOMAIN k.data /\ DOMAIN k.data[i] = {"tok", "rot", "lost"}
                            /\ k.data[i].rot \in Int /\ k.data[i].lost \in Int
                            /\ Short => k.data[i].tok \in Names

\* Each key is rotated for its position but for the pending shift, and for
\* what was pending when a state was saved.
Rotated(k) ==
    \A i \in k.cells.used : k.data[i].rot + k.cells.shift[i] + k.data[i].lost = k.cells.pos[i]

Good(k) == IsKv(k) /\ Calm(k.cells) /\ Keys(k)

LEMMA UsedIs == ASSUME NEW k, IsKv(k)
                PROVE  /\ k.cells.used = {i \in Cell : k.cells.pos[i] # -1}
                       /\ \A i \in Cell : k.cells.pos[i] \in Int /\ k.cells.shift[i] \in Int
BY DEF IsKv, CellsInv, CellSets, Occupied

LEMMA KShiftIs ==
    ASSUME NEW k, Good(k), NEW d, d = KShift(k)
    PROVE  Good(d) /\ ~d.cells.hasShift /\ (Rotated(k) => Rotated(d))
<1> DEFINE c == k.cells
           e == ResetShift(c)
           key(i) == [k.data[i] EXCEPT !.rot = k.data[i].rot + c.shift[i]]
<1>1. IsKv(k) /\ CellsInv(c) /\ Calm(c) /\ Keys(k)
  BY DEF Good, IsKv
<1>2. /\ DOMAIN d = DOMAIN k /\ d.cells = e /\ d.head = k.head
      /\ d.data = [i \in c.used |-> key(i)]
  <2> DEFINE D == [i \in c.used |-> key(i)]
  <2>1. d = [k EXCEPT !.data = D, !.cells = e]
    BY DEF KShift
  <2>2. DOMAIN k = {"cells", "head", "data"}
    BY <1>1 DEF IsKv
  <2> HIDE DEF D, e
  <2>3. DOMAIN d = DOMAIN k /\ d.cells = e /\ d.head = k.head /\ d.data = D
    BY <2>1, <2>2
  <2> QED BY <2>3 DEF D
<1>3. /\ CellsInv(e) /\ e.pos = c.pos /\ e.used = c.used
      /\ e.hasShift = FALSE /\ e.shift = [i \in Cell |-> 0]
  BY Zenon, <1>1, ResetShiftIs
<1>4. /\ c.used \subseteq Cell
      /\ \A i \in c.used : c.pos[i] \in Int /\ c.shift[i] \in Int
  BY <1>1, UsedIs
<1>5. \A i \in c.used : /\ i \in DOMAIN k.data /\ DOMAIN k.data[i] = {"tok", "rot", "lost"}
                        /\ k.data[i].rot \in Int /\ k.data[i].lost \in Int
                        /\ Short => k.data[i].tok \in Names
  BY <1>1 DEF Keys
<1>6. \A i \in c.used : /\ DOMAIN key(i) = {"tok", "rot", "lost"} /\ key(i).tok = k.data[i].tok
                        /\ key(i).rot = k.data[i].rot + c.shift[i] /\ key(i).lost = k.data[i].lost
  BY <1>5
<1> HIDE DEF c, e, key
<1>7. \A i \in c.used : i \in DOMAIN d.data /\ d.data[i] = key(i)
  BY <1>2
<1>8. IsKv(d)
  BY <1>1, <1>2, <1>3 DEF IsKv
<1>9. Calm(e)
  BY <1>3 DEF Calm
<1>10. \A i \in c.used : key(i).rot \in Int /\ key(i).lost \in Int /\ (Short => key(i).tok \in Names)
  BY <1>4, <1>5, <1>6
<1>11. Keys(d)
  BY <1>2, <1>3, <1>6, <1>7, <1>10 DEF Keys
<1>12. ~d.cells.hasShift
  BY <1>2, <1>3
<1>13. ASSUME Rotated(k) PROVE Rotated(d)
  <2> SUFFICES ASSUME NEW i \in c.used PROVE d.data[i].rot + e.shift[i] + d.data[i].lost = e.pos[i]
    BY <1>2, <1>3 DEF Rotated
  <2>1. /\ d.data[i].rot = k.data[i].rot + c.shift[i] /\ d.data[i].lost = k.data[i].lost
        /\ e.shift[i] = 0 /\ e.pos[i] = c.pos[i]
    BY <1>3, <1>4, <1>6, <1>7
  <2>2. k.data[i].rot + c.shift[i] + k.data[i].lost = c.pos[i]
    BY <1>13 DEF Rotated, c
  <2>3. (k.data[i].rot + c.shift[i]) + 0 = k.data[i].rot + c.shift[i]
    BY <1>4, <1>5
  <2> QED BY <2>1, <2>2, <2>3
<1> QED BY <1>2, <1>8, <1>9, <1>11, <1>12, <1>13 DEF Good

\* Each cell in use has what one of k had, and its key.
Follows(d, k) ==
    \A j \in d.cells.used : \E i \in k.cells.used :
        /\ d.cells.pos[j] = k.cells.pos[i] /\ d.cells.shift[j] = k.cells.shift[i]
        /\ i \in DOMAIN k.data => j \in DOMAIN d.data /\ d.data[j] = k.data[i]

LEMMA FollowsKeeps ==
    ASSUME NEW k, NEW d, Follows(d, k)
    PROVE  (Keys(k) => Keys(d)) /\ (Keys(k) /\ Rotated(k) => Rotated(d))
BY DEF Follows, Keys, Rotated

LEMMA DefragIs ==
    ASSUME NEW k, IsKv(k), NEW d, d = Defrag(k)
    PROVE  IsKv(d) /\ d.cells.hasShift = k.cells.hasShift /\ (Calm(k.cells) => Calm(d.cells)) /\ Follows(d, k)
<1> DEFINE plan == DefragPlan(k.cells)
           c == k.cells
           e == MvAll(c, plan)
<1>1. CellsInv(c)
  BY DEF IsKv
<1>2. CASE DOMAIN plan = {}
  <2>1. d = k
    BY <1>2 DEF Defrag
  <2> QED BY <2>1 DEF Follows
<1>3. CASE DOMAIN plan # {}
  <2>1. d = [cells |-> e, head |-> 0,
             data |-> [i \in e.used |-> k.data[IF i \in DOMAIN plan THEN plan[i] ELSE i]]]
    BY Zenon, <1>3 DEF Defrag, MvAll
  <2>2. Moves(plan, c)
    BY <1>1, PlanIs
  <2> HIDE DEF plan
  <2>3. MvLeaves(e, DOMAIN plan, plan, c, 0)
    BY <1>1, <2>2, MvAllIs
  <2> DEFINE T == DOMAIN plan
             from(i) == IF i \in T THEN plan[i] ELSE i
  <2> HIDE DEF e, c
  <2>4. /\ CellsInv(e) /\ e.hasShift = c.hasShift
        /\ \A x \in T : e.pos[x] = c.pos[plan[x]] /\ e.shift[x] = c.shift[plan[x]]
        /\ \A j \in Cell \ T : \/ \E x \in T : plan[x] = j /\ e.pos[j] = -1 /\ e.shift[j] = 0
                               \/ /\ \A x \in T : plan[x] # j
                                  /\ e.pos[j] = c.pos[j] /\ e.shift[j] = c.shift[j]
    BY <2>3 DEF MvLeaves
  <2>5. \A x \in T : plan[x] \in Cell /\ c.pos[plan[x]] # -1
    BY <2>2 DEF Moves
  <2>6. DOMAIN d = {"cells", "head", "data"} /\ d.cells = e /\ d.head = 0
        /\ d.data = [i \in e.used |-> k.data[from(i)]]
    BY <2>1
  <2> HIDE DEF T, from
  <2>7. IsKv(d)
    BY <2>4, <2>6, CellsAssumption DEF IsKv
  <2>8. Calm(c) => Calm(e)
    <3> SUFFICES ASSUME Calm(c) PROVE Calm(e)
      OBVIOUS
    <3>1. ASSUME NEW j \in Cell, e.pos[j] = -1 PROVE e.shift[j] = 0
      BY <2>4, <2>5, <3>1 DEF Calm
    <3>2. ASSUME ~e.hasShift, NEW j \in Cell PROVE e.shift[j] = 0
      BY <2>4, <2>5, <3>2 DEF Calm
    <3> QED BY <3>1, <3>2 DEF Calm
  <2>9. e.used = {i \in Cell : e.pos[i] # -1} /\ c.used = {i \in Cell : c.pos[i] # -1}
    BY <1>1, <2>4 DEF CellsInv, Occupied, c
  <2>10. Follows(d, k)
    <3> SUFFICES ASSUME NEW j \in e.used
                 PROVE  \E i \in c.used : /\ e.pos[j] = c.pos[i] /\ e.shift[j] = c.shift[i]
                                          /\ j \in DOMAIN d.data /\ d.data[j] = k.data[i]
      BY <2>6 DEF Follows, c
    <3> DEFINE i == from(j)
    <3>1. j \in Cell /\ e.pos[j] # -1
      BY <2>9
    <3>2. i \in c.used /\ e.pos[j] = c.pos[i] /\ e.shift[j] = c.shift[i]
      <4>1. CASE j \in T
        <5>1. i = plan[j]
          BY <4>1 DEF from
        <5> QED BY <2>4, <2>5, <2>9, <4>1, <5>1
      <4>2. CASE j \notin T
        <5>1. i = j
          BY <4>2 DEF from
        <5> QED BY <2>4, <2>9, <3>1, <4>2, <5>1
      <4> QED BY <4>1, <4>2
    <3>3. j \in DOMAIN d.data /\ d.data[j] = k.data[i]
      BY <2>6
    <3> QED BY <3>2, <3>3
  <2> QED BY <2>4, <2>6, <2>7, <2>8, <2>10 DEF c
<1> QED BY <1>2, <1>3

LEMMA UpdateIs ==
    ASSUME NEW k, Good(k), NEW optimize, NEW d, d = Update(k, optimize)
    PROVE  Good(d) /\ ~d.cells.hasShift /\ (Rotated(k) => Rotated(d))
<1> DEFINE s == IF k.cells.hasShift THEN KShift(k) ELSE k
<1>1. Good(s) /\ ~s.cells.hasShift /\ (Rotated(k) => Rotated(s))
  BY KShiftIs
<1>2. d = IF optimize THEN Defrag(s) ELSE s
  BY DEF Update
<1> HIDE DEF s
<1>3. CASE optimize
  <2>1. d = Defrag(s) /\ IsKv(s) /\ Calm(s.cells) /\ Keys(s)
    BY <1>1, <1>2, <1>3 DEF Good
  <2>2. IsKv(d) /\ d.cells.hasShift = s.cells.hasShift /\ Calm(d.cells) /\ Follows(d, s)
    BY <2>1, DefragIs
  <2>3. Keys(d) /\ (Rotated(s) => Rotated(d))
    BY <2>1, <2>2, FollowsKeeps
  <2> QED BY <1>1, <2>2, <2>3 DEF Good
<1>4. CASE ~optimize
  BY <1>1, <1>2, <1>4
<1> QED BY <1>3, <1>4

\* A plan: where each ubatch goes.
IsPlan(r, k, ubs) ==
    /\ Good(r.kv) /\ ~r.kv.cells.hasShift /\ (Rotated(k) => Rotated(r.kv))
    /\ r.ok => \A u \in 1..Len(ubs) : r.heads[u] \in 0..NCells-Len(ubs[u])

LEMMA ReadyIs ==
    ASSUME NEW k, Good(k), ~k.cells.hasShift, NEW ubs, AreUbatches(ubs), NEW r, r = Prepare(k, ubs)
    PROVE  IsPlan(r, k, ubs)
<1> DEFINE b == r.kv
           c == k.cells
           e == b.cells
<1>1. /\ IsKv(b) /\ b.data = k.data /\ e.hasShift = c.hasShift
      /\ Calm(c) /\ ~c.hasShift => Calm(e)
      /\ Within(e, c, {})
      /\ r.ok => \A u \in 1..Len(ubs) : r.heads[u] \in 0..NCells-Len(ubs[u])
  BY Zenon, PrepareIs DEF Ready, Good
<1>2. IsKv(k) /\ Calm(c) /\ Keys(k)
  BY DEF Good
<1> HIDE DEF b
<1>3. Calm(e) /\ ~e.hasShift
  BY <1>1, <1>2
<1>4. e.used = {i \in Cell : e.pos[i] # -1} /\ c.used = {i \in Cell : c.pos[i] # -1}
  BY <1>1, <1>2, UsedIs
<1>5. Follows(b, k)
  <2> SUFFICES ASSUME NEW j \in e.used
               PROVE  /\ j \in c.used /\ e.pos[j] = c.pos[j] /\ e.shift[j] = c.shift[j]
    BY <1>1 DEF Follows
  <2>1. j \in Cell /\ e.pos[j] # -1 /\ e.pos[j] \in {-1, c.pos[j]}
    BY <1>1, <1>4 DEF Within
  <2>2. e.shift[j] = 0 /\ c.shift[j] = 0
    BY <1>2, <1>3, <2>1 DEF Calm
  <2> QED BY <1>4, <2>1, <2>2
<1>6. Keys(b) /\ (Rotated(k) => Rotated(b))
  BY <1>2, <1>5, FollowsKeeps
<1>7. Good(b)
  BY <1>1, <1>3, <1>6 DEF Good
<1> QED BY <1>1, <1>3, <1>6, <1>7 DEF IsPlan, b

LEMMA PlannedIs ==
    ASSUME NEW k, Good(k), NEW ubs, AreUbatches(ubs), NEW r, r = Planned(k, ubs)
    PROVE  IsPlan(r, k, ubs)
<1> DEFINE s == Update(k, FALSE)
           o == Prepare(s, ubs)
           t == Update(o.kv, TRUE)
           p == Prepare(t, ubs)
<1>1. Good(s) /\ ~s.cells.hasShift /\ (Rotated(k) => Rotated(s))
  BY Zenon, UpdateIs
<1> HIDE DEF s
<1>2. IsPlan(o, s, ubs)
  BY <1>1, ReadyIs
<1>3. r = IF o.ok \/ DOMAIN DefragPlan(o.kv.cells) = {} THEN o ELSE p
  BY DEF Planned, Retried, s
<1> HIDE DEF o
<1>4. Good(t) /\ ~t.cells.hasShift /\ (Rotated(o.kv) => Rotated(t))
  <2>1. Good(o.kv)
    BY <1>2 DEF IsPlan
  <2> QED BY Zenon, <2>1, UpdateIs
<1> HIDE DEF t
<1>5. IsPlan(p, t, ubs)
  BY <1>4, ReadyIs
<1> HIDE DEF p
<1>6. r = o \/ r = p
  BY <1>3
<1> QED BY <1>1, <1>2, <1>4, <1>5, <1>6 DEF IsPlan

-----------------------------------------------------------------------------
(* Batches *)

LEMMA PositionsIs ==
    ASSUME NEW c, CellsInv(c), NEW s \in Seqs
    PROVE  SeqPosMax(c, s) \in Int /\ SeqPosMax(c, s) >= -1
<1> DEFINE P == BagToSet(c.seqPos[s])
           F == {c.pos[i] : i \in Cell}
<1>1. P = DOMAIN c.seqPos[s]
  BY DEF BagToSet
<1>2. c.seqPos[s] \in PosBags /\ P \subseteq Int /\ c.pos \in [Cell -> Int]
  <2>1. c.seqPos[s] \in PosBags /\ c.pos \in [Cell -> Int]
    BY DEF CellsInv, CellSets
  <2> QED BY <1>1, <2>1, BagIs
<1> HIDE DEF P
<1>3. ASSUME NEW p \in P PROVE p \in F /\ p >= 0
  <2>1. p \in Int
    BY <1>2
  <2>2. Copies(c.seqPos[s], p) > 0
    BY <1>1, <1>2, CopiesType
  <2>3. Cardinality(At(c, s, p)) # 0
    BY <2>1, <2>2 DEF CellsInv, Counted
  <2>4. At(c, s, p) # {}
    BY <2>3, FS_EmptySet
  <2>5. PICK i \in Cell : s \in c.seq[i] /\ c.pos[i] = p
    BY <2>4 DEF At
  <2>6. c.pos[i] # -1 /\ c.pos[i] >= -1
    BY <2>5 DEF CellsInv, Occupied
  <2> QED BY <2>1, <2>5, <2>6
<1>4. IsFiniteSet(P)
  <2>1. IsFiniteSet(Cell)
    BY CellFinite
  <2>2. c.pos \in Surjection(Cell, F)
    BY <1>2 DEF Surjection
  <2> HIDE DEF F
  <2>3. IsFiniteSet(F)
    BY <2>1, <2>2, FS_Surjection
  <2> QED BY <1>3, <2>3, FS_Subset
<1>5. SeqPosMax(c, s) = IF P = {} THEN -1 ELSE CHOOSE p \in P : \A q \in P : q <= p
  BY DEF SeqPosMax, P
<1>6. CASE P = {}
  BY <1>5, <1>6
<1>7. CASE P # {}
  <2>1. Max(P) \in P /\ \A q \in P : q <= Max(P)
    BY Zenon, <1>2, <1>4, <1>7, GreatestIn
  <2>2. SeqPosMax(c, s) \in P
    BY <1>5, <1>7, <2>1
  <2>3. SeqPosMax(c, s) >= 0
    BY <1>3, <2>2
  <2>4. SeqPosMax(c, s) \in Int
    BY Zenon, <1>2, <2>2
  <2> QED BY <2>3, <2>4
<1> QED BY <1>6, <1>7

LEMMA PositionedIs ==
    ASSUME NEW c, CellsInv(c), NEW b \in Seq(Seqs), NEW d, d = Positioned(c, b)
    PROVE  IsUbatch(d) /\ Len(d) = Len(b)
<1> DEFINE n == Len(b)
           T == [seq : Seqs, pos : Nat]
           m(j) == Cardinality({i \in 1..j : b[i] = b[j]})
           pos(j) == SeqPosMax(c, b[j]) + m(j)
<1>1. n \in Nat /\ \A j \in 1..n : b[j] \in Seqs
  BY LenProperties, ElementOfSeq
<1>2. d = [j \in 1..n |-> [seq |-> b[j], pos |-> pos(j)]]
  BY DEF Positioned
<1> HIDE DEF n
<1>3. ASSUME NEW j \in 1..n PROVE pos(j) \in Nat
  <2> DEFINE S == {i \in 1..j : b[i] = b[j]}
             k == Cardinality(S)
             x == SeqPosMax(c, b[j])
  <2>1. j \in S /\ S \subseteq 1..j /\ j \in Int
    BY <1>1
  <2> HIDE DEF S
  <2>2. IsFiniteSet(S) /\ S # {}
    <3>1. IsFiniteSet(1..j)
      BY <2>1, FS_Interval
    <3> QED BY Zenon, <2>1, <3>1, FS_Subset
  <2>3. k \in Nat /\ k # 0
    BY <2>2, FS_CardinalityType, FS_EmptySet
  <2>4. x \in Int /\ x >= -1
    BY <1>1, PositionsIs
  <2> HIDE DEF k, x
  <2>5. x + k \in Nat
    BY <2>3, <2>4
  <2> QED BY <2>5 DEF x, k, S
<1> HIDE DEF pos
<1>4. \A j \in 1..n : d[j] \in T
  BY <1>1, <1>2, <1>3
<1> HIDE DEF T
<1>5. d \in [1..n -> T]
  BY <1>2, <1>4
<1>6. d \in Seq(T) /\ Len(d) = n
  BY <1>1, <1>5, SeqDef, LenProperties
<1> QED BY <1>6 DEF IsUbatch, T, n

\* Each piece comes after pieces of NUbatch tokens, and all are L at most.
Pieces(ubs, L) == \A u \in 1..Len(ubs) : (u - 1) * NUbatch + Len(ubs[u]) <= L

LEMMA SplitIs ==
    ASSUME NEW b, IsUbatch(b), Len(b) >= 1, NEW ubs, ubs = Split(b)
    PROVE  AreUbatches(ubs) /\ Pieces(ubs, Len(b))
<1> DEFINE n == Len(b)
           N == NUbatch
           U == (n + N - 1) \div N
           from(u) == (u - 1) * N + 1
           to(u) == Min({u * N, n})
           T == [seq : Seqs, pos : Nat]
<1>1. n \in Nat /\ n >= 1 /\ N \in Nat /\ N >= 1 /\ b \in Seq(T)
  <2>1. n \in Nat /\ b \in Seq(T)
    BY LenProperties DEF IsUbatch
  <2> QED BY <2>1, CacheAssumption
<1>2. ubs = [u \in 1..U |-> SubSeq(b, from(u), to(u))]
  BY DEF Split
<1> HIDE DEF n, N
<1>3. U \in Nat /\ U * N <= n + N - 1
  BY <1>1
<1> HIDE DEF U
<1>4. ASSUME NEW u \in 1..U
      PROVE  /\ from(u) \in Nat /\ from(u) >= 1 /\ from(u) <= to(u) /\ to(u) <= n /\ to(u) \in Nat
             /\ from(u) = (u - 1) * N + 1
  <2> DEFINE x == u * N
             y == (u - 1) * N
  <2>1. u \in Nat /\ u >= 1 /\ u <= U
    BY <1>3
  <2>2. x \in Nat /\ x <= U * N
    BY <1>1, <1>3, <2>1
  <2>3. y \in Nat /\ x = y + N
    BY <1>1, <2>1
  <2> HIDE DEF x, y
  <2>4. y + 1 <= n /\ y + 1 <= x
    <3> DEFINE z == U * N
    <3>1. z \in Nat
      BY <1>1, <1>3
    <3>2. x <= z /\ z <= n + N - 1
      BY <1>3, <2>2
    <3> HIDE DEF z
    <3> QED BY <1>1, <2>2, <2>3, <3>1, <3>2
  <2>5. to(u) \in {x, n} /\ to(u) <= n
    <3>1. {x, n} \subseteq Int /\ IsFiniteSet({x, n}) /\ {x, n} # {}
      <4>1. {x, n} = {x} \cup {n}
        OBVIOUS
      <4> DEFINE X == {x}
      <4>2. IsFiniteSet(X \cup {n})
        <5>1. IsFiniteSet(X)
          BY Zenon, FS_Singleton
        <5> HIDE DEF X
        <5> QED BY <5>1, FS_AddElement
      <4>3. IsFiniteSet({x, n})
        BY Zenon, <4>1, <4>2
      <4>4. {x, n} \subseteq Int
        BY <1>1, <2>2
      <4>5. n \in {x, n}
        OBVIOUS
      <4> QED BY Zenon, <4>3, <4>4, <4>5
    <3>2. Min({x, n}) \in {x, n} /\ \A z \in {x, n} : Min({x, n}) <= z
      BY <3>1, LeastIn
    <3>3. Min({x, n}) <= n
      BY <3>2
    <3> QED BY <3>2, <3>3 DEF x
  <2>6. from(u) = y + 1
    BY DEF y
  <2>7. from(u) = (u - 1) * N + 1
    OBVIOUS
  <2> HIDE DEF to, from
  <2>8. from(u) \in Nat /\ from(u) >= 1 /\ from(u) <= to(u) /\ to(u) <= n /\ to(u) \in Nat
    BY <1>1, <2>2, <2>3, <2>4, <2>5, <2>6
  <2> QED BY <2>7, <2>8
<1> HIDE DEF from, to, T
<1>5. ASSUME NEW u \in 1..U
      PROVE  IsUbatch(ubs[u]) /\ Len(ubs[u]) >= 1 /\ (u - 1) * N + Len(ubs[u]) <= n
  <2> DEFINE f == from(u)
             t == to(u)
             s == SubSeq(b, f, t)
             y == (u - 1) * N
  <2>1. f \in Nat /\ f >= 1 /\ f <= t /\ t <= n /\ t \in Nat /\ f = y + 1
    BY <1>4
  <2>2. ubs[u] = s
    BY Zenon, <1>2
  <2> HIDE DEF f, t
  <2>3. f \in 1..n+1 /\ t \in f-1..n
    BY <1>1, <2>1
  <2>4. s \in Seq(T) /\ Len(s) = t - f + 1
    BY <1>1, <2>1, <2>3, SubSeqProperties DEF n
  <2> HIDE DEF s
  <2>5. Len(s) >= 1 /\ y + Len(s) <= n
    <3>1. y \in Int
      BY <1>1, <1>3
    <3> HIDE DEF y
    <3> QED BY <1>1, <2>1, <2>4, <3>1
  <2> QED BY <2>2, <2>4, <2>5 DEF IsUbatch, T
<1>6. DOMAIN ubs = 1..U
  BY <1>2
<1>7. Len(ubs) = U
  <2> DEFINE R == [u \in 1..U |-> ubs[u]]
             S == {ubs[u] : u \in 1..U}
  <2>1. ubs \in [1..U -> S]
    BY Zenon, <1>2
  <2> HIDE DEF S
  <2> QED BY <1>3, <2>1, SeqDef, LenProperties
<1> QED BY <1>3, <1>5, <1>6, <1>7 DEF AreUbatches, Pieces, n, N

-----------------------------------------------------------------------------
(* Computing the ubatches *)

\* ubatch ub in the cells from h on, with the names of its tokens.
Computing(k, h, ub, names, m) ==
    LET slot == h..h+Len(ub)-1
        key(i) == [tok |-> names[m + i - h + 1], rot |-> ub[i-h+1].pos, lost |-> 0]
    IN  [ApplyUbatch(k, h, ub) EXCEPT !.data = [i \in slot \cup DOMAIN @ |-> IF i \in slot THEN key(i) ELSE @[i]]]

LEMMA ComputingIs ==
    ASSUME NEW k, Good(k), NEW ub, IsUbatch(ub), NEW h \in 0..NCells-Len(ub), NEW names, NEW m,
           Short => \A i \in Slot(h, ub) : names[m + i - h + 1] \in Names,
           NEW d, d = Computing(k, h, ub, names, m)
    PROVE  Good(d) /\ d.cells.hasShift = k.cells.hasShift /\ (Rotated(k) => Rotated(d))
<1> DEFINE slot == h..h+Len(ub)-1
           key(i) == [tok |-> names[m + i - h + 1], rot |-> ub[i-h+1].pos, lost |-> 0]
           f == [i \in slot |-> key(i)]
           a == ApplyUbatch(k, h, ub)
           e == a.cells
           c == k.cells
<1>1. IsKv(k) /\ Calm(c) /\ Keys(k)
  BY DEF Good
<1>2. Applied(a, k, h, ub)
  BY <1>1, ApplyUbatchIs
<1>3. d = [a EXCEPT !.data = [i \in slot \cup DOMAIN @ |-> IF i \in slot THEN key(i) ELSE @[i]]]
  BY DEF Computing
<1>4. slot = Slot(h, ub)
  BY DEF Slot
<1>5. \A i \in slot : /\ DOMAIN f[i] = {"tok", "rot", "lost"} /\ f[i].rot = ub[i-h+1].pos
                      /\ f[i].rot \in Int /\ f[i].lost = 0
                      /\ Short => f[i].tok \in Names
  <2>1. \A i \in slot : ub[i-h+1].pos \in Nat
    <3> HIDE DEF slot
    <3> QED BY <1>4, UbatchToken
  <2>2. \A i \in slot : /\ f[i] = key(i) /\ DOMAIN key(i) = {"tok", "rot", "lost"}
                        /\ key(i).rot = ub[i-h+1].pos /\ key(i).lost = 0
                        /\ key(i).tok = names[m + i - h + 1]
    <3> HIDE DEF slot
    <3> QED OBVIOUS
  <2>3. Short => \A i \in slot : names[m + i - h + 1] \in Names
    BY <1>4
  <2> HIDE DEF f, slot, key
  <2>4. Short => \A i \in slot : key(i).tok \in Names
    BY <2>2, <2>3
  <2> QED BY <2>1, <2>2, <2>4
<1>6. DOMAIN f = slot
  OBVIOUS
<1> HIDE DEF a, f, slot
<1>7. /\ IsKv(a) /\ a.data = k.data /\ e.hasShift = c.hasShift
      /\ \A j \in Cell :
           \/ e.pos[j] = -1 /\ e.shift[j] = 0
           \/ j \in slot /\ e.pos[j] = ub[j-h+1].pos /\ e.shift[j] = 0
           \/ j \notin slot /\ e.pos[j] = c.pos[j] /\ e.shift[j] = c.shift[j]
  BY <1>1, <1>2, <1>4 DEF Applied
<1>8. Calm(e)
  BY <1>1, <1>2, AppliedCalm
<1>9. DOMAIN d = DOMAIN a /\ d.cells = e /\ d.head = a.head 
      /\ DOMAIN d.data = slot \cup DOMAIN k.data
      /\ \A i \in DOMAIN d.data : d.data[i] = IF i \in slot THEN f[i] ELSE k.data[i]
  <2> DEFINE D == [i \in slot \cup DOMAIN k.data |-> IF i \in slot THEN key(i) ELSE k.data[i]]
  <2>1. d = [a EXCEPT !.data = D]
    BY <1>3, <1>7
  <2>2. DOMAIN D = slot \cup DOMAIN k.data
        /\ \A i \in DOMAIN D : D[i] = IF i \in slot THEN f[i] ELSE k.data[i]
    BY DEF f
  <2> HIDE DEF D
  <2>3. DOMAIN d = DOMAIN a /\ d.cells = e /\ d.head = a.head /\ d.data = D
    BY <1>7, <2>1 DEF IsKv
  <2> QED BY <2>2, <2>3
<1> HIDE DEF c, e
<1>10. IsKv(d)
  BY <1>7, <1>9 DEF IsKv, e
<1>11. e.used = {i \in Cell : e.pos[i] # -1} /\ c.used = {i \in Cell : c.pos[i] # -1}
  BY <1>1, <1>7, UsedIs DEF c, e
<1>12. ASSUME NEW j \in e.used
       PROVE  \/ /\ j \in slot /\ e.pos[j] = f[j].rot /\ e.shift[j] = 0
                 /\ j \in DOMAIN d.data /\ d.data[j] = f[j]
              \/ /\ j \in c.used /\ e.pos[j] = c.pos[j] /\ e.shift[j] = c.shift[j]
                 /\ j \in DOMAIN d.data /\ d.data[j] = k.data[j]
  <2>1. j \in Cell /\ e.pos[j] # -1
    BY <1>11
  <2>2. CASE j \in slot
    <3>1. e.pos[j] = f[j].rot /\ e.shift[j] = 0
      BY <1>5, <1>7, <2>1, <2>2
    <3>2. j \in DOMAIN d.data /\ d.data[j] = f[j]
      BY <1>6, <1>9, <2>2
    <3> QED BY <2>2, <3>1, <3>2
  <2>3. CASE j \notin slot
    <3>1. e.pos[j] = c.pos[j] /\ e.shift[j] = c.shift[j]
      BY <1>7, <2>1, <2>3
    <3>2. j \in c.used
      BY <1>11, <2>1, <3>1
    <3>3. j \in DOMAIN k.data
      BY <1>1, <3>2 DEF Keys, c
    <3>4. j \in DOMAIN d.data /\ d.data[j] = k.data[j]
      BY <1>6, <1>9, <2>3, <3>3
    <3> QED BY <3>1, <3>2, <3>4
  <2> QED BY <2>2, <2>3
<1>13. Keys(d)
  <2>1. \A j \in c.used : /\ DOMAIN k.data[j] = {"tok", "rot", "lost"}
                          /\ k.data[j].rot \in Int /\ k.data[j].lost \in Int
                          /\ Short => k.data[j].tok \in Names
    BY <1>1 DEF Keys, c
  <2> QED BY <1>5, <1>9, <1>12, <2>1 DEF Keys
<1>14. ASSUME Rotated(k) PROVE Rotated(d)
  <2>1. \A j \in c.used : k.data[j].rot + c.shift[j] + k.data[j].lost = c.pos[j]
    BY <1>14 DEF Rotated, c
  <2>2. \A j \in slot : f[j].rot + 0 + f[j].lost = f[j].rot
    BY <1>5
  <2>3. \A j \in e.used : d.data[j].rot + e.shift[j] + d.data[j].lost = e.pos[j]
    BY <1>12, <2>1, <2>2
  <2> QED BY <1>9, <2>3 DEF Rotated
<1> QED BY <1>7, <1>8, <1>9, <1>10, <1>13, <1>14 DEF Good, e, c

ComputeStep(m, acc, plan, ubs, s) ==
    Computing(acc, plan.heads[s[m]], ubs[s[m]], FreshNames, (s[m] - 1) * NUbatch)
ComputeLeaves(acc, m, plan, ubs, s) ==
    Good(acc) /\ ~acc.cells.hasShift /\ (Rotated(plan.kv) => Rotated(acc))
ComputeFold == INSTANCE Folding WITH Step <- ComputeStep, Keeps <- ComputeLeaves, Pick <- Max

LEMMA ComputedIs ==
    ASSUME NEW k, NEW ubs, AreUbatches(ubs), NEW plan, IsPlan(plan, k, ubs), plan.ok,
           NEW L \in Nat, Pieces(ubs, L), Short => \A x \in 1..L : FreshNames[x] \in Names,
           NEW n \in 0..Len(ubs), NEW d, d = Computed(plan, ubs, n)
    PROVE  Good(d) /\ (Rotated(k) => Rotated(d))
<1> DEFINE s == [u \in 1..n |-> u]
           b == plan.kv
<1>1. d = ComputeFold!Folded(b, DOMAIN s, plan, ubs, s)
  BY Zenon DEF Computed, Computing, FoldLeft, MapThenFoldSet, ComputeFold!Folded, ComputeStep
<1>2. DOMAIN s = 1..n /\ n \in Nat /\ \A u \in 1..n : s[u] = u
  BY DEF AreUbatches
<1> HIDE DEF s, b
<1>3. /\ Good(b) /\ ~b.cells.hasShift /\ (Rotated(k) => Rotated(b))
      /\ \A u \in 1..Len(ubs) : plan.heads[u] \in 0..NCells-Len(ubs[u])
  BY DEF IsPlan, b
<1>4. ASSUME NEW m \in 1..n, NEW acc, ComputeLeaves(acc, m - 1, plan, ubs, s)
      PROVE  ComputeLeaves(ComputeStep(m, acc, plan, ubs, s), m, plan, ubs, s)
  <2> DEFINE h == plan.heads[m]
             ub == ubs[m]
             e == ComputeStep(m, acc, plan, ubs, s)
             z == (m - 1) * NUbatch
  <2>1. m \in 1..Len(ubs)
    BY <1>2 DEF AreUbatches
  <2>2. IsUbatch(ub) /\ h \in 0..NCells-Len(ub)
    BY <1>3, <2>1 DEF AreUbatches
  <2>3. e = Computing(acc, h, ub, FreshNames, z)
    BY <1>2 DEF ComputeStep
  <2>4. Good(acc) /\ ~acc.cells.hasShift /\ (Rotated(plan.kv) => Rotated(acc))
    BY <1>4 DEF ComputeLeaves
  <2>5. \A i \in Slot(h, ub) : z + i - h + 1 \in 1..L
    <3> DEFINE l == Len(ub)
    <3>1. l \in Nat
      BY <2>2, LenProperties DEF IsUbatch
    <3>2. z \in Nat /\ z + l <= L
      <4>1. z + l <= L
        BY <2>1 DEF Pieces
      <4>2. m - 1 \in Nat /\ NUbatch \in Nat
        BY <1>2, CacheAssumption
      <4>3. \A x, y \in Nat : x * y \in Nat
        OBVIOUS
      <4>4. z \in Nat
        BY Zenon, <4>2, <4>3
      <4> QED BY <4>1, <4>4
    <3>3. h \in 0..NCells-l /\ Slot(h, ub) = h..h+l-1
      BY <2>2 DEF Slot
    <3> HIDE DEF z, h, l, ub
    <3> QED BY <3>1, <3>2, <3>3, CellsAssumption
  <2>6. Short => \A i \in Slot(h, ub) : FreshNames[z + i - h + 1] \in Names
    BY <2>5
  <2> HIDE DEF e, h, ub, z
  <2>7. Good(e) /\ e.cells.hasShift = acc.cells.hasShift /\ (Rotated(acc) => Rotated(e))
    BY <2>2, <2>3, <2>4, <2>6, ComputingIs
  <2>8. ComputeLeaves(e, m, plan, ubs, s)
    BY <2>4, <2>7 DEF ComputeLeaves
  <2> QED BY <2>8 DEF e
<1>5. ComputeLeaves(b, 0, plan, ubs, s)
  BY <1>3 DEF ComputeLeaves, b
<1>6. \A m \in 1..n : \A acc :
          ComputeLeaves(acc, m - 1, plan, ubs, s) => ComputeLeaves(ComputeStep(m, acc, plan, ubs, s), m, plan, ubs, s)
  BY <1>4
<1>7. ComputeFold!InductiveUp(b, n, plan, ubs, s)
  BY <1>2, <1>5, <1>6, MaxPicks DEF ComputeFold!InductiveUp
<1>8. ComputeLeaves(ComputeFold!Folded(b, 1..n, plan, ubs, s), n, plan, ubs, s)
  BY <1>7, ComputeFold!FoldUpKeeps
<1>9. ComputeLeaves(d, n, plan, ubs, s)
  BY <1>1, <1>2, <1>8
<1> QED BY <1>3, <1>9 DEF ComputeLeaves, b

-----------------------------------------------------------------------------
(* An ubatch whose computation failed *)

LEMMA ValuesFinite == ASSUME NEW f, NEW S, IsFiniteSet(S), DOMAIN f = S, f = [x \in S |-> f[x]]
                      PROVE  IsFiniteSet({f[x] : x \in S}) /\ Cardinality({f[x] : x \in S}) <= Cardinality(S)
<1> DEFINE T == {f[x] : x \in S}
<1>1. f \in Surjection(S, T)
  <2>1. \A x \in S : f[x] \in T
    OBVIOUS
  <2>2. \A t \in T : \E x \in S : f[x] = t
    OBVIOUS
  <2> HIDE DEF T
  <2>3. f \in [S -> T]
    BY <2>1
  <2> QED BY <2>2, <2>3 DEF Surjection
<1> HIDE DEF T
<1>2. IsFiniteSet(T) /\ Cardinality(T) <= Cardinality(S)
  BY <1>1, FS_Surjection
<1> QED BY <1>2 DEF T

Least(ub, s) == Min({ub[j].pos : j \in {m \in 1..Len(ub) : ub[m].seq = s}})

LEMMA LeastIs == ASSUME NEW ub, IsUbatch(ub), NEW m \in 1..Len(ub)
                 PROVE  Least(ub, ub[m].seq) <= ub[m].pos
<1> DEFINE n == Len(ub)
           s == ub[m].seq
           J == {i \in 1..n : ub[i].seq = s}
           f == [i \in J |-> ub[i].pos]
           T == {f[i] : i \in J}
<1>1. n \in Nat /\ \A i \in 1..n : ub[i].pos \in Nat
  <2>1. n \in Nat /\ \A i \in 1..n : ub[i] \in [seq : Seqs, pos : Nat]
    BY Zenon, LenProperties, ElementOfSeq DEF IsUbatch
  <2> QED BY <2>1
<1>2. m \in J /\ J \subseteq 1..n
  OBVIOUS
<1>3. IsFiniteSet(J)
  <2>1. IsFiniteSet(1..n)
    BY <1>1, FS_Interval
  <2> HIDE DEF J
  <2> QED BY Zenon, <1>2, <2>1, FS_Subset
<1>4. Least(ub, s) = Min(T)
  <2>1. T = {ub[j].pos : j \in J}
    OBVIOUS
  <2> QED BY Zenon, <2>1 DEF Least
<1>5. IsFiniteSet(T)
  <2>1. DOMAIN f = J /\ f = [x \in J |-> f[x]]
    OBVIOUS
  <2> HIDE DEF f, J
  <2> QED BY <1>3, <2>1, ValuesFinite
<1>6. T \subseteq Int /\ ub[m].pos \in T
  BY <1>1, <1>2
<1> HIDE DEF T
<1>7. \A x \in T : Min(T) <= x
  BY Zenon, <1>5, <1>6, LeastIn
<1> QED BY <1>4, <1>6, <1>7

DropStep(s, acc, k, h, ub) ==
    SeqRemove(acc, s, Min({ub[j].pos : j \in {m \in 1..Len(ub) : ub[m].seq = s}}), -1)
DropLeaves(acc, T, k, h, ub) ==
    /\ IsKv(acc) /\ Shrinks(acc.cells, ApplyUbatch(k, h, ub).cells) /\ acc.data = k.data
    /\ \A j \in Slot(h, ub) : ub[j-h+1].seq \in T => acc.cells.pos[j] = -1
DropFold == INSTANCE Folding WITH Step <- DropStep, Keeps <- DropLeaves, Pick <- SomeOf

LEMMA DropStepIs ==
    ASSUME NEW k, IsKv(k), NEW ub, IsUbatch(ub), NEW h \in 0..NCells-Len(ub), NEW s \in Seqs,
           NEW T, NEW acc, DropLeaves(acc, T \ {s}, k, h, ub)
    PROVE  DropLeaves(DropStep(s, acc, k, h, ub), T, k, h, ub)
<1> DEFINE a == ApplyUbatch(k, h, ub)
           p == Least(ub, s)
           e == -1
           d == DropStep(s, acc, k, h, ub)
<1>1. /\ IsKv(acc) /\ Shrinks(acc.cells, a.cells) /\ acc.data = k.data
      /\ \A j \in Slot(h, ub) : ub[j-h+1].seq \in T \ {s} => acc.cells.pos[j] = -1
  BY DEF DropLeaves
<1>2. d = SeqRemove(acc, s, p, e)
  BY DEF DropStep, Least
<1>3. e < 0
  OBVIOUS
<1>4. Applied(a, k, h, ub)
  BY ApplyUbatchIs
<1> HIDE DEF d, e, a, p
<1>5. /\ IsKv(d) /\ Shrinks(d.cells, acc.cells) /\ d.data = acc.data
      /\ \A i \in OfSeq(acc.cells, s, p, e) : s \notin d.cells.seq[i]
  BY <1>1, <1>2, SeqRemoveIs
<1>6. Shrinks(d.cells, a.cells)
  BY <1>1, <1>5, ShrinksTrans
<1>7. ASSUME NEW j \in Slot(h, ub), ub[j-h+1].seq \in T PROVE d.cells.pos[j] = -1
  <2> DEFINE x == ub[j-h+1]
             n == Len(ub)
             A == acc.cells
             D == d.cells
  <2>1. j \in Cell /\ j-h+1 \in 1..n
    <3>1. n \in Nat
      BY LenProperties DEF IsUbatch
    <3>2. h \in 0..NCells-n /\ j \in h..h+n-1
      BY DEF Slot
    <3>3. j \in Cell
      BY UbatchToken
    <3> HIDE DEF n
    <3> QED BY <3>1, <3>2, <3>3, CellsAssumption
  <2>2. \/ D.pos[j] = A.pos[j] /\ Fewer(D.seq[j], A.seq[j])
        \/ D.pos[j] = -1
    BY <1>5, <2>1 DEF Shrinks, Loses
  <2>3. CASE x.seq # s
    <3>1. A.pos[j] = -1
      BY <1>1, <1>7, <2>3
    <3> QED BY <2>2, <3>1
  <2>4. CASE x.seq = s
    <3>1. \/ A.pos[j] = a.cells.pos[j] /\ Fewer(A.seq[j], a.cells.seq[j])
          \/ A.pos[j] = -1
      BY <1>1, <2>1 DEF Shrinks, Loses
    <3>2. a.cells.pos[j] = -1 \/ (a.cells.pos[j] = x.pos /\ a.cells.seq[j] = {x.seq})
      BY <1>4, <2>1 DEF Applied
    <3>3. SUFFICES ASSUME A.pos[j] # -1, D.pos[j] # -1 PROVE FALSE
      BY <2>2
    <3>4. A.pos[j] = x.pos /\ A.seq[j] = {s}
      BY <2>4, <3>1, <3>2, <3>3 DEF Fewer
    <3>5. p <= x.pos
      <4>1. Least(ub, ub[j-h+1].seq) <= ub[j-h+1].pos
        BY <2>1, LeastIs
      <4> QED BY <2>4, <4>1 DEF p
    <3>6. j \in OfSeq(A, s, p, e)
      <4>1. A.pos[j] >= p
        BY <3>4, <3>5
      <4> HIDE DEF A
      <4> QED BY <1>3, <2>1, <3>3, <3>4, <4>1 DEF OfSeq, InRange, IsEmpty
    <3>7. s \notin D.seq[j]
      BY <1>5, <3>6
    <3>8. Fewer(D.seq[j], {s})
      BY <2>2, <3>3, <3>4
    <3> HIDE DEF D
    <3> QED BY <3>7, <3>8 DEF Fewer
  <2> QED BY <2>3, <2>4
<1>8. DropLeaves(d, T, k, h, ub)
  BY <1>1, <1>5, <1>6, <1>7 DEF DropLeaves, a
<1> QED BY <1>8 DEF d

LEMMA DroppedIs ==
    ASSUME NEW k, Good(k), NEW ub, IsUbatch(ub), NEW h \in 0..NCells-Len(ub), NEW d, d = Dropped(k, h, ub)
    PROVE  Good(d) /\ (Rotated(k) => Rotated(d))
<1> DEFINE a == ApplyUbatch(k, h, ub)
           I == {ub[j].seq : j \in 1..Len(ub)}
           n == Len(ub)
<1>1. d = DropFold!Folded(a, I, k, h, ub)
  BY DEF Dropped, FoldSet, MapThenFoldSet, DropFold!Folded, DropStep, SomeOf
<1>2. IsKv(k) /\ Calm(k.cells) /\ Keys(k)
  BY DEF Good
<1>3. Applied(a, k, h, ub)
  BY <1>2, ApplyUbatchIs
<1> HIDE DEF a
<1>4. IsKv(a) /\ a.data = k.data
  BY <1>3 DEF Applied
<1>5. \A j \in 1..n : ub[j].seq \in Seqs
  <2>1. \A j \in 1..n : ub[j] \in [seq : Seqs, pos : Nat]
    BY Zenon, ElementOfSeq DEF IsUbatch
  <2> QED BY <2>1
<1>6. DropFold!IsFiniteSet(I) /\ I \subseteq Seqs
  <2>1. I \subseteq Seqs
    BY <1>5
  <2> HIDE DEF I
  <2> QED BY <2>1, SeqsFinite DEF IsFiniteSet, DropFold!IsFiniteSet
<1>7. \A j \in Slot(h, ub) : ub[j-h+1].seq \in I /\ j \in Cell
  <2> SUFFICES ASSUME NEW j \in Slot(h, ub) PROVE ub[j-h+1].seq \in I /\ j \in Cell
    OBVIOUS
  <2>1. n \in Nat
    BY LenProperties DEF IsUbatch
  <2>2. h \in 0..NCells-n /\ j \in h..h+n-1
    BY DEF Slot
  <2>3. j \in Cell
    BY UbatchToken
  <2>4. j-h+1 \in 1..n
    <3> HIDE DEF n
    <3> QED BY <2>1, <2>2, CellsAssumption
  <2> QED BY <2>3, <2>4
<1>8. DropLeaves(a, {}, k, h, ub)
  <2>1. Shrinks(a.cells, ApplyUbatch(k, h, ub).cells)
    BY <1>4, ShrinksRefl DEF IsKv, a
  <2> QED BY <1>4, <2>1 DEF DropLeaves
<1> HIDE DEF I, n
<1>9. \A T \in SUBSET I : T # {} => SomeOf(T) \in T
  BY SomeIn
<1>10. \A T \in SUBSET I : T # {} => \A acc :
           DropLeaves(acc, T \ {SomeOf(T)}, k, h, ub) => DropLeaves(DropStep(SomeOf(T), acc, k, h, ub), T, k, h, ub)
  <2>1. \A T \in SUBSET I : T # {} => SomeOf(T) \in Seqs
    BY <1>6, <1>9
  <2> QED BY <1>2, <2>1, DropStepIs
<1>11. DropFold!Inductive(a, I, k, h, ub)
  BY <1>6, <1>8, <1>9, <1>10 DEF DropFold!Inductive
<1>12. DropLeaves(d, I, k, h, ub)
  BY <1>1, <1>11, DropFold!FoldKeeps
<1>13. /\ IsKv(d) /\ Shrinks(d.cells, a.cells) /\ d.data = k.data
       /\ \A j \in Slot(h, ub) : d.cells.pos[j] = -1
  BY <1>7, <1>12 DEF DropLeaves, a
<1>14. Calm(d.cells)
  <2>1. Calm(a.cells) /\ CellsInv(a.cells) /\ CellsInv(d.cells)
    BY <1>2, <1>3, <1>4, <1>13, AppliedCalm DEF IsKv
  <2> QED BY <1>13, <2>1, LosesTracks DEF Shrinks
<1>15. Follows(d, k)
  <2> SUFFICES ASSUME NEW j \in d.cells.used
               PROVE  /\ j \in k.cells.used
                      /\ d.cells.pos[j] = k.cells.pos[j] /\ d.cells.shift[j] = k.cells.shift[j]
    BY <1>13 DEF Follows
  <2>1. j \in Cell /\ d.cells.pos[j] # -1 /\ j \notin Slot(h, ub)
    BY <1>13, UsedIs
  <2>2. d.cells.pos[j] = a.cells.pos[j] /\ d.cells.shift[j] = a.cells.shift[j]
    BY <1>13, <2>1 DEF Shrinks, Loses
  <2>3. a.cells.pos[j] = k.cells.pos[j] /\ a.cells.shift[j] = k.cells.shift[j]
    BY <1>3, <2>1, <2>2 DEF Applied
  <2>4. j \in k.cells.used
    BY <1>2, <2>1, <2>2, <2>3, UsedIs
  <2> QED BY <2>2, <2>3, <2>4
<1>16. Keys(d) /\ (Rotated(k) => Rotated(d))
  BY <1>2, <1>15, FollowsKeeps
<1> QED BY <1>13, <1>14, <1>16 DEF Good

-----------------------------------------------------------------------------
(* The calls *)

LEMMA HeldGood ==
    ASSUME NEW k, Good(k), NEW d, d = Held(k)
    PROVE  Good(d) /\ (Rotated(k) => Rotated(d))
<1>1. IsKv(k) /\ Calm(k.cells) /\ Keys(k)
  BY DEF Good
<1>2. /\ IsKv(d) /\ d.cells = k.cells
      /\ DOMAIN d.data = k.cells.used /\ \A i \in k.cells.used : d.data[i] = k.data[i]
  BY <1>1, HeldIs
<1>3. Follows(d, k)
  BY <1>2 DEF Follows
<1>4. (Keys(k) => Keys(d)) /\ (Keys(k) /\ Rotated(k) => Rotated(d))
  BY <1>3, FollowsKeeps
<1> QED BY <1>1, <1>2, <1>4 DEF Good

LEMMA TracksGood ==
    ASSUME NEW k, Good(k), NEW d, IsKv(d), Tracks(d.cells, k.cells), Calm(d.cells), d.data = k.data
    PROVE  Good(d) /\ (Rotated(k) => Rotated(d))
<1> DEFINE c == k.cells
           e == d.cells
<1>1. IsKv(k) /\ Calm(c) /\ Keys(k)
  BY DEF Good
<1>2. /\ c.used = {i \in Cell : c.pos[i] # -1} /\ e.used = {i \in Cell : e.pos[i] # -1}
      /\ \A i \in Cell : c.pos[i] \in Int /\ c.shift[i] \in Int /\ e.pos[i] \in Int /\ e.shift[i] \in Int
  BY <1>1, UsedIs
<1>3. \A i \in e.used : i \in c.used /\ e.pos[i] - e.shift[i] = c.pos[i] - c.shift[i]
  BY <1>2 DEF Tracks
<1>4. Keys(d)
  BY <1>1, <1>3 DEF Keys
<1>5. ASSUME Rotated(k) PROVE Rotated(d)
  <2> SUFFICES ASSUME NEW i \in e.used PROVE d.data[i].rot + e.shift[i] + d.data[i].lost = e.pos[i]
    BY DEF Rotated
  <2>1. i \in c.used /\ i \in Cell /\ e.pos[i] - e.shift[i] = c.pos[i] - c.shift[i]
    BY <1>2, <1>3
  <2>2. /\ k.data[i].rot + c.shift[i] + k.data[i].lost = c.pos[i]
        /\ k.data[i].rot \in Int /\ k.data[i].lost \in Int
    BY <1>1, <1>5, <2>1 DEF Rotated, Keys
  <2> DEFINE r == k.data[i].rot
             l == k.data[i].lost
  <2>3. d.data[i].rot = r /\ d.data[i].lost = l
    OBVIOUS
  <2>4. r \in Int /\ l \in Int /\ r + c.shift[i] + l = c.pos[i]
    BY <2>2
  <2> HIDE DEF c, e, r, l
  <2>5. r + e.shift[i] + l = e.pos[i]
    BY <1>2, <2>1, <2>4
  <2> QED BY <2>3, <2>5
<1> QED BY <1>1, <1>4, <1>5 DEF Good

\* Tokens are taken out: llama_memory_seq_rm and seq_keep.
LEMMA ShrinksGood ==
    ASSUME NEW k, Good(k), NEW d, IsKv(d), Shrinks(d.cells, k.cells), d.data = k.data
    PROVE  Good(d) /\ (Rotated(k) => Rotated(d))
<1>1. CellsInv(k.cells) /\ Calm(k.cells) /\ CellsInv(d.cells)
  BY DEF Good, IsKv
<1>2. Tracks(d.cells, k.cells) /\ Calm(d.cells)
  BY <1>1, LosesTracks DEF Shrinks
<1> QED BY <1>2, TracksGood

LEMMA FreeingGood ==
    ASSUME NEW k, Good(k), NEW c, Shrinks(c, k.cells), NEW d, d = Held(AfterFreeing(k, c))
    PROVE  Good(d) /\ (Rotated(k) => Rotated(d))
<1> DEFINE e == AfterFreeing(k, c)
<1>1. IsKv(k) /\ CellsInv(c)
  BY DEF Good, Shrinks
<1>2. e = AfterFreeing(k, c) /\ d = Held(e)
  OBVIOUS
<1> HIDE DEF e
<1>3. IsKv(e) /\ e.cells = c /\ e.data = k.data
  BY <1>1, <1>2, AfterFreeingIs
<1>4. Good(e) /\ (Rotated(k) => Rotated(e))
  BY <1>3, ShrinksGood
<1> QED BY <1>2, <1>4, HeldGood

\* What every call keeps.
Kept == Good(kv)' /\ (Rotated(kv) => Rotated(kv)')

LEMMA EmptyGood ==
    ASSUME NEW k, k = [cells |-> Reset, head |-> 0, data |-> <<>>]
    PROVE  Good(k) /\ Rotated(k)
<1>1. k.cells = Reset /\ k.head = 0 /\ DOMAIN k = {"cells", "head", "data"}
  OBVIOUS
<1>2. CellsInv(Reset)
  BY ResetIs
<1>3. Calm(Reset) /\ Reset.used = {}
  BY DEF Calm, Reset
<1>4. 0 \in 0..NCells
  BY CellsAssumption
<1> HIDE DEF Reset
<1> QED BY <1>1, <1>2, <1>3, <1>4 DEF Good, IsKv, Keys, Rotated

LEMMA RemoveSeqKeeps == ASSUME Good(kv), NEW s \in Seqs, NEW r, RemoveSeq(s, r) PROVE Kept
<1> DEFINE e == SeqRemove(kv, s, r[1], r[2])
<1>1. kv' = Held(e) /\ e = SeqRemove(kv, s, r[1], r[2]) /\ IsKv(kv)
  BY DEF RemoveSeq, Good
<1> HIDE DEF e
<1>2. IsKv(e) /\ Shrinks(e.cells, kv.cells) /\ e.data = kv.data
  BY <1>1, SeqRemoveIs
<1>3. Good(e) /\ (Rotated(kv) => Rotated(e))
  BY <1>2, ShrinksGood
<1>4. Good(kv') /\ (Rotated(e) => Rotated(kv'))
  BY <1>1, <1>3, HeldGood
<1> QED BY <1>3, <1>4 DEF Kept, Good, Rotated, IsKv, Keys

LEMMA RemoveAnyKeeps == ASSUME Good(kv), NEW r, RemoveAny(r) PROVE Kept
<1> DEFINE I == {i \in Cell : InRange(kv.cells, i, r[1], r[2])}
           c == Each(Rm, kv.cells, I)
<1>1. kv' = Held(AfterFreeing(kv, c)) /\ CellsInv(kv.cells)
  BY DEF RemoveAny, Good, IsKv
<1>2. I \subseteq Cell
  OBVIOUS
<1> HIDE DEF I
<1>3. Shrinks(c, kv.cells)
  BY <1>1, <1>2, RmEach DEF RmLeaves
<1> HIDE DEF c
<1>4. Good(kv') /\ (Rotated(kv) => Rotated(kv'))
  BY <1>1, <1>3, FreeingGood
<1> QED BY <1>4 DEF Kept, Good, Rotated, IsKv, Keys

LEMMA KeepSeqKeeps == ASSUME Good(kv), NEW s \in Seqs, KeepSeq(s) PROVE Kept
<1> DEFINE c == Each(LAMBDA acc, i : SeqKeep(acc, i, s), kv.cells, Cell)
<1>1. kv' = Held(AfterFreeing(kv, c)) /\ CellsInv(kv.cells)
  BY Zenon DEF KeepSeq, Good, IsKv
<1>2. Shrinks(c, kv.cells)
  BY Zenon, <1>1, SeqKeepEach
<1> HIDE DEF c
<1>3. Good(kv') /\ (Rotated(kv) => Rotated(kv'))
  BY <1>1, <1>2, FreeingGood
<1> QED BY <1>3 DEF Kept, Good, Rotated, IsKv, Keys

LEMMA CopySeqKeeps == ASSUME Good(kv), NEW s \in Seqs, NEW t \in Seqs, NEW r, CopySeq(s, t, r) PROVE Kept
<1> DEFINE I == OfSeq(kv.cells, s, r[1], r[2])
           c == Each(LAMBDA acc, i : SeqAdd(acc, i, t), kv.cells, I)
<1>1. kv' = [kv EXCEPT !.cells = c] /\ \A i \in I : t \notin kv.cells.seq[i]
  BY Zenon DEF CopySeq
<1>2. IsKv(kv) /\ CellsInv(kv.cells) /\ Calm(kv.cells)
  BY DEF Good, IsKv
<1>3. I \subseteq Cell /\ \A i \in I : kv.cells.pos[i] # -1
  BY OfSeqIs
<1> HIDE DEF I
<1>4. SeqAddLeaves(c, I, kv.cells, t, 0)
  BY Zenon, <1>1, <1>2, <1>3, SeqAddEach
<1> HIDE DEF c
<1>5. /\ CellsInv(c) /\ c.hasShift = kv.cells.hasShift
      /\ \A j \in Cell : c.pos[j] = kv.cells.pos[j] /\ c.shift[j] = kv.cells.shift[j]
  BY <1>4 DEF SeqAddLeaves
<1>6. /\ DOMAIN kv' = DOMAIN kv /\ kv'.cells = c /\ kv'.head = kv.head /\ kv'.data = kv.data
  BY <1>1, <1>2 DEF IsKv
<1>7. IsKv(kv')
  BY <1>2, <1>5, <1>6 DEF IsKv
<1>8. Tracks(c, kv.cells)
  <2>1. \A j \in Cell : kv.cells.pos[j] \in Int /\ kv.cells.shift[j] \in Int
    BY <1>2, UsedIs
  <2> QED BY <1>2, <1>5, <2>1 DEF Tracks, Calm
<1>9. Calm(c)
  BY <1>2, <1>5 DEF Calm
<1>10. Good(kv') /\ (Rotated(kv) => Rotated(kv'))
  BY <1>6, <1>7, <1>8, <1>9, TracksGood
<1> QED BY <1>10 DEF Kept, Good, Rotated, IsKv, Keys

LEMMA ShiftSeqKeeps == ASSUME Good(kv), NEW s, NEW r, NEW d \in Int, ShiftSeq(s, r, d) PROVE Kept
<1> DEFINE I == OfSeq(kv.cells, s, r[1], r[2])
           c == Each(LAMBDA acc, i : PosAdd(acc, i, d), kv.cells, I)
           freed == Freed(kv.cells, c)
           head == IF freed = {} THEN 0 ELSE Min(freed)
           e == [kv EXCEPT !.cells = c, !.head = head]
<1>1. kv' = Held(e)
  BY Zenon DEF ShiftSeq
<1>2. IsKv(kv) /\ CellsInv(kv.cells) /\ Calm(kv.cells)
  BY DEF Good, IsKv
<1>3. I \subseteq Cell /\ \A i \in I : kv.cells.pos[i] # -1
  BY OfSeqIs
<1> HIDE DEF I
<1>4. PosAddLeaves(c, I, kv.cells, d, 0)
  BY Zenon, <1>2, <1>3, PosAddEach
<1> HIDE DEF c
<1>5. CellsInv(c) /\ Tracks(c, kv.cells) /\ Calm(c)
  BY <1>2, <1>4 DEF PosAddLeaves
<1>6. head \in 0..NCells
  <2>1. freed \subseteq Cell /\ Cell \subseteq 0..NCells /\ freed \subseteq Int /\ IsFiniteSet(freed)
    BY CellFinite, CellsAssumption DEF Freed, Cell
  <2> HIDE DEF freed
  <2>2. freed # {} => Min(freed) \in 0..NCells
    BY Zenon, <2>1, LeastIn
  <2> QED BY <2>2, CellsAssumption
<1> HIDE DEF freed, head
<1>7. DOMAIN e = DOMAIN kv /\ e.cells = c /\ e.head = head /\ e.data = kv.data
  BY <1>2 DEF IsKv
<1> HIDE DEF e
<1>8. IsKv(e)
  BY <1>2, <1>5, <1>6, <1>7 DEF IsKv
<1>9. Good(e) /\ (Rotated(kv) => Rotated(e))
  BY <1>5, <1>7, <1>8, TracksGood
<1>10. Good(kv') /\ (Rotated(e) => Rotated(kv'))
  BY <1>1, <1>9, HeldGood
<1> QED BY <1>9, <1>10 DEF Kept, Good, Rotated, IsKv, Keys

LEMMA DivideSeqKeeps == ASSUME Good(kv), NEW s, NEW r, NEW d \in Nat \ {0}, DivideSeq(s, r, d) PROVE Good(kv)'
<1> DEFINE I == IF d = 1 THEN {} ELSE OfSeq(kv.cells, s, r[1], r[2])
           c == Each(LAMBDA acc, i : PosDiv(acc, i, d), kv.cells, I)
<1>1. kv' = [kv EXCEPT !.cells = c]
  BY Zenon DEF DivideSeq
<1>2. IsKv(kv) /\ CellsInv(kv.cells) /\ Calm(kv.cells) /\ Keys(kv)
  BY DEF Good, IsKv
<1>3. I \subseteq Cell /\ \A i \in I : kv.cells.pos[i] # -1
  BY OfSeqIs
<1> HIDE DEF I
<1>4. PosDivLeaves(c, I, kv.cells, d, 0)
  BY Zenon, <1>2, <1>3, PosDivEach
<1> HIDE DEF c
<1>5. /\ CellsInv(c) /\ c.used = kv.cells.used
      /\ \A j \in Cell \ I : c.pos[j] = kv.cells.pos[j] /\ c.shift[j] = kv.cells.shift[j]
      /\ (I # {} => c.hasShift) /\ (I = {} => c.hasShift = kv.cells.hasShift)
  BY <1>4 DEF PosDivLeaves
<1>6. /\ DOMAIN kv' = DOMAIN kv /\ kv'.cells = c /\ kv'.head = kv.head /\ kv'.data = kv.data
  BY <1>1, <1>2 DEF IsKv
<1>7. IsKv(kv')
  BY <1>2, <1>5, <1>6 DEF IsKv
<1>8. Calm(c)
  <2>1. \A j \in Cell : c.pos[j] = -1 <=> kv.cells.pos[j] = -1
    <3>1. c.used = {i \in Cell : c.pos[i] # -1} /\ kv.cells.used = {i \in Cell : kv.cells.pos[i] # -1}
      BY <1>2, <1>5 DEF CellsInv, Occupied
    <3> QED BY Zenon, <1>5, <3>1
  <2>2. \A j \in Cell : c.pos[j] = -1 => c.shift[j] = 0
    BY <1>2, <1>3, <1>5, <2>1 DEF Calm
  <2>3. ~c.hasShift => \A j \in Cell : c.shift[j] = 0
    BY <1>2, <1>5 DEF Calm
  <2> QED BY <2>2, <2>3 DEF Calm
<1>9. Keys(kv')
  BY <1>2, <1>5, <1>6 DEF Keys
<1>10. Good(kv')
  BY <1>6, <1>7, <1>8, <1>9 DEF Good
<1> QED BY <1>10 DEF Good, IsKv, Keys

-----------------------------------------------------------------------------
(* Saved states *)

\* A saved state: as many tokens as there is room for.
IsSaved(s) ==
    /\ Len(s) \in 0..NCells /\ DOMAIN s = 1..Len(s)
    /\ \A j \in 1..Len(s) : /\ DOMAIN s[j] = {"pos", "seq", "tok", "rot", "lost"}
                            /\ s[j].pos \in Nat /\ s[j].seq \subseteq Seqs
                            /\ s[j].rot \in Int /\ s[j].lost \in Int
                            /\ Short => s[j].tok \in Names

\* Its keys are rotated for the positions of their tokens, but for what was
\* pending when they were saved.
SavedRotated(s) == \A j \in 1..Len(s) : s[j].rot + s[j].lost = s[j].pos

\* As many names are fresh as there are cells.
LEMMA FreshIs ==
    ASSUME Good(kv), saved = NoState \/ IsSaved(saved)
    PROVE  \A x \in 1..NCells : FreshNames[x] \in Names
<1> DEFINE U == kv.cells.used
           n == IF saved = NoState THEN 0 ELSE Len(saved)
           A == {kv.data[i].tok : i \in U}
           B == IF saved = NoState THEN {} ELSE {saved[j].tok : j \in 1..Len(saved)}
           C == {saved[j].tok : j \in 1..n}
           F == Names \ (A \cup B)
<1>1. FreshNames = Sorted(F)
  BY DEF FreshNames
<1>2. IsFiniteSet(U) /\ Cardinality(U) <= NCells
  <2>1. U \subseteq Cell
    BY DEF Good, IsKv, CellsInv, CellSets
  <2>2. IsFiniteSet(Cell) /\ Cardinality(Cell) = NCells
    BY CellCount
  <2> QED BY <2>1, <2>2, FS_Subset
<1>3. n \in 0..NCells
  BY CellsAssumption DEF IsSaved
<1>4. B = C
  <2>1. CASE saved = NoState
    <3>1. n = 0
      BY <2>1
    <3>2. \A j : j \notin 1..n
      BY <3>1
    <3> HIDE DEF n
    <3> QED BY <2>1, <3>2
  <2>2. CASE saved # NoState
    BY <2>2
  <2> QED BY <2>1, <2>2
<1>5. IsFiniteSet(1..n) /\ Cardinality(1..n) = n
  <2> HIDE DEF n
  <2>1. 1 \in Int /\ n \in Int /\ (n >= 1 => n - 1 + 1 = n) /\ (n < 1 => n = 0)
    BY <1>3, CellsAssumption
  <2> QED BY <2>1, FS_Interval
<1> HIDE DEF U, n
<1>6. IsFiniteSet(A) /\ Cardinality(A) <= NCells /\ Cardinality(A) \in Nat
  <2> DEFINE f == [i \in U |-> kv.data[i].tok]
             a == {f[i] : i \in U}
  <2>1. DOMAIN f = U /\ f = [i \in U |-> f[i]]
    OBVIOUS
  <2>2. A = a
    OBVIOUS
  <2> HIDE DEF f
  <2>3. IsFiniteSet(a) /\ Cardinality(a) <= Cardinality(U)
    BY <1>2, <2>1, ValuesFinite
  <2>4. Cardinality(a) \in Nat /\ Cardinality(U) \in Nat
    BY <1>2, <2>3, FS_CardinalityType
  <2> HIDE DEF a, A
  <2> QED BY <1>2, <2>2, <2>3, <2>4, CellsAssumption
<1>7. IsFiniteSet(C) /\ Cardinality(C) <= NCells /\ Cardinality(C) \in Nat
  <2> DEFINE I == 1..n
             f == [i \in I |-> saved[i].tok]
             a == {f[i] : i \in I}
  <2>1. DOMAIN f = I /\ f = [i \in I |-> f[i]]
    OBVIOUS
  <2>2. C = a
    OBVIOUS
  <2>3. IsFiniteSet(I) /\ Cardinality(I) = n
    BY <1>5
  <2> HIDE DEF f, I
  <2>4. IsFiniteSet(a) /\ Cardinality(a) <= Cardinality(I)
    BY <2>1, <2>3, ValuesFinite
  <2>5. Cardinality(a) \in Nat
    BY <2>4, FS_CardinalityType
  <2> HIDE DEF a, C
  <2> QED BY <1>3, <2>2, <2>3, <2>4, <2>5, CellsAssumption
<1> HIDE DEF A, B, C
<1>8. IsFiniteSet(Names) /\ Cardinality(Names) = 3*NCells /\ Names \subseteq Int
  <2> DEFINE N == 3*NCells
  <2>1. 1 \in Int /\ N \in Int /\ N >= 1 /\ N - 1 + 1 = N /\ Names = 1..N
    BY CellsAssumption DEF Names
  <2> HIDE DEF N
  <2>2. IsFiniteSet(Names) /\ Cardinality(Names) = N
    BY <2>1, FS_Interval
  <2> QED BY <2>1, <2>2 DEF N
<1> DEFINE W == A \cup C
           m == Cardinality(F)
<1>9. IsFiniteSet(W) /\ Cardinality(W) \in Nat /\ Cardinality(W) <= 2*NCells
  <2>1. IsFiniteSet(W) /\ Cardinality(W) = Cardinality(A) + Cardinality(C) - Cardinality(A \cap C)
    BY <1>6, <1>7, FS_Union
  <2>2. IsFiniteSet(A \cap C)
    <3>1. A \cap C \subseteq A
      OBVIOUS
    <3> QED BY <1>6, <3>1, FS_Subset
  <2>3. Cardinality(W) \in Nat /\ Cardinality(A \cap C) \in Nat
    BY <2>1, <2>2, FS_CardinalityType
  <2> HIDE DEF W
  <2> QED BY <1>6, <1>7, <2>1, <2>3, CellsAssumption
<1> HIDE DEF W
<1>10. F = Names \ W
  BY <1>4 DEF W
<1> HIDE DEF F
<1>11. IsFiniteSet(F) /\ m = Cardinality(Names) - Cardinality(Names \cap W)
  BY <1>8, <1>10, FS_Difference
<1>12. Cardinality(Names \cap W) \in Nat /\ Cardinality(Names \cap W) <= Cardinality(W)
  <2>1. Names \cap W \subseteq W
    OBVIOUS
  <2>2. IsFiniteSet(Names \cap W) /\ Cardinality(Names \cap W) <= Cardinality(W)
    BY <1>9, <2>1, FS_Subset
  <2> QED BY <2>2, FS_CardinalityType
<1>13. m >= NCells
  <2> HIDE DEF m
  <2> QED BY <1>8, <1>9, <1>11, <1>12, CellsAssumption
<1> DEFINE f == Sorted(F)
<1>14. F \subseteq Int /\ F \subseteq Names
  BY <1>8, <1>10
<1> HIDE DEF m
<1>15. m = Cardinality(F) /\ f = Sorted(F)
  BY DEF m
<1> HIDE DEF f
<1>16. m \in Nat /\ f \in [1..m -> F]
  BY <1>11, <1>14, <1>15, SortedIs
<1>17. \A x \in 1..NCells : x \in 1..m
  BY <1>13, <1>16, CellsAssumption
<1> QED BY <1>1, <1>14, <1>15, <1>16, <1>17

-----------------------------------------------------------------------------
(* Decoding *)

LEMMA DecodeKeeps ==
    ASSUME Good(kv), saved = NoState \/ IsSaved(saved), NEW b \in Batches, Decode(b)
    PROVE  Kept
<1>0. b \in Seq(Seqs) /\ b # <<>> /\ (Short => Len(b) <= NCells)
  BY CacheAssumption DEF Short
<1>1. PICK batch \in {Positioned(kv.cells, b)} :
          \E ubs \in {Split(batch)} : \E plan \in {Planned(kv, ubs)} :
              \/ kv' = Held(plan.kv)
              \/ plan.ok /\ kv' = Held(Computed(plan, ubs, Len(ubs)))
              \/ plan.ok /\ \E n \in 0..Len(ubs)-1 :
                     kv' = Held(Dropped(Computed(plan, ubs, n), plan.heads[n+1], ubs[n+1]))
  BY Zenon DEF Decode
<1>2. PICK ubs \in {Split(batch)} : \E plan \in {Planned(kv, ubs)} :
              \/ kv' = Held(plan.kv)
              \/ plan.ok /\ kv' = Held(Computed(plan, ubs, Len(ubs)))
              \/ plan.ok /\ \E n \in 0..Len(ubs)-1 :
                     kv' = Held(Dropped(Computed(plan, ubs, n), plan.heads[n+1], ubs[n+1]))
  BY Zenon, <1>1
<1>3. PICK plan \in {Planned(kv, ubs)} :
              \/ kv' = Held(plan.kv)
              \/ plan.ok /\ kv' = Held(Computed(plan, ubs, Len(ubs)))
              \/ plan.ok /\ \E n \in 0..Len(ubs)-1 :
                     kv' = Held(Dropped(Computed(plan, ubs, n), plan.heads[n+1], ubs[n+1]))
  BY <1>2
<1>4. CellsInv(kv.cells)
  BY DEF Good, IsKv
<1>5. IsUbatch(batch) /\ Len(batch) = Len(b)
  <2>1. batch = Positioned(kv.cells, b)
    OBVIOUS
  <2> QED BY <1>0, <1>4, <2>1, PositionedIs
<1>6. Len(b) >= 1
  <2>1. Len(b) \in Nat /\ (Len(b) = 0 => b = <<>>)
    BY <1>0, LenProperties, EmptySeq
  <2> QED BY <1>0, <2>1
<1>7. AreUbatches(ubs) /\ Pieces(ubs, Len(b))
  <2>1. ubs = Split(batch)
    OBVIOUS
  <2> QED BY <1>5, <1>6, <2>1, SplitIs
<1>8. IsPlan(plan, kv, ubs)
  <2>1. plan = Planned(kv, ubs)
    OBVIOUS
  <2> QED BY <1>7, <2>1, PlannedIs
<1> DEFINE L == Len(b)
<1>12. L \in Nat /\ Pieces(ubs, L) /\ (Short => \A x \in 1..L : FreshNames[x] \in Names)
  <2>1. L \in Nat
    BY <1>0, LenProperties
  <2>2. Short => \A x \in 1..NCells : FreshNames[x] \in Names
    BY FreshIs
  <2>3. Short => L <= NCells
    BY <1>0
  <2>4. Pieces(ubs, L)
    BY <1>7
  <2> HIDE DEF L
  <2>5. Short => \A x \in 1..L : x \in 1..NCells
    BY <2>1, <2>3, CellsAssumption
  <2> QED BY <2>1, <2>2, <2>4, <2>5
<1> HIDE DEF L
<1>9. \E e : kv' = Held(e) /\ Good(e) /\ (Rotated(kv) => Rotated(e))
  <2>1. CASE kv' = Held(plan.kv)
    BY <1>8, <2>1 DEF IsPlan
  <2>2. CASE plan.ok /\ kv' = Held(Computed(plan, ubs, Len(ubs)))
    <3> DEFINE n == Len(ubs)
               e == Computed(plan, ubs, n)
    <3>1. n \in 0..Len(ubs)
      BY <1>7 DEF AreUbatches
    <3>2. kv' = Held(e) /\ e = Computed(plan, ubs, n)
      BY <2>2
    <3> HIDE DEF n, e
    <3>3. Good(e) /\ (Rotated(kv) => Rotated(e))
      BY <1>7, <1>8, <1>12, <2>2, <3>1, <3>2, ComputedIs
    <3> QED BY <3>2, <3>3
  <2>3. CASE plan.ok /\ \E n \in 0..Len(ubs)-1 :
                 kv' = Held(Dropped(Computed(plan, ubs, n), plan.heads[n+1], ubs[n+1]))
    <3>1. PICK n \in 0..Len(ubs)-1 :
                 kv' = Held(Dropped(Computed(plan, ubs, n), plan.heads[n+1], ubs[n+1]))
      BY <2>3
    <3> DEFINE e == Computed(plan, ubs, n)
               h == plan.heads[n+1]
               ub == ubs[n+1]
               d == Dropped(e, h, ub)
    <3>2. n \in 0..Len(ubs) /\ n+1 \in 1..Len(ubs)
      BY <1>7 DEF AreUbatches
    <3>3. IsUbatch(ub) /\ h \in 0..NCells-Len(ub)
      BY <1>7, <1>8, <2>3, <3>2 DEF AreUbatches, IsPlan
    <3>4. e = Computed(plan, ubs, n) /\ d = Dropped(e, h, ub) /\ kv' = Held(d)
      BY <3>1
    <3> HIDE DEF e, h, ub, d
    <3>5. Good(e) /\ (Rotated(kv) => Rotated(e))
      BY <1>7, <1>8, <1>12, <2>3, <3>2, <3>4, ComputedIs
    <3>6. Good(d) /\ (Rotated(e) => Rotated(d))
      BY <3>3, <3>4, <3>5, DroppedIs
    <3> QED BY <3>4, <3>5, <3>6
  <2> QED BY <1>3, <2>1, <2>2, <2>3
<1>10. PICK e : kv' = Held(e) /\ Good(e) /\ (Rotated(kv) => Rotated(e))
  BY <1>9
<1>11. Good(kv') /\ (Rotated(e) => Rotated(kv'))
  BY <1>10, HeldGood
<1> QED BY <1>10, <1>11 DEF Kept, Good, Rotated, IsKv, Keys

-----------------------------------------------------------------------------
(* Saving and restoring *)

LEMMA SaveIs ==
    ASSUME Good(kv), Save
    PROVE  IsSaved(saved') /\ (Rotated(kv) => SavedRotated(saved'))
<1> DEFINE c == kv.cells
           order == Sorted(c.used)
           n == Cardinality(c.used)
           m == Len(order)
           cell(i) == [pos |-> c.pos[i], seq |-> c.seq[i], tok |-> kv.data[i].tok,
                       rot |-> kv.data[i].rot, lost |-> kv.data[i].lost + c.shift[i]]
<1>1. saved' = [j \in 1..m |-> cell(order[j])]
  BY DEF Save
<1>2. CellsInv(c) /\ Calm(c) /\ Keys(kv)
  BY DEF Good, IsKv
<1>3. /\ c.used \subseteq Cell /\ c.used \subseteq Int /\ IsFiniteSet(c.used)
      /\ \A i \in c.used : c.pos[i] \in Nat /\ c.seq[i] \subseteq Seqs
  <2>1. c.used \subseteq Cell /\ Cell \subseteq Int
    BY <1>2, CellsAssumption DEF CellsInv, CellSets, Cell
  <2>2. \A i \in c.used : c.pos[i] \in Nat
    <3> SUFFICES ASSUME NEW i \in c.used PROVE c.pos[i] \in Nat
      OBVIOUS
    <3> DEFINE p == c.pos[i]
    <3>1. i \in Cell
      BY <2>1
    <3>2. p >= -1 /\ p # -1
      BY <1>2, <3>1 DEF CellsInv, Occupied
    <3>3. p \in Int
      BY <1>2, <3>1 DEF CellsInv, CellSets
    <3>4. p \in Nat
      <4> HIDE DEF p
      <4> QED BY <3>2, <3>3
    <3> QED BY <3>4
  <2>3. \A i \in c.used : c.seq[i] \subseteq Seqs
    BY <1>2, <2>1 DEF CellsInv, CellSets
  <2> QED BY Zenon, <2>1, <2>2, <2>3, CellFinite
<1>4. order = Sorted(c.used) /\ n = Cardinality(c.used)
  OBVIOUS
<1> HIDE DEF order, n
<1>5. n \in Nat /\ order \in [1..n -> c.used] /\ m = n
  BY <1>3, <1>4, SortedIs
<1>6. n <= NCells
  <2>1. IsFiniteSet(Cell) /\ Cardinality(Cell) = NCells
    BY CellCount
  <2> QED BY <1>3, <1>4, <2>1, FS_Subset
<1> DEFINE s == [j \in 1..n |-> cell(order[j])]
<1>7. saved' = s /\ DOMAIN s = 1..n /\ s \in Seq({cell(order[j]) : j \in 1..n})
  <2>1. saved' = s
    BY <1>1, <1>5
  <2> QED BY <1>5, <2>1
<1>8. Len(s) = n
  BY <1>5, <1>7, LenProperties
<1>9. \A j \in 1..n : /\ order[j] \in c.used
                      /\ DOMAIN s[j] = {"pos", "seq", "tok", "rot", "lost"}
                      /\ s[j].pos = c.pos[order[j]] /\ s[j].seq = c.seq[order[j]]
                      /\ s[j].rot = kv.data[order[j]].rot
                      /\ s[j].lost = kv.data[order[j]].lost + c.shift[order[j]]
                      /\ s[j].tok = kv.data[order[j]].tok
  BY <1>5
<1> HIDE DEF s
<1>10. \A j \in 1..n : /\ s[j].pos \in Nat /\ s[j].seq \subseteq Seqs
                       /\ s[j].rot \in Int /\ s[j].lost \in Int
                       /\ Short => s[j].tok \in Names
  <2>1. \A i \in c.used : c.shift[i] \in Int
    BY <1>2, <1>3 DEF CellsInv, CellSets
  <2>2. \A i \in c.used : /\ kv.data[i].rot \in Int /\ kv.data[i].lost \in Int
                          /\ Short => kv.data[i].tok \in Names
    BY <1>2 DEF Keys
  <2> QED BY <1>3, <1>9, <2>1, <2>2
<1>11. IsSaved(s)
  <2>1. n \in 0..NCells
    BY <1>5, <1>6, CellsAssumption
  <2> QED BY Zenon, <1>7, <1>8, <1>9, <1>10, <2>1 DEF IsSaved
<1>12. ASSUME Rotated(kv) PROVE SavedRotated(s)
  <2>1. ASSUME NEW i \in c.used
        PROVE  kv.data[i].rot + (kv.data[i].lost + c.shift[i]) = c.pos[i]
    <3>1. c.shift[i] \in Int
      BY <1>2, <1>3 DEF CellsInv, CellSets
    <3>2. kv.data[i].rot + c.shift[i] + kv.data[i].lost = c.pos[i]
      BY <1>12 DEF Rotated
    <3>3. kv.data[i].rot \in Int /\ kv.data[i].lost \in Int
      BY <1>2 DEF Keys
    <3> DEFINE r == kv.data[i].rot
               l == kv.data[i].lost
               x == c.shift[i]
    <3>4. r \in Int /\ l \in Int /\ x \in Int /\ r + x + l = c.pos[i]
      BY <3>1, <3>2, <3>3
    <3> HIDE DEF r, l, x
    <3>5. r + (l + x) = c.pos[i]
      BY <3>4
    <3> QED BY <3>5 DEF r, l, x
  <2> QED BY <1>8, <1>9, <2>1 DEF SavedRotated
<1> QED BY <1>7, <1>11, <1>12

\* One cell enters several sequences.
EnterStep(s, acc, c, i, d) == SeqAdd(acc, i, s)
EnterLeaves(acc, T, c, i, d) ==
    /\ CellsInv(acc) /\ acc.hasShift = c.hasShift
    /\ \A j \in Cell : acc.pos[j] = c.pos[j] /\ acc.shift[j] = c.shift[j]
    /\ \A j \in Cell : acc.seq[j] = IF j = i THEN T ELSE c.seq[j]
EnterFold == INSTANCE Folding WITH Step <- EnterStep, Keeps <- EnterLeaves, Pick <- SomeOf

LEMMA EnterEach ==
    ASSUME NEW c, CellsInv(c), NEW i \in Cell, c.pos[i] # -1, c.seq[i] = {}, NEW S, S \subseteq Seqs
    PROVE  EnterLeaves(FoldSet(LAMBDA s, acc : SeqAdd(acc, i, s), c, S), S, c, i, 0)
<1>1. FoldSet(LAMBDA s, acc : SeqAdd(acc, i, s), c, S) = EnterFold!Folded(c, S, c, i, 0)
  BY DEF FoldSet, MapThenFoldSet, EnterFold!Folded, EnterStep, SomeOf
<1>2. EnterFold!IsFiniteSet(S)
  BY SeqsFinite DEF IsFiniteSet, EnterFold!IsFiniteSet
<1>3. \A T \in SUBSET S : T # {} => SomeOf(T) \in T
  BY SomeIn
<1>4. EnterLeaves(c, {}, c, i, 0)
  BY DEF EnterLeaves
<1>5. ASSUME NEW T \in SUBSET S, T # {}, NEW acc, EnterLeaves(acc, T \ {SomeOf(T)}, c, i, 0)
      PROVE  EnterLeaves(EnterStep(SomeOf(T), acc, c, i, 0), T, c, i, 0)
  <2> DEFINE s == SomeOf(T)
             d == SeqAdd(acc, i, s)
  <2>1. s \in T /\ s \in Seqs
    BY <1>5, SomeIn
  <2> HIDE DEF s
  <2>2. /\ CellsInv(acc) /\ acc.hasShift = c.hasShift
        /\ \A j \in Cell : acc.pos[j] = c.pos[j] /\ acc.shift[j] = c.shift[j]
        /\ \A j \in Cell : acc.seq[j] = IF j = i THEN T \ {s} ELSE c.seq[j]
    BY Zenon, <1>5 DEF EnterLeaves, s
  <2>3. acc.pos[i] # -1 /\ s \notin acc.seq[i] /\ acc.seq[i] \cup {s} = T
    BY <2>1, <2>2
  <2> DEFINE p == acc.pos[i]
             sh == acc.shift[i]
             R == acc.seq[i] \cup {s}
  <2>4. CellsInv(d) /\ d.hasShift = acc.hasShift /\ Changed(d, acc, i, p, sh, R)
    BY Zenon, <2>1, <2>2, <2>3, SeqAddIs
  <2>5. p = acc.pos[i] /\ sh = acc.shift[i] /\ R = T
    BY <2>3
  <2> HIDE DEF d, p, sh, R
  <2>6. /\ \A j \in Cell : d.pos[j] = IF j = i THEN p ELSE acc.pos[j]
        /\ \A j \in Cell : d.shift[j] = IF j = i THEN sh ELSE acc.shift[j]
        /\ \A j \in Cell : d.seq[j] = IF j = i THEN R ELSE acc.seq[j]
    BY <2>1, <2>2, <2>4, ChangedCells
  <2>7. EnterLeaves(d, T, c, i, 0)
    BY <2>1, <2>2, <2>4, <2>5, <2>6 DEF EnterLeaves
  <2> QED BY <2>7 DEF EnterStep, s, d
<1>6. \A T \in SUBSET S : T # {} => \A acc :
          EnterLeaves(acc, T \ {SomeOf(T)}, c, i, 0) => EnterLeaves(EnterStep(SomeOf(T), acc, c, i, 0), T, c, i, 0)
  BY <1>5
<1>7. EnterFold!Inductive(c, S, c, i, 0)
  BY <1>2, <1>3, <1>4, <1>6 DEF EnterFold!Inductive
<1> QED BY Zenon, <1>1, <1>7, EnterFold!FoldKeeps

RestStep(j, c, sv, b, d) == FoldSet(LAMBDA s, acc : SeqAdd(acc, j - 1, s), PosSet(c, j - 1, sv[j].pos), sv[j].seq)
RestLeaves(acc, T, sv, b, d) ==
    /\ CellsInv(acc) /\ ~acc.hasShift
    /\ \A i \in Cell : acc.shift[i] = 0 /\ acc.pos[i] = IF i + 1 \in T THEN sv[i+1].pos ELSE -1
RestFold == INSTANCE Folding WITH Step <- RestStep, Keeps <- RestLeaves, Pick <- SomeOf

\* The cells of a saved state: Restore's.
Rested(sv) ==
    LET Put(c, j) == FoldSet(LAMBDA s, acc : SeqAdd(acc, j - 1, s),
                             PosSet(c, j - 1, sv[j].pos), sv[j].seq)
    IN  Each(Put, Reset, 1..Len(sv))

LEMMA RestStepIs ==
    ASSUME NEW sv, IsSaved(sv), NEW T, NEW j \in 1..Len(sv), j \in T,
           NEW acc, RestLeaves(acc, T \ {j}, sv, 0, 0)
    PROVE  RestLeaves(RestStep(j, acc, sv, 0, 0), T, sv, 0, 0)
<1> DEFINE i == j - 1
           p == sv[j].pos
           S == sv[j].seq
           e == PosSet(acc, i, p)
           d == FoldSet(LAMBDA s, a : SeqAdd(a, i, s), e, S)
           sh == acc.shift[i]
           n == {}
<1>1. i \in Cell /\ i + 1 = j
  BY CellsAssumption DEF IsSaved, Cell
<1>2. p \in Nat /\ S \subseteq Seqs
  BY DEF IsSaved
<1>3. /\ CellsInv(acc) /\ ~acc.hasShift
      /\ \A m \in Cell : acc.shift[m] = 0 /\ acc.pos[m] = IF m + 1 \in T \ {j} THEN sv[m+1].pos ELSE -1
  BY DEF RestLeaves
<1>4. d = RestStep(j, acc, sv, 0, 0)
  BY DEF RestStep
<1>5. p = sv[j].pos
  OBVIOUS
<1> HIDE DEF i, p, S
<1>6. acc.pos[i] = -1 /\ sh = 0
  BY <1>1, <1>3
<1>7. CellsInv(e) /\ e.hasShift = acc.hasShift /\ Changed(e, acc, i, p, sh, n) /\ n = {}
  BY <1>1, <1>2, <1>3, <1>6, PosSetIs
<1> HIDE DEF e, n, sh
<1>8. /\ \A m \in Cell : e.pos[m] = IF m = i THEN p ELSE acc.pos[m]
      /\ \A m \in Cell : e.shift[m] = IF m = i THEN sh ELSE acc.shift[m]
      /\ \A m \in Cell : e.seq[m] = IF m = i THEN n ELSE acc.seq[m]
  BY <1>1, <1>3, <1>7, ChangedCells
<1>9. e.pos[i] # -1 /\ e.seq[i] = {}
  BY <1>1, <1>2, <1>7, <1>8
<1>10. EnterLeaves(d, S, e, i, 0)
  BY Zenon, <1>1, <1>2, <1>7, <1>9, EnterEach
<1> HIDE DEF d
<1>11. /\ CellsInv(d) /\ d.hasShift = e.hasShift
       /\ \A m \in Cell : d.pos[m] = e.pos[m] /\ d.shift[m] = e.shift[m]
  BY <1>10 DEF EnterLeaves
<1>12. \A m \in Cell : d.shift[m] = 0
  BY <1>3, <1>6, <1>8, <1>11
<1>13. ASSUME NEW m \in Cell PROVE d.pos[m] = IF m + 1 \in T THEN sv[m+1].pos ELSE -1
  <2>1. CASE m = i
    BY <1>1, <1>5, <1>8, <1>11, <2>1
  <2>2. CASE m # i
    <3>1. m + 1 # j
      BY <1>1, <2>2, CellsAssumption DEF Cell
    <3>2. m + 1 \in T \ {j} <=> m + 1 \in T
      BY <3>1
    <3> QED BY <1>3, <1>8, <1>11, <2>2, <3>2
  <2> QED BY <2>1, <2>2
<1>14. RestLeaves(d, T, sv, 0, 0)
  BY <1>3, <1>7, <1>11, <1>12, <1>13 DEF RestLeaves
<1> QED BY <1>4, <1>14

LEMMA RestedIs ==
    ASSUME NEW sv, IsSaved(sv)
    PROVE  RestLeaves(Rested(sv), 1..Len(sv), sv, 0, 0)
<1> DEFINE n == Len(sv)
           I == 1..n
<1>1. Rested(sv) = RestFold!Folded(Reset, I, sv, 0, 0)
  BY DEF Rested, Each, FoldSet, MapThenFoldSet, RestFold!Folded, RestStep, SomeOf
<1>2. RestFold!IsFiniteSet(I)
  <2>1. n \in Int
    BY CellsAssumption DEF IsSaved
  <2>2. IsFiniteSet(I)
    BY <2>1, FS_Interval
  <2> QED BY <2>2 DEF IsFiniteSet, RestFold!IsFiniteSet
<1>3. \A T \in SUBSET I : T # {} => SomeOf(T) \in T
  BY SomeIn
<1>4. RestLeaves(Reset, {}, sv, 0, 0)
  <2>1. CellsInv(Reset)
    BY ResetIs
  <2>2. ~Reset.hasShift /\ \A i \in Cell : Reset.shift[i] = 0 /\ Reset.pos[i] = -1
    BY DEF Reset
  <2> HIDE DEF Reset
  <2> QED BY <2>1, <2>2 DEF RestLeaves
<1>5. \A T \in SUBSET I : T # {} => \A acc :
          RestLeaves(acc, T \ {SomeOf(T)}, sv, 0, 0) => RestLeaves(RestStep(SomeOf(T), acc, sv, 0, 0), T, sv, 0, 0)
  <2>1. \A T \in SUBSET I : T # {} => SomeOf(T) \in 1..Len(sv)
    BY Zenon, <1>3
  <2> QED BY <1>3, <2>1, RestStepIs
<1>6. RestFold!Inductive(Reset, I, sv, 0, 0)
  BY <1>2, <1>3, <1>4, <1>5 DEF RestFold!Inductive
<1> QED BY <1>1, <1>6, RestFold!FoldKeeps

LEMMA RestoreIs ==
    ASSUME IsSaved(saved), Restore
    PROVE  Good(kv)' /\ (SavedRotated(saved) => Rotated(kv)')
<1> DEFINE n == Len(saved)
           c == Rested(saved)
           D == [i \in 0..n-1 |-> [tok |-> saved[i+1].tok, rot |-> saved[i+1].rot,
                                     lost |-> saved[i+1].lost]]
<1>1. kv' = [cells |-> c, head |-> 0, data |-> D]
  BY Zenon DEF Restore, Rested
<1>2. RestLeaves(c, 1..n, saved, 0, 0)
  BY RestedIs
<1> HIDE DEF c
<1>3. /\ CellsInv(c) /\ ~c.hasShift
      /\ \A i \in Cell : c.shift[i] = 0 /\ c.pos[i] = IF i + 1 \in 1..n THEN saved[i+1].pos ELSE -1
  BY <1>2 DEF RestLeaves
<1>4. n \in Nat
  BY CellsAssumption DEF IsSaved
<1>5. \A i \in c.used : i \in Cell /\ i \in 0..n-1 /\ i + 1 \in 1..n /\ c.pos[i] = saved[i+1].pos
  <2> SUFFICES ASSUME NEW i \in c.used
               PROVE  i \in Cell /\ i \in 0..n-1 /\ i + 1 \in 1..n /\ c.pos[i] = saved[i+1].pos
    OBVIOUS
  <2>1. i \in Cell /\ c.pos[i] # -1
    BY <1>3 DEF CellsInv, Occupied
  <2>2. i + 1 \in 1..n /\ c.pos[i] = saved[i+1].pos
    BY <1>3, <2>1
  <2>3. i \in 0..n-1
    <3> HIDE DEF n
    <3> QED BY <1>4, <2>1, <2>2, CellsAssumption DEF Cell
  <2> QED BY <2>1, <2>2, <2>3
<1> HIDE DEF n
<1>6. \A i \in 0..n-1 : /\ i \in DOMAIN D /\ DOMAIN D[i] = {"tok", "rot", "lost"}
                        /\ D[i].rot = saved[i+1].rot /\ D[i].tok = saved[i+1].tok
                        /\ D[i].lost = saved[i+1].lost
  OBVIOUS
<1> HIDE DEF D
<1>7. DOMAIN kv' = {"cells", "head", "data"} /\ kv'.cells = c /\ kv'.head = 0 /\ kv'.data = D
  BY <1>1
<1>8. 0 \in 0..NCells
  BY CellsAssumption
<1>9. IsKv(kv')
  BY <1>3, <1>7, <1>8 DEF IsKv
<1>10. Calm(kv'.cells)
  BY <1>3, <1>7 DEF Calm
<1>11. \A j \in 1..n : /\ saved[j].pos \in Nat /\ saved[j].rot \in Int /\ saved[j].lost \in Int
                       /\ Short => saved[j].tok \in Names
  BY DEF IsSaved, n
<1>12. Keys(kv')
  <2> SUFFICES ASSUME NEW i \in c.used
               PROVE  /\ i \in DOMAIN D /\ DOMAIN D[i] = {"tok", "rot", "lost"}
                      /\ D[i].rot \in Int /\ D[i].lost \in Int /\ (Short => D[i].tok \in Names)
    BY <1>7 DEF Keys
  <2> QED BY <1>5, <1>6, <1>11
<1>13. ASSUME SavedRotated(saved) PROVE Rotated(kv')
  <2> SUFFICES ASSUME NEW i \in c.used PROVE D[i].rot + c.shift[i] + D[i].lost = c.pos[i]
    BY <1>7 DEF Rotated
  <2>1. /\ D[i].rot = saved[i+1].rot /\ D[i].lost = saved[i+1].lost
        /\ c.shift[i] = 0 /\ c.pos[i] = saved[i+1].pos /\ i + 1 \in 1..n
    BY <1>3, <1>5, <1>6
  <2>2. /\ saved[i+1].rot + saved[i+1].lost = saved[i+1].pos
        /\ saved[i+1].rot \in Int /\ saved[i+1].lost \in Int
    BY <1>11, <1>13, <2>1 DEF SavedRotated, n
  <2> DEFINE q == saved[i+1].rot
             l == saved[i+1].lost
  <2>3. D[i].rot = q /\ D[i].lost = l /\ c.pos[i] = q + l /\ q \in Int /\ l \in Int
    BY <2>1, <2>2
  <2> HIDE DEF q, l
  <2>4. q + 0 + l = q + l
    BY <2>3
  <2> QED BY <2>1, <2>3, <2>4
<1>14. Good(kv') /\ (SavedRotated(saved) => Rotated(kv'))
  BY <1>9, <1>10, <1>12, <1>13 DEF Good
<1> QED BY <1>14 DEF Good, Rotated, IsKv, Keys

-----------------------------------------------------------------------------
(* The theorems *)

\* What every call keeps: the cells and their indexes, no shift where no token
\* is, a key for each token; and the same of a saved state.
Sound ==
    /\ Good(kv)
    /\ mode \in Modes
    /\ saved = NoState \/ IsSaved(saved)

\* And unless positions are divided, how the keys are rotated.
SoundlyRotated ==
    ~mode.divides => Rotated(kv) /\ (saved = NoState \/ SavedRotated(saved))

LEMMA SoundInit == Init => Sound /\ SoundlyRotated
<1> SUFFICES ASSUME Init PROVE Sound /\ SoundlyRotated
  OBVIOUS
<1>1. kv = [cells |-> Reset, head |-> 0, data |-> <<>>] /\ saved = NoState /\ mode \in Modes
  BY DEF Init
<1>2. Good(kv) /\ Rotated(kv)
  BY <1>1, EmptyGood
<1> QED BY <1>1, <1>2 DEF Sound, SoundlyRotated

LEMMA ModeIs == ASSUME mode \in Modes
                PROVE  mode.seqs \subseteq Seqs /\ mode.divides \in BOOLEAN
<1>1. mode \in [type : {"none", "standard", "chunked"}, n : Nat \ {0},
                seqs : SUBSET Seqs, shifts : BOOLEAN, divides : BOOLEAN, saves : BOOLEAN]
  BY CacheAssumption
<1> QED BY <1>1

LEMMA SoundNext ==
    Sound /\ Next => Sound' /\ (SoundlyRotated => SoundlyRotated')
<1> SUFFICES ASSUME Sound, Next
             PROVE  Sound' /\ (SoundlyRotated => SoundlyRotated')
  OBVIOUS
<1>1. Good(kv) /\ mode \in Modes /\ (saved = NoState \/ IsSaved(saved))
  BY DEF Sound
<1>2. mode.seqs \subseteq Seqs /\ mode.divides \in BOOLEAN
  BY <1>1, ModeIs
<1>3. ASSUME Kept, UNCHANGED <<saved, mode>>
      PROVE  Sound' /\ (SoundlyRotated => SoundlyRotated')
  BY <1>1, <1>3 DEF Kept, Sound, SoundlyRotated
<1>4. Done => UNCHANGED <<saved, mode>>
  BY DEF Done
<1>5. ASSUME Clear PROVE Kept /\ UNCHANGED <<saved, mode>>
  <2>1. kv' = [cells |-> Reset, head |-> 0, data |-> <<>>] /\ UNCHANGED <<saved, mode>>
    BY <1>4, <1>5 DEF Clear
  <2>2. Good(kv') /\ Rotated(kv')
    BY <2>1, EmptyGood
  <2> QED BY <2>1, <2>2 DEF Kept, Good, Rotated, IsKv, Keys
<1>6. ASSUME Save PROVE Sound' /\ (SoundlyRotated => SoundlyRotated')
  <2>1. IsSaved(saved') /\ (Rotated(kv) => SavedRotated(saved'))
    BY <1>1, <1>6, SaveIs
  <2>2. UNCHANGED <<kv, mode>>
    BY <1>6 DEF Save
  <2>3. Good(kv)' /\ (Rotated(kv) => Rotated(kv)')
    BY <1>1, <2>2 DEF Good, Rotated, IsKv, Keys
  <2>4. Sound'
    BY <1>1, <2>1, <2>2, <2>3 DEF Sound
  <2>5. ASSUME SoundlyRotated PROVE SoundlyRotated'
    BY <2>1, <2>2, <2>3, <2>5 DEF SoundlyRotated
  <2> QED BY <2>4, <2>5
<1>7. ASSUME Restore PROVE Sound' /\ (SoundlyRotated => SoundlyRotated')
  <2>1. saved # NoState /\ UNCHANGED <<saved, mode>>
    BY Zenon, <1>4, <1>7 DEF Restore
  <2>2. Good(kv)' /\ (SavedRotated(saved) => Rotated(kv)')
    BY <1>1, <1>7, <2>1, RestoreIs
  <2>3. Sound'
    BY <1>1, <2>1, <2>2 DEF Sound
  <2>4. ASSUME SoundlyRotated PROVE SoundlyRotated'
    BY <2>1, <2>2, <2>4 DEF SoundlyRotated
  <2> QED BY <2>3, <2>4
<1>8. ASSUME RestoreFails PROVE Kept /\ UNCHANGED <<saved, mode>>
  BY <1>5, <1>8 DEF RestoreFails
<1>9. ASSUME NEW r \in Ranges, RemoveAny(r) PROVE Kept /\ UNCHANGED <<saved, mode>>
  BY <1>1, <1>4, <1>9, RemoveAnyKeeps DEF RemoveAny
<1>10. ASSUME NEW s \in mode.seqs, KeepSeq(s) PROVE Kept /\ UNCHANGED <<saved, mode>>
  <2>1. s \in Seqs
    BY <1>2
  <2> QED BY Zenon, <1>1, <1>4, <1>10, <2>1, KeepSeqKeeps DEF KeepSeq
<1>11. ASSUME NEW s \in mode.seqs, NEW r \in Ranges, RemoveSeq(s, r) PROVE Kept /\ UNCHANGED <<saved, mode>>
  <2>1. s \in Seqs
    BY <1>2
  <2> QED BY <1>1, <1>4, <1>11, <2>1, RemoveSeqKeeps DEF RemoveSeq
<1>12. ASSUME NEW s \in mode.seqs, NEW t \in mode.seqs, NEW r \in Ranges, CopySeq(s, t, r)
       PROVE  Kept /\ UNCHANGED <<saved, mode>>
  <2>1. s \in Seqs /\ t \in Seqs
    BY <1>2
  <2> QED BY Zenon, <1>1, <1>4, <1>12, <2>1, CopySeqKeeps DEF CopySeq
<1>13. ASSUME NEW s \in mode.seqs, NEW r \in Ranges, NEW d \in Shifts, ShiftSeq(s, r, d)
       PROVE  Kept /\ UNCHANGED <<saved, mode>>
  <2>1. d \in Int
    BY CacheAssumption
  <2> QED BY Zenon, <1>1, <1>4, <1>13, <2>1, ShiftSeqKeeps DEF ShiftSeq
<1>14. ASSUME mode.divides, NEW s \in mode.seqs, NEW r \in Ranges, NEW d \in Divisors, DivideSeq(s, r, d)
       PROVE  Sound' /\ SoundlyRotated'
  <2>1. d \in Nat \ {0}
    BY CacheAssumption
  <2>2. Good(kv)' /\ UNCHANGED <<saved, mode>>
    BY Zenon, <1>1, <1>4, <1>14, <2>1, DivideSeqKeeps DEF DivideSeq
  <2> QED BY <1>1, <1>14, <2>2 DEF Sound, SoundlyRotated
<1>15. ASSUME NEW b \in Batches \cap Seq(mode.seqs), Decode(b) PROVE Kept /\ UNCHANGED <<saved, mode>>
  <2>1. UNCHANGED <<saved, mode>>
    BY <1>15 DEF Decode
  <2> QED BY <1>1, <1>15, <2>1, DecodeKeeps
<1> QED BY <1>3, <1>5, <1>6, <1>7, <1>8, <1>9, <1>10, <1>11, <1>12, <1>13, <1>14, <1>15 DEF Next

LEMMA SoundStep ==
    Sound /\ [Next]_vars => Sound' /\ (SoundlyRotated => SoundlyRotated')
<1> SUFFICES ASSUME Sound, [Next]_vars
             PROVE  Sound' /\ (SoundlyRotated => SoundlyRotated')
  OBVIOUS
<1>1. CASE Next
  BY <1>1, SoundNext
<1>2. CASE UNCHANGED vars
  <2>1. UNCHANGED kv /\ UNCHANGED saved /\ UNCHANGED mode
    BY <1>2 DEF vars
  <2>2. Good(kv)' /\ (Rotated(kv) => Rotated(kv)')
    BY <2>1 DEF Sound, Good, Rotated, IsKv, Keys
  <2> QED BY <2>1, <2>2 DEF Sound, SoundlyRotated
<1> QED BY <1>1, <1>2

LEMMA SoundIndexes == Sound => IndexesExact
<1> SUFFICES ASSUME Sound PROVE IndexesExact
  OBVIOUS
<1> DEFINE c == kv.cells
<1>1. CellSets(c) /\ Occupied(c) /\ Counted(c)
  BY DEF Sound, Good, IsKv, CellsInv
<1>2. c.used = {i \in Cell : ~IsEmpty(c, i)}
  BY <1>1 DEF Occupied, IsEmpty
<1>3. ASSUME NEW s \in Seqs
      PROVE  /\ BagToSet(c.seqPos[s]) = {c.pos[i] : i \in {j \in Cell : s \in c.seq[j]}}
             /\ \A p \in BagToSet(c.seqPos[s]) :
                    c.seqPos[s][p] = Cardinality({i \in Cell : s \in c.seq[i] /\ c.pos[i] = p})
  <2> DEFINE B == c.seqPos[s]
  <2>1. B \in PosBags
    BY <1>1 DEF CellSets
  <2>2. \A q \in Int : Copies(B, q) = Cardinality(At(c, s, q))
    BY <1>1 DEF Counted
  <2>3. \A i \in Cell : c.pos[i] \in Int
    BY <1>1 DEF CellSets
  <2> HIDE DEF B
  <2>4. \A q \in DOMAIN B : q \in Int
    BY Zenon, <2>1 DEF PosBags
  <2>5. ASSUME NEW q \in Int PROVE q \in DOMAIN B <=> At(c, s, q) # {}
    <3>1. q \in DOMAIN B <=> Copies(B, q) > 0
      BY <2>1, CopiesType
    <3>2. IsFiniteSet(At(c, s, q))
      BY CellFinite DEF At
    <3>3. Cardinality(At(c, s, q)) \in Nat /\ (Cardinality(At(c, s, q)) = 0 <=> At(c, s, q) = {})
      BY <3>2, FS_CardinalityType, FS_EmptySet
    <3> DEFINE n == Cardinality(At(c, s, q))
    <3>4. n \in Nat /\ (n > 0 <=> q \in DOMAIN B) /\ (n = 0 <=> At(c, s, q) = {})
      BY <2>2, <3>1, <3>3
    <3> HIDE DEF n
    <3> QED BY <3>4
  <2>6. BagToSet(B) = DOMAIN B
    BY DEF BagToSet
  <2>7. DOMAIN B = {c.pos[i] : i \in {j \in Cell : s \in c.seq[j]}}
    BY Zenon, <2>3, <2>4, <2>5 DEF At
  <2>8. \A p \in DOMAIN B : B[p] = Cardinality(At(c, s, p))
    BY <2>2, <2>4 DEF Copies
  <2> QED BY Zenon, <2>6, <2>7, <2>8 DEF B, At
<1> QED BY <1>2, <1>3 DEF IndexesExact

\* The two indexes that every method of llama_kv_cells_unified keeps by hand,
\* used and seq_pos, are exact whatever is called: removing, copying, keeping,
\* shifting and dividing sequences, saving and restoring, and decoding with
\* what it tries, undoes, compacts and takes back when it fails.
THEOREM IndexesStayExact == Spec => []IndexesExact
<1>1. Init => Sound
  BY SoundInit
<1>2. Sound /\ [Next]_vars => Sound'
  BY SoundStep
<1>3. Sound => IndexesExact
  BY SoundIndexes
<1> QED BY <1>1, <1>2, <1>3, PTL DEF Spec

LEMMA RotatedMeans == SoundlyRotated => RotationTracked
BY DEF SoundlyRotated, RotationTracked, Rotated

\* With the shift that is pending in its cell each key is rotated for the
\* position of its token, while nobody divides positions, but for exactly the
\* shifts that were pending when a state was saved: through shifts that add
\* up, K-shifts, compaction, plans that are undone, failed batches and
\* restored states. A state saved with none pending restores its keys exactly.
THEOREM KeysRotated == Spec => []RotationTracked
<1>1. Init => Sound /\ SoundlyRotated
  BY SoundInit
<1>2. (Sound /\ SoundlyRotated) /\ [Next]_vars => (Sound /\ SoundlyRotated)'
  BY SoundStep
<1>3. Sound /\ SoundlyRotated => RotationTracked
  BY RotatedMeans
<1> QED BY <1>1, <1>2, <1>3, PTL DEF Spec

LEMMA SoundTypes == Sound /\ Short => TypeOK
<1> SUFFICES ASSUME Sound, Short PROVE TypeOK
  OBVIOUS
<1> DEFINE c == kv.cells
<1>1. CellSets(c) /\ Occupied(c) /\ kv.head \in 0..NCells /\ Keys(kv)
  BY DEF Sound, Good, IsKv, CellsInv
<1>2. \A s \in Seqs : IsABag(c.seqPos[s])
  <2> SUFFICES ASSUME NEW s \in Seqs PROVE IsABag(c.seqPos[s])
    OBVIOUS
  <2> DEFINE B == c.seqPos[s]
  <2>0. B \in PosBags
    BY <1>1 DEF CellSets
  <2> HIDE DEF B
  <2>1. PICK P \in SUBSET Int : B \in [P -> Nat \ {0}]
    BY <2>0 DEF PosBags
  <2>2. DOMAIN B = P /\ B \in [P -> Nat \ {0}]
    BY <2>1
  <2>3. Nat \ {0} = {n \in Nat : n > 0}
    OBVIOUS
  <2>4. B \in [DOMAIN B -> {n \in Nat : n > 0}]
    BY <2>2, <2>3
  <2> QED BY <2>4 DEF IsABag, B
<1>3. DOMAIN c.seqPos = Seqs
  BY <1>1 DEF CellSets
<1>4. \A i \in Cell : c.pos[i] >= -1
  BY <1>1 DEF Occupied
<1>5. CellsType(c)
  BY <1>1, <1>2, <1>3, <1>4 DEF CellsType, CellSets
<1>6. \A i \in c.used : kv.data[i].tok \in Names
  BY <1>1 DEF Keys
<1> QED BY <1>1, <1>5, <1>6 DEF TypeOK

\* Every reachable state of the cache is well typed, its head at a cell or
\* just after the last, if no batch is longer than the cache (n_batch is at
\* most n_ctx in llama_context), which bounds the names of tokens.
THEOREM CacheTypes == ASSUME Short PROVE Spec => []TypeOK
<1>1. Init => Sound
  BY SoundInit
<1>2. Sound /\ [Next]_vars => Sound'
  BY SoundStep
<1>3. Sound => TypeOK
  BY SoundTypes
<1> QED BY <1>1, <1>2, <1>3, PTL DEF Spec
=============================================================================
