---------------------------- MODULE KvCells_proofs -----------------------------
(***************************************************************************)
(* Lemmas about KvCells, for every number of cells and sequences: what     *)
(* each method of the cells keeps of their two indexes, on one cell and,   *)
(* with the folds that KvCache makes of them, on every cell of a set.      *)
(***************************************************************************)
EXTENDS KvCache, FiniteSetTheorems, SequenceTheorems, WellFoundedInduction, TLAPS

-----------------------------------------------------------------------------
(* Bags of positions *)

PosBags == UNION {[P -> Nat \ {0}] : P \in SUBSET Int}

\* How often a position is in a bag.
Copies(B, q) == IF q \in DOMAIN B THEN B[q] ELSE 0

LEMMA BagIs ==
    ASSUME NEW B
    PROVE  B \in PosBags <=> DOMAIN B \subseteq Int /\ B \in [DOMAIN B -> Nat \ {0}]
<1>1. ASSUME B \in PosBags PROVE DOMAIN B \subseteq Int /\ B \in [DOMAIN B -> Nat \ {0}]
  <2>1. PICK P \in SUBSET Int : B \in [P -> Nat \ {0}]
    BY <1>1 DEF PosBags
  <2> QED BY <2>1
<1>2. ASSUME DOMAIN B \subseteq Int, B \in [DOMAIN B -> Nat \ {0}] PROVE B \in PosBags
  BY <1>2 DEF PosBags
<1> QED BY <1>1, <1>2

LEMMA CopiesType == ASSUME NEW B \in PosBags, NEW q PROVE Copies(B, q) \in Nat /\ (q \in DOMAIN B <=> Copies(B, q) > 0)
BY BagIs DEF Copies

LEMMA BagDec ==
    ASSUME NEW B \in PosBags, NEW p \in Int
    PROVE  /\ B (-) SetToBag({p}) \in PosBags
           /\ \A q : Copies(B (-) SetToBag({p}), q) =
                       IF q = p /\ Copies(B, q) > 0 THEN Copies(B, q) - 1 ELSE Copies(B, q)
<1> DEFINE one == SetToBag({p})
           all == [e \in DOMAIN B |-> IF e \in DOMAIN one THEN B[e] - one[e] ELSE B[e]]
           left == {e \in DOMAIN all : all[e] > 0}
           D == [e \in left |-> all[e]]
<1>1. B (-) one = D
  BY DEF (-)
<1>2. DOMAIN one = {p} /\ one[p] = 1
  BY DEF SetToBag
<1>3. DOMAIN B \subseteq Int /\ B \in [DOMAIN B -> Nat \ {0}]
  BY BagIs
<1>4. \A e \in DOMAIN B : all[e] = IF e = p THEN B[e] - 1 ELSE B[e]
  <2> HIDE DEF one
  <2> QED BY <1>2
<1>5. DOMAIN all = DOMAIN B
  OBVIOUS
<1> HIDE DEF all
<1>6. DOMAIN D = left /\ \A e \in left : D[e] = all[e]
  OBVIOUS
<1>7. \A e : e \in left <=> e \in DOMAIN B /\ all[e] > 0
  BY <1>5
<1> HIDE DEF left, D
<1>8. \A e \in DOMAIN B : all[e] \in Nat
  BY <1>3, <1>4
<1>9. D \in PosBags
  <2>1. DOMAIN D \subseteq Int
    BY <1>3, <1>6, <1>7
  <2>2. \A e \in DOMAIN D : D[e] \in Nat \ {0}
    BY <1>6, <1>7, <1>8
  <2>3. D = [e \in DOMAIN D |-> D[e]]
    BY <1>6 DEF D
  <2>4. D \in [DOMAIN D -> Nat \ {0}]
    BY <2>2, <2>3
  <2> QED BY <2>1, <2>4, BagIs
<1>10. ASSUME NEW q PROVE Copies(D, q) = IF q = p /\ Copies(B, q) > 0 THEN Copies(B, q) - 1 ELSE Copies(B, q)
  <2>1. CASE q \in DOMAIN B /\ q = p
    BY <2>1, <1>3, <1>4, <1>6, <1>7 DEF Copies
  <2>2. CASE q \in DOMAIN B /\ q # p
    BY <2>2, <1>3, <1>4, <1>6, <1>7 DEF Copies
  <2>3. CASE q \notin DOMAIN B
    BY <2>3, <1>6, <1>7 DEF Copies
  <2> QED BY <2>1, <2>2, <2>3
<1> QED BY <1>1, <1>9, <1>10

LEMMA BagInc ==
    ASSUME NEW B \in PosBags, NEW p \in Int
    PROVE  /\ B (+) SetToBag({p}) \in PosBags
           /\ \A q : Copies(B (+) SetToBag({p}), q) = IF q = p THEN Copies(B, q) + 1 ELSE Copies(B, q)
<1> DEFINE one == SetToBag({p})
           dom == DOMAIN B \cup DOMAIN one
           D == [e \in dom |-> (IF e \in DOMAIN B THEN B[e] ELSE 0) + (IF e \in DOMAIN one THEN one[e] ELSE 0)]
<1>1. B (+) one = D
  BY DEF (+)
<1>2. DOMAIN one = {p} /\ one[p] = 1
  BY DEF SetToBag
<1>3. DOMAIN B \subseteq Int /\ B \in [DOMAIN B -> Nat \ {0}]
  BY BagIs
<1> HIDE DEF one
<1>4. dom = DOMAIN B \cup {p}
  BY <1>2
<1>5. \A e \in dom : D[e] = Copies(B, e) + (IF e = p THEN 1 ELSE 0)
  BY <1>2 DEF Copies
<1>6. DOMAIN D = dom /\ D = [e \in DOMAIN D |-> D[e]]
  OBVIOUS
<1> HIDE DEF D, dom
<1>7. \A e : Copies(B, e) \in Nat
  BY CopiesType
<1>8. \A e \in DOMAIN D : D[e] \in Nat \ {0}
  BY <1>3, <1>4, <1>5, <1>6, <1>7 DEF Copies
<1>9. DOMAIN D \subseteq Int
  BY <1>3, <1>4, <1>6
<1>10. D \in PosBags
  BY <1>6, <1>8, <1>9, BagIs
<1>11. ASSUME NEW q PROVE Copies(D, q) = IF q = p THEN Copies(B, q) + 1 ELSE Copies(B, q)
  <2>1. CASE q \in dom
    <3>1. Copies(D, q) = Copies(B, q) + (IF q = p THEN 1 ELSE 0)
      BY <2>1, <1>5, <1>6 DEF Copies
    <3>2. Copies(B, q) \in Nat
      BY <1>7
    <3> QED BY <3>1, <3>2
  <2>2. CASE q \notin dom
    BY <2>2, <1>4, <1>6 DEF Copies
  <2> QED BY <2>1, <2>2
<1> QED BY <1>1, <1>10, <1>11 DEF one

LEMMA DecIs ==
    ASSUME NEW seqPos \in [Seqs -> PosBags], NEW S, NEW p \in Int
    PROVE  /\ SeqPosDec(seqPos, S, p) \in [Seqs -> PosBags]
           /\ \A s \in Seqs : \A q :
                Copies(SeqPosDec(seqPos, S, p)[s], q) =
                  IF s \in S /\ q = p /\ Copies(seqPos[s], q) > 0
                  THEN Copies(seqPos[s], q) - 1 ELSE Copies(seqPos[s], q)
<1> DEFINE one == SetToBag({p})
<1>1. \A s \in Seqs : /\ seqPos[s] (-) one \in PosBags
                      /\ \A q : Copies(seqPos[s] (-) one, q) =
                           IF q = p /\ Copies(seqPos[s], q) > 0 THEN Copies(seqPos[s], q) - 1 ELSE Copies(seqPos[s], q)
  BY BagDec
<1>2. SeqPosDec(seqPos, S, p) = [s \in Seqs |-> IF s \in S THEN seqPos[s] (-) one ELSE seqPos[s]]
  BY DEF SeqPosDec
<1> HIDE DEF one
<1> QED BY <1>1, <1>2

LEMMA IncIs ==
    ASSUME NEW seqPos \in [Seqs -> PosBags], NEW S, NEW p \in Int
    PROVE  /\ SeqPosInc(seqPos, S, p) \in [Seqs -> PosBags]
           /\ \A s \in Seqs : \A q :
                Copies(SeqPosInc(seqPos, S, p)[s], q) =
                  IF s \in S /\ q = p THEN Copies(seqPos[s], q) + 1 ELSE Copies(seqPos[s], q)
<1> DEFINE one == SetToBag({p})
<1>1. \A s \in Seqs : /\ seqPos[s] (+) one \in PosBags
                      /\ \A q : Copies(seqPos[s] (+) one, q) =
                           IF q = p THEN Copies(seqPos[s], q) + 1 ELSE Copies(seqPos[s], q)
  BY BagInc
<1>2. SeqPosInc(seqPos, S, p) = [s \in Seqs |-> IF s \in S THEN seqPos[s] (+) one ELSE seqPos[s]]
  BY DEF SeqPosInc
<1> HIDE DEF one
<1> QED BY <1>1, <1>2

-----------------------------------------------------------------------------
(* The cells *)

CellSets(c) ==
    /\ DOMAIN c = {"pos", "shift", "seq", "hasShift", "used", "seqPos"}
    /\ c.pos \in [Cell -> Int] /\ c.shift \in [Cell -> Int] /\ c.seq \in [Cell -> SUBSET Seqs]
    /\ c.hasShift \in BOOLEAN /\ c.used \subseteq Cell /\ c.seqPos \in [Seqs -> PosBags]

\* The cells that hold a token of sequence s at position q.
At(c, s, q) == {i \in Cell : s \in c.seq[i] /\ c.pos[i] = q}

\* The index by sequence counts them.
Counted(c) == \A s \in Seqs : \A q \in Int : Copies(c.seqPos[s], q) = Cardinality(At(c, s, q))

\* The index of used cells, and empty cells belong to no sequence.
Occupied(c) ==
    /\ \A i \in Cell : c.pos[i] >= -1 /\ (c.pos[i] = -1 => c.seq[i] = {})
    /\ c.used = {i \in Cell : c.pos[i] # -1}

CellsInv(c) == CellSets(c) /\ Occupied(c) /\ Counted(c)

\* No shift is pending where no token is, or where none is announced.
Calm(c) ==
    /\ \A i \in Cell : c.pos[i] = -1 => c.shift[i] = 0
    /\ ~c.hasShift => \A i \in Cell : c.shift[i] = 0

LEMMA AtType == ASSUME NEW c, NEW s, NEW q
                PROVE  At(c, s, q) \subseteq Cell /\ IsFiniteSet(At(c, s, q)) /\ Cardinality(At(c, s, q)) \in Nat
<1>1. At(c, s, q) \subseteq Cell
  BY DEF At
<1>2. IsFiniteSet(Cell)
  BY CellsAssumption, FS_Interval DEF Cell
<1> QED BY <1>1, <1>2, FS_Subset, FS_CardinalityType

\* One cell changes its position and sequences and the counts follow.
LEMMA OneCellCounted ==
    ASSUME NEW c, Counted(c), NEW d, NEW i \in Cell,
           c.pos \in [Cell -> Int], c.seqPos \in [Seqs -> PosBags],
           d.pos[i] \in Int,
           \A j \in Cell \ {i} : d.pos[j] = c.pos[j] /\ d.seq[j] = c.seq[j],
           \A s \in Seqs : \A q \in Int :
               Copies(d.seqPos[s], q) + (IF s \in c.seq[i] /\ c.pos[i] = q THEN 1 ELSE 0)
                 = Copies(c.seqPos[s], q) + (IF s \in d.seq[i] /\ d.pos[i] = q THEN 1 ELSE 0),
           d.seqPos \in [Seqs -> PosBags]
    PROVE  Counted(d)
<1> SUFFICES ASSUME NEW s \in Seqs, NEW q \in Int
             PROVE  Copies(d.seqPos[s], q) = Cardinality(At(d, s, q))
  BY DEF Counted
<1> DEFINE A == At(c, s, q)
           B == At(d, s, q)
           was == s \in c.seq[i] /\ c.pos[i] = q
           is == s \in d.seq[i] /\ d.pos[i] = q
<1>1. Copies(c.seqPos[s], q) = Cardinality(A)
  BY DEF Counted
<1>2. Copies(d.seqPos[s], q) + (IF was THEN 1 ELSE 0) = Copies(c.seqPos[s], q) + (IF is THEN 1 ELSE 0)
  OBVIOUS
<1>3. IsFiniteSet(A) /\ IsFiniteSet(B) /\ Cardinality(A) \in Nat /\ Cardinality(B) \in Nat
  BY AtType
<1>4. \A j \in Cell \ {i} : j \in A <=> j \in B
  BY DEF At
<1>5. (i \in A <=> was) /\ (i \in B <=> is) /\ A \subseteq Cell /\ B \subseteq Cell
  BY DEF At
<1>6. Copies(d.seqPos[s], q) \in Nat /\ Copies(c.seqPos[s], q) \in Nat
  BY CopiesType
<1> HIDE DEF A, B, was, is
<1>7. CASE was /\ is
  <2>1. A = B
    <3>1. \A j : j \in A <=> j \in B
      BY <1>4, <1>5, <1>7
    <3> QED BY Zenon, <3>1
  <2> QED BY <2>1, <1>1, <1>2, <1>6, <1>7 DEF B
<1>8. CASE was /\ ~is
  <2>1. B = A \ {i} /\ i \in A
    BY <1>4, <1>5, <1>8
  <2>2. Cardinality(B) = Cardinality(A) - 1
    BY <2>1, <1>3, FS_RemoveElement
  <2> QED BY <2>2, <1>1, <1>2, <1>3, <1>6, <1>8 DEF B
<1>9. CASE ~was /\ is
  <2>1. B = A \cup {i} /\ i \notin A
    BY <1>4, <1>5, <1>9
  <2>2. Cardinality(B) = Cardinality(A) + 1
    BY <2>1, <1>3, FS_AddElement
  <2> QED BY <2>2, <1>1, <1>2, <1>3, <1>6, <1>9 DEF B
<1>10. CASE ~was /\ ~is
  <2>1. A = B
    <3>1. \A j : j \in A <=> j \in B
      BY <1>4, <1>5, <1>10
    <3> QED BY Zenon, <3>1
  <2> QED BY <2>1, <1>1, <1>2, <1>6, <1>10 DEF B
<1> QED BY <1>7, <1>8, <1>9, <1>10

\* A token that a cell holds is counted.
LEMMA HeldCounted ==
    ASSUME NEW c, Counted(c), c.pos \in [Cell -> Int], NEW i \in Cell, NEW s \in Seqs, s \in c.seq[i]
    PROVE  Copies(c.seqPos[s], c.pos[i]) > 0
<1>1. i \in At(c, s, c.pos[i])
  BY DEF At
<1>2. Cardinality(At(c, s, c.pos[i])) > 0
  BY <1>1, AtType, FS_EmptySet
<1>3. c.pos[i] \in Int
  OBVIOUS
<1> QED BY <1>2, <1>3 DEF Counted

\* A token that is counted leaves the sequences S.
LEMMA LeaveCounted ==
    ASSUME NEW b \in [Seqs -> PosBags], NEW p \in Int, NEW S, S \subseteq Seqs,
           \A s \in S : Copies(b[s], p) > 0
    PROVE  /\ SeqPosDec(b, S, p) \in [Seqs -> PosBags]
           /\ \A s \in Seqs : \A q \in Int :
                Copies(SeqPosDec(b, S, p)[s], q) + (IF s \in S /\ p = q THEN 1 ELSE 0) = Copies(b[s], q)
<1> DEFINE sp == SeqPosDec(b, S, p)
<1>2. /\ sp \in [Seqs -> PosBags]
      /\ \A s \in Seqs : \A q :
           Copies(sp[s], q) = IF s \in S /\ q = p /\ Copies(b[s], q) > 0
                              THEN Copies(b[s], q) - 1 ELSE Copies(b[s], q)
  BY DecIs
<1>4. \A s \in Seqs : \A q : Copies(b[s], q) \in Nat
  BY CopiesType
<1> HIDE DEF sp
<1>5. ASSUME NEW s \in Seqs, NEW q \in Int
      PROVE  Copies(sp[s], q) + (IF s \in S /\ p = q THEN 1 ELSE 0) = Copies(b[s], q)
  <2> DEFINE x == Copies(sp[s], q)
             y == Copies(b[s], q)
  <2>1. /\ x = IF s \in S /\ q = p /\ y > 0 THEN y - 1 ELSE y
        /\ y \in Nat
        /\ s \in S /\ p = q => y > 0
    BY <1>2, <1>4
  <2> HIDE DEF x, y
  <2>2. x + (IF s \in S /\ p = q THEN 1 ELSE 0) = y
    BY <2>1
  <2> QED BY <2>2 DEF x, y
<1> QED BY <1>2, <1>5 DEF sp

LEMMA NoneLeave == ASSUME NEW b \in [Seqs -> PosBags], NEW p PROVE SeqPosDec(b, {}, p) = b
BY DEF SeqPosDec

LEMMA NoneEnter == ASSUME NEW b \in [Seqs -> PosBags], NEW p PROVE SeqPosInc(b, {}, p) = b
BY DEF SeqPosInc

\* d is c but for cell i, which has position p, shift sh and sequences S.
Changed(d, c, i, p, sh, S) ==
    /\ DOMAIN d = DOMAIN c
    /\ d.pos = [c.pos EXCEPT ![i] = p] /\ d.shift = [c.shift EXCEPT ![i] = sh]
    /\ d.seq = [c.seq EXCEPT ![i] = S]
    /\ d.used = IF p = -1 THEN c.used \ {i} ELSE c.used \cup {i}
    /\ p \in Int /\ p >= -1 /\ sh \in Int /\ S \subseteq Seqs /\ (p = -1 => S = {})
    /\ d.hasShift \in BOOLEAN

LEMMA ChangedKeeps ==
    ASSUME NEW c, CellsInv(c), NEW i \in Cell, NEW p, NEW sh, NEW S, NEW d, Changed(d, c, i, p, sh, S),
           d.seqPos \in [Seqs -> PosBags],
           \A s \in Seqs : \A q \in Int :
               Copies(d.seqPos[s], q) + (IF s \in c.seq[i] /\ c.pos[i] = q THEN 1 ELSE 0)
                 = Copies(c.seqPos[s], q) + (IF s \in S /\ p = q THEN 1 ELSE 0)
    PROVE  CellsInv(d)
<1>1. /\ c.pos \in [Cell -> Int] /\ c.shift \in [Cell -> Int] /\ c.seq \in [Cell -> SUBSET Seqs]
      /\ c.used \subseteq Cell /\ c.seqPos \in [Seqs -> PosBags]
  BY DEF CellsInv, CellSets
<1>2. /\ d.pos = [c.pos EXCEPT ![i] = p] /\ d.shift = [c.shift EXCEPT ![i] = sh]
      /\ d.seq = [c.seq EXCEPT ![i] = S]
      /\ d.used = IF p = -1 THEN c.used \ {i} ELSE c.used \cup {i}
  BY DEF Changed
<1>3. p \in Int /\ p >= -1 /\ sh \in Int /\ S \subseteq Seqs /\ (p = -1 => S = {}) /\ d.hasShift \in BOOLEAN
  BY DEF Changed
<1>4. CellSets(d)
  <2>1. /\ d.pos \in [Cell -> Int] /\ d.shift \in [Cell -> Int] /\ d.seq \in [Cell -> SUBSET Seqs]
        /\ d.used \subseteq Cell
    BY <1>1, <1>2, <1>3
  <2>2. DOMAIN d = {"pos", "shift", "seq", "hasShift", "used", "seqPos"}
    BY DEF Changed, CellsInv, CellSets
  <2> QED BY <1>3, <2>1, <2>2 DEF CellSets
<1>5. /\ d.pos[i] = p /\ d.seq[i] = S
      /\ \A j \in Cell \ {i} : d.pos[j] = c.pos[j] /\ d.seq[j] = c.seq[j]
  BY <1>1, <1>2
<1>6. Occupied(d)
  <2>1. /\ \A j \in Cell : c.pos[j] >= -1 /\ (c.pos[j] = -1 => c.seq[j] = {})
        /\ c.used = {j \in Cell : c.pos[j] # -1}
    BY DEF CellsInv, Occupied
  <2>2. \A j \in Cell : d.pos[j] >= -1 /\ (d.pos[j] = -1 => d.seq[j] = {})
    BY <1>3, <1>5, <2>1
  <2>3. \A j : j \in d.used <=> j \in Cell /\ d.pos[j] # -1
    <3>1. CASE p = -1
      BY <1>2, <1>5, <2>1, <3>1
    <3>2. CASE p # -1
      BY <1>2, <1>5, <2>1, <3>2
    <3> QED BY <3>1, <3>2
  <2>4. d.used = {j \in Cell : d.pos[j] # -1}
    BY <2>3
  <2> QED BY <2>2, <2>4 DEF Occupied
<1>7. Counted(d)
  <2>1. \A s \in Seqs : \A q \in Int :
               Copies(d.seqPos[s], q) + (IF s \in c.seq[i] /\ c.pos[i] = q THEN 1 ELSE 0)
                 = Copies(c.seqPos[s], q) + (IF s \in d.seq[i] /\ d.pos[i] = q THEN 1 ELSE 0)
    BY <1>5
  <2>2. Counted(c) /\ d.pos[i] \in Int
    BY <1>3, <1>5 DEF CellsInv
  <2> QED BY <1>1, <1>5, <2>1, <2>2, OneCellCounted
<1> QED BY <1>4, <1>6, <1>7 DEF CellsInv

\* A token leaves the sequences L and enters, at position p, the sequences E:
\* all of it, or what it keeps stays where it is.
LEMMA MethodKeeps ==
    ASSUME NEW c, CellsInv(c), NEW i \in Cell, NEW p, NEW sh, NEW S, NEW d, Changed(d, c, i, p, sh, S),
           NEW L, L \subseteq c.seq[i], NEW E, E \subseteq Seqs, NEW was, was = c.pos[i],
           d.seqPos = SeqPosInc(SeqPosDec(c.seqPos, L, was), E, p),
           \/ L = c.seq[i] /\ S = E
           \/ p = was /\ S = (c.seq[i] \ L) \cup E /\ E \cap (c.seq[i] \ L) = {}
    PROVE  CellsInv(d)
<1> DEFINE sp == SeqPosDec(c.seqPos, L, was)
<1>1. /\ c.pos \in [Cell -> Int] /\ c.seqPos \in [Seqs -> PosBags] /\ c.seq[i] \subseteq Seqs
      /\ Counted(c) /\ was \in Int /\ p \in Int
  BY DEF CellsInv, CellSets, Changed
<1>2. /\ sp \in [Seqs -> PosBags]
      /\ \A s \in Seqs : \A q \in Int :
           Copies(sp[s], q) + (IF s \in L /\ was = q THEN 1 ELSE 0) = Copies(c.seqPos[s], q)
  <2>1. L \subseteq Seqs
    BY <1>1
  <2>2. \A s \in L : Copies(c.seqPos[s], was) > 0
    BY <1>1, <2>1, HeldCounted
  <2> QED BY <1>1, <2>1, <2>2, LeaveCounted
<1> HIDE DEF sp
<1>3. /\ d.seqPos \in [Seqs -> PosBags]
      /\ \A s \in Seqs : \A q :
           Copies(d.seqPos[s], q) = IF s \in E /\ q = p THEN Copies(sp[s], q) + 1 ELSE Copies(sp[s], q)
  <2>1. d.seqPos = SeqPosInc(sp, E, p)
    BY DEF sp
  <2>0. sp \in [Seqs -> PosBags] /\ p \in Int
    BY <1>1, <1>2
  <2>2. /\ SeqPosInc(sp, E, p) \in [Seqs -> PosBags]
        /\ \A s \in Seqs : \A q :
             Copies(SeqPosInc(sp, E, p)[s], q) = IF s \in E /\ q = p THEN Copies(sp[s], q) + 1 ELSE Copies(sp[s], q)
    BY <2>0, IncIs
  <2> QED BY <2>1, <2>2
<1>4. \A s \in Seqs : \A q : Copies(c.seqPos[s], q) \in Nat /\ Copies(sp[s], q) \in Nat
  BY <1>1, <1>2, CopiesType
<1>5. ASSUME NEW s \in Seqs, NEW q \in Int
      PROVE  Copies(d.seqPos[s], q) + (IF s \in c.seq[i] /\ was = q THEN 1 ELSE 0)
                 = Copies(c.seqPos[s], q) + (IF s \in S /\ p = q THEN 1 ELSE 0)
  <2> DEFINE x == Copies(d.seqPos[s], q)
             y == Copies(sp[s], q)
             z == Copies(c.seqPos[s], q)
             T == c.seq[i]
  <2>1. x = IF s \in E /\ q = p THEN y + 1 ELSE y
    BY <1>3
  <2>2. y + (IF s \in L /\ was = q THEN 1 ELSE 0) = z
    BY <1>2
  <2>3. y \in Nat /\ z \in Nat
    BY <1>4
  <2>4. L \subseteq T /\ (\/ L = T /\ S = E
                          \/ p = was /\ S = (T \ L) \cup E /\ E \cap (T \ L) = {})
    OBVIOUS
  <2> HIDE DEF x, y, z, T
  <2>5. x + (IF s \in T /\ was = q THEN 1 ELSE 0) = z + (IF s \in S /\ p = q THEN 1 ELSE 0)
    BY <2>1, <2>2, <2>3, <2>4
  <2> QED BY <2>5 DEF x, z, T
<1> QED BY <1>3, <1>5, ChangedKeeps

LEMMA RmIs ==
    ASSUME NEW c, CellsInv(c), NEW i \in Cell, NEW d, d = Rm(c, i)
    PROVE  CellsInv(d) /\ Changed(d, c, i, -1, 0, {}) /\ d.hasShift = c.hasShift
<1>1. CellSets(c)
  BY DEF CellsInv
<1>2. Changed(d, c, i, -1, 0, {}) /\ d.hasShift = c.hasShift /\ d.seqPos = SeqPosDec(c.seqPos, c.seq[i], c.pos[i])
  BY <1>1 DEF Rm, Changed, CellSets
<1> DEFINE was == c.pos[i]
           L == c.seq[i]
<1>3. d.seqPos = SeqPosInc(SeqPosDec(c.seqPos, L, was), {}, -1)
  <2>1. L \subseteq Seqs /\ c.pos \in [Cell -> Int] /\ Counted(c) /\ was \in Int
    BY <1>1 DEF CellsInv, CellSets
  <2>2. \A s \in L : Copies(c.seqPos[s], was) > 0
    BY <2>1, HeldCounted
  <2>3. c.seqPos \in [Seqs -> PosBags]
    BY <1>1 DEF CellSets
  <2> HIDE DEF L, was
  <2>4. SeqPosDec(c.seqPos, L, was) \in [Seqs -> PosBags]
    BY <2>1, <2>2, <2>3, LeaveCounted
  <2> QED BY <1>2, <2>4, NoneEnter DEF L, was
<1>4. L \subseteq c.seq[i] /\ was = c.pos[i] /\ (L = c.seq[i] /\ {} = {})
  OBVIOUS
<1> HIDE DEF was, L
<1> QED BY <1>2, <1>3, <1>4, MethodKeeps

\* The facts about one cell that the lemmas on methods begin with.
LEMMA CellFacts ==
    ASSUME NEW c, CellsInv(c), NEW i \in Cell
    PROVE  /\ CellSets(c) /\ c.pos[i] \in Int /\ c.pos[i] >= -1 /\ c.shift[i] \in Int
           /\ c.seq[i] \subseteq Seqs /\ c.hasShift \in BOOLEAN
           /\ c.pos[i] = -1 => c.seq[i] = {}
           /\ i \in c.used <=> c.pos[i] # -1
BY DEF CellsInv, CellSets, Occupied

LEMMA AllLeave ==
    ASSUME NEW c, CellsInv(c), NEW i \in Cell, NEW L, L \subseteq c.seq[i], NEW was, was = c.pos[i]
    PROVE  SeqPosDec(c.seqPos, L, was) \in [Seqs -> PosBags]
<1>1. L \subseteq Seqs /\ c.pos \in [Cell -> Int] /\ Counted(c) /\ was \in Int
  BY DEF CellsInv, CellSets
<1>2. \A s \in L : Copies(c.seqPos[s], was) > 0
  BY <1>1, HeldCounted
<1>3. c.seqPos \in [Seqs -> PosBags]
  BY DEF CellsInv, CellSets
<1> QED BY <1>1, <1>2, <1>3, LeaveCounted

LEMMA SeqRmIs ==
    ASSUME NEW c, CellsInv(c), NEW i \in Cell, NEW s \in c.seq[i], NEW d, d = SeqRm(c, i, s)
    PROVE  /\ CellsInv(d) /\ d.hasShift = c.hasShift
           /\ IF c.seq[i] = {s} THEN Changed(d, c, i, -1, 0, {})
              ELSE Changed(d, c, i, c.pos[i], c.shift[i], c.seq[i] \ {s})
<1>1. CASE c.seq[i] = {s}
  BY <1>1, RmIs DEF SeqRm
<1>2. CASE c.seq[i] # {s}
  <2> DEFINE was == c.pos[i]
             sh == c.shift[i]
             S == c.seq[i] \ {s}
  <2>1. /\ CellSets(c) /\ was \in Int /\ was >= -1 /\ was # -1 /\ sh \in Int /\ S \subseteq Seqs
        /\ c.hasShift \in BOOLEAN /\ i \in c.used
    BY CellFacts
  <2>2. d = [c EXCEPT !.seq[i] = S, !.seqPos = SeqPosDec(c.seqPos, {s}, was)]
    BY <1>2 DEF SeqRm
  <2>3. /\ DOMAIN d = DOMAIN c /\ d.pos = c.pos /\ d.shift = c.shift /\ d.used = c.used
        /\ d.hasShift = c.hasShift
        /\ d.seq = [c.seq EXCEPT ![i] = S] /\ d.seqPos = SeqPosDec(c.seqPos, {s}, was)
    BY <2>1, <2>2 DEF CellSets
  <2>4. Changed(d, c, i, was, sh, S)
    <3>1. c.pos = [c.pos EXCEPT ![i] = was] /\ c.shift = [c.shift EXCEPT ![i] = sh] /\ c.used = c.used \cup {i}
      BY <2>1 DEF CellSets
    <3> HIDE DEF was, sh, S
    <3> QED BY <2>1, <2>3, <3>1 DEF Changed
  <2> DEFINE L == {s}
  <2>5. L \subseteq c.seq[i] /\ was = c.pos[i] /\ S = (c.seq[i] \ L) \cup {}
    OBVIOUS
  <2> HIDE DEF was, sh, S, L
  <2>6. d.seqPos = SeqPosInc(SeqPosDec(c.seqPos, L, was), {}, was)
    <3>1. SeqPosDec(c.seqPos, L, was) \in [Seqs -> PosBags]
      BY Zenon, <2>5, AllLeave
    <3> QED BY <2>3, <3>1, NoneEnter DEF L
  <2>7. CellsInv(d)
    BY <2>4, <2>5, <2>6, MethodKeeps
  <2> QED BY <1>2, <2>3, <2>4, <2>7 DEF was, sh, S
<1> QED BY <1>1, <1>2

LEMMA SeqKeepIs ==
    ASSUME NEW c, CellsInv(c), NEW i \in Cell, NEW s \in Seqs, NEW d, d = SeqKeep(c, i, s)
    PROVE  /\ CellsInv(d) /\ d.hasShift = c.hasShift
           /\ IF s \in c.seq[i] THEN Changed(d, c, i, c.pos[i], c.shift[i], {s})
              ELSE IF c.seq[i] # {} THEN Changed(d, c, i, -1, 0, {}) ELSE d = c
<1>1. CASE s \notin c.seq[i]
  BY <1>1, RmIs DEF SeqKeep
<1>2. CASE s \in c.seq[i]
  <2> DEFINE was == c.pos[i]
             sh == c.shift[i]
             S == {s}
             L == c.seq[i]
             E == {s}
  <2>1. /\ CellSets(c) /\ was \in Int /\ was >= -1 /\ was # -1 /\ sh \in Int /\ S \subseteq Seqs /\ E \subseteq Seqs
        /\ c.hasShift \in BOOLEAN /\ i \in c.used
    BY <1>2, CellFacts
  <2>2. d = [c EXCEPT !.seq[i] = S, !.seqPos = SeqPosInc(SeqPosDec(c.seqPos, L, was), E, was)]
    BY <1>2 DEF SeqKeep
  <2>3. /\ DOMAIN d = DOMAIN c /\ d.pos = c.pos /\ d.shift = c.shift /\ d.used = c.used
        /\ d.hasShift = c.hasShift
        /\ d.seq = [c.seq EXCEPT ![i] = S] /\ d.seqPos = SeqPosInc(SeqPosDec(c.seqPos, L, was), E, was)
    BY <2>1, <2>2 DEF CellSets
  <2>4. Changed(d, c, i, was, sh, S)
    <3>1. c.pos = [c.pos EXCEPT ![i] = was] /\ c.shift = [c.shift EXCEPT ![i] = sh] /\ c.used = c.used \cup {i}
      BY <2>1 DEF CellSets
    <3> HIDE DEF was, sh, S, L, E
    <3> QED BY <2>1, <2>3, <3>1 DEF Changed
  <2>5. L \subseteq c.seq[i] /\ was = c.pos[i] /\ L = c.seq[i] /\ S = E
    OBVIOUS
  <2> HIDE DEF was, sh, S, L, E
  <2>7. CellsInv(d)
    BY <2>1, <2>3, <2>4, <2>5, MethodKeeps
  <2> QED BY <1>2, <2>3, <2>4, <2>7 DEF was, sh, S
<1> QED BY <1>1, <1>2

LEMMA SeqAddIs ==
    ASSUME NEW c, CellsInv(c), NEW i \in Cell, c.pos[i] # -1, NEW s \in Seqs, s \notin c.seq[i],
           NEW d, d = SeqAdd(c, i, s)
    PROVE  CellsInv(d) /\ d.hasShift = c.hasShift /\ Changed(d, c, i, c.pos[i], c.shift[i], c.seq[i] \cup {s})
<1> DEFINE was == c.pos[i]
           sh == c.shift[i]
           S == c.seq[i] \cup {s}
           E == {s}
<1>1. /\ CellSets(c) /\ was \in Int /\ was >= -1 /\ was # -1 /\ sh \in Int /\ S \subseteq Seqs
      /\ c.hasShift \in BOOLEAN /\ i \in c.used
  BY CellFacts
<1>2. d = [c EXCEPT !.seq[i] = S, !.seqPos = SeqPosInc(c.seqPos, E, was)]
  BY DEF SeqAdd
<1>3. /\ DOMAIN d = DOMAIN c /\ d.pos = c.pos /\ d.shift = c.shift /\ d.used = c.used
      /\ d.hasShift = c.hasShift
      /\ d.seq = [c.seq EXCEPT ![i] = S] /\ d.seqPos = SeqPosInc(c.seqPos, E, was)
  BY <1>1, <1>2 DEF CellSets
<1>4. Changed(d, c, i, was, sh, S)
  <2>1. c.pos = [c.pos EXCEPT ![i] = was] /\ c.shift = [c.shift EXCEPT ![i] = sh] /\ c.used = c.used \cup {i}
    BY <1>1 DEF CellSets
  <2> HIDE DEF was, sh, S, E
  <2> QED BY <1>1, <1>3, <2>1 DEF Changed
<1>5. was = c.pos[i] /\ S = (c.seq[i] \ {}) \cup E /\ E \cap (c.seq[i] \ {}) = {} /\ E \subseteq Seqs
  OBVIOUS
<1> HIDE DEF was, sh, S, E
<1>6. d.seqPos = SeqPosInc(SeqPosDec(c.seqPos, {}, was), E, was)
  <2>1. SeqPosDec(c.seqPos, {}, was) = c.seqPos
    BY <1>1, NoneLeave DEF CellSets
  <2> QED BY <1>3, <2>1
<1>7. CellsInv(d)
  <2>1. {} \subseteq c.seq[i]
    OBVIOUS
  <2> QED BY <1>4, <1>5, <1>6, <2>1, MethodKeeps
<1> QED BY <1>3, <1>4, <1>7 DEF was, sh, S

LEMMA PosSetIs ==
    ASSUME NEW c, CellsInv(c), NEW i \in Cell, c.pos[i] = -1, NEW p \in Nat, NEW d, d = PosSet(c, i, p)
    PROVE  CellsInv(d) /\ d.hasShift = c.hasShift /\ Changed(d, c, i, p, c.shift[i], {})
<1> DEFINE was == c.pos[i]
           sh == c.shift[i]
           L == c.seq[i]
<1>1. CellSets(c) /\ sh \in Int /\ c.hasShift \in BOOLEAN /\ L = {} /\ was = -1
  BY CellFacts
<1>2. /\ DOMAIN d = DOMAIN c /\ d.pos = [c.pos EXCEPT ![i] = p] /\ d.shift = c.shift
      /\ d.used = c.used \cup {i} /\ d.hasShift = c.hasShift
      /\ d.seq = c.seq /\ d.seqPos = c.seqPos
  BY <1>1 DEF PosSet, CellSets
<1>3. Changed(d, c, i, p, sh, {})
  <2>1. c.seq = [c.seq EXCEPT ![i] = {}] /\ c.shift = [c.shift EXCEPT ![i] = sh] /\ p # -1 /\ p >= -1 /\ p \in Int
    BY <1>1 DEF CellSets
  <2> HIDE DEF was, sh, L
  <2> QED BY <1>1, <1>2, <2>1 DEF Changed
<1>4. L \subseteq c.seq[i] /\ L = c.seq[i] /\ was = c.pos[i]
  OBVIOUS
<1> HIDE DEF was, sh, L
<1>5. d.seqPos = SeqPosInc(SeqPosDec(c.seqPos, L, was), {}, p)
  <2>1. c.seqPos \in [Seqs -> PosBags]
    BY <1>1 DEF CellSets
  <2> QED BY <1>1, <1>2, <2>1, NoneLeave, NoneEnter
<1>6. CellsInv(d)
  BY <1>3, <1>4, <1>5, MethodKeeps
<1> QED BY <1>2, <1>3, <1>6 DEF sh

\* The shifts are no part of what the indexes are about.
LEMMA SameCells ==
    ASSUME NEW c, CellsInv(c), NEW d, DOMAIN d = DOMAIN c, d.pos = c.pos, d.seq = c.seq, d.used = c.used,
           d.seqPos = c.seqPos, d.shift \in [Cell -> Int], d.hasShift \in BOOLEAN
    PROVE  CellsInv(d)
<1>1. CellSets(d)
  BY DEF CellsInv, CellSets
<1>2. Occupied(d)
  BY DEF CellsInv, Occupied
<1>3. \A s, q : At(d, s, q) = At(c, s, q)
  BY DEF At
<1>4. Counted(d)
  BY <1>3 DEF CellsInv, Counted
<1> QED BY <1>1, <1>2, <1>4 DEF CellsInv

\* A token moves to position p, with all its sequences.
LEMMA MoveKeeps ==
    ASSUME NEW c, CellsInv(c), NEW i \in Cell, NEW p, NEW sh, NEW d, NEW was, was = c.pos[i],
           NEW L, L = c.seq[i], Changed(d, c, i, p, sh, L),
           d.seqPos = SeqPosInc(SeqPosDec(c.seqPos, L, was), L, p)
    PROVE  CellsInv(d)
<1>1. L \subseteq Seqs
  BY CellFacts
<1> QED BY <1>1, MethodKeeps

LEMMA PosAddIs ==
    ASSUME NEW c, CellsInv(c), NEW i \in Cell, c.pos[i] # -1, NEW x \in Int, NEW d, d = PosAdd(c, i, x)
    PROVE  /\ CellsInv(d) /\ d.hasShift = TRUE
           /\ IF c.pos[i] + x < 0 THEN Changed(d, c, i, -1, 0, {})
              ELSE Changed(d, c, i, c.pos[i] + x, c.shift[i] + x, c.seq[i])
<1> DEFINE p == c.pos[i] + x
           sh == c.shift[i] + x
           was == c.pos[i]
           L == c.seq[i]
<1>1. CellSets(c) /\ p \in Int /\ sh \in Int
  BY CellFacts
<1>2. CASE p < 0
  <2> DEFINE e == Rm(c, i)
  <2>1. d = [e EXCEPT !.hasShift = TRUE]
    BY <1>2 DEF PosAdd
  <2>2. CellsInv(e) /\ Changed(e, c, i, -1, 0, {})
    BY RmIs
  <2> HIDE DEF e, p, sh
  <2>3. /\ DOMAIN d = DOMAIN e /\ d.pos = e.pos /\ d.shift = e.shift /\ d.seq = e.seq /\ d.used = e.used
        /\ d.seqPos = e.seqPos /\ d.hasShift = TRUE
    BY <2>1, <2>2 DEF CellsInv, CellSets
  <2>4. CellsInv(d)
    <3>1. e.shift \in [Cell -> Int] /\ TRUE \in BOOLEAN
      BY <2>2 DEF CellsInv, CellSets
    <3> QED BY Zenon, <2>2, <2>3, <3>1, SameCells
  <2>5. Changed(d, c, i, -1, 0, {})
    BY Zenon, <2>2, <2>3 DEF Changed
  <2> QED BY <1>2, <2>3, <2>4, <2>5 DEF p
<1>3. CASE ~(p < 0)
  <2>0. d = [c EXCEPT !.pos[i] = p, !.shift[i] = sh, !.hasShift = TRUE,
                      !.seqPos = SeqPosInc(SeqPosDec(c.seqPos, c.seq[i], c.pos[i]), c.seq[i], p)]
    BY <1>3 DEF PosAdd
  <2>1. /\ DOMAIN d = DOMAIN c /\ d.pos = [c.pos EXCEPT ![i] = p] /\ d.shift = [c.shift EXCEPT ![i] = sh]
        /\ d.used = c.used /\ d.hasShift = TRUE /\ d.seq = c.seq
        /\ d.seqPos = SeqPosInc(SeqPosDec(c.seqPos, L, was), L, p)
    BY <1>1, <2>0 DEF CellSets
  <2>2. p >= -1 /\ p # -1
    BY <1>1, <1>3
  <2>3. was = c.pos[i] /\ L = c.seq[i] /\ L \subseteq Seqs /\ i \in c.used
    BY CellFacts
  <2> HIDE DEF p, sh, was, L
  <2>4. c.seq = [c.seq EXCEPT ![i] = L] /\ c.used = c.used \cup {i}
    BY <1>1, <2>3 DEF CellSets
  <2>5. Changed(d, c, i, p, sh, L)
    BY Zenon, <1>1, <2>1, <2>2, <2>3, <2>4 DEF Changed
  <2>6. CellsInv(d)
    BY <2>1, <2>3, <2>5, MoveKeeps
  <2> QED BY <1>3, <2>1, <2>5, <2>6 DEF p, sh, L
<1> QED BY Zenon, <1>2, <1>3

LEMMA PosDivIs ==
    ASSUME NEW c, CellsInv(c), NEW i \in Cell, c.pos[i] # -1, NEW x \in Nat \ {0}, NEW d, d = PosDiv(c, i, x)
    PROVE  CellsInv(d) /\ d.hasShift = TRUE /\ \E p \in Nat, sh \in Int : Changed(d, c, i, p, sh, c.seq[i])
<1> DEFINE was == c.pos[i]
           p == was \div x
           sh == c.shift[i] + (was - p)
           L == c.seq[i]
<1>1. was \in Nat /\ c.shift[i] \in Int
  BY CellFacts
<1>2. p \in Nat
  <2> HIDE DEF was
  <2> QED BY <1>1
<1>3. sh \in Int
  <2> HIDE DEF p, was
  <2> QED BY <1>1, <1>2
<1>4. /\ DOMAIN d = DOMAIN c /\ d.pos = [c.pos EXCEPT ![i] = p] /\ d.shift = [c.shift EXCEPT ![i] = sh]
      /\ d.used = c.used /\ d.hasShift = TRUE /\ d.seq = c.seq
      /\ d.seqPos = SeqPosInc(SeqPosDec(c.seqPos, L, was), L, p)
  BY DEF PosDiv, CellsInv, CellSets
<1>5. was = c.pos[i] /\ L = c.seq[i] /\ L \subseteq Seqs /\ i \in c.used /\ CellSets(c)
  BY CellFacts
<1> HIDE DEF was, p, sh, L
<1>6. c.seq = [c.seq EXCEPT ![i] = L] /\ c.used = c.used \cup {i} /\ p >= -1 /\ p # -1 /\ p \in Int
  BY <1>2, <1>5 DEF CellSets
<1>7. Changed(d, c, i, p, sh, L)
  BY Zenon, <1>3, <1>4, <1>5, <1>6 DEF Changed
<1>8. CellsInv(d)
  BY <1>4, <1>5, <1>7, MoveKeeps
<1> QED BY <1>2, <1>3, <1>4, <1>7, <1>8 DEF L

\* A cell that is put back: old is only what the cells held once.
LEMMA SetCellIs ==
    ASSUME NEW c, CellsInv(c), NEW i \in Cell, NEW old, CellSets(old), Occupied(old), NEW d, d = SetCell(c, i, old)
    PROVE  CellsInv(d) /\ d.hasShift = c.hasShift /\ Changed(d, c, i, old.pos[i], c.shift[i], old.seq[i])
<1> DEFINE was == c.pos[i]
           L == c.seq[i]
           p == old.pos[i]
           sh == c.shift[i]
           S == old.seq[i]
<1>1. /\ CellSets(c) /\ was \in Int /\ L \subseteq Seqs /\ sh \in Int /\ c.hasShift \in BOOLEAN
      /\ p \in Int /\ p >= -1 /\ S \subseteq Seqs /\ (p = -1 => S = {})
  BY CellFacts DEF CellSets, Occupied
<1>2. /\ DOMAIN d = DOMAIN c /\ d.pos = [c.pos EXCEPT ![i] = p] /\ d.shift = c.shift
      /\ d.used = (IF p = -1 THEN c.used \ {i} ELSE c.used \cup {i}) /\ d.hasShift = c.hasShift
      /\ d.seq = [c.seq EXCEPT ![i] = S] /\ d.seqPos = SeqPosInc(SeqPosDec(c.seqPos, L, was), S, p)
  BY <1>1 DEF CellSets, SetCell, IsEmpty
<1>3. Changed(d, c, i, p, sh, S)
  <2>1. c.shift = [c.shift EXCEPT ![i] = sh]
    BY <1>1 DEF CellSets
  <2> HIDE DEF was, L, p, sh, S
  <2> QED BY <1>1, <1>2, <2>1 DEF Changed
<1>4. L \subseteq c.seq[i] /\ L = c.seq[i] /\ was = c.pos[i]
  OBVIOUS
<1> HIDE DEF was, L, p, sh, S
<1>5. CellsInv(d)
  <2> DEFINE E == S
  <2>1. E \subseteq Seqs /\ d.seqPos = SeqPosInc(SeqPosDec(c.seqPos, L, was), E, p) /\ S = E
    BY <1>1, <1>2
  <2> HIDE DEF E
  <2> QED BY <1>3, <1>4, <2>1, MethodKeeps
<1> QED BY <1>2, <1>3, <1>5 DEF p, sh, S

LEMMA ResetIs == CellsInv(Reset)
<1> DEFINE c == Reset
<1>1. /\ DOMAIN c = {"pos", "shift", "seq", "hasShift", "used", "seqPos"}
      /\ c.pos = [i \in Cell |-> -1] /\ c.shift = [i \in Cell |-> 0]
      /\ c.seq = [i \in Cell |-> {}] /\ c.hasShift = FALSE /\ c.used = {}
      /\ c.seqPos = [s \in Seqs |-> EmptyBag]
  BY DEF Reset
<1> HIDE DEF c
<1>2. DOMAIN EmptyBag = {}
  BY DEF EmptyBag, SetToBag
<1>3. EmptyBag \in PosBags
  <2>1. EmptyBag \in [DOMAIN EmptyBag -> Nat \ {0}]
    BY DEF EmptyBag, SetToBag
  <2> QED BY Zenon, <1>2, <2>1, BagIs
<1>4. CellSets(c)
  <2>1. c.pos \in [Cell -> Int] /\ c.shift \in [Cell -> Int] /\ c.seq \in [Cell -> SUBSET Seqs]
    BY <1>1
  <2>3. c.hasShift \in BOOLEAN
    BY <1>1, Zenon
  <2>4. c.used \subseteq Cell
    BY <1>1
  <2>2. c.seqPos \in [Seqs -> PosBags]
    BY <1>1, <1>3
  <2> QED BY <1>1, <2>1, <2>2, <2>3, <2>4 DEF CellSets
<1>5. Occupied(c)
  BY <1>1 DEF Occupied
<1>6. Counted(c)
  <2> SUFFICES ASSUME NEW s \in Seqs, NEW q \in Int PROVE Copies(c.seqPos[s], q) = Cardinality(At(c, s, q))
    BY DEF Counted
  <2>1. At(c, s, q) = {}
    BY <1>1 DEF At
  <2>2. Copies(c.seqPos[s], q) = 0
    BY <1>1, <1>2 DEF Copies
  <2> QED BY <2>1, <2>2, FS_EmptySet
<1> QED BY <1>4, <1>5, <1>6 DEF CellsInv, c

LEMMA ResetShiftIs ==
    ASSUME NEW c, CellsInv(c), NEW d, d = ResetShift(c)
    PROVE  /\ CellsInv(d) /\ DOMAIN d = DOMAIN c /\ d.pos = c.pos /\ d.seq = c.seq /\ d.used = c.used
           /\ d.seqPos = c.seqPos /\ d.hasShift = FALSE /\ d.shift = [i \in Cell |-> 0]
<1>1. /\ DOMAIN d = DOMAIN c /\ d.pos = c.pos /\ d.seq = c.seq /\ d.used = c.used
      /\ d.seqPos = c.seqPos /\ d.hasShift = FALSE /\ d.shift = [i \in Cell |-> 0]
  BY DEF CellsInv, CellSets, ResetShift
<1>2. CellsInv(d)
  <2>1. d.hasShift \in BOOLEAN
    BY <1>1, Zenon
  <2>2. d.shift \in [Cell -> Int]
    BY <1>1
  <2> QED BY <1>1, <2>1, <2>2, SameCells
<1> QED BY <1>1, <1>2

\* The token of one cell moves to an empty one: as many are counted.
LEMMA MvIs ==
    ASSUME NEW c, CellsInv(c), NEW i \in Cell, c.pos[i] # -1, NEW j \in Cell, c.pos[j] = -1,
           NEW d, d = Mv(c, i, j)
    PROVE  /\ CellsInv(d) /\ d.hasShift = c.hasShift
           /\ d.pos = [c.pos EXCEPT ![j] = c.pos[i], ![i] = -1]
           /\ d.shift = [c.shift EXCEPT ![j] = c.shift[i], ![i] = 0]
           /\ d.used = (c.used \ {i}) \cup {j}
<1> DEFINE p == c.pos[i]
           sh == c.shift[i]
           S == c.seq[i]
<1>1. /\ CellSets(c) /\ p \in Int /\ p >= -1 /\ p # -1 /\ sh \in Int /\ S \subseteq Seqs
      /\ c.hasShift \in BOOLEAN /\ i \in c.used /\ j \notin c.used /\ i # j /\ c.seq[j] = {}
  BY CellFacts
<1>2. /\ DOMAIN d = DOMAIN c /\ d.hasShift = c.hasShift /\ d.seqPos = c.seqPos
      /\ d.pos = [c.pos EXCEPT ![j] = p, ![i] = -1]
      /\ d.shift = [c.shift EXCEPT ![j] = sh, ![i] = 0]
      /\ d.seq = [c.seq EXCEPT ![j] = S, ![i] = {}]
      /\ d.used = (c.used \ {i}) \cup {j}
  BY <1>1 DEF CellSets, Mv
<1> HIDE DEF p, sh, S
<1>3. /\ c.pos \in [Cell -> Int] /\ c.shift \in [Cell -> Int] /\ c.seq \in [Cell -> SUBSET Seqs]
      /\ c.used \subseteq Cell
  BY <1>1 DEF CellSets
<1>4. /\ \A k \in Cell : d.pos[k] = IF k = i THEN -1 ELSE IF k = j THEN p ELSE c.pos[k]
      /\ \A k \in Cell : d.seq[k] = IF k = i THEN {} ELSE IF k = j THEN S ELSE c.seq[k]
  BY <1>1, <1>2, <1>3
<1>5. CellSets(d)
  <2>1. /\ d.pos \in [Cell -> Int] /\ d.shift \in [Cell -> Int] /\ d.seq \in [Cell -> SUBSET Seqs]
        /\ d.used \subseteq Cell
    BY <1>1, <1>2, <1>3
  <2> QED BY <1>1, <1>2, <2>1 DEF CellSets
<1>6. Occupied(d)
  <2>1. /\ \A k \in Cell : c.pos[k] >= -1 /\ (c.pos[k] = -1 => c.seq[k] = {})
        /\ c.used = {k \in Cell : c.pos[k] # -1}
    BY DEF CellsInv, Occupied
  <2>2. \A k \in Cell : d.pos[k] >= -1 /\ (d.pos[k] = -1 => d.seq[k] = {})
    BY <1>1, <1>4, <2>1
  <2>3. \A k : k \in d.used <=> k \in Cell /\ d.pos[k] # -1
    BY <1>1, <1>2, <1>4, <2>1
  <2>4. d.used = {k \in Cell : d.pos[k] # -1}
    BY <2>3
  <2> QED BY <2>2, <2>4 DEF Occupied
<1>7. Counted(d)
  <2> SUFFICES ASSUME NEW s \in Seqs, NEW q \in Int PROVE Copies(d.seqPos[s], q) = Cardinality(At(d, s, q))
    BY DEF Counted
  <2> DEFINE A == At(c, s, q)
             B == At(d, s, q)
  <2>1. Copies(d.seqPos[s], q) = Cardinality(A)
    BY <1>2 DEF CellsInv, Counted
  <2>2. A \subseteq Cell /\ B \subseteq Cell /\ IsFiniteSet(A) /\ Cardinality(A) \in Nat
    BY AtType
  <2>3. j \notin A /\ i \notin B /\ (i \in A <=> j \in B) /\ \A k \in Cell \ {i, j} : k \in A <=> k \in B
    BY <1>1, <1>4 DEF At, p, S
  <2> HIDE DEF A, B
  <2>4. CASE i \notin A
    <3>1. \A k : k \in A <=> k \in B
      BY <2>2, <2>3, <2>4
    <3>2. A = B
      BY Zenon, <3>1
    <3> QED BY <2>1, <3>2 DEF B
  <2>5. CASE i \in A
    <3>1. \A k : k \in B <=> k \in (A \ {i}) \cup {j}
      BY <2>2, <2>3, <2>5
    <3>2. B = (A \ {i}) \cup {j}
      BY <3>1
    <3>3. IsFiniteSet(A \ {i}) /\ Cardinality(A \ {i}) = Cardinality(A) - 1
      BY <2>2, <2>5, FS_RemoveElement
    <3>4. j \notin A \ {i}
      BY <2>3
    <3>5. Cardinality(B) = Cardinality(A \ {i}) + 1
      BY Zenon, <3>2, <3>3, <3>4, FS_AddElement
    <3>6. Cardinality(B) = Cardinality(A)
      BY <2>2, <3>3, <3>5
    <3> QED BY <2>1, <3>6 DEF B
  <2> QED BY <2>4, <2>5
<1> QED BY <1>2, <1>5, <1>6, <1>7 DEF CellsInv, p, sh

-----------------------------------------------------------------------------
(* What several steps on the cells leave *)

LEMMA ChangedCells ==
    ASSUME NEW c, CellsInv(c), NEW i \in Cell, NEW p, NEW sh, NEW S, NEW d, Changed(d, c, i, p, sh, S)
    PROVE  /\ \A j \in Cell : d.pos[j] = IF j = i THEN p ELSE c.pos[j]
           /\ \A j \in Cell : d.shift[j] = IF j = i THEN sh ELSE c.shift[j]
           /\ \A j \in Cell : d.seq[j] = IF j = i THEN S ELSE c.seq[j]
BY DEF Changed, CellsInv, CellSets

\* Fewer sequences, but not none.
Fewer(S, R) == S \subseteq R /\ (R # {} => S # {})

\* Each cell keeps its token or loses it.
Loses(d, c) ==
    \A j \in Cell : \/ d.pos[j] = c.pos[j] /\ d.shift[j] = c.shift[j] /\ Fewer(d.seq[j], c.seq[j])
                    \/ d.pos[j] = -1 /\ d.shift[j] = 0

Shrinks(d, c) == CellsInv(d) /\ d.hasShift = c.hasShift /\ Loses(d, c)

\* The cells that are not in T are as they were.
Untouched(d, c, T) ==
    \A j \in Cell \ T : d.pos[j] = c.pos[j] /\ d.shift[j] = c.shift[j] /\ d.seq[j] = c.seq[j]

LEMMA ShrinksRefl == ASSUME NEW c, CellsInv(c) PROVE Shrinks(c, c)
BY DEF Shrinks, Loses, Fewer

LEMMA ShrinksTrans == ASSUME NEW c, NEW d, NEW e, Shrinks(d, c), Shrinks(e, d) PROVE Shrinks(e, c)
<1>1. \A R, S, T : Fewer(S, R) /\ Fewer(T, S) => Fewer(T, R)
  BY DEF Fewer
<1> QED BY <1>1 DEF Shrinks, Loses

LEMMA ChangedShrinks ==
    ASSUME NEW c, CellsInv(c), NEW i \in Cell, NEW p, NEW sh, NEW S, NEW d, Changed(d, c, i, p, sh, S),
           CellsInv(d), d.hasShift = c.hasShift,
           (p = -1 /\ sh = 0) \/ (p = c.pos[i] /\ sh = c.shift[i] /\ Fewer(S, c.seq[i]))
    PROVE  Shrinks(d, c) /\ Untouched(d, c, {i})
<1>1. \A S0 : Fewer(S0, S0)
  BY DEF Fewer
<1> QED BY <1>1, ChangedCells DEF Shrinks, Loses, Untouched

LEMMA GoneShrinks ==
    ASSUME NEW c, CellsInv(c), NEW i \in Cell, NEW d, Changed(d, c, i, -1, 0, {}),
           CellsInv(d), d.hasShift = c.hasShift
    PROVE  Shrinks(d, c) /\ Untouched(d, c, {i})
<1> DEFINE p == -1
           sh == 0
           S == {}
<1>1. Changed(d, c, i, p, sh, S) /\ p = -1 /\ sh = 0
  OBVIOUS
<1> HIDE DEF p, sh, S
<1>2. (p = -1 /\ sh = 0) \/ (p = c.pos[i] /\ sh = c.shift[i] /\ Fewer(S, c.seq[i]))
  BY <1>1, Zenon
<1> QED BY <1>1, <1>2, ChangedShrinks, Zenon

LEMMA RmShrinks ==
    ASSUME NEW c, CellsInv(c), NEW i \in Cell
    PROVE  Shrinks(Rm(c, i), c) /\ Untouched(Rm(c, i), c, {i}) /\ Rm(c, i).pos[i] = -1
<1> DEFINE d == Rm(c, i)
<1>1. CellsInv(d) /\ Changed(d, c, i, -1, 0, {}) /\ d.hasShift = c.hasShift
  BY RmIs
<1> HIDE DEF d
<1>2. Shrinks(d, c) /\ Untouched(d, c, {i})
  BY <1>1, GoneShrinks
<1>3. d.pos[i] = -1
  BY <1>1, ChangedCells
<1> QED BY <1>2, <1>3 DEF d

LEMMA SeqRmShrinks ==
    ASSUME NEW c, CellsInv(c), NEW i \in Cell, NEW s \in c.seq[i]
    PROVE  Shrinks(SeqRm(c, i, s), c) /\ Untouched(SeqRm(c, i, s), c, {i}) /\ s \notin SeqRm(c, i, s).seq[i]
<1> DEFINE d == SeqRm(c, i, s)
<1>1. /\ CellsInv(d) /\ d.hasShift = c.hasShift
      /\ IF c.seq[i] = {s} THEN Changed(d, c, i, -1, 0, {})
         ELSE Changed(d, c, i, c.pos[i], c.shift[i], c.seq[i] \ {s})
  BY Zenon, SeqRmIs
<1> HIDE DEF d
<1>2. CASE c.seq[i] = {s}
  <2>1. Shrinks(d, c) /\ Untouched(d, c, {i})
    BY <1>1, <1>2, GoneShrinks
  <2>2. d.seq[i] = {}
    BY <1>1, <1>2, ChangedCells
  <2> QED BY <2>1, <2>2 DEF d
<1>3. CASE c.seq[i] # {s}
  <2> DEFINE p == c.pos[i]
             sh == c.shift[i]
             S == c.seq[i] \ {s}
  <2>1. Changed(d, c, i, p, sh, S) /\ p = c.pos[i] /\ sh = c.shift[i] /\ s \notin S
    BY <1>1, <1>3
  <2>2. Fewer(S, c.seq[i])
    BY <1>3 DEF Fewer
  <2> HIDE DEF p, sh, S
  <2>3. Shrinks(d, c) /\ Untouched(d, c, {i})
    BY <1>1, <2>1, <2>2, ChangedShrinks
  <2>4. d.seq[i] = S
    BY <2>1, ChangedCells
  <2> QED BY <2>1, <2>3, <2>4 DEF d
<1> QED BY <1>2, <1>3

LEMMA SeqKeepShrinks ==
    ASSUME NEW c, CellsInv(c), NEW i \in Cell, NEW s \in Seqs
    PROVE  Shrinks(SeqKeep(c, i, s), c) /\ Untouched(SeqKeep(c, i, s), c, {i})
<1> DEFINE d == SeqKeep(c, i, s)
<1>1. /\ CellsInv(d) /\ d.hasShift = c.hasShift
      /\ IF s \in c.seq[i] THEN Changed(d, c, i, c.pos[i], c.shift[i], {s})
         ELSE IF c.seq[i] # {} THEN Changed(d, c, i, -1, 0, {}) ELSE d = c
  BY SeqKeepIs
<1> HIDE DEF d
<1>2. CASE s \notin c.seq[i] /\ c.seq[i] # {}
  BY <1>1, <1>2, GoneShrinks DEF d
<1>3. CASE s \in c.seq[i]
  <2> DEFINE p == c.pos[i]
             sh == c.shift[i]
             S == {s}
  <2>1. Changed(d, c, i, p, sh, S) /\ p = c.pos[i] /\ sh = c.shift[i]
    BY <1>1, <1>3
  <2>2. Fewer(S, c.seq[i])
    BY <1>3 DEF Fewer
  <2> HIDE DEF p, sh, S
  <2> QED BY <1>1, <2>1, <2>2, ChangedShrinks DEF d
<1>4. CASE s \notin c.seq[i] /\ c.seq[i] = {}
  <2>1. d = c
    BY <1>1, <1>4
  <2>2. Shrinks(c, c) /\ Untouched(c, c, {i})
    BY ShrinksRefl DEF Untouched
  <2> QED BY <2>1, <2>2 DEF d
<1> QED BY <1>2, <1>3, <1>4

LEMMA CellFinite == ASSUME NEW I, I \subseteq Cell PROVE IsFiniteSet(I)
<1>1. IsFiniteSet(Cell)
  BY CellsAssumption, FS_Interval DEF Cell
<1> QED BY <1>1, FS_Subset

LEMMA CellCount == IsFiniteSet(Cell) /\ Cardinality(Cell) = NCells
<1>1. 0 \in Int /\ NCells - 1 \in Int /\ 0 <= NCells - 1 /\ (NCells - 1) - 0 + 1 = NCells
  BY CellsAssumption
<1> QED BY <1>1, FS_Interval DEF Cell

\* The element of a set that FoldSet folds last.
SomeOf(S) == CHOOSE x \in S : TRUE

LEMMA SomeIn == ASSUME NEW S, S # {} PROVE SomeOf(S) \in S
BY DEF SomeOf

RmStep(i, acc, a, b, d) == Rm(acc, i)
RmLeaves(acc, T, c, b, d) == Shrinks(acc, c) /\ Untouched(acc, c, T) /\ \A j \in T : acc.pos[j] = -1
RmFold == INSTANCE Folding WITH Step <- RmStep, Keeps <- RmLeaves, Pick <- SomeOf

LEMMA RmEach ==
    ASSUME NEW c, CellsInv(c), NEW I, I \subseteq Cell
    PROVE  RmLeaves(Each(Rm, c, I), I, c, 0, 0)
<1>1. Each(Rm, c, I) = RmFold!Folded(c, I, c, 0, 0)
  BY DEF Each, FoldSet, MapThenFoldSet, RmFold!Folded, RmStep, SomeOf
<1>2. IsFiniteSet(I)
  BY CellFinite
<1>3. \A T \in SUBSET I : T # {} => SomeOf(T) \in T
  BY SomeIn
<1>4. RmLeaves(c, {}, c, 0, 0)
  BY ShrinksRefl DEF RmLeaves, Untouched
<1>5. ASSUME NEW T \in SUBSET I, T # {}, NEW acc, RmLeaves(acc, T \ {SomeOf(T)}, c, 0, 0)
      PROVE  RmLeaves(RmStep(SomeOf(T), acc, c, 0, 0), T, c, 0, 0)
  <2> DEFINE i == SomeOf(T)
  <2>1. i \in T /\ i \in Cell
    BY <1>5, SomeIn
  <2> HIDE DEF i
  <2>2. CellsInv(acc) /\ Shrinks(acc, c) /\ Untouched(acc, c, T \ {i}) /\ \A j \in T \ {i} : acc.pos[j] = -1
    BY <1>5 DEF RmLeaves, Shrinks, i
  <2>3. Shrinks(Rm(acc, i), acc) /\ Untouched(Rm(acc, i), acc, {i}) /\ Rm(acc, i).pos[i] = -1
    BY <2>1, <2>2, RmShrinks
  <2>4. Shrinks(Rm(acc, i), c)
    BY <2>2, <2>3, ShrinksTrans
  <2>5. Untouched(Rm(acc, i), c, T)
    BY <2>1, <2>2, <2>3 DEF Untouched
  <2>6. \A j \in T : Rm(acc, i).pos[j] = -1
    BY <2>1, <2>2, <2>3 DEF Untouched
  <2> QED BY <2>4, <2>5, <2>6 DEF RmLeaves, RmStep, i
<1>6. RmLeaves(RmFold!Folded(c, I, c, 0, 0), I, c, 0, 0)
  <2>1. \A T \in SUBSET I : T # {} => \A acc :
          RmLeaves(acc, T \ {SomeOf(T)}, c, 0, 0) => RmLeaves(RmStep(SomeOf(T), acc, c, 0, 0), T, c, 0, 0)
    BY <1>5
  <2>2. RmFold!IsFiniteSet(I)
    BY <1>2 DEF IsFiniteSet, RmFold!IsFiniteSet
  <2>3. RmFold!Inductive(c, I, c, 0, 0)
    BY <1>3, <1>4, <2>1, <2>2 DEF RmFold!Inductive
  <2> QED BY <2>3, RmFold!FoldKeeps
<1> QED BY <1>1, <1>6

SeqRmStep(i, acc, c, s, d) == SeqRm(acc, i, s)
SeqRmLeaves(acc, T, c, s, d) == Shrinks(acc, c) /\ Untouched(acc, c, T) /\ \A i \in T : s \notin acc.seq[i]
SeqRmFold == INSTANCE Folding WITH Step <- SeqRmStep, Keeps <- SeqRmLeaves, Pick <- SomeOf

LEMMA SeqRmEach ==
    ASSUME NEW c, CellsInv(c), NEW s \in Seqs, NEW I, I \subseteq Cell, \A i \in I : s \in c.seq[i]
    PROVE  SeqRmLeaves(Each(LAMBDA acc, i : SeqRm(acc, i, s), c, I), I, c, s, 0)
<1>1. Each(LAMBDA acc, i : SeqRm(acc, i, s), c, I) = SeqRmFold!Folded(c, I, c, s, 0)
  BY DEF Each, FoldSet, MapThenFoldSet, SeqRmFold!Folded, SeqRmStep, SomeOf
<1>2. IsFiniteSet(I)
  BY CellFinite
<1>3. \A T \in SUBSET I : T # {} => SomeOf(T) \in T
  BY SomeIn
<1>4. SeqRmLeaves(c, {}, c, s, 0)
  BY ShrinksRefl DEF SeqRmLeaves, Untouched
<1>5. ASSUME NEW T \in SUBSET I, T # {}, NEW acc, SeqRmLeaves(acc, T \ {SomeOf(T)}, c, s, 0)
      PROVE  SeqRmLeaves(SeqRmStep(SomeOf(T), acc, c, s, 0), T, c, s, 0)
  <2> DEFINE i == SomeOf(T)
  <2>1. i \in T /\ i \in Cell /\ s \in c.seq[i]
    BY <1>5, SomeIn
  <2> HIDE DEF i
  <2>2. CellsInv(acc) /\ Shrinks(acc, c) /\ Untouched(acc, c, T \ {i}) /\ \A j \in T \ {i} : s \notin acc.seq[j]
    BY <1>5 DEF SeqRmLeaves, Shrinks, i
  <2>3. s \in acc.seq[i]
    BY <2>1, <2>2 DEF Untouched
  <2>4. Shrinks(SeqRm(acc, i, s), acc) /\ Untouched(SeqRm(acc, i, s), acc, {i}) /\ s \notin SeqRm(acc, i, s).seq[i]
    BY <2>1, <2>2, <2>3, SeqRmShrinks
  <2>5. Shrinks(SeqRm(acc, i, s), c)
    BY <2>2, <2>4, ShrinksTrans
  <2>6. Untouched(SeqRm(acc, i, s), c, T)
    BY <2>1, <2>2, <2>4 DEF Untouched
  <2>7. \A j \in T : s \notin SeqRm(acc, i, s).seq[j]
    BY <2>1, <2>2, <2>4 DEF Untouched
  <2> QED BY <2>5, <2>6, <2>7 DEF SeqRmLeaves, SeqRmStep, i
<1>6. SeqRmLeaves(SeqRmFold!Folded(c, I, c, s, 0), I, c, s, 0)
  <2>1. \A T \in SUBSET I : T # {} => \A acc :
          SeqRmLeaves(acc, T \ {SomeOf(T)}, c, s, 0) => SeqRmLeaves(SeqRmStep(SomeOf(T), acc, c, s, 0), T, c, s, 0)
    BY <1>5
  <2>2. SeqRmFold!IsFiniteSet(I)
    BY <1>2 DEF IsFiniteSet, SeqRmFold!IsFiniteSet
  <2>3. SeqRmFold!Inductive(c, I, c, s, 0)
    BY <1>3, <1>4, <2>1, <2>2 DEF SeqRmFold!Inductive
  <2> QED BY <2>3, SeqRmFold!FoldKeeps
<1> QED BY Zenon, <1>1, <1>6

SeqKeepStep(i, acc, c, s, d) == SeqKeep(acc, i, s)
SeqKeepLeaves(acc, T, c, s, d) == Shrinks(acc, c) /\ Untouched(acc, c, T)
SeqKeepFold == INSTANCE Folding WITH Step <- SeqKeepStep, Keeps <- SeqKeepLeaves, Pick <- SomeOf

LEMMA SeqKeepEach ==
    ASSUME NEW c, CellsInv(c), NEW s \in Seqs, NEW I, I \subseteq Cell
    PROVE  Shrinks(Each(LAMBDA acc, i : SeqKeep(acc, i, s), c, I), c)
<1>1. Each(LAMBDA acc, i : SeqKeep(acc, i, s), c, I) = SeqKeepFold!Folded(c, I, c, s, 0)
  BY DEF Each, FoldSet, MapThenFoldSet, SeqKeepFold!Folded, SeqKeepStep, SomeOf
<1>2. IsFiniteSet(I)
  BY CellFinite
<1>3. \A T \in SUBSET I : T # {} => SomeOf(T) \in T
  BY SomeIn
<1>4. SeqKeepLeaves(c, {}, c, s, 0)
  BY ShrinksRefl DEF SeqKeepLeaves, Untouched
<1>5. ASSUME NEW T \in SUBSET I, T # {}, NEW acc, SeqKeepLeaves(acc, T \ {SomeOf(T)}, c, s, 0)
      PROVE  SeqKeepLeaves(SeqKeepStep(SomeOf(T), acc, c, s, 0), T, c, s, 0)
  <2> DEFINE i == SomeOf(T)
  <2>1. i \in T /\ i \in Cell
    BY <1>5, SomeIn
  <2> HIDE DEF i
  <2>2. CellsInv(acc) /\ Shrinks(acc, c) /\ Untouched(acc, c, T \ {i})
    BY <1>5 DEF SeqKeepLeaves, Shrinks, i
  <2>3. Shrinks(SeqKeep(acc, i, s), acc) /\ Untouched(SeqKeep(acc, i, s), acc, {i})
    BY <2>1, <2>2, SeqKeepShrinks
  <2>4. Shrinks(SeqKeep(acc, i, s), c)
    BY <2>2, <2>3, ShrinksTrans
  <2>5. Untouched(SeqKeep(acc, i, s), c, T)
    BY <2>1, <2>2, <2>3 DEF Untouched
  <2> QED BY <2>4, <2>5 DEF SeqKeepLeaves, SeqKeepStep, i
<1>6. SeqKeepLeaves(SeqKeepFold!Folded(c, I, c, s, 0), I, c, s, 0)
  <2>1. \A T \in SUBSET I : T # {} => \A acc :
          SeqKeepLeaves(acc, T \ {SomeOf(T)}, c, s, 0) => SeqKeepLeaves(SeqKeepStep(SomeOf(T), acc, c, s, 0), T, c, s, 0)
    BY <1>5
  <2>2. SeqKeepFold!IsFiniteSet(I)
    BY <1>2 DEF IsFiniteSet, SeqKeepFold!IsFiniteSet
  <2>3. SeqKeepFold!Inductive(c, I, c, s, 0)
    BY <1>3, <1>4, <2>1, <2>2 DEF SeqKeepFold!Inductive
  <2> QED BY <2>3, SeqKeepFold!FoldKeeps
<1> QED BY Zenon, <1>1, <1>6 DEF SeqKeepLeaves

\* Each cell keeps its token or loses it, or the token moves and its shift with it.
Tracks(d, c) ==
    \A j \in Cell : \/ c.pos[j] # -1 /\ d.pos[j] # -1 /\ d.pos[j] - d.shift[j] = c.pos[j] - c.shift[j]
                    \/ d.pos[j] = -1 /\ (Calm(c) => d.shift[j] = 0)

LEMMA LosesTracks ==
    ASSUME NEW c, CellsInv(c), NEW d, CellsInv(d), Loses(d, c), d.hasShift = c.hasShift
    PROVE  Tracks(d, c) /\ (Calm(c) => Calm(d)) /\ d.used \subseteq c.used
<1>1. /\ \A j \in Cell : c.pos[j] \in Int /\ c.shift[j] \in Int
      /\ c.used = {j \in Cell : c.pos[j] # -1} /\ d.used = {j \in Cell : d.pos[j] # -1}
  BY DEF CellsInv, CellSets, Occupied
<1>2. Tracks(d, c)
  BY <1>1 DEF Loses, Tracks, Calm
<1>3. d.used \subseteq c.used
  BY <1>1 DEF Loses
<1>4. Calm(c) => Calm(d)
  BY <1>1 DEF Calm, Loses
<1> QED BY <1>2, <1>3, <1>4

SeqAddStep(i, acc, c, s, d) == SeqAdd(acc, i, s)
SeqAddLeaves(acc, T, c, s, d) ==
    /\ CellsInv(acc) /\ acc.hasShift = c.hasShift
    /\ \A j \in Cell : acc.pos[j] = c.pos[j] /\ acc.shift[j] = c.shift[j]
    /\ \A j \in Cell \ T : acc.seq[j] = c.seq[j]
SeqAddFold == INSTANCE Folding WITH Step <- SeqAddStep, Keeps <- SeqAddLeaves, Pick <- SomeOf

LEMMA SeqAddEach ==
    ASSUME NEW c, CellsInv(c), NEW s \in Seqs, NEW I, I \subseteq Cell,
           \A i \in I : c.pos[i] # -1 /\ s \notin c.seq[i]
    PROVE  SeqAddLeaves(Each(LAMBDA acc, i : SeqAdd(acc, i, s), c, I), I, c, s, 0)
<1>1. Each(LAMBDA acc, i : SeqAdd(acc, i, s), c, I) = SeqAddFold!Folded(c, I, c, s, 0)
  BY DEF Each, FoldSet, MapThenFoldSet, SeqAddFold!Folded, SeqAddStep, SomeOf
<1>2. SeqAddFold!IsFiniteSet(I)
  BY Zenon, CellFinite DEF IsFiniteSet, SeqAddFold!IsFiniteSet
<1>3. \A T \in SUBSET I : T # {} => SomeOf(T) \in T
  BY SomeIn
<1>4. SeqAddLeaves(c, {}, c, s, 0)
  BY DEF SeqAddLeaves
<1>5. ASSUME NEW T \in SUBSET I, T # {}, NEW acc, SeqAddLeaves(acc, T \ {SomeOf(T)}, c, s, 0)
      PROVE  SeqAddLeaves(SeqAddStep(SomeOf(T), acc, c, s, 0), T, c, s, 0)
  <2> DEFINE i == SomeOf(T)
             d == SeqAdd(acc, i, s)
  <2>1. i \in T /\ i \in Cell /\ c.pos[i] # -1 /\ s \notin c.seq[i]
    BY <1>5, SomeIn
  <2> HIDE DEF i
  <2>2. /\ CellsInv(acc) /\ acc.hasShift = c.hasShift
        /\ \A j \in Cell : acc.pos[j] = c.pos[j] /\ acc.shift[j] = c.shift[j]
        /\ \A j \in Cell \ (T \ {i}) : acc.seq[j] = c.seq[j]
    BY <1>5 DEF SeqAddLeaves, i
  <2>3. acc.pos[i] # -1 /\ s \notin acc.seq[i]
    BY <2>1, <2>2
  <2> DEFINE p == acc.pos[i]
             sh == acc.shift[i]
             S == acc.seq[i] \cup {s}
  <2>4. CellsInv(d) /\ d.hasShift = acc.hasShift /\ Changed(d, acc, i, p, sh, S)
    BY <2>1, <2>2, <2>3, SeqAddIs
  <2>5. p = acc.pos[i] /\ sh = acc.shift[i]
    OBVIOUS
  <2> HIDE DEF d, p, sh, S
  <2>6. /\ \A j \in Cell : d.pos[j] = IF j = i THEN p ELSE acc.pos[j]
        /\ \A j \in Cell : d.shift[j] = IF j = i THEN sh ELSE acc.shift[j]
        /\ \A j \in Cell : d.seq[j] = IF j = i THEN S ELSE acc.seq[j]
    BY <2>1, <2>2, <2>4, ChangedCells
  <2>7. SeqAddLeaves(d, T, c, s, 0)
    BY <2>1, <2>2, <2>4, <2>5, <2>6 DEF SeqAddLeaves
  <2> QED BY <2>7 DEF SeqAddStep, i, d
<1>6. \A T \in SUBSET I : T # {} => \A acc :
          SeqAddLeaves(acc, T \ {SomeOf(T)}, c, s, 0) => SeqAddLeaves(SeqAddStep(SomeOf(T), acc, c, s, 0), T, c, s, 0)
  BY <1>5
<1>7. SeqAddFold!Inductive(c, I, c, s, 0)
  BY <1>2, <1>3, <1>4, <1>6 DEF SeqAddFold!Inductive
<1> QED BY Zenon, <1>1, <1>7, SeqAddFold!FoldKeeps

PosAddStep(i, acc, c, x, d) == PosAdd(acc, i, x)
PosAddLeaves(acc, T, c, x, d) == CellsInv(acc) /\ Tracks(acc, c) /\ Untouched(acc, c, T) /\ (Calm(c) => Calm(acc))
PosAddFold == INSTANCE Folding WITH Step <- PosAddStep, Keeps <- PosAddLeaves, Pick <- SomeOf

LEMMA PosAddEach ==
    ASSUME NEW c, CellsInv(c), NEW x \in Int, NEW I, I \subseteq Cell, \A i \in I : c.pos[i] # -1
    PROVE  PosAddLeaves(Each(LAMBDA acc, i : PosAdd(acc, i, x), c, I), I, c, x, 0)
<1>1. Each(LAMBDA acc, i : PosAdd(acc, i, x), c, I) = PosAddFold!Folded(c, I, c, x, 0)
  BY DEF Each, FoldSet, MapThenFoldSet, PosAddFold!Folded, PosAddStep, SomeOf
<1>2. PosAddFold!IsFiniteSet(I)
  BY CellFinite DEF IsFiniteSet, PosAddFold!IsFiniteSet
<1>3. \A T \in SUBSET I : T # {} => SomeOf(T) \in T
  BY SomeIn
<1>4. PosAddLeaves(c, {}, c, x, 0)
  BY LosesTracks, ShrinksRefl DEF PosAddLeaves, Shrinks, Untouched
<1>5. ASSUME NEW T \in SUBSET I, T # {}, NEW acc, PosAddLeaves(acc, T \ {SomeOf(T)}, c, x, 0)
      PROVE  PosAddLeaves(PosAddStep(SomeOf(T), acc, c, x, 0), T, c, x, 0)
  <2> DEFINE i == SomeOf(T)
             d == PosAdd(acc, i, x)
             p == acc.pos[i] + x
             sh == acc.shift[i] + x
             S == acc.seq[i]
  <2>1. i \in T /\ i \in Cell /\ c.pos[i] # -1
    BY <1>5, SomeIn
  <2> HIDE DEF i
  <2>2. CellsInv(acc) /\ Tracks(acc, c) /\ Untouched(acc, c, T \ {i}) /\ (Calm(c) => Calm(acc))
    BY <1>5 DEF PosAddLeaves, i
  <2>3. acc.pos[i] = c.pos[i] /\ acc.shift[i] = c.shift[i] /\ acc.pos[i] # -1
    BY <2>1, <2>2 DEF Untouched
  <2>4. /\ CellsInv(d) /\ d.hasShift = TRUE
        /\ IF p < 0 THEN Changed(d, acc, i, -1, 0, {}) ELSE Changed(d, acc, i, p, sh, S)
    BY Zenon, <2>1, <2>2, <2>3, PosAddIs
  <2>5. p \in Int /\ sh \in Int /\ c.pos[i] \in Int /\ c.shift[i] \in Int /\ p - sh = c.pos[i] - c.shift[i]
    BY <2>1, <2>3, CellFacts
  <2> HIDE DEF d, p, sh, S
  <2>6. \E e, f : /\ \A j \in Cell : d.pos[j] = IF j = i THEN e ELSE acc.pos[j]
                  /\ \A j \in Cell : d.shift[j] = IF j = i THEN f ELSE acc.shift[j]
                  /\ \A j \in Cell \ {i} : d.seq[j] = acc.seq[j]
                  /\ \/ e = -1 /\ f = 0
                     \/ e # -1 /\ e \in Int /\ f \in Int /\ e - f = c.pos[i] - c.shift[i]
    <3>1. CASE p < 0
      <4> DEFINE e == -1
                 f == 0
                 n == {}
      <4>1. Changed(d, acc, i, e, f, n) /\ e = -1 /\ f = 0
        BY <2>4, <3>1
      <4> HIDE DEF e, f, n
      <4>2. /\ \A j \in Cell : d.pos[j] = IF j = i THEN e ELSE acc.pos[j]
            /\ \A j \in Cell : d.shift[j] = IF j = i THEN f ELSE acc.shift[j]
            /\ \A j \in Cell : d.seq[j] = IF j = i THEN n ELSE acc.seq[j]
        BY <2>1, <2>2, <4>1, ChangedCells
      <4>3. \A j \in Cell \ {i} : d.seq[j] = acc.seq[j]
        BY <4>2
      <4> QED BY <4>1, <4>2, <4>3
    <3>2. CASE ~(p < 0)
      <4>1. /\ \A j \in Cell : d.pos[j] = IF j = i THEN p ELSE acc.pos[j]
            /\ \A j \in Cell : d.shift[j] = IF j = i THEN sh ELSE acc.shift[j]
            /\ \A j \in Cell : d.seq[j] = IF j = i THEN S ELSE acc.seq[j]
        BY <2>1, <2>2, <2>4, <3>2, ChangedCells
      <4>2. \A j \in Cell \ {i} : d.seq[j] = acc.seq[j]
        BY <4>1
      <4>3. p # -1
        BY <2>5, <3>2
      <4> QED BY Zenon, <2>5, <4>1, <4>2, <4>3
    <3> QED BY <3>1, <3>2
  <2>7. PICK e, f : /\ \A j \in Cell : d.pos[j] = IF j = i THEN e ELSE acc.pos[j]
                    /\ \A j \in Cell : d.shift[j] = IF j = i THEN f ELSE acc.shift[j]
                    /\ \A j \in Cell \ {i} : d.seq[j] = acc.seq[j]
                    /\ \/ e = -1 /\ f = 0
                       \/ e # -1 /\ e \in Int /\ f \in Int /\ e - f = c.pos[i] - c.shift[i]
    BY <2>6
  <2>8. Tracks(d, c)
    BY <2>1, <2>2, <2>7 DEF Tracks
  <2>9. Untouched(d, c, T)
    BY <2>1, <2>2, <2>7 DEF Untouched
  <2>10. Calm(c) => Calm(d)
    BY <2>1, <2>2, <2>4, <2>7 DEF Calm
  <2> QED BY <2>4, <2>8, <2>9, <2>10 DEF PosAddLeaves, PosAddStep, i, d
<1>6. \A T \in SUBSET I : T # {} => \A acc :
          PosAddLeaves(acc, T \ {SomeOf(T)}, c, x, 0) => PosAddLeaves(PosAddStep(SomeOf(T), acc, c, x, 0), T, c, x, 0)
  BY <1>5
<1>7. PosAddFold!Inductive(c, I, c, x, 0)
  BY <1>2, <1>3, <1>4, <1>6 DEF PosAddFold!Inductive
<1> QED BY Zenon, <1>1, <1>7, PosAddFold!FoldKeeps

PosDivStep(i, acc, c, x, d) == PosDiv(acc, i, x)
PosDivLeaves(acc, T, c, x, d) ==
    /\ CellsInv(acc) /\ acc.used = c.used
    /\ \A j \in Cell \ T : acc.pos[j] = c.pos[j] /\ acc.shift[j] = c.shift[j]
    /\ T # {} => acc.hasShift
    /\ T = {} => acc.hasShift = c.hasShift
PosDivFold == INSTANCE Folding WITH Step <- PosDivStep, Keeps <- PosDivLeaves, Pick <- SomeOf

LEMMA PosDivEach ==
    ASSUME NEW c, CellsInv(c), NEW x \in Nat \ {0}, NEW I, I \subseteq Cell, \A i \in I : c.pos[i] # -1
    PROVE  PosDivLeaves(Each(LAMBDA acc, i : PosDiv(acc, i, x), c, I), I, c, x, 0)
<1>1. Each(LAMBDA acc, i : PosDiv(acc, i, x), c, I) = PosDivFold!Folded(c, I, c, x, 0)
  BY DEF Each, FoldSet, MapThenFoldSet, PosDivFold!Folded, PosDivStep, SomeOf
<1>2. PosDivFold!IsFiniteSet(I)
  BY CellFinite DEF IsFiniteSet, PosDivFold!IsFiniteSet
<1>3. \A T \in SUBSET I : T # {} => SomeOf(T) \in T
  BY SomeIn
<1>4. PosDivLeaves(c, {}, c, x, 0)
  BY DEF PosDivLeaves
<1>5. ASSUME NEW T \in SUBSET I, T # {}, NEW acc, PosDivLeaves(acc, T \ {SomeOf(T)}, c, x, 0)
      PROVE  PosDivLeaves(PosDivStep(SomeOf(T), acc, c, x, 0), T, c, x, 0)
  <2> DEFINE i == SomeOf(T)
             d == PosDiv(acc, i, x)
             S == acc.seq[i]
  <2>1. i \in T /\ i \in Cell /\ c.pos[i] # -1
    BY <1>5, SomeIn
  <2> HIDE DEF i
  <2>2. /\ CellsInv(acc) /\ acc.used = c.used
        /\ \A j \in Cell \ (T \ {i}) : acc.pos[j] = c.pos[j] /\ acc.shift[j] = c.shift[j]
    BY <1>5 DEF PosDivLeaves, i
  <2>3. acc.pos[i] # -1
    BY <2>1, <2>2
  <2>4. CellsInv(d) /\ d.hasShift /\ \E p \in Nat, sh \in Int : Changed(d, acc, i, p, sh, S)
    BY Zenon, <2>1, <2>2, <2>3, PosDivIs
  <2>5. PICK p \in Nat, sh \in Int : Changed(d, acc, i, p, sh, S)
    BY <2>4
  <2> HIDE DEF d, S
  <2>6. /\ \A j \in Cell : d.pos[j] = IF j = i THEN p ELSE acc.pos[j]
        /\ \A j \in Cell : d.shift[j] = IF j = i THEN sh ELSE acc.shift[j]
    BY <2>1, <2>2, <2>5, ChangedCells
  <2>7. d.used = acc.used
    <3>1. i \in acc.used
      BY <2>1, <2>2, <2>3, CellFacts
    <3>2. p # -1 /\ d.used = IF p = -1 THEN acc.used \ {i} ELSE acc.used \cup {i}
      BY <2>5 DEF Changed
    <3> QED BY <3>1, <3>2
  <2>8. PosDivLeaves(d, T, c, x, 0)
    BY Zenon, <1>5, <2>1, <2>2, <2>4, <2>6, <2>7 DEF PosDivLeaves
  <2> QED BY <2>8 DEF PosDivStep, i, d
<1>6. \A T \in SUBSET I : T # {} => \A acc :
          PosDivLeaves(acc, T \ {SomeOf(T)}, c, x, 0) => PosDivLeaves(PosDivStep(SomeOf(T), acc, c, x, 0), T, c, x, 0)
  BY <1>5
<1>7. PosDivFold!Inductive(c, I, c, x, 0)
  BY <1>2, <1>3, <1>4, <1>6 DEF PosDivFold!Inductive
<1> QED BY Zenon, <1>1, <1>7, PosDivFold!FoldKeeps

-----------------------------------------------------------------------------
(* Least and greatest numbers *)

LEMMA LeastIn == ASSUME NEW S, S \subseteq Int, IsFiniteSet(S), S # {}
                 PROVE  Min(S) \in S /\ \A x \in S : Min(S) <= x
<1> DEFINE Below(k) == {j \in S : j < k}
           T == {Below(k) : k \in S}
<1>1. T \subseteq FiniteSubsetsOf(S) /\ T # {}
  <2>1. \A k \in S : Below(k) \subseteq S /\ IsFiniteSet(Below(k))
    BY FS_Subset
  <2> QED BY Zenon, <2>1 DEF FiniteSubsetsOf
<1>2. PICK k \in S : \A j \in S : ~(<<Below(j), Below(k)>> \in StrictSubsetOrdering(S))
  <2>1. \E x \in T : \A y \in T : ~(<<y, x>> \in StrictSubsetOrdering(S))
    BY Zenon, <1>1, FS_StrictSubsetOrderingWellFounded, WFMin
  <2> QED BY Zenon, <2>1
<1>3. ASSUME NEW j \in S, j < k PROVE FALSE
  <2>0. j \in Int /\ k \in Int /\ \A x \in S : x \in Int
    OBVIOUS
  <2>1. Below(j) \subseteq Below(k) /\ j \in Below(k) /\ j \notin Below(j)
    <3>1. \A x \in S : x < j => x < k
      BY <1>3, <2>0
    <3>2. ~(j < j)
      BY <2>0
    <3>3. Below(j) \subseteq Below(k)
      BY Zenon, <3>1
    <3> QED BY <1>3, <3>2, <3>3
  <2>2. Below(j) \subseteq S /\ Below(k) \subseteq S /\ Below(j) # Below(k)
    BY <2>1
  <2> HIDE DEF Below
  <2>3. <<Below(j), Below(k)>> \in StrictSubsetOrdering(S)
    BY <2>1, <2>2 DEF StrictSubsetOrdering
  <2> QED BY <1>2, <2>3
<1>4. \A x \in S : k <= x
  BY <1>3
<1> QED BY Zenon, <1>4 DEF Min

LEMMA GreatestIn == ASSUME NEW S, S \subseteq Int, IsFiniteSet(S), S # {}
                    PROVE  Max(S) \in S /\ \A x \in S : x <= Max(S)
<1> DEFINE Above(k) == {j \in S : j > k}
           T == {Above(k) : k \in S}
<1>1. T \subseteq FiniteSubsetsOf(S) /\ T # {}
  <2>1. \A k \in S : Above(k) \subseteq S /\ IsFiniteSet(Above(k))
    BY FS_Subset
  <2> QED BY Zenon, <2>1 DEF FiniteSubsetsOf
<1>2. PICK k \in S : \A j \in S : ~(<<Above(j), Above(k)>> \in StrictSubsetOrdering(S))
  <2>1. \E x \in T : \A y \in T : ~(<<y, x>> \in StrictSubsetOrdering(S))
    BY Zenon, <1>1, FS_StrictSubsetOrderingWellFounded, WFMin
  <2> QED BY Zenon, <2>1
<1>3. ASSUME NEW j \in S, j > k PROVE FALSE
  <2>0. j \in Int /\ k \in Int /\ \A x \in S : x \in Int
    OBVIOUS
  <2>1. Above(j) \subseteq Above(k) /\ j \in Above(k) /\ j \notin Above(j)
    <3>1. \A x \in S : x > j => x > k
      BY <1>3, <2>0
    <3>2. ~(j > j)
      BY <2>0
    <3>3. Above(j) \subseteq Above(k)
      BY Zenon, <3>1
    <3> QED BY <1>3, <3>2, <3>3
  <2>2. Above(j) \subseteq S /\ Above(k) \subseteq S /\ Above(j) # Above(k)
    BY <2>1
  <2> HIDE DEF Above
  <2>3. <<Above(j), Above(k)>> \in StrictSubsetOrdering(S)
    BY <2>1, <2>2 DEF StrictSubsetOrdering
  <2> QED BY <1>2, <2>3
<1>4. \A x \in S : k >= x
  BY <1>3
<1>5. Max(S) \in S /\ \A x \in S : Max(S) >= x
  BY Zenon, <1>4 DEF Max
<1> QED BY <1>5
=============================================================================
