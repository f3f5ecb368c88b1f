------------------------------- MODULE KvCells -------------------------------
(***************************************************************************)
(* The cells of llama.cpp's KV cache: the class llama_kv_cells_unified of  *)
(* llama-kv-cells.h, one operator per method. A cell holds one token: its  *)
(* position, the shift of that position which the keys do not have yet,    *)
(* and the sequences the token belongs to. Beside the cells the class      *)
(* keeps two indexes by hand, which every method must update: the set of   *)
(* the cells in use, and how often each sequence has each position.        *)
(***************************************************************************)
EXTENDS Integers, FiniteSets, Bags

CONSTANTS NCells, \* the number of cells
          NSeqs   \* the number of sequences

ASSUME CellsAssumption == NCells \in Nat \ {0} /\ NSeqs \in Nat \ {0}

Cell == 0..NCells-1
Seqs == 0..NSeqs-1

\* seq_pos[s] is a map from positions to counts without zeroes: a bag.
CellsType(c) ==
    /\ c.pos \in [Cell -> Int] /\ \A i \in Cell : c.pos[i] >= -1
    /\ c.shift \in [Cell -> Int] /\ c.seq \in [Cell -> SUBSET Seqs]
    /\ c.hasShift \in BOOLEAN /\ c.used \subseteq Cell
    /\ DOMAIN c.seqPos = Seqs /\ \A s \in Seqs : IsABag(c.seqPos[s])

Reset ==
    [pos |-> [i \in Cell |-> -1], shift |-> [i \in Cell |-> 0],
     seq |-> [i \in Cell |-> {}], hasShift |-> FALSE, used |-> {},
     seqPos |-> [s \in Seqs |-> EmptyBag]]

IsEmpty(c, i) == c.pos[i] = -1

SeqPosMax(c, s) ==
    LET P == BagToSet(c.seqPos[s])
    IN  IF P = {} THEN -1 ELSE CHOOSE p \in P : \A q \in P : q <= p

\* A token at position p leaves, or enters, the sequences S.
SeqPosDec(seqPos, S, p) ==
    [s \in Seqs |-> IF s \in S THEN seqPos[s] (-) SetToBag({p}) ELSE seqPos[s]]
SeqPosInc(seqPos, S, p) ==
    [s \in Seqs |-> IF s \in S THEN seqPos[s] (+) SetToBag({p}) ELSE seqPos[s]]

\* Clear a cell that is in use.
Rm(c, i) ==
    [c EXCEPT !.pos[i] = -1, !.shift[i] = 0, !.seq[i] = {}, !.used = @ \ {i},
              !.seqPos = SeqPosDec(@, c.seq[i], c.pos[i])]

\* Take the token of cell i out of its sequence s; without any it is gone.
SeqRm(c, i, s) ==
    IF c.seq[i] = {s}
    THEN Rm(c, i)
    ELSE [c EXCEPT !.seq[i] = @ \ {s}, !.seqPos = SeqPosDec(@, {s}, c.pos[i])]

\* Take the token of cell i out of every sequence but s.
SeqKeep(c, i, s) ==
    IF s \in c.seq[i]
    THEN [c EXCEPT !.seq[i] = {s},
                   !.seqPos = SeqPosInc(SeqPosDec(@, c.seq[i], c.pos[i]), {s}, c.pos[i])]
    ELSE IF c.seq[i] # {} THEN Rm(c, i) ELSE c

SeqAdd(c, i, s) ==
    [c EXCEPT !.seq[i] = @ \cup {s}, !.seqPos = SeqPosInc(@, {s}, c.pos[i])]

PosSet(c, i, p) == [c EXCEPT !.pos[i] = p, !.used = @ \cup {i}]

\* Positions move by d; a token that moves below 0 is gone.
PosAdd(c, i, d) ==
    IF c.pos[i] + d < 0
    THEN [Rm(c, i) EXCEPT !.hasShift = TRUE]
    ELSE [c EXCEPT !.pos[i] = @ + d, !.shift[i] = @ + d, !.hasShift = TRUE,
                   !.seqPos = SeqPosInc(SeqPosDec(@, c.seq[i], c.pos[i]), c.seq[i], c.pos[i] + d)]

PosDiv(c, i, d) ==
    LET p == c.pos[i] \div d
    IN  [c EXCEPT !.pos[i] = p, !.shift[i] = @ + (c.pos[i] - p), !.hasShift = TRUE,
                  !.seqPos = SeqPosInc(SeqPosDec(@, c.seq[i], c.pos[i]), c.seq[i], p)]

ResetShift(c) == [c EXCEPT !.shift = [i \in Cell |-> 0], !.hasShift = FALSE]

\* Mutant: the cell moved from stays in the index.
MvKeepsUsed(c, src, dst) ==
    [c EXCEPT !.pos = [@ EXCEPT ![dst] = c.pos[src], ![src] = -1],
              !.shift = [@ EXCEPT ![dst] = c.shift[src], ![src] = 0],
              !.seq = [@ EXCEPT ![dst] = c.seq[src], ![src] = {}],
              !.used = @ \cup {dst}]

\* Move the token of cell src to the empty cell dst.
Mv(c, src, dst) ==
    [c EXCEPT !.pos = [@ EXCEPT ![dst] = c.pos[src], ![src] = -1],
              !.shift = [@ EXCEPT ![dst] = c.shift[src], ![src] = 0],
              !.seq = [@ EXCEPT ![dst] = c.seq[src], ![src] = {}],
              !.used = (@ \ {src}) \cup {dst}]

\* Cell i as it was in the copy old, which cp took and set brings back.
SetCell(c, i, old) ==
    [c EXCEPT !.pos[i] = old.pos[i], !.seq[i] = old.seq[i],
              !.used = IF IsEmpty(old, i) THEN @ \ {i} ELSE @ \cup {i},
              !.seqPos = SeqPosInc(SeqPosDec(@, c.seq[i], c.pos[i]), old.seq[i], old.pos[i])]
=============================================================================
