------------------------------- MODULE KvCache -------------------------------
(***************************************************************************)
(* The KV cache of llama.cpp, llama_kv_cache_unified, under its callers:   *)
(* the llama_memory_* functions, llama_decode and the saving of states.    *)
(* Every call is one action: the server makes them one at a time, under    *)
(* its lock. A key or value is represented by the name of its token and    *)
(* the position its key is rotated for.                                    *)
(***************************************************************************)
EXTENDS KvCells, Sequences, FiniteSetsExt, SequencesExt

CONSTANTS
    Batches,     \* the batches clients decode, as the sequence of each token
    NUbatch,     \* cparams.n_ubatch
    MaxPos,      \* bound: the highest position clients use
    Ranges,      \* bound: the ranges [p0, p1) clients name; p1 = -1 is no end
    Shifts,      \* bound: how far clients move positions
    MaxShift,    \* bound: how much shift may be pending in a cell
    MaxSaved,    \* bound: how many cells are in use when a state is saved
    Divisors,    \* bound: by what they divide them
    MaxMoves,    \* max_moves: how many moves a compute graph has room for
    Modes,       \* the attention windows (type, n) and the callers considered:
                 \* their sequences; whether they shift, divide, save
    NoState      \* nothing is saved


ASSUME CacheAssumption ==
    /\ Batches \subseteq Seq(Seqs) \ {<<>>}
    /\ {MaxPos, MaxShift, MaxSaved, MaxMoves} \subseteq Nat /\ NUbatch \in Nat \ {0}
    /\ Ranges \subseteq Nat \X (Nat \cup {-1})
    /\ Shifts \subseteq Int \ {0} /\ Divisors \subseteq Nat \ {0}
    /\ Modes \subseteq [type : {"none", "standard", "chunked"}, n : Nat \ {0},
                       seqs : SUBSET Seqs, shifts : BOOLEAN, divides : BOOLEAN, saves : BOOLEAN]

VARIABLES
    kv,     \* [cells, head, data]: the cells, where to look for a slot next,
            \* and the token and rotation of the key in each cell in use, with
            \* the ghost lost: the shift that a saved state has left out
    saved,  \* a saved state: the tokens of the cells in use, in their order
    mode,   \* the case considered
    ret     \* what the last call returned, and the room it asked for

vars == <<kv, saved, mode, ret>>

\* As many as the cells, a saved state and a batch may need.
Names == 1..3*NCells

\* The elements of a set of numbers in their order.
Sorted(S) == [k \in 1..Cardinality(S) |-> CHOOSE x \in S : Cardinality({y \in S : y < x}) = k - 1]

\* One of the cells' methods, on every cell of a set.
Each(Method(_, _), c, I) == FoldSet(LAMBDA i, acc : Method(acc, i), c, I)

InRange(c, i, p0, p1) ==
    ~IsEmpty(c, i) /\ c.pos[i] >= p0 /\ (p1 < 0 \/ c.pos[i] < p1)

OfSeq(c, s, p0, p1) == {i \in Cell : InRange(c, i, p0, p1) /\ s \in c.seq[i]}

Freed(old, new) == {i \in Cell : ~IsEmpty(old, i) /\ IsEmpty(new, i)}

\* The head goes back to the first cell that became empty, if any.
AfterFreeing(k, c) ==
    LET freed == Freed(k.cells, c)
    IN  [k EXCEPT !.cells = c,
                  !.head = IF freed # {} /\ Min(freed) < @ THEN Min(freed) ELSE @]

\* What is left in the data of a cell that is empty is not read again.
Held(k) == [k EXCEPT !.data = [i \in k.cells.used |-> @[i]]]

SeqRemove(k, s, p0, p1) ==
    AfterFreeing(k, Each(LAMBDA c, i : SeqRm(c, i, s), k.cells, OfSeq(k.cells, s, p0, p1)))

Init ==
    /\ kv = [cells |-> Reset, head |-> 0, data |-> <<>>]
    /\ saved = NoState
    /\ mode \in Modes
    /\ ret = [code |-> "ok", need |-> 0]

Done == ret' = [code |-> "ok", need |-> 0] /\ UNCHANGED <<saved, mode>>

Clear ==
    /\ kv' = [cells |-> Reset, head |-> 0, data |-> <<>>]
    /\ Done

RemoveSeq(s, r) == kv' = Held(SeqRemove(kv, s, r[1], r[2])) /\ Done

RemoveAny(r) ==
    /\ kv' = Held(AfterFreeing(kv, Each(Rm, kv.cells, {i \in Cell : InRange(kv.cells, i, r[1], r[2])})))
    /\ Done

\* Not for a token that the other sequence has already.
CopySeq(s, t, r) ==
    LET I == OfSeq(kv.cells, s, r[1], r[2])
    IN  /\ s # t
        /\ \A i \in I : t \notin kv.cells.seq[i]
        /\ kv' = [kv EXCEPT !.cells = Each(LAMBDA c, i : SeqAdd(c, i, t), @, I)]
        /\ Done

KeepSeq(s) ==
    /\ kv' = Held(AfterFreeing(kv, Each(LAMBDA c, i : SeqKeep(c, i, s), kv.cells, Cell)))
    /\ Done

ShiftSeq(s, r, d) ==
    LET I == OfSeq(kv.cells, s, r[1], r[2])
        c == Each(LAMBDA acc, i : PosAdd(acc, i, d), kv.cells, I)
        freed == Freed(kv.cells, c)
    IN  /\ r[1] # r[2]
        /\ \A i \in I : c.pos[i] <= MaxPos /\ c.shift[i] \in -MaxShift..MaxShift
        /\ kv' = Held([kv EXCEPT !.cells = c, !.head = IF freed = {} THEN 0 ELSE Min(freed)])
        /\ Done

DivideSeq(s, r, d) ==
    LET I == IF d = 1 THEN {} ELSE OfSeq(kv.cells, s, r[1], r[2])
        c == Each(LAMBDA acc, i : PosDiv(acc, i, d), kv.cells, I)
    IN  /\ r[1] # r[2]
        /\ \A i \in I : c.shift[i] \in -MaxShift..MaxShift
        /\ kv' = [kv EXCEPT !.cells = c]
        /\ Done

-----------------------------------------------------------------------------
(* Looking for room                                                        *)

MaskedSwa(p0, p1) ==
    \/ mode.type = "standard" /\ p1 - p0 >= mode.n
    \/ mode.type = "chunked" /\ p0 < (p1 \div mode.n) * mode.n

\* An empty cell, or one of a token the window will hide from what comes next.
CanUse(c, i) ==
    IsEmpty(c, i) \/ \E s \in Seqs : c.seq[i] = {s} /\ MaskedSwa(c.pos[i], SeqPosMax(c, s) + 1)

\* Mutant: the head goes past the slot.
AfterSlotBeyond(h, ub) == h + Len(ub) + 1

\* Where the search goes on after a slot.
AfterSlot(h, ub) == h + Len(ub)

\* The first slot of n cells from the head on, else before it, else -1. With
\* more room before the head than that the search begins at 0.
FindSlot(k, n) ==
    LET start == IF k.head > Cardinality(k.cells.used) + 2 * n THEN 0 ELSE k.head
        slots == {h \in 0..NCells-n : \A i \in h..h+n-1 : CanUse(k.cells, i)}
        ahead == {h \in slots : h >= start}
    IN  IF ahead # {} THEN Min(ahead) ELSE IF slots # {} THEN Min(slots) ELSE -1

\* Mutant: what comes before an overwritten token stays.
ApplyUbatchNoPurge(k, h, ub) ==
    LET slot == h..h+Len(ub)-1
        over == {i \in slot : ~IsEmpty(k.cells, i)}
    IN  [k EXCEPT !.cells = Each(LAMBDA c, i : SeqAdd(PosSet(c, i, ub[i-h+1].pos), i, ub[i-h+1].seq),
                                 Each(Rm, @, over), slot),
                  !.head = AfterSlot(h, ub)]

\* ubatch ub goes to the cells from h on. A token it overwrites takes the
\* tokens before it along, so that a sequence has no holes.
ApplyUbatch(k, h, ub) ==
    LET slot == h..h+Len(ub)-1
        over == {i \in slot : ~IsEmpty(k.cells, i)}
        lost(s) == {k.cells.pos[i] : i \in {j \in over : k.cells.seq[j] = {s}}}
        put == Each(LAMBDA c, i : SeqAdd(PosSet(c, i, ub[i-h+1].pos), i, ub[i-h+1].seq),
                    Each(Rm, k.cells, over), slot)
        purged == FoldSet(LAMBDA s, acc : SeqRemove(acc, s, 0, Max(lost(s)) + 1),
                          [k EXCEPT !.cells = put], {s \in Seqs : lost(s) # {}})
    IN  [purged EXCEPT !.head = AfterSlot(h, ub)]

\* Find a slot for each ubatch, as if those before it were in place.
Try(acc, ub) ==
    LET h == FindSlot(acc.kv, Len(ub))
    IN  IF acc.ok /\ h >= 0
        THEN [ok |-> TRUE, kv |-> ApplyUbatch(acc.kv, h, ub),
              before |-> Append(acc.before, [kv |-> acc.kv, slot |-> h..h+Len(ub)-1])]
        ELSE [acc EXCEPT !.ok = FALSE]

\* Put back the head and the cells of a slot as they were before.
Undo(old, k) ==
    [k EXCEPT !.cells = Each(LAMBDA c, i : SetCell(c, i, old.kv.cells), @, old.slot),
              !.head = old.kv.head]

Restored(end) ==
    [ok |-> end.ok, heads |-> [u \in 1..Len(end.before) |-> Min(end.before[u].slot)],
     kv |-> FoldRight(Undo, end.before, end.kv)]

Prepare(k, ubs) ==
    Restored(FoldLeft(Try, [ok |-> TRUE, kv |-> k, before |-> <<>>], ubs))

-----------------------------------------------------------------------------
(* Updates: rotating keys by the pending shifts, and filling holes         *)

\* Mutant: the shifts stay pending.
KShiftAgain(k) ==
    [k EXCEPT !.data = [i \in k.cells.used |-> [k.data[i] EXCEPT !.rot = @ + k.cells.shift[i]]]]

\* The compute graph of the K-shift rotates each key by its cell's shift.
KShift(k) ==
    [k EXCEPT !.data = [i \in k.cells.used |-> [k.data[i] EXCEPT !.rot = @ + k.cells.shift[i]]],
              !.cells = ResetShift(@)]

\* The cells that defrag_prepare fills, each with the cell it is filled from:
\* hole after hole, with as many of the last cells as fit, in their order. A
\* run of neighbours is one move, and there are at most MaxMoves.
DefragPlan(c) ==
    LET nUsed == Cardinality(c.used)
        empty == {i \in 0..nUsed-1 : IsEmpty(c, i)}
        rest  == Sorted({i \in c.used : i >= nUsed})
        first(x) == Min({a \in empty : a..x \subseteq empty})
        last(x)  == Max({b \in empty : x..b \subseteq empty})
        filled(x) == Cardinality({i \in empty : i < first(x)})
        from(x) == rest[Len(rest) - filled(x) - (last(x) - x)]
        starts == {x \in empty : x = first(x) \/ from(x) # from(x - 1) + 1}
    IN  [x \in {y \in empty : Cardinality({z \in starts : z <= y}) <= MaxMoves} |-> from(x)]

Defrag(k) ==
    LET plan == DefragPlan(k.cells)
        moved == FoldSet(LAMBDA x, c : Mv(c, plan[x], x), k.cells, DOMAIN plan)
    IN  IF DOMAIN plan = {} THEN k
        ELSE [cells |-> moved, head |-> 0,
              data |-> [i \in moved.used |-> k.data[IF i \in DOMAIN plan THEN plan[i] ELSE i]]]

Update(k, optimize) ==
    LET shifted == IF k.cells.hasShift THEN KShift(k) ELSE k
    IN  IF optimize THEN Defrag(shifted) ELSE shifted

-----------------------------------------------------------------------------
(* Decoding                                                                *)

\* The positions of a batch follow those its sequences have.
Positioned(c, b) ==
    [j \in 1..Len(b) |-> [seq |-> b[j],
        pos |-> SeqPosMax(c, b[j]) + Cardinality({m \in 1..j : b[m] = b[j]})]]

\* The batch in pieces of NUbatch tokens.
Split(batch) ==
    [u \in 1..((Len(batch) + NUbatch - 1) \div NUbatch) |->
        SubSeq(batch, (u - 1) * NUbatch + 1, Min({u * NUbatch, Len(batch)}))]

FreshNames ==
    LET used == {kv.data[i].tok : i \in kv.cells.used}
                  \cup (IF saved = NoState THEN {} ELSE {saved[j].tok : j \in 1..Len(saved)})
    IN  Sorted(Names \ used)

\* Ubatches 1 to n are placed and computed; the names of their tokens start
\* at the first fresh one.
Computed(plan, ubs, n) ==
    LET Step(k, u) ==
            LET h == plan.heads[u]
                slot == h..h+Len(ubs[u])-1
                key(i) == [tok |-> FreshNames[(u - 1) * NUbatch + i - h + 1],
                           rot |-> ubs[u][i-h+1].pos, lost |-> 0]
            IN  [ApplyUbatch(k, h, ubs[u]) EXCEPT
                    !.data = [i \in slot \cup DOMAIN @ |-> IF i \in slot THEN key(i) ELSE @[i]]]
    IN  FoldLeft(Step, plan.kv, [u \in 1..n |-> u])

\* Mutant: one position for all its sequences.
DroppedAlike(k, h, ub) ==
    FoldSet(LAMBDA s, acc : SeqRemove(acc, s, Min({ub[j].pos : j \in 1..Len(ub)}), -1),
            ApplyUbatch(k, h, ub), {ub[j].seq : j \in 1..Len(ub)})

\* An ubatch whose computation fails leaves its cells again, and all that
\* comes after it in its sequences.
Dropped(k, h, ub) ==
    FoldSet(LAMBDA s, acc : SeqRemove(acc, s, Min({ub[j].pos : j \in {m \in 1..Len(ub) : ub[m].seq = s}}), -1),
            ApplyUbatch(k, h, ub), {ub[j].seq : j \in 1..Len(ub)})

\* Mutant: no second try.
RetriedNever(once, ubs) == once

\* The pending shift is applied; if then there is no room, the cells are
\* compacted, and if that moved any it is tried once more.
Retried(once, ubs) ==
    IF once.ok \/ DOMAIN DefragPlan(once.kv.cells) = {}
    THEN once ELSE Prepare(Update(once.kv, TRUE), ubs)

Planned(k, ubs) == Retried(Prepare(Update(k, FALSE), ubs), ubs)

\* llama_decode of batch b; a computation may fail after n ubatches.
Decode(b) ==
    \E batch \in {Positioned(kv.cells, b)} :
    \E ubs \in {Split(batch)} :
    \E plan \in {Planned(kv, ubs)} :
        /\ \A j \in 1..Len(batch) : batch[j].pos <= MaxPos
        /\ UNCHANGED <<saved, mode>>
        /\ \/ /\ ~plan.ok
              /\ kv' = Held(plan.kv)
              /\ ret' = [code |-> "no slot", need |-> Len(b)]
           \/ /\ plan.ok
              /\ kv' = Held(Computed(plan, ubs, Len(ubs)))
              /\ ret' = [code |-> "ok", need |-> Len(b)]
           \/ /\ plan.ok
              /\ \E n \in 0..Len(ubs)-1 :
                     kv' = Held(Dropped(Computed(plan, ubs, n), plan.heads[n+1], ubs[n+1]))
              /\ ret' = [code |-> "failed", need |-> Len(b)]

-----------------------------------------------------------------------------
(* Saving and restoring a state                                            *)

\* The shift that is pending is not written, nor applied before.
Save ==
    LET cell(i) == [pos |-> kv.cells.pos[i], seq |-> kv.cells.seq[i],
                    tok |-> kv.data[i].tok, rot |-> kv.data[i].rot,
                    lost |-> kv.data[i].lost + kv.cells.shift[i]]
        order == Sorted(kv.cells.used)
    IN  /\ Len(order) <= MaxSaved
        /\ saved' = [j \in 1..Len(order) |-> cell(order[j])]
        /\ ret' = [code |-> "ok", need |-> 0]
        /\ UNCHANGED <<kv, mode>>

\* The saved cells are put in order from cell 0 on.
Restore ==
    LET Put(c, j) == FoldSet(LAMBDA s, acc : SeqAdd(acc, j - 1, s),
                             PosSet(c, j - 1, saved[j].pos), saved[j].seq)
    IN  /\ saved # NoState
        /\ kv' = [cells |-> Each(Put, Reset, 1..Len(saved)), head |-> 0,
                  data |-> [i \in 0..Len(saved)-1 |-> [tok |-> saved[i+1].tok, rot |-> saved[i+1].rot,
                                                        lost |-> saved[i+1].lost]]]
        /\ Done

\* A state that cannot be read leaves an empty cache.
RestoreFails == saved # NoState /\ Clear

Next ==
    \/ Clear
    \/ mode.saves /\ (Save \/ Restore \/ RestoreFails)
    \/ \E r \in Ranges : RemoveAny(r)
    \/ \E s \in mode.seqs : KeepSeq(s)
    \/ \E s \in mode.seqs, r \in Ranges : RemoveSeq(s, r)
    \/ \E s, t \in mode.seqs, r \in Ranges : CopySeq(s, t, r)
    \/ mode.shifts /\ \E s \in mode.seqs, r \in Ranges, d \in Shifts : ShiftSeq(s, r, d)
    \/ mode.divides /\ \E s \in mode.seqs, r \in Ranges, d \in Divisors : DivideSeq(s, r, d)
    \/ \E b \in Batches \cap Seq(mode.seqs) : Decode(b)

Spec == Init /\ [][Next]_vars

-----------------------------------------------------------------------------
(* Properties                                                              *)

\* Types.
TypeOK ==
    /\ CellsType(kv.cells)
    /\ kv.head \in 0..NCells
    /\ \A i \in kv.cells.used : kv.data[i].tok \in Names

\* The two indexes that the methods of the cells keep by hand are exact: the
\* cells in use, and how often each sequence has each position.
IndexesExact ==
    LET c == kv.cells
    IN  /\ c.used = {i \in Cell : ~IsEmpty(c, i)}
        /\ \A s \in Seqs :
               /\ BagToSet(c.seqPos[s]) = {c.pos[i] : i \in {j \in Cell : s \in c.seq[j]}}
               /\ \A p \in BagToSet(c.seqPos[s]) :
                      c.seqPos[s][p] = Cardinality({i \in Cell : s \in c.seq[i] /\ c.pos[i] = p})

\* Once the pending shifts are applied each key is rotated for the position
\* of its token, though shifts add up, tokens share cells, and cells are moved
\* and reused (the comment on shift in llama-kv-cells.h), but for exactly the
\* shifts that were pending when a state was saved: those are lost for good.
\* Not if positions are divided: pos_div adds its shift with the other sign.
RotationTracked ==
    ~mode.divides =>
        \A i \in kv.cells.used :
            kv.data[i].rot + kv.cells.shift[i] + kv.data[i].lost = kv.cells.pos[i]

\* A batch is refused only if its tokens and those in the cache are more than
\* there are cells: one compaction uses the holes that earlier calls have left,
\* where it may make enough moves.
RefusedOnlyIfFull ==
    [][ret'.code = "no slot" => Cardinality(kv.cells.used)' + ret'.need > NCells]_vars

Contiguous(s) ==
    LET P == BagToSet(kv.cells.seqPos[s])
    IN  P = {} \/ P = Min(P)..Max(P)

\* A batch that is decoded leaves no hole in a sequence that had none, though
\* tokens out of the window are overwritten wherever they are (the note in
\* apply_ubatch).
NoNewHoles ==
    [][ret'.code = "ok" /\ ret'.need > 0 =>
           \A s \in Seqs : Contiguous(s) => Contiguous(s)']_vars

\* What the sequences hold: a token of two sequences is in each.
Tokens(n, pos(_), seq(_), tok(_)) ==
    UNION {{[seq |-> s, pos |-> pos(i), tok |-> tok(i)] : s \in seq(i)} : i \in n}

Store == INSTANCE KvStore WITH
    store <- Tokens(kv.cells.used, LAMBDA i : kv.cells.pos[i], LAMBDA i : kv.cells.seq[i],
                    LAMBDA i : kv.data[i].tok),
    saved <- IF saved = NoState THEN NoState
             ELSE Tokens(1..Len(saved), LAMBDA j : saved[j].pos, LAMBDA j : saved[j].seq,
                         LAMBDA j : saved[j].tok),
    window <- [type |-> mode.type, n |-> mode.n]

\* The cache implements the store: searching, wrapping, purging, compacting,
\* rotating, and giving back what a failed batch took never show in what the
\* sequences hold.
ImplementsStore == Store!Spec
=============================================================================
