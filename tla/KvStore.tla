------------------------------- MODULE KvStore -------------------------------
(***************************************************************************)
(* What the KV cache promises its callers: each sequence is a set of       *)
(* tokens at positions, which changes as the calls say and by nothing      *)
(* else. Where a token is kept, when room is made and when keys are        *)
(* rotated does not show. A batch is taken in up to some token, and may    *)
(* push out what the attention window already hides.                       *)
(***************************************************************************)
EXTENDS Integers, Sequences, FiniteSets

CONSTANTS NSeqs,   \* the number of sequences
          Batches, \* the batches clients decode, as the sequence of each token
          Ranges, Shifts, Divisors, \* the arguments clients give
          NoState  \* nothing is saved

VARIABLES store,   \* the tokens, [seq, pos, tok]: a token of two sequences twice
          saved,   \* the tokens last saved, or NoState
          window   \* the attention window: [type, n]

vars == <<store, saved, window>>

Seqs == 0..NSeqs-1

\* A token at position p1 does not attend to one at position p0.
Hidden(p0, p1) ==
    \/ window.type = "standard" /\ p1 - p0 >= window.n
    \/ window.type = "chunked" /\ p0 < (p1 \div window.n) * window.n

Within(e, p0, p1) == e.pos >= p0 /\ (p1 < 0 \/ e.pos < p1)

Positions(s) == {e.pos : e \in {f \in store : f.seq = s}}

\* The position that comes after those of sequence s.
NextPos(s) ==
    IF Positions(s) = {} THEN 0
    ELSE 1 + CHOOSE p \in Positions(s) : \A q \in Positions(s) : q <= p

Count(b, k, s) == Cardinality({j \in 1..k : b[j] = s})

Place(b, j) == [seq |-> b[j], pos |-> NextPos(b[j]) + Count(b, j - 1, b[j])]

Init == store = {} /\ saved = NoState

Clear == store' = {} /\ UNCHANGED saved

Remove(s, p0, p1) ==
    /\ store' = {e \in store : ~(e.seq = s /\ Within(e, p0, p1))}
    /\ UNCHANGED saved

RemoveAny(p0, p1) == store' = {e \in store : ~Within(e, p0, p1)} /\ UNCHANGED saved

Copy(a, b, p0, p1) ==
    /\ store' = store \cup {[e EXCEPT !.seq = b] : e \in {f \in store : f.seq = a /\ Within(f, p0, p1)}}
    /\ UNCHANGED saved

Keep(s) == store' = {e \in store : e.seq = s} /\ UNCHANGED saved

\* A token that sequence s has in the range moves in all its sequences.
Move(s, p0, p1, To(_)) ==
    LET hit == {e.tok : e \in {f \in store : f.seq = s /\ Within(f, p0, p1)}}
    IN  /\ store' = {e \in store : e.tok \notin hit}
                      \cup {[e EXCEPT !.pos = To(@)] : e \in {f \in store : f.tok \in hit /\ To(f.pos) >= 0}}
        /\ UNCHANGED saved

\* What is lost makes room for a part of batch b, for its last token at the
\* latest: the window hides it from whatever follows in its sequence then.
Forgettable(b, e) == Hidden(e.pos, NextPos(e.seq) + Count(b, Len(b) - 1, e.seq))

\* The first k tokens of batch b are taken in.
Decode(b, k) ==
    LET new   == store' \ store
        names == {e.tok : e \in new}
        taken == {Place(b, j) : j \in 1..k}
        kept  == {[seq |-> e.seq, pos |-> e.pos] : e \in new}
    IN  /\ kept \subseteq taken
        /\ Cardinality(kept) = Cardinality(new) /\ Cardinality(names) = Cardinality(new)
        /\ \A e \in store : e.tok \notin names
        /\ saved # NoState => \A e \in saved : e.tok \notin names
        /\ \A e \in (store \ store') \cup (taken \ kept) : Forgettable(b, e)
        /\ UNCHANGED saved

Save == saved' = store /\ UNCHANGED store

\* A state is restored as a whole, or, if it cannot be read, all is lost.
Restore == saved # NoState /\ store' \in {saved, {}} /\ UNCHANGED saved

Next ==
    /\ UNCHANGED window
    /\ \/ Clear \/ Save \/ Restore
       \/ \E r \in Ranges : RemoveAny(r[1], r[2])
       \/ \E s \in Seqs : Keep(s)
       \/ \E s, t \in Seqs, r \in Ranges : Copy(s, t, r[1], r[2])
       \/ \E s \in Seqs, r \in Ranges : Remove(s, r[1], r[2])
       \/ \E s \in Seqs, r \in Ranges, d \in Shifts : Move(s, r[1], r[2], LAMBDA p : p + d)
       \/ \E s \in Seqs, r \in Ranges, d \in Divisors : Move(s, r[1], r[2], LAMBDA p : p \div d)
       \/ \E b \in Batches : \E k \in 0..Len(b) : Decode(b, k)

Spec == Init /\ [][Next]_vars
=============================================================================
