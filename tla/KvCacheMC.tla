------------------------------ MODULE KvCacheMC ------------------------------
(***************************************************************************)
(* Arguments for checking KvCache: batches of one sequence and of two, the *)
(* ranges a caller names, no window and small ones.                        *)
(***************************************************************************)
EXTENDS KvCache

SomeBatches == {<<0>>, <<0, 0, 0>>, <<1, 0>>, <<0, 0, 1>>}

SomeRanges == {<<1, 2>>, <<2, -1>>}

SomeShifts == {-2}

\* One sequence that is shifted and saved, as the server uses the cache; one
\* that is divided; and two that share cells.
Alone(type, n) ==
    [type |-> type, n |-> n, seqs |-> {0}, shifts |-> TRUE, divides |-> FALSE, saves |-> TRUE]
Divided(type, n) ==
    [type |-> type, n |-> n, seqs |-> {0}, shifts |-> FALSE, divides |-> TRUE, saves |-> FALSE]
Shared(type, n) ==
    [type |-> type, n |-> n, seqs |-> {0, 1}, shifts |-> FALSE, divides |-> FALSE, saves |-> FALSE]

SomeModes == {Alone("none", 1), Alone("standard", 2), Divided("none", 1),
              Shared("none", 1), Shared("chunked", 2)}

\* Names of tokens matter only in so far as a token in the cache is a saved one.
SavedAs(i) == IF saved = NoState THEN {} ELSE {j \in 1..Len(saved) : saved[j].tok = kv.data[i].tok}

\* The last return value is not read.
Essence ==
    <<kv.cells, kv.head, {<<i, kv.data[i].rot, kv.data[i].lost, SavedAs(i)>> : i \in kv.cells.used},
      kv.data = kv.data, mode,
      IF saved = NoState THEN saved ELSE [j \in 1..Len(saved) |-> [saved[j] EXCEPT !.tok = 0]]>>
=============================================================================
