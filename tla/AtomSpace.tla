------------------------------- MODULE AtomSpace -------------------------------
(***************************************************************************)
(* TensorAtomSpace of src/opencog: concepts with unique names, inheritance *)
(* links between atoms, and the short-term importance of each atom. Atoms  *)
(* are never removed and handles are given out in order, so the atoms are a *)
(* sequence and a handle is a position in it; 0 is INVALID_HANDLE. Truth    *)
(* values are in percent, importance in thousandths. The tensors, which no *)
(* decision of the program reads, are left out.                            *)
(***************************************************************************)
EXTENDS Integers, SequencesExt

INVALID_HANDLE == 0

\* A space: the atoms and name_index_, whose domain is the names in use.
EmptySpace == [atoms |-> <<>>, names |-> <<>>]

Percents == 0..100

DefaultTruth == [strength |-> 50, confidence |-> 50]

Handles(space) == 1..Len(space.atoms)
IsLink(space, h) == h \in Handles(space) /\ space.atoms[h].type = "link"
Links(space) == {h \in Handles(space) : IsLink(space, h)}

Concept(name) ==
    [type |-> "concept", name |-> name, source |-> INVALID_HANDLE, target |-> INVALID_HANDLE,
     truth |-> DefaultTruth, sti |-> 0, incoming |-> <<>>, outgoing |-> <<>>]

Inheritance(source, target, truth) ==
    [type |-> "link", name |-> "InheritanceLink", source |-> source, target |-> target,
     truth |-> truth, sti |-> 0, incoming |-> <<>>, outgoing |-> <<>>]

\* Mutant: every concept is new.
AddConceptAgain(space, name) ==
    [atoms |-> Append(space.atoms, Concept(name)),
     names |-> [n \in DOMAIN space.names \cup {name} |->
                   IF n = name THEN Len(space.atoms) + 1 ELSE space.names[n]]]

\* A concept of that name, unless there is one.
AddConcept(space, name) ==
    IF name \in DOMAIN space.names THEN space
    ELSE [atoms |-> Append(space.atoms, Concept(name)),
          names |-> [n \in DOMAIN space.names \cup {name} |->
                        IF n = name THEN Len(space.atoms) + 1 ELSE space.names[n]]]

\* A link between two atoms there are, also where there is one already.
AddInheritance(space, source, target, truth) ==
    LET link == Len(space.atoms) + 1
        Joined(h) == [space.atoms[h] EXCEPT !.outgoing = IF h = source THEN Append(@, link) ELSE @,
                                            !.incoming = IF h = target THEN Append(@, link) ELSE @]
    IN  IF ~({source, target} \subseteq Handles(space)) THEN space
        ELSE [atoms |-> Append([h \in Handles(space) |-> Joined(h)], Inheritance(source, target, truth)),
              names |-> space.names]

UpdateAttention(space, h, sti) ==
    IF h \notin Handles(space) THEN space ELSE [space EXCEPT !.atoms[h].sti = sti]

\* Mutant: the link itself is activated, not the atom it leads to.
SpreadOnceOnLink(space, link, amount) ==
    [space EXCEPT !.atoms[link].sti = @ + (amount * space.atoms[link].truth.strength) \div 1000]

\* One link's share: a tenth of the amount, by the strength of the link.
SpreadOnce(space, link, amount) ==
    [space EXCEPT !.atoms[space.atoms[link].target].sti = @ + (amount * space.atoms[link].truth.strength) \div 1000]

SpreadActivation(space, h, amount) ==
    IF h \notin Handles(space) THEN space
    ELSE FoldLeft(LAMBDA sp, link : SpreadOnce(sp, link, amount), space, space.atoms[h].outgoing)

\* The atoms of at least that importance.
Attentional(space, threshold) == {h \in Handles(space) : space.atoms[h].sti >= threshold}

-----------------------------------------------------------------------------

\* A list of links has exactly these, the older before the newer.
Lists(list, links) == Range(list) = links /\ \A i, j \in DOMAIN list : i < j => list[i] < list[j]

\* Every concept is in the index under its name and nothing else is; each link
\* connects two atoms older than it, and the incoming and outgoing lists hold
\* exactly the links there are.
SpaceConsistent(space) ==
    /\ \A h \in Handles(space) \ Links(space) :
           space.atoms[h].name \in DOMAIN space.names /\ space.names[space.atoms[h].name] = h
    /\ \A n \in DOMAIN space.names : space.names[n] \in Handles(space) \ Links(space)
    /\ \A l \in Links(space) : space.atoms[l].source \in 1..(l - 1) /\ space.atoms[l].target \in 1..(l - 1)
    /\ \A h \in Handles(space) :
           /\ Lists(space.atoms[h].outgoing, {l \in Links(space) : space.atoms[l].source = h})
           /\ Lists(space.atoms[h].incoming, {l \in Links(space) : space.atoms[l].target = h})
=============================================================================
