-------------------------------- MODULE MindMC --------------------------------
(* Instances of Mind for TLC: the links that are added, by the order of the *)
(* atoms, and the symmetry of the names, which nothing compares.            *)
EXTENDS Mind

Link(source, target, truth) == [source |-> source, target |-> target, truth |-> truth]

\* Two that chain, one apart from the first, and a doubtful one.
SomeLinks == {Link(1, 2, Truth(80, 90)), Link(2, 3, Truth(80, 90)), Link(3, 3, Truth(50, 90)),
              Link(3, 2, Truth(20, 20))}

\* Any two atoms, and four of the first five.
SomePremises == [1..2 -> 1..7] \cup {p \in [1..4 -> 1..5] : IsInjective(p)}

Plan(l, s, c, p) == [links |-> l, stimuli |-> s, chains |-> c, premises |-> p]
SomePlans == {Plan(2, 2, 1, 2), Plan(2, 0, 2, 2), Plan(3, 0, 1, 2), Plan(2, 0, 1, 4)}

NameSymmetry == Permutations(Names)
=============================================================================
