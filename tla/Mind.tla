--------------------------------- MODULE Mind ---------------------------------
(***************************************************************************)
(* The reasoning and attention of src/opencog over one space of atoms:     *)
(* PLNTensorEngine and ECANAttentionSystem, called one operation at a time. *)
(* A forward chain is a step for each turn of its loop. The attention bank *)
(* keeps tensors of its own that are never copied to or from the atoms, so *)
(* rent, funding and bounds touch no state of this model.                  *)
(***************************************************************************)
EXTENDS PlnRules, FiniteSets

CONSTANTS
    Names,       \* of concepts
    GivenLinks,  \* the links that clients add: [source, target, truth]
    Threshold,   \* default_confidence_threshold_, in percent
    FocusSize,   \* attentional_focus_size_
    Intensities, \* of a stimulus, in thousandths
    SpreadingRate, \* spreading_rate_, in thousandths
    MaxAtoms,    \* bound: what the memory pool holds; beyond, the program ends
    PremiseLists, \* bound: the premises of a forward chain
    MaxSteps,    \* bound on its max_steps
    Plans        \* bounds to explore together: [links, stimuli, chains, premises],
                 \* on the links that clients add, the calls of attention and of
                 \* inference, and the premises of one forward chain

ASSUME MindAssumption ==
    /\ Threshold \in Nat /\ FocusSize \in Nat /\ SpreadingRate \in Nat /\ Intensities \subseteq Nat
    /\ GivenLinks \subseteq [source : Nat, target : Nat, truth : [strength : Percents, confidence : Percents]]
    /\ MaxAtoms \in Nat /\ MaxSteps \in Nat /\ PremiseLists \subseteq Seq(Nat)
    /\ Plans \subseteq [links : Nat, stimuli : Nat, chains : Nat, premises : Nat]

VARIABLES
    space,      \* the atoms
    chain,      \* the forward chain: [pc, working, steps, result]
    given,      \* ghost: the links that clients added
    stimulated, \* ghost: the atoms whose attention clients raised or spread
    stimuli,    \* how many calls of attention there were
    plan,       \* the bounds of this behaviour
    chains      \* how many calls of inference there were

vars == <<space, chain, given, stimulated, stimuli, chains, plan>>

NoResult == [success |-> FALSE, conclusion |-> INVALID_HANDLE, truth |-> Truth(0, 0), trail |-> <<>>]
Idle == [pc |-> "idle", working |-> <<>>, steps |-> 0, result |-> NoResult]

Init ==
    /\ space = EmptySpace
    /\ chain = Idle
    /\ given = {}
    /\ stimulated = {}
    /\ stimuli = 0
    /\ chains = 0
    /\ plan \in Plans

HasRoom == Len(space.atoms) < MaxAtoms

NewConcept(name) ==
    /\ chain.pc = "idle" /\ HasRoom
    /\ space' = AddConcept(space, name)
    /\ UNCHANGED <<chain, given, stimulated, stimuli, chains, plan>>

NewLink(source, target, truth) ==
    /\ chain.pc = "idle" /\ HasRoom /\ Cardinality(given) < plan.links
    /\ space' = AddInheritance(space, source, target, truth)
    /\ given' = given \cup (Links(space') \ Links(space))
    /\ UNCHANGED <<chain, stimulated, stimuli, chains, plan>>

-----------------------------------------------------------------------------
(* Attention *)

\* focus_on_atom, which is also external_stimulus.
FocusOn(h, intensity) ==
    /\ chain.pc = "idle" /\ stimuli < plan.stimuli
    /\ space' = UpdateAttention(space, h, intensity)
    /\ stimulated' = stimulated \cup {h}
    /\ stimuli' = stimuli + 1
    /\ UNCHANGED <<chain, given, chains, plan>>

Spread(h, amount) ==
    /\ chain.pc = "idle" /\ stimuli < plan.stimuli
    /\ space' = SpreadActivation(space, h, amount)
    /\ stimulated' = stimulated \cup {h}
    /\ stimuli' = stimuli + 1
    /\ UNCHANGED <<chain, given, chains, plan>>

\* get_attentional_focus of the bank: the FocusSize highest of the atoms with
\* at least half importance, equal ones in any order.
Focuses ==
    LET high == Attentional(space, 500)
    IN  {focus \in SUBSET high :
            /\ Cardinality(focus) = Lower(FocusSize, Cardinality(high))
            /\ \A h \in focus, other \in high \ focus : space.atoms[h].sti >= space.atoms[other].sti}

Diffused(focus) ==
    FoldSet(LAMBDA h, sp : SpreadActivation(sp, h, SpreadingRate), space, focus)

\* forgetting_rate_ is one percent.
Forgotten(sp) ==
    [sp EXCEPT !.atoms = [h \in Handles(sp) |->
        IF sp.atoms[h].sti < 100 THEN [sp.atoms[h] EXCEPT !.sti = (sp.atoms[h].sti * 99) \div 100]
        ELSE sp.atoms[h]]]

\* run_cycle: diffusion and forgetting; the agents do nothing.
RunCycle ==
    /\ chain.pc = "idle" /\ stimuli < plan.stimuli
    /\ \E focus \in Focuses : space' = Forgotten(Diffused(focus))
    /\ stimuli' = stimuli + 1
    /\ UNCHANGED <<chain, given, stimulated, chains, plan>>

-----------------------------------------------------------------------------
(* Inference *)

StartForwardChain(premises, max_steps) ==
    /\ chain.pc = "idle" /\ chains < plan.chains /\ Len(premises) <= plan.premises
    /\ \A i \in 1..Len(premises) : premises[i] \in Handles(space)
    /\ chain' = [Idle EXCEPT !.pc = "running", !.working = premises, !.steps = max_steps]
    /\ chains' = chains + 1
    /\ UNCHANGED <<space, given, stimulated, stimuli, plan>>

\* A result that ends the search of one step.
Concludes(r) == r.success /\ r.truth.confidence >= Threshold

Attempt(r, rule, h1, h2) == IF Concludes(r) THEN r ELSE ApplyRule(r.space, rule, h1, h2, Threshold)

\* The rules in turn on one pair of the working set, and on each pair i < j.
TriedOn(r, h1, h2) == FoldLeft(LAMBDA q, rule : Attempt(q, rule, h1, h2), r, Rules)

TriedFrom(r, working, i) ==
    FoldLeftDomain(LAMBDA q, j : IF i < j THEN TriedOn(q, working[i], working[j]) ELSE q, r, working)

\* Try the pairs of the working set until one concludes with confidence. A
\* revision on the way that stays below the threshold is kept all the same.
Tried(working) == FoldLeftDomain(LAMBDA r, i : TriedFrom(r, working, i), Failure(space), working)

ForwardStep ==
    /\ chain.pc = "running" /\ chain.steps > 0
    /\ \E r \in {Tried(chain.working)} :
           /\ Len(r.space.atoms) <= MaxAtoms
           /\ space' = r.space
           /\ chain' = IF ~Concludes(r) THEN [chain EXCEPT !.pc = "done"]
                       ELSE [chain EXCEPT
                                !.working = Append(@, r.conclusion), !.steps = @ - 1,
                                !.result = [success |-> TRUE, conclusion |-> r.conclusion, truth |-> r.truth,
                                            trail |-> Append(@.trail, r.conclusion)]]
    /\ UNCHANGED <<given, stimulated, stimuli, chains, plan>>

StepsUsed ==
    /\ chain.pc = "running" /\ chain.steps = 0
    /\ chain' = [chain EXCEPT !.pc = "done"]
    /\ UNCHANGED <<space, given, stimulated, stimuli, chains, plan>>

Return ==
    /\ chain.pc = "done"
    /\ chain' = Idle
    /\ UNCHANGED <<space, given, stimulated, stimuli, chains, plan>>

\* The focus of 0.1 by falling importance, equal ones in any order; only its
\* links can be premises.
FocusOrders ==
    {order \in SetToSeqs(Attentional(space, 100) \cap Links(space)) :
        \A i, j \in DOMAIN order : i < j => space.atoms[order[i]].sti >= space.atoms[order[j]].sti}

DeducedFrom(sp, order, i) ==
    FoldLeftDomain(LAMBDA q, j : IF i < j THEN ApplyRule(q, "deduction", order[i], order[j], Threshold).space ELSE q,
                   sp, order)

\* Every pair i < j of the focus.
Deduced(order) == FoldLeftDomain(LAMBDA sp, i : DeducedFrom(sp, order, i), space, order)

\* A target that is not known well enough: every pair of the focus that chains
\* adds its link, and none of them is the target, since a link is always new.
BackwardChain(target) ==
    /\ chain.pc = "idle" /\ chains < plan.chains
    /\ target \in Handles(space)
    /\ space.atoms[target].truth.confidence < Threshold
    /\ \E order \in FocusOrders : space' = Deduced(order)
    /\ Len(space'.atoms) <= MaxAtoms
    /\ chains' = chains + 1
    /\ UNCHANGED <<chain, given, stimulated, stimuli, plan>>

Next ==
    \/ \E name \in Names : NewConcept(name)
    \/ \E l \in GivenLinks : NewLink(l.source, l.target, l.truth)
    \/ \E h \in Handles(space), intensity \in Intensities : FocusOn(h, intensity) \/ Spread(h, intensity)
    \/ RunCycle
    \/ \E premises \in PremiseLists, n \in 1..MaxSteps : StartForwardChain(premises, n)
    \/ ForwardStep \/ StepsUsed \/ Return
    \/ \E target \in Handles(space) : BackwardChain(target)

Spec == Init /\ [][Next]_vars

-----------------------------------------------------------------------------
(* Properties *)

Confident(sp, h) == h \in Handles(sp) /\ sp.atoms[h].truth.confidence >= Lower(Threshold, 99)

\* Every variable has its type; truth values stay within their range whatever
\* formulas they go through.
TypeOK ==
    /\ \A h \in Handles(space) :
           /\ space.atoms[h].type \in {"concept", "link"}
           /\ space.atoms[h].truth \in [strength : Percents, confidence : Percents]
           /\ space.atoms[h].sti \in Nat
    /\ DOMAIN space.names \subseteq Names
    /\ chain.pc \in {"idle", "running", "done"}
    /\ chain.steps \in 0..MaxSteps
    /\ given \subseteq Links(space)
    /\ stimulated \subseteq Handles(space)
    /\ stimuli \in 0..plan.stimuli
    /\ chains \in 0..plan.chains

\* The index and the link lists of add_concept and add_inheritance tell what
\* atoms there are, after any mix of calls.
AtomsAgree == SpaceConsistent(space)

\* A set that no link among these leads into or out of.
Apart(S, links) == \A l \in links : space.atoms[l].source \in S <=> space.atoms[l].target \in S

\* A conclusion, however many inferences deep and by whichever rule, joins two
\* atoms that the links given by clients connect: it crosses the border of no
\* set that those do not cross.
ConclusionsFollow ==
    \A S \in SUBSET Handles(space) : Apart(S, given) => Apart(S, Links(space) \ given)

\* What a forward chain returns is what the space holds when it returns, and
\* what it concluded on the way is still held with confidence: revisions of the
\* pairs it tries again at every step, those below the threshold among them,
\* take nothing back, but that a certain truth becomes one of 99 percent.
ResultIsStored ==
    chain.pc = "done" /\ chain.result.success =>
        /\ space.atoms[chain.result.conclusion].truth = chain.result.truth
        /\ chain.result.truth.confidence >= Threshold
        /\ \A i \in 1..Len(chain.result.trail) : Confident(space, chain.result.trail[i])

\* A chain that has concluded once concludes in every step it has left: what it
\* revises without concluding never spoils the pair that concluded, so that
\* forward_chain gives up for want of progress in its first step or never.
GoesOn == chain.pc = "done" /\ chain.result.success => chain.steps = 0

\* An atom has importance only if clients raised it, or if links lead to it
\* from an atom that they raised or spread from: it is in every set that has
\* these atoms and, with an atom, the ones its links lead to.
AttentionFollowsLinks ==
    \A S \in SUBSET Handles(space) :
        /\ stimulated \subseteq S
        /\ \A l \in Links(space) : space.atoms[l].source \in S => space.atoms[l].target \in S
        => Attentional(space, 1) \subseteq S
=============================================================================
