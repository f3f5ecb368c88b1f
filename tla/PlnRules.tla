------------------------------- MODULE PlnRules --------------------------------
(***************************************************************************)
(* The inference rules of src/opencog/reasoning on a space of atoms. The   *)
(* formulas compute in whole percents, rounded down.                       *)
(***************************************************************************)
EXTENDS AtomSpace

Rules == <<"deduction", "induction", "abduction", "revision">>

Higher(a, b) == IF a >= b THEN a ELSE b
Lower(a, b) == IF a <= b THEN a ELSE b

Truth(strength, confidence) == [strength |-> strength, confidence |-> confidence]

\* Mutant: the mean of the two.
TogetherMean(c1, c2) == (c1 + c2) \div 2

\* The weight of evidence c / (1 - c) behind a confidence, and the confidence
\* of two such weights together: w / (w + 1).
Together(c1, c2) ==
    IF c1 = 100 \/ c2 = 100 THEN 99
    ELSE (100 * (c1 * (100 - c2) + c2 * (100 - c1)))
         \div (c1 * (100 - c2) + c2 * (100 - c1) + (100 - c1) * (100 - c2))

Weighed(t1, t2) ==
    LET w1 == t1.confidence * (100 - t2.confidence)
        w2 == t2.confidence * (100 - t1.confidence)
    IN  IF w1 + w2 > 0 THEN (t1.strength * w1 + t2.strength * w2) \div (w1 + w2)
        ELSE IF t1.confidence = 0 THEN 50 ELSE (t1.strength + t2.strength) \div 2

\* Mutant: the percents of a product are not scaled back.
FormulaUnscaled(rule, t1, t2) ==
    IF rule = "revision" THEN Truth(Weighed(t1, t2), Together(t1.confidence, t2.confidence))
    ELSE Truth((t1.strength * t2.strength) \div 100, (t1.confidence * t2.confidence) \div 50)

Formula(rule, t1, t2) ==
    LET both == t1.confidence * t2.confidence
        product == (t1.strength * t2.strength) \div 100
    IN  CASE rule = "deduction" -> Truth(product, (both * Higher(t1.strength, t2.strength)) \div 10000)
          [] rule = "induction" -> Truth(product, (both * (100 - Higher(t1.strength, t2.strength))) \div 10000)
          [] rule = "abduction" -> Truth(product, (both * (100 - Lower(t1.strength, t2.strength))) \div 10000)
          [] rule = "revision" -> Truth(Weighed(t1, t2), Together(t1.confidence, t2.confidence))

\* Mutant: any two links chain.
MatchesAny(space, rule, h1, h2) == IsLink(space, h1) /\ IsLink(space, h2) /\ rule # "revision"

\* The patterns A->B, B->C and A->B, A->C and A->C, B->C; revision takes any two
\* atoms of one type.
Matches(space, rule, h1, h2) ==
    IF rule = "revision"
    THEN {h1, h2} \subseteq Handles(space) /\ space.atoms[h1].type = space.atoms[h2].type
    ELSE /\ IsLink(space, h1) /\ IsLink(space, h2)
         /\ CASE rule = "deduction" -> space.atoms[h1].target = space.atoms[h2].source
              [] rule = "induction" -> space.atoms[h1].source = space.atoms[h2].source
              [] rule = "abduction" -> space.atoms[h1].target = space.atoms[h2].target

\* The end points of what a rule concludes: A->C, B->C, A->B.
Ends(space, rule, h1, h2) ==
    CASE rule = "deduction" -> <<space.atoms[h1].source, space.atoms[h2].target>>
      [] rule = "induction" -> <<space.atoms[h1].target, space.atoms[h2].target>>
      [] rule = "abduction" -> <<space.atoms[h1].source, space.atoms[h2].source>>

Failure(space) == [space |-> space, success |-> FALSE, conclusion |-> INVALID_HANDLE, truth |-> Truth(0, 0)]

Success(space, h, truth) == [space |-> space, success |-> TRUE, conclusion |-> h, truth |-> truth]

\* try_deduction, try_induction, try_abduction: a new link if the confidence
\* is enough.
TryLink(space, rule, h1, h2, threshold) ==
    LET truth == Formula(rule, space.atoms[h1].truth, space.atoms[h2].truth)
        ends == Ends(space, rule, h1, h2)
    IN  IF truth.confidence < threshold THEN Failure(space)
        ELSE Success(AddInheritance(space, ends[1], ends[2], truth), Len(space.atoms) + 1, truth)

\* Mutant: the truth of the second premise is revised.
TryRevisionSecond(space, h1, h2) ==
    LET truth == Formula("revision", space.atoms[h1].truth, space.atoms[h2].truth)
    IN  Success([space EXCEPT !.atoms[h2].truth = truth], h1, truth)

\* try_revision: the first premise takes the revised truth, whatever it is and
\* whether or not the two are about the same.
TryRevision(space, h1, h2) ==
    LET truth == Formula("revision", space.atoms[h1].truth, space.atoms[h2].truth)
    IN  Success([space EXCEPT !.atoms[h1].truth = truth], h1, truth)

ApplyRule(space, rule, h1, h2, threshold) ==
    IF ~Matches(space, rule, h1, h2) THEN Failure(space)
    ELSE IF rule = "revision" THEN TryRevision(space, h1, h2)
    ELSE TryLink(space, rule, h1, h2, threshold)
=============================================================================
