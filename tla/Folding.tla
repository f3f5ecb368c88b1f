-------------------------------- MODULE Folding --------------------------------
(***************************************************************************)
(* What a fold keeps: induction over the elements that are folded. The     *)
(* step, what it keeps and the order are constants of this module, so that *)
(* an INSTANCE makes the theorem one about the fold in question.           *)
(***************************************************************************)
EXTENDS Integers, FiniteSetTheorems, WellFoundedInduction, TLAPS

CONSTANTS Step(_, _, _, _, _),  \* the next element, the value so far, parameters
          Keeps(_, _, _, _, _), \* the value so far, the elements folded, parameters
          Pick(_)               \* the element of a set that is folded last

\* MapThenFoldSet of the community modules, under the FoldSet, FoldLeft and
\* FoldRight that the components use.
Folded(base, S, a, b, d) ==
    LET iter[s \in SUBSET S] ==
          IF s = {} THEN base
          ELSE LET x == Pick(s)
               IN  Step(x, iter[s \ {x}], a, b, d)
    IN  iter[S]

\* Induction on numbers, as a fact about sets.
LEMMA NatSet == ASSUME NEW S, 0 \in S, \A k \in S : k \in Nat => k + 1 \in S
                PROVE  Nat \subseteq S
<1>1. SUFFICES ASSUME NEW n \in Nat, n \notin S PROVE FALSE
  OBVIOUS
<1> DEFINE Out == {k \in 0..n : k \notin S}
           Below(k) == {j \in Out : j < k}
           T == {Below(k) : k \in Out}
<1>2. IsFiniteSet(Out)
  <2>1. IsFiniteSet(0..n)
    BY FS_Interval
  <2>2. Out \subseteq 0..n
    OBVIOUS
  <2> HIDE DEF Out
  <2> QED BY <2>1, <2>2, FS_Subset
<1>3. T \subseteq FiniteSubsetsOf(Out) /\ T # {}
  <2>1. n \in Out
    BY <1>1
  <2>2. \A k \in Out : Below(k) \subseteq Out /\ IsFiniteSet(Below(k))
    BY <1>2, FS_Subset
  <2> QED BY <2>1, <2>2 DEF FiniteSubsetsOf
<1>4. PICK k \in Out : \A j \in Out : ~(<<Below(j), Below(k)>> \in StrictSubsetOrdering(Out))
  <2>1. \E x \in T : \A y \in T : ~(<<y, x>> \in StrictSubsetOrdering(Out))
    BY <1>3, FS_StrictSubsetOrderingWellFounded, WFMin
  <2> QED BY <2>1
<1>5. k \in Nat /\ k # 0 /\ k \notin S
  BY <1>1
<1>6. k - 1 \in Out
  <2>1. k - 1 \in Nat /\ k - 1 <= n /\ (k - 1) + 1 = k
    BY <1>5
  <2> QED BY <1>5, <2>1
<1>7. Below(k - 1) \subseteq Below(k)
  BY <1>5
<1>8. k - 1 \in Below(k) /\ k - 1 \notin Below(k - 1)
  BY <1>5, <1>6
<1>9. Below(k - 1) # Below(k)
  BY <1>8
<1>10. Below(k - 1) \subseteq Out /\ Below(k) \subseteq Out
  OBVIOUS
<1> HIDE DEF Below, Out
<1>11. <<Below(k - 1), Below(k)>> \in StrictSubsetOrdering(Out)
  BY <1>7, <1>9, <1>10 DEF StrictSubsetOrdering
<1> QED BY <1>4, <1>6, <1>11

Recurs(f, base, S, a, b, d) ==
    f = [s \in SUBSET S |-> IF s = {} THEN base ELSE Step(Pick(s), f[s \ {Pick(s)}], a, b, d)]

\* The recursive definition under a fold defines what it seems to.
LEMMA FoldDefined ==
    ASSUME NEW base, NEW S, IsFiniteSet(S), NEW a, NEW b, NEW d,
           \A s \in SUBSET S : s # {} => Pick(s) \in s
    PROVE  \E f : Recurs(f, base, S, a, b, d)
<1> DEFINE Small(n) == {s \in SUBSET S : Cardinality(s) <= n}
           Next(f, s) == IF s = {} THEN base ELSE Step(Pick(s), f[s \ {Pick(s)}], a, b, d)
           Is(f, n) == f = [s \in Small(n) |-> Next(f, s)]
           Good == {n \in Nat : \E f : Is(f, n)}
<1>1. \A s \in SUBSET S : IsFiniteSet(s) /\ Cardinality(s) \in Nat /\ Cardinality(s) <= Cardinality(S)
  BY FS_Subset, FS_CardinalityType
<1>2. \A s \in SUBSET S : s # {} =>
        s \ {Pick(s)} \in SUBSET S /\ Cardinality(s \ {Pick(s)}) = Cardinality(s) - 1
  BY <1>1, FS_RemoveElement
<1>3. 0 \in Good
  <2> DEFINE f == [s \in Small(0) |-> base]
  <2>1. \A s \in Small(0) : s = {}
    BY <1>1, FS_EmptySet
  <2>2. Is(f, 0)
    BY <2>1
  <2> HIDE DEF f, Is
  <2> QED BY <2>2
<1>4. ASSUME NEW n \in Good, n \in Nat PROVE n + 1 \in Good
  <2>1. PICK f : Is(f, n)
    OBVIOUS
  <2> DEFINE g == [s \in Small(n + 1) |-> Next(f, s)]
  <2>2. \A s \in Small(n + 1) : Next(g, s) = Next(f, s)
    <3> SUFFICES ASSUME NEW s \in Small(n + 1) PROVE Next(g, s) = Next(f, s)
      OBVIOUS
    <3> SUFFICES ASSUME s # {} PROVE g[s \ {Pick(s)}] = f[s \ {Pick(s)}]
      <4> HIDE DEF g
      <4> QED OBVIOUS
    <3> DEFINE t == s \ {Pick(s)}
    <3>1. t \in Small(n) /\ t \in Small(n + 1)
      <4>1. Cardinality(s) \in Nat /\ Cardinality(s) <= n + 1
        BY <1>1
      <4>2. t \in SUBSET S /\ Cardinality(t) = Cardinality(s) - 1
        BY <1>2
      <4>3. Cardinality(t) <= n /\ Cardinality(t) <= n + 1
        BY <4>1, <4>2
      <4> QED BY <4>2, <4>3
    <3> HIDE DEF t
    <3>2. g[t] = Next(f, t)
      BY <3>1
    <3>3. f[t] = Next(f, t)
      BY <2>1, <3>1
    <3>4. g[t] = f[t]
      BY <3>2, <3>3
    <3> QED BY <3>4 DEF t
  <2>3. Is(g, n + 1)
    <3> HIDE DEF Next, Small
    <3> QED BY <2>2
  <2> HIDE DEF g, Is
  <2> QED BY <2>3
<1>5. Cardinality(S) \in Good
  <2> HIDE DEF Good
  <2>1. Nat \subseteq Good
    BY <1>3, <1>4, NatSet
  <2> QED BY <1>1, <2>1
<1>6. Small(Cardinality(S)) = SUBSET S
  BY <1>1
<1>7. PICK f : Is(f, Cardinality(S))
  BY <1>5
<1> QED BY <1>6, <1>7 DEF Recurs

\* It holds of the start, and a step keeps it.
Inductive(base, S, a, b, d) ==
    /\ IsFiniteSet(S)
    /\ \A s \in SUBSET S : s # {} => Pick(s) \in s
    /\ Keeps(base, {}, a, b, d)
    /\ \A s \in SUBSET S : s # {} =>
           \A acc : Keeps(acc, s \ {Pick(s)}, a, b, d) => Keeps(Step(Pick(s), acc, a, b, d), s, a, b, d)

\* Then it holds of the result.
LEMMA FoldKeeps ==
    ASSUME NEW base, NEW S, NEW a, NEW b, NEW d, Inductive(base, S, a, b, d)
    PROVE  Keeps(Folded(base, S, a, b, d), S, a, b, d)
<1> DEFINE iter == CHOOSE f : Recurs(f, base, S, a, b, d)
           Good == {n \in Nat : \A s \in SUBSET S : Cardinality(s) = n => Keeps(iter[s], s, a, b, d)}
<1>0. /\ IsFiniteSet(S)
      /\ \A s \in SUBSET S : s # {} => Pick(s) \in s
      /\ Keeps(base, {}, a, b, d)
      /\ \A s \in SUBSET S : s # {} =>
             \A acc : Keeps(acc, s \ {Pick(s)}, a, b, d) => Keeps(Step(Pick(s), acc, a, b, d), s, a, b, d)
  BY DEF Inductive
<1>1. Recurs(iter, base, S, a, b, d)
  BY <1>0, FoldDefined
<1>2. Folded(base, S, a, b, d) = iter[S]
  BY DEF Folded, Recurs
<1> HIDE DEF iter
<1>3. \A s \in SUBSET S : IsFiniteSet(s) /\ Cardinality(s) \in Nat
  BY <1>0, FS_Subset, FS_CardinalityType
<1>4. 0 \in Good
  <2>1. \A s \in SUBSET S : Cardinality(s) = 0 => s = {}
    BY <1>3, FS_EmptySet
  <2>2. iter[{}] = base
    BY <1>1 DEF Recurs
  <2> QED BY <1>0, <2>1, <2>2
<1>5. ASSUME NEW n \in Good, n \in Nat PROVE n + 1 \in Good
  <2> SUFFICES ASSUME NEW s \in SUBSET S, Cardinality(s) = n + 1
               PROVE  Keeps(iter[s], s, a, b, d)
    OBVIOUS
  <2>1. s # {}
    <3>1. Cardinality({}) = 0 /\ n + 1 # 0
      BY <1>5, FS_EmptySet
    <3> QED BY <3>1
  <2> DEFINE t == s \ {Pick(s)}
  <2>2. t \in SUBSET S /\ Cardinality(t) = n
    <3>1. Pick(s) \in s /\ IsFiniteSet(s)
      BY <1>0, <1>3, <2>1
    <3>2. Cardinality(t) = Cardinality(s) - 1
      BY <3>1, FS_RemoveElement
    <3>3. Cardinality(t) = n
      BY <1>5, <3>2
    <3> QED BY <3>3
  <2>3. Keeps(iter[t], t, a, b, d)
    BY <2>2
  <2>4. iter[s] = Step(Pick(s), iter[t], a, b, d)
    BY <1>1, <2>1 DEF Recurs
  <2>5. Keeps(Step(Pick(s), iter[t], a, b, d), s, a, b, d)
    BY <1>0, <2>1, <2>3
  <2> QED BY <2>4, <2>5
<1> HIDE DEF Good
<1>6. Nat \subseteq Good
  BY <1>4, <1>5, NatSet
<1>7. Cardinality(S) \in Good
  BY <1>3, <1>6
<1> QED BY <1>2, <1>7 DEF Good

\* In a fold over 1..n from 1 on, Keeps has the number of elements folded.
InductiveUp(base, n, a, b, d) ==
    /\ n \in Nat
    /\ \A s \in SUBSET (1..n) : s # {} => Pick(s) \in s
    /\ \A m \in 1..n : Pick(1..m) = m
    /\ Keeps(base, 0, a, b, d)
    /\ \A m \in 1..n : \A acc : Keeps(acc, m - 1, a, b, d) => Keeps(Step(m, acc, a, b, d), m, a, b, d)

LEMMA FoldUpKeeps ==
    ASSUME NEW base, NEW n, NEW a, NEW b, NEW d, InductiveUp(base, n, a, b, d)
    PROVE  Keeps(Folded(base, 1..n, a, b, d), n, a, b, d)
<1> DEFINE S == 1..n
           iter == CHOOSE f : Recurs(f, base, S, a, b, d)
           Good == {m \in Nat : m <= n => Keeps(iter[1..m], m, a, b, d)}
<1>0. /\ n \in Nat /\ IsFiniteSet(S)
      /\ \A s \in SUBSET S : s # {} => Pick(s) \in s
      /\ \A m \in S : Pick(1..m) = m
      /\ Keeps(base, 0, a, b, d)
      /\ \A m \in S : \A acc : Keeps(acc, m - 1, a, b, d) => Keeps(Step(m, acc, a, b, d), m, a, b, d)
  BY FS_Interval DEF InductiveUp
<1> HIDE DEF S
<1>1. Recurs(iter, base, S, a, b, d)
  BY <1>0, FoldDefined
<1>2. Folded(base, S, a, b, d) = iter[S]
  BY DEF Folded, Recurs
<1> HIDE DEF iter
<1>3. 0 \in Good
  <2>1. iter[{}] = base
    BY <1>1 DEF Recurs
  <2>2. 1..0 = {}
    OBVIOUS
  <2> QED BY <1>0, <2>1, <2>2
<1>4. ASSUME NEW m \in Good, m \in Nat PROVE m + 1 \in Good
  <2> SUFFICES ASSUME m + 1 <= n PROVE Keeps(iter[1..(m + 1)], m + 1, a, b, d)
    BY <1>4
  <2>1. m + 1 \in S /\ 1..(m + 1) \in SUBSET S /\ 1..(m + 1) # {} /\ m <= n
    <3>1. m + 1 \in S /\ m <= n
      BY <1>0, <1>4 DEF S
    <3>2. m + 1 \in 1..(m + 1)
      BY <1>4
    <3>3. \A x \in 1..(m + 1) : x \in S
      BY <1>0, <1>4 DEF S
    <3> QED BY <3>1, <3>2, <3>3
  <2>2. (1..(m + 1)) \ {m + 1} = 1..m /\ (m + 1) - 1 = m
    BY <1>4
  <2>3. iter[1..(m + 1)] = Step(m + 1, iter[1..m], a, b, d)
    <3>1. Pick(1..(m + 1)) = m + 1
      BY <1>0, <2>1
    <3> QED BY <1>1, <2>1, <2>2, <3>1 DEF Recurs
  <2>4. Keeps(iter[1..m], m, a, b, d)
    BY <1>4, <2>1
  <2> QED BY <1>0, <2>1, <2>2, <2>3, <2>4
<1> HIDE DEF Good
<1>5. Nat \subseteq Good
  BY <1>3, <1>4, NatSet
<1>6. Keeps(iter[1..n], n, a, b, d)
  BY <1>0, <1>5 DEF Good
<1> QED BY <1>2, <1>6 DEF S

\* In a fold over 1..n from n on, it has the element that is folded.
InductiveDown(base, n, a, b, d) ==
    /\ n \in Nat
    /\ \A s \in SUBSET (1..n) : s # {} => Pick(s) \in s
    /\ \A m \in 1..n : Pick(m..n) = m
    /\ Keeps(base, n + 1, a, b, d)
    /\ \A m \in 1..n : \A acc : Keeps(acc, m + 1, a, b, d) => Keeps(Step(m, acc, a, b, d), m, a, b, d)

LEMMA FoldDownKeeps ==
    ASSUME NEW base, NEW n, NEW a, NEW b, NEW d, InductiveDown(base, n, a, b, d)
    PROVE  Keeps(Folded(base, 1..n, a, b, d), 1, a, b, d)
<1> DEFINE S == 1..n
           iter == CHOOSE f : Recurs(f, base, S, a, b, d)
           Good == {m \in Nat : m <= n => Keeps(iter[(n + 1 - m)..n], n + 1 - m, a, b, d)}
<1>0. /\ n \in Nat /\ IsFiniteSet(S)
      /\ \A s \in SUBSET S : s # {} => Pick(s) \in s
      /\ \A m \in S : Pick(m..n) = m
      /\ Keeps(base, n + 1, a, b, d)
      /\ \A m \in S : \A acc : Keeps(acc, m + 1, a, b, d) => Keeps(Step(m, acc, a, b, d), m, a, b, d)
  BY FS_Interval DEF InductiveDown
<1> HIDE DEF S
<1>1. Recurs(iter, base, S, a, b, d)
  BY <1>0, FoldDefined
<1>2. Folded(base, S, a, b, d) = iter[S]
  BY DEF Folded, Recurs
<1> HIDE DEF iter
<1>3. 0 \in Good
  <2>1. iter[{}] = base
    BY <1>1 DEF Recurs
  <2>2. (n + 1 - 0)..n = {} /\ n + 1 - 0 = n + 1
    BY <1>0
  <2> QED BY <1>0, <2>1, <2>2
<1>4. ASSUME NEW m \in Good, m \in Nat PROVE m + 1 \in Good
  <2> SUFFICES ASSUME m + 1 <= n PROVE Keeps(iter[(n + 1 - (m + 1))..n], n + 1 - (m + 1), a, b, d)
    BY <1>4
  <2> DEFINE k == n + 1 - (m + 1)
  <2>1. k \in S /\ k..n \in SUBSET S /\ k..n # {} /\ m <= n
    <3>1. k \in S /\ m <= n /\ k \in k..n
      BY <1>0, <1>4 DEF S
    <3>2. \A x \in k..n : x \in S
      BY <1>0, <1>4 DEF S
    <3> QED BY <3>1, <3>2
  <2>2. (k..n) \ {k} = (n + 1 - m)..n /\ k + 1 = n + 1 - m
    BY <1>0, <1>4
  <2> HIDE DEF k
  <2>3. iter[k..n] = Step(k, iter[(n + 1 - m)..n], a, b, d)
    <3>1. Pick(k..n) = k
      BY <1>0, <2>1
    <3> QED BY <1>1, <2>1, <2>2, <3>1 DEF Recurs
  <2>4. Keeps(iter[(n + 1 - m)..n], n + 1 - m, a, b, d)
    BY <1>4, <2>1
  <2>5. Keeps(iter[k..n], k, a, b, d)
    BY <1>0, <2>1, <2>2, <2>3, <2>4
  <2> QED BY <2>5 DEF k
<1> HIDE DEF Good
<1>5. Nat \subseteq Good
  BY <1>3, <1>4, NatSet
<1>6. Keeps(iter[1..n], 1, a, b, d)
  <2>1. n \in Good /\ n + 1 - n = 1
    BY <1>0, <1>5
  <2> QED BY <1>0, <2>1 DEF Good
<1> QED BY <1>2, <1>6 DEF S
================================================================================
