------------------------------ MODULE Mind_proofs ------------------------------
(***************************************************************************)
(* That the atoms, their index and their lists agree after any mix of      *)
(* calls, and that what inference and attention add follows from what      *)
(* clients gave: for every number of atoms, links and steps.               *)
(***************************************************************************)
EXTENDS Mind, FiniteSetTheorems, SequenceTheorems, WellFoundedInduction, TLAPS

-----------------------------------------------------------------------------
(* Percents *)

LEMMA ProductWithin ==
    ASSUME NEW m \in Nat, NEW n \in Nat, NEW a \in 0..m, NEW b \in 0..n
    PROVE  a * b \in 0..(m * n)
<1>1. a * b \in Nat /\ m * n \in Nat /\ m * b \in Nat
  OBVIOUS
<1>2. a * b <= m * b
  OBVIOUS
<1>3. m * b <= m * n
  OBVIOUS
<1> QED BY <1>1, <1>2, <1>3

\* A part of d in m, by the whole numbers.
LEMMA QuotientWithin ==
    ASSUME NEW a \in Nat, NEW d \in Nat \ {0}, NEW m \in Nat, a <= m * d
    PROVE  a \div d \in 0..m
<1>1. a \div d \in Nat /\ d * (a \div d) <= a
  OBVIOUS
<1>2. SUFFICES ASSUME a \div d > m PROVE FALSE
  BY <1>1
<1>3. a \div d >= m + 1
  BY <1>1, <1>2
<1>4. d * (a \div d) >= d * (m + 1)
  BY <1>1, <1>3
<1>5. d * (m + 1) = m * d + d
  OBVIOUS
<1> QED BY <1>1, <1>4, <1>5

LEMMA QuotientAtLeast ==
    ASSUME NEW a \in Nat, NEW d \in Nat \ {0}, NEW m \in Nat, m * d <= a
    PROVE  a \div d >= m
<1>1. a \div d \in Nat /\ a < d * (a \div d) + d
  OBVIOUS
<1>2. SUFFICES ASSUME a \div d <= m - 1 PROVE FALSE
  BY <1>1
<1>3. d * (a \div d) <= d * (m - 1)
  BY <1>1, <1>2
<1>4. d * (m - 1) = m * d - d
  OBVIOUS
<1> QED BY <1>1, <1>3, <1>4

LEMMA PercentsProduct ==
    ASSUME NEW a \in 0..100, NEW b \in 0..100
    PROVE  a * b \in Nat /\ a * b <= 10000
<1>1. a * b \in 0..(100 * 100)
  BY ProductWithin, 100 \in Nat
<1> QED BY <1>1

Truths == [strength : Percents, confidence : Percents]

LEMMA PercentsIs == \A p : p \in Percents <=> p \in Nat /\ p <= 100
BY DEF Percents

\* Together two confidences are never certain, and never less than the first
\* unless that was certain; then they come close.
LEMMA TogetherIs ==
    ASSUME NEW c1 \in Percents, NEW c2 \in Percents
    PROVE  /\ Together(c1, c2) \in 0..99
           /\ c1 # 100 => Together(c1, c2) >= c1
           /\ c1 = 100 => Together(c1, c2) = 99
<1> DEFINE A == c1 * (100 - c2) + c2 * (100 - c1)
           B == (100 - c1) * (100 - c2)
<1>0. c1 \in Nat /\ c2 \in Nat /\ c1 <= 100 /\ c2 <= 100
  BY PercentsIs
<1>1. CASE c1 = 100 \/ c2 = 100
  <2>1. Together(c1, c2) = 99
    BY <1>1 DEF Together
  <2> QED BY <1>0, <2>1
<1>2. CASE c1 # 100 /\ c2 # 100
  <2>1. Together(c1, c2) = (100 * A) \div (A + B)
    BY <1>2 DEF Together
  <2>2. c1 \in 0..99 /\ c2 \in 0..99 /\ 100 - c1 \in 1..100 /\ 100 - c2 \in 1..100
    BY <1>0, <1>2
  <2>3. A \in Nat
    <3>1. c1 * (100 - c2) \in Nat /\ c2 * (100 - c1) \in Nat
      BY <2>2, ProductWithin
    <3> QED BY <3>1
  <2>4. B \in Nat /\ B >= 1
    <3> DEFINE x == 100 - c1
               y == 100 - c2
    <3>1. x \in Nat /\ y \in Nat /\ x >= 1 /\ y >= 1
      BY <2>2
    <3> HIDE DEF x, y
    <3>2. x * y \in Nat /\ x * y >= 1
      BY <3>1
    <3> QED BY <3>2 DEF x, y
  <2>5. A + B = 10000 - c1 * c2
    BY <1>0
  <2>6. 100 * A - c1 * (A + B) = c2 * ((100 - c1) * (100 - c1))
    BY <1>0
  <2>7. c2 * ((100 - c1) * (100 - c1)) >= 0
    <3> DEFINE x == 100 - c1
    <3>1. x \in Nat
      BY <2>2
    <3> HIDE DEF x
    <3>2. x * x \in Nat
      BY <3>1
    <3>3. c2 * (x * x) \in Nat
      BY <1>0, <3>2
    <3> QED BY <3>3 DEF x
  <2> HIDE DEF A, B
  <2>8. 100 * A \in Nat /\ A + B \in Nat \ {0} /\ c1 \in Nat /\ 100 \in Nat
    BY <1>0, <2>3, <2>4
  <2>9. c1 * (A + B) <= 100 * A
    <3>1. c1 * (A + B) \in Nat
      BY <1>0, <2>8
    <3> QED BY <2>6, <2>7, <2>8, <3>1
  <2>10. (100 * A) \div (A + B) >= c1
    BY <2>8, <2>9, QuotientAtLeast
  <2>11. 100 * A < 100 * (A + B) /\ 100 * A <= 100 * (A + B)
    BY <2>3, <2>4
  <2>12. (100 * A) \div (A + B) \in 0..100
    <3> DEFINE a == 100 * A
               d == A + B
    <3>1. a \in Nat /\ d \in Nat \ {0} /\ a <= 100 * d /\ 100 \in Nat
      BY <2>8, <2>11
    <3> HIDE DEF a, d
    <3> QED BY <3>1, QuotientWithin DEF a, d
  <2>13. (100 * A) \div (A + B) # 100
    <3> DEFINE q == (100 * A) \div (A + B)
    <3>1. (A + B) * q <= 100 * A
      BY <2>8
    <3> QED BY <2>3, <2>4, <2>11, <3>1
  <2> QED BY <2>1, <2>10, <2>12, <2>13
<1> QED BY <1>1, <1>2

LEMMA WeighedIs ==
    ASSUME NEW t1 \in Truths, NEW t2 \in Truths
    PROVE  Weighed(t1, t2) \in Percents
<1> DEFINE s1 == t1.strength
           s2 == t2.strength
           w1 == t1.confidence * (100 - t2.confidence)
           w2 == t2.confidence * (100 - t1.confidence)
<1>0. t1.confidence \in 0..100 /\ t2.confidence \in 0..100
  BY DEF Truths, Percents
<1>1. s1 \in 0..100 /\ s2 \in 0..100
  BY DEF Truths, Percents
<1>2. w1 \in Nat /\ w2 \in Nat
  <2>1. /\ t1.confidence \in 0..100 /\ 100 - t2.confidence \in 0..100
        /\ t2.confidence \in 0..100 /\ 100 - t1.confidence \in 0..100
    BY <1>0
  <2> DEFINE c1 == t1.confidence
             d1 == 100 - t1.confidence
             c2 == t2.confidence
             d2 == 100 - t2.confidence
  <2>2. c1 \in 0..100 /\ d1 \in 0..100 /\ c2 \in 0..100 /\ d2 \in 0..100
    BY <2>1
  <2> HIDE DEF c1, c2, d1, d2
  <2>3. c1 * d2 \in Nat /\ c2 * d1 \in Nat
    BY <2>2, PercentsProduct
  <2> QED BY <2>3 DEF c1, c2, d1, d2
<1>3. CASE w1 + w2 > 0
  <2>1. Weighed(t1, t2) = (s1 * w1 + s2 * w2) \div (w1 + w2)
    BY <1>3 DEF Weighed
  <2> HIDE DEF s1, s2, w1, w2
  <2>2. s1 * w1 \in 0..(100 * w1) /\ s2 * w2 \in 0..(100 * w2)
    BY <1>1, <1>2, ProductWithin
  <2>3. s1 * w1 + s2 * w2 \in Nat /\ s1 * w1 + s2 * w2 <= 100 * (w1 + w2)
    BY <1>2, <2>2
  <2>4. w1 + w2 \in Nat \ {0}
    BY <1>2, <1>3
  <2>5. (s1 * w1 + s2 * w2) \div (w1 + w2) \in 0..100
    BY <2>3, <2>4, QuotientWithin
  <2> QED BY <2>1, <2>5 DEF Percents
<1>4. CASE ~(w1 + w2 > 0)
  <2>1. Weighed(t1, t2) = IF t1.confidence = 0 THEN 50 ELSE (s1 + s2) \div 2
    BY <1>4 DEF Weighed
  <2> HIDE DEF s1, s2
  <2>2. (s1 + s2) \div 2 \in 0..100
    BY <1>1
  <2> QED BY <2>1, <2>2 DEF Percents
<1> QED BY <1>3, <1>4

RuleSet == {"deduction", "induction", "abduction", "revision"}

\* Every formula gives a truth value, and revision never certainty.
LEMMA FormulaIs ==
    ASSUME NEW rule \in RuleSet, NEW t1 \in Truths, NEW t2 \in Truths
    PROVE  /\ Formula(rule, t1, t2) \in Truths
           /\ rule = "revision" => Formula(rule, t1, t2).confidence = Together(t1.confidence, t2.confidence)
<1> DEFINE s1 == t1.strength
           s2 == t2.strength
           both == t1.confidence * t2.confidence
           product == (s1 * s2) \div 100
<1>1. /\ s1 \in 0..100 /\ s2 \in 0..100
      /\ t1.confidence \in 0..100 /\ t2.confidence \in 0..100
  BY DEF Truths, Percents
<1>2. both \in 0..10000
  <2>1. both \in Nat /\ both <= 10000
    <3> DEFINE c1 == t1.confidence
               c2 == t2.confidence
    <3>1. c1 \in 0..100 /\ c2 \in 0..100
      BY <1>1
    <3> HIDE DEF c1, c2
    <3>2. c1 * c2 \in Nat /\ c1 * c2 <= 10000
      BY <3>1, PercentsProduct
    <3> QED BY <3>2 DEF c1, c2
  <2> HIDE DEF both
  <2> QED BY <2>1
<1>3. product \in Percents
  <2> HIDE DEF s1, s2
  <2> DEFINE a == s1 * s2
  <2>1. a \in Nat /\ a <= 10000
    BY <1>1, PercentsProduct
  <2> HIDE DEF a
  <2>2. a \div 100 \in Nat /\ a \div 100 <= 100
    BY <2>1
  <2> QED BY <2>2, PercentsIs DEF a
<1>4. ASSUME NEW f \in 0..100 PROVE (both * f) \div 10000 \in Percents
  <2> HIDE DEF both
  <2> DEFINE a == both * f
  <2>1. a \in Nat /\ a <= 10000 * f /\ 10000 * f <= 1000000
    BY <1>2, <1>4
  <2>2. a \in Nat /\ a <= 1000000
    <3> HIDE DEF a
    <3> QED BY <1>4, <2>1
  <2> HIDE DEF a
  <2>3. a \div 10000 \in Nat /\ a \div 10000 <= 100
    BY <2>2
  <2> QED BY <2>3, PercentsIs DEF a
<1>5. ASSUME NEW s \in Percents, NEW c \in Percents PROVE Truth(s, c) \in Truths /\ Truth(s, c).confidence = c
  BY DEF Truth, Truths
<1>6. /\ Higher(s1, s2) \in 0..100 /\ 100 - Higher(s1, s2) \in 0..100
      /\ 100 - Lower(s1, s2) \in 0..100
  <2> HIDE DEF s1, s2
  <2> QED BY <1>1 DEF Higher, Lower
<1>7. CASE rule = "deduction"
  <2>1. Formula(rule, t1, t2) = Truth(product, (both * Higher(s1, s2)) \div 10000)
    BY <1>7 DEF Formula
  <2>2. (both * Higher(s1, s2)) \div 10000 \in Percents
    BY <1>4, <1>6
  <2> HIDE DEF product, both, s1, s2
  <2> QED BY <1>3, <1>5, <1>7, <2>1, <2>2
<1>8. CASE rule = "induction"
  <2>1. Formula(rule, t1, t2) = Truth(product, (both * (100 - Higher(s1, s2))) \div 10000)
    BY <1>8 DEF Formula
  <2>2. (both * (100 - Higher(s1, s2))) \div 10000 \in Percents
    BY <1>4, <1>6
  <2> HIDE DEF product, both, s1, s2
  <2> QED BY <1>3, <1>5, <1>8, <2>1, <2>2
<1>9. CASE rule = "abduction"
  <2>1. Formula(rule, t1, t2) = Truth(product, (both * (100 - Lower(s1, s2))) \div 10000)
    BY <1>9 DEF Formula
  <2>2. (both * (100 - Lower(s1, s2))) \div 10000 \in Percents
    BY <1>4, <1>6
  <2> HIDE DEF product, both, s1, s2
  <2> QED BY <1>3, <1>5, <1>9, <2>1, <2>2
<1>10. CASE rule = "revision"
  <2>1. Formula(rule, t1, t2) = Truth(Weighed(t1, t2), Together(t1.confidence, t2.confidence))
    BY <1>10 DEF Formula
  <2>2. Together(t1.confidence, t2.confidence) \in Percents
    <3>1. t1.confidence \in Percents /\ t2.confidence \in Percents
      BY <1>1 DEF Percents
    <3>2. Together(t1.confidence, t2.confidence) \in 0..99
      BY <3>1, TogetherIs
    <3> QED BY <3>2 DEF Percents
  <2>3. Weighed(t1, t2) \in Percents
    BY WeighedIs
  <2> HIDE DEF product, both, s1, s2
  <2> QED BY <1>5, <2>1, <2>2, <2>3
<1> QED BY <1>7, <1>8, <1>9, <1>10 DEF RuleSet

-----------------------------------------------------------------------------
(* Spaces of atoms *)

AtomSet ==
    [type : {"concept", "link"}, name : Names \cup {"InheritanceLink"}, source : Nat, target : Nat,
     truth : Truths, sti : Nat, incoming : Seq(Nat), outgoing : Seq(Nat)]

IsIndex(names) == DOMAIN names \subseteq Names /\ names \in [DOMAIN names -> Nat]

IsSpace(sp) ==
    /\ sp = [atoms |-> sp.atoms, names |-> sp.names]
    /\ sp.atoms \in Seq(AtomSet)
    /\ IsIndex(sp.names)

Sound(sp) == IsSpace(sp) /\ SpaceConsistent(sp)

LEMMA AtomsAre ==
    ASSUME NEW sp, IsSpace(sp)
    PROVE  /\ Len(sp.atoms) \in Nat /\ Handles(sp) \subseteq Nat \ {0}
           /\ DOMAIN sp.atoms = Handles(sp)
           /\ \A h \in Handles(sp) : sp.atoms[h] \in AtomSet /\ h <= Len(sp.atoms)
BY LenProperties DEF IsSpace, Handles

LEMMA LinksAre ==
    ASSUME NEW sp
    PROVE  /\ Links(sp) \subseteq Handles(sp)
           /\ \A h : h \in Links(sp) <=> h \in Handles(sp) /\ sp.atoms[h].type = "link"
BY DEF Links, IsLink

\* What no operation changes of an atom there is.
SameCore(a, b) == a.type = b.type /\ a.name = b.name /\ a.source = b.source /\ a.target = b.target

SameLists(a, b) == a.incoming = b.incoming /\ a.outgoing = b.outgoing

\* The atoms of old are in new, which may have more.
Keeps(new, old) ==
    /\ Len(old.atoms) <= Len(new.atoms)
    /\ \A h \in Handles(old) : SameCore(new.atoms[h], old.atoms[h])

LEMMA KeptLinks ==
    ASSUME NEW new, NEW old, IsSpace(new), IsSpace(old), Keeps(new, old)
    PROVE  /\ Handles(old) \subseteq Handles(new)
           /\ Links(old) \subseteq Links(new)
           /\ \A h \in Handles(old) : h \in Links(new) <=> h \in Links(old)
<1>1. Handles(old) \subseteq Handles(new)
  BY AtomsAre DEF Keeps, Handles
<1>2. \A h \in Handles(old) : new.atoms[h].type = old.atoms[h].type
  BY DEF Keeps, SameCore
<1> QED BY <1>1, <1>2, LinksAre

\* Truth and importance are no part of what has to be consistent.
LEMMA Reshaped ==
    ASSUME NEW new, NEW old, IsSpace(new), Sound(old), new.names = old.names,
           Handles(new) = Handles(old),
           \A h \in Handles(old) : SameCore(new.atoms[h], old.atoms[h]) /\ SameLists(new.atoms[h], old.atoms[h])
    PROVE  Sound(new) /\ Links(new) = Links(old)
<1>1. Links(new) = Links(old)
  <2>1. \A h \in Handles(old) : new.atoms[h].type = old.atoms[h].type
    BY DEF SameCore
  <2>2. \A h : h \in Links(new) <=> h \in Links(old)
    BY <2>1, LinksAre
  <2> QED BY <2>2
<1>2. SpaceConsistent(old)
  BY DEF Sound
<1>3. \A h \in Handles(new) \ Links(new) : new.atoms[h].name \in DOMAIN new.names /\ new.names[new.atoms[h].name] = h
  BY <1>1, <1>2 DEF SpaceConsistent, SameCore
<1>4. \A n \in DOMAIN new.names : new.names[n] \in Handles(new) \ Links(new)
  BY <1>1, <1>2 DEF SpaceConsistent
<1>5. \A l \in Links(new) : new.atoms[l].source = old.atoms[l].source /\ new.atoms[l].target = old.atoms[l].target
  BY <1>1, LinksAre DEF SameCore
<1>6. \A l \in Links(new) : new.atoms[l].source \in 1..(l - 1) /\ new.atoms[l].target \in 1..(l - 1)
  BY <1>1, <1>2, <1>5 DEF SpaceConsistent
<1>7. ASSUME NEW h \in Handles(new)
      PROVE  /\ Lists(new.atoms[h].outgoing, {l \in Links(new) : new.atoms[l].source = h})
             /\ Lists(new.atoms[h].incoming, {l \in Links(new) : new.atoms[l].target = h})
  <2>1. /\ {l \in Links(new) : new.atoms[l].source = h} = {l \in Links(old) : old.atoms[l].source = h}
        /\ {l \in Links(new) : new.atoms[l].target = h} = {l \in Links(old) : old.atoms[l].target = h}
    BY <1>1, <1>5
  <2>2. /\ Lists(old.atoms[h].outgoing, {l \in Links(old) : old.atoms[l].source = h})
        /\ Lists(old.atoms[h].incoming, {l \in Links(old) : old.atoms[l].target = h})
    BY <1>2 DEF SpaceConsistent
  <2> QED BY <2>1, <2>2 DEF SameLists
<1>8. SpaceConsistent(new)
  BY Zenon, <1>3, <1>4, <1>6, <1>7 DEF SpaceConsistent
<1> QED BY <1>1, <1>8 DEF Sound

LEMMA AppendIs ==
    ASSUME NEW T, NEW s \in Seq(T), NEW x \in T
    PROVE  /\ Append(s, x) \in Seq(T) /\ Len(Append(s, x)) = Len(s) + 1
           /\ \A i \in 1..Len(s) : Append(s, x)[i] = s[i]
           /\ Append(s, x)[Len(s) + 1] = x
           /\ DOMAIN s = 1..Len(s) /\ DOMAIN Append(s, x) = 1..(Len(s) + 1) /\ Len(s) \in Nat
BY AppendProperties, LenProperties

LEMMA ListGrows ==
    ASSUME NEW list \in Seq(Nat), NEW links, Lists(list, links), NEW x \in Nat, \A l \in links : l < x
    PROVE  Lists(Append(list, x), links \cup {x})
<1> DEFINE n == Len(list)
           new == Append(list, x)
<1>1. /\ n \in Nat /\ DOMAIN list = 1..n /\ DOMAIN new = 1..(n + 1)
      /\ \A i \in 1..n : new[i] = list[i]
      /\ new[n + 1] = x
  BY AppendIs
<1>2. /\ links = {list[i] : i \in 1..n}
      /\ \A i, j \in 1..n : i < j => list[i] < list[j]
  BY <1>1 DEF Lists, Range
<1> HIDE DEF n, new
<1>3. {new[i] : i \in 1..(n + 1)} = links \cup {x}
  <2>1. \A i \in 1..(n + 1) : i \in 1..n \/ i = n + 1
    BY <1>1
  <2>2. \A i \in 1..n : i \in 1..(n + 1)
    BY <1>1
  <2>3. n + 1 \in 1..(n + 1)
    BY <1>1
  <2>4. \A i \in 1..n : new[i] \in links
    BY <1>1, <1>2
  <2>5. ASSUME NEW y \in links \cup {x} PROVE \E i \in 1..(n + 1) : new[i] = y
    <3>1. CASE y = x
      BY <1>1, <2>3, <3>1
    <3>2. CASE y \in links
      <4>1. PICK i \in 1..n : list[i] = y
        BY <1>2, <3>2
      <4> QED BY <1>1, <2>2, <4>1
    <3> QED BY <3>1, <3>2
  <2> QED BY <1>1, <2>1, <2>4, <2>5
<1>4. ASSUME NEW i \in 1..(n + 1), NEW j \in 1..(n + 1), i < j PROVE new[i] < new[j]
  <2>1. i \in 1..n /\ new[i] = list[i] /\ list[i] \in links
    BY <1>1, <1>2, <1>4
  <2>2. CASE j = n + 1
    BY <1>1, <2>1, <2>2
  <2>3. CASE j # n + 1
    <3>1. j \in 1..n
      BY <1>1, <2>3
    <3> QED BY <1>1, <1>2, <1>4, <2>1, <3>1
  <2> QED BY <2>2, <2>3
<1>5. Range(new) = links \cup {x}
  BY <1>1, <1>3 DEF Range
<1>6. \A i, j \in DOMAIN new : i < j => new[i] < new[j]
  BY <1>1, <1>4
<1> QED BY <1>5, <1>6 DEF Lists, new

LEMMA EmptyList == Lists(<<>>, {})
<1>1. DOMAIN <<>> = {}
  OBVIOUS
<1> QED BY <1>1 DEF Lists, Range

\* An atom more, and links at the end of the lists of its ends.
Grown(new, old, atom) ==
    /\ Len(new.atoms) = Len(old.atoms) + 1
    /\ new.atoms[Len(old.atoms) + 1] = atom
    /\ \A h \in Handles(old) : /\ SameCore(new.atoms[h], old.atoms[h])
                               /\ new.atoms[h].truth = old.atoms[h].truth
                               /\ new.atoms[h].sti = old.atoms[h].sti

LEMMA GrownHandles ==
    ASSUME NEW new, NEW old, IsSpace(old), NEW atom, Grown(new, old, atom)
    PROVE  /\ Handles(new) = Handles(old) \cup {Len(old.atoms) + 1}
           /\ Len(old.atoms) + 1 \notin Handles(old)
           /\ \A h \in Handles(old) : h \in Links(new) <=> h \in Links(old)
           /\ Len(old.atoms) + 1 \in Links(new) <=> atom.type = "link"
<1> DEFINE n == Len(old.atoms)
<1>1. n \in Nat
  BY AtomsAre
<1>2. Handles(new) = 1..(n + 1) /\ Handles(old) = 1..n
  BY DEF Grown, Handles
<1>3. Handles(new) = Handles(old) \cup {n + 1} /\ n + 1 \notin Handles(old)
  BY <1>1, <1>2
<1>4. \A h \in Handles(old) : new.atoms[h].type = old.atoms[h].type
  BY DEF Grown, SameCore
<1>5. new.atoms[n + 1] = atom
  BY DEF Grown
<1> QED BY <1>3, <1>4, <1>5, LinksAre

\* The lists follow the links when an atom is added.
LEMMA GrownSound ==
    ASSUME NEW new, NEW old, Sound(old), IsSpace(new), NEW atom, Grown(new, old, atom),
           atom.incoming = <<>>, atom.outgoing = <<>>,
           \/ /\ atom.type = "link" /\ new.names = old.names
              /\ atom.source \in Handles(old) /\ atom.target \in Handles(old)
              /\ \A h \in Handles(old) :
                     /\ new.atoms[h].outgoing = IF h = atom.source THEN Append(old.atoms[h].outgoing, Len(old.atoms) + 1)
                                                ELSE old.atoms[h].outgoing
                     /\ new.atoms[h].incoming = IF h = atom.target THEN Append(old.atoms[h].incoming, Len(old.atoms) + 1)
                                                ELSE old.atoms[h].incoming
           \/ /\ atom.type = "concept" /\ atom.name \notin DOMAIN old.names
              /\ DOMAIN new.names = DOMAIN old.names \cup {atom.name}
              /\ new.names[atom.name] = Len(old.atoms) + 1
              /\ \A m \in DOMAIN old.names : new.names[m] = old.names[m]
              /\ \A h \in Handles(old) : SameLists(new.atoms[h], old.atoms[h])
    PROVE  Sound(new)
<1> DEFINE n == Len(old.atoms) + 1
           isLink == atom.type = "link"
<1>0. IsSpace(old) /\ SpaceConsistent(old)
  BY DEF Sound
<1>1. /\ Handles(new) = Handles(old) \cup {n} /\ n \notin Handles(old)
      /\ \A h \in Handles(old) : h \in Links(new) <=> h \in Links(old)
      /\ n \in Links(new) <=> isLink
  BY <1>0, GrownHandles
<1>2. n \in Nat /\ \A h \in Handles(old) : h \in Nat /\ h < n /\ h \in 1..(n - 1)
  BY <1>0, AtomsAre DEF Handles
<1>3. new.atoms[n] = atom /\ \A h \in Handles(old) : SameCore(new.atoms[h], old.atoms[h])
  BY DEF Grown
<1>4. \A h \in Handles(new) \ Links(new) :
         new.atoms[h].name \in DOMAIN new.names /\ new.names[new.atoms[h].name] = h
  <2> SUFFICES ASSUME NEW h \in Handles(new), h \notin Links(new)
               PROVE  new.atoms[h].name \in DOMAIN new.names /\ new.names[new.atoms[h].name] = h
    OBVIOUS
  <2>1. CASE h = n
    BY <1>1, <1>3, <2>1
  <2>2. CASE h # n
    <3>1. h \in Handles(old) /\ h \notin Links(old) /\ new.atoms[h].name = old.atoms[h].name
      BY <1>1, <1>3, <2>2 DEF SameCore
    <3>2. old.atoms[h].name \in DOMAIN old.names /\ old.names[old.atoms[h].name] = h
      BY <1>0, <3>1 DEF SpaceConsistent
    <3> QED BY <3>1, <3>2
  <2> QED BY <2>1, <2>2
<1>5. \A m \in DOMAIN new.names : new.names[m] \in Handles(new) \ Links(new)
  <2>1. \A m \in DOMAIN old.names : old.names[m] \in Handles(old) \ Links(old)
    BY <1>0 DEF SpaceConsistent
  <2>2. \A m \in DOMAIN old.names : old.names[m] \in Handles(new) \ Links(new)
    BY <1>1, <2>1
  <2>3. CASE new.names = old.names
    BY <2>2, <2>3
  <2>4. CASE /\ atom.type = "concept"
             /\ DOMAIN new.names = DOMAIN old.names \cup {atom.name}
             /\ new.names[atom.name] = Len(old.atoms) + 1
             /\ \A m \in DOMAIN old.names : new.names[m] = old.names[m]
    BY <1>1, <2>2, <2>4
  <2> QED BY <2>3, <2>4
<1>6. \A l \in Links(old) : old.atoms[l].source \in 1..(l - 1) /\ old.atoms[l].target \in 1..(l - 1)
  BY <1>0 DEF SpaceConsistent
<1>7. Links(new) = IF isLink THEN Links(old) \cup {n} ELSE Links(old)
  BY <1>1, LinksAre
<1>8. \A l \in Links(old) : /\ l \in Handles(old)
                            /\ new.atoms[l].source = old.atoms[l].source /\ new.atoms[l].target = old.atoms[l].target
  BY <1>3, LinksAre DEF SameCore
<1>9. \A l \in Links(new) : new.atoms[l].source \in 1..(l - 1) /\ new.atoms[l].target \in 1..(l - 1)
  <2> SUFFICES ASSUME NEW l \in Links(new)
               PROVE  new.atoms[l].source \in 1..(l - 1) /\ new.atoms[l].target \in 1..(l - 1)
    OBVIOUS
  <2>1. CASE l \in Links(old)
    BY <1>6, <1>8, <2>1
  <2>2. CASE l \notin Links(old)
    <3>1. isLink /\ l = n
      BY <1>7, <2>2
    <3>2. atom.source \in Handles(old) /\ atom.target \in Handles(old)
      BY <3>1
    <3> QED BY <1>2, <1>3, <3>1, <3>2
  <2> QED BY <2>1, <2>2
<1> DEFINE Out(sp, h) == {l \in Links(sp) : sp.atoms[l].source = h}
           In(sp, h) == {l \in Links(sp) : sp.atoms[l].target = h}
<1>10. \A h \in Handles(old) : Lists(old.atoms[h].outgoing, Out(old, h)) /\ Lists(old.atoms[h].incoming, In(old, h))
  BY <1>0 DEF SpaceConsistent
<1>11. \A h : /\ Out(new, h) = IF isLink /\ h = atom.source THEN Out(old, h) \cup {n} ELSE Out(old, h)
              /\ In(new, h) = IF isLink /\ h = atom.target THEN In(old, h) \cup {n} ELSE In(old, h)
  BY <1>3, <1>7, <1>8
<1>12. \A h : \A l \in Out(old, h) \cup In(old, h) : l < n
  BY <1>2, <1>8
<1>13. \A h \in Handles(old) : old.atoms[h].outgoing \in Seq(Nat) /\ old.atoms[h].incoming \in Seq(Nat)
  BY <1>0, AtomsAre DEF AtomSet
<1>14. \A h : h \in Out(old, n) \cup In(old, n) => FALSE
  <2> SUFFICES ASSUME NEW l \in Links(old), old.atoms[l].source = n \/ old.atoms[l].target = n PROVE FALSE
    OBVIOUS
  <2>1. l \in Nat /\ l < n
    BY <1>2, <1>8
  <2> QED BY <1>2, <1>6, <2>1
<1> HIDE DEF Out, In
<1>15. ASSUME NEW h \in Handles(new)
       PROVE  Lists(new.atoms[h].outgoing, Out(new, h)) /\ Lists(new.atoms[h].incoming, In(new, h))
  <2>1. CASE h = n
    <3>1. isLink => atom.source # n /\ atom.target # n
      BY <1>1
    <3>2. Out(new, h) = {} /\ In(new, h) = {}
      BY <1>11, <1>14, <2>1, <3>1
    <3> QED BY <1>3, <2>1, <3>2, EmptyList
  <2>2. CASE h # n /\ ~isLink
    <3>1. h \in Handles(old) /\ SameLists(new.atoms[h], old.atoms[h])
      BY <1>1, <2>2
    <3>2. Out(new, h) = Out(old, h) /\ In(new, h) = In(old, h)
      BY <1>11, <2>2
    <3> QED BY <1>10, <3>1, <3>2 DEF SameLists
  <2>3. CASE h # n /\ isLink
    <3>1. h \in Handles(old)
      BY <1>1, <2>3
    <3>2. /\ new.atoms[h].outgoing = IF h = atom.source THEN Append(old.atoms[h].outgoing, n)
                                     ELSE old.atoms[h].outgoing
          /\ new.atoms[h].incoming = IF h = atom.target THEN Append(old.atoms[h].incoming, n)
                                     ELSE old.atoms[h].incoming
      BY <2>3, <3>1
    <3>3. /\ Lists(Append(old.atoms[h].outgoing, n), Out(old, h) \cup {n})
          /\ Lists(Append(old.atoms[h].incoming, n), In(old, h) \cup {n})
      BY <1>2, <1>10, <1>12, <1>13, <3>1, ListGrows
    <3>4. /\ Out(new, h) = IF h = atom.source THEN Out(old, h) \cup {n} ELSE Out(old, h)
          /\ In(new, h) = IF h = atom.target THEN In(old, h) \cup {n} ELSE In(old, h)
      BY <1>11, <2>3
    <3>5. Lists(old.atoms[h].outgoing, Out(old, h)) /\ Lists(old.atoms[h].incoming, In(old, h))
      BY <1>10, <3>1
    <3> QED BY <3>2, <3>3, <3>4, <3>5
  <2> QED BY <2>1, <2>2, <2>3
<1>16. SpaceConsistent(new)
  BY Zenon, <1>4, <1>5, <1>9, <1>15 DEF SpaceConsistent, Out, In
<1> QED BY <1>16 DEF Sound

-----------------------------------------------------------------------------
(* The operations of a space *)

LEMMA ConceptIs ==
    ASSUME NEW name \in Names
    PROVE  /\ Concept(name) \in AtomSet /\ Concept(name).type = "concept" /\ Concept(name).name = name
           /\ Concept(name).incoming = <<>> /\ Concept(name).outgoing = <<>> /\ Concept(name).sti = 0
<1>1. DefaultTruth \in Truths
  BY DEF DefaultTruth, Truths, Percents
<1>2. <<>> \in Seq(Nat) /\ INVALID_HANDLE \in Nat
  BY DEF INVALID_HANDLE
<1> QED BY <1>1, <1>2 DEF Concept, AtomSet

LEMMA InheritanceIs ==
    ASSUME NEW s \in Nat, NEW t \in Nat, NEW truth \in Truths
    PROVE  /\ Inheritance(s, t, truth) \in AtomSet /\ Inheritance(s, t, truth).type = "link"
           /\ Inheritance(s, t, truth).source = s /\ Inheritance(s, t, truth).target = t
           /\ Inheritance(s, t, truth).incoming = <<>> /\ Inheritance(s, t, truth).outgoing = <<>>
           /\ Inheritance(s, t, truth).sti = 0 /\ Inheritance(s, t, truth).truth = truth
<1>1. <<>> \in Seq(Nat)
  OBVIOUS
<1> QED BY <1>1 DEF Inheritance, AtomSet

LEMMA AddConceptIs ==
    ASSUME NEW sp, Sound(sp), NEW name \in Names, name \notin DOMAIN sp.names
    PROVE  /\ Sound(AddConcept(sp, name))
           /\ Grown(AddConcept(sp, name), sp, Concept(name))
<1> DEFINE c == Concept(name)
           n == Len(sp.atoms) + 1
           index == [m \in DOMAIN sp.names \cup {name} |-> IF m = name THEN n ELSE sp.names[m]]
           atoms == Append(sp.atoms, c)
           new == AddConcept(sp, name)
<1>0. IsSpace(sp) /\ sp.atoms \in Seq(AtomSet) /\ IsIndex(sp.names)
  BY DEF Sound, IsSpace
<1>1. new = [atoms |-> atoms, names |-> index]
  BY DEF AddConcept
<1>2. new.atoms = atoms /\ new.names = index
  BY <1>1
<1>3. /\ c \in AtomSet /\ c.type = "concept" /\ c.name = name
      /\ c.incoming = <<>> /\ c.outgoing = <<>>
  BY ConceptIs
<1> HIDE DEF c
<1>4. /\ atoms \in Seq(AtomSet) /\ Len(atoms) = n /\ atoms[n] = c
      /\ \A h \in Handles(sp) : atoms[h] = sp.atoms[h]
      /\ Len(sp.atoms) \in Nat
  BY <1>0, <1>3, AppendIs DEF Handles
<1>5. /\ DOMAIN index = DOMAIN sp.names \cup {name} /\ index[name] = n
      /\ \A m \in DOMAIN sp.names : index[m] = sp.names[m]
  OBVIOUS
<1>6. IsIndex(index)
  <2>1. \A m \in DOMAIN sp.names : sp.names[m] \in Nat
    BY <1>0 DEF IsIndex
  <2>2. \A m \in DOMAIN index : index[m] \in Nat
    BY <1>4, <2>1
  <2>3. DOMAIN index \subseteq Names
    BY <1>0 DEF IsIndex
  <2> QED BY <2>2, <2>3 DEF IsIndex
<1> HIDE DEF atoms, index, new
<1>7. IsSpace(new)
  BY <1>1, <1>2, <1>4, <1>6 DEF IsSpace
<1>8. Grown(new, sp, c)
  BY <1>2, <1>4 DEF Grown, SameCore
<1>9. \A h \in Handles(sp) : SameLists(new.atoms[h], sp.atoms[h])
  BY <1>2, <1>4 DEF SameLists
<1>10. /\ DOMAIN new.names = DOMAIN sp.names \cup {c.name}
       /\ new.names[c.name] = Len(sp.atoms) + 1
       /\ \A m \in DOMAIN sp.names : new.names[m] = sp.names[m]
  BY <1>2, <1>3, <1>5
<1>11. Sound(new)
  BY <1>3, <1>7, <1>8, <1>9, <1>10, GrownSound
<1> QED BY <1>8, <1>11 DEF new, c

LEMMA AddInheritanceIs ==
    ASSUME NEW sp, Sound(sp), NEW s \in Handles(sp), NEW t \in Handles(sp), NEW truth \in Truths
    PROVE  /\ Sound(AddInheritance(sp, s, t, truth))
           /\ Grown(AddInheritance(sp, s, t, truth), sp, Inheritance(s, t, truth))
           /\ AddInheritance(sp, s, t, truth).names = sp.names
<1> DEFINE n == Len(sp.atoms) + 1
           l == Inheritance(s, t, truth)
           Out(h) == IF h = s THEN Append(sp.atoms[h].outgoing, n) ELSE sp.atoms[h].outgoing
           In(h) == IF h = t THEN Append(sp.atoms[h].incoming, n) ELSE sp.atoms[h].incoming
           Joined(h) == [sp.atoms[h] EXCEPT !.outgoing = Out(h), !.incoming = In(h)]
           before == [h \in Handles(sp) |-> Joined(h)]
           atoms == Append(before, l)
           new == AddInheritance(sp, s, t, truth)
<1>0. IsSpace(sp) /\ sp.atoms \in Seq(AtomSet) /\ IsIndex(sp.names)
  BY DEF Sound, IsSpace
<1>1. new = [atoms |-> atoms, names |-> sp.names]
  BY DEF AddInheritance
<1>2. new.atoms = atoms /\ new.names = sp.names
  <2> HIDE DEF new, atoms
  <2> QED BY <1>1
<1>3. s \in Nat /\ t \in Nat /\ n \in Nat
  BY <1>0, AtomsAre
<1>4. /\ l \in AtomSet /\ l.type = "link" /\ l.source = s /\ l.target = t
      /\ l.incoming = <<>> /\ l.outgoing = <<>>
  BY <1>3, InheritanceIs
<1> HIDE DEF l
<1>5. ASSUME NEW h \in Handles(sp)
      PROVE  /\ Joined(h) \in AtomSet
             /\ SameCore(Joined(h), sp.atoms[h]) /\ Joined(h).truth = sp.atoms[h].truth
             /\ Joined(h).sti = sp.atoms[h].sti
             /\ Joined(h).outgoing = Out(h) /\ Joined(h).incoming = In(h)
  <2>1. sp.atoms[h] \in AtomSet
    BY <1>0, AtomsAre
  <2>2. sp.atoms[h].outgoing \in Seq(Nat) /\ sp.atoms[h].incoming \in Seq(Nat)
    BY <2>1 DEF AtomSet
  <2>3. Append(sp.atoms[h].outgoing, n) \in Seq(Nat) /\ Append(sp.atoms[h].incoming, n) \in Seq(Nat)
    BY <1>3, <2>2, AppendIs
  <2>4. Out(h) \in Seq(Nat) /\ In(h) \in Seq(Nat)
    BY <2>2, <2>3
  <2> HIDE DEF Out, In
  <2> QED BY <2>1, <2>4 DEF AtomSet, SameCore
<1> HIDE DEF Joined
<1>6. before \in Seq(AtomSet) /\ Len(before) = Len(sp.atoms)
  <2>1. before \in [1..Len(sp.atoms) -> AtomSet]
    BY <1>5 DEF Handles
  <2>2. Len(sp.atoms) \in Nat
    BY <1>0, AtomsAre
  <2> HIDE DEF before
  <2>3. before \in Seq(AtomSet)
    BY <2>1, <2>2, SeqDef
  <2>4. Len(before) = Len(sp.atoms)
    BY <2>1, <2>2, <2>3, LenProperties
  <2> QED BY <2>3, <2>4
<1>7. \A h \in Handles(sp) : before[h] = Joined(h)
  OBVIOUS
<1> HIDE DEF before
<1>8. /\ atoms \in Seq(AtomSet) /\ Len(atoms) = n /\ atoms[n] = l
      /\ \A h \in Handles(sp) : atoms[h] = Joined(h)
  BY <1>4, <1>6, <1>7, AppendIs DEF Handles
<1> HIDE DEF atoms, new
<1>9. IsSpace(new)
  BY <1>0, <1>1, <1>2, <1>8 DEF IsSpace
<1>10. Grown(new, sp, l)
  BY <1>2, <1>5, <1>8 DEF Grown
<1>11. \A h \in Handles(sp) : /\ new.atoms[h].outgoing = Out(h)
                              /\ new.atoms[h].incoming = In(h)
  BY <1>2, <1>5, <1>8
<1>12. Sound(new)
  BY <1>2, <1>4, <1>9, <1>10, <1>11, GrownSound
<1> QED BY <1>2, <1>10, <1>12 DEF new, l

\* The truth or the importance of one atom changes.
Replaced(new, sp, h, atom) ==
    /\ Sound(new) /\ Handles(new) = Handles(sp) /\ Links(new) = Links(sp) /\ Len(new.atoms) = Len(sp.atoms)
    /\ new.names = sp.names
    /\ \A k \in Handles(sp) : new.atoms[k] = IF k = h THEN atom ELSE sp.atoms[k]
    /\ \A k \in Handles(sp) : SameCore(new.atoms[k], sp.atoms[k]) /\ SameLists(new.atoms[k], sp.atoms[k])

LEMMA AtomChanged ==
    ASSUME NEW sp, Sound(sp), NEW h \in Handles(sp), NEW atom \in AtomSet,
           SameCore(atom, sp.atoms[h]), SameLists(atom, sp.atoms[h]),
           NEW new, new = [atoms |-> [sp.atoms EXCEPT ![h] = atom], names |-> sp.names]
    PROVE  Replaced(new, sp, h, atom)
<1>1. IsSpace(sp) /\ sp.atoms \in Seq(AtomSet) /\ IsIndex(sp.names)
  BY DEF Sound, IsSpace
<1>2. h \in 1..Len(sp.atoms)
  BY DEF Handles
<1>3. new.atoms = [sp.atoms EXCEPT ![h] = atom] /\ new.names = sp.names
  OBVIOUS
<1>4. new.atoms \in Seq(AtomSet) /\ Len(new.atoms) = Len(sp.atoms)
  BY <1>1, <1>2, <1>3, ExceptSeq
<1>5. IsSpace(new)
  BY <1>1, <1>3, <1>4 DEF IsSpace
<1>6. Handles(new) = Handles(sp)
  BY <1>4 DEF Handles
<1>7. \A k \in Handles(sp) : new.atoms[k] = IF k = h THEN atom ELSE sp.atoms[k]
  BY <1>1, <1>3, AtomsAre
<1>8. \A k \in Handles(sp) : SameCore(new.atoms[k], sp.atoms[k]) /\ SameLists(new.atoms[k], sp.atoms[k])
  BY <1>7 DEF SameCore, SameLists
<1>9. Sound(new) /\ Links(new) = Links(sp)
  BY <1>3, <1>5, <1>6, <1>8, Reshaped
<1> QED BY <1>3, <1>4, <1>6, <1>7, <1>8, <1>9 DEF Replaced

-----------------------------------------------------------------------------
(* What inference does to a space *)

\* No link leads into the set or out of it.
Whole(sp, S) == \A l \in Links(sp) : sp.atoms[l].source \in S <=> sp.atoms[l].target \in S

\* It adds links within what links connect, and changes truth values.
Derives(new, old) ==
    /\ Sound(new) /\ new.names = old.names
    /\ Keeps(new, old)
    /\ \A h \in Handles(old) : new.atoms[h].sti = old.atoms[h].sti
    /\ \A h \in Handles(new) \ Handles(old) : h \in Links(new) /\ new.atoms[h].sti = 0
    /\ \A S : Whole(old, S) => Whole(new, S)

LEMMA DerivesRefl == ASSUME NEW sp, Sound(sp) PROVE Derives(sp, sp)
<1>1. Len(sp.atoms) \in Nat
  BY AtomsAre DEF Sound
<1> QED BY <1>1 DEF Derives, Keeps, SameCore

LEMMA DerivesTrans ==
    ASSUME NEW a, NEW b, NEW c, Sound(a), Derives(b, a), Derives(c, b)
    PROVE  Derives(c, a)
<1>1. IsSpace(a) /\ IsSpace(b) /\ IsSpace(c)
  BY DEF Derives, Sound
<1>2. Len(a.atoms) \in Nat /\ Len(b.atoms) \in Nat /\ Len(c.atoms) \in Nat
  BY <1>1, AtomsAre
<1>3. Handles(a) \subseteq Handles(b) /\ Handles(b) \subseteq Handles(c)
  BY <1>1, KeptLinks DEF Derives
<1>4. Keeps(c, a)
  BY <1>2, <1>3 DEF Derives, Keeps, SameCore
<1>5. \A h \in Handles(a) : c.atoms[h].sti = a.atoms[h].sti
  BY <1>3 DEF Derives
<1>6. ASSUME NEW h \in Handles(c), h \notin Handles(a) PROVE h \in Links(c) /\ c.atoms[h].sti = 0
  <2>1. CASE h \in Handles(b)
    <3>1. h \in Links(b) /\ b.atoms[h].sti = 0 /\ c.atoms[h].sti = b.atoms[h].sti
      BY <1>6, <2>1 DEF Derives
    <3>2. h \in Links(c)
      BY <1>1, <2>1, <3>1, KeptLinks DEF Derives
    <3> QED BY <3>1, <3>2
  <2>2. CASE h \notin Handles(b)
    BY <1>6, <2>2 DEF Derives
  <2> QED BY <2>1, <2>2
<1>7. \A S : Whole(a, S) => Whole(c, S)
  BY Zenon DEF Derives
<1>8. Sound(c) /\ c.names = a.names
  BY DEF Derives
<1> QED BY <1>4, <1>5, <1>6, <1>7, <1>8 DEF Derives

\* A revision changes one truth value.
Revised(new, sp, h, t) ==
    /\ Derives(new, sp) /\ Handles(new) = Handles(sp)
    /\ \A k \in Handles(sp) : new.atoms[k].truth = IF k = h THEN t ELSE sp.atoms[k].truth

LEMMA TruthChanged ==
    ASSUME NEW sp, Sound(sp), NEW h \in Handles(sp), NEW t \in Truths
    PROVE  Revised([sp EXCEPT !.atoms[h].truth = t], sp, h, t)
<1> DEFINE new == [sp EXCEPT !.atoms[h].truth = t]
<1> DEFINE atom == [sp.atoms[h] EXCEPT !.truth = t]
<1>1. sp = [atoms |-> sp.atoms, names |-> sp.names] /\ IsSpace(sp)
  BY DEF Sound, IsSpace
<1>2. new = [atoms |-> [sp.atoms EXCEPT ![h] = atom], names |-> sp.names]
  BY <1>1
<1>3. sp.atoms[h] \in AtomSet
  BY <1>1, AtomsAre
<1>4. /\ atom \in AtomSet /\ SameCore(atom, sp.atoms[h]) /\ SameLists(atom, sp.atoms[h])
      /\ atom.truth = t /\ atom.sti = sp.atoms[h].sti
  BY <1>3 DEF AtomSet, SameCore, SameLists
<1> HIDE DEF atom, new
<1>5. Replaced(new, sp, h, atom)
  BY Zenon, <1>2, <1>4, AtomChanged
<1>6. Len(sp.atoms) \in Nat
  BY <1>1, AtomsAre
<1>7. ASSUME NEW S, Whole(sp, S) PROVE Whole(new, S)
  <2>1. \A l \in Links(sp) : new.atoms[l].source = sp.atoms[l].source /\ new.atoms[l].target = sp.atoms[l].target
    BY <1>5, LinksAre DEF Replaced, SameCore
  <2> QED BY <1>5, <1>7, <2>1 DEF Whole, Replaced
<1>8. \A k \in Handles(sp) : new.atoms[k].sti = sp.atoms[k].sti
  BY <1>4, <1>5 DEF Replaced
<1>9. Derives(new, sp)
  <2>1. Keeps(new, sp)
    BY <1>5, <1>6 DEF Keeps, Replaced
  <2>2. Handles(new) \ Handles(sp) = {}
    BY <1>5 DEF Replaced
  <2> QED BY Zenon, <1>5, <1>6, <1>7, <1>8, <2>1, <2>2 DEF Derives, Replaced
<1>10. \A k \in Handles(sp) : new.atoms[k].truth = IF k = h THEN t ELSE sp.atoms[k].truth
  BY <1>4, <1>5 DEF Replaced
<1>11. Revised(new, sp, h, t)
  BY <1>5, <1>9, <1>10 DEF Revised, Replaced
<1> QED BY <1>11 DEF new

\* A link between atoms that links connect.
LEMMA LinkDerived ==
    ASSUME NEW sp, Sound(sp), NEW s \in Handles(sp), NEW t \in Handles(sp), NEW truth \in Truths,
           \A S : Whole(sp, S) => (s \in S <=> t \in S),
           NEW new, new = AddInheritance(sp, s, t, truth)
    PROVE  /\ Derives(new, sp)
           /\ Handles(new) = Handles(sp) \cup {Len(sp.atoms) + 1} /\ Len(sp.atoms) + 1 \notin Handles(sp)
           /\ new.atoms[Len(sp.atoms) + 1].truth = truth
           /\ \A k \in Handles(sp) : new.atoms[k].truth = sp.atoms[k].truth
<1> DEFINE n == Len(sp.atoms) + 1
           l == Inheritance(s, t, truth)
<1>1. IsSpace(sp)
  BY DEF Sound
<1>2. Sound(new) /\ Grown(new, sp, l) /\ new.names = sp.names
  BY AddInheritanceIs
<1>3. s \in Nat /\ t \in Nat /\ Len(sp.atoms) \in Nat
  BY <1>1, AtomsAre
<1>4. l.type = "link" /\ l.source = s /\ l.target = t /\ l.sti = 0 /\ l.truth = truth
  BY <1>3, InheritanceIs
<1> HIDE DEF l
<1>5. /\ Handles(new) = Handles(sp) \cup {n} /\ n \notin Handles(sp)
      /\ \A h \in Handles(sp) : h \in Links(new) <=> h \in Links(sp)
      /\ n \in Links(new)
  BY <1>1, <1>2, <1>4, GrownHandles
<1>6. new.atoms[n] = l /\ Len(new.atoms) = n
  BY <1>2 DEF Grown
<1>7. \A h \in Handles(sp) : /\ SameCore(new.atoms[h], sp.atoms[h])
                             /\ new.atoms[h].truth = sp.atoms[h].truth
                             /\ new.atoms[h].sti = sp.atoms[h].sti
  BY <1>2 DEF Grown
<1>8. ASSUME NEW S, Whole(sp, S) PROVE Whole(new, S)
  <2> SUFFICES ASSUME NEW k \in Links(new)
               PROVE  new.atoms[k].source \in S <=> new.atoms[k].target \in S
    BY DEF Whole
  <2>1. CASE k = n
    BY <1>4, <1>6, <1>8, <2>1
  <2>2. CASE k # n
    <3>1. k \in Handles(sp) /\ k \in Links(sp)
      BY <1>5, <2>2, LinksAre
    <3>2. new.atoms[k].source = sp.atoms[k].source /\ new.atoms[k].target = sp.atoms[k].target
      BY <1>7, <3>1 DEF SameCore
    <3> QED BY <1>8, <3>1, <3>2 DEF Whole
  <2> QED BY <2>1, <2>2
<1>9. Keeps(new, sp)
  BY <1>3, <1>6, <1>7 DEF Keeps
<1>10. \A h \in Handles(new) \ Handles(sp) : h \in Links(new) /\ new.atoms[h].sti = 0
  BY <1>4, <1>5, <1>6
<1>11. Derives(new, sp)
  BY <1>2, <1>7, <1>8, <1>9, <1>10 DEF Derives
<1> QED BY <1>4, <1>5, <1>6, <1>7, <1>11

\* What one rule does to a space, and what it concludes.
RuleGives(r, sp, h1) ==
    /\ Derives(r.space, sp) /\ r.success \in BOOLEAN /\ r.truth \in Truths
    /\ r.success => /\ r.conclusion \in Handles(r.space)
                    /\ r.space.atoms[r.conclusion].truth = r.truth
                    /\ r.conclusion \in Handles(sp) => r.truth.confidence # 100
    /\ \A c \in Handles(sp) :
           \/ r.space.atoms[c].truth = sp.atoms[c].truth
           \/ /\ c = h1 /\ r.success /\ r.space.atoms[c].truth = r.truth
              /\ sp.atoms[c].truth.confidence # 100 => r.truth.confidence >= sp.atoms[c].truth.confidence
              /\ sp.atoms[c].truth.confidence = 100 => r.truth.confidence = 99

LEMMA FailureGives == ASSUME NEW sp, Sound(sp), NEW h1 PROVE RuleGives(Failure(sp), sp, h1)
<1>1. Truth(0, 0) \in Truths
  BY DEF Truth, Truths, Percents
<1>2. Failure(sp).space = sp /\ Failure(sp).success = FALSE /\ Failure(sp).truth = Truth(0, 0)
  BY DEF Failure
<1>3. Derives(sp, sp)
  BY DerivesRefl
<1> QED BY <1>1, <1>2, <1>3 DEF RuleGives

LEMMA TruthIn == ASSUME NEW sp, IsSpace(sp), NEW h \in Handles(sp) PROVE sp.atoms[h].truth \in Truths
BY AtomsAre DEF AtomSet

LEMMA ConfidenceIn == ASSUME NEW t \in Truths PROVE t.confidence \in Percents /\ t.strength \in Percents
BY DEF Truths

LEMMA RevisionGives ==
    ASSUME NEW sp, Sound(sp), NEW h1 \in Handles(sp), NEW h2 \in Handles(sp)
    PROVE  RuleGives(TryRevision(sp, h1, h2), sp, h1)
<1> DEFINE t1 == sp.atoms[h1].truth
           t2 == sp.atoms[h2].truth
           t == Formula("revision", t1, t2)
           new == [sp EXCEPT !.atoms[h1].truth = t]
           r == TryRevision(sp, h1, h2)
<1>1. t1 \in Truths /\ t2 \in Truths
  BY TruthIn DEF Sound
<1>2. r = Success(new, h1, t)
  BY DEF TryRevision
<1> HIDE DEF t1, t2
<1>3. t \in Truths /\ t.confidence = Together(t1.confidence, t2.confidence)
  BY <1>1, FormulaIs DEF RuleSet
<1>4. /\ Together(t1.confidence, t2.confidence) \in 0..99
      /\ t1.confidence # 100 => Together(t1.confidence, t2.confidence) >= t1.confidence
      /\ t1.confidence = 100 => Together(t1.confidence, t2.confidence) = 99
  BY <1>1, ConfidenceIn, TogetherIs
<1> HIDE DEF t
<1>5. /\ Derives(new, sp) /\ Handles(new) = Handles(sp)
      /\ \A k \in Handles(sp) : new.atoms[k].truth = IF k = h1 THEN t ELSE sp.atoms[k].truth
  BY <1>3, TruthChanged DEF Revised
<1> HIDE DEF new, r
<1>6. r.space = new /\ r.success = TRUE /\ r.conclusion = h1 /\ r.truth = t
  BY <1>2 DEF Success
<1>7. t.confidence # 100
  BY <1>3, <1>4
<1>8. ASSUME NEW c \in Handles(sp)
      PROVE  \/ r.space.atoms[c].truth = sp.atoms[c].truth
             \/ /\ c = h1 /\ r.success /\ r.space.atoms[c].truth = r.truth
                /\ sp.atoms[c].truth.confidence # 100 => r.truth.confidence >= sp.atoms[c].truth.confidence
                /\ sp.atoms[c].truth.confidence = 100 => r.truth.confidence = 99
  BY <1>3, <1>4, <1>5, <1>6 DEF t1
<1>9. r.success => /\ r.conclusion \in Handles(r.space)
                   /\ r.space.atoms[r.conclusion].truth = r.truth
                   /\ r.conclusion \in Handles(sp) => r.truth.confidence # 100
  BY <1>5, <1>6, <1>7
<1>10. RuleGives(r, sp, h1)
  BY <1>3, <1>5, <1>6, <1>8, <1>9 DEF RuleGives
<1> QED BY <1>10 DEF r

LEMMA LinkGives ==
    ASSUME NEW sp, Sound(sp), NEW rule \in RuleSet \ {"revision"}, NEW h1, NEW h2,
           Matches(sp, rule, h1, h2), NEW threshold
    PROVE  RuleGives(TryLink(sp, rule, h1, h2, threshold), sp, h1)
<1> DEFINE t == Formula(rule, sp.atoms[h1].truth, sp.atoms[h2].truth)
           ends == Ends(sp, rule, h1, h2)
           s == ends[1]
           e == ends[2]
           new == AddInheritance(sp, s, e, t)
           n == Len(sp.atoms) + 1
           r == TryLink(sp, rule, h1, h2, threshold)
<1>1. IsSpace(sp) /\ SpaceConsistent(sp)
  BY DEF Sound
<1>2. h1 \in Links(sp) /\ h2 \in Links(sp) /\ h1 \in Handles(sp) /\ h2 \in Handles(sp)
  BY LinksAre DEF Matches, IsLink, Links
<1>3. t \in Truths
  BY <1>1, <1>2, TruthIn, FormulaIs
<1>4. \A l \in Links(sp) : sp.atoms[l].source \in Handles(sp) /\ sp.atoms[l].target \in Handles(sp)
  <2> SUFFICES ASSUME NEW l \in Links(sp)
               PROVE  sp.atoms[l].source \in Handles(sp) /\ sp.atoms[l].target \in Handles(sp)
    OBVIOUS
  <2>1. sp.atoms[l].source \in 1..(l - 1) /\ sp.atoms[l].target \in 1..(l - 1)
    BY <1>1 DEF SpaceConsistent
  <2>2. l \in 1..Len(sp.atoms) /\ Len(sp.atoms) \in Nat
    BY <1>1, LinksAre, AtomsAre DEF Handles
  <2> QED BY <2>1, <2>2 DEF Handles
<1>5. /\ s \in Handles(sp) /\ e \in Handles(sp)
      /\ \A S : Whole(sp, S) => (s \in S <=> e \in S)
  <2>1. \A S : Whole(sp, S) => /\ sp.atoms[h1].source \in S <=> sp.atoms[h1].target \in S
                               /\ sp.atoms[h2].source \in S <=> sp.atoms[h2].target \in S
    BY <1>2 DEF Whole
  <2>2. CASE rule = "deduction"
    <3>1. s = sp.atoms[h1].source /\ e = sp.atoms[h2].target
      BY <2>2 DEF Ends
    <3>2. sp.atoms[h1].target = sp.atoms[h2].source
      BY <2>2 DEF Matches
    <3> QED BY <1>2, <1>4, <2>1, <3>1, <3>2
  <2>3. CASE rule = "induction"
    <3>1. s = sp.atoms[h1].target /\ e = sp.atoms[h2].target
      BY <2>3 DEF Ends
    <3>2. sp.atoms[h1].source = sp.atoms[h2].source
      BY <2>3 DEF Matches
    <3> QED BY <1>2, <1>4, <2>1, <3>1, <3>2
  <2>4. CASE rule = "abduction"
    <3>1. s = sp.atoms[h1].source /\ e = sp.atoms[h2].source
      BY <2>4 DEF Ends
    <3>2. sp.atoms[h1].target = sp.atoms[h2].target
      BY <2>4 DEF Matches
    <3> QED BY <1>2, <1>4, <2>1, <3>1, <3>2
  <2> QED BY <2>2, <2>3, <2>4 DEF RuleSet
<1>6. CASE t.confidence < threshold
  <2>1. r = Failure(sp)
    BY <1>6 DEF TryLink
  <2> QED BY <2>1, FailureGives
<1>7. CASE ~(t.confidence < threshold)
  <2>1. r = Success(new, n, t)
    BY <1>7 DEF TryLink
  <2> HIDE DEF s, e, t
  <2>2. /\ Derives(new, sp)
        /\ Handles(new) = Handles(sp) \cup {n} /\ n \notin Handles(sp)
        /\ new.atoms[n].truth = t
        /\ \A k \in Handles(sp) : new.atoms[k].truth = sp.atoms[k].truth
    BY <1>3, <1>5, LinkDerived
  <2> HIDE DEF new, n, r
  <2>3. r.space = new /\ r.success = TRUE /\ r.conclusion = n /\ r.truth = t
    BY <2>1 DEF Success
  <2>4. RuleGives(r, sp, h1)
    BY <1>3, <2>2, <2>3 DEF RuleGives
  <2> QED BY <2>4 DEF r
<1> QED BY <1>6, <1>7

LEMMA RuleIs ==
    ASSUME NEW sp, Sound(sp), NEW rule \in RuleSet, NEW h1, NEW h2
    PROVE  RuleGives(ApplyRule(sp, rule, h1, h2, Threshold), sp, h1)
<1>1. CASE ~Matches(sp, rule, h1, h2)
  BY <1>1, FailureGives DEF ApplyRule
<1>2. CASE Matches(sp, rule, h1, h2) /\ rule = "revision"
  <2>1. h1 \in Handles(sp) /\ h2 \in Handles(sp)
    BY <1>2 DEF Matches
  <2>2. ApplyRule(sp, rule, h1, h2, Threshold) = TryRevision(sp, h1, h2)
    BY <1>2 DEF ApplyRule
  <2> QED BY <2>1, <2>2, RevisionGives
<1>3. CASE Matches(sp, rule, h1, h2) /\ rule # "revision"
  <2>1. ApplyRule(sp, rule, h1, h2, Threshold) = TryLink(sp, rule, h1, h2, Threshold)
    BY <1>3 DEF ApplyRule
  <2> QED BY <1>3, <2>1, LinkGives
<1> QED BY <1>1, <1>2, <1>3

-----------------------------------------------------------------------------
(* One step of a forward chain *)

LEMMA GreatestIn == ASSUME NEW S, S \subseteq Int, IsFiniteSet(S), S # {}
                    PROVE  Max(S) \in S /\ \A x \in S : x <= Max(S)
<1> DEFINE Above(k) == {j \in S : j > k}
           T == {Above(k) : k \in S}
<1>1. T \subseteq FiniteSubsetsOf(S) /\ T # {}
  <2>1. \A k \in S : Above(k) \subseteq S /\ IsFiniteSet(Above(k))
    BY FS_Subset
  <2> QED BY Zenon, <2>1 DEF FiniteSubsetsOf
<1>2. PICK k \in S : \A j \in S : ~(<<Above(j), Above(k)>> \in StrictSubsetOrdering(S))
  <2>1. \E x \in T : \A y \in T : ~(<<y, x>> \in StrictSubsetOrdering(S))
    BY Zenon, <1>1, FS_StrictSubsetOrderingWellFounded, WFMin
  <2> QED BY Zenon, <2>1
<1>3. ASSUME NEW j \in S, j > k PROVE FALSE
  <2>0. j \in Int /\ k \in Int /\ \A x \in S : x \in Int
    OBVIOUS
  <2>1. Above(j) \subseteq Above(k) /\ j \in Above(k) /\ j \notin Above(j)
    <3>1. \A x \in S : x > j => x > k
      BY <1>3, <2>0
    <3>2. ~(j > j)
      BY <2>0
    <3>3. Above(j) \subseteq Above(k)
      BY Zenon, <3>1
    <3> QED BY <1>3, <3>2, <3>3
  <2>2. Above(j) \subseteq S /\ Above(k) \subseteq S /\ Above(j) # Above(k)
    BY <2>1
  <2> HIDE DEF Above
  <2>3. <<Above(j), Above(k)>> \in StrictSubsetOrdering(S)
    BY <2>1, <2>2 DEF StrictSubsetOrdering
  <2> QED BY <1>2, <2>3
<1>4. \A x \in S : k >= x
  BY <1>3
<1>5. Max(S) \in S /\ \A x \in S : Max(S) >= x
  BY Zenon, <1>4 DEF Max
<1> QED BY <1>5

LEMMA MaxPicks == ASSUME NEW n \in Nat PROVE \A s \in SUBSET (1..n) : s # {} => Max(s) \in s
<1>1. \A s \in SUBSET (1..n) : s \subseteq Int /\ IsFiniteSet(s)
  <2>1. IsFiniteSet(1..n) /\ 1..n \subseteq Int
    BY FS_Interval
  <2> QED BY Zenon, <2>1, FS_Subset
<1> QED BY Zenon, <1>1, GreatestIn

\* What is known of a search that began in d.old: the result that ends it is
\* stored, and until there is one, a truth value of confidence stays, unless it
\* is certain and revised as the first of a pair; what was confident still is.
Searching(r, d) ==
    /\ Derives(r.space, d.old) /\ r.success \in BOOLEAN /\ r.truth \in Truths
    /\ Concludes(r) => /\ r.conclusion \in Handles(r.space)
                       /\ r.space.atoms[r.conclusion].truth = r.truth
                       /\ r.conclusion \in Handles(d.old) => r.truth.confidence # 100
    /\ ~Concludes(r) =>
           \A c \in Handles(d.old) :
               /\ d.old.atoms[c].truth.confidence >= Threshold
               /\ d.old.atoms[c].truth.confidence = 100 => c \notin d.firsts
               => r.space.atoms[c].truth = d.old.atoms[c].truth
    /\ \A c \in Handles(d.old) : Confident(d.old, c) => Confident(r.space, c)

\* The least confidence that nothing takes away.
LEMMA FloorIs == Lower(Threshold, 99) \in Nat /\ Lower(Threshold, 99) <= Threshold /\ Lower(Threshold, 99) <= 99
BY MindAssumption DEF Lower

LEMMA AttemptIs ==
    ASSUME NEW r, NEW d, Sound(d.old), Searching(r, d), NEW rule \in RuleSet, NEW h1 \in d.firsts, NEW h2
    PROVE  Searching(Attempt(r, rule, h1, h2), d)
<1> DEFINE q == ApplyRule(r.space, rule, h1, h2, Threshold)
<1>1. CASE Concludes(r)
  BY <1>1 DEF Attempt
<1>2. CASE ~Concludes(r)
  <2>1. Attempt(r, rule, h1, h2) = q
    BY <1>2 DEF Attempt
  <2>2. Sound(r.space) /\ Derives(r.space, d.old)
    BY DEF Searching, Derives
  <2>3. RuleGives(q, r.space, h1)
    BY <2>2, RuleIs
  <2> HIDE DEF q
  <2>4. Derives(q.space, d.old)
    BY <2>2, <2>3, DerivesTrans DEF RuleGives
  <2>5. Handles(d.old) \subseteq Handles(r.space)
    BY <2>2, KeptLinks DEF Derives, Sound
  <2>6. q.success \in BOOLEAN /\ q.truth \in Truths
    BY <2>3 DEF RuleGives
  <2>7. Concludes(q) => /\ q.conclusion \in Handles(q.space)
                        /\ q.space.atoms[q.conclusion].truth = q.truth
                        /\ q.conclusion \in Handles(d.old) => q.truth.confidence # 100
    BY <2>3, <2>5 DEF RuleGives, Concludes
  <2>8. ASSUME ~Concludes(q), NEW c \in Handles(d.old),
               d.old.atoms[c].truth.confidence >= Threshold,
               d.old.atoms[c].truth.confidence = 100 => c \notin d.firsts
        PROVE  q.space.atoms[c].truth = d.old.atoms[c].truth
    <3>1. r.space.atoms[c].truth = d.old.atoms[c].truth
      BY <1>2, <2>8 DEF Searching
    <3>2. c \in Handles(r.space)
      BY <2>5
    <3>3. \/ q.space.atoms[c].truth = r.space.atoms[c].truth
          \/ /\ c = h1 /\ q.success
             /\ r.space.atoms[c].truth.confidence # 100 => q.truth.confidence >= r.space.atoms[c].truth.confidence
      BY <2>3, <3>2 DEF RuleGives
    <3>4. CASE /\ c = h1 /\ q.success
               /\ r.space.atoms[c].truth.confidence # 100 => q.truth.confidence >= r.space.atoms[c].truth.confidence
      <4>1. q.truth.confidence >= d.old.atoms[c].truth.confidence
        BY <2>8, <3>1, <3>4
      <4>2. d.old.atoms[c].truth.confidence \in Nat /\ q.truth.confidence \in Nat /\ Threshold \in Nat
        <5>1. d.old.atoms[c].truth \in Truths
          BY TruthIn DEF Sound
        <5> QED BY <2>6, <5>1, ConfidenceIn, PercentsIs, MindAssumption
      <4>3. q.truth.confidence >= Threshold
        BY <2>8, <4>1, <4>2
      <4> QED BY <2>8, <3>4, <4>3 DEF Concludes
    <3> QED BY <3>1, <3>3, <3>4
  <2>10. ASSUME NEW c \in Handles(d.old), Confident(d.old, c) PROVE Confident(q.space, c)
    <3>1. Confident(r.space, c) /\ c \in Handles(r.space)
      BY <2>5, <2>10 DEF Searching
    <3>2. c \in Handles(q.space)
      BY <2>4, <2>10, KeptLinks DEF Derives, Sound
    <3>3. CASE q.space.atoms[c].truth = r.space.atoms[c].truth
      BY <3>1, <3>2, <3>3 DEF Confident
    <3>4. CASE /\ q.space.atoms[c].truth = q.truth
               /\ r.space.atoms[c].truth.confidence # 100 => q.truth.confidence >= r.space.atoms[c].truth.confidence
               /\ r.space.atoms[c].truth.confidence = 100 => q.truth.confidence = 99
      <4> DEFINE old == r.space.atoms[c].truth.confidence
                 new == q.truth.confidence
                 least == Lower(Threshold, 99)
      <4>1. old \in Nat /\ new \in Nat
        <5>1. r.space.atoms[c].truth \in Truths
          BY <2>2, <3>1, TruthIn DEF Sound
        <5> QED BY <2>6, <5>1, ConfidenceIn, PercentsIs
      <4>2. least \in Nat /\ least <= 99
        BY FloorIs
      <4>3. old >= least
        BY <3>1 DEF Confident
      <4>4. (old # 100 => new >= old) /\ (old = 100 => new = 99)
        BY <3>4
      <4> HIDE DEF old, new, least
      <4>5. new >= least
        BY <4>1, <4>2, <4>3, <4>4
      <4> QED BY <3>2, <3>4, <4>5 DEF Confident, new, least
    <3>5. \/ q.space.atoms[c].truth = r.space.atoms[c].truth
          \/ /\ q.space.atoms[c].truth = q.truth
             /\ r.space.atoms[c].truth.confidence # 100 => q.truth.confidence >= r.space.atoms[c].truth.confidence
             /\ r.space.atoms[c].truth.confidence = 100 => q.truth.confidence = 99
      BY <2>3, <3>1 DEF RuleGives
    <3> QED BY <3>3, <3>4, <3>5
  <2>9. Searching(q, d)
    BY <2>4, <2>6, <2>7, <2>8, <2>10 DEF Searching
  <2> QED BY <2>1, <2>9
<1> QED BY <1>1, <1>2

\* The rules in turn.
OnStep(k, acc, h1, h2, d) == Attempt(acc, Rules[k], h1, h2)
OnLeaves(acc, T, h1, h2, d) == Searching(acc, d)
OnFold == INSTANCE Folding WITH Step <- OnStep, Keeps <- OnLeaves, Pick <- Max

LEMMA TriedOnIs ==
    ASSUME NEW r, NEW d, Sound(d.old), Searching(r, d), NEW h1 \in d.firsts, NEW h2
    PROVE  Searching(TriedOn(r, h1, h2), d)
<1>1. DOMAIN Rules = 1..4 /\ \A k \in 1..4 : Rules[k] \in RuleSet
  BY DEF Rules, RuleSet
<1>2. TriedOn(r, h1, h2) = OnFold!Folded(r, DOMAIN Rules, h1, h2, d)
  BY DEF TriedOn, FoldLeft, MapThenFoldSet, OnFold!Folded, OnStep
<1>3. OnFold!IsFiniteSet(1..4)
  <2>1. IsFiniteSet(1..4)
    BY FS_Interval, 1 \in Int, 4 \in Int
  <2> QED BY <2>1 DEF IsFiniteSet, OnFold!IsFiniteSet
<1>4. \A T \in SUBSET (1..4) : T # {} => Max(T) \in T
  BY MaxPicks, 4 \in Nat
<1>5. \A T \in SUBSET (1..4) : T # {} => \A acc :
         OnLeaves(acc, T \ {Max(T)}, h1, h2, d) => OnLeaves(OnStep(Max(T), acc, h1, h2, d), T, h1, h2, d)
  <2> SUFFICES ASSUME NEW T \in SUBSET (1..4), T # {}, NEW acc, Searching(acc, d)
               PROVE  Searching(Attempt(acc, Rules[Max(T)], h1, h2), d)
    BY DEF OnLeaves, OnStep
  <2>1. Rules[Max(T)] \in RuleSet
    BY <1>1, <1>4
  <2> QED BY <2>1, AttemptIs
<1>6. OnFold!Inductive(r, 1..4, h1, h2, d)
  BY <1>3, <1>4, <1>5 DEF OnFold!Inductive, OnLeaves
<1>7. OnLeaves(OnFold!Folded(r, 1..4, h1, h2, d), 1..4, h1, h2, d)
  BY Zenon, <1>6, OnFold!FoldKeeps
<1> QED BY <1>1, <1>2, <1>7 DEF OnLeaves

\* The indexes that FoldLeftDomain folds.
Indexes(s) == [k \in DOMAIN s |-> k]

LEMMA IndexesAre ==
    ASSUME NEW n \in Nat, NEW s, DOMAIN s = 1..n
    PROVE  /\ DOMAIN Indexes(s) = 1..n /\ \A k \in 1..n : Indexes(s)[k] = k
           /\ IsFiniteSet(1..n)
           /\ \A T \in SUBSET (1..n) : T # {} => Max(T) \in T /\ Max(T) \in 1..n
<1>1. IsFiniteSet(1..n)
  BY FS_Interval
<1> QED BY <1>1, MaxPicks DEF Indexes

\* A working set whose elements, but for the last, come first in a pair.
Works(working, d) ==
    /\ Len(working) \in Nat /\ DOMAIN working = 1..Len(working)
    /\ \A i \in 1..Len(working) : i < Len(working) => working[i] \in d.firsts

FromStep(k, acc, working, i, d) ==
    IF i < Indexes(working)[k] THEN TriedOn(acc, working[i], working[Indexes(working)[k]]) ELSE acc
FromLeaves(acc, T, working, i, d) == Searching(acc, d)
FromFold == INSTANCE Folding WITH Step <- FromStep, Keeps <- FromLeaves, Pick <- Max

LEMMA TriedFromIs ==
    ASSUME NEW r, NEW d, Sound(d.old), Searching(r, d), NEW working, Works(working, d), NEW i \in 1..Len(working)
    PROVE  Searching(TriedFrom(r, working, i), d)
<1> DEFINE n == Len(working)
<1>1. n \in Nat /\ DOMAIN working = 1..n
  BY DEF Works
<1>2. /\ DOMAIN Indexes(working) = 1..n /\ \A k \in 1..n : Indexes(working)[k] = k
      /\ IsFiniteSet(1..n)
      /\ \A T \in SUBSET (1..n) : T # {} => Max(T) \in T /\ Max(T) \in 1..n
  BY <1>1, IndexesAre
<1>3. TriedFrom(r, working, i) = FromFold!Folded(r, DOMAIN Indexes(working), working, i, d)
  BY DEF TriedFrom, FoldLeftDomain, FoldLeft, MapThenFoldSet, FromFold!Folded, FromStep, Indexes
<1>4. FromFold!IsFiniteSet(1..n)
  BY <1>2 DEF IsFiniteSet, FromFold!IsFiniteSet
<1>5. \A T \in SUBSET (1..n) : T # {} => \A acc :
         FromLeaves(acc, T \ {Max(T)}, working, i, d) => FromLeaves(FromStep(Max(T), acc, working, i, d), T, working, i, d)
  <2> SUFFICES ASSUME NEW T \in SUBSET (1..n), T # {}, NEW acc, Searching(acc, d)
               PROVE  Searching(FromStep(Max(T), acc, working, i, d), d)
    BY DEF FromLeaves
  <2> DEFINE j == Max(T)
  <2>1. j \in 1..n /\ Indexes(working)[j] = j
    BY <1>2
  <2> HIDE DEF j
  <2>2. CASE i < j
    <3>1. working[i] \in d.firsts
      BY <1>1, <2>1, <2>2 DEF Works
    <3>2. FromStep(j, acc, working, i, d) = TriedOn(acc, working[i], working[j])
      BY <2>1, <2>2 DEF FromStep
    <3> QED BY <3>1, <3>2, TriedOnIs DEF j
  <2>3. CASE ~(i < j)
    <3>1. FromStep(j, acc, working, i, d) = acc
      BY <2>1, <2>3 DEF FromStep
    <3> QED BY <3>1 DEF j
  <2> QED BY <2>2, <2>3
<1> HIDE DEF n
<1>6. \A T \in SUBSET (1..n) : T # {} => Max(T) \in T
  BY <1>2
<1>7. FromFold!Inductive(r, 1..n, working, i, d)
  BY Zenon, <1>4, <1>5, <1>6 DEF FromFold!Inductive, FromLeaves
<1>8. FromLeaves(FromFold!Folded(r, 1..n, working, i, d), 1..n, working, i, d)
  BY Zenon, <1>7, FromFold!FoldKeeps
<1> QED BY <1>2, <1>3, <1>8 DEF FromLeaves

TriedStep(k, acc, working, b, d) == TriedFrom(acc, working, Indexes(working)[k])
TriedLeaves(acc, T, working, b, d) == Searching(acc, d)
TriedFold == INSTANCE Folding WITH Step <- TriedStep, Keeps <- TriedLeaves, Pick <- Max

LEMMA TriedIs ==
    ASSUME NEW d, Sound(d.old), d.old = space, NEW working, Works(working, d)
    PROVE  Searching(Tried(working), d)
<1> DEFINE n == Len(working)
           r == Failure(space)
<1>1. n \in Nat /\ DOMAIN working = 1..n
  BY DEF Works
<1>2. /\ DOMAIN Indexes(working) = 1..n /\ \A k \in 1..n : Indexes(working)[k] = k
      /\ IsFiniteSet(1..n)
      /\ \A T \in SUBSET (1..n) : T # {} => Max(T) \in T /\ Max(T) \in 1..n
  BY <1>1, IndexesAre
<1>3. Tried(working) = TriedFold!Folded(r, DOMAIN Indexes(working), working, 0, d)
  BY DEF Tried, FoldLeftDomain, FoldLeft, MapThenFoldSet, TriedFold!Folded, TriedStep, Indexes
<1>4. TriedFold!IsFiniteSet(1..n)
  BY <1>2 DEF IsFiniteSet, TriedFold!IsFiniteSet
<1>5. \A T \in SUBSET (1..n) : T # {} => \A acc :
         TriedLeaves(acc, T \ {Max(T)}, working, 0, d) => TriedLeaves(TriedStep(Max(T), acc, working, 0, d), T, working, 0, d)
  <2> SUFFICES ASSUME NEW T \in SUBSET (1..n), T # {}, NEW acc, Searching(acc, d)
               PROVE  Searching(TriedFrom(acc, working, Indexes(working)[Max(T)]), d)
    BY DEF TriedLeaves, TriedStep
  <2>1. Indexes(working)[Max(T)] \in 1..Len(working)
    BY <1>2
  <2> QED BY <2>1, TriedFromIs
<1>6. Searching(r, d)
  <2>1. RuleGives(r, space, 0)
    BY FailureGives
  <2>2. r.space = space /\ r.success = FALSE
    BY DEF Failure
  <2> QED BY <2>1, <2>2 DEF Searching, RuleGives, Concludes
<1> HIDE DEF n, r
<1>7. \A T \in SUBSET (1..n) : T # {} => Max(T) \in T
  BY <1>2
<1>8. TriedFold!Inductive(r, 1..n, working, 0, d)
  BY Zenon, <1>4, <1>5, <1>6, <1>7 DEF TriedFold!Inductive, TriedLeaves
<1>9. TriedLeaves(TriedFold!Folded(r, 1..n, working, 0, d), 1..n, working, 0, d)
  BY Zenon, <1>8, TriedFold!FoldKeeps
<1> QED BY <1>2, <1>3, <1>9 DEF TriedLeaves

-----------------------------------------------------------------------------
(* A backward chain *)

DeduceStep(k, acc, order, i, old) ==
    IF i < Indexes(order)[k] THEN ApplyRule(acc, "deduction", order[i], order[Indexes(order)[k]], Threshold).space ELSE acc
DeduceLeaves(acc, T, order, i, old) == Derives(acc, old)
DeduceFold == INSTANCE Folding WITH Step <- DeduceStep, Keeps <- DeduceLeaves, Pick <- Max

LEMMA DeducedFromIs ==
    ASSUME NEW old, Sound(old), NEW sp, Derives(sp, old), NEW n \in Nat, NEW order, DOMAIN order = 1..n, NEW i
    PROVE  Derives(DeducedFrom(sp, order, i), old)
<1>2. /\ DOMAIN Indexes(order) = 1..n
      /\ IsFiniteSet(1..n)
      /\ \A T \in SUBSET (1..n) : T # {} => Max(T) \in T
  BY IndexesAre
<1>3. DeducedFrom(sp, order, i) = DeduceFold!Folded(sp, DOMAIN Indexes(order), order, i, old)
  BY DEF DeducedFrom, FoldLeftDomain, FoldLeft, MapThenFoldSet, DeduceFold!Folded, DeduceStep, Indexes
<1>4. DeduceFold!IsFiniteSet(1..n)
  BY <1>2 DEF IsFiniteSet, DeduceFold!IsFiniteSet
<1>5. ASSUME NEW k, NEW acc, Derives(acc, old) PROVE Derives(DeduceStep(k, acc, order, i, old), old)
  <2> DEFINE q == ApplyRule(acc, "deduction", order[i], order[Indexes(order)[k]], Threshold)
  <2>1. Sound(acc)
    BY <1>5 DEF Derives
  <2>2. RuleGives(q, acc, order[i])
    BY <2>1, RuleIs DEF RuleSet
  <2>3. Derives(q.space, acc)
    BY <2>2 DEF RuleGives
  <2> HIDE DEF q
  <2>4. Derives(q.space, old)
    BY <1>5, <2>3, DerivesTrans
  <2> QED BY <1>5, <2>4 DEF DeduceStep, q
<1>6. \A T \in SUBSET (1..n) : T # {} => \A acc :
         DeduceLeaves(acc, T \ {Max(T)}, order, i, old) => DeduceLeaves(DeduceStep(Max(T), acc, order, i, old), T, order, i, old)
  BY Zenon, <1>5 DEF DeduceLeaves
<1>7. DeduceFold!Inductive(sp, 1..n, order, i, old)
  BY Zenon, <1>2, <1>4, <1>6 DEF DeduceFold!Inductive, DeduceLeaves
<1>8. DeduceLeaves(DeduceFold!Folded(sp, 1..n, order, i, old), 1..n, order, i, old)
  BY Zenon, <1>7, DeduceFold!FoldKeeps
<1> QED BY <1>2, <1>3, <1>8 DEF DeduceLeaves

BackStep(k, acc, order, b, old) == DeducedFrom(acc, order, Indexes(order)[k])
BackLeaves(acc, T, order, b, old) == Derives(acc, old)
BackFold == INSTANCE Folding WITH Step <- BackStep, Keeps <- BackLeaves, Pick <- Max

LEMMA DeducedIs ==
    ASSUME NEW old, old = space, Sound(old), NEW n \in Nat, NEW order, DOMAIN order = 1..n
    PROVE  Derives(Deduced(order), old)
<1>2. /\ DOMAIN Indexes(order) = 1..n
      /\ IsFiniteSet(1..n)
      /\ \A T \in SUBSET (1..n) : T # {} => Max(T) \in T
  BY IndexesAre
<1>3. Deduced(order) = BackFold!Folded(old, DOMAIN Indexes(order), order, 0, old)
  BY DEF Deduced, FoldLeftDomain, FoldLeft, MapThenFoldSet, BackFold!Folded, BackStep, Indexes
<1>4. BackFold!IsFiniteSet(1..n)
  BY <1>2 DEF IsFiniteSet, BackFold!IsFiniteSet
<1>5. \A T \in SUBSET (1..n) : T # {} => \A acc :
         BackLeaves(acc, T \ {Max(T)}, order, 0, old) => BackLeaves(BackStep(Max(T), acc, order, 0, old), T, order, 0, old)
  BY Zenon, DeducedFromIs DEF BackLeaves, BackStep
<1>6. Derives(old, old)
  BY DerivesRefl
<1>7. BackFold!Inductive(old, 1..n, order, 0, old)
  BY Zenon, <1>2, <1>4, <1>5, <1>6 DEF BackFold!Inductive, BackLeaves
<1>8. BackLeaves(BackFold!Folded(old, 1..n, order, 0, old), 1..n, order, 0, old)
  BY Zenon, <1>7, BackFold!FoldKeeps
<1> QED BY <1>2, <1>3, <1>8 DEF BackLeaves

-----------------------------------------------------------------------------
(* What attention does to a space *)

\* With an atom the set has those that its links lead to.
Led(sp, S) == \A l \in Links(sp) : sp.atoms[l].source \in S => sp.atoms[l].target \in S

\* It changes importance only, and that only where links lead from atoms that
\* have some, or from these.
Stirs(new, old, from) ==
    /\ Sound(new) /\ new.names = old.names /\ Len(new.atoms) = Len(old.atoms)
    /\ Handles(new) = Handles(old) /\ Links(new) = Links(old)
    /\ \A k \in Handles(old) : SameCore(new.atoms[k], old.atoms[k]) /\ new.atoms[k].truth = old.atoms[k].truth
    /\ \A S : from \subseteq S /\ Attentional(old, 1) \subseteq S /\ Led(old, S) => Attentional(new, 1) \subseteq S

LEMMA StirsRefl == ASSUME NEW sp, Sound(sp), NEW from PROVE Stirs(sp, sp, from)
BY DEF Stirs, SameCore

LEMMA StirsTrans ==
    ASSUME NEW a, NEW b, NEW c, NEW from, NEW more, Stirs(b, a, from), Stirs(c, b, more),
           more \subseteq from \cup Attentional(a, 1)
    PROVE  Stirs(c, a, from)
<1>1. /\ Sound(c) /\ c.names = a.names /\ Len(c.atoms) = Len(a.atoms)
      /\ Handles(c) = Handles(a) /\ Links(c) = Links(a)
  BY DEF Stirs
<1>2. \A k \in Handles(a) : SameCore(c.atoms[k], a.atoms[k]) /\ c.atoms[k].truth = a.atoms[k].truth
  BY DEF Stirs, SameCore
<1>3. ASSUME NEW S, from \subseteq S, Attentional(a, 1) \subseteq S, Led(a, S) PROVE Attentional(c, 1) \subseteq S
  <2>1. Attentional(b, 1) \subseteq S
    BY <1>3 DEF Stirs
  <2>2. Links(b) = Links(a) /\ Links(a) \subseteq Handles(a)
    BY LinksAre DEF Stirs
  <2>3. \A l \in Links(a) : b.atoms[l].source = a.atoms[l].source /\ b.atoms[l].target = a.atoms[l].target
    BY <2>2 DEF Stirs, SameCore
  <2>4. Led(b, S)
    BY <1>3, <2>2, <2>3 DEF Led
  <2>5. more \subseteq S
    BY <1>3
  <2> QED BY <2>1, <2>4, <2>5 DEF Stirs
<1> QED BY <1>1, <1>2, <1>3 DEF Stirs

\* The importance of one atom changes.
LEMMA StiChanged ==
    ASSUME NEW sp, Sound(sp), NEW h \in Handles(sp), NEW v \in Nat, NEW from,
           \A S : from \subseteq S /\ Led(sp, S) => h \in S
    PROVE  Stirs([sp EXCEPT !.atoms[h].sti = v], sp, from)
<1> DEFINE new == [sp EXCEPT !.atoms[h].sti = v]
           atom == [sp.atoms[h] EXCEPT !.sti = v]
<1>1. sp = [atoms |-> sp.atoms, names |-> sp.names] /\ IsSpace(sp)
  BY DEF Sound, IsSpace
<1>2. new = [atoms |-> [sp.atoms EXCEPT ![h] = atom], names |-> sp.names]
  BY <1>1
<1>3. sp.atoms[h] \in AtomSet
  BY <1>1, AtomsAre
<1>4. /\ atom \in AtomSet /\ SameCore(atom, sp.atoms[h]) /\ SameLists(atom, sp.atoms[h])
      /\ atom.truth = sp.atoms[h].truth
  BY <1>3 DEF AtomSet, SameCore, SameLists
<1> HIDE DEF atom, new
<1>5. Replaced(new, sp, h, atom)
  BY Zenon, <1>2, <1>4, AtomChanged
<1>6. \A k \in Handles(sp) : new.atoms[k].truth = sp.atoms[k].truth
  BY <1>4, <1>5 DEF Replaced
<1>7. ASSUME NEW S, from \subseteq S, Attentional(sp, 1) \subseteq S, Led(sp, S) PROVE Attentional(new, 1) \subseteq S
  <2> SUFFICES ASSUME NEW k \in Attentional(new, 1) PROVE k \in S
    OBVIOUS
  <2>1. k \in Handles(sp) /\ new.atoms[k].sti >= 1
    BY <1>5 DEF Attentional, Replaced
  <2>2. CASE k = h
    BY <1>7, <2>2
  <2>3. CASE k # h
    <3>1. new.atoms[k] = sp.atoms[k]
      BY <1>5, <2>1, <2>3 DEF Replaced
    <3> QED BY <1>7, <2>1, <3>1 DEF Attentional
  <2> QED BY <2>2, <2>3
<1>8. Stirs(new, sp, from)
  BY <1>5, <1>6, <1>7 DEF Replaced, Stirs
<1> QED BY <1>8 DEF new

LEMMA StiIn == ASSUME NEW sp, Sound(sp), NEW h \in Handles(sp) PROVE sp.atoms[h].sti \in Nat
BY AtomsAre DEF AtomSet, Sound

LEMMA EndsIn ==
    ASSUME NEW sp, Sound(sp), NEW l \in Links(sp)
    PROVE  l \in Handles(sp) /\ sp.atoms[l].source \in Handles(sp) /\ sp.atoms[l].target \in Handles(sp)
<1>1. sp.atoms[l].source \in 1..(l - 1) /\ sp.atoms[l].target \in 1..(l - 1)
  BY DEF SpaceConsistent, Sound
<1>2. l \in 1..Len(sp.atoms) /\ Len(sp.atoms) \in Nat
  BY LinksAre, AtomsAre DEF Handles, Sound
<1> QED BY <1>1, <1>2 DEF Handles

LEMMA SpreadOnceStirs ==
    ASSUME NEW sp, Sound(sp), NEW l \in Links(sp), NEW amount \in Nat
    PROVE  Stirs(SpreadOnce(sp, l, amount), sp, {sp.atoms[l].source})
<1> DEFINE h == sp.atoms[l].target
           s == sp.atoms[l].truth.strength
           v == sp.atoms[h].sti + (amount * s) \div 1000
<1>1. h \in Handles(sp) /\ l \in Handles(sp) /\ sp.atoms[l].source \in Handles(sp)
  BY EndsIn
<1>2. s \in Nat
  BY <1>1, TruthIn, ConfidenceIn, PercentsIs DEF Sound
<1>3. sp.atoms[h].sti \in Nat
  BY <1>1, StiIn
<1> HIDE DEF s
<1>4. v \in Nat
  <2>1. amount * s \in Nat
    BY <1>2
  <2>2. (amount * s) \div 1000 \in Nat
    BY <2>1
  <2> QED BY <1>3, <2>2
<1>5. SpreadOnce(sp, l, amount) = [sp EXCEPT !.atoms[h].sti = v]
  BY <1>1 DEF SpreadOnce, s
<1>6. \A S : {sp.atoms[l].source} \subseteq S /\ Led(sp, S) => h \in S
  BY DEF Led
<1> DEFINE from == {sp.atoms[l].source}
<1> HIDE DEF v, h, from
<1>7. Stirs([sp EXCEPT !.atoms[h].sti = v], sp, from)
  BY Zenon, <1>1, <1>4, <1>6, StiChanged DEF from
<1> QED BY <1>5, <1>7 DEF from

SpreadStep(k, acc, list, amount, d) == SpreadOnce(acc, list[k], amount)
SpreadLeaves(acc, T, list, amount, d) == Stirs(acc, d.old, {d.h})
SpreadFold == INSTANCE Folding WITH Step <- SpreadStep, Keeps <- SpreadLeaves, Pick <- Max

LEMMA SpreadStirs ==
    ASSUME NEW sp, Sound(sp), NEW h \in Handles(sp), NEW amount \in Nat
    PROVE  Stirs(SpreadActivation(sp, h, amount), sp, {h})
<1> DEFINE list == sp.atoms[h].outgoing
           n == Len(list)
           d == [old |-> sp, h |-> h]
<1>1. list \in Seq(Nat) /\ n \in Nat /\ DOMAIN list = 1..n
  <2>1. sp.atoms[h] \in AtomSet
    BY AtomsAre DEF Sound
  <2>2. list \in Seq(Nat)
    BY <2>1 DEF AtomSet
  <2> QED BY <2>2, LenProperties
<1>2. \A k \in 1..n : list[k] \in Links(sp) /\ sp.atoms[list[k]].source = h
  <2>1. Range(list) = {l \in Links(sp) : sp.atoms[l].source = h}
    BY DEF Sound, SpaceConsistent, Lists
  <2>2. \A k \in 1..n : list[k] \in Range(list)
    BY <1>1 DEF Range
  <2> QED BY <2>1, <2>2
<1>3. SpreadActivation(sp, h, amount) = SpreadFold!Folded(sp, DOMAIN list, list, amount, d)
  BY DEF SpreadActivation, FoldLeft, MapThenFoldSet, SpreadFold!Folded, SpreadStep
<1>4. d.old = sp /\ d.h = h
  OBVIOUS
<1> HIDE DEF list, n, d
<1>5. SpreadFold!IsFiniteSet(1..n)
  <2>1. IsFiniteSet(1..n)
    BY <1>1, FS_Interval
  <2> QED BY <2>1 DEF IsFiniteSet, SpreadFold!IsFiniteSet
<1>6. \A T \in SUBSET (1..n) : T # {} => Max(T) \in T
  BY <1>1, MaxPicks
<1>7. \A T \in SUBSET (1..n) : T # {} => \A acc :
         SpreadLeaves(acc, T \ {Max(T)}, list, amount, d) => SpreadLeaves(SpreadStep(Max(T), acc, list, amount, d), T, list, amount, d)
  <2> SUFFICES ASSUME NEW T \in SUBSET (1..n), T # {}, NEW acc, Stirs(acc, sp, {h})
               PROVE  Stirs(SpreadOnce(acc, list[Max(T)], amount), sp, {h})
    BY <1>4 DEF SpreadLeaves, SpreadStep
  <2> DEFINE l == list[Max(T)]
  <2>1. l \in Links(sp) /\ sp.atoms[l].source = h
    BY <1>2, <1>6
  <2> HIDE DEF l
  <2>2. l \in Handles(sp) /\ l \in Links(acc) /\ Sound(acc) /\ acc.atoms[l].source = h
    BY <2>1, LinksAre DEF Stirs, SameCore
  <2>3. Stirs(SpreadOnce(acc, l, amount), acc, {h})
    BY <2>2, SpreadOnceStirs
  <2>4. {h} \subseteq {h} \cup Attentional(sp, 1)
    OBVIOUS
  <2> QED BY Zenon, <2>3, <2>4, StirsTrans DEF l
<1>8. SpreadLeaves(sp, {}, list, amount, d)
  BY <1>4, StirsRefl DEF SpreadLeaves
<1>9. SpreadFold!Inductive(sp, 1..n, list, amount, d)
  BY Zenon, <1>5, <1>6, <1>7, <1>8 DEF SpreadFold!Inductive
<1>10. SpreadLeaves(SpreadFold!Folded(sp, 1..n, list, amount, d), 1..n, list, amount, d)
  BY Zenon, <1>9, SpreadFold!FoldKeeps
<1> QED BY <1>1, <1>3, <1>4, <1>10 DEF SpreadLeaves

SomeOf(S) == CHOOSE x \in S : TRUE

DiffuseStep(h, acc, old, b, d) == SpreadActivation(acc, h, SpreadingRate)
DiffuseLeaves(acc, T, old, b, d) == Stirs(acc, old, {})
DiffuseFold == INSTANCE Folding WITH Step <- DiffuseStep, Keeps <- DiffuseLeaves, Pick <- SomeOf

LEMMA DiffusedStirs ==
    ASSUME Sound(space), NEW focus, focus \subseteq Attentional(space, 1)
    PROVE  Stirs(Diffused(focus), space, {})
<1>1. Diffused(focus) = DiffuseFold!Folded(space, focus, space, 0, 0)
  BY DEF Diffused, FoldSet, MapThenFoldSet, DiffuseFold!Folded, DiffuseStep, SomeOf
<1>2. DiffuseFold!IsFiniteSet(focus)
  <2>1. focus \subseteq Handles(space)
    BY DEF Attentional
  <2>2. IsFiniteSet(Handles(space))
    <3>1. Len(space.atoms) \in Nat
      BY AtomsAre DEF Sound
    <3> QED BY <3>1, FS_Interval DEF Handles
  <2>3. IsFiniteSet(focus)
    BY <2>1, <2>2, FS_Subset
  <2> QED BY <2>3 DEF IsFiniteSet, DiffuseFold!IsFiniteSet
<1>3. \A T \in SUBSET focus : T # {} => SomeOf(T) \in T
  BY DEF SomeOf
<1>4. \A T \in SUBSET focus : T # {} => \A acc :
         DiffuseLeaves(acc, T \ {SomeOf(T)}, space, 0, 0) => DiffuseLeaves(DiffuseStep(SomeOf(T), acc, space, 0, 0), T, space, 0, 0)
  <2> SUFFICES ASSUME NEW T \in SUBSET focus, T # {}, NEW acc, Stirs(acc, space, {})
               PROVE  Stirs(SpreadActivation(acc, SomeOf(T), SpreadingRate), space, {})
    BY DEF DiffuseLeaves, DiffuseStep
  <2> DEFINE h == SomeOf(T)
  <2>1. h \in Attentional(space, 1)
    BY <1>3
  <2> HIDE DEF h
  <2>2. Sound(acc) /\ h \in Handles(acc) /\ SpreadingRate \in Nat
    BY <2>1, MindAssumption DEF Stirs, Attentional
  <2>3. Stirs(SpreadActivation(acc, h, SpreadingRate), acc, {h})
    BY <2>2, SpreadStirs
  <2>4. {h} \subseteq {} \cup Attentional(space, 1)
    BY <2>1
  <2> QED BY Zenon, <2>3, <2>4, StirsTrans DEF h
<1>5. DiffuseLeaves(space, {}, space, 0, 0)
  BY StirsRefl DEF DiffuseLeaves
<1>6. DiffuseFold!Inductive(space, focus, space, 0, 0)
  BY Zenon, <1>2, <1>3, <1>4, <1>5 DEF DiffuseFold!Inductive
<1>7. DiffuseLeaves(DiffuseFold!Folded(space, focus, space, 0, 0), focus, space, 0, 0)
  BY Zenon, <1>6, DiffuseFold!FoldKeeps
<1> QED BY <1>1, <1>7 DEF DiffuseLeaves

\* Forgetting raises nothing.
LEMMA ForgottenStirs ==
    ASSUME NEW sp, Sound(sp)
    PROVE  Stirs(Forgotten(sp), sp, {})
<1> DEFINE less(h) == (sp.atoms[h].sti * 99) \div 100
           atom(h) == IF sp.atoms[h].sti < 100 THEN [sp.atoms[h] EXCEPT !.sti = less(h)] ELSE sp.atoms[h]
           atoms == [h \in Handles(sp) |-> atom(h)]
           new == Forgotten(sp)
<1>1. sp = [atoms |-> sp.atoms, names |-> sp.names] /\ IsSpace(sp)
  BY DEF Sound, IsSpace
<1>2. new = [sp EXCEPT !.atoms = atoms]
  BY DEF Forgotten
<1>3. Len(sp.atoms) \in Nat /\ Handles(sp) = 1..Len(sp.atoms)
  BY <1>1, AtomsAre DEF Handles
<1>4. ASSUME NEW h \in Handles(sp)
      PROVE  /\ atom(h) \in AtomSet /\ SameCore(atom(h), sp.atoms[h]) /\ SameLists(atom(h), sp.atoms[h])
             /\ atom(h).truth = sp.atoms[h].truth
             /\ atom(h).sti >= 1 => sp.atoms[h].sti >= 1
  <2>1. sp.atoms[h] \in AtomSet /\ sp.atoms[h].sti \in Nat
    BY <1>1, AtomsAre DEF AtomSet
  <2>2. less(h) \in Nat /\ (less(h) >= 1 => sp.atoms[h].sti >= 1)
    BY <2>1
  <2> HIDE DEF less
  <2> QED BY <2>1, <2>2 DEF AtomSet, SameCore, SameLists
<1> HIDE DEF atom
<1>5. \A h \in Handles(sp) : atoms[h] = atom(h)
  OBVIOUS
<1>6. atoms \in Seq(AtomSet) /\ Len(atoms) = Len(sp.atoms)
  <2>1. atoms \in [1..Len(sp.atoms) -> AtomSet]
    BY <1>3, <1>4
  <2> HIDE DEF atoms
  <2>2. atoms \in Seq(AtomSet)
    BY <1>3, <2>1, SeqDef
  <2> QED BY <1>3, <2>1, <2>2, LenProperties
<1> HIDE DEF atoms, new
<1>7. new = [atoms |-> atoms, names |-> sp.names]
  BY <1>1, <1>2
<1>8. new.atoms = atoms /\ new.names = sp.names
  BY <1>7
<1>9. IsSpace(new)
  BY <1>1, <1>6, <1>7, <1>8 DEF IsSpace
<1>10. Handles(new) = Handles(sp) /\ Len(new.atoms) = Len(sp.atoms)
  BY <1>6, <1>8 DEF Handles
<1>11. \A h \in Handles(sp) : SameCore(new.atoms[h], sp.atoms[h]) /\ SameLists(new.atoms[h], sp.atoms[h])
  BY <1>4, <1>5, <1>8
<1>12. Sound(new) /\ Links(new) = Links(sp)
  BY <1>8, <1>9, <1>10, <1>11, Reshaped
<1>13. Attentional(new, 1) \subseteq Attentional(sp, 1)
  BY <1>4, <1>5, <1>8, <1>10 DEF Attentional
<1>14. \A h \in Handles(sp) : new.atoms[h].truth = sp.atoms[h].truth
  BY <1>4, <1>5, <1>8
<1>15. Stirs(new, sp, {})
  BY <1>8, <1>10, <1>11, <1>12, <1>13, <1>14 DEF Stirs
<1> QED BY <1>15 DEF new

-----------------------------------------------------------------------------
(* Sets of atoms while the space grows *)

\* These links lead neither into the set nor out of it.
Held(sp, links, S) == \A l \in links : sp.atoms[l].source \in S <=> sp.atoms[l].target \in S

FollowsIn(sp, links) == \A S \in SUBSET Handles(sp) : Held(sp, links, S) => Whole(sp, S)

LedIn(sp, from) == \A S \in SUBSET Handles(sp) : from \subseteq S /\ Led(sp, S) => Attentional(sp, 1) \subseteq S

\* What a set of the atoms now is among the atoms before.
Carried(new, old, S, R) ==
    \A l \in Links(old) : /\ l \in Links(new)
                          /\ new.atoms[l].source \in S <=> old.atoms[l].source \in R
                          /\ new.atoms[l].target \in S <=> old.atoms[l].target \in R
                          /\ old.atoms[l].source \in S <=> old.atoms[l].source \in R
                          /\ old.atoms[l].target \in S <=> old.atoms[l].target \in R

LEMMA Before ==
    ASSUME NEW new, NEW old, Sound(new), Sound(old), Keeps(new, old), NEW S
    PROVE  Carried(new, old, S, S \cap Handles(old))
<1> DEFINE R == S \cap Handles(old)
<1> SUFFICES ASSUME NEW l \in Links(old)
             PROVE  /\ l \in Links(new)
                    /\ new.atoms[l].source \in S <=> old.atoms[l].source \in R
                    /\ new.atoms[l].target \in S <=> old.atoms[l].target \in R
                    /\ old.atoms[l].source \in S <=> old.atoms[l].source \in R
                    /\ old.atoms[l].target \in S <=> old.atoms[l].target \in R
  BY DEF Carried
<1>1. l \in Handles(old) /\ old.atoms[l].source \in Handles(old) /\ old.atoms[l].target \in Handles(old)
  BY EndsIn
<1>2. new.atoms[l].source = old.atoms[l].source /\ new.atoms[l].target = old.atoms[l].target
  BY <1>1 DEF Keeps, SameCore
<1>3. l \in Links(new)
  BY KeptLinks DEF Sound
<1> QED BY <1>1, <1>2, <1>3

LEMMA FollowsKept ==
    ASSUME NEW new, NEW old, Sound(new), Sound(old), Keeps(new, old), NEW links, links \subseteq Links(old),
           FollowsIn(old, links), NEW more,
           \A S : Whole(old, S) /\ Held(new, more, S) => Whole(new, S)
    PROVE  FollowsIn(new, links \cup more)
<1> SUFFICES ASSUME NEW S \in SUBSET Handles(new), Held(new, links \cup more, S) PROVE Whole(new, S)
  BY DEF FollowsIn
<1> DEFINE R == S \cap Handles(old)
<1>1. Carried(new, old, S, R)
  BY Before
<1>2. R \in SUBSET Handles(old)
  OBVIOUS
<1> HIDE DEF R
<1>3. Held(old, links, R)
  BY <1>1 DEF Held, Carried
<1>4. Whole(old, R)
  BY <1>2, <1>3 DEF FollowsIn
<1>5. Whole(old, S)
  BY <1>1, <1>4 DEF Whole, Carried
<1>6. Held(new, more, S)
  BY DEF Held
<1> QED BY <1>5, <1>6

LEMMA LedKept ==
    ASSUME NEW new, NEW old, Sound(new), Sound(old), Keeps(new, old), NEW from, from \subseteq Handles(old),
           LedIn(old, from), Attentional(new, 1) \subseteq Attentional(old, 1)
    PROVE  LedIn(new, from)
<1> SUFFICES ASSUME NEW S \in SUBSET Handles(new), from \subseteq S, Led(new, S) PROVE Attentional(old, 1) \subseteq S
  BY DEF LedIn
<1> DEFINE R == S \cap Handles(old)
<1>1. Carried(new, old, S, R)
  BY Before
<1>2. R \in SUBSET Handles(old) /\ from \subseteq R /\ R \subseteq S
  OBVIOUS
<1> HIDE DEF R
<1>3. Led(old, R)
  BY <1>1 DEF Led, Carried
<1>4. Attentional(old, 1) \subseteq R
  BY <1>2, <1>3 DEF LedIn
<1> QED BY <1>2, <1>4

LEMMA StirsKeeps == ASSUME NEW new, NEW old, NEW from, Stirs(new, old, from), Sound(old) PROVE Keeps(new, old)
<1>1. Len(old.atoms) \in Nat
  BY AtomsAre DEF Sound
<1> QED BY <1>1 DEF Stirs, Keeps

LEMMA LedStirs ==
    ASSUME NEW new, NEW old, Sound(old), NEW more, Stirs(new, old, more), NEW from, LedIn(old, from)
    PROVE  LedIn(new, from \cup more)
<1> SUFFICES ASSUME NEW S \in SUBSET Handles(new), from \cup more \subseteq S, Led(new, S) PROVE Attentional(new, 1) \subseteq S
  BY DEF LedIn
<1>1. Handles(new) = Handles(old) /\ Links(new) = Links(old)
  BY DEF Stirs
<1>2. \A l \in Links(old) : new.atoms[l].source = old.atoms[l].source /\ new.atoms[l].target = old.atoms[l].target
  BY LinksAre DEF Stirs, SameCore
<1>3. Led(old, S)
  BY <1>1, <1>2 DEF Led
<1>4. Attentional(old, 1) \subseteq S
  BY <1>1, <1>3 DEF LedIn
<1> QED BY <1>3, <1>4 DEF Stirs

LEMMA WholeStirs ==
    ASSUME NEW new, NEW old, NEW more, Stirs(new, old, more), NEW S, Whole(old, S)
    PROVE  Whole(new, S)
<1>1. Links(new) = Links(old)
  BY DEF Stirs
<1>2. \A l \in Links(old) : new.atoms[l].source = old.atoms[l].source /\ new.atoms[l].target = old.atoms[l].target
  BY LinksAre DEF Stirs, SameCore
<1> QED BY <1>1, <1>2 DEF Whole

LEMMA DerivesCalm ==
    ASSUME NEW new, NEW old, Derives(new, old)
    PROVE  Attentional(new, 1) \subseteq Attentional(old, 1)
<1> SUFFICES ASSUME NEW h \in Handles(new), new.atoms[h].sti >= 1 PROVE h \in Attentional(old, 1)
  BY DEF Attentional
<1>1. h \in Handles(old)
  BY DEF Derives
<1>2. new.atoms[h].sti = old.atoms[h].sti
  BY <1>1 DEF Derives
<1> QED BY <1>1, <1>2 DEF Attentional

-----------------------------------------------------------------------------
(* The inductive invariant *)

\* What a chain has concluded is stored, and if it is certain, it is not among
\* those that can be revised as the first of a pair.
Stored ==
    /\ chain.result.conclusion \in Handles(space)
    /\ space.atoms[chain.result.conclusion].truth = chain.result.truth
    /\ chain.result.truth.confidence >= Threshold

NotRevised ==
    chain.result.truth.confidence = 100 =>
        \A i \in 1..Len(chain.working) : i < Len(chain.working) => chain.working[i] # chain.result.conclusion

WorkingSound ==
    /\ chain.working \in Seq(Nat)
    /\ \A i \in 1..Len(chain.working) : chain.working[i] \in Handles(space)

TrailSound == \A i \in 1..Len(chain.result.trail) : Confident(space, chain.result.trail[i])

ChainSound ==
    /\ chain = [pc |-> chain.pc, working |-> chain.working, steps |-> chain.steps, result |-> chain.result]
    /\ chain.pc \in {"idle", "running", "done"}
    /\ chain.steps \in 0..MaxSteps
    /\ chain.result.success \in BOOLEAN
    /\ chain.result.trail \in Seq(Nat)
    /\ \A i \in 1..Len(chain.result.trail) : chain.result.trail[i] \in Handles(space)
    /\ chain.pc # "idle" => TrailSound
    /\ chain.pc = "running" => WorkingSound
    /\ chain.pc # "idle" /\ chain.result.success => Stored
    /\ chain.pc = "running" /\ chain.result.success => NotRevised

Counted ==
    /\ plan \in [links : Nat, stimuli : Nat, chains : Nat, premises : Nat]
    /\ stimuli \in 0..plan.stimuli
    /\ chains \in 0..plan.chains

SetsSound ==
    /\ given \subseteq Links(space)
    /\ stimulated \subseteq Handles(space)
    /\ FollowsIn(space, given)
    /\ LedIn(space, stimulated)

\* The lists tell the atoms, the ghosts confine conclusions and importance, and
\* the chain holds what the space does.
Inv == Sound(space) /\ SetsSound /\ ChainSound /\ Counted

LEMMA InitInv == ASSUME Init PROVE Inv
<1>1. space = EmptySpace /\ chain = Idle /\ given = {} /\ stimulated = {} /\ stimuli = 0 /\ chains = 0 /\ plan \in Plans
  BY DEF Init
<1>2. space.atoms = <<>> /\ space.names = <<>> /\ space = [atoms |-> space.atoms, names |-> space.names]
  BY <1>1 DEF EmptySpace
<1>3. Handles(space) = {} /\ Links(space) = {}
  BY <1>2, LinksAre DEF Handles
<1>4. DOMAIN space.names = {}
  BY <1>2
<1>5. Sound(space)
  <2>1. IsIndex(space.names)
    <3>1. space.names = [m \in DOMAIN space.names |-> space.names[m]]
      BY <1>2
    <3> QED BY <1>4, <3>1 DEF IsIndex
  <2>2. space.atoms \in Seq(AtomSet)
    BY <1>2
  <2> QED BY <1>2, <1>3, <1>4, <2>1, <2>2 DEF Sound, IsSpace, SpaceConsistent
<1>6. SetsSound
  BY <1>1, <1>3 DEF SetsSound, FollowsIn, Whole, LedIn, Attentional
<1>7. ChainSound
  <2>1. /\ chain.pc = "idle" /\ chain.steps = 0 /\ chain.result = NoResult
        /\ chain = [pc |-> chain.pc, working |-> chain.working, steps |-> chain.steps, result |-> chain.result]
    BY <1>1 DEF Idle
  <2>2. chain.result.success = FALSE /\ chain.result.trail = <<>>
    BY <2>1 DEF NoResult
  <2>3. <<>> \in Seq(Nat) /\ 1..Len(<<>>) = {} /\ 0 \in 0..MaxSteps
    BY MindAssumption
  <2> HIDE DEF NoResult
  <2> QED BY <2>1, <2>2, <2>3 DEF ChainSound
<1>8. Counted
  <2>1. plan \in [links : Nat, stimuli : Nat, chains : Nat, premises : Nat]
    BY <1>1, MindAssumption
  <2> QED BY <1>1, <2>1 DEF Counted
<1> QED BY <1>5, <1>6, <1>7, <1>8 DEF Inv

\* Between two chains the space may change as it likes, if it only grows.
LEMMA ChainKept ==
    ASSUME ChainSound, chain.pc = "idle", chain' = chain, Handles(space) \subseteq Handles(space')
    PROVE  ChainSound'
BY DEF ChainSound, Stored, NotRevised, WorkingSound

LEMMA GrownKeeps ==
    ASSUME NEW new, NEW old, Sound(old), NEW atom, Grown(new, old, atom), atom.sti = 0
    PROVE  Keeps(new, old) /\ Attentional(new, 1) \subseteq Attentional(old, 1)
<1> DEFINE n == Len(old.atoms) + 1
<1>1. Handles(new) = Handles(old) \cup {n} /\ new.atoms[n] = atom
  BY GrownHandles DEF Grown, Sound
<1>2. Len(old.atoms) \in Nat /\ Len(new.atoms) = n
  BY AtomsAre DEF Sound, Grown
<1>3. Keeps(new, old)
  BY <1>2 DEF Keeps, Grown
<1>4. \A h \in Handles(old) : new.atoms[h].sti = old.atoms[h].sti
  BY DEF Grown
<1>5. ASSUME NEW h \in Attentional(new, 1) PROVE h \in Attentional(old, 1)
  <2>1. h \in Handles(new) /\ new.atoms[h].sti >= 1
    BY DEF Attentional
  <2>2. h # n
    BY <1>1, <2>1
  <2> QED BY <1>1, <1>4, <2>1, <2>2 DEF Attentional
<1> QED BY <1>3, <1>5

LEMMA NewConceptStep == ASSUME Inv, NEW name \in Names, NewConcept(name) PROVE Inv'
<1> USE DEF NewConcept
<1>1. Sound(space) /\ SetsSound /\ ChainSound /\ Counted
  BY DEF Inv
<1>2. CASE name \in DOMAIN space.names
  <2>1. space' = space
    BY <1>2 DEF AddConcept
  <2> QED BY <1>1, <2>1, ChainKept DEF Inv, SetsSound, Counted
<1>3. CASE name \notin DOMAIN space.names
  <2> DEFINE c == Concept(name)
  <2>1. Sound(space') /\ Grown(space', space, c)
    BY <1>1, <1>3, AddConceptIs
  <2>2. c.sti = 0 /\ c.type = "concept"
    BY ConceptIs
  <2> HIDE DEF c
  <2>3. Keeps(space', space) /\ Attentional(space', 1) \subseteq Attentional(space, 1)
    BY <1>1, <2>1, <2>2, GrownKeeps
  <2>4. Handles(space) \subseteq Handles(space') /\ Links(space) \subseteq Links(space')
    BY <1>1, <2>1, <2>3, KeptLinks DEF Sound
  <2>5. ASSUME NEW S, Whole(space, S) PROVE Whole(space', S)
    <3>1. IsSpace(space)
      BY <1>1 DEF Sound
    <3>2. Links(space') \subseteq Links(space)
      BY <2>1, <2>2, <3>1, GrownHandles, LinksAre
    <3>3. \A l \in Links(space) : space'.atoms[l].source = space.atoms[l].source /\ space'.atoms[l].target = space.atoms[l].target
      BY <2>1, LinksAre DEF Grown, SameCore
    <3> QED BY <2>5, <3>2, <3>3 DEF Whole
  <2>6. FollowsIn(space', given \cup {})
    <3>1. \A S : Whole(space, S) /\ Held(space', {}, S) => Whole(space', S)
      BY <2>5
    <3> QED BY <1>1, <2>1, <2>3, <3>1, FollowsKept DEF SetsSound
  <2>7. LedIn(space', stimulated)
    BY <1>1, <2>1, <2>3, LedKept DEF SetsSound
  <2>8. SetsSound'
    <3>1. given \cup {} = given
      OBVIOUS
    <3> QED BY <1>1, <2>4, <2>6, <2>7, <3>1 DEF SetsSound
  <2>9. ChainSound'
    BY <1>1, <2>4, ChainKept
  <2>10. Counted'
    BY <1>1 DEF Counted
  <2> QED BY <2>1, <2>8, <2>9, <2>10 DEF Inv
<1> QED BY <1>2, <1>3

LEMMA NewLinkStep == ASSUME Inv, NEW l \in GivenLinks, NewLink(l.source, l.target, l.truth) PROVE Inv'
<1> DEFINE s == l.source
           e == l.target
           t == l.truth
<1>1. Sound(space) /\ SetsSound /\ ChainSound /\ Counted
  BY DEF Inv
<1>2. /\ chain.pc = "idle" /\ space' = AddInheritance(space, s, e, t)
      /\ given' = given \cup (Links(space') \ Links(space))
      /\ UNCHANGED <<chain, stimulated, stimuli, chains, plan>>
  BY DEF NewLink
<1>3. CASE ~({s, e} \subseteq Handles(space))
  <2>1. space' = space
    BY <1>2, <1>3 DEF AddInheritance
  <2>2. given' = given
    BY <1>2, <2>1
  <2> QED BY <1>1, <1>2, <2>1, <2>2, ChainKept DEF Inv, SetsSound, Counted
<1>4. CASE {s, e} \subseteq Handles(space)
  <2> DEFINE n == Len(space.atoms) + 1
             atom == Inheritance(s, e, t)
  <2>1. t \in Truths
    BY MindAssumption DEF Truths
  <2>2. s \in Handles(space) /\ e \in Handles(space) /\ s \in Nat /\ e \in Nat
    BY <1>4, MindAssumption
  <2> HIDE DEF s, e, t
  <2>3. Sound(space') /\ Grown(space', space, atom)
    BY <1>1, <1>2, <2>1, <2>2, AddInheritanceIs
  <2>4. atom.sti = 0 /\ atom.type = "link" /\ atom.source = s /\ atom.target = e
    BY <2>1, <2>2, InheritanceIs
  <2> HIDE DEF atom
  <2>5. Keeps(space', space) /\ Attentional(space', 1) \subseteq Attentional(space, 1)
    BY <1>1, <2>3, <2>4, GrownKeeps
  <2>6. Handles(space) \subseteq Handles(space') /\ Links(space) \subseteq Links(space')
    BY <1>1, <2>3, <2>5, KeptLinks DEF Sound
  <2> DEFINE more == Links(space') \ Links(space)
  <2>7. ASSUME NEW S, Whole(space, S), Held(space', more, S) PROVE Whole(space', S)
    <3>1. \A k \in Links(space) : space'.atoms[k].source = space.atoms[k].source /\ space'.atoms[k].target = space.atoms[k].target
      BY <2>3, LinksAre DEF Grown, SameCore
    <3> QED BY <2>7, <3>1 DEF Whole, Held
  <2> HIDE DEF more
  <2>8. FollowsIn(space', given \cup more)
    <3>1. \A S : Whole(space, S) /\ Held(space', more, S) => Whole(space', S)
      BY <2>7
    <3> QED BY <1>1, <2>3, <2>5, <3>1, FollowsKept DEF SetsSound
  <2>9. LedIn(space', stimulated)
    BY <1>1, <2>3, <2>5, LedKept DEF SetsSound
  <2>10. SetsSound'
    BY <1>1, <1>2, <2>6, <2>8, <2>9 DEF SetsSound, more
  <2>11. ChainSound'
    BY <1>1, <1>2, <2>6, ChainKept
  <2>12. Counted'
    BY <1>1, <1>2 DEF Counted
  <2> QED BY <2>3, <2>10, <2>11, <2>12 DEF Inv
<1> QED BY <1>3, <1>4

LEMMA StirsStep ==
    ASSUME Inv, NEW more, more \subseteq Handles(space), Stirs(space', space, more), chain.pc = "idle", chain' = chain,
           given' = given, stimulated' = stimulated \cup more
    PROVE  Sound(space)' /\ SetsSound' /\ ChainSound'
<1>1. Sound(space) /\ SetsSound /\ ChainSound
  BY DEF Inv
<1>2. Sound(space') /\ Handles(space') = Handles(space) /\ Links(space') = Links(space)
  BY DEF Stirs
<1>3. Keeps(space', space)
  BY <1>1, StirsKeeps
<1>4. FollowsIn(space', given \cup {})
  <2>1. \A S : Whole(space, S) /\ Held(space', {}, S) => Whole(space', S)
    BY WholeStirs
  <2> QED BY <1>1, <1>2, <1>3, <2>1, FollowsKept DEF SetsSound
<1>5. LedIn(space', stimulated \cup more)
  BY <1>1, LedStirs DEF SetsSound
<1>6. given \cup {} = given
  OBVIOUS
<1>7. SetsSound'
  BY <1>1, <1>2, <1>4, <1>5, <1>6 DEF SetsSound
<1>8. ChainSound'
  BY <1>1, <1>2, ChainKept
<1> QED BY <1>2, <1>7, <1>8

LEMMA Stimulated == ASSUME Counted, stimuli < plan.stimuli, stimuli' = stimuli + 1, chains' = chains, plan' = plan PROVE Counted'
BY DEF Counted

LEMMA Chained == ASSUME Counted, chains < plan.chains, chains' = chains + 1, stimuli' = stimuli, plan' = plan PROVE Counted'
BY DEF Counted

LEMMA FocusOnStep == ASSUME Inv, NEW h \in Handles(space), NEW v \in Intensities, FocusOn(h, v) PROVE Inv'
<1>1. Sound(space) /\ Counted
  BY DEF Inv
<1>2. space' = [space EXCEPT !.atoms[h].sti = v]
  BY DEF FocusOn, UpdateAttention
<1>3. Stirs(space', space, {h})
  <2>1. v \in Nat
    BY MindAssumption
  <2>2. \A S : {h} \subseteq S /\ Led(space, S) => h \in S
    OBVIOUS
  <2> QED BY <1>1, <1>2, <2>1, <2>2, StiChanged
<1>4. Counted'
  BY <1>1, Stimulated DEF FocusOn
<1>5. Sound(space)' /\ SetsSound' /\ ChainSound'
  BY <1>3, StirsStep DEF FocusOn
<1> QED BY <1>4, <1>5 DEF Inv

LEMMA SpreadStepInv == ASSUME Inv, NEW h \in Handles(space), NEW v \in Intensities, Spread(h, v) PROVE Inv'
<1>1. Sound(space) /\ Counted
  BY DEF Inv
<1>2. space' = SpreadActivation(space, h, v)
  BY DEF Spread
<1>3. Stirs(space', space, {h})
  <2>1. v \in Nat
    BY MindAssumption
  <2> QED BY <1>1, <1>2, <2>1, SpreadStirs
<1>4. Counted'
  BY <1>1, Stimulated DEF Spread
<1>5. Sound(space)' /\ SetsSound' /\ ChainSound'
  BY <1>3, StirsStep DEF Spread
<1> QED BY <1>4, <1>5 DEF Inv

LEMMA RunCycleStep == ASSUME Inv, RunCycle PROVE Inv'
<1>1. Sound(space) /\ Counted
  BY DEF Inv
<1>2. PICK focus \in Focuses : space' = Forgotten(Diffused(focus))
  BY DEF RunCycle
<1>3. focus \subseteq Attentional(space, 1)
  <2>1. \A h \in Handles(space) : space.atoms[h].sti \in Nat
    BY <1>1, StiIn
  <2>2. Attentional(space, 500) \subseteq Attentional(space, 1)
    BY <2>1 DEF Attentional
  <2> QED BY <2>2 DEF Focuses
<1>4. Stirs(space', space, {})
  <2>1. Stirs(Diffused(focus), space, {})
    BY <1>1, <1>3, DiffusedStirs
  <2>2. Stirs(Forgotten(Diffused(focus)), Diffused(focus), {})
    BY <2>1, ForgottenStirs DEF Stirs
  <2>3. {} \subseteq {} \cup Attentional(space, 1)
    OBVIOUS
  <2> QED BY Zenon, <1>2, <2>1, <2>2, <2>3, StirsTrans
<1>5. Counted'
  BY <1>1, Stimulated DEF RunCycle
<1>6. Sound(space)' /\ SetsSound' /\ ChainSound'
  <2>1. {} \subseteq Handles(space) /\ stimulated' = stimulated \cup {} /\ chain.pc = "idle" /\ chain' = chain /\ given' = given
    BY DEF RunCycle
  <2> QED BY <1>4, <2>1, StirsStep
<1> QED BY <1>5, <1>6 DEF Inv

LEMMA DerivesStep ==
    ASSUME Inv, Derives(space', space), given' = given, stimulated' = stimulated
    PROVE  Sound(space)' /\ SetsSound' /\ Handles(space) \subseteq Handles(space')
<1>1. Sound(space) /\ SetsSound
  BY DEF Inv
<1>2. Sound(space') /\ Keeps(space', space)
  BY DEF Derives
<1>3. Handles(space) \subseteq Handles(space') /\ Links(space) \subseteq Links(space')
  BY <1>1, <1>2, KeptLinks DEF Sound
<1>4. FollowsIn(space', given \cup {})
  <2>1. \A S : Whole(space, S) /\ Held(space', {}, S) => Whole(space', S)
    BY DEF Derives
  <2> QED BY <1>1, <1>2, <2>1, FollowsKept DEF SetsSound
<1>5. LedIn(space', stimulated)
  BY <1>1, <1>2, DerivesCalm, LedKept DEF SetsSound
<1>6. given \cup {} = given
  OBVIOUS
<1>7. SetsSound'
  BY <1>1, <1>3, <1>4, <1>5, <1>6 DEF SetsSound
<1> QED BY <1>2, <1>3, <1>7

LEMMA BackwardChainStep == ASSUME Inv, NEW target, BackwardChain(target) PROVE Inv'
<1>1. Sound(space) /\ ChainSound /\ Counted
  BY DEF Inv
<1>2. PICK order \in FocusOrders : space' = Deduced(order)
  BY DEF BackwardChain
<1> DEFINE A == Attentional(space, 100) \cap Links(space)
           n == Cardinality(A)
<1>3. n \in Nat /\ DOMAIN order = 1..n
  <2>1. IsFiniteSet(A)
    <3>1. Len(space.atoms) \in Nat
      BY <1>1, AtomsAre DEF Sound
    <3>2. IsFiniteSet(Handles(space))
      BY <3>1, FS_Interval DEF Handles
    <3>3. A \subseteq Handles(space)
      BY DEF Attentional
    <3> QED BY <3>2, <3>3, FS_Subset
  <2>2. n \in Nat
    BY <2>1, FS_CardinalityType
  <2>3. order \in SetToSeqs(A)
    BY DEF FocusOrders
  <2>4. order \in [1..n -> A]
    BY <2>3 DEF SetToSeqs
  <2> QED BY <2>2, <2>4
<1> HIDE DEF n
<1>4. Derives(space', space)
  BY <1>1, <1>2, <1>3, DeducedIs
<1>5. Sound(space)' /\ SetsSound' /\ Handles(space) \subseteq Handles(space')
  BY <1>4, DerivesStep DEF BackwardChain
<1>6. ChainSound'
  BY <1>1, <1>5, ChainKept DEF BackwardChain
<1>7. Counted'
  BY <1>1, Chained DEF BackwardChain
<1> QED BY <1>5, <1>6, <1>7 DEF Inv

\* A step of the chain that leaves the space alone.
LEMMA Quiet ==
    ASSUME Inv, space' = space, given' = given, stimulated' = stimulated
    PROVE  Sound(space)' /\ SetsSound'
BY DEF Inv, SetsSound

LEMMA StartStep == ASSUME Inv, NEW premises \in PremiseLists, NEW n \in 1..MaxSteps, StartForwardChain(premises, n) PROVE Inv'
<1>1. Sound(space) /\ Counted
  BY DEF Inv
<1>2. chain' = [Idle EXCEPT !.pc = "running", !.working = premises, !.steps = n] /\ space' = space
  BY DEF StartForwardChain
<1>4. premises \in Seq(Nat) /\ \A i \in 1..Len(premises) : premises[i] \in Handles(space)
  BY MindAssumption DEF StartForwardChain
<1>5. /\ chain'.pc = "running" /\ chain'.working = premises /\ chain'.steps = n /\ chain'.result = NoResult
      /\ chain' = [pc |-> chain'.pc, working |-> chain'.working, steps |-> chain'.steps, result |-> chain'.result]
  BY <1>2 DEF Idle
<1>6. NoResult.success = FALSE /\ NoResult.trail = <<>>
  BY DEF NoResult
<1>7. n \in 0..MaxSteps /\ <<>> \in Seq(Nat) /\ 1..Len(<<>>) = {}
  BY MindAssumption
<1>8. WorkingSound'
  BY <1>2, <1>4, <1>5 DEF WorkingSound
<1>9. ChainSound'
  BY <1>5, <1>6, <1>7, <1>8 DEF ChainSound, TrailSound
<1>10. Counted'
  BY <1>1, Chained DEF StartForwardChain
<1>11. Sound(space)' /\ SetsSound'
  BY Quiet DEF StartForwardChain
<1> QED BY <1>9, <1>10, <1>11 DEF Inv

LEMMA StepsUsedStep == ASSUME Inv, StepsUsed PROVE Inv'
<1>1. ChainSound /\ Counted
  BY DEF Inv
<1>2. chain' = [chain EXCEPT !.pc = "done"] /\ space' = space /\ chain.pc = "running"
  BY DEF StepsUsed
<1>3. /\ chain'.pc = "done" /\ chain'.working = chain.working /\ chain'.steps = chain.steps /\ chain'.result = chain.result
      /\ chain' = [pc |-> chain'.pc, working |-> chain'.working, steps |-> chain'.steps, result |-> chain'.result]
  BY <1>1, <1>2 DEF ChainSound
<1>4. ChainSound'
  <2>1. chain.result.success => Stored
    BY <1>1, <1>2 DEF ChainSound
  <2>2. Stored => Stored'
    BY <1>2, <1>3 DEF Stored
  <2>3. TrailSound'
    BY <1>1, <1>2, <1>3 DEF ChainSound, TrailSound
  <2> QED BY <1>1, <1>2, <1>3, <2>1, <2>2, <2>3 DEF ChainSound
<1>5. Counted'
  BY <1>1 DEF Counted, StepsUsed
<1>6. Sound(space)' /\ SetsSound'
  BY Quiet DEF StepsUsed
<1> QED BY <1>4, <1>5, <1>6 DEF Inv

LEMMA ReturnStep == ASSUME Inv, Return PROVE Inv'
<1>1. Counted
  BY DEF Inv
<1>2. chain' = Idle /\ space' = space
  BY DEF Return
<1>3. /\ chain'.pc = "idle" /\ chain'.steps = 0 /\ chain'.result = NoResult
      /\ chain' = [pc |-> chain'.pc, working |-> chain'.working, steps |-> chain'.steps, result |-> chain'.result]
  BY <1>2 DEF Idle
<1>4. NoResult.success = FALSE /\ NoResult.trail = <<>>
  BY DEF NoResult
<1>5. 0 \in 0..MaxSteps /\ <<>> \in Seq(Nat) /\ 1..Len(<<>>) = {}
  BY MindAssumption
<1>6. ChainSound'
  BY <1>3, <1>4, <1>5 DEF ChainSound
<1>7. Counted'
  BY <1>1 DEF Counted, Return
<1>8. Sound(space)' /\ SetsSound'
  BY Quiet DEF Return
<1> QED BY <1>6, <1>7, <1>8 DEF Inv

LEMMA ForwardStepStep == ASSUME Inv, ForwardStep PROVE Inv'
<1> DEFINE w == chain.working
           r == Tried(chain.working)
           d == [old |-> space, firsts |-> {w[i] : i \in {k \in 1..Len(w) : k < Len(w)}}]
           longer == [success |-> TRUE, conclusion |-> r.conclusion, truth |-> r.truth,
                      trail |-> Append(chain.result.trail, r.conclusion)]
<1>1. Sound(space) /\ ChainSound /\ Counted
  BY DEF Inv
<1>2. /\ chain.pc = "running" /\ chain.steps > 0
      /\ space' = r.space
      /\ chain' = IF ~Concludes(r) THEN [chain EXCEPT !.pc = "done"]
                  ELSE [chain EXCEPT !.working = Append(w, r.conclusion), !.steps = chain.steps - 1, !.result = longer]
  BY DEF ForwardStep
<1>3. /\ w \in Seq(Nat) /\ Len(w) \in Nat /\ DOMAIN w = 1..Len(w)
      /\ \A i \in 1..Len(w) : w[i] \in Handles(space)
  <2>1. WorkingSound
    BY <1>1, <1>2 DEF ChainSound
  <2> QED BY <2>1, LenProperties DEF WorkingSound
<1>4. d.old = space /\ d.firsts = {w[i] : i \in {k \in 1..Len(w) : k < Len(w)}}
  OBVIOUS
<1> HIDE DEF d
<1>5. Searching(r, d)
  <2>1. Works(w, d)
    BY <1>3, <1>4 DEF Works
  <2> QED BY <1>1, <1>4, <2>1, TriedIs
<1> HIDE DEF r, w
<1>6. Derives(space', space)
  BY <1>2, <1>4, <1>5 DEF Searching
<1>7. Sound(space)' /\ SetsSound' /\ Handles(space) \subseteq Handles(space')
  BY <1>6, DerivesStep DEF ForwardStep
<1>8. Counted'
  BY <1>1 DEF Counted, ForwardStep
<1>9. /\ chain.result.trail \in Seq(Nat) /\ chain.steps \in 0..MaxSteps /\ chain.result.success \in BOOLEAN
      /\ \A i \in 1..Len(chain.result.trail) : chain.result.trail[i] \in Handles(space')
      /\ chain = [pc |-> chain.pc, working |-> chain.working, steps |-> chain.steps, result |-> chain.result]
  BY <1>1, <1>7 DEF ChainSound
<1>12. \A i \in 1..Len(chain.result.trail) : Confident(space', chain.result.trail[i])
  <2>1. \A c \in Handles(space) : Confident(space, c) => Confident(space', c)
    BY <1>2, <1>4, <1>5 DEF Searching
  <2> QED BY <1>1, <1>2, <2>1 DEF ChainSound, TrailSound
<1>10. CASE ~Concludes(r)
  <2>1. /\ chain'.pc = "done" /\ chain'.working = chain.working /\ chain'.steps = chain.steps
        /\ chain'.result = chain.result
        /\ chain' = [pc |-> chain'.pc, working |-> chain'.working, steps |-> chain'.steps, result |-> chain'.result]
    BY <1>2, <1>9, <1>10
  <2>2. ASSUME chain.result.success PROVE Stored'
    <3> DEFINE c == chain.result.conclusion
    <3>1. /\ c \in Handles(space) /\ space.atoms[c].truth = chain.result.truth
          /\ chain.result.truth.confidence >= Threshold
      BY <1>1, <1>2, <2>2 DEF ChainSound, Stored
    <3>2. chain.result.truth.confidence = 100 => c \notin d.firsts
      <4>1. NotRevised
        BY <1>1, <1>2, <2>2 DEF ChainSound
      <4> QED BY <1>4, <4>1 DEF NotRevised, w
    <3>3. space'.atoms[c].truth = space.atoms[c].truth
      BY <1>2, <1>4, <1>5, <1>10, <3>1, <3>2 DEF Searching
    <3> QED BY <1>7, <2>1, <3>1, <3>3 DEF Stored
  <2>3. ChainSound'
    BY <1>9, <1>12, <2>1, <2>2 DEF ChainSound, TrailSound
  <2> QED BY <1>7, <1>8, <2>3 DEF Inv
<1>11. CASE Concludes(r)
  <2>1. /\ chain'.pc = "running" /\ chain'.working = Append(w, r.conclusion) /\ chain'.steps = chain.steps - 1
        /\ chain'.result = longer
        /\ chain' = [pc |-> chain'.pc, working |-> chain'.working, steps |-> chain'.steps, result |-> chain'.result]
    BY <1>2, <1>9, <1>11 DEF w
  <2>2. /\ longer.success = TRUE /\ longer.conclusion = r.conclusion /\ longer.truth = r.truth
        /\ longer.trail = Append(chain.result.trail, r.conclusion)
    OBVIOUS
  <2> HIDE DEF longer
  <2>3. /\ r.conclusion \in Handles(space')
        /\ space'.atoms[r.conclusion].truth = r.truth
        /\ r.conclusion \in Handles(space) => r.truth.confidence # 100
        /\ r.truth.confidence >= Threshold
    BY <1>2, <1>4, <1>5, <1>11 DEF Searching, Concludes
  <2>4. r.conclusion \in Nat
    BY <1>7, <2>3, AtomsAre DEF Sound
  <2>5. /\ Append(w, r.conclusion) \in Seq(Nat) /\ Len(Append(w, r.conclusion)) = Len(w) + 1
        /\ \A i \in 1..Len(w) : Append(w, r.conclusion)[i] = w[i]
        /\ Append(w, r.conclusion)[Len(w) + 1] = r.conclusion
    BY <1>3, <2>4, AppendIs
  <2>6. \A i \in 1..(Len(w) + 1) : i \in 1..Len(w) \/ i = Len(w) + 1
    BY <1>3
  <2>7. WorkingSound'
    <3>1. \A i \in 1..(Len(w) + 1) : Append(w, r.conclusion)[i] \in Handles(space')
      BY <1>3, <1>7, <2>3, <2>5, <2>6
    <3> QED BY <2>1, <2>5, <3>1 DEF WorkingSound
  <2>8. Stored'
    BY <2>1, <2>2, <2>3 DEF Stored
  <2>9. NotRevised'
    <3>1. \A i \in 1..(Len(w) + 1) : i < Len(w) + 1 => i \in 1..Len(w)
      BY <1>3
    <3>2. r.truth.confidence = 100 =>
             \A i \in 1..(Len(w) + 1) : i < Len(w) + 1 => Append(w, r.conclusion)[i] # r.conclusion
      BY <1>3, <2>3, <2>5, <3>1
    <3> QED BY <2>1, <2>2, <2>5, <3>2 DEF NotRevised
  <2>10. /\ longer.trail \in Seq(Nat)
         /\ \A i \in 1..Len(longer.trail) : longer.trail[i] \in Handles(space')
         /\ \A i \in 1..Len(longer.trail) : Confident(space', longer.trail[i])
    <3> DEFINE old == chain.result.trail
    <3>1. /\ Append(old, r.conclusion) \in Seq(Nat) /\ Len(Append(old, r.conclusion)) = Len(old) + 1
          /\ \A i \in 1..Len(old) : Append(old, r.conclusion)[i] = old[i]
          /\ Append(old, r.conclusion)[Len(old) + 1] = r.conclusion
          /\ Len(old) \in Nat
      BY <1>9, <2>4, AppendIs
    <3>2. \A i \in 1..(Len(old) + 1) : i \in 1..Len(old) \/ i = Len(old) + 1
      BY <3>1
    <3> HIDE DEF old
    <3>3. \A i \in 1..(Len(old) + 1) : Append(old, r.conclusion)[i] \in Handles(space')
      BY <1>9, <2>3, <3>1, <3>2 DEF old
    <3>4. Confident(space', r.conclusion)
      <4>1. r.truth \in Truths
        BY <1>5 DEF Searching
      <4>2. r.truth.confidence \in Nat
        BY <4>1, ConfidenceIn, PercentsIs
      <4>3. r.truth.confidence >= Lower(Threshold, 99)
        BY <2>3, <4>2, FloorIs, MindAssumption
      <4> QED BY <2>3, <4>3 DEF Confident
    <3>5. \A i \in 1..(Len(old) + 1) : Confident(space', Append(old, r.conclusion)[i])
      BY <1>12, <3>1, <3>2, <3>4 DEF old
    <3> QED BY <2>2, <3>1, <3>3, <3>5 DEF old
  <2>11. chain.steps - 1 \in 0..MaxSteps
    BY <1>2, <1>9, MindAssumption
  <2>12. ChainSound'
    BY <2>1, <2>2, <2>7, <2>8, <2>9, <2>10, <2>11 DEF ChainSound, TrailSound
  <2> QED BY <1>7, <1>8, <2>12 DEF Inv
<1> QED BY <1>10, <1>11

-----------------------------------------------------------------------------
(* The theorems *)

LEMMA StepInv == ASSUME Inv, [Next]_vars PROVE Inv'
<1>1. CASE UNCHANGED vars
  <2>1. space' = space /\ chain' = chain /\ given' = given /\ stimulated' = stimulated
    BY <1>1 DEF vars
  <2>2. stimuli' = stimuli /\ chains' = chains /\ plan' = plan
    BY <1>1 DEF vars
  <2>3. Counted'
    BY <2>2 DEF Inv, Counted
  <2>4. ChainSound'
    BY <2>1 DEF Inv, ChainSound, Stored, NotRevised, TrailSound, WorkingSound
  <2> QED BY <2>1, <2>3, <2>4, Quiet DEF Inv
<1>2. CASE Next
  <2>1. CASE \E name \in Names : NewConcept(name)
    BY <2>1, NewConceptStep
  <2>2. CASE \E l \in GivenLinks : NewLink(l.source, l.target, l.truth)
    BY <2>2, NewLinkStep
  <2>3. CASE \E h \in Handles(space), intensity \in Intensities : FocusOn(h, intensity) \/ Spread(h, intensity)
    BY <2>3, FocusOnStep, SpreadStepInv
  <2>4. CASE RunCycle
    BY <2>4, RunCycleStep
  <2>5. CASE \E premises \in PremiseLists, n \in 1..MaxSteps : StartForwardChain(premises, n)
    BY <2>5, StartStep
  <2>6. CASE ForwardStep
    BY <2>6, ForwardStepStep
  <2>7. CASE StepsUsed
    BY <2>7, StepsUsedStep
  <2>8. CASE Return
    BY <2>8, ReturnStep
  <2>9. CASE \E target \in Handles(space) : BackwardChain(target)
    BY <2>9, BackwardChainStep
  <2> QED BY Zenon, <1>2, <2>1, <2>2, <2>3, <2>4, <2>5, <2>6, <2>7, <2>8, <2>9 DEF Next
<1> QED BY <1>1, <1>2

\* The inductive invariant holds after every call of PLNTensorEngine and of
\* ECANAttentionSystem, and at each turn of forward_chain's loop.
THEOREM InvHolds == Spec => []Inv
<1>1. Init => Inv
  BY InitInv
<1>2. Inv /\ [Next]_vars => Inv'
  BY StepInv
<1> QED BY <1>1, <1>2, PTL DEF Spec

\* Every variable has its type in every state: whatever formulas truth values go
\* through, they stay percents.
THEOREM MindTypes == Spec => []TypeOK
<1>1. Inv => TypeOK
  <2> SUFFICES ASSUME Inv PROVE TypeOK
    OBVIOUS
  <2>1. Sound(space) /\ SetsSound /\ ChainSound /\ Counted
    BY DEF Inv
  <2>2. ASSUME NEW h \in Handles(space)
        PROVE  /\ space.atoms[h].type \in {"concept", "link"}
               /\ space.atoms[h].truth \in [strength : Percents, confidence : Percents]
               /\ space.atoms[h].sti \in Nat
    <3>1. space.atoms[h] \in AtomSet
      BY <2>1, AtomsAre DEF Sound
    <3> QED BY <3>1 DEF AtomSet, Truths
  <2>3. DOMAIN space.names \subseteq Names
    BY <2>1 DEF Sound, IsSpace, IsIndex
  <2>4. chain.pc \in {"idle", "running", "done"} /\ chain.steps \in 0..MaxSteps
    BY <2>1 DEF ChainSound
  <2>5. given \subseteq Links(space) /\ stimulated \subseteq Handles(space)
    BY <2>1 DEF SetsSound
  <2>6. stimuli \in 0..plan.stimuli /\ chains \in 0..plan.chains
    BY <2>1 DEF Counted
  <2> QED BY <2>2, <2>3, <2>4, <2>5, <2>6 DEF TypeOK
<1> QED BY <1>1, InvHolds, PTL

\* The name index and the link lists of add_concept and add_inheritance tell
\* what atoms there are, after any mix of calls on any number of atoms.
THEOREM AtomsAlwaysAgree == Spec => []AtomsAgree
<1>1. Inv => AtomsAgree
  BY DEF Inv, Sound, AtomsAgree
<1> QED BY <1>1, InvHolds, PTL

\* What apply_rule concludes, however many inferences deep, joins atoms that the
\* links given by clients connect.
THEOREM ConclusionsAlwaysFollow == Spec => []ConclusionsFollow
<1>1. Inv => ConclusionsFollow
  <2> SUFFICES ASSUME Inv, NEW S \in SUBSET Handles(space), Apart(S, given) PROVE Apart(S, Links(space) \ given)
    BY DEF ConclusionsFollow
  <2>1. Held(space, given, S)
    BY DEF Apart, Held
  <2>2. Whole(space, S)
    BY <2>1 DEF Inv, SetsSound, FollowsIn
  <2> QED BY <2>2 DEF Whole, Apart
<1> QED BY <1>1, InvHolds, PTL

\* The result of forward_chain is what the atoms hold when it returns, and what
\* it concluded before is still confident: a revision of something known that
\* well concludes, and none takes confidence away.
THEOREM ResultAlwaysStored == Spec => []ResultIsStored
<1>1. Inv => ResultIsStored
  BY DEF Inv, ChainSound, TrailSound, Stored, ResultIsStored
<1> QED BY <1>1, InvHolds, PTL

\* Importance is where clients raised it, or where links lead from there: neither
\* diffusion nor forgetting nor inference brings it anywhere else.
THEOREM AttentionAlwaysFollows == Spec => []AttentionFollowsLinks
<1>1. Inv => AttentionFollowsLinks
  <2> SUFFICES ASSUME Inv, NEW S \in SUBSET Handles(space), stimulated \subseteq S,
                      \A l \in Links(space) : space.atoms[l].source \in S => space.atoms[l].target \in S
               PROVE  Attentional(space, 1) \subseteq S
    BY DEF AttentionFollowsLinks
  <2>1. Led(space, S)
    BY DEF Led
  <2> QED BY <2>1 DEF Inv, SetsSound, LedIn
<1> QED BY <1>1, InvHolds, PTL
=============================================================================
