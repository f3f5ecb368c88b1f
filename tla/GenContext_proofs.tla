--------------------------- MODULE GenContext_proofs ---------------------------
(***************************************************************************)
(* Theorems of GenContext, for every window, batch, draft length and set   *)
(* of prompts.                                                             *)
(***************************************************************************)
EXTENDS GenContext, FiniteSetTheorems, SequenceTheorems, WellFoundedInduction, TLAPS

-----------------------------------------------------------------------------
(* Least and greatest numbers *)

\* A finite set of numbers has a greatest one: by the well-founded order of
\* the sets of its numbers above each.
LEMMA GreatestExists ==
    ASSUME NEW S \in SUBSET Nat, IsFiniteSet(S), S # {}
    PROVE  \E m \in S : \A n \in S : n <= m
<1> DEFINE Above(m) == {n \in S : n > m}
           T == {Above(m) : m \in S}
<1>1. T \subseteq FiniteSubsetsOf(S) /\ T # {}
  <2>1. \A m \in S : Above(m) \subseteq S /\ IsFiniteSet(Above(m))
    BY FS_Subset
  <2> QED BY <2>1 DEF FiniteSubsetsOf
<1>2. \E x \in T : \A y \in T : ~(<<y, x>> \in StrictSubsetOrdering(S))
  BY <1>1, FS_StrictSubsetOrderingWellFounded, WFMin
<1>3. PICK m \in S : \A k \in S : ~(<<Above(k), Above(m)>> \in StrictSubsetOrdering(S))
  BY <1>2
<1>4. \A k \in S : ~(Above(k) \subseteq Above(m) /\ Above(k) # Above(m))
  BY <1>3 DEF StrictSubsetOrdering
<1>5. ASSUME NEW k \in S, k > m PROVE FALSE
  <2>1. k \in Nat /\ m \in Nat
    OBVIOUS
  <2>2. k \in Above(m)
    BY <1>5
  <2>3. k \notin Above(k)
    <3>1. ~(k > k)
      BY <2>1
    <3>2. \A n : n \in Above(k) => n > k
      OBVIOUS
    <3> HIDE DEF Above
    <3> QED BY <3>1, <3>2
  <2>4. Above(k) \subseteq Above(m)
    <3>1. \A n \in Nat : n > k => n > m
      BY <1>5, <2>1
    <3>2. \A n : n \in Above(k) => n \in S /\ n > k
      OBVIOUS
    <3>3. \A n : n \in S /\ n > m => n \in Above(m)
      OBVIOUS
    <3> HIDE DEF Above
    <3> QED BY <3>1, <3>2, <3>3
  <2> HIDE DEF Above
  <2>5. Above(k) # Above(m)
    BY <2>2, <2>3
  <2> QED BY <2>4, <2>5, <1>4
<1>6. \A k \in S : k \in Nat /\ m \in Nat
  OBVIOUS
<1> QED BY <1>5, <1>6

LEMMA GreatestIs ==
    ASSUME NEW S \in SUBSET Nat, S # {}, NEW b \in Nat, \A n \in S : n <= b
    PROVE  Greatest(S) \in S /\ \A n \in S : n <= Greatest(S)
<1>1. IsFiniteSet(S)
  BY FS_BoundedSetOfNaturals
<1>2. \E m \in S : \A n \in S : n <= m
  BY <1>1, GreatestExists
<1> QED BY <1>2 DEF Greatest

LEMMA LeastIs ==
    ASSUME NEW S \in SUBSET Nat, S # {}
    PROVE  Least(S) \in S /\ \A n \in S : Least(S) <= n
<1>1. PICK b \in S : TRUE
  OBVIOUS
<1> DEFINE Left == {k \in 0..b : b - k \in S}
<1>2. Left \in SUBSET Nat /\ 0 \in Left /\ \A k \in Left : k <= b
  BY <1>1
<1>3. IsFiniteSet(Left)
  BY <1>1, <1>2, FS_BoundedSetOfNaturals
<1>4. PICK k \in Left : \A j \in Left : j <= k
  BY <1>2, <1>3, GreatestExists
<1>5. \A n \in S : b - k <= n
  <2>1. SUFFICES ASSUME NEW n \in S PROVE b - k <= n
    OBVIOUS
  <2>2. CASE n <= b
    <3>1. b - n \in Left
      BY <1>1, <2>2
    <3> QED BY <1>1, <1>4, <3>1
  <2> QED BY <1>1, <2>2
<1>6. b - k \in S
  OBVIOUS
<1> QED BY <1>5, <1>6 DEF Least

LEMMA TopOfRange == ASSUME NEW n \in Nat \ {0} PROVE Greatest(0..n - 1) = n - 1
<1> DEFINE R == 0..n - 1
<1>1. R \in SUBSET Nat /\ n - 1 \in R /\ n - 1 \in Nat /\ \A k \in R : k <= n - 1
  OBVIOUS
<1> HIDE DEF R
<1>2. Greatest(R) \in R /\ \A k \in R : k <= Greatest(R)
  BY <1>1, GreatestIs
<1>3. Greatest(R) \in 0..n - 1 /\ n - 1 <= Greatest(R)
  BY <1>1, <1>2 DEF R
<1>4. Greatest(R) = n - 1
  BY <1>3
<1> QED BY <1>4 DEF R

LEMMA SmallerLarger ==
    ASSUME NEW m \in Int, NEW n \in Int
    PROVE  /\ Smaller(m, n) \in {m, n} /\ Smaller(m, n) <= m /\ Smaller(m, n) <= n
           /\ Larger(m, n) \in {m, n} /\ Larger(m, n) >= m /\ Larger(m, n) >= n
<1>1. CASE m < n
  BY <1>1 DEF Smaller, Larger
<1>2. CASE ~(m < n)
  BY <1>2 DEF Smaller, Larger
<1> QED BY <1>1, <1>2

-----------------------------------------------------------------------------
(* Sequences *)

LEMMA TakeIs ==
    ASSUME NEW T, NEW s \in Seq(T), NEW n \in 0..Len(s)
    PROVE  /\ Take(s, n) \in Seq(T) /\ Len(Take(s, n)) = n
           /\ \A i \in 1..n : Take(s, n)[i] = s[i]
<1>1. \A i \in 1..n : s[i] \in T
  BY ElementOfSeq, LenProperties
<1> QED BY <1>1, SubSeqProperties, LenProperties DEF Take

LEMMA DropIs ==
    ASSUME NEW T, NEW s \in Seq(T), NEW n \in 0..Len(s)
    PROVE  /\ Drop(s, n) \in Seq(T) /\ Len(Drop(s, n)) = Len(s) - n
           /\ \A i \in 1..Len(s) - n : Drop(s, n)[i] = s[n + i]
<1>1. Len(s) \in Nat /\ \A i \in n + 1..Len(s) : s[i] \in T
  BY ElementOfSeq, LenProperties
<1>2. /\ SubSeq(s, n + 1, Len(s)) \in Seq(T)
      /\ Len(SubSeq(s, n + 1, Len(s))) = IF n + 1 <= Len(s) THEN Len(s) - (n + 1) + 1 ELSE 0
      /\ \A i \in 1..Len(s) - (n + 1) + 1 : SubSeq(s, n + 1, Len(s))[i] = s[n + 1 + i - 1]
  BY <1>1, SubSeqProperties
<1>3. \A i \in 1..Len(s) - n : Drop(s, n)[i] = s[n + i]
  BY <1>1, <1>2 DEF Drop
<1> QED BY <1>1, <1>2, <1>3 DEF Drop

LEMMA PlacesAre ==
    ASSUME NEW s \in Seq(Nat), NEW t \in Seq(Nat)
    PROVE  Places(s, t) \in SUBSET Nat /\ \A i \in Places(s, t) : i + Len(t) <= Len(s)
BY LenProperties DEF Places

LEMMA AgreementIs ==
    ASSUME NEW s \in Seq(Nat), NEW t \in Seq(Nat)
    PROVE  /\ Agreement(s, t) \in Nat
           /\ Agreement(s, t) <= Len(s) /\ Agreement(s, t) <= Len(t)
           /\ \A i \in 1..Agreement(s, t) : s[i] = t[i]
           /\ Agreement(s, t) = 0 /\ Len(s) > 0 /\ Len(t) > 0 => s[1] # t[1]
<1> DEFINE Same == {n \in 0..Smaller(Len(s), Len(t)) : Take(s, n) = Take(t, n)}
           a == Agreement(s, t)
<1>0. Len(s) \in Nat /\ Len(t) \in Nat
  BY LenProperties
<1>1. Smaller(Len(s), Len(t)) \in Nat /\ Smaller(Len(s), Len(t)) <= Len(s) /\ Smaller(Len(s), Len(t)) <= Len(t)
  BY <1>0, SmallerLarger
<1>2. Take(s, 0) = <<>> /\ Take(t, 0) = <<>>
  BY SubSeqEmpty DEF Take
<1>3. Same \in SUBSET Nat /\ 0 \in Same /\ \A n \in Same : n <= Smaller(Len(s), Len(t))
  BY <1>1, <1>2
<1>4. a \in Same /\ \A n \in Same : n <= a
  BY <1>1, <1>3, GreatestIs DEF Agreement
<1>5. a \in Nat /\ a <= Len(s) /\ a <= Len(t) /\ Take(s, a) = Take(t, a)
  BY <1>0, <1>1, <1>4
<1>6. \A i \in 1..a : s[i] = t[i]
  <2> HIDE DEF a
  <2>1. a \in 0..Len(s) /\ a \in 0..Len(t)
    BY <1>0, <1>5
  <2>2. \A i \in 1..a : Take(s, a)[i] = s[i]
    BY <2>1, TakeIs
  <2>3. \A i \in 1..a : Take(t, a)[i] = t[i]
    BY <2>1, TakeIs
  <2> QED BY <1>5, <2>2, <2>3
<1>7. ASSUME Len(s) > 0, Len(t) > 0, s[1] = t[1] PROVE a # 0
  <2>0. 1 \in 0..Len(s) /\ 1 \in 0..Len(t) /\ 1 \in 1..1
    BY <1>0, <1>7
  <2>1. Take(s, 1) \in Seq(Nat) /\ Len(Take(s, 1)) = 1 /\ Take(s, 1)[1] = s[1]
    BY <2>0, TakeIs
  <2>4. Take(t, 1) \in Seq(Nat) /\ Len(Take(t, 1)) = 1 /\ Take(t, 1)[1] = t[1]
    BY <2>0, TakeIs
  <2>2. Take(s, 1) = Take(t, 1)
    <3>1. \A i \in 1..1 : i = 1
      OBVIOUS
    <3>2. \A i \in 1..Len(Take(s, 1)) : Take(s, 1)[i] = Take(t, 1)[i]
      BY <1>7, <2>1, <2>4, <3>1
    <3> QED BY <2>1, <2>4, <3>2, SeqEqual
  <2>3. 1 \in Same
    BY <1>0, <1>7, <2>2 DEF Smaller
  <2> QED BY <1>4, <2>3
<1> HIDE DEF a
<1>8. a = 0 /\ Len(s) > 0 /\ Len(t) > 0 => s[1] # t[1]
  BY <1>7
<1> QED BY <1>5, <1>6, <1>8 DEF a

LEMMA ConcatIs ==
    ASSUME NEW T, NEW s \in Seq(T), NEW t \in Seq(T)
    PROVE  /\ s \o t \in Seq(T) /\ Len(s \o t) = Len(s) + Len(t)
           /\ \A i \in 1..Len(s) : (s \o t)[i] = s[i]
           /\ \A i \in 1..Len(t) : (s \o t)[Len(s) + i] = t[i]
<1>1. Len(s) \in Nat /\ Len(t) \in Nat
  BY LenProperties
<1>2. /\ s \o t \in Seq(T) /\ Len(s \o t) = Len(s) + Len(t)
      /\ \A i \in 1..Len(s) + Len(t) :
           (s \o t)[i] = IF i <= Len(s) THEN s[i] ELSE t[i - Len(s)]
  BY ConcatProperties
<1>3. ASSUME NEW i \in 1..Len(t) PROVE (s \o t)[Len(s) + i] = t[i]
  <2>1. Len(s) + i \in 1..Len(s) + Len(t) /\ ~(Len(s) + i <= Len(s)) /\ Len(s) + i - Len(s) = i
    BY <1>1
  <2> QED BY <1>2, <2>1
<1> QED BY <1>1, <1>2, <1>3

LEMMA AppendIs ==
    ASSUME NEW T, NEW s \in Seq(T), NEW x \in T
    PROVE  /\ Append(s, x) \in Seq(T) /\ Len(Append(s, x)) = Len(s) + 1
           /\ \A i \in 1..Len(s) : Append(s, x)[i] = s[i]
           /\ Append(s, x)[Len(s) + 1] = x
BY AppendProperties, LenProperties

\* The longest common run of s and t is a piece of s that occurs in t.
LEMMA SharedIsAPiece ==
    ASSUME NEW s \in Seq(Nat), NEW t \in Seq(Nat)
    PROVE  /\ \E from \in 0..Len(s), n \in 0..Len(s) :
                from + n <= Len(s) /\ LongestCommonSubseq(s, t) = Take(Drop(s, from), n)
           /\ Places(t, LongestCommonSubseq(s, t)) # {}
<1> DEFINE runs == {r \in (0..Len(s)) \X (0..Len(s)) :
                      r[1] + r[2] <= Len(s) /\ Places(t, Take(Drop(s, r[1]), r[2])) # {}}
           lengths == {r[2] : r \in runs}
           most == Greatest(lengths)
           longest == {r[1] : r \in {q \in runs : q[2] = most}}
           from == Least(longest)
<1>1. Len(s) \in Nat /\ Len(t) \in Nat
  BY LenProperties
<1>2. <<0, 0>> \in runs
  <2>1. Take(Drop(s, 0), 0) = <<>>
    BY <1>1, SubSeqEmpty DEF Take
  <2>2. Take(Drop(t, 0), 0) = <<>> /\ Len(<<>>) = 0
    BY <1>1, SubSeqEmpty DEF Take
  <2>3. 0 \in Places(t, <<>>)
    BY <1>1, <2>2 DEF Places
  <2> QED BY <1>1, <2>1, <2>3
<1>3. lengths \in SUBSET Nat /\ lengths # {} /\ \A n \in lengths : n <= Len(s)
  <2>1. \A r \in runs : r[2] \in 0..Len(s)
    OBVIOUS
  <2>2. lengths \subseteq 0..Len(s)
    BY <2>1
  <2>3. lengths # {}
    BY <1>2
  <2> HIDE DEF lengths
  <2> QED BY <1>1, <2>2, <2>3
<1>4. most \in lengths
  <2> HIDE DEF lengths
  <2> QED BY <1>1, <1>3, GreatestIs
<1>5. longest \in SUBSET Nat /\ longest # {}
  <2>1. longest \in SUBSET Nat
    <3>1. \A r \in runs : r[1] \in Nat
      BY <1>1
    <3> HIDE DEF runs, most
    <3> QED BY <3>1
  <2>2. PICK r \in runs : r[2] = most
    BY <1>4
  <2>3. r[1] \in longest
    BY <2>2
  <2> QED BY <2>1, <2>3
<1>6. from \in longest
  <2> HIDE DEF longest
  <2> QED BY <1>5, LeastIs
<1>7. PICK r \in runs : r[2] = most /\ r[1] = from
  BY <1>6
<1>8. from \in 0..Len(s) /\ most \in 0..Len(s) /\ from + most <= Len(s)
  BY <1>7
<1>9. LongestCommonSubseq(s, t) = Take(Drop(s, from), most)
  BY DEF LongestCommonSubseq
<1>10. Places(t, Take(Drop(s, from), most)) # {}
  BY <1>7
<1> HIDE DEF from, most
<1> QED BY <1>8, <1>9, <1>10

-----------------------------------------------------------------------------
(* What a request keeps *)

\* The last token of the prompt is left to evaluate, and the last token of the
\* context is not reused unless it is the only one.
LEMMA FastForwardIs ==
    ASSUME NEW context \in Seq(Nat), NEW prompt \in Seq(Nat), Len(prompt) >= 2
    PROVE  /\ FastForward(context, prompt) \in Nat
           /\ FastForward(context, prompt) <= Len(prompt) - 1
           /\ FastForward(context, prompt) <= Len(context)
           /\ Len(context) >= 2 => FastForward(context, prompt) <= Len(context) - 1
           /\ \A i \in 1..FastForward(context, prompt) : context[i] = prompt[i]
<1> DEFINE a == Agreement(context, prompt)
           shorter == Smaller(Len(context), Len(prompt))
           bound == Larger(1, shorter - 1)
<1>1. Len(context) \in Nat /\ Len(prompt) \in Nat
  BY LenProperties
<1>2. /\ a \in Nat /\ a <= Len(context) /\ a <= Len(prompt)
      /\ \A i \in 1..a : context[i] = prompt[i]
  BY AgreementIs
<1>3. shorter \in Int /\ shorter <= Len(context) /\ shorter <= Len(prompt)
  BY <1>1, SmallerLarger
<1>4. bound \in {1, shorter - 1} /\ bound >= 1 /\ bound \in Int
  BY <1>3, SmallerLarger
<1>5. Smaller(a, bound) \in {a, bound} /\ Smaller(a, bound) <= a /\ Smaller(a, bound) <= bound
  BY <1>2, <1>4, SmallerLarger
<1>6. FastForward(context, prompt) = Smaller(a, bound)
  BY DEF FastForward
<1> HIDE DEF a, bound, shorter
<1>7. Smaller(a, bound) \in Nat
  BY <1>2, <1>4, <1>5
<1>8. bound <= Len(prompt) - 1 /\ (Len(context) >= 2 => bound <= Len(context) - 1)
  BY <1>1, <1>3, <1>4
<1>9. \A i \in 1..Smaller(a, bound) : i \in 1..a
  BY <1>2, <1>5, <1>7
<1> QED BY <1>1, <1>2, <1>4, <1>5, <1>6, <1>7, <1>8, <1>9

\* A piece of the context that is erased ends before its last token, and if it
\* starts where the context does, the prompt starts otherwise.
Piece(context, prompt, from, to) ==
    /\ from <= to
    /\ from # to => to <= Len(context) - 1
    /\ from # to /\ from = 0 => context[1] # prompt[1]

LEMMA ErasureIs ==
    ASSUME NEW context \in Seq(Nat), NEW prompt \in Seq(Nat)
    PROVE  LET e == Erasure(context, prompt)
           IN  /\ e.from \in Nat /\ e.to \in Nat
               /\ Piece(context, prompt, e.from, e.to)
<1> DEFINE p0 == Agreement(context, prompt)
           rest == Drop(context, p0)
           shared == LongestCommonSubseq(rest, Drop(prompt, p0))
           p1 == Least(Places(context, shared))
           Cut == /\ p0 < Len(prompt) - 1
                  /\ Len(prompt) >= 6 /\ Len(context) >= 6
                  /\ Len(prompt) - p0 >= Shortfall
                  /\ Len(shared) > LCSTokThreshold(Len(prompt) - p0)
                  /\ StartsWith(Drop(prompt, p0), shared)
                  /\ p1 > p0
<1>1. Len(context) \in Nat /\ Len(prompt) \in Nat
  BY LenProperties
<1>2. /\ p0 \in Nat /\ p0 <= Len(context) /\ p0 <= Len(prompt)
      /\ p0 = 0 /\ Len(context) > 0 /\ Len(prompt) > 0 => context[1] # prompt[1]
  BY AgreementIs
<1> HIDE DEF p0
<1>3. p0 \in 0..Len(context) /\ p0 \in 0..Len(prompt)
  BY <1>1, <1>2
<1>4. /\ rest \in Seq(Nat) /\ Len(rest) = Len(context) - p0
      /\ \A i \in 1..Len(context) - p0 : rest[i] = context[p0 + i]
  BY <1>3, DropIs
<1>5. Drop(prompt, p0) \in Seq(Nat)
  BY <1>3, DropIs
<1>6. PICK from \in 0..Len(rest), n \in 0..Len(rest) :
        from + n <= Len(rest) /\ shared = Take(Drop(rest, from), n)
  BY <1>4, <1>5, SharedIsAPiece
<1> HIDE DEF shared, rest
<1>7. /\ Drop(rest, from) \in Seq(Nat) /\ Len(Drop(rest, from)) = Len(rest) - from
      /\ \A i \in 1..Len(rest) - from : Drop(rest, from)[i] = rest[from + i]
  BY <1>4, <1>6, DropIs
<1>8. n \in 0..Len(Drop(rest, from)) /\ n \in Nat /\ from \in Nat
  BY <1>1, <1>2, <1>4, <1>6, <1>7
<1>9. /\ shared \in Seq(Nat) /\ Len(shared) = n
      /\ \A i \in 1..n : shared[i] = Drop(rest, from)[i]
  BY <1>6, <1>7, <1>8, TakeIs
<1>10. p0 + from \in Places(context, shared)
  <2> DEFINE at == p0 + from
             after == Drop(context, at)
  <2>1. at \in 0..Len(context) /\ at + n <= Len(context) /\ at \in Nat
    BY <1>1, <1>2, <1>4, <1>6, <1>8
  <2>2. /\ after \in Seq(Nat) /\ Len(after) = Len(context) - at
        /\ \A i \in 1..Len(context) - at : after[i] = context[at + i]
    BY <2>1, DropIs
  <2>3. n \in 0..Len(after)
    BY <1>1, <1>8, <2>1, <2>2
  <2>4. /\ Take(after, n) \in Seq(Nat) /\ Len(Take(after, n)) = n
        /\ \A i \in 1..n : Take(after, n)[i] = after[i]
    BY <2>2, <2>3, TakeIs
  <2>5. \A i \in 1..n : Take(after, n)[i] = shared[i]
    <3>1. SUFFICES ASSUME NEW i \in 1..n PROVE Take(after, n)[i] = shared[i]
      OBVIOUS
    <3>2. i \in 1..Len(context) - at /\ i \in 1..Len(rest) - from /\ from + i \in 1..Len(context) - p0
      BY <1>1, <1>2, <1>4, <1>6, <1>8, <2>1
    <3>3. Take(after, n)[i] = context[at + i]
      BY <2>2, <2>4, <3>2
    <3>4. shared[i] = context[p0 + (from + i)]
      BY <1>4, <1>7, <1>9, <3>2
    <3>5. p0 + (from + i) = at + i
      BY <1>2, <1>8, <3>2
    <3> QED BY <3>3, <3>4, <3>5
  <2>6. Take(after, n) = shared
    BY <1>9, <2>4, <2>5, SeqEqual
  <2>7. at \in 0..Len(context) - n
    BY <1>1, <1>8, <2>1
  <2> QED BY <1>9, <2>6, <2>7 DEF Places
<1>11. /\ Places(context, shared) \in SUBSET Nat
       /\ \A i \in Places(context, shared) : i + n <= Len(context)
  BY <1>9, PlacesAre
<1>12. /\ p1 \in Places(context, shared)
       /\ \A i \in Places(context, shared) : p1 <= i
  BY <1>10, <1>11, LeastIs
<1>13. p1 \in Nat /\ p1 + n <= Len(context)
  BY <1>11, <1>12
<1> HIDE DEF p1
<1>14. ASSUME p1 > p0 PROVE n >= 1
  <2>1. SUFFICES ASSUME n = 0 PROVE FALSE
    BY <1>8
  <2>2. Take(Drop(context, 0), 0) = <<>>
    BY SubSeqEmpty DEF Take
  <2>3. shared = <<>> /\ Len(shared) = 0
    BY <1>9, <2>1, EmptySeq
  <2>4. 0 \in Places(context, shared)
    BY <1>1, <2>2, <2>3 DEF Places
  <2> QED BY <1>2, <1>12, <1>13, <1>14, <2>4
<1>15. Erasure(context, prompt) = IF Cut THEN [from |-> p0, to |-> p1]
                                         ELSE [from |-> p0, to |-> p0]
  BY DEF Erasure, p0, p1, shared, rest
<1>16. CASE Cut
  <2>1. Erasure(context, prompt).from = p0 /\ Erasure(context, prompt).to = p1
    BY <1>15, <1>16
  <2>2. n >= 1 /\ p1 > p0 /\ Len(prompt) >= 6 /\ Len(context) >= 6
    BY <1>14, <1>16
  <2>3. p1 <= Len(context) - 1 /\ p0 <= p1
    BY <1>1, <1>2, <1>8, <1>13, <2>2
  <2>4. p0 = 0 => context[1] # prompt[1]
    BY <1>1, <1>2, <2>2
  <2> QED BY <1>2, <1>13, <2>1, <2>3, <2>4 DEF Piece
<1>17. CASE ~Cut
  <2>1. Erasure(context, prompt).from = p0 /\ Erasure(context, prompt).to = p0
    BY <1>15, <1>17
  <2> QED BY <1>2, <2>1 DEF Piece
<1> QED BY <1>16, <1>17

\* The context without the piece: what lies behind it moves to the front.
\* Its last place keeps its token.
LEMMA EraseTokensIs ==
    ASSUME NEW context \in Seq(Nat), NEW prompt, NEW from \in Nat, NEW to \in Nat,
           Piece(context, prompt, from, to)
    PROVE  LET old == EraseTokens(context, from, to)
           IN  /\ old \in Seq(Nat)
               /\ Len(old) = Len(context) - (to - from)
               /\ \A i \in 1..Len(old) :
                    old[i] = IF from # to /\ i > from /\ i < Len(old)
                             THEN context[i + (to - from)]
                             ELSE context[i]
<1>1. Len(context) \in Nat /\ from <= to /\ (from # to => to <= Len(context) - 1)
  BY LenProperties DEF Piece
<1>2. CASE from = to
  BY <1>1, <1>2 DEF EraseTokens
<1>3. CASE from # to
  <2> DEFINE n == Len(context)
             front == Take(context, from)
             middle == SubSeq(context, to + 1, n - 1)
             last == <<context[n - (to - from)]>>
  <2>1. from \in 0..n /\ to <= n - 1 /\ n - (to - from) \in 1..n
    BY <1>1, <1>3
  <2>2. /\ front \in Seq(Nat) /\ Len(front) = from
        /\ \A i \in 1..from : front[i] = context[i]
    BY <2>1, TakeIs
  <2>3. /\ middle \in Seq(Nat) /\ Len(middle) = n - 1 - to
        /\ \A i \in 1..n - 1 - to : middle[i] = context[to + i]
    <3>1. \A i \in to + 1..n - 1 : context[i] \in Nat
      <4>1. \A i \in to + 1..n - 1 : i \in 1..n
        BY <1>1
      <4> QED BY <4>1, ElementOfSeq
    <3>2. /\ middle \in Seq(Nat)
          /\ Len(middle) = IF to + 1 <= n - 1 THEN (n - 1) - (to + 1) + 1 ELSE 0
          /\ \A i \in 1..(n - 1) - (to + 1) + 1 : middle[i] = context[to + 1 + i - 1]
      <4> DEFINE a == to + 1
                 b == n - 1
      <4>1. a \in Int /\ b \in Int /\ \A i \in a..b : context[i] \in Nat
        BY <1>1, <3>1
      <4> HIDE DEF a, b
      <4>2. /\ SubSeq(context, a, b) \in Seq(Nat)
            /\ Len(SubSeq(context, a, b)) = IF a <= b THEN b - a + 1 ELSE 0
            /\ \A i \in 1..b - a + 1 : SubSeq(context, a, b)[i] = context[a + i - 1]
        BY <4>1, SubSeqProperties
      <4> QED BY <4>2 DEF a, b
    <3> HIDE DEF middle
    <3>3. \A i \in 1..n - 1 - to : i \in 1..(n - 1) - (to + 1) + 1 /\ to + 1 + i - 1 = to + i
      BY <1>1
    <3> QED BY <1>1, <2>1, <3>2, <3>3
  <2>4. last \in Seq(Nat) /\ Len(last) = 1 /\ last[1] = context[n - (to - from)]
    <3>1. context[n - (to - from)] \in Nat
      BY <2>1, ElementOfSeq
    <3> QED BY <3>1
  <2> HIDE DEF front, middle, last, n
  <2> DEFINE both == front \o middle
             old == both \o last
  <2>5. /\ both \in Seq(Nat) /\ Len(both) = from + (n - 1 - to)
        /\ \A i \in 1..from : both[i] = front[i]
        /\ \A i \in 1..n - 1 - to : both[from + i] = middle[i]
    <3>1. /\ both \in Seq(Nat) /\ Len(both) = Len(front) + Len(middle)
          /\ \A i \in 1..Len(front) : both[i] = front[i]
          /\ \A i \in 1..Len(middle) : both[Len(front) + i] = middle[i]
      <4>1. front \in Seq(Nat) /\ middle \in Seq(Nat)
        BY <2>2, <2>3
      <4>2. /\ front \o middle \in Seq(Nat) /\ Len(front \o middle) = Len(front) + Len(middle)
            /\ \A i \in 1..Len(front) : (front \o middle)[i] = front[i]
            /\ \A i \in 1..Len(middle) : (front \o middle)[Len(front) + i] = middle[i]
        BY <4>1, ConcatIs
      <4> QED BY <4>2
    <3> HIDE DEF both
    <3> QED BY <2>2, <2>3, <3>1
  <2> HIDE DEF both
  <2>6. /\ old \in Seq(Nat) /\ Len(old) = Len(both) + 1
        /\ \A i \in 1..Len(both) : old[i] = both[i]
        /\ old[Len(both) + 1] = last[1]
    <3>1. /\ old \in Seq(Nat) /\ Len(old) = Len(both) + Len(last)
          /\ \A i \in 1..Len(both) : old[i] = both[i]
          /\ \A i \in 1..Len(last) : old[Len(both) + i] = last[i]
      <4>1. both \in Seq(Nat) /\ last \in Seq(Nat)
        BY <2>4, <2>5
      <4>2. /\ both \o last \in Seq(Nat) /\ Len(both \o last) = Len(both) + Len(last)
            /\ \A i \in 1..Len(both) : (both \o last)[i] = both[i]
            /\ \A i \in 1..Len(last) : (both \o last)[Len(both) + i] = last[i]
        BY <4>1, ConcatIs
      <4> QED BY <4>2
    <3> HIDE DEF both, old
    <3> QED BY <2>4, <3>1
  <2>7. EraseTokens(context, from, to) = old
    BY <1>3 DEF EraseTokens, both, front, middle, last, n
  <2>8. n \in Nat
    BY <1>1 DEF n
  <2> HIDE DEF old
  <2>9. Len(old) = n - (to - from)
    BY <2>1, <2>5, <2>6, <2>8
  <2>10. ASSUME NEW i \in 1..Len(old)
         PROVE  old[i] = IF i > from /\ i < Len(old)
                         THEN context[i + (to - from)]
                         ELSE context[i]
    <3>1. CASE i <= from
      <4>1. i \in 1..from /\ i \in 1..Len(both)
        BY <2>1, <2>5, <2>8, <3>1
      <4>2. old[i] = both[i] /\ both[i] = front[i] /\ front[i] = context[i]
        BY <2>2, <2>5, <2>6, <4>1
      <4> QED BY <3>1, <4>2
    <3>2. CASE i > from /\ i < Len(old)
      <4> DEFINE j == i - from
      <4>1. j \in 1..n - 1 - to /\ i \in 1..Len(both) /\ i = from + j /\ to + j = i + (to - from)
        <5>1. i \in Nat /\ i < n - (to - from) /\ i > from
          BY <2>1, <2>8, <2>9, <3>2
        <5>2. Len(both) = from + (n - 1 - to)
          BY <2>5
        <5> QED BY <2>1, <2>8, <5>1, <5>2
      <4> HIDE DEF j
      <4>2. old[i] = both[i] /\ both[from + j] = middle[j] /\ middle[j] = context[to + j]
        BY <2>3, <2>5, <2>6, <4>1
      <4> QED BY <3>2, <4>1, <4>2
    <3>3. CASE i > from /\ i = Len(old)
      <4>1. i = Len(both) + 1 /\ i = n - (to - from)
        BY <2>1, <2>5, <2>6, <2>8, <2>9, <3>3
      <4>2. old[i] = context[n - (to - from)]
        BY <2>4, <2>6, <4>1
      <4>3. old[i] = context[i]
        BY <4>1, <4>2
      <4> QED BY <2>1, <2>8, <2>9, <3>3, <4>3
    <3> QED BY <2>1, <2>8, <2>9, <3>1, <3>2, <3>3
  <2> QED BY <1>3, <2>6, <2>7, <2>9, <2>10 DEF n
<1> QED BY <1>2, <1>3

\* Erasing cells: those before the piece stay, those behind it move to it.
LEMMA ExciseIs ==
    ASSUME NEW cache, DOMAIN cache \subseteq Nat, NEW from \in Nat, NEW to \in Nat, from <= to
    PROVE  /\ \A i \in DOMAIN cache : i < from =>
                i \in DOMAIN Excise(cache, from, to) /\ Excise(cache, from, to)[i] = cache[i]
           /\ \A i \in Nat : i >= from /\ i + (to - from) \in DOMAIN cache =>
                /\ i \in DOMAIN Excise(cache, from, to)
                /\ Excise(cache, from, to)[i] = cache[i + (to - from)]
           /\ \A i \in DOMAIN Excise(cache, from, to) :
                i \in Nat /\ \E j \in DOMAIN cache : i <= j
<1> DEFINE left == {i \in DOMAIN cache : i < from}
           moved == {i - (to - from) : i \in {j \in DOMAIN cache : j >= to}}
           value(i) == IF i < from THEN cache[i] ELSE cache[i + (to - from)]
<1>1. Excise(cache, from, to) = [i \in left \cup moved |-> value(i)]
  BY DEF Excise
<1>2. /\ DOMAIN Excise(cache, from, to) = left \cup moved
      /\ \A i \in left \cup moved : Excise(cache, from, to)[i] = value(i)
  BY <1>1
<1>3. ASSUME NEW i \in DOMAIN cache, i < from PROVE i \in left /\ value(i) = cache[i]
  BY <1>3
<1>4. ASSUME NEW i \in Nat, i >= from, i + (to - from) \in DOMAIN cache
      PROVE  i \in moved /\ value(i) = cache[i + (to - from)]
  <2>1. i + (to - from) >= to /\ (i + (to - from)) - (to - from) = i
    BY <1>4
  <2>2. i \in moved
    BY <1>4, <2>1
  <2>3. ~(i < from)
    BY <1>4
  <2> QED BY <2>2, <2>3
<1>5. ASSUME NEW i \in left \cup moved PROVE i \in Nat /\ \E j \in DOMAIN cache : i <= j
  <2>1. CASE i \in left
    BY <2>1
  <2>2. CASE i \in moved
    <3>1. PICK j \in DOMAIN cache : j >= to /\ i = j - (to - from)
      BY <2>2
    <3>2. j \in Nat
      OBVIOUS
    <3> QED BY <3>1, <3>2
  <2> QED BY <1>5, <2>1, <2>2
<1> HIDE DEF left, moved, value
<1> QED BY <1>2, <1>3, <1>4, <1>5

\* Which cells remain depends on which there were.
LEMMA ExciseAlike ==
    ASSUME NEW cache, NEW other, DOMAIN cache = DOMAIN other, NEW from, NEW to
    PROVE  DOMAIN Excise(cache, from, to) = DOMAIN Excise(other, from, to)
BY DEF Excise

LEMMA BelowIs ==
    ASSUME NEW cache, NEW n
    PROVE  /\ DOMAIN Below(cache, n) = {j \in DOMAIN cache : j < n}
           /\ \A i \in DOMAIN Below(cache, n) : Below(cache, n)[i] = cache[i]
BY DEF Below

\* A prompt that is cut to the window keeps two tokens.
LEMMA TrimmedIs ==
    ASSUME NEW prompt \in Seq(Nat), Len(prompt) >= 2, NPredict <= NCtx - 2
    PROVE  /\ Trimmed(prompt) \in Seq(Nat)
           /\ Len(Trimmed(prompt)) >= 2 /\ Len(Trimmed(prompt)) + NPredict <= NCtx
<1>1. Len(prompt) \in Nat /\ NCtx \in Nat /\ NPredict \in Nat /\ NPredict >= 1 /\ Bos \in Nat
  BY LenProperties, ContextAssumption
<1>2. CASE Len(prompt) + NPredict <= NCtx
  BY <1>1, <1>2 DEF Trimmed
<1>3. CASE ~(Len(prompt) + NPredict <= NCtx)
  <2> DEFINE cut == Len(prompt) + NPredict - NCtx + 1
             rest == Drop(prompt, cut)
  <2>1. cut \in 0..Len(prompt) /\ Len(prompt) - cut = NCtx - NPredict - 1
    BY <1>1, <1>3
  <2> HIDE DEF cut
  <2>2. rest \in Seq(Nat) /\ Len(rest) = Len(prompt) - cut
    BY <2>1, DropIs
  <2>3. <<Bos>> \in Seq(Nat) /\ Len(<<Bos>>) = 1
    BY <1>1
  <2> HIDE DEF rest
  <2>4. <<Bos>> \o rest \in Seq(Nat) /\ Len(<<Bos>> \o rest) = Len(<<Bos>>) + Len(rest)
    BY <2>2, <2>3, ConcatIs
  <2>5. Trimmed(prompt) = <<Bos>> \o rest
    BY <1>3 DEF Trimmed, rest, cut
  <2> QED BY <1>1, <2>1, <2>2, <2>3, <2>4, <2>5
<1> QED BY <1>2, <1>3

\* What is sampled again lies within the tokens looked at.
LEMMA RewindIs ==
    ASSUME NEW tokens \in Seq(Nat)
    PROVE  RewindAmount(tokens) \in 0..Len(tokens)
<1> DEFINE places == Places(tokens, Phrase)
<1>1. Len(tokens) \in Nat
  BY LenProperties
<1>2. CASE Phrase = <<>> \/ places = {}
  BY <1>1, <1>2 DEF RewindAmount
<1>3. CASE ~(Phrase = <<>> \/ places = {})
  <2>1. Phrase \in Seq(Nat) /\ Len(Phrase) \in Nat
    BY ContextAssumption, LenProperties
  <2>2. places \in SUBSET Nat /\ places # {} /\ \A i \in places : i <= Len(tokens)
    BY <1>1, <1>3, <2>1, PlacesAre
  <2>3. Greatest(places) \in places
    BY <1>1, <2>2, GreatestIs
  <2>4. Greatest(places) \in 0..Len(tokens)
    BY <1>1, <2>2, <2>3
  <2>5. RewindAmount(tokens) = Len(tokens) - Greatest(places)
    BY <1>3 DEF RewindAmount
  <2> QED BY <1>1, <2>4, <2>5
<1> QED BY <1>2, <1>3

\* A batch fits at the end of a cache without holes.
LEMMA FitsBehind ==
    ASSUME NEW cache, NEW n \in Nat, DOMAIN cache = 0..n - 1
    PROVE  Fits(cache, n)
<1>1. CASE n = 0
  BY <1>1 DEF Fits
<1>2. CASE n # 0
  <2>1. Greatest(DOMAIN cache) = n - 1
    BY <1>2, TopOfRange
  <2> QED BY <2>1 DEF Fits
<1> QED BY <1>1, <1>2

-----------------------------------------------------------------------------
(* The record of the context and the cache *)

\* What the theorems below suppose; outside of it the model has runs in which
\* they fail. No evaluation fails of itself, the draft model and saved states
\* are not combined, smart context is not on where context shift is off, and a
\* prompt keeps two tokens at least, also when it is trimmed.
Plain ==
    /\ Faults = {}
    /\ TRUE \notin Saves
    /\ Shift \/ Smart = {}
    /\ \A sent \in Prompts : Len(sent) >= 2
    /\ NPredict <= NCtx - 2

\* The cells below n are those of the first tokens.
Covers(cache, tokens, n) ==
    \A i \in 0..n - 1 : i \in DOMAIN cache /\ cache[i] = tokens[i + 1]

\* What a fast-forward needs of a context and its cache: nothing but the last
\* token may be missing in the cache, and not the only one.
Reusable(tokens, cells) ==
    /\ tokens \in Seq(Nat)
    /\ DOMAIN cells \subseteq 0..NCtx - 1
    /\ 0..Len(tokens) - 2 \subseteq DOMAIN cells
    /\ Len(tokens) = 1 => 0 \in DOMAIN cells
    /\ \A i \in DOMAIN cells : i < Len(tokens) => cells[i] = tokens[i + 1]

\* Types, as far as the argument needs them, and the features the assumptions
\* rule out.
Kinds ==
    /\ current_context_tokens \in Seq(Nat) /\ goal \in Seq(Nat)
    /\ embd \in Seq(Nat) /\ embd_inp \in Seq(Nat)
    /\ draftids \in Seq(Nat) /\ delayed \in Seq(Nat)
    /\ n_past \in Nat /\ remaining_tokens \in 0..NPredict /\ logits_sampled \in Nat
    /\ early_abort \in BOOLEAN /\ draft_ctx \in BOOLEAN
    /\ stage \in {"idle", "loop", "choose"}
    /\ use_smartcontext => Shift
    /\ DOMAIN kv \subseteq 0..NCtx - 1
    /\ draft_ctx => DOMAIN dkv = DOMAIN kv

\* Between requests context and cache can be reused, and so can what is saved.
Kept ==
    /\ stage = "idle" => Reusable(current_context_tokens, kv)
    /\ savestate # NoState => ~draft_ctx /\ Reusable(savestate.tokens, savestate.cells)

\* In a request the context, followed by what is left of the prompt, begins
\* with the prompt; what is delayed lies behind it, and all fits the window.
Begun ==
    stage # "idle" =>
        /\ Len(goal) >= 2
        /\ \A i \in 1..Len(goal) :
             goal[i] = IF i <= Len(current_context_tokens)
                       THEN current_context_tokens[i]
                       ELSE embd_inp[i - Len(current_context_tokens)]
        /\ Len(current_context_tokens) + Len(embd_inp) >= Len(goal) + Len(delayed)
        /\ Len(current_context_tokens) + Len(embd_inp) + remaining_tokens <= NCtx
        /\ embd_inp # <<>> => remaining_tokens = NPredict /\ delayed = <<>>

\* At the test of the loop what is to be evaluated is the end of the context
\* and the cache holds all before it.
AtTheTest ==
    stage = "loop" =>
        /\ n_past + Len(embd) = Len(current_context_tokens)
        /\ \A j \in 1..Len(embd) : embd[j] = current_context_tokens[n_past + j]
        /\ Covers(kv, current_context_tokens, n_past)
        /\ \A i \in DOMAIN kv : i < Len(current_context_tokens) =>
             kv[i] = current_context_tokens[i + 1]
        /\ ~early_abort => DOMAIN kv = 0..n_past - 1
        /\ embd # <<>> /\ (early_abort \/ remaining_tokens < NPredict) =>
             Len(embd) = 1 /\ remaining_tokens < NPredict /\ embd_inp = <<>>
        /\ embd = <<>> /\ ~early_abort => draftids = <<>> /\ embd_inp # <<>>

\* How many drafted tokens the cache holds beyond the context.
Ahead == IF draftids = <<>> THEN 0 ELSE Chunk - 1 - logits_sampled

\* How many rows of logits the last evaluation left.
Rows == IF draftids = <<>> THEN 1 ELSE Chunk

\* While tokens are chosen the cache holds the context and the drafted tokens
\* not yet judged, and each row of logits not yet sampled was computed from the
\* cells up to its place.
Choosing ==
    stage = "choose" =>
        /\ draftids # <<>> =>
             Len(draftids) = Chunk /\ logits_sampled < Chunk /\ embd_inp = <<>>
        /\ draftids = <<>> => logits_sampled = 0
        /\ logits_sampled = 0 => embd = <<>> /\ n_past = Len(current_context_tokens)
        /\ logits_sampled > 0 =>
             /\ Len(embd) = 1 /\ n_past = Len(current_context_tokens) - 1
             /\ embd[1] = current_context_tokens[n_past + 1]
             /\ remaining_tokens < NPredict
        /\ DOMAIN kv = 0..Len(current_context_tokens) + Ahead - 1
        /\ Covers(kv, current_context_tokens, Len(current_context_tokens))
        /\ \A j \in 1..Ahead :
             kv[Len(current_context_tokens) + j - 1] = draftids[logits_sampled + j]
        /\ embd_inp = <<>> =>
             \A row \in logits_sampled + 1..Rows :
               logits[row] = Below(kv, Len(current_context_tokens) + row - logits_sampled - 1)
        /\ remaining_tokens > 0

ContextInv == Kinds /\ Kept /\ Begun /\ AtTheTest /\ Choosing

\* After the erasure and the fast-forward the cache holds what is reused.
LEMMA KeptIs ==
    ASSUME NEW context, NEW cells, Reusable(context, cells),
           NEW prompt \in Seq(Nat), Len(prompt) >= 2,
           NEW from \in Nat, NEW to \in Nat, Piece(context, prompt, from, to)
    PROVE  LET old  == EraseTokens(context, from, to)
               past == FastForward(old, prompt)
           IN  /\ old \in Seq(Nat) /\ past \in Nat
               /\ past <= Len(old) /\ past <= Len(prompt) - 1
               /\ \A i \in 1..past : old[i] = prompt[i]
               /\ Covers(Excise(cells, from, to), old, past)
<1> DEFINE old == EraseTokens(context, from, to)
           past == FastForward(old, prompt)
           after == Excise(cells, from, to)
           n == Len(context)
           m == Len(old)
<1>1. context \in Seq(Nat) /\ n \in Nat /\ DOMAIN cells \subseteq Nat
  <2>1. context \in Seq(Nat) /\ DOMAIN cells \subseteq 0..NCtx - 1
    BY DEF Reusable
  <2> QED BY <2>1, LenProperties
<1>2. /\ \A i \in 0..n - 2 : i \in DOMAIN cells
      /\ n = 1 => 0 \in DOMAIN cells
      /\ \A i \in DOMAIN cells : i < n => cells[i] = context[i + 1]
  BY DEF Reusable
<1>3. old \in Seq(Nat) /\ m = n - (to - from)
  BY <1>1, EraseTokensIs
<1>4. \A i \in 1..m :
        old[i] = IF from # to /\ i > from /\ i < m
                 THEN context[i + (to - from)]
                 ELSE context[i]
  BY <1>1, EraseTokensIs
<1> HIDE DEF old
<1>0. from <= to /\ (from # to => to <= n - 1)
  BY DEF Piece
<1>5. m \in Nat
  BY <1>3, LenProperties
<1>6. past \in Nat /\ past <= Len(prompt) - 1 /\ past <= m
  BY <1>3, FastForwardIs
<1>7. m >= 2 => past <= m - 1
  BY <1>3, FastForwardIs
<1>8. \A i \in 1..past : old[i] = prompt[i]
  BY <1>3, FastForwardIs
<1> HIDE DEF past
<1> HIDE DEF m, n
<1>9. \A i \in DOMAIN cells : i < from => i \in DOMAIN after /\ after[i] = cells[i]
  BY <1>0, <1>1, ExciseIs
<1>10. \A i \in Nat : i >= from /\ i + (to - from) \in DOMAIN cells =>
         i \in DOMAIN after /\ after[i] = cells[i + (to - from)]
  BY <1>0, <1>1, ExciseIs
<1> HIDE DEF after
<1>11. ASSUME NEW i \in 0..past - 1 PROVE i \in DOMAIN after /\ after[i] = old[i + 1]
  <2>1. i \in Nat /\ i < past /\ i + 1 \in 1..past /\ i + 1 \in 1..m /\ m >= 1
    BY <1>5, <1>6
  <2>2. CASE from = to
    <3>1. m = n /\ i + (to - from) = i
      BY <1>1, <1>3, <2>1, <2>2
    <3>2. i \in DOMAIN cells /\ i < n
      <4>1. CASE m >= 2
        <5>1. i \in 0..n - 2
          BY <1>1, <1>6, <1>7, <2>1, <3>1, <4>1
        <5> QED BY <1>1, <1>2, <5>1
      <4>2. CASE m = 1
        <5>1. i = 0 /\ n = 1
          BY <1>6, <2>1, <3>1, <4>2
        <5> QED BY <1>2, <5>1
      <4> QED BY <1>5, <2>1, <4>1, <4>2
    <3>3. old[i + 1] = context[i + 1] /\ cells[i] = context[i + 1]
      BY <1>2, <1>4, <2>1, <2>2, <3>2
    <3>4. CASE i < from
      BY <1>9, <3>2, <3>3, <3>4
    <3>5. CASE i >= from
      BY <1>10, <2>1, <3>1, <3>2, <3>3, <3>5
    <3> QED BY <2>1, <3>4, <3>5
  <2>3. CASE from # to /\ m >= 2
    <3>1. i + 1 < m /\ to <= n - 1
      BY <1>0, <1>5, <1>6, <1>7, <2>1, <2>3
    <3>2. CASE i < from
      <4>1. i \in 0..n - 2
        BY <1>0, <1>1, <1>3, <2>1, <3>1
      <4>2. i \in DOMAIN cells /\ i < n
        BY <1>1, <1>2, <4>1
      <4>3. ~(i + 1 > from)
        BY <2>1, <3>2
      <4>4. old[i + 1] = context[i + 1]
        BY <1>4, <2>1, <4>3
      <4> QED BY <1>2, <1>9, <3>2, <4>2, <4>4
    <3>3. CASE i >= from
      <4> DEFINE j == i + (to - from)
      <4>1. j \in 0..n - 2 /\ (i + 1) + (to - from) = j + 1 /\ i + 1 > from
        BY <1>0, <1>1, <1>3, <2>1, <3>1, <3>3
      <4>2. j \in DOMAIN cells /\ j < n
        BY <1>1, <1>2, <4>1
      <4>3. old[i + 1] = context[(i + 1) + (to - from)]
        BY <1>4, <2>1, <2>3, <3>1, <4>1
      <4>4. after[i] = cells[j] /\ i \in DOMAIN after
        BY <1>10, <2>1, <3>3, <4>2
      <4> HIDE DEF j
      <4>5. cells[j] = context[j + 1]
        BY <1>2, <4>2
      <4> QED BY <4>1, <4>3, <4>4, <4>5
    <3> QED BY <2>1, <3>2, <3>3
  <2>4. CASE from # to /\ m < 2
    <3>1. m = 1 /\ 1 \in 1..m /\ 1 \in 1..past
      BY <1>5, <1>6, <2>1, <2>4
    <3>2. from = 0
      BY <1>0, <1>1, <1>3, <2>4, <3>1
    <3>3. old[1] = context[1]
      BY <1>4, <3>1
    <3>4. old[1] = prompt[1]
      BY <1>8, <3>1
    <3>5. context[1] # prompt[1]
      BY <2>4, <3>2 DEF Piece
    <3> QED BY <3>3, <3>4, <3>5
  <2> QED BY <1>5, <2>1, <2>2, <2>3, <2>4
<1>12. Covers(after, old, past)
  BY <1>11 DEF Covers
<1> QED BY <1>3, <1>6, <1>8, <1>12 DEF old, past, after, m, n

-----------------------------------------------------------------------------
(* Every step keeps it: saved states, and steps that leave context and cache *)

LEMMA ContextInit == ASSUME Plain, Init PROVE ContextInv
<1>1. /\ Drafts \subseteq BOOLEAN /\ NPredict \in Nat /\ NCtx \in Nat
  BY ContextAssumption
<1>2. /\ <<>> \in Seq(Nat) /\ Len(<<>>) = 0
  BY EmptySeq
<1>3. /\ current_context_tokens = <<>> /\ goal = <<>> /\ embd = <<>> /\ embd_inp = <<>>
      /\ draftids = <<>> /\ delayed = <<>> /\ n_past = 0 /\ remaining_tokens = 0
      /\ logits_sampled = 0 /\ early_abort = FALSE /\ stage = "idle" /\ savestate = NoState
      /\ draft_ctx \in Drafts /\ (use_smartcontext => draft_ctx \in Smart)
  BY DEF Init
<1>4. DOMAIN kv = {} /\ DOMAIN dkv = {}
  <2>1. kv = Cells(<<>>) /\ dkv = Cells(<<>>)
    BY DEF Init
  <2>2. DOMAIN Cells(<<>>) = 0..Len(<<>>) - 1
    BY DEF Cells
  <2> QED BY <1>2, <2>1, <2>2
<1>5. Kinds
  <2>1. use_smartcontext => Shift
    BY <1>3 DEF Plain
  <2>2. 0 \in 0..NPredict /\ 0 \in Nat
    BY <1>1
  <2>3. draft_ctx \in BOOLEAN
    BY <1>1, <1>3
  <2>4. DOMAIN kv \subseteq 0..NCtx - 1 /\ DOMAIN dkv = DOMAIN kv
    BY <1>4
  <2> QED BY <1>2, <1>3, <2>1, <2>2, <2>3, <2>4 DEF Kinds
<1>6. Reusable(current_context_tokens, kv)
  <2>1. 0..Len(current_context_tokens) - 2 = {}
    BY <1>2, <1>3
  <2> QED BY <1>2, <1>3, <1>4, <2>1 DEF Reusable
<1>7. Kept
  BY <1>3, <1>6 DEF Kept
<1>8. Begun /\ AtTheTest /\ Choosing
  BY <1>3 DEF Begun, AtTheTest, Choosing
<1> QED BY <1>5, <1>7, <1>8 DEF ContextInv

\* Between requests only what is kept matters.
LEMMA IdleInv == ASSUME stage = "idle", Kinds, Kept PROVE ContextInv
BY DEF ContextInv, Begun, AtTheTest, Choosing

LEMMA IdleInvNext == ASSUME stage' = "idle", Kinds', Kept' PROVE ContextInv'
BY DEF ContextInv, Begun, AtTheTest, Choosing

LEMMA NoDraftSaved == ASSUME Plain, Kinds, draft_ctx \in Saves PROVE ~draft_ctx
BY DEF Plain, Kinds

LEMMA SaveKeeps ==
    ASSUME Plain, ContextInv, SaveState \/ ClearState PROVE ContextInv'
<1>1. /\ stage = "idle" /\ draft_ctx \in Saves
      /\ savestate' \in {NoState, [tokens |-> current_context_tokens, cells |-> kv, rows |-> logits]}
      /\ UNCHANGED <<contextVars, outputVars, draftVars, turnVars, logits, early_abort, requestVars>>
  BY DEF SaveState, ClearState
<1>2. /\ UNCHANGED <<current_context_tokens, goal, embd, embd_inp, draftids, delayed, n_past, kv, dkv>>
      /\ UNCHANGED <<remaining_tokens, logits_sampled, early_abort, draft_ctx, stage, use_smartcontext>>
  BY <1>1 DEF contextVars, outputVars, draftVars, turnVars, requestVars
<1>3. Kinds'
  BY <1>2 DEF ContextInv, Kinds
<1>4. Reusable(current_context_tokens, kv)
  BY <1>1 DEF ContextInv, Kept
<1>5. ~draft_ctx
  BY <1>1, NoDraftSaved DEF ContextInv
<1>6. savestate' # NoState => Reusable(savestate'.tokens, savestate'.cells)
  BY <1>1, <1>4
<1>7. Reusable(current_context_tokens, kv)'
  BY <1>2, <1>4 DEF Reusable
<1>8. (savestate # NoState => ~draft_ctx /\ Reusable(savestate.tokens, savestate.cells))'
  BY <1>2, <1>5, <1>6 DEF Reusable
<1>9. Kept'
  BY <1>7, <1>8 DEF Kept
<1> QED BY <1>1, <1>2, <1>3, <1>9, IdleInvNext

LEMMA LoadKeeps ==
    ASSUME Plain, ContextInv, LoadState PROVE ContextInv'
<1>1. /\ stage = "idle" /\ draft_ctx \in Saves /\ savestate # NoState
      /\ current_context_tokens' = savestate.tokens /\ kv' = savestate.cells
      /\ UNCHANGED <<goal, embd, embd_inp, draftids, delayed, n_past, dkv, savestate>>
      /\ UNCHANGED <<remaining_tokens, logits_sampled, early_abort, draft_ctx, stage, use_smartcontext>>
  BY DEF LoadState, outputVars, draftVars, turnVars, requestVars
<1>2. ~draft_ctx
  BY <1>1, NoDraftSaved DEF ContextInv
<1>3. Reusable(savestate.tokens, savestate.cells)
  BY <1>1 DEF ContextInv, Kept
<1>4. savestate.tokens \in Seq(Nat) /\ DOMAIN savestate.cells \subseteq 0..NCtx - 1
  BY <1>3 DEF Reusable
<1>5. Kinds'
  BY <1>1, <1>2, <1>4 DEF ContextInv, Kinds
<1>6. Reusable(current_context_tokens, kv)' /\ Reusable(savestate.tokens, savestate.cells)'
  BY <1>1, <1>3 DEF Reusable
<1>7. Kept'
  BY <1>1, <1>2, <1>6 DEF Kept
<1> QED BY <1>1, <1>5, <1>7, IdleInvNext

LEMMA AbortKeeps ==
    ASSUME Plain, ContextInv, Abort PROVE ContextInv'
<1>1. /\ stage # "idle" /\ early_abort' = TRUE
      /\ UNCHANGED <<current_context_tokens, goal, embd, embd_inp, draftids, delayed, n_past, kv, dkv>>
      /\ UNCHANGED <<remaining_tokens, logits_sampled, draft_ctx, stage, use_smartcontext, logits, savestate>>
  BY DEF Abort, contextVars, outputVars, draftVars, turnVars, requestVars
<1>2. stage = "choose" \/ embd = <<>> \/ remaining_tokens < NPredict
  BY DEF Abort, Plain
<1>3. Kinds'
  BY <1>1 DEF ContextInv, Kinds
<1>4. Kept'
  BY <1>1 DEF ContextInv, Kept, Reusable
<1>5. Begun'
  BY <1>1 DEF ContextInv, Begun
<1>6. AtTheTest'
  <2>1. stage = "loop" => AtTheTest /\ (embd = <<>> \/ remaining_tokens < NPredict)
    BY <1>2 DEF ContextInv
  <2> QED BY <1>1, <2>1 DEF AtTheTest, Covers
<1>7. Choosing'
  BY <1>1 DEF ContextInv, Choosing, Covers, Ahead, Rows, Below
<1> QED BY <1>3, <1>4, <1>5, <1>6, <1>7 DEF ContextInv

LEMMA FinishKeeps ==
    ASSUME ContextInv, Finish PROVE ContextInv'
<1>1. /\ stage = "loop" /\ (remaining_tokens = 0 \/ early_abort) /\ stage' = "idle" /\ delayed' = <<>>
      /\ UNCHANGED <<current_context_tokens, goal, embd, embd_inp, draftids, n_past, kv, dkv, early_abort>>
      /\ UNCHANGED <<remaining_tokens, logits_sampled, draft_ctx, use_smartcontext, logits, savestate>>
  BY DEF Finish, contextVars, draftVars, requestVars
<1>2. Kinds'
  BY <1>1, EmptySeq DEF ContextInv, Kinds
<1> DEFINE n == Len(current_context_tokens)
<1>3. /\ n \in Nat /\ Len(embd) \in Nat /\ n_past \in Nat /\ NPredict \in Nat \ {0}
      /\ current_context_tokens \in Seq(Nat) /\ DOMAIN kv \subseteq 0..NCtx - 1
  BY ContextAssumption, LenProperties DEF ContextInv, Kinds
<1>4. /\ n_past + Len(embd) = n
      /\ \A i \in 0..n_past - 1 : i \in DOMAIN kv
      /\ \A i \in DOMAIN kv : i < n => kv[i] = current_context_tokens[i + 1]
  BY <1>1 DEF ContextInv, AtTheTest, Covers
<1>5. embd # <<>> => Len(embd) = 1 /\ embd_inp = <<>>
  BY <1>1, <1>3 DEF ContextInv, AtTheTest
<1>6. embd # <<>> => n >= 2
  <2>1. n + Len(embd_inp) >= Len(goal) + Len(delayed) /\ Len(goal) >= 2
    BY <1>1 DEF ContextInv, Begun
  <2>2. Len(delayed) \in Nat /\ Len(goal) \in Nat
    BY LenProperties DEF ContextInv, Kinds
  <2>3. embd # <<>> => Len(embd_inp) = 0
    BY <1>5, EmptySeq
  <2> HIDE DEF n
  <2> QED BY <1>3, <2>1, <2>2, <2>3
<1>7. embd = <<>> => Len(embd) = 0
  BY EmptySeq
<1> HIDE DEF n
<1>8. \A i \in 0..n - 2 : i \in DOMAIN kv
  <2>1. n_past + 1 >= n
    <3> DEFINE e == Len(embd)
    <3>1. e = 0 \/ e = 1
      BY <1>5, <1>7
    <3>2. n \in Nat /\ n_past \in Nat /\ n_past + e = n
      BY <1>3, <1>4
    <3> HIDE DEF e
    <3> QED BY <3>1, <3>2
  <2>2. \A i \in 0..n - 2 : i \in 0..n_past - 1
    BY <1>3, <2>1
  <2> QED BY <1>4, <2>2
<1>9. n = 1 => 0 \in DOMAIN kv
  BY <1>3, <1>4, <1>6, <1>7
<1>10. Reusable(current_context_tokens, kv)
  BY <1>3, <1>4, <1>8, <1>9 DEF Reusable, n
<1>11. Kept'
  BY <1>1, <1>10 DEF ContextInv, Kept, Reusable
<1> QED BY <1>1, <1>2, <1>11, IdleInvNext

LEMMA EvalNothingKeeps ==
    ASSUME ContextInv, EvalNothing PROVE ContextInv'
<1>1. /\ stage = "loop" /\ remaining_tokens > 0 /\ ~early_abort /\ embd = <<>>
      /\ stage' = "choose" /\ logits_sampled' = 0
      /\ UNCHANGED <<current_context_tokens, goal, embd, embd_inp, draftids, delayed, n_past, kv, dkv>>
      /\ UNCHANGED <<remaining_tokens, early_abort, draft_ctx, use_smartcontext, logits, savestate>>
  BY DEF EvalNothing, Looping, contextVars, outputVars, requestVars
<1>2. Kinds'
  BY <1>1 DEF ContextInv, Kinds
<1>3. Kept'
  BY <1>1 DEF ContextInv, Kept, Reusable
<1>4. Begun'
  BY <1>1 DEF ContextInv, Begun
<1>5. AtTheTest'
  BY <1>1 DEF AtTheTest
<1> DEFINE n == Len(current_context_tokens)
<1>6. n \in Nat /\ n_past \in Nat /\ Len(embd) = 0
  BY <1>1, EmptySeq, LenProperties DEF ContextInv, Kinds
<1>7. /\ n_past + Len(embd) = n /\ DOMAIN kv = 0..n_past - 1
      /\ draftids = <<>> /\ embd_inp # <<>>
      /\ Covers(kv, current_context_tokens, n_past)
  BY <1>1 DEF ContextInv, AtTheTest
<1> HIDE DEF n
<1>8. n_past = n
  BY <1>6, <1>7
<1>9. Ahead' = 0
  BY <1>1, <1>7 DEF Ahead
<1>10. DOMAIN kv = 0..n + 0 - 1
  BY <1>6, <1>7, <1>8
<1>11. Covers(kv, current_context_tokens, n)'
  BY <1>1, <1>7, <1>8 DEF Covers, n
<1>12. 1..0 = {}
  OBVIOUS
<1>13. Choosing'
  BY <1>1, <1>7, <1>8, <1>9, <1>10, <1>11, <1>12 DEF Choosing, n
<1> QED BY <1>2, <1>3, <1>4, <1>5, <1>13 DEF ContextInv

-----------------------------------------------------------------------------
(* Every step keeps it: evaluation *)

\* The rows of logits: a cache without holes is all that lies below its end.
LEMMA AllBelow ==
    ASSUME NEW cache, NEW n, cache = [i \in DOMAIN cache |-> cache[i]],
           \A i \in DOMAIN cache : i < n
    PROVE  Below(cache, n) = cache
BY DEF Below

\* A batch evaluated behind the cells the cache holds.
LEMMA StoreIs ==
    ASSUME NEW cache, NEW n \in Nat, DOMAIN cache = 0..n - 1, NEW batch, Len(batch) \in Nat
    PROVE  /\ Store(cache, n, batch) = [i \in DOMAIN Store(cache, n, batch) |-> Store(cache, n, batch)[i]]
           /\ DOMAIN Store(cache, n, batch) = 0..n + Len(batch) - 1
           /\ \A i \in 0..n - 1 : Store(cache, n, batch)[i] = cache[i]
           /\ \A j \in 1..Len(batch) : Store(cache, n, batch)[n + j - 1] = batch[j]
<1> DEFINE m == Len(batch)
           stored == Store(cache, n, batch)
           value(i) == IF i < n THEN cache[i] ELSE batch[i - n + 1]
           cells == DOMAIN cache \cup n..n + m - 1
<1>1. m \in Nat
  OBVIOUS
<1>2. stored = [i \in cells |-> value(i)]
  BY DEF Store
<1>3. cells = 0..n + m - 1
  <2> HIDE DEF m
  <2> QED BY <1>1
<1>4. stored = [i \in DOMAIN stored |-> stored[i]] /\ DOMAIN stored = cells /\ \A i \in cells : stored[i] = value(i)
  BY <1>2
<1>5. ASSUME NEW i \in 0..n - 1 PROVE i \in cells /\ value(i) = cache[i]
  <2>1. i < n /\ i \in cells
    OBVIOUS
  <2> QED BY <2>1
<1>6. ASSUME NEW j \in 1..m PROVE n + j - 1 \in cells /\ value(n + j - 1) = batch[j]
  <2>1. n + j - 1 \in 0..n + m - 1 /\ ~(n + j - 1 < n) /\ (n + j - 1) - n + 1 = j
    <3> HIDE DEF m
    <3> QED BY <1>1
  <2> QED BY <1>3, <2>1
<1> HIDE DEF value, cells, stored, m
<1>7. \A i \in 0..n - 1 : stored[i] = cache[i]
  BY <1>4, <1>5
<1>8. \A j \in 1..m : stored[n + j - 1] = batch[j]
  BY <1>4, <1>6
<1> QED BY <1>3, <1>4, <1>7, <1>8 DEF stored, m

\* What holds where the loop is about to evaluate.
LEMMA BeforeEval ==
    ASSUME ContextInv, Looping, embd # <<>>
    PROVE  /\ current_context_tokens \in Seq(Nat) /\ Len(current_context_tokens) \in Nat
           /\ embd \in Seq(Nat) /\ Len(embd) \in Nat \ {0} /\ Len(embd_inp) \in Nat
           /\ n_past \in Nat /\ n_past + Len(embd) = Len(current_context_tokens)
           /\ DOMAIN kv = 0..n_past - 1
           /\ draft_ctx => DOMAIN dkv = 0..n_past - 1
           /\ \A i \in 0..n_past - 1 : kv[i] = current_context_tokens[i + 1]
           /\ \A j \in 1..Len(embd) : embd[j] = current_context_tokens[n_past + j]
           /\ remaining_tokens \in Nat /\ remaining_tokens > 0 /\ stage = "loop" /\ ~early_abort
           /\ Len(current_context_tokens) + Len(embd_inp) + remaining_tokens <= NCtx
           /\ NCtx \in Nat
<1>1. /\ stage = "loop" /\ remaining_tokens > 0 /\ ~early_abort
  BY DEF Looping
<1>2. /\ current_context_tokens \in Seq(Nat) /\ embd \in Seq(Nat) /\ embd_inp \in Seq(Nat)
      /\ n_past \in Nat /\ remaining_tokens \in 0..NPredict /\ (draft_ctx => DOMAIN dkv = DOMAIN kv)
  BY DEF ContextInv, Kinds
<1>3. /\ n_past + Len(embd) = Len(current_context_tokens)
      /\ \A j \in 1..Len(embd) : embd[j] = current_context_tokens[n_past + j]
      /\ \A i \in 0..n_past - 1 : kv[i] = current_context_tokens[i + 1]
      /\ DOMAIN kv = 0..n_past - 1
  BY <1>1 DEF ContextInv, AtTheTest, Covers
<1>4. Len(current_context_tokens) + Len(embd_inp) + remaining_tokens <= NCtx
  BY <1>1 DEF ContextInv, Begun
<1>5. Len(current_context_tokens) \in Nat /\ Len(embd) \in Nat \ {0} /\ Len(embd_inp) \in Nat
  BY <1>2, EmptySeq, LenProperties
<1>6. NCtx \in Nat /\ NPredict \in Nat
  BY ContextAssumption
<1>7. remaining_tokens \in Nat
  BY <1>2, <1>6
<1> QED BY <1>1, <1>2, <1>3, <1>4, <1>5, <1>6, <1>7

LEMMA EvalKeeps ==
    ASSUME ContextInv, Eval PROVE ContextInv'
<1>1. /\ Looping /\ embd # <<>> /\ kv' = Store(kv, n_past, embd)
      /\ (draft_ctx => dkv' = Store(dkv, n_past, embd))
      /\ logits' = <<kv'>> /\ draftids' = <<>> /\ logits_sampled' = 0
      /\ n_past' = n_past + Len(embd) /\ embd' = <<>> /\ stage' = "choose"
      /\ UNCHANGED <<current_context_tokens, goal, embd_inp, delayed, remaining_tokens>>
      /\ UNCHANGED <<early_abort, draft_ctx, use_smartcontext, savestate>>
  BY DEF Eval, outputVars, requestVars
<1> DEFINE n == Len(current_context_tokens)
           m == Len(embd)
<1>2. /\ n \in Nat /\ m \in Nat \ {0} /\ Len(embd_inp) \in Nat /\ n_past \in Nat /\ n_past + m = n
      /\ remaining_tokens \in Nat /\ remaining_tokens > 0 /\ n + Len(embd_inp) + remaining_tokens <= NCtx
      /\ NCtx \in Nat
  BY <1>1, BeforeEval
<1>3. /\ \A i \in 0..n_past - 1 : kv[i] = current_context_tokens[i + 1]
      /\ \A j \in 1..m : embd[j] = current_context_tokens[n_past + j]
      /\ DOMAIN kv = 0..n_past - 1 /\ (draft_ctx => DOMAIN dkv = 0..n_past - 1)
  BY <1>1, BeforeEval
<1>4. /\ kv' = [i \in DOMAIN kv' |-> kv'[i]]
      /\ DOMAIN kv' = 0..n_past + m - 1
      /\ \A i \in 0..n_past - 1 : kv'[i] = kv[i]
      /\ \A j \in 1..m : kv'[n_past + j - 1] = embd[j]
  <2> DEFINE stored == Store(kv, n_past, embd)
  <2>1. /\ stored = [i \in DOMAIN stored |-> stored[i]]
        /\ DOMAIN stored = 0..n_past + m - 1
        /\ \A i \in 0..n_past - 1 : stored[i] = kv[i]
        /\ \A j \in 1..m : stored[n_past + j - 1] = embd[j]
    BY <1>2, <1>3, StoreIs
  <2>2. kv' = stored
    BY <1>1
  <2> HIDE DEF stored
  <2> QED BY <2>1, <2>2
<1>5. draft_ctx => DOMAIN dkv' = 0..n_past + m - 1
  BY <1>1, <1>2, <1>3, StoreIs
<1> HIDE DEF n, m
<1>6. DOMAIN kv' = 0..n - 1 /\ (draft_ctx => DOMAIN dkv' = 0..n - 1)
  BY <1>2, <1>4, <1>5
<1>7. ASSUME NEW i \in 0..n - 1 PROVE kv'[i] = current_context_tokens[i + 1]
  <2>1. CASE i < n_past
    <3>1. i \in 0..n_past - 1
      BY <1>2, <2>1
    <3> QED BY <1>3, <1>4, <3>1
  <2>2. CASE ~(i < n_past)
    <3> DEFINE j == i - n_past + 1
    <3>1. j \in 1..m /\ n_past + j - 1 = i /\ n_past + j = i + 1
      BY <1>2, <2>2
    <3> HIDE DEF j
    <3>2. kv'[n_past + j - 1] = embd[j] /\ embd[j] = current_context_tokens[n_past + j]
      BY <1>3, <1>4, <3>1
    <3> QED BY <3>1, <3>2
  <2> QED BY <2>1, <2>2
<1>8. Kinds'
  <2>1. n_past' \in Nat /\ 0 \in Nat
    BY <1>1, <1>2 DEF m
  <2>2. DOMAIN kv' \subseteq 0..NCtx - 1
    BY <1>2, <1>6
  <2> QED BY <1>1, <1>6, <2>1, <2>2, EmptySeq DEF ContextInv, Kinds
<1>9. Kept'
  BY <1>1 DEF ContextInv, Kept, Reusable
<1>10. Begun'
  BY <1>1 DEF ContextInv, Begun, Looping
<1>11. AtTheTest'
  BY <1>1 DEF AtTheTest
<1>12. Choosing'
  <2>1. Ahead' = 0 /\ Rows' = 1
    BY <1>1 DEF Ahead, Rows
  <2>2. n_past' = n
    BY <1>1, <1>2 DEF m
  <2>3. (DOMAIN kv = 0..n + 0 - 1)'
    BY <1>1, <1>2, <1>6 DEF n
  <2>4. Covers(kv, current_context_tokens, n)'
    BY <1>1, <1>6, <1>7 DEF Covers, n
  <2>5. \A i \in DOMAIN kv' : i < n
    BY <1>2, <1>6
  <2>6. Below(kv', n) = kv'
    BY <1>4, <2>5, AllBelow
  <2>7. \A row \in 0 + 1..1 : logits'[row] = Below(kv', n + row - 0 - 1)
    <3>1. \A row \in 0 + 1..1 : row = 1 /\ n + row - 0 - 1 = n
      BY <1>2
    <3>2. logits'[1] = kv'
      BY <1>1
    <3> QED BY <2>6, <3>1, <3>2
  <2>8. 1..0 = {} /\ ~(0 > 0) /\ remaining_tokens' > 0
    BY <1>1, <1>2
  <2>9. n' = n
    BY <1>1 DEF n
  <2> QED BY <1>1, <2>1, <2>2, <2>3, <2>4, <2>7, <2>8, <2>9 DEF Choosing, n
<1> QED BY <1>8, <1>9, <1>10, <1>11, <1>12 DEF ContextInv

LEMMA EvalSucceeds ==
    ASSUME Plain, ContextInv, Looping, embd # <<>>
    PROVE  Fits(kv, n_past) /\ (draft_ctx => Fits(dkv, n_past))
<1>1. n_past \in Nat /\ DOMAIN kv = 0..n_past - 1 /\ (draft_ctx => DOMAIN dkv = 0..n_past - 1)
  BY BeforeEval
<1> QED BY <1>1, FitsBehind

LEMMA NoEvalFails == ASSUME Plain, ContextInv PROVE ~EvalFails
BY EvalSucceeds DEF EvalFails, ModelFails, DraftModelFails, Plain

\* With a draft model the cache goes beyond the context by the drafted tokens
\* but the last, and there is a row of logits for each place.
LEMMA EvalDraftKeeps ==
    ASSUME ContextInv, EvalDraft PROVE ContextInv'
<1>1. /\ Looping /\ draft_ctx /\ Len(embd) = 1 /\ remaining_tokens > Chunk
      /\ remaining_tokens < NPredict
      /\ logits' = [row \in 1..Chunk |-> Below(kv', n_past + row)]
      /\ logits_sampled' = 0 /\ n_past' = n_past + 1 /\ embd' = <<>> /\ stage' = "choose"
      /\ UNCHANGED <<current_context_tokens, goal, embd_inp, delayed, remaining_tokens>>
      /\ UNCHANGED <<early_abort, draft_ctx, use_smartcontext, savestate>>
  BY DEF EvalDraft, Speculates, outputVars, requestVars
<1>2. PICK ids \in [1..Chunk -> Sampled] :
        /\ draftids' = ids
        /\ kv' = Store(kv, n_past, embd \o Take(ids, Chunk - 1))
        /\ dkv' = Store(dkv, n_past, embd \o Take(ids, Chunk - 1))
  BY DEF EvalDraft
<1> DEFINE n == Len(current_context_tokens)
           batch == embd \o Take(ids, Chunk - 1)
<1>3. embd # <<>>
  BY <1>1, EmptySeq
<1>4. /\ n \in Nat /\ Len(embd_inp) \in Nat /\ n_past \in Nat /\ n_past + 1 = n
      /\ remaining_tokens \in Nat /\ n + Len(embd_inp) + remaining_tokens <= NCtx
      /\ NCtx \in Nat /\ Chunk \in Nat \ {0}
  BY <1>1, <1>3, BeforeEval, ContextAssumption
<1>5. /\ \A i \in 0..n_past - 1 : kv[i] = current_context_tokens[i + 1]
      /\ embd[1] = current_context_tokens[n_past + 1]
      /\ DOMAIN kv = 0..n_past - 1 /\ DOMAIN dkv = 0..n_past - 1
      /\ embd \in Seq(Nat)
  <2>1. /\ \A i \in 0..n_past - 1 : kv[i] = current_context_tokens[i + 1]
        /\ \A j \in 1..Len(embd) : embd[j] = current_context_tokens[n_past + j]
        /\ DOMAIN kv = 0..n_past - 1 /\ (draft_ctx => DOMAIN dkv = 0..n_past - 1)
        /\ embd \in Seq(Nat)
    BY <1>1, <1>3, BeforeEval
  <2>2. 1 \in 1..Len(embd)
    BY <1>1
  <2> QED BY <1>1, <2>1, <2>2
<1>6. embd_inp = <<>>
  BY <1>1, <1>3 DEF ContextInv, AtTheTest, Looping
<1>7. ids \in Seq(Nat) /\ Len(ids) = Chunk
  <2>1. ids \in [1..Chunk -> Nat]
    BY ContextAssumption
  <2> QED BY <1>4, <2>1
<1>8. batch \in Seq(Nat) /\ Len(batch) = Chunk /\ batch[1] = embd[1]
      /\ \A j \in 1..Chunk - 1 : batch[j + 1] = ids[j]
  <2> DEFINE front == Take(ids, Chunk - 1)
  <2>1. Chunk - 1 \in 0..Len(ids)
    BY <1>4, <1>7
  <2>2. front \in Seq(Nat) /\ Len(front) = Chunk - 1 /\ \A j \in 1..Chunk - 1 : front[j] = ids[j]
    BY <1>7, <2>1, TakeIs
  <2> HIDE DEF front
  <2>3. /\ embd \o front \in Seq(Nat) /\ Len(embd \o front) = Len(embd) + Len(front)
        /\ \A i \in 1..Len(embd) : (embd \o front)[i] = embd[i]
        /\ \A i \in 1..Len(front) : (embd \o front)[Len(embd) + i] = front[i]
    <3>1. embd \in Seq(Nat) /\ front \in Seq(Nat)
      BY <1>5, <2>2
    <3> QED BY <3>1, ConcatIs
  <2>4. batch = embd \o front
    BY DEF front
  <2> HIDE DEF batch
  <2>5. batch \in Seq(Nat) /\ Len(batch) = 1 + (Chunk - 1)
    BY <1>1, <2>2, <2>3, <2>4
  <2>6. batch[1] = embd[1]
    <3>1. 1 \in 1..Len(embd)
      BY <1>1
    <3> QED BY <2>3, <2>4, <3>1
  <2>7. ASSUME NEW j \in 1..Chunk - 1 PROVE batch[j + 1] = ids[j]
    <3>1. j \in 1..Len(front)
      BY <2>2
    <3>2. batch[Len(embd) + j] = front[j] /\ front[j] = ids[j]
      BY <2>2, <2>3, <2>4, <3>1
    <3>3. Len(embd) + j = j + 1
      BY <1>1, <1>4
    <3> QED BY <3>2, <3>3
  <2> QED BY <1>4, <2>5, <2>6, <2>7
<1>9. /\ kv' = [i \in DOMAIN kv' |-> kv'[i]]
      /\ DOMAIN kv' = 0..n_past + Chunk - 1
      /\ \A i \in 0..n_past - 1 : kv'[i] = kv[i]
      /\ \A j \in 1..Chunk : kv'[n_past + j - 1] = batch[j]
      /\ DOMAIN dkv' = 0..n_past + Chunk - 1
  <2> HIDE DEF batch
  <2>1. Len(batch) \in Nat
    BY <1>4, <1>8
  <2> DEFINE stored == Store(kv, n_past, batch)
             drafted == Store(dkv, n_past, batch)
  <2>2. /\ stored = [i \in DOMAIN stored |-> stored[i]]
        /\ DOMAIN stored = 0..n_past + Len(batch) - 1
        /\ \A i \in 0..n_past - 1 : stored[i] = kv[i]
        /\ \A j \in 1..Len(batch) : stored[n_past + j - 1] = batch[j]
    <3>1. n_past \in Nat /\ DOMAIN kv = 0..n_past - 1
      BY <1>4, <1>5
    <3> QED BY <2>1, <3>1, StoreIs
  <2>3. DOMAIN drafted = 0..n_past + Len(batch) - 1
    <3>1. n_past \in Nat /\ DOMAIN dkv = 0..n_past - 1
      BY <1>4, <1>5
    <3> QED BY <2>1, <3>1, StoreIs
  <2>4. kv' = stored /\ dkv' = drafted
    BY <1>2 DEF batch
  <2> HIDE DEF stored, drafted
  <2> QED BY <1>8, <2>2, <2>3, <2>4
<1> HIDE DEF n, batch
<1>10. ASSUME NEW i \in 0..n - 1 PROVE kv'[i] = current_context_tokens[i + 1]
  <2>1. CASE i < n_past
    <3>1. i \in 0..n_past - 1
      BY <1>4, <2>1
    <3> QED BY <1>5, <1>9, <3>1
  <2>2. CASE ~(i < n_past)
    <3>1. i = n_past + 1 - 1 /\ 1 \in 1..Chunk /\ i + 1 = n_past + 1
      BY <1>4, <2>2
    <3>2. kv'[n_past + 1 - 1] = batch[1]
      BY <1>9, <3>1
    <3> QED BY <1>5, <1>8, <3>1, <3>2
  <2> QED BY <2>1, <2>2
<1>11. ASSUME NEW j \in 1..Chunk - 1 PROVE kv'[n + j - 1] = ids[j]
  <2>1. j + 1 \in 1..Chunk /\ n_past + (j + 1) - 1 = n + j - 1
    BY <1>4
  <2>2. kv'[n_past + (j + 1) - 1] = batch[j + 1]
    BY <1>9, <2>1
  <2> QED BY <1>8, <2>1, <2>2
<1>12. Kinds'
  <2>1. n_past' \in Nat /\ 0 \in Nat
    BY <1>1, <1>4
  <2>2. DOMAIN kv' \subseteq 0..NCtx - 1
    BY <1>1, <1>4, <1>9
  <2> QED BY <1>1, <1>2, <1>7, <1>9, <2>1, <2>2, EmptySeq DEF ContextInv, Kinds
<1>13. Kept'
  BY <1>1 DEF ContextInv, Kept, Reusable
<1>14. Begun'
  BY <1>1 DEF ContextInv, Begun, Looping
<1>15. AtTheTest'
  BY <1>1 DEF AtTheTest
<1>16. Choosing'
  <2>1. draftids' # <<>> /\ Len(draftids') = Chunk
    BY <1>2, <1>4, <1>7, EmptySeq
  <2>2. Ahead' = Chunk - 1 - 0 /\ Rows' = Chunk
    BY <1>1, <2>1 DEF Ahead, Rows
  <2>3. n_past' = n /\ n' = n
    BY <1>1, <1>4 DEF n
  <2>4. DOMAIN kv' = 0..n + (Chunk - 1 - 0) - 1
    BY <1>4, <1>9
  <2>5. Covers(kv', current_context_tokens', n)
    <3>1. \A i \in 0..n - 1 : i \in DOMAIN kv'
      BY <1>4, <1>9
    <3> QED BY <1>1, <1>10, <3>1 DEF Covers
  <2>6. \A j \in 1..Chunk - 1 - 0 : kv'[n + j - 1] = draftids'[0 + j]
    <3>1. \A j \in 1..Chunk - 1 - 0 : j \in 1..Chunk - 1 /\ 0 + j = j
      BY <1>4
    <3> QED BY <1>2, <1>11, <3>1
  <2>7. \A row \in 0 + 1..Chunk : logits'[row] = Below(kv', n + row - 0 - 1)
    <3>1. \A row \in 0 + 1..Chunk : row \in 1..Chunk /\ n + row - 0 - 1 = n_past + row
      BY <1>4
    <3> QED BY <1>1, <3>1
  <2>8. 0 < Chunk /\ ~(0 > 0) /\ remaining_tokens' > 0 /\ embd_inp' = <<>>
    BY <1>1, <1>4, <1>6
  <2> QED BY <1>1, <2>1, <2>2, <2>3, <2>4, <2>5, <2>6, <2>7, <2>8 DEF Choosing, n
<1> QED BY <1>12, <1>13, <1>14, <1>15, <1>16 DEF ContextInv

-----------------------------------------------------------------------------
(* Every step keeps it: taking in the prompt, and an abort that is seen *)

LEMMA IngestKeeps ==
    ASSUME ContextInv, Ingest PROVE ContextInv'
<1> DEFINE c == current_context_tokens
           n == Len(c)
           left == Len(embd_inp)
           m == Smaller(NBatch, left)
           taken == Take(embd_inp, m)
           rest == Drop(embd_inp, m)
           after == c \o taken
<1>1. /\ stage = "choose" /\ ~early_abort /\ embd_inp # <<>>
      /\ embd' = taken /\ embd_inp' = rest /\ c' = after /\ stage' = "loop"
      /\ UNCHANGED <<goal, kv, dkv, n_past, delayed, draftids, logits_sampled, remaining_tokens>>
      /\ UNCHANGED <<early_abort, draft_ctx, use_smartcontext, savestate, logits>>
  BY DEF Ingest, outputVars, draftVars, requestVars
<1>2. /\ c \in Seq(Nat) /\ embd_inp \in Seq(Nat) /\ goal \in Seq(Nat) /\ delayed \in Seq(Nat)
  BY DEF ContextInv, Kinds
<1>3. n \in Nat /\ left \in Nat \ {0} /\ Len(goal) \in Nat /\ remaining_tokens \in Nat
  <2>1. remaining_tokens \in Nat
    BY ContextAssumption DEF ContextInv, Kinds
  <2> QED BY <1>1, <1>2, <2>1, EmptySeq, LenProperties
<1>4. /\ draftids = <<>> /\ logits_sampled = 0 /\ n_past = n
      /\ DOMAIN kv = 0..n + 0 - 1 /\ Covers(kv, c, n)
  <2>1. draftids = <<>> /\ logits_sampled = 0
    BY <1>1 DEF ContextInv, Choosing
  <2>2. Ahead = 0
    BY <2>1 DEF Ahead
  <2> QED BY <1>1, <2>1, <2>2 DEF ContextInv, Choosing
<1>5. /\ Len(goal) >= 2 /\ n + left >= Len(goal) + Len(delayed)
      /\ n + left + remaining_tokens <= NCtx
      /\ remaining_tokens = NPredict /\ delayed = <<>>
  BY <1>1 DEF ContextInv, Begun
<1>6. \A i \in 1..Len(goal) : goal[i] = IF i <= n THEN c[i] ELSE embd_inp[i - n]
  BY <1>1 DEF ContextInv, Begun
<1>7. m \in 1..left
  <2>1. NBatch \in Nat \ {0}
    BY ContextAssumption
  <2> HIDE DEF left
  <2> QED BY <1>3, <2>1, SmallerLarger
<1> HIDE DEF m
<1>8. m \in 0..Len(embd_inp)
  BY <1>3, <1>7
<1>9. taken \in Seq(Nat) /\ Len(taken) = m /\ \A i \in 1..m : taken[i] = embd_inp[i]
  BY <1>2, <1>8, TakeIs
<1>10. rest \in Seq(Nat) /\ Len(rest) = left - m /\ \A i \in 1..left - m : rest[i] = embd_inp[m + i]
  BY <1>2, <1>8, DropIs
<1> HIDE DEF taken, rest
<1>11. /\ after \in Seq(Nat) /\ Len(after) = n + Len(taken)
       /\ \A i \in 1..n : after[i] = c[i]
       /\ \A i \in 1..Len(taken) : after[n + i] = taken[i]
  <2>1. taken \in Seq(Nat)
    BY <1>9
  <2> QED BY <1>2, <2>1, ConcatIs
<1> HIDE DEF after
<1>12. Len(after) = n + m /\ \A i \in 1..m : after[n + i] = taken[i]
  BY <1>9, <1>11
<1> HIDE DEF left, n
<1>13. n + m \in Nat /\ m \in Nat /\ m >= 1 /\ m <= left /\ Len(rest) = left - m
  BY <1>3, <1>7, <1>10
<1>14. Kinds'
  BY <1>1, <1>9, <1>10, <1>11 DEF ContextInv, Kinds
<1>15. Kept'
  BY <1>1 DEF ContextInv, Kept, Reusable
<1>16. Begun'
  <2>1. ASSUME NEW i \in 1..Len(goal)
        PROVE  goal[i] = IF i <= Len(after) THEN after[i] ELSE rest[i - Len(after)]
    <3>1. i \in Nat /\ i >= 1 /\ i <= n + left
      <4>1. Len(delayed) = 0
        BY <1>5, EmptySeq
      <4> QED BY <1>3, <1>5, <4>1
    <3>2. CASE i <= n
      <4>1. i \in 1..n /\ i <= Len(after)
        BY <1>3, <1>12, <1>13, <3>1, <3>2
      <4>2. after[i] = c[i]
        BY <1>11, <4>1
      <4> QED BY <1>6, <3>2, <4>1, <4>2
    <3>3. CASE i > n /\ i <= n + m
      <4> DEFINE j == i - n
      <4>1. j \in 1..m /\ n + j = i /\ i <= Len(after) /\ ~(i <= n)
        BY <1>3, <1>12, <1>13, <3>1, <3>3
      <4>2. goal[i] = embd_inp[j]
        BY <1>6, <4>1
      <4> HIDE DEF j
      <4>3. after[n + j] = taken[j] /\ taken[j] = embd_inp[j]
        BY <1>9, <1>12, <4>1
      <4> QED BY <4>1, <4>2, <4>3
    <3>4. CASE i > n + m
      <4> DEFINE j == i - (n + m)
      <4>1. j \in 1..left - m /\ m + j = i - n /\ i - Len(after) = j /\ ~(i <= Len(after)) /\ ~(i <= n)
        BY <1>3, <1>12, <1>13, <3>1, <3>4
      <4>2. goal[i] = embd_inp[i - n]
        BY <1>6, <4>1
      <4> HIDE DEF j
      <4>3. rest[j] = embd_inp[m + j]
        BY <1>10, <4>1
      <4> QED BY <4>1, <4>2, <4>3
    <3> QED BY <1>3, <1>13, <3>1, <3>2, <3>3, <3>4
  <2>2. Len(after) + Len(rest) = n + left
    BY <1>3, <1>12, <1>13
  <2>3. /\ Len(goal) >= 2 /\ Len(after) + Len(rest) >= Len(goal) + Len(delayed)
        /\ Len(after) + Len(rest) + remaining_tokens <= NCtx
    BY <1>5, <2>2
  <2>4. /\ goal' = goal /\ c' = after /\ embd_inp' = rest /\ delayed' = delayed
        /\ remaining_tokens' = remaining_tokens
    BY <1>1
  <2> QED BY <1>5, <2>1, <2>3, <2>4 DEF Begun
<1>17. AtTheTest'
  <2>1. DOMAIN kv = 0..n - 1 /\ \A i \in 0..n - 1 : i \in DOMAIN kv /\ kv[i] = c[i + 1]
    <3>1. n + 0 - 1 = n - 1
      BY <1>3
    <3> QED BY <1>4, <3>1 DEF Covers
  <2>2. \A i \in 0..n - 1 : kv[i] = after[i + 1]
    <3>1. \A i \in 0..n - 1 : i + 1 \in 1..n
      BY <1>3
    <3> QED BY <1>11, <2>1, <3>1
  <2>3. Covers(kv, after, n)
    BY <2>1, <2>2 DEF Covers
  <2>4. \A i \in DOMAIN kv : i < Len(after) => kv[i] = after[i + 1]
    BY <2>1, <2>2
  <2>5. n + Len(taken) = Len(after) /\ \A j \in 1..Len(taken) : taken[j] = after[n + j]
    BY <1>9, <1>12
  <2>6. taken # <<>>
    BY <1>9, <1>13, EmptySeq
  <2>7. /\ n_past' = n /\ c' = after /\ embd' = taken /\ kv' = kv /\ early_abort' = FALSE
        /\ remaining_tokens' = NPredict
    BY <1>1, <1>4, <1>5 DEF ContextInv, Kinds
  <2>8. ~(NPredict < NPredict)
    BY ContextAssumption
  <2> QED BY <2>1, <2>3, <2>4, <2>5, <2>6, <2>7, <2>8 DEF AtTheTest, Covers
<1>18. Choosing'
  BY <1>1 DEF Choosing
<1> QED BY <1>14, <1>15, <1>16, <1>17, <1>18 DEF ContextInv

LEMMA StopChoosingKeeps ==
    ASSUME ContextInv, StopChoosing PROVE ContextInv'
<1> DEFINE c == current_context_tokens
           n == Len(c)
<1>1. /\ stage = "choose" /\ early_abort /\ stage' = "loop"
      /\ UNCHANGED <<current_context_tokens, goal, embd, embd_inp, n_past, delayed, draftids>>
      /\ UNCHANGED <<logits_sampled, remaining_tokens, early_abort, draft_ctx, use_smartcontext, savestate>>
  BY DEF StopChoosing, outputVars, draftVars, requestVars
<1>2. \/ logits_sampled = 0 /\ kv' = kv /\ dkv' = dkv
      \/ kv' = Below(kv, n_past) /\ dkv' = Below(dkv, n_past)
  BY DEF StopChoosing
<1>3. /\ draftids # <<>> => embd_inp = <<>>
      /\ draftids = <<>> => logits_sampled = 0
      /\ logits_sampled = 0 => embd = <<>> /\ n_past = n
      /\ logits_sampled > 0 =>
           Len(embd) = 1 /\ n_past = n - 1 /\ embd[1] = c[n_past + 1] /\ remaining_tokens < NPredict
      /\ DOMAIN kv = 0..n + Ahead - 1
      /\ Covers(kv, c, n)
  BY <1>1 DEF ContextInv, Choosing
<1>4. /\ n \in Nat /\ n_past \in Nat /\ logits_sampled \in Nat /\ DOMAIN kv \subseteq 0..NCtx - 1
      /\ (draft_ctx => DOMAIN dkv = DOMAIN kv) /\ NCtx \in Nat
  BY LenProperties, ContextAssumption DEF ContextInv, Kinds
<1> HIDE DEF n
<1>5. logits_sampled = 0 \/ logits_sampled > 0
  BY <1>4
<1>6. n_past <= n
  BY <1>3, <1>4, <1>5
<1>7. \A i \in 0..n - 1 : i \in DOMAIN kv /\ kv[i] = c[i + 1]
  BY <1>3 DEF Covers
<1>8. /\ DOMAIN kv' \subseteq DOMAIN kv
      /\ \A i \in DOMAIN kv : i < n_past => i \in DOMAIN kv'
      /\ \A i \in DOMAIN kv' : kv'[i] = kv[i]
  <2>1. CASE kv' = kv
    BY <2>1
  <2>2. CASE kv' = Below(kv, n_past)
    <3> DEFINE low == Below(kv, n_past)
    <3>1. DOMAIN low = {j \in DOMAIN kv : j < n_past} /\ \A i \in DOMAIN low : low[i] = kv[i]
      BY BelowIs
    <3> HIDE DEF low
    <3>2. kv' = low
      BY <2>2 DEF low
    <3> QED BY <3>1, <3>2
  <2> QED BY <1>2, <2>1, <2>2
<1>9. draft_ctx => DOMAIN dkv' = DOMAIN kv'
  <2>1. DOMAIN Below(kv, n_past) = {j \in DOMAIN kv : j < n_past}
    BY BelowIs
  <2>2. DOMAIN Below(dkv, n_past) = {j \in DOMAIN dkv : j < n_past}
    BY BelowIs
  <2> QED BY <1>2, <1>4, <2>1, <2>2
<1>10. Kinds'
  <2>1. DOMAIN kv' \subseteq 0..NCtx - 1
    BY <1>4, <1>8
  <2> QED BY <1>1, <1>9, <2>1 DEF ContextInv, Kinds
<1>11. Kept'
  BY <1>1 DEF ContextInv, Kept, Reusable
<1>12. Begun'
  BY <1>1 DEF ContextInv, Begun
<1>13. AtTheTest'
  <2>1. Covers(kv', c, n_past)
    <3>1. \A i \in 0..n_past - 1 : i \in 0..n - 1 /\ i < n_past
      BY <1>4, <1>6
    <3> QED BY <1>7, <1>8, <3>1 DEF Covers
  <2>2. \A i \in DOMAIN kv' : i < n => kv'[i] = c[i + 1]
    <3>1. \A i \in DOMAIN kv' : i < n => i \in 0..n - 1
      BY <1>4, <1>8
    <3> QED BY <1>7, <1>8, <3>1
  <2>3. n_past + Len(embd) = n /\ \A j \in 1..Len(embd) : embd[j] = c[n_past + j]
    <3>1. CASE logits_sampled = 0
      <4>1. Len(embd) = 0 /\ n_past = n
        BY <1>3, <3>1, EmptySeq
      <4> QED BY <1>4, <4>1
    <3>2. CASE logits_sampled > 0
      <4>1. Len(embd) = 1 /\ n_past = n - 1 /\ embd[1] = c[n_past + 1]
        BY <1>3, <3>2
      <4>2. \A j \in 1..1 : j = 1
        OBVIOUS
      <4> QED BY <1>4, <4>1, <4>2
    <3> QED BY <1>5, <3>1, <3>2
  <2>4. embd # <<>> => Len(embd) = 1 /\ remaining_tokens < NPredict /\ embd_inp = <<>>
    <3>1. embd # <<>> => logits_sampled > 0 /\ logits_sampled # 0
      BY <1>3, <1>5
    <3> QED BY <1>3, <3>1
  <2>5. n' = n
    BY <1>1 DEF n
  <2>6. /\ n_past' = n_past /\ c' = c /\ embd' = embd /\ embd_inp' = embd_inp /\ early_abort'
        /\ remaining_tokens' = remaining_tokens
    BY <1>1
  <2> QED BY <2>1, <2>2, <2>3, <2>4, <2>6 DEF AtTheTest, Covers, n
<1>14. Choosing'
  BY <1>1 DEF Choosing
<1> QED BY <1>10, <1>11, <1>12, <1>13, <1>14 DEF ContextInv

-----------------------------------------------------------------------------
(* Every step keeps it: a new request *)

\* Where smart context is not used a prompt is taken in from its first token
\* that is not reused, and there is only one way to do it.
LEMMA TakenInIs ==
    ASSUME use_smartcontext => Shift, NEW old, NEW prompt, NEW taken \in TakenIn(old, prompt)
    PROVE  LET past == FastForward(old, prompt)
           IN  /\ taken.past = past /\ taken.rest = Drop(prompt, past)
               /\ taken.goal = Take(prompt, past) \o Drop(prompt, past)
<1> DEFINE past == FastForward(old, prompt)
           rest == Drop(prompt, past)
<1>1. ~(use_smartcontext /\ ~Shift)
  OBVIOUS
<1>2. TakenIn(old, prompt) =
        {[past |-> past, rest |-> rest, marker |-> <<>>, goal |-> Take(prompt, past) \o rest]}
  BY <1>1 DEF TakenIn
<1>3. taken = [past |-> past, rest |-> rest, marker |-> <<>>, goal |-> Take(prompt, past) \o rest]
  BY <1>2
<1> HIDE DEF past, rest
<1>4. taken.past = past /\ taken.rest = rest /\ taken.goal = Take(prompt, past) \o rest
  BY <1>3
<1> QED BY <1>4 DEF past, rest

LEMMA RequestKeeps ==
    ASSUME Plain, ContextInv, Request PROVE ContextInv'
<1> DEFINE c == current_context_tokens
           erasure(sent) == IF Shift /\ ~IsBlank(sent)
                            THEN Erasure(c, Trimmed(sent))
                            ELSE [from |-> 0, to |-> 0]
           old(sent) == EraseTokens(c, erasure(sent).from, erasure(sent).to)
<1>1. /\ stage = "idle" /\ embd' = <<>> /\ remaining_tokens' = NPredict /\ early_abort' = FALSE
      /\ draftids' = <<>> /\ logits_sampled' = 0 /\ delayed' = <<>> /\ stage' = "loop"
      /\ UNCHANGED <<logits, savestate, draft_ctx, use_smartcontext>>
  BY DEF Request
<1>2. /\ c \in Seq(Nat) /\ Len(c) \in Nat /\ (draft_ctx => DOMAIN dkv = DOMAIN kv)
      /\ (use_smartcontext => Shift) /\ draft_ctx \in BOOLEAN /\ NPredict \in Nat /\ NCtx \in Nat
  BY ContextAssumption, LenProperties DEF ContextInv, Kinds
<1>3. Reusable(c, kv)
  BY <1>1 DEF ContextInv, Kept
<1>4. PICK sent \in Prompts :
        LET blank == [past |-> 0, rest |-> Trimmed(sent), marker |-> smartcontext,
                      goal |-> Trimmed(sent)]
        IN  \E taken \in IF IsBlank(sent) THEN {blank} ELSE TakenIn(old(sent), Trimmed(sent)) :
              /\ goal' = taken.goal /\ n_past' = taken.past
              /\ c' = Take(old(sent), taken.past) /\ embd_inp' = taken.rest
              /\ kv' = Below(Excise(kv, erasure(sent).from, erasure(sent).to), taken.past)
              /\ dkv' = Below(Excise(dkv, erasure(sent).from, erasure(sent).to), taken.past)
  BY DEF Request
<1> DEFINE prompt == Trimmed(sent)
           from == erasure(sent).from
           to == erasure(sent).to
           kept == old(sent)
           past == FastForward(kept, prompt)
           rest == Drop(prompt, past)
           cells == Excise(kv, from, to)
<1>5. sent \in Seq(Nat) /\ Len(sent) >= 2
  BY ContextAssumption DEF Plain
<1>6. ~IsBlank(sent)
  <2>1. Len(<<Bos>>) = 1
    OBVIOUS
  <2>2. Len(sent) # 1
    <3> DEFINE k == Len(sent)
    <3>1. k >= 2
      BY <1>5
    <3> HIDE DEF k
    <3>2. k # 1
      BY <3>1
    <3> QED BY <3>2 DEF k
  <2>3. sent # <<Bos>>
    BY <2>1, <2>2, Zenon
  <2> QED BY <2>3 DEF IsBlank
<1>7. PICK taken \in TakenIn(kept, prompt) :
        /\ goal' = taken.goal /\ n_past' = taken.past
        /\ c' = Take(kept, taken.past) /\ embd_inp' = taken.rest
        /\ kv' = Below(cells, taken.past)
        /\ dkv' = Below(Excise(dkv, from, to), taken.past)
  BY <1>4, <1>6
<1>8. prompt \in Seq(Nat) /\ Len(prompt) >= 2 /\ Len(prompt) + NPredict <= NCtx
  BY <1>5, TrimmedIs DEF Plain
<1> HIDE DEF prompt
<1>9. from \in Nat /\ to \in Nat /\ Piece(c, prompt, from, to)
  <2>1. CASE Shift
    <3>1. erasure(sent) = Erasure(c, prompt)
      BY <1>6, <2>1 DEF prompt
    <3> HIDE DEF erasure
    <3>2. LET e == Erasure(c, prompt)
          IN  e.from \in Nat /\ e.to \in Nat /\ Piece(c, prompt, e.from, e.to)
      BY <1>2, <1>8, ErasureIs
    <3> QED BY <3>1, <3>2
  <2>2. CASE ~Shift
    <3>1. from = 0 /\ to = 0
      BY <2>2
    <3> HIDE DEF from, to
    <3> QED BY <3>1 DEF Piece
  <2> QED BY <2>1, <2>2
<1>10. kept = EraseTokens(c, from, to)
  OBVIOUS
<1> HIDE DEF erasure, old, kept, from, to
<1>11. /\ kept \in Seq(Nat) /\ past \in Nat
       /\ past <= Len(kept) /\ past <= Len(prompt) - 1
       /\ \A i \in 1..past : kept[i] = prompt[i]
       /\ Covers(cells, kept, past)
  <2> DEFINE erased == EraseTokens(c, from, to)
             reused == FastForward(erased, prompt)
  <2>1. /\ erased \in Seq(Nat) /\ reused \in Nat
        /\ reused <= Len(erased) /\ reused <= Len(prompt) - 1
        /\ \A i \in 1..reused : erased[i] = prompt[i]
        /\ Covers(Excise(kv, from, to), erased, reused)
    <3>1. prompt \in Seq(Nat) /\ Len(prompt) >= 2
      BY <1>8
    <3> QED BY <1>3, <1>9, <3>1, KeptIs
  <2>2. kept = erased /\ past = reused
    BY <1>10
  <2> HIDE DEF erased, reused, past
  <2> QED BY <2>1, <2>2
<1>12. /\ goal' = Take(prompt, past) \o rest /\ n_past' = past /\ c' = Take(kept, past)
       /\ embd_inp' = rest /\ kv' = Below(cells, past) /\ dkv' = Below(Excise(dkv, from, to), past)
  BY <1>2, <1>7, TakenInIs
<1> HIDE DEF past
<1>13. Len(prompt) \in Nat /\ Len(kept) \in Nat
  BY <1>8, <1>11, LenProperties
<1>14. past \in 0..Len(prompt) /\ past \in 0..Len(kept)
  BY <1>11, <1>13
<1>15. /\ Take(kept, past) \in Seq(Nat) /\ Len(Take(kept, past)) = past
       /\ \A i \in 1..past : Take(kept, past)[i] = kept[i]
  BY <1>11, <1>14, TakeIs
<1>16. /\ Take(prompt, past) \in Seq(Nat) /\ Len(Take(prompt, past)) = past
       /\ \A i \in 1..past : Take(prompt, past)[i] = prompt[i]
  BY <1>8, <1>14, TakeIs
<1>17. rest \in Seq(Nat) /\ Len(rest) = Len(prompt) - past
  BY <1>8, <1>14, DropIs
<1> DEFINE front == Take(prompt, past)
           whole == front \o rest
<1>18. /\ whole \in Seq(Nat) /\ Len(whole) = past + Len(rest)
       /\ \A i \in 1..past : whole[i] = prompt[i]
       /\ \A i \in 1..Len(rest) : whole[past + i] = rest[i]
  <2> HIDE DEF front, rest
  <2>1. front \in Seq(Nat) /\ rest \in Seq(Nat)
    BY <1>16, <1>17 DEF front
  <2>2. /\ whole \in Seq(Nat) /\ Len(whole) = Len(front) + Len(rest)
        /\ \A i \in 1..Len(front) : whole[i] = front[i]
        /\ \A i \in 1..Len(rest) : whole[Len(front) + i] = rest[i]
    BY <2>1, ConcatIs
  <2>3. Len(front) = past /\ \A i \in 1..past : front[i] = prompt[i]
    BY <1>16 DEF front
  <2> HIDE DEF whole
  <2> QED BY <2>2, <2>3
<1>19. goal' = whole
  BY <1>12
<1> HIDE DEF whole, front, rest
<1> DEFINE p == Len(prompt)
           r == Len(rest)
           context == Take(kept, past)
<1>20. p \in Nat /\ r \in Nat /\ past \in Nat /\ past + r = p /\ r >= 1 /\ p >= 2 /\ p + NPredict <= NCtx
  <2>1. p \in Nat /\ past \in Nat /\ r = p - past /\ past <= p - 1 /\ p >= 2 /\ p + NPredict <= NCtx
    BY <1>8, <1>11, <1>13, <1>17
  <2> HIDE DEF p, r
  <2> QED BY <2>1
<1>21. c' = context /\ context \in Seq(Nat) /\ Len(context) = past
       /\ \A i \in 1..past : context[i] = prompt[i]
  <2>1. \A i \in 1..past : kept[i] = prompt[i]
    BY <1>11
  <2> QED BY <1>12, <1>15, <2>1
<1> HIDE DEF context
<1>22. /\ DOMAIN kv' = {j \in DOMAIN cells : j < past}
       /\ \A i \in DOMAIN kv' : kv'[i] = cells[i]
  <2> DEFINE low == Below(cells, past)
  <2>1. DOMAIN low = {j \in DOMAIN cells : j < past} /\ \A i \in DOMAIN low : low[i] = cells[i]
    BY BelowIs
  <2> HIDE DEF low
  <2>2. kv' = low
    BY <1>12 DEF low
  <2> QED BY <2>1, <2>2
<1>23. \A i \in DOMAIN cells : i \in Nat
  <2>1. DOMAIN kv \subseteq 0..NCtx - 1
    BY <1>3 DEF Reusable
  <2>2. DOMAIN kv \subseteq Nat /\ from <= to
    BY <1>9, <2>1 DEF Piece
  <2> QED BY <1>9, <2>2, ExciseIs
<1>24. draft_ctx => DOMAIN dkv' = DOMAIN kv'
  <2> SUFFICES ASSUME draft_ctx PROVE DOMAIN dkv' = DOMAIN kv'
    OBVIOUS
  <2>1. DOMAIN Excise(dkv, from, to) = DOMAIN cells
    BY <1>2, ExciseAlike
  <2>2. DOMAIN dkv' = {j \in DOMAIN Excise(dkv, from, to) : j < past}
    BY <1>12, BelowIs
  <2> QED BY <1>22, <2>1, <2>2
<1>25. \A i \in 0..past - 1 : i \in DOMAIN cells /\ cells[i] = context[i + 1]
  <2>1. \A i \in 0..past - 1 : i \in DOMAIN cells /\ cells[i] = kept[i + 1]
    BY <1>11 DEF Covers
  <2>2. \A i \in 0..past - 1 : i + 1 \in 1..past
    BY <1>20
  <2>3. \A i \in 1..past : kept[i] = context[i]
    BY <1>15 DEF context
  <2> QED BY <2>1, <2>2, <2>3
<1> HIDE DEF cells
<1>26. DOMAIN kv' = 0..past - 1
  <2>1. \A i \in DOMAIN kv' : i \in Nat /\ i < past
    BY <1>22, <1>23
  <2>2. \A i \in 0..past - 1 : i \in DOMAIN cells /\ i < past
    BY <1>20, <1>25
  <2>3. \A i : i \in Nat /\ i < past => i \in 0..past - 1
    BY <1>20
  <2> QED BY <1>22, <2>1, <2>2, <2>3
<1>27. \A i \in 0..past - 1 : kv'[i] = context[i + 1]
  BY <1>22, <1>25, <1>26
<1> HIDE DEF p, r
<1>28. Kinds'
  <2>1. DOMAIN kv' \subseteq 0..NCtx - 1
    BY <1>2, <1>20, <1>26
  <2>2. NPredict \in 0..NPredict /\ n_past' \in Nat
    BY <1>2, <1>12, <1>20
  <2>3. c' \in Seq(Nat) /\ goal' \in Seq(Nat) /\ embd_inp' \in Seq(Nat)
    BY <1>12, <1>17, <1>18, <1>19, <1>21
  <2> QED BY <1>1, <1>2, <1>24, <2>1, <2>2, <2>3, EmptySeq DEF Kinds
<1>29. Kept'
  BY <1>1 DEF ContextInv, Kept, Reusable
<1>30. Begun'
  <2>1. Len(whole) = p
    BY <1>18, <1>20 DEF r
  <2>2. ASSUME NEW i \in 1..p
        PROVE  whole[i] = IF i <= past THEN context[i] ELSE rest[i - past]
    <3>1. CASE i <= past
      <4>1. i \in 1..past
        BY <1>20, <3>1
      <4> QED BY <1>18, <1>21, <3>1, <4>1
    <3>2. CASE ~(i <= past)
      <4> DEFINE j == i - past
      <4>1. j \in 1..r /\ past + j = i
        BY <1>20, <3>2
      <4> HIDE DEF j
      <4>2. whole[past + j] = rest[j]
        BY <1>18, <4>1 DEF r
      <4>3. i - past = j
        BY <1>20, <4>1
      <4> QED BY <3>2, <4>1, <4>2, <4>3
    <3> QED BY <3>1, <3>2
  <2>3. Len(<<>>) = 0 /\ p + 0 = p
    BY <1>20, EmptySeq
  <2>4. Len(context) + Len(rest) = p
    BY <1>20, <1>21 DEF r
  <2>5. p >= p + 0 /\ p + NPredict <= NCtx
    BY <1>20
  <2> QED BY <1>1, <1>12, <1>19, <1>20, <1>21, <2>1, <2>2, <2>3, <2>4, <2>5 DEF Begun
<1>31. AtTheTest'
  <2>1. rest # <<>>
    BY <1>17, <1>20, EmptySeq DEF r
  <2>2. Len(<<>>) = 0 /\ past + 0 = past /\ 1..0 = {}
    BY <1>20, EmptySeq
  <2>3. Covers(kv', context, past)
    BY <1>26, <1>27 DEF Covers
  <2>4. \A i \in DOMAIN kv' : i < past => kv'[i] = context[i + 1]
    BY <1>26, <1>27
  <2> QED BY <1>1, <1>12, <1>21, <1>26, <2>1, <2>2, <2>3, <2>4 DEF AtTheTest, Covers
<1>32. Choosing'
  BY <1>1 DEF Choosing
<1> QED BY <1>28, <1>29, <1>30, <1>31, <1>32 DEF ContextInv

-----------------------------------------------------------------------------
(* Every step keeps it: a token is sampled *)

\* What holds where a token is sampled.
LEMMA BeforeSample ==
    ASSUME ContextInv, stage = "choose", ~early_abort, embd_inp = <<>>
    PROVE  /\ current_context_tokens \in Seq(Nat) /\ Len(current_context_tokens) \in Nat
           /\ delayed \in Seq(Nat) /\ Len(delayed) \in Nat /\ Len(goal) \in Nat /\ Len(goal) >= 2
           /\ logits_sampled \in Nat /\ Here = Len(current_context_tokens)
           /\ \A i \in 1..Len(goal) : goal[i] = current_context_tokens[i]
           /\ Len(current_context_tokens) >= Len(goal) + Len(delayed)
           /\ Len(current_context_tokens) + remaining_tokens <= NCtx
           /\ remaining_tokens \in Nat /\ remaining_tokens > 0 /\ remaining_tokens <= NPredict
           /\ NPredict \in Nat /\ NCtx \in Nat
<1> DEFINE c == current_context_tokens
           n == Len(c)
           d == Len(delayed)
           g == Len(goal)
<1>1. /\ c \in Seq(Nat) /\ delayed \in Seq(Nat) /\ goal \in Seq(Nat) /\ logits_sampled \in Nat
      /\ n_past \in Nat /\ remaining_tokens \in 0..NPredict
  BY DEF ContextInv, Kinds
<1>2. NPredict \in Nat /\ NCtx \in Nat
  BY ContextAssumption
<1>3. n \in Nat /\ d \in Nat /\ g \in Nat /\ Len(embd_inp) = 0
  BY <1>1, EmptySeq, LenProperties
<1>4. /\ g >= 2 /\ n + Len(embd_inp) >= g + d
      /\ n + Len(embd_inp) + remaining_tokens <= NCtx
  BY DEF ContextInv, Begun
<1>5. \A i \in 1..g : goal[i] = IF i <= n THEN c[i] ELSE embd_inp[i - n]
  BY DEF ContextInv, Begun
<1>6. /\ logits_sampled = 0 => n_past = n
      /\ logits_sampled > 0 => n_past = n - 1
      /\ remaining_tokens > 0
  BY DEF ContextInv, Choosing
<1> HIDE DEF n, d, g
<1>7. remaining_tokens \in Nat /\ remaining_tokens <= NPredict
  BY <1>1, <1>2
<1>8. n >= g + d /\ n + remaining_tokens <= NCtx
  BY <1>3, <1>4, <1>7
<1>9. \A i \in 1..g : i <= n
  BY <1>3, <1>8
<1>10. \A i \in 1..g : goal[i] = c[i]
  BY <1>5, <1>9
<1>11. Here = n
  BY <1>1, <1>3, <1>6 DEF Here
<1> QED BY <1>1, <1>2, <1>3, <1>4, <1>6, <1>7, <1>8, <1>10, <1>11 DEF n, d, g

\* Caches that are left alone, or both cut.
LEMMA BothCut ==
    ASSUME ContextInv, NEW past \in Nat,
           \/ kv' = kv /\ dkv' = dkv
           \/ kv' = Below(kv, past) /\ dkv' = Below(dkv, past),
           draft_ctx' = draft_ctx
    PROVE  /\ DOMAIN kv' \subseteq 0..NCtx - 1
           /\ draft_ctx' => DOMAIN dkv' = DOMAIN kv'
<1>1. DOMAIN kv \subseteq 0..NCtx - 1 /\ (draft_ctx => DOMAIN dkv = DOMAIN kv)
  BY DEF ContextInv, Kinds
<1>2. DOMAIN Below(kv, past) = {j \in DOMAIN kv : j < past}
  BY BelowIs
<1>3. DOMAIN Below(dkv, past) = {j \in DOMAIN dkv : j < past}
  BY BelowIs
<1> QED BY <1>1, <1>2, <1>3

\* The cache is cut to the first past tokens of the context.
LEMMA CutIs ==
    ASSUME NEW cache, NEW end \in Nat, NEW past \in Nat, past <= end, DOMAIN cache = 0..end - 1
    PROVE  /\ DOMAIN Below(cache, past) = 0..past - 1
           /\ \A i \in 0..past - 1 : Below(cache, past)[i] = cache[i]
<1> DEFINE low == Below(cache, past)
<1>1. DOMAIN low = {j \in DOMAIN cache : j < past} /\ \A i \in DOMAIN low : low[i] = cache[i]
  BY BelowIs
<1> HIDE DEF low
<1>2. DOMAIN low = 0..past - 1
  BY <1>1
<1> QED BY <1>1, <1>2 DEF low

LEMMA ChooseKeeps ==
    ASSUME ContextInv, Choose PROVE ContextInv'
<1>1. /\ stage = "choose" /\ ~early_abort /\ embd_inp = <<>> /\ embd_inp' = <<>>
      /\ UNCHANGED <<draftids, logits, savestate, goal, draft_ctx, use_smartcontext>>
  BY DEF Choose, requestVars
<1>2. PICK token \in Allowed : Sample(token)
  BY DEF Choose
<1>3. token \in Nat
  BY <1>2, ContextAssumption DEF Allowed
<1> DEFINE c == current_context_tokens
           n == Len(c)
           k == logits_sampled
           context == Append(c, token)
           queue == Append(delayed, token)
           out == Released(queue)
           back == RewindAmount(Drop(queue, out))
           rewound == back > 0 /\ Len(context) > back
           past == IF rewound THEN Larger(0, Here - back) ELSE Here
           row == k + 1
           more == /\ row < Len(draftids) /\ draftids[row] = token /\ ~rewound
                   /\ remaining_tokens > 1 /\ token # Eos
           kept == IF rewound THEN Take(context, Len(context) - back) ELSE context
           waits == IF rewound THEN SubSeq(queue, out + 1, Len(queue) - back) ELSE Drop(queue, out)
<1>4. /\ c' = kept /\ embd' = <<c'[Len(c')]>> /\ n_past' = past /\ delayed' = waits
      /\ remaining_tokens' = remaining_tokens - 1 /\ early_abort' = (token = Eos)
      /\ logits_sampled' = row /\ stage' = IF more THEN "choose" ELSE "loop"
      /\ IF rewound \/ (draftids # <<>> /\ ~more)
         THEN kv' = Below(kv, past) /\ dkv' = Below(dkv, past)
         ELSE kv' = kv /\ dkv' = dkv
  BY <1>2 DEF Sample
<1>5. c \in Seq(Nat) /\ delayed \in Seq(Nat)
  BY <1>1, BeforeSample
<1> DEFINE d == Len(delayed)
           g == Len(goal)
           q == Len(queue)
<1>6. /\ n \in Nat /\ d \in Nat /\ g \in Nat /\ g >= 2 /\ k \in Nat /\ Here = n /\ n >= g + d
      /\ n + remaining_tokens <= NCtx /\ remaining_tokens \in Nat /\ remaining_tokens > 0
      /\ remaining_tokens <= NPredict /\ NPredict \in Nat /\ NCtx \in Nat
  BY <1>1, BeforeSample
<1>7. \A i \in 1..g : goal[i] = c[i]
  BY <1>1, BeforeSample
<1>8. /\ context \in Seq(Nat) /\ Len(context) = n + 1
      /\ \A i \in 1..n : context[i] = c[i]
      /\ context[n + 1] = token
  BY <1>3, <1>5, AppendIs
<1>9. queue \in Seq(Nat) /\ q = d + 1
  BY <1>3, <1>5, AppendIs
<1> HIDE DEF context, queue
<1>10. out \in 0..q
  <2>1. DelayLimit \in Nat /\ q \in Nat
    BY <1>6, <1>9, ContextAssumption
  <2>2. out = Larger(0, q - DelayLimit)
    BY DEF Released
  <2> HIDE DEF out, q
  <2>3. out \in {0, q - DelayLimit} /\ out >= 0
    BY <2>1, <2>2, SmallerLarger
  <2> QED BY <2>1, <2>3
<1> HIDE DEF out
<1>11. Drop(queue, out) \in Seq(Nat) /\ Len(Drop(queue, out)) = q - out
  BY <1>9, <1>10, DropIs
<1>12. back \in 0..q - out
  <2>1. RewindAmount(Drop(queue, out)) \in 0..Len(Drop(queue, out))
    BY <1>11, RewindIs
  <2> QED BY <1>11, <2>1
<1> HIDE DEF back, d, g, q, n
<1>13. q = d + 1 /\ out \in Nat /\ out <= q /\ back \in Nat /\ back <= q - out /\ q \in Nat
  BY <1>6, <1>9, <1>10, <1>12
<1>14. rewound <=> back > 0 /\ n + 1 > back
  BY <1>8
<1> HIDE DEF rewound
<1>15. CASE rewound
  <2>1. back >= 1 /\ back <= n
    BY <1>6, <1>13, <1>14, <1>15
  <2>2. past = n - back
    <3>1. past = Larger(0, n - back)
      BY <1>6, <1>15
    <3>2. ~(n - back < 0)
      BY <1>6, <1>13, <2>1
    <3> HIDE DEF past
    <3> QED BY <1>6, <1>13, <2>1, <3>1, <3>2 DEF Larger
  <2>3. kept = Take(context, n + 1 - back)
    <3> DEFINE m == Len(context)
    <3>1. kept = Take(context, m - back)
      BY <1>15
    <3>2. m = n + 1
      BY <1>8
    <3> HIDE DEF kept, m
    <3>3. m - back = n + 1 - back
      BY <1>6, <1>13, <3>2
    <3> QED BY <3>1, <3>3, Zenon
  <2>4. n + 1 - back \in 0..Len(context)
    BY <1>6, <1>8, <1>13, <2>1
  <2>5. /\ kept \in Seq(Nat) /\ Len(kept) = n + 1 - back
        /\ \A i \in 1..n + 1 - back : kept[i] = context[i]
    <3> DEFINE m == n + 1 - back
    <3> HIDE DEF m
    <3>1. /\ Take(context, m) \in Seq(Nat) /\ Len(Take(context, m)) = m
          /\ \A i \in 1..m : Take(context, m)[i] = context[i]
      <4>1. m \in 0..Len(context)
        BY <2>4 DEF m
      <4> QED BY <1>8, <4>1, TakeIs
    <3>2. kept = Take(context, m)
      BY <2>3 DEF m
    <3> HIDE DEF kept
    <3> QED BY <3>1, <3>2 DEF m
  <2>6. waits \in Seq(Nat) /\ Len(waits) <= q - back /\ Len(waits) \in Nat
    <3> DEFINE e == q - back
               b == out + 1
    <3>1. waits = SubSeq(queue, b, e)
      BY <1>15 DEF q
    <3>2. b \in Int /\ e \in Int /\ b >= 1 /\ e <= q /\ e >= 0
      BY <1>13
    <3>3. \A i \in b..e : queue[i] \in Nat
      <4>1. \A i \in b..e : i \in 1..q
        BY <1>13, <3>2
      <4>2. \A i \in 1..q : queue[i] \in Nat
        BY <1>9, ElementOfSeq DEF q
      <4> QED BY <4>1, <4>2
    <3> HIDE DEF b, e, waits
    <3>4. waits \in Seq(Nat) /\ Len(waits) = IF b <= e THEN e - b + 1 ELSE 0
      BY <3>1, <3>2, <3>3, SubSeqProperties
    <3>5. Len(waits) \in Nat /\ Len(waits) <= e
      <4> DEFINE w == Len(waits)
      <4>1. w = IF b <= e THEN e - b + 1 ELSE 0
        BY <3>4
      <4> HIDE DEF w
      <4>2. w \in Nat /\ w <= e
        BY <3>2, <4>1
      <4> QED BY <4>2 DEF w
    <3> QED BY <3>4, <3>5 DEF e
  <2> HIDE DEF kept, waits, past
  <2>7. ~more
    BY <1>15
  <2> HIDE DEF more
  <2>8. /\ stage' = "loop" /\ kv' = Below(kv, past) /\ dkv' = Below(dkv, past)
    BY <1>4, <1>15, <2>7
  <2> DEFINE w == Len(waits)
             m == Len(kept)
  <2>9. /\ past \in Nat /\ past < n /\ m = past + 1 /\ m <= n /\ m \in Nat /\ w \in Nat /\ m >= g + w
    <3>1. m = n + 1 - back /\ w \in Nat /\ w <= q - back
      BY <2>5, <2>6
    <3> HIDE DEF m, w
    <3> QED BY <1>6, <1>13, <2>1, <2>2, <3>1
  <2>10. \A i \in 1..m : kept[i] = c[i]
    <3>1. \A i \in 1..m : i \in 1..n /\ i \in 1..n + 1 - back
      <4>1. m = n + 1 - back
        BY <2>5
      <4> HIDE DEF m
      <4> QED BY <1>6, <2>9, <4>1
    <3> QED BY <1>8, <2>5, <3>1
  <2>11. embd' = <<kept[m]>> /\ Len(embd') = 1 /\ embd'[1] = kept[m] /\ embd' \in Seq(Nat) /\ embd' # <<>>
    <3>1. embd' = <<kept[m]>>
      BY <1>4
    <3>2. kept[m] \in Nat
      <4>1. m \in 1..Len(kept)
        BY <2>9
      <4> QED BY <2>5, <4>1, ElementOfSeq
    <3> QED BY <3>1, <3>2
  <2>12. /\ DOMAIN kv' = 0..past - 1
         /\ \A i \in 0..past - 1 : kv'[i] = kept[i + 1]
    <3>1. DOMAIN kv = 0..n + Ahead - 1 /\ \A i \in 0..n - 1 : kv[i] = c[i + 1]
      BY <1>1 DEF ContextInv, Choosing, Covers, n
    <3>2. Ahead \in Nat
      <4>1. draftids # <<>> => k < Chunk
        BY <1>1 DEF ContextInv, Choosing
      <4>2. Chunk \in Nat
        BY ContextAssumption
      <4> QED BY <1>6, <4>1, <4>2 DEF Ahead
    <3>3. n + Ahead \in Nat /\ past <= n + Ahead
      BY <1>6, <2>9, <3>2
    <3>4. /\ DOMAIN Below(kv, past) = 0..past - 1
          /\ \A i \in 0..past - 1 : Below(kv, past)[i] = kv[i]
      <4> DEFINE end == n + Ahead
      <4>1. end \in Nat /\ past \in Nat /\ past <= end
        BY <2>9, <3>3
      <4>2. DOMAIN kv = 0..end - 1
        <5>1. n + Ahead - 1 = end - 1
          BY <1>6, <3>2
        <5> HIDE DEF end
        <5> QED BY <3>1, <5>1, Zenon
      <4> HIDE DEF end
      <4> QED BY <4>1, <4>2, CutIs
    <3>5. \A i \in 0..past - 1 : i \in 0..n - 1 /\ i + 1 \in 1..m
      <4> HIDE DEF m
      <4> QED BY <1>6, <2>9
    <3> QED BY <2>8, <2>10, <3>1, <3>4, <3>5
  <2>13. Kinds'
    <3>1. DOMAIN kv' \subseteq 0..NCtx - 1 /\ (draft_ctx' => DOMAIN dkv' = DOMAIN kv')
      BY <1>1, <2>8, <2>9, BothCut
    <3>2. remaining_tokens' \in 0..NPredict /\ logits_sampled' \in Nat /\ n_past' \in Nat
      BY <1>4, <1>6, <2>9
    <3>3. early_abort' \in BOOLEAN
      BY <1>4
    <3>4. c' \in Seq(Nat) /\ delayed' \in Seq(Nat)
      BY <1>4, <2>5, <2>6
    <3> QED BY <1>1, <2>8, <2>11, <3>1, <3>2, <3>3, <3>4, EmptySeq DEF ContextInv, Kinds
  <2>14. Kept'
    BY <1>1, <2>8 DEF ContextInv, Kept, Reusable
  <2>15. Begun'
    <3>1. \A i \in 1..g : i <= m /\ i \in 1..m
      <4> HIDE DEF m, w
      <4> QED BY <1>6, <2>9
    <3>2. \A i \in 1..g : goal[i] = IF i <= m THEN kept[i] ELSE embd_inp'[i - m]
      BY <1>7, <2>10, <3>1
    <3>3. /\ m + 0 >= g + w
          /\ m + 0 + (remaining_tokens - 1) <= NCtx
      <4> HIDE DEF m, w
      <4> QED BY <1>6, <2>9
    <3>4. Len(<<>>) = 0
      BY EmptySeq
    <3> QED BY <1>1, <1>4, <1>6, <3>2, <3>3, <3>4 DEF Begun, g
  <2>16. AtTheTest'
    <3>1. past + 1 = m /\ \A j \in 1..1 : embd'[j] = kept[past + j]
      <4>1. \A j \in 1..1 : j = 1
        OBVIOUS
      <4> QED BY <2>9, <2>11, <4>1
    <3>2. Covers(kv', kept, past)
      BY <2>12 DEF Covers
    <3>3. \A i \in DOMAIN kv' : i < m => kv'[i] = kept[i + 1]
      BY <2>12
    <3>4. remaining_tokens - 1 < NPredict
      BY <1>6
    <3> QED BY <1>1, <1>4, <2>11, <2>12, <3>1, <3>2, <3>3, <3>4 DEF AtTheTest, Covers
  <2>17. Choosing'
    BY <2>8 DEF Choosing
  <2> QED BY <2>13, <2>14, <2>15, <2>16, <2>17 DEF ContextInv
<1>16. CASE ~rewound
  <2>1. past = n /\ kept = context /\ waits = Drop(queue, out)
    BY <1>6, <1>16
  <2> HIDE DEF kept, waits, past
  <2> DEFINE w == Len(waits)
             m == n + 1
  <2>2. waits \in Seq(Nat) /\ w \in Nat /\ w <= d + 1
    <3>1. waits \in Seq(Nat) /\ w = q - out
      BY <1>11, <2>1
    <3> HIDE DEF w
    <3> QED BY <1>13, <3>1
  <2>3. Len(context) = m
    BY <1>8
  <2> HIDE DEF w
  <2>4. m \in Nat /\ m >= g + w /\ m + (remaining_tokens - 1) <= NCtx /\ m = n + 1 /\ past \in Nat
    BY <1>6, <2>1, <2>2
  <2>5. c' = context /\ delayed' = waits /\ n_past' = n
    BY <1>4, <2>1
  <2>6. embd' = <<token>> /\ Len(embd') = 1 /\ embd'[1] = token /\ embd' \in Seq(Nat) /\ embd' # <<>>
    <3>1. embd' = <<context[n + 1]>>
      BY <1>4, <2>3, <2>5
    <3> QED BY <1>3, <1>8, <3>1
  <2>7. Begun'
    <3>1. \A i \in 1..g : i <= m /\ i \in 1..n
      BY <1>6, <2>2, <2>4
    <3>2. \A i \in 1..g : goal[i] = IF i <= m THEN context[i] ELSE embd_inp'[i - m]
      BY <1>7, <1>8, <3>1
    <3>3. /\ m + 0 >= g + w
          /\ m + 0 + (remaining_tokens - 1) <= NCtx
      BY <1>6, <2>4
    <3>4. Len(<<>>) = 0
      BY EmptySeq
    <3> QED BY <1>1, <1>4, <1>6, <2>3, <2>5, <3>2, <3>3, <3>4 DEF Begun, g, w
  <2>8. Kinds'
    <3>1. DOMAIN kv' \subseteq 0..NCtx - 1 /\ (draft_ctx' => DOMAIN dkv' = DOMAIN kv')
      BY <1>1, <1>4, <2>4, BothCut
    <3>2. remaining_tokens' \in 0..NPredict /\ logits_sampled' \in Nat /\ n_past' \in Nat
      BY <1>4, <1>6, <2>5
    <3>3. early_abort' \in BOOLEAN /\ stage' \in {"idle", "loop", "choose"}
      BY <1>4
    <3>4. c' \in Seq(Nat) /\ delayed' \in Seq(Nat)
      BY <1>8, <2>2, <2>5
    <3> QED BY <1>1, <2>6, <3>1, <3>2, <3>3, <3>4, EmptySeq DEF ContextInv, Kinds
  <2>9. stage' # "idle"
    BY <1>4
  <2>10. Kept'
    BY <1>1, <2>9 DEF ContextInv, Kept, Reusable
  <2>11. /\ draftids # <<>> => Len(draftids) = Chunk /\ k < Chunk
         /\ DOMAIN kv = 0..n + Ahead - 1
         /\ \A i \in 0..n - 1 : kv[i] = c[i + 1]
         /\ \A j \in 1..Ahead : kv[n + j - 1] = draftids[k + j]
         /\ \A r \in k + 1..Rows : logits[r] = Below(kv, n + r - k - 1)
    BY <1>1 DEF ContextInv, Choosing, Covers, n
  <2>12. Chunk \in Nat /\ Ahead \in Nat
    <3>1. Chunk \in Nat
      BY ContextAssumption
    <3> QED BY <1>6, <2>11, <3>1 DEF Ahead
  <2>13. \A i \in 0..n - 1 : kv[i] = context[i + 1]
    <3>1. \A i \in 0..n - 1 : i + 1 \in 1..n
      BY <1>6
    <3> QED BY <1>8, <2>11, <3>1
  <2>14. CASE ~more
    <3>1. stage' = "loop"
      BY <1>4, <2>14
    <3>2. DOMAIN kv' = 0..n - 1 /\ \A i \in 0..n - 1 : kv'[i] = kv[i]
      <4>1. CASE draftids = <<>>
        <5>1. Ahead = 0
          BY <4>1 DEF Ahead
        <5>2. kv' = kv
          BY <1>4, <1>16, <4>1
        <5>3. n + 0 - 1 = n - 1
          BY <1>6
        <5> QED BY <2>11, <5>1, <5>2, <5>3
      <4>2. CASE draftids # <<>>
        <5>1. kv' = Below(kv, n)
          BY <1>4, <2>1, <2>14, <4>2
        <5>2. n + Ahead \in Nat /\ n <= n + Ahead
          BY <1>6, <2>12
        <5> DEFINE end == n + Ahead
        <5>3. end \in Nat /\ n \in Nat /\ n <= end
          BY <1>6, <5>2
        <5>5. DOMAIN kv = 0..end - 1
          <6>1. n + Ahead - 1 = end - 1
            BY <1>6, <2>12
          <6> HIDE DEF end
          <6> QED BY <2>11, <6>1, Zenon
        <5> HIDE DEF end
        <5>4. /\ DOMAIN Below(kv, n) = 0..n - 1
              /\ \A i \in 0..n - 1 : Below(kv, n)[i] = kv[i]
          BY <5>3, <5>5, CutIs
        <5> QED BY <5>1, <5>4
      <4> QED BY <4>1, <4>2
    <3>3. AtTheTest'
      <4>1. n + 1 = m /\ \A j \in 1..1 : embd'[j] = context[n + j]
        <5>1. \A j \in 1..1 : j = 1
          OBVIOUS
        <5> QED BY <1>8, <2>6, <5>1
      <4>2. \A i \in 0..n - 1 : i \in DOMAIN kv' /\ kv'[i] = context[i + 1]
        BY <2>13, <3>2
      <4>3. \A i \in DOMAIN kv' : i < m => kv'[i] = context[i + 1]
        BY <3>2, <4>2
      <4>4. remaining_tokens - 1 < NPredict
        BY <1>6
      <4> HIDE DEF m
      <4> QED BY <1>1, <1>4, <2>3, <2>5, <2>6, <3>2, <4>1, <4>2, <4>3, <4>4 DEF AtTheTest, Covers
    <3>4. Choosing'
      BY <3>1 DEF Choosing
    <3> QED BY <2>7, <2>8, <2>10, <3>3, <3>4 DEF ContextInv
  <2>15. CASE more
    <3>1. /\ stage' = "choose" /\ kv' = kv /\ early_abort' = FALSE
          /\ row < Len(draftids) /\ draftids[row] = token /\ remaining_tokens > 1
      BY <1>4, <1>16, <2>15
    <3> HIDE DEF more
    <3>2. draftids # <<>>
      <4>1. SUFFICES ASSUME draftids = <<>> PROVE FALSE
        OBVIOUS
      <4>2. Len(draftids) = 0
        BY <4>1, EmptySeq
      <4> QED BY <1>6, <3>1, <4>2
    <3>3. Len(draftids) = Chunk /\ k + 1 < Chunk
      BY <2>11, <3>1, <3>2
    <3>4. Ahead = Chunk - 1 - k /\ Ahead' = Chunk - 1 - row /\ Rows = Chunk /\ Rows' = Chunk
      BY <1>1, <1>4, <3>2 DEF Ahead, Rows
    <3> DEFINE ahead == Chunk - 1 - row
    <3>5. ahead \in Nat /\ n + (Chunk - 1 - k) = m + ahead /\ Chunk - 1 - k >= 1
      BY <1>6, <2>4, <2>12, <3>3
    <3>6. DOMAIN kv = 0..m + ahead - 1
      <4>1. n + Ahead - 1 = m + ahead - 1
        BY <1>6, <2>12, <3>4, <3>5
      <4> HIDE DEF m, ahead
      <4> QED BY <2>11, <4>1, Zenon
    <3>7. kv[n] = token
      <4>1. 1 \in 1..Ahead /\ n + 1 - 1 = n
        BY <1>6, <3>4, <3>5
      <4>2. kv[n + 1 - 1] = draftids[k + 1]
        BY <2>11, <4>1
      <4> QED BY <3>1, <4>1, <4>2
    <3>8. \A i \in 0..m - 1 : i \in DOMAIN kv /\ kv[i] = context[i + 1]
      <4>1. \A i \in 0..m - 1 : i \in 0..m + ahead - 1 /\ (i \in 0..n - 1 \/ i = n)
        <5> HIDE DEF ahead
        <5> QED BY <1>6, <3>5
      <4> QED BY <1>8, <2>13, <3>6, <3>7, <4>1
    <3>9. \A j \in 1..ahead : kv[m + j - 1] = draftids[row + j]
      <4>1. SUFFICES ASSUME NEW j \in 1..ahead PROVE kv[m + j - 1] = draftids[row + j]
        OBVIOUS
      <4>2. j + 1 \in 1..Ahead /\ n + (j + 1) - 1 = m + j - 1 /\ k + (j + 1) = row + j
        BY <1>6, <2>12, <3>4, <3>5
      <4>3. kv[n + (j + 1) - 1] = draftids[k + (j + 1)]
        BY <2>11, <4>2
      <4> QED BY <4>2, <4>3
    <3>10. \A r \in row + 1..Chunk : logits[r] = Below(kv, m + r - row - 1)
      <4>1. SUFFICES ASSUME NEW r \in row + 1..Chunk PROVE logits[r] = Below(kv, m + r - row - 1)
        OBVIOUS
      <4>2. r \in k + 1..Rows /\ n + r - k - 1 = m + r - row - 1
        BY <1>6, <2>12, <3>4
      <4> QED BY <2>11, <4>2
    <3>11. AtTheTest'
      BY <3>1 DEF AtTheTest
    <3>12. Choosing'
      <4>1. Len(c') = m /\ n_past' = m - 1
        BY <1>6, <2>3, <2>5
      <4>2. Covers(kv', c', m)
        BY <2>5, <3>1, <3>8 DEF Covers
      <4>3. /\ DOMAIN kv' = 0..m + Ahead' - 1
            /\ \A j \in 1..Ahead' : kv'[m + j - 1] = draftids'[row + j]
            /\ \A r \in row + 1..Rows' : logits'[r] = Below(kv', m + r - row - 1)
        BY <1>1, <3>1, <3>4, <3>6, <3>9, <3>10
      <4>4. /\ row > 0 /\ row # 0 /\ row < Chunk /\ remaining_tokens - 1 > 0
            /\ remaining_tokens - 1 < NPredict
        BY <1>6, <3>1, <3>3
      <4>5. embd'[1] = c'[n_past' + 1]
        BY <1>8, <2>5, <2>6
      <4> HIDE DEF m, row
      <4> QED BY <1>1, <1>4, <2>6, <3>2, <3>3, <4>1, <4>2, <4>3, <4>4, <4>5 DEF Choosing
    <3> QED BY <2>7, <2>8, <2>10, <3>11, <3>12 DEF ContextInv
  <2> QED BY <2>14, <2>15
<1> QED BY <1>15, <1>16

-----------------------------------------------------------------------------
(* What follows *)

LEMMA ContextNext == ASSUME Plain, ContextInv, [Next]_vars PROVE ContextInv'
<1>1. CASE Request
  BY <1>1, RequestKeeps
<1>2. CASE EvalNothing
  BY <1>2, EvalNothingKeeps
<1>3. CASE Eval
  BY <1>3, EvalKeeps
<1>4. CASE EvalDraft
  BY <1>4, EvalDraftKeeps
<1>5. CASE EvalFails
  BY <1>5, NoEvalFails
<1>6. CASE Ingest
  BY <1>6, IngestKeeps
<1>7. CASE Choose
  BY <1>7, ChooseKeeps
<1>8. CASE StopChoosing
  BY <1>8, StopChoosingKeeps
<1>9. CASE Finish
  BY <1>9, FinishKeeps
<1>10. CASE Abort
  BY <1>10, AbortKeeps
<1>11. CASE SaveState \/ ClearState
  BY <1>11, SaveKeeps
<1>12. CASE LoadState
  BY <1>12, LoadKeeps
<1>13. CASE UNCHANGED vars
  <2>1. /\ UNCHANGED <<current_context_tokens, goal, embd, embd_inp, draftids, delayed, n_past, kv, dkv>>
        /\ UNCHANGED <<remaining_tokens, logits_sampled, early_abort, draft_ctx, stage>>
        /\ UNCHANGED <<use_smartcontext, logits, savestate>>
    BY <1>13 DEF vars, contextVars, outputVars, draftVars, turnVars, requestVars
  <2>2. Kinds'
    BY <2>1 DEF ContextInv, Kinds
  <2>3. Kept'
    BY <2>1 DEF ContextInv, Kept, Reusable
  <2>4. Begun'
    BY <2>1 DEF ContextInv, Begun
  <2>5. AtTheTest'
    BY <2>1 DEF ContextInv, AtTheTest, Covers
  <2>6. Choosing'
    BY <2>1 DEF ContextInv, Choosing, Covers, Ahead, Rows, Below
  <2> QED BY <2>2, <2>3, <2>4, <2>5, <2>6 DEF ContextInv
<1> QED BY <1>1, <1>2, <1>3, <1>4, <1>5, <1>6, <1>7, <1>8, <1>9, <1>10, <1>11, <1>12, <1>13
        DEF Next, Turn

\* The inductive invariant holds throughout.
THEOREM ContextKept == ASSUME Plain PROVE Spec => []ContextInv
<1>1. Init => ContextInv
  BY ContextInit
<1>2. ContextInv /\ [Next]_vars => ContextInv'
  BY ContextNext
<1> QED BY <1>1, <1>2, PTL DEF Spec

LEMMA SamplesFromInv == ASSUME ContextInv PROVE SamplesItsContext
<1> SUFFICES ASSUME stage = "choose", ~early_abort, embd_inp = <<>>
             PROVE  /\ StartsWith(current_context_tokens, goal)
                    /\ logits[logits_sampled + 1] = Cells(current_context_tokens)
  BY DEF SamplesItsContext
<1> DEFINE c == current_context_tokens
           n == Len(c)
           k == logits_sampled
           g == Len(goal)
<1>1. /\ c \in Seq(Nat) /\ n \in Nat /\ g \in Nat /\ k \in Nat /\ n >= g + Len(delayed)
      /\ Len(delayed) \in Nat
      /\ \A i \in 1..g : goal[i] = c[i]
  BY BeforeSample
<1>2. goal \in Seq(Nat)
  BY DEF ContextInv, Kinds
<1>3. StartsWith(c, goal)
  <2>1. g \in 0..n
    <3> HIDE DEF g, n
    <3> QED BY <1>1
  <2>2. Take(c, g) \in Seq(Nat) /\ Len(Take(c, g)) = g /\ \A i \in 1..g : Take(c, g)[i] = c[i]
    BY <1>1, <2>1, TakeIs
  <2>3. Take(c, g) = goal
    BY <1>1, <1>2, <2>2, SeqEqual
  <2> QED BY <2>1, <2>3 DEF StartsWith
<1>4. /\ draftids # <<>> => k < Chunk
      /\ draftids = <<>> => k = 0
      /\ DOMAIN kv = 0..n + Ahead - 1
      /\ \A i \in 0..n - 1 : i \in DOMAIN kv /\ kv[i] = c[i + 1]
      /\ \A row \in k + 1..Rows : logits[row] = Below(kv, n + row - k - 1)
  BY DEF ContextInv, Choosing, Covers
<1> HIDE DEF n, k
<1>5. k + 1 \in k + 1..Rows /\ n + (k + 1) - k - 1 = n
  <2>1. Chunk \in Nat
    BY ContextAssumption
  <2>3. k \in Nat /\ n \in Nat
    BY <1>1
  <2>2. k + 1 <= Rows /\ Rows \in Nat
    <3>1. CASE draftids = <<>>
      <4>1. k = 0 /\ Rows = 1
        BY <1>4, <3>1 DEF Rows
      <4> QED BY <4>1
    <3>2. CASE draftids # <<>>
      <4>1. k < Chunk /\ Rows = Chunk
        BY <1>4, <3>2 DEF Rows
      <4> QED BY <2>1, <2>3, <4>1
    <3> QED BY <3>1, <3>2
  <2> QED BY <2>2, <2>3
<1>6. logits[k + 1] = Below(kv, n)
  BY <1>4, <1>5
<1>7. {j \in DOMAIN kv : j < n} = 0..n - 1
  <2>1. \A j \in DOMAIN kv : j \in Nat
    BY DEF ContextInv, Kinds
  <2>2. \A j \in 0..n - 1 : j \in DOMAIN kv /\ j < n
    BY <1>1, <1>4
  <2>3. \A j \in Nat : j < n => j \in 0..n - 1
    BY <1>1
  <2> QED BY <2>1, <2>2, <2>3
<1>8. Below(kv, n) = [i \in 0..n - 1 |-> kv[i]]
  BY <1>7 DEF Below
<1>9. Cells(c) = [i \in 0..n - 1 |-> c[i + 1]]
  BY DEF Cells, n
<1>10. Below(kv, n) = Cells(c)
  BY <1>4, <1>8, <1>9
<1> QED BY <1>3, <1>6, <1>10 DEF k

\* Every token is sampled from logits computed over exactly the prompt and the
\* answer so far: whatever an earlier request left in the cache and a later one
\* reuses, erases, drafts, rewinds or restores.
THEOREM SamplesWhatItBelieves == ASSUME Plain PROVE Spec => []SamplesItsContext
BY ContextKept, SamplesFromInv, PTL

\* Between requests the cache holds the context: a fast-forward may rely on it.
THEOREM CacheMatchesContext == ASSUME Plain PROVE Spec => []CacheMatches
<1>1. ContextInv => CacheMatches
  BY DEF ContextInv, Kept, Reusable, CacheMatches
<1> QED BY <1>1, ContextKept, PTL

\* No batch misses the end of a cache, neither the model's nor the draft model's.
THEOREM NothingMisfits == ASSUME Plain PROVE Spec => []EvalFits
<1>1. ContextInv => EvalFits
  BY EvalSucceeds DEF EvalFits
<1> QED BY <1>1, ContextKept, PTL

-----------------------------------------------------------------------------
(* The window. What GenContext keeps whatever happens: evaluations that     *)
(* fail, aborts at any time, states restored under a draft model, smart    *)
(* context, blank prompts. Positions, cells and tokens stay within the     *)
(* window.                                                                 *)

\* A cache with its cells in the window.
InWindow(cache) == IsCache(cache) /\ DOMAIN cache \subseteq 0..NCtx - 1

\* Types. All sampled tokens are ones the model may produce.
WindowTypes ==
    /\ current_context_tokens \in Seq(Nat) /\ goal \in Seq(Nat) /\ smartcontext \in Seq(Nat)
    /\ embd \in Seq(Nat) /\ embd_inp \in Seq(Nat)
    /\ draftids \in Seq(Sampled) /\ delayed \in Seq(Sampled) /\ shown \in Seq(Sampled)
    /\ n_past \in 0..NCtx /\ remaining_tokens \in 0..NPredict /\ logits_sampled \in 0..Chunk
    /\ early_abort \in BOOLEAN /\ draft_ctx \in BOOLEAN /\ use_smartcontext \in BOOLEAN
    /\ stage \in {"idle", "loop", "choose"}
    /\ InWindow(kv) /\ InWindow(dkv)
    /\ \A row \in DOMAIN logits : IsCache(logits[row])
    /\ bans \subseteq (0..NCtx) \X Sampled
    /\ savestate # NoState =>
         /\ savestate.tokens \in Seq(Nat) /\ InWindow(savestate.cells)
         /\ \A row \in DOMAIN savestate.rows : IsCache(savestate.rows[row])

\* In a request all fits the window, the delayed tokens are the last of the
\* context but never all of it and the prompt, and as long as the prompt is
\* not taken in nothing was sampled.
WindowRequest ==
    stage # "idle" =>
        /\ Len(current_context_tokens) + Len(embd_inp) + remaining_tokens <= NCtx
        /\ Len(delayed) <= Len(current_context_tokens)
        /\ Len(current_context_tokens) + Len(embd_inp) > Len(delayed)
        /\ \A i \in 1..Len(delayed) :
             current_context_tokens[Len(current_context_tokens) - Len(delayed) + i] = delayed[i]
        /\ embd_inp # <<>> => remaining_tokens = NPredict /\ delayed = <<>>

\* No cell lies at or behind the position that is evaluated next.
NothingBehind ==
    /\ \A i \in DOMAIN kv : i < n_past
    /\ \A i \in DOMAIN dkv : i < n_past

WindowTest ==
    stage = "loop" =>
        /\ n_past + Len(embd) = Len(current_context_tokens)
        /\ ~early_abort => NothingBehind
        /\ embd = <<>> /\ ~early_abort => draftids = <<>>

WindowChoice ==
    stage = "choose" =>
        /\ logits_sampled < Chunk /\ Len(draftids) <= Chunk
        /\ logits_sampled = 0 => embd = <<>> /\ n_past = Len(current_context_tokens)
        /\ logits_sampled > 0 =>
             /\ Len(embd) = 1 /\ n_past = Len(current_context_tokens) - 1
             /\ remaining_tokens < NPredict /\ draftids # <<>>
        /\ IF draftids = <<>> THEN NothingBehind ELSE remaining_tokens < NPredict
        /\ remaining_tokens > 0

WindowInv == WindowTypes /\ WindowRequest /\ WindowTest /\ WindowChoice

-----------------------------------------------------------------------------
(* Caches *)

LEMMA BelowCache ==
    ASSUME NEW cache, InWindow(cache), NEW n
    PROVE  InWindow(Below(cache, n)) /\ \A i \in DOMAIN Below(cache, n) : i < n
<1> DEFINE low == Below(cache, n)
<1>1. low = [i \in DOMAIN low |-> low[i]]
  BY DEF Below
<1>2. DOMAIN low = {j \in DOMAIN cache : j < n} /\ \A i \in DOMAIN low : low[i] = cache[i]
  BY BelowIs
<1> HIDE DEF low
<1> QED BY <1>1, <1>2 DEF InWindow, IsCache, low

LEMMA ExciseCache ==
    ASSUME NEW cache, InWindow(cache), NEW from \in Nat, NEW to \in Nat, from <= to
    PROVE  InWindow(Excise(cache, from, to))
<1> DEFINE left == {i \in DOMAIN cache : i < from}
           moved == {i - (to - from) : i \in {j \in DOMAIN cache : j >= to}}
           value(i) == IF i < from THEN cache[i] ELSE cache[i + (to - from)]
           after == Excise(cache, from, to)
<1>1. after = [i \in left \cup moved |-> value(i)]
  BY DEF Excise
<1>2. /\ after = [i \in DOMAIN after |-> after[i]]
      /\ DOMAIN after = left \cup moved
      /\ \A i \in left \cup moved : after[i] = value(i)
  BY <1>1
<1>3. /\ DOMAIN cache \subseteq 0..NCtx - 1 /\ \A i \in DOMAIN cache : cache[i] \in Nat
      /\ NCtx \in Nat
  BY ContextAssumption DEF InWindow, IsCache, Token
<1>4. ASSUME NEW i \in left PROVE i \in 0..NCtx - 1 /\ value(i) \in Nat
  BY <1>3
<1>5. ASSUME NEW i \in moved PROVE i \in 0..NCtx - 1 /\ value(i) \in Nat
  <2>1. PICK j \in DOMAIN cache : j >= to /\ i = j - (to - from)
    OBVIOUS
  <2>2. j \in 0..NCtx - 1 /\ cache[j] \in Nat
    BY <1>3
  <2>3. i + (to - from) = j /\ ~(i < from) /\ i \in 0..NCtx - 1
    BY <1>3, <2>1, <2>2
  <2>4. value(i) = cache[j]
    BY <2>3
  <2> QED BY <2>2, <2>3, <2>4
<1> HIDE DEF left, moved, value, after
<1>6. DOMAIN after \subseteq 0..NCtx - 1
  BY <1>2, <1>4, <1>5
<1>7. \A i \in DOMAIN after : after[i] \in Nat
  BY <1>2, <1>4, <1>5
<1>8. DOMAIN after \subseteq 0..NCtx
  BY <1>3, <1>6
<1> QED BY <1>2, <1>6, <1>7, <1>8 DEF InWindow, IsCache, Token, after

\* A batch stored behind all cells, within the window.
LEMMA StoreCache ==
    ASSUME NEW cache, InWindow(cache), NEW n \in Nat, \A i \in DOMAIN cache : i < n,
           NEW batch \in Seq(Nat), n + Len(batch) <= NCtx
    PROVE  InWindow(Store(cache, n, batch)) /\ \A i \in DOMAIN Store(cache, n, batch) : i < n + Len(batch)
<1> DEFINE m == Len(batch)
           stored == Store(cache, n, batch)
           value(i) == IF i < n THEN cache[i] ELSE batch[i - n + 1]
           cells == DOMAIN cache \cup n..n + m - 1
<1>1. stored = [i \in cells |-> value(i)]
  BY DEF Store
<1>2. /\ stored = [i \in DOMAIN stored |-> stored[i]]
      /\ DOMAIN stored = cells
      /\ \A i \in cells : stored[i] = value(i)
  BY <1>1
<1>3. /\ DOMAIN cache \subseteq 0..NCtx - 1 /\ \A i \in DOMAIN cache : cache[i] \in Nat
      /\ NCtx \in Nat /\ m \in Nat
  BY ContextAssumption, LenProperties DEF InWindow, IsCache, Token
<1>4. n + m <= NCtx
  OBVIOUS
<1>5. \A j \in 1..m : batch[j] \in Nat
  BY ElementOfSeq
<1> HIDE DEF m
<1>6. ASSUME NEW i \in DOMAIN cache PROVE i \in 0..NCtx - 1 /\ value(i) \in Nat /\ i < n + m
  <2>1. i < n /\ i \in 0..NCtx - 1 /\ cache[i] \in Nat
    BY <1>3
  <2> QED BY <1>3, <2>1
<1>7. ASSUME NEW i \in n..n + m - 1 PROVE i \in 0..NCtx - 1 /\ value(i) \in Nat /\ i < n + m
  <2>1. ~(i < n) /\ i - n + 1 \in 1..m /\ i \in 0..NCtx - 1 /\ i < n + m
    BY <1>3, <1>4
  <2>2. value(i) = batch[i - n + 1]
    BY <2>1
  <2> HIDE DEF value
  <2> QED BY <1>5, <2>1, <2>2
<1>8. \A i \in cells : i \in 0..NCtx - 1 /\ value(i) \in Nat /\ i < n + m
  BY <1>6, <1>7
<1> HIDE DEF value, cells, stored
<1>9. DOMAIN stored \subseteq 0..NCtx - 1 /\ \A i \in DOMAIN stored : stored[i] \in Nat /\ i < n + m
  BY <1>2, <1>8
<1>10. DOMAIN stored \subseteq 0..NCtx
  BY <1>3, <1>9
<1> QED BY <1>2, <1>9, <1>10 DEF InWindow, IsCache, Token, stored, m

-----------------------------------------------------------------------------
(* What a prompt is taken in as *)

LEMMA TrimmedFits ==
    ASSUME NEW prompt \in Seq(Nat), prompt # <<>>
    PROVE  /\ Trimmed(prompt) \in Seq(Nat) /\ Len(Trimmed(prompt)) \in Nat
           /\ Len(Trimmed(prompt)) >= 1 /\ Len(Trimmed(prompt)) + NPredict <= NCtx
<1>1. Len(prompt) \in Nat /\ Len(prompt) >= 1 /\ NCtx \in Nat /\ NPredict \in Nat /\ NPredict <= NCtx - 1
      /\ Bos \in Nat
  <2>1. Len(prompt) \in Nat \ {0}
    BY EmptySeq
  <2> QED BY <2>1, ContextAssumption
<1>2. CASE Len(prompt) + NPredict <= NCtx
  BY <1>1, <1>2 DEF Trimmed
<1>3. CASE ~(Len(prompt) + NPredict <= NCtx)
  <2> DEFINE cut == Len(prompt) + NPredict - NCtx + 1
             rest == Drop(prompt, cut)
  <2>1. cut \in 0..Len(prompt) /\ Len(prompt) - cut = NCtx - NPredict - 1
    BY <1>1, <1>3
  <2> HIDE DEF cut
  <2>2. rest \in Seq(Nat) /\ Len(rest) = Len(prompt) - cut
    BY <2>1, DropIs
  <2>3. <<Bos>> \in Seq(Nat) /\ Len(<<Bos>>) = 1
    BY <1>1
  <2> HIDE DEF rest
  <2>4. <<Bos>> \o rest \in Seq(Nat) /\ Len(<<Bos>> \o rest) = Len(<<Bos>>) + Len(rest)
    BY <2>2, <2>3, ConcatIs
  <2>5. Trimmed(prompt) = <<Bos>> \o rest
    BY <1>3 DEF Trimmed, rest, cut
  <2> DEFINE whole == <<Bos>> \o rest
  <2>6. Len(whole) = 1 + (NCtx - NPredict - 1)
    BY <2>1, <2>2, <2>3, <2>4
  <2> HIDE DEF whole
  <2>7. /\ 1 + (NCtx - NPredict - 1) + NPredict <= NCtx
        /\ 1 + (NCtx - NPredict - 1) \in Nat /\ 1 + (NCtx - NPredict - 1) >= 1
    BY <1>1
  <2> QED BY <2>4, <2>5, <2>6, <2>7 DEF whole
<1> QED BY <1>2, <1>3

LEMMA FastForwardSize ==
    ASSUME NEW context \in Seq(Nat), NEW prompt \in Seq(Nat)
    PROVE  FastForward(context, prompt) \in 0..Len(context) /\ FastForward(context, prompt) \in 0..Len(prompt)
<1> DEFINE a == Agreement(context, prompt)
           shorter == Smaller(Len(context), Len(prompt))
           bound == Larger(1, shorter - 1)
<1>1. Len(context) \in Nat /\ Len(prompt) \in Nat
  BY LenProperties
<1>2. a \in Nat /\ a <= Len(context) /\ a <= Len(prompt)
  BY AgreementIs
<1>3. shorter \in Int
  BY <1>1, SmallerLarger
<1>4. bound \in Int /\ bound >= 1
  BY <1>3, SmallerLarger
<1>5. Smaller(a, bound) \in {a, bound} /\ Smaller(a, bound) <= a
  BY <1>2, <1>4, SmallerLarger
<1>6. FastForward(context, prompt) = Smaller(a, bound)
  BY DEF FastForward
<1> HIDE DEF a, bound
<1> QED BY <1>1, <1>2, <1>4, <1>5, <1>6

\* What smart context leaves of a prompt: its end, from where the remembered
\* half occurs in it.
LEMMA FromMarkerIs ==
    ASSUME NEW marker \in Seq(Nat), NEW rest \in Seq(Nat), StillUsable(marker, rest)
    PROVE  /\ FromMarker(marker, rest) \in Seq(Nat)
           /\ Len(FromMarker(marker, rest)) \in 1..Len(rest)
<1> DEFINE shared == LongestCommonSubseq(marker, rest)
           places == Places(rest, shared)
           at == Least(places)
<1>1. Len(marker) \in Nat /\ Len(rest) \in Nat
  BY LenProperties
<1>2. PICK from \in 0..Len(marker), n \in 0..Len(marker) :
        from + n <= Len(marker) /\ shared = Take(Drop(marker, from), n)
  BY SharedIsAPiece
<1>3. places # {}
  BY SharedIsAPiece
<1>4. Len(shared) > SCTokThreshold
  BY DEF StillUsable
<1> HIDE DEF shared
<1>5. Drop(marker, from) \in Seq(Nat) /\ Len(Drop(marker, from)) = Len(marker) - from
  BY <1>2, DropIs
<1>6. n \in 0..Len(Drop(marker, from))
  BY <1>1, <1>2, <1>5
<1>7. shared \in Seq(Nat) /\ Len(shared) = n
  BY <1>2, <1>5, <1>6, TakeIs
<1>8. n >= 1
  <2>1. SCTokThreshold \in Nat
    <3>1. NCtx \in Nat /\ Common \in Nat
      BY ContextAssumption
    <3>2. NCtx \div 20 \in Nat
      BY <3>1
    <3> QED BY <3>1, <3>2 DEF SCTokThreshold
  <2> QED BY <1>2, <1>4, <1>7, <2>1
<1>9. places \in SUBSET Nat /\ \A i \in places : i + Len(shared) <= Len(rest)
  BY <1>7, PlacesAre
<1>10. at \in places
  BY <1>3, <1>9, LeastIs
<1>11. at \in Nat /\ at + n <= Len(rest)
  BY <1>7, <1>9, <1>10
<1>12. FromMarker(marker, rest) = Drop(rest, at)
  BY DEF FromMarker, shared
<1> HIDE DEF at
<1>13. at \in 0..Len(rest) /\ Len(rest) - at \in 1..Len(rest)
  BY <1>1, <1>2, <1>8, <1>11
<1>14. Drop(rest, at) \in Seq(Nat) /\ Len(Drop(rest, at)) = Len(rest) - at
  BY <1>13, DropIs
<1> QED BY <1>12, <1>13, <1>14

\* What counts as reused beyond that lies in the old context and in the prompt.
LEMMA ReusedSize ==
    ASSUME NEW old \in Seq(Nat), NEW past \in 0..Len(old), NEW trimmed \in Seq(Nat), trimmed # <<>>,
           NEW n \in Reused(old, past, trimmed)
    PROVE  n \in Nat /\ past + n <= Len(old) /\ n <= Len(trimmed)
<1> DEFINE after == Drop(old, past)
           l == Len(trimmed)
           b == Len(after)
<1>1. after \in Seq(Nat) /\ b = Len(old) - past /\ Len(old) \in Nat /\ past \in Nat /\ past <= Len(old)
  BY DropIs, LenProperties
<1>2. l \in Nat /\ l >= 1
  <2>1. l \in Nat \ {0}
    BY EmptySeq
  <2> QED BY <2>1
<1> HIDE DEF after, b, l
<1>3. b \in Nat
  BY <1>1
<1>4. SUFFICES n \in Nat /\ n <= b /\ n <= l
  <2> DEFINE o == Len(old)
  <2>1. b = o - past /\ o \in Nat /\ past \in Nat
    BY <1>1
  <2> HIDE DEF o
  <2>2. n \in Nat /\ n <= b => past + n <= o
    BY <2>1
  <2> QED BY <2>2 DEF o, l
<1>5. ASSUME NEW t \in Seq(Nat), Len(t) <= l, NEW bound \in Int, n = Smaller(Agreement(after, t), Larger(1, bound))
      PROVE  n \in Nat /\ n <= b /\ n <= l
  <2> DEFINE a == Agreement(after, t)
             top == Larger(1, bound)
  <2>1. a \in Nat /\ a <= b /\ a <= Len(t)
    BY <1>1, AgreementIs DEF b
  <2>2. top \in Int /\ top >= 1
    BY SmallerLarger
  <2>3. n \in {a, top} /\ n <= a
    BY <1>5, <2>1, <2>2, SmallerLarger
  <2> HIDE DEF a, top
  <2>4. Len(t) \in Nat /\ Len(t) <= l
    BY <1>5, LenProperties
  <2> QED BY <1>2, <1>3, <2>1, <2>2, <2>3, <2>4
<1>6. CASE past < Len(old) /\ after[1] = trimmed[1]
  <2>1. n = Smaller(Agreement(after, trimmed), Larger(1, l - 1))
    BY <1>6 DEF Reused, after, l
  <2>2. l - 1 \in Int /\ Len(trimmed) <= l
    BY <1>2 DEF l
  <2> QED BY <1>5, <2>1, <2>2
<1>7. CASE ~(past < Len(old) /\ after[1] = trimmed[1]) /\ past < Len(trimmed)
  <2> DEFINE t == Drop(trimmed, past)
  <2>1. n = Smaller(Agreement(after, t), Larger(1, l - 1 - past))
    BY <1>7 DEF Reused, after, l
  <2>2. past \in 0..Len(trimmed)
    BY <1>1, <1>2, <1>7 DEF l
  <2>3. t \in Seq(Nat) /\ Len(t) = l - past
    BY <2>2, DropIs DEF l
  <2> HIDE DEF t
  <2>4. Len(t) <= l /\ l - 1 - past \in Int
    BY <1>1, <1>2, <2>3
  <2> QED BY <1>5, <2>1, <2>3, <2>4
<1>8. CASE ~(past < Len(old) /\ after[1] = trimmed[1]) /\ ~(past < Len(trimmed))
  <2>1. n \in {0, Smaller(1, b)}
    BY <1>8 DEF Reused, after, b
  <2>2. Smaller(1, b) \in {1, b} /\ Smaller(1, b) <= 1 /\ Smaller(1, b) <= b
    BY <1>3, SmallerLarger
  <2> QED BY <1>2, <1>3, <2>1, <2>2
<1> QED BY <1>6, <1>7, <1>8

\* However a prompt is taken in, it is not longer for it, and what is past is
\* past in the old context.
LEMMA TakenInSize ==
    ASSUME NEW old \in Seq(Nat), NEW prompt \in Seq(Nat), smartcontext \in Seq(Nat),
           NEW taken \in TakenIn(old, prompt)
    PROVE  /\ taken.past \in 0..Len(old) /\ taken.rest \in Seq(Nat)
           /\ taken.past + Len(taken.rest) <= Len(prompt)
           /\ Len(prompt) >= 1 => taken.past + Len(taken.rest) >= 1
           /\ taken.marker \in Seq(Nat) /\ taken.goal \in Seq(Nat)
<1> DEFINE past == FastForward(old, prompt)
           rest == Drop(prompt, past)
           half == Drop(rest, Len(rest) \div 2)
           front == Take(prompt, past)
           trimmed == FromMarker(smartcontext, rest)
           smart == use_smartcontext /\ ~Shift
           p == Len(prompt)
           r == Len(rest)
<1>1. past \in 0..Len(old) /\ past \in 0..p /\ p \in Nat /\ Len(old) \in Nat
  BY FastForwardSize, LenProperties
<1> HIDE DEF past
<1>2. rest \in Seq(Nat) /\ r = p - past
  BY <1>1, DropIs
<1>3. front \in Seq(Nat)
  BY <1>1, TakeIs
<1> HIDE DEF rest, front, p, r
<1>4. r \in Nat /\ past \in Nat /\ past + r = p
  BY <1>1, <1>2
<1>5. CASE smart /\ StillUsable(smartcontext, rest)
  <2>1. PICK n \in Reused(old, past, trimmed) :
          taken = [[past |-> past, rest |-> trimmed, marker |-> smartcontext, goal |-> front \o trimmed]
                     EXCEPT !.past = past + n, !.rest = Drop(trimmed, n)]
    BY <1>5 DEF TakenIn, past, rest, front
  <2>2. trimmed \in Seq(Nat) /\ Len(trimmed) \in 1..r
    BY <1>2, <1>5, FromMarkerIs DEF r
  <2> HIDE DEF trimmed
  <2>3. trimmed # <<>>
    BY <1>4, <2>2, EmptySeq
  <2>4. n \in Nat /\ past + n <= Len(old) /\ n <= Len(trimmed)
    BY <1>1, <2>2, <2>3, ReusedSize
  <2>5. n \in 0..Len(trimmed)
    BY <1>4, <2>2, <2>4
  <2>6. Drop(trimmed, n) \in Seq(Nat) /\ Len(Drop(trimmed, n)) = Len(trimmed) - n
    BY <2>2, <2>5, DropIs
  <2>7. front \o trimmed \in Seq(Nat)
    BY <1>3, <2>2, ConcatProperties
  <2>8. taken.past = past + n /\ taken.rest = Drop(trimmed, n) /\ taken.marker = smartcontext
        /\ taken.goal = front \o trimmed
    BY <2>1
  <2>9. /\ past + n \in 0..Len(old)
        /\ (past + n) + (Len(trimmed) - n) <= p /\ (past + n) + (Len(trimmed) - n) >= 1
    <3> DEFINE t == Len(trimmed)
               o == Len(old)
    <3>1. t \in 1..r /\ n \in Nat /\ past + n <= o /\ o \in Nat /\ past \in Nat /\ past + r = p /\ p \in Nat /\ r \in Nat
      BY <1>1, <1>4, <2>2, <2>4
    <3> HIDE DEF t, o
    <3>2. past + n \in 0..o /\ (past + n) + (t - n) <= p /\ (past + n) + (t - n) >= 1
      BY <3>1
    <3> QED BY <3>2 DEF t, o
  <2> QED BY <2>6, <2>7, <2>8, <2>9 DEF p
<1>6. ASSUME NEW from \in Seq(Nat), NEW marker \in Seq(Nat), Len(from) <= r,
             r >= 1 => Len(from) >= 1,
             taken = [past |-> past, rest |-> from, marker |-> marker, goal |-> front \o from]
      PROVE  /\ taken.past \in 0..Len(old) /\ taken.rest \in Seq(Nat)
             /\ taken.past + Len(taken.rest) <= Len(prompt)
             /\ Len(prompt) >= 1 => taken.past + Len(taken.rest) >= 1
             /\ taken.marker \in Seq(Nat) /\ taken.goal \in Seq(Nat)
  <2>1. front \o from \in Seq(Nat)
    BY <1>3, ConcatProperties
  <2>2. /\ taken.past = past /\ taken.rest = from /\ taken.marker = marker
        /\ taken.goal = front \o from
    BY <1>6
  <2>3. past + Len(from) <= p /\ (p >= 1 => past + Len(from) >= 1)
    <3> DEFINE f == Len(from)
    <3>1. f \in Nat /\ f <= r /\ (r >= 1 => f >= 1)
      BY <1>6, LenProperties
    <3> HIDE DEF f
    <3>2. past + f <= p /\ (p >= 1 => past + f >= 1)
      BY <1>1, <1>4, <3>1
    <3> QED BY <3>2 DEF f
  <2> QED BY <1>1, <2>1, <2>2, <2>3 DEF p
<1>7. half \in Seq(Nat) /\ Len(half) <= r /\ (r >= 1 => Len(half) >= 1)
  <2>1. Len(rest) \div 2 \in 0..Len(rest)
    <3>1. r \div 2 \in 0..r
      BY <1>4
    <3> QED BY <3>1 DEF r
  <2>2. half \in Seq(Nat) /\ Len(half) = Len(rest) - Len(rest) \div 2
    BY <1>2, <2>1, DropIs
  <2> HIDE DEF half
  <2>3. r - r \div 2 <= r /\ (r >= 1 => r - r \div 2 >= 1)
    BY <1>4
  <2> QED BY <2>2, <2>3 DEF r
<1> HIDE DEF half
<1>8. CASE ~(smart /\ StillUsable(smartcontext, rest))
  <2>1. \/ taken = [past |-> past, rest |-> half, marker |-> half, goal |-> front \o half]
        \/ taken = [past |-> past, rest |-> rest, marker |-> <<>>, goal |-> front \o rest]
    BY <1>8 DEF TakenIn, past, rest, half, front
  <2>2. <<>> \in Seq(Nat) /\ Len(rest) <= r /\ (r >= 1 => Len(rest) >= 1)
    BY <1>4, EmptySeq DEF r
  <2> QED BY <1>2, <1>6, <1>7, <2>1, <2>2
<1> QED BY <1>5, <1>8

-----------------------------------------------------------------------------
(* Between requests *)

LEMMA WindowIdle == ASSUME stage' = "idle", WindowTypes' PROVE WindowInv'
BY DEF WindowInv, WindowRequest, WindowTest, WindowChoice

LEMMA WindowInit == ASSUME Init PROVE WindowInv
<1>1. /\ Drafts \subseteq BOOLEAN /\ NPredict \in Nat /\ NCtx \in Nat /\ Chunk \in Nat
  BY ContextAssumption
<1>2. /\ current_context_tokens = <<>> /\ goal = <<>> /\ embd = <<>> /\ embd_inp = <<>>
      /\ smartcontext = <<>> /\ shown = <<>> /\ logits = <<>> /\ bans = {}
      /\ draftids = <<>> /\ delayed = <<>> /\ n_past = 0 /\ remaining_tokens = 0
      /\ logits_sampled = 0 /\ early_abort = FALSE /\ stage = "idle" /\ savestate = NoState
      /\ draft_ctx \in Drafts /\ use_smartcontext \in BOOLEAN
      /\ kv = Cells(<<>>) /\ dkv = Cells(<<>>)
  BY DEF Init
<1>3. InWindow(Cells(<<>>))
  <2> DEFINE none == Cells(<<>>)
  <2>1. Len(<<>>) = 0
    BY EmptySeq
  <2>2. none = [i \in 0..Len(<<>>) - 1 |-> <<>>[i + 1]]
    BY DEF Cells
  <2>3. none = [i \in DOMAIN none |-> none[i]] /\ DOMAIN none = 0..Len(<<>>) - 1
    BY <2>2
  <2> HIDE DEF none
  <2>4. DOMAIN none = {}
    BY <2>1, <2>3
  <2> QED BY <2>3, <2>4 DEF InWindow, IsCache, none
<1>4. <<>> \in Seq(Nat) /\ <<>> \in Seq(Sampled) /\ DOMAIN <<>> = {}
  BY EmptySeq
<1>5. 0 \in 0..NCtx /\ 0 \in 0..NPredict /\ 0 \in 0..Chunk /\ draft_ctx \in BOOLEAN
  BY <1>1, <1>2
<1>6. WindowTypes
  BY <1>2, <1>3, <1>4, <1>5 DEF WindowTypes
<1> QED BY <1>2, <1>6 DEF WindowInv, WindowRequest, WindowTest, WindowChoice

LEMMA SaveInWindow == ASSUME WindowInv, SaveState \/ ClearState PROVE WindowInv'
<1>1. /\ stage = "idle"
      /\ savestate' \in {NoState, [tokens |-> current_context_tokens, cells |-> kv, rows |-> logits]}
      /\ UNCHANGED <<contextVars, outputVars, draftVars, turnVars, logits, early_abort, requestVars>>
  BY DEF SaveState, ClearState
<1>2. /\ UNCHANGED <<current_context_tokens, goal, smartcontext, embd, embd_inp, draftids, delayed, shown>>
      /\ UNCHANGED <<n_past, remaining_tokens, logits_sampled, early_abort, draft_ctx, use_smartcontext>>
      /\ UNCHANGED <<stage, kv, dkv, logits, bans>>
  BY <1>1 DEF contextVars, outputVars, draftVars, turnVars, requestVars
<1>3. WindowTypes
  BY DEF WindowInv
<1>4. savestate' # NoState =>
        /\ savestate'.tokens \in Seq(Nat) /\ InWindow(savestate'.cells)
        /\ \A row \in DOMAIN savestate'.rows : IsCache(savestate'.rows[row])
  <2>1. CASE savestate' = NoState
    BY <2>1
  <2>2. CASE savestate' = [tokens |-> current_context_tokens, cells |-> kv, rows |-> logits]
    <3>1. savestate'.tokens = current_context_tokens /\ savestate'.cells = kv /\ savestate'.rows = logits
      BY <2>2
    <3>2. current_context_tokens \in Seq(Nat) /\ InWindow(kv)
          /\ \A row \in DOMAIN logits : IsCache(logits[row])
      BY <1>3 DEF WindowTypes
    <3> QED BY <3>1, <3>2
  <2> QED BY <1>1, <2>1, <2>2
<1>5. WindowTypes'
  BY <1>2, <1>3, <1>4 DEF WindowTypes
<1> QED BY <1>1, <1>2, <1>5, WindowIdle

LEMMA LoadInWindow == ASSUME WindowInv, LoadState PROVE WindowInv'
<1>1. /\ stage = "idle" /\ savestate # NoState
      /\ current_context_tokens' = savestate.tokens /\ kv' = savestate.cells /\ logits' = savestate.rows
      /\ UNCHANGED <<goal, smartcontext, embd, embd_inp, draftids, delayed, shown>>
      /\ UNCHANGED <<n_past, remaining_tokens, logits_sampled, early_abort, draft_ctx, use_smartcontext>>
      /\ UNCHANGED <<stage, dkv, savestate, bans>>
  BY DEF LoadState, outputVars, draftVars, turnVars, requestVars
<1>2. WindowTypes
  BY DEF WindowInv
<1>3. /\ savestate.tokens \in Seq(Nat) /\ InWindow(savestate.cells)
      /\ \A row \in DOMAIN savestate.rows : IsCache(savestate.rows[row])
  BY <1>1, <1>2 DEF WindowTypes
<1>4. WindowTypes'
  BY <1>1, <1>2, <1>3 DEF WindowTypes
<1> QED BY <1>1, <1>4, WindowIdle

-----------------------------------------------------------------------------
(* Steps that leave the context alone *)

LEMMA AbortInWindow == ASSUME WindowInv, Abort PROVE WindowInv'
<1>1. /\ early_abort' = TRUE
      /\ UNCHANGED <<current_context_tokens, goal, smartcontext, embd, embd_inp, draftids, delayed, shown>>
      /\ UNCHANGED <<n_past, remaining_tokens, logits_sampled, draft_ctx, use_smartcontext>>
      /\ UNCHANGED <<stage, kv, dkv, savestate, logits, bans>>
  BY DEF Abort, contextVars, outputVars, draftVars, turnVars, requestVars
<1>2. WindowTypes'
  BY <1>1 DEF WindowInv, WindowTypes
<1>3. WindowRequest'
  BY <1>1 DEF WindowInv, WindowRequest
<1>4. WindowTest'
  BY <1>1 DEF WindowInv, WindowTest
<1>5. WindowChoice'
  BY <1>1 DEF WindowInv, WindowChoice, NothingBehind
<1> QED BY <1>2, <1>3, <1>4, <1>5 DEF WindowInv

LEMMA FinishInWindow == ASSUME WindowInv, Finish PROVE WindowInv'
<1>1. /\ stage' = "idle" /\ delayed' = <<>> /\ shown' = shown \o delayed
      /\ UNCHANGED <<current_context_tokens, goal, smartcontext, embd, embd_inp, draftids>>
      /\ UNCHANGED <<n_past, remaining_tokens, logits_sampled, early_abort, draft_ctx, use_smartcontext>>
      /\ UNCHANGED <<kv, dkv, savestate, logits, bans>>
  BY DEF Finish, contextVars, draftVars, requestVars
<1>2. shown' \in Seq(Sampled) /\ delayed' \in Seq(Sampled)
  BY <1>1, EmptySeq, ConcatProperties DEF WindowInv, WindowTypes
<1>3. WindowTypes'
  BY <1>1, <1>2 DEF WindowInv, WindowTypes
<1> QED BY <1>1, <1>3, WindowIdle

LEMMA EvalNothingInWindow == ASSUME WindowInv, EvalNothing PROVE WindowInv'
<1>1. /\ stage = "loop" /\ remaining_tokens > 0 /\ ~early_abort /\ embd = <<>>
      /\ stage' = "choose" /\ logits_sampled' = 0
      /\ UNCHANGED <<current_context_tokens, goal, smartcontext, embd, embd_inp, draftids, delayed, shown>>
      /\ UNCHANGED <<n_past, remaining_tokens, early_abort, draft_ctx, use_smartcontext>>
      /\ UNCHANGED <<kv, dkv, savestate, logits, bans>>
  BY DEF EvalNothing, Looping, contextVars, outputVars, requestVars
<1>2. Chunk \in Nat \ {0} /\ 0 \in 0..Chunk
  BY ContextAssumption
<1>3. WindowTypes'
  BY <1>1, <1>2 DEF WindowInv, WindowTypes
<1>4. WindowRequest'
  BY <1>1 DEF WindowInv, WindowRequest
<1>5. WindowTest'
  BY <1>1 DEF WindowTest
<1>6. draftids = <<>> /\ NothingBehind /\ n_past + Len(embd) = Len(current_context_tokens)
  BY <1>1 DEF WindowInv, WindowTest
<1>7. n_past = Len(current_context_tokens)
  <2>1. n_past \in Int /\ Len(embd) = 0
    BY <1>1, EmptySeq DEF WindowInv, WindowTypes
  <2> QED BY <1>6, <2>1
<1>8. WindowChoice'
  <2>1. Len(draftids') = 0 /\ ~(0 > 0) /\ 0 < Chunk /\ 0 <= Chunk
    BY <1>1, <1>2, <1>6, EmptySeq
  <2>2. NothingBehind'
    BY <1>1, <1>6 DEF NothingBehind
  <2> QED BY <1>1, <1>6, <1>7, <2>1, <2>2 DEF WindowChoice
<1> QED BY <1>3, <1>4, <1>5, <1>8 DEF WindowInv

LEMMA StopChoosingInWindow == ASSUME WindowInv, StopChoosing PROVE WindowInv'
<1>1. /\ stage = "choose" /\ early_abort /\ stage' = "loop"
      /\ \/ UNCHANGED <<kv, dkv>>
         \/ kv' = Below(kv, n_past) /\ dkv' = Below(dkv, n_past)
      /\ UNCHANGED <<current_context_tokens, goal, smartcontext, embd, embd_inp, draftids, delayed, shown>>
      /\ UNCHANGED <<n_past, remaining_tokens, logits_sampled, early_abort, draft_ctx, use_smartcontext>>
      /\ UNCHANGED <<savestate, logits, bans>>
  BY DEF StopChoosing, outputVars, draftVars, requestVars
<1>2. InWindow(kv) /\ InWindow(dkv)
  BY DEF WindowInv, WindowTypes
<1>3. InWindow(kv)' /\ InWindow(dkv)'
  BY <1>1, <1>2, BelowCache
<1>4. WindowTypes'
  BY <1>1, <1>3 DEF WindowInv, WindowTypes
<1>5. WindowRequest'
  BY <1>1 DEF WindowInv, WindowRequest
<1> DEFINE n == Len(current_context_tokens)
           m == Len(embd)
<1>6. n_past + m = n
  <2>1. /\ logits_sampled = 0 => m = 0 /\ n_past = n
        /\ logits_sampled > 0 => m = 1 /\ n_past = n - 1
    BY <1>1, EmptySeq DEF WindowInv, WindowChoice
  <2>2. n \in Nat /\ logits_sampled \in 0..Chunk /\ Chunk \in Nat
    BY ContextAssumption, LenProperties DEF WindowInv, WindowTypes
  <2> HIDE DEF n, m
  <2>3. logits_sampled = 0 \/ logits_sampled > 0
    BY <2>2
  <2> QED BY <2>1, <2>2, <2>3
<1>7. WindowTest'
  BY <1>1, <1>6 DEF WindowTest
<1>8. WindowChoice'
  BY <1>1 DEF WindowChoice
<1> QED BY <1>4, <1>5, <1>7, <1>8 DEF WindowInv

-----------------------------------------------------------------------------
(* Evaluation *)

\* What holds when there is something to evaluate.
LEMMA BeforeBatch ==
    ASSUME WindowInv, Looping, embd # <<>>
    PROVE  /\ stage = "loop" /\ ~early_abort /\ remaining_tokens > 0
           /\ embd \in Seq(Nat) /\ Len(embd) \in Nat /\ n_past \in Nat
           /\ remaining_tokens \in Nat /\ NCtx \in Nat /\ NPredict \in Nat /\ Chunk \in Nat \ {0}
           /\ Len(current_context_tokens) \in Nat
           /\ n_past + Len(embd) = Len(current_context_tokens)
           /\ Len(current_context_tokens) + remaining_tokens <= NCtx
           /\ InWindow(kv) /\ InWindow(dkv)
           /\ (\A i \in DOMAIN kv : i < n_past) /\ (\A i \in DOMAIN dkv : i < n_past)
<1>1. stage = "loop" /\ ~early_abort /\ remaining_tokens > 0
  BY DEF Looping
<1>2. NCtx \in Nat /\ NPredict \in Nat /\ Chunk \in Nat \ {0}
  BY ContextAssumption
<1>3. WindowTypes
  BY DEF WindowInv
<1>4. /\ embd \in Seq(Nat) /\ n_past \in 0..NCtx /\ remaining_tokens \in 0..NPredict
      /\ InWindow(kv) /\ InWindow(dkv) /\ embd_inp \in Seq(Nat) /\ current_context_tokens \in Seq(Nat)
  BY <1>3 DEF WindowTypes
<1>5. /\ n_past + Len(embd) = Len(current_context_tokens) /\ NothingBehind
      /\ Len(current_context_tokens) + Len(embd_inp) + remaining_tokens <= NCtx
  BY <1>1 DEF WindowInv, WindowTest, WindowRequest
<1>6. Len(embd) \in Nat /\ Len(embd_inp) \in Nat /\ Len(current_context_tokens) \in Nat
  BY <1>4, LenProperties
<1>7. Len(current_context_tokens) + remaining_tokens <= NCtx
  <2> DEFINE n == Len(current_context_tokens)
             l == Len(embd_inp)
  <2>1. n \in Nat /\ l \in Nat /\ n + l + remaining_tokens <= NCtx /\ remaining_tokens \in 0..NPredict
    BY <1>4, <1>5, <1>6
  <2> HIDE DEF n, l
  <2>2. n + remaining_tokens <= NCtx
    BY <1>2, <2>1
  <2> QED BY <2>2 DEF n
<1>8. n_past \in Nat /\ remaining_tokens \in Nat
  BY <1>2, <1>4
<1> QED BY <1>1, <1>2, <1>4, <1>5, <1>6, <1>7, <1>8 DEF NothingBehind

LEMMA EvalInWindow == ASSUME WindowInv, Eval PROVE WindowInv'
<1>1. /\ Looping /\ embd # <<>> /\ kv' = Store(kv, n_past, embd)
      /\ dkv' = Store(dkv, n_past, embd) \/ dkv' = dkv
      /\ logits' = <<kv'>> /\ draftids' = <<>> /\ logits_sampled' = 0
      /\ n_past' = n_past + Len(embd) /\ embd' = <<>> /\ stage' = "choose"
      /\ UNCHANGED <<current_context_tokens, goal, smartcontext, embd_inp, delayed, shown, bans>>
      /\ UNCHANGED <<remaining_tokens, early_abort, draft_ctx, use_smartcontext, savestate>>
  BY DEF Eval, outputVars, requestVars
<1> DEFINE n == Len(current_context_tokens)
           m == Len(embd)
           p == n_past
<1>2. /\ n \in Nat /\ m \in Nat /\ p \in Nat /\ p + m = n /\ NCtx \in Nat
      /\ remaining_tokens \in Nat /\ remaining_tokens > 0 /\ n + remaining_tokens <= NCtx
      /\ Chunk \in Nat \ {0}
  BY <1>1, BeforeBatch
<1>3. /\ embd \in Seq(Nat) /\ InWindow(kv) /\ InWindow(dkv)
      /\ (\A i \in DOMAIN kv : i < p) /\ (\A i \in DOMAIN dkv : i < p)
  BY <1>1, BeforeBatch
<1>4. p + m <= NCtx
  <2> HIDE DEF n, m, p
  <2> QED BY <1>2
<1>5. InWindow(kv') /\ \A i \in DOMAIN kv' : i < p + m
  <2>1. InWindow(Store(kv, p, embd)) /\ \A i \in DOMAIN Store(kv, p, embd) : i < p + Len(embd)
    BY <1>2, <1>3, <1>4, StoreCache
  <2> QED BY <1>1, <2>1
<1>6. InWindow(dkv') /\ \A i \in DOMAIN dkv' : i < p + m
  <2>1. InWindow(Store(dkv, p, embd)) /\ \A i \in DOMAIN Store(dkv, p, embd) : i < p + Len(embd)
    BY <1>2, <1>3, <1>4, StoreCache
  <2>2. \A i \in DOMAIN dkv : i < p + m
    <3>1. DOMAIN dkv \subseteq Int
      BY <1>2, <1>3 DEF InWindow
    <3>2. \A i \in Int : i < p => i < p + m
      <4> HIDE DEF p, m
      <4> QED BY <1>2
    <3> QED BY <1>3, <3>1, <3>2
  <2> QED BY <1>1, <1>3, <2>1, <2>2
<1>7. \A row \in DOMAIN logits' : IsCache(logits'[row])
  <2>1. DOMAIN logits' = {1} /\ logits'[1] = kv'
    BY <1>1
  <2> QED BY <1>5, <2>1 DEF InWindow
<1>8. n_past' = n /\ n_past' \in 0..NCtx /\ 0 \in 0..Chunk
  <2>1. n \in 0..NCtx /\ 0 \in 0..Chunk
    <3> HIDE DEF n, m, p
    <3> QED BY <1>2
  <2> QED BY <1>1, <1>2, <2>1
<1>9. WindowTypes'
  BY <1>1, <1>5, <1>6, <1>7, <1>8, EmptySeq DEF WindowInv, WindowTypes
<1>10. WindowRequest'
  BY <1>1 DEF WindowInv, WindowRequest, Looping
<1>11. WindowTest'
  BY <1>1 DEF WindowTest
<1>12. WindowChoice'
  <2>1. NothingBehind'
    BY <1>1, <1>5, <1>6 DEF NothingBehind
  <2>2. Len(draftids') = 0 /\ ~(0 > 0) /\ 0 < Chunk /\ 0 <= Chunk
    BY <1>1, <1>2, EmptySeq
  <2> QED BY <1>1, <1>2, <1>8, <2>1, <2>2 DEF WindowChoice
<1> QED BY <1>9, <1>10, <1>11, <1>12 DEF WindowInv

\* A pending token and k drafted ones.
LEMMA DraftBatch ==
    ASSUME NEW one \in Seq(Nat), Len(one) = 1, NEW k \in Nat, NEW ids \in Seq(Nat), Len(ids) = k
    PROVE  one \o ids \in Seq(Nat) /\ Len(one \o ids) = k + 1
<1>1. one \o ids \in Seq(Nat) /\ Len(one \o ids) = Len(one) + Len(ids)
  BY ConcatIs
<1> QED BY <1>1

\* Where a draft is made, it fits the window.
LEMMA DraftFits ==
    ASSUME WindowInv, Looping, Speculates,
           NEW batch \in Seq(Nat), Len(batch) <= Chunk
    PROVE  /\ InWindow(Store(kv, n_past, batch)) /\ InWindow(Store(dkv, n_past, batch))
           /\ n_past + 1 = Len(current_context_tokens)
<1>1. Len(embd) = 1 /\ remaining_tokens > Chunk
  BY DEF Speculates
<1>2. embd # <<>>
  BY <1>1, EmptySeq
<1> DEFINE n == Len(current_context_tokens)
           p == n_past
<1>3. /\ n \in Nat /\ p \in Nat /\ p + 1 = n /\ NCtx \in Nat /\ Chunk \in Nat
      /\ remaining_tokens \in Nat /\ n + remaining_tokens <= NCtx
  BY <1>1, <1>2, BeforeBatch
<1>4. /\ InWindow(kv) /\ InWindow(dkv)
      /\ (\A i \in DOMAIN kv : i < p) /\ (\A i \in DOMAIN dkv : i < p)
  BY <1>2, BeforeBatch
<1>5. p + Len(batch) <= NCtx
  <2> DEFINE l == Len(batch)
  <2>1. l \in Nat /\ l <= Chunk
    BY LenProperties
  <2> HIDE DEF n, p, l
  <2>2. p + l <= NCtx
    BY <1>1, <1>3, <2>1
  <2> QED BY <2>2 DEF l
<1> QED BY <1>3, <1>4, <1>5, StoreCache

LEMMA EvalDraftInWindow == ASSUME WindowInv, EvalDraft PROVE WindowInv'
<1>1. /\ Looping /\ Speculates /\ Len(embd) = 1 /\ remaining_tokens < NPredict
      /\ logits' = [row \in 1..Chunk |-> Below(kv', n_past + row)]
      /\ logits_sampled' = 0 /\ n_past' = n_past + 1 /\ embd' = <<>> /\ stage' = "choose"
      /\ UNCHANGED <<current_context_tokens, goal, smartcontext, embd_inp, delayed, shown, bans>>
      /\ UNCHANGED <<remaining_tokens, early_abort, draft_ctx, use_smartcontext, savestate>>
  BY DEF EvalDraft, Speculates, outputVars, requestVars
<1>2. PICK ids \in [1..Chunk -> Sampled] :
        /\ draftids' = ids
        /\ kv' = Store(kv, n_past, embd \o Take(ids, Chunk - 1))
        /\ dkv' = Store(dkv, n_past, embd \o Take(ids, Chunk - 1))
  BY DEF EvalDraft
<1>3. embd # <<>>
  BY <1>1, EmptySeq
<1>4. /\ embd \in Seq(Nat) /\ Chunk \in Nat \ {0} /\ NCtx \in Nat /\ n_past \in Nat
      /\ Len(current_context_tokens) \in Nat /\ remaining_tokens \in Nat /\ remaining_tokens > 0
      /\ Len(current_context_tokens) + remaining_tokens <= NCtx
  BY <1>1, <1>3, BeforeBatch
<1>5. ids \in Seq(Sampled) /\ ids \in Seq(Nat) /\ Len(ids) = Chunk
  <2>1. Chunk \in Nat /\ ids \in [1..Chunk -> Nat]
    BY ContextAssumption
  <2> QED BY <2>1
<1> DEFINE front == Take(ids, Chunk - 1)
           batch == embd \o front
<1>6. front \in Seq(Nat) /\ Len(front) = Chunk - 1
  <2>1. Chunk - 1 \in 0..Len(ids)
    BY <1>4, <1>5
  <2> QED BY <1>5, <2>1, TakeIs
<1> HIDE DEF front
<1>7. batch \in Seq(Nat) /\ Len(batch) = Chunk
  <2>1. Chunk - 1 \in Nat /\ Chunk - 1 + 1 = Chunk
    BY <1>4
  <2> QED BY <1>1, <1>4, <1>6, <2>1, DraftBatch
<1> HIDE DEF batch
<1>8. InWindow(kv') /\ InWindow(dkv') /\ n_past' = Len(current_context_tokens)
  <2>1. kv' = Store(kv, n_past, batch) /\ dkv' = Store(dkv, n_past, batch)
    BY <1>2 DEF batch, front
  <2> QED BY <1>1, <1>7, <2>1, DraftFits
<1>9. \A row \in DOMAIN logits' : IsCache(logits'[row])
  <2>1. ASSUME NEW row \in 1..Chunk PROVE IsCache(logits'[row])
    <3>1. logits'[row] = Below(kv', n_past + row)
      BY <1>1
    <3>2. InWindow(Below(kv', n_past + row))
      BY <1>8, BelowCache
    <3> QED BY <3>1, <3>2 DEF InWindow
  <2> QED BY <1>1, <2>1
<1>10. n_past' \in 0..NCtx /\ 0 \in 0..Chunk
  <2> DEFINE n == Len(current_context_tokens)
  <2>1. n \in Nat /\ n + remaining_tokens <= NCtx
    BY <1>4
  <2> HIDE DEF n
  <2>2. n \in 0..NCtx /\ 0 \in 0..Chunk
    BY <1>4, <2>1
  <2> QED BY <1>8, <2>2 DEF n
<1>11. WindowTypes'
  BY <1>1, <1>2, <1>5, <1>8, <1>9, <1>10, EmptySeq DEF WindowInv, WindowTypes
<1>12. WindowRequest'
  BY <1>1 DEF WindowInv, WindowRequest, Looping
<1>13. WindowTest'
  BY <1>1 DEF WindowTest
<1>14. WindowChoice'
  <2>1. draftids' # <<>> /\ Len(draftids') <= Chunk
    BY <1>2, <1>4, <1>5, EmptySeq
  <2>2. ~(0 > 0) /\ 0 < Chunk
    BY <1>4
  <2> QED BY <1>1, <1>4, <1>8, <2>1, <2>2 DEF WindowChoice
<1> QED BY <1>11, <1>12, <1>13, <1>14 DEF WindowInv

\* What was evaluated before the failure stays, and that fits the window too.
LEMMA EvalFailsInWindow == ASSUME WindowInv, EvalFails PROVE WindowInv'
<1>1. /\ Looping /\ embd # <<>> /\ stage' = "idle"
      /\ UNCHANGED <<current_context_tokens, goal, smartcontext, embd, embd_inp, draftids, delayed, shown>>
      /\ UNCHANGED <<n_past, remaining_tokens, logits_sampled, early_abort, draft_ctx, use_smartcontext>>
      /\ UNCHANGED <<savestate, bans>>
  BY DEF EvalFails, outputVars, draftVars, requestVars
<1>2. \/ kv' = kv /\ logits' = logits
      \/ kv' = Store(kv, n_past, embd) /\ logits' = <<kv'>>
  BY DEF EvalFails, ModelFails, DraftModelFails
<1>3. \/ dkv' = dkv
      \/ Speculates /\ \E n \in 0..Chunk - 1 : DraftOnly(n)
  <2>1. Chunk - 1 \in 0..Chunk - 1 /\ \A n \in 0..Chunk - 2 : n \in 0..Chunk - 1
    BY ContextAssumption
  <2> QED BY <2>1 DEF EvalFails, ModelFails, DraftModelFails
<1>4. /\ embd \in Seq(Nat) /\ Chunk \in Nat \ {0} /\ n_past \in Nat /\ NCtx \in Nat
      /\ InWindow(kv) /\ InWindow(dkv) /\ \A i \in DOMAIN kv : i < n_past
  BY <1>1, BeforeBatch
<1>5. InWindow(kv')
  <2> DEFINE n == Len(current_context_tokens)
  <2>1. n \in Nat /\ remaining_tokens \in Nat /\ n + remaining_tokens <= NCtx
        /\ n_past + Len(embd) = n
    BY <1>1, BeforeBatch
  <2> HIDE DEF n
  <2>2. n <= NCtx
    BY <1>4, <2>1
  <2>3. InWindow(Store(kv, n_past, embd))
    BY <1>4, <2>1, <2>2, StoreCache
  <2> QED BY <1>2, <1>4, <2>3
<1>6. InWindow(dkv')
  <2>1. ASSUME Speculates, NEW n \in 0..Chunk - 1, NEW ids \in [1..n -> Sampled]
        PROVE  InWindow(Store(dkv, n_past, embd \o ids))
    <3>1. Len(embd) = 1
      BY <2>1 DEF Speculates
    <3>2. n \in Nat /\ n + 1 <= Chunk
      BY <1>4
    <3>3. ids \in Seq(Nat) /\ Len(ids) = n
      <4>1. ids \in [1..n -> Nat]
        BY ContextAssumption
      <4> QED BY <3>2, <4>1
    <3>4. embd \o ids \in Seq(Nat) /\ Len(embd \o ids) <= Chunk
      BY <1>4, <3>1, <3>2, <3>3, DraftBatch
    <3> QED BY <1>1, <2>1, <3>4, DraftFits
  <2> QED BY <1>3, <1>4, <2>1 DEF DraftOnly
<1>7. \A row \in DOMAIN logits' : IsCache(logits'[row])
  <2>1. CASE logits' = logits
    BY <2>1 DEF WindowInv, WindowTypes
  <2>2. CASE logits' = <<kv'>>
    <3>1. DOMAIN logits' = {1} /\ logits'[1] = kv'
      BY <2>2
    <3> QED BY <1>5, <3>1 DEF InWindow
  <2> QED BY <1>2, <2>1, <2>2
<1>8. WindowTypes'
  BY <1>1, <1>5, <1>6, <1>7 DEF WindowInv, WindowTypes
<1> QED BY <1>1, <1>8, WindowIdle

-----------------------------------------------------------------------------
(* Taking in the prompt *)

LEMMA IngestInWindow == ASSUME WindowInv, Ingest PROVE WindowInv'
<1> DEFINE c == current_context_tokens
           n == Len(c)
           left == Len(embd_inp)
           m == Smaller(NBatch, left)
           taken == Take(embd_inp, m)
           rest == Drop(embd_inp, m)
<1>1. /\ stage = "choose" /\ ~early_abort /\ embd_inp # <<>> /\ stage' = "loop"
      /\ embd' = taken /\ embd_inp' = rest /\ c' = c \o taken
      /\ UNCHANGED <<kv, dkv, n_past, goal, smartcontext, draftids, delayed, shown, bans>>
      /\ UNCHANGED <<remaining_tokens, logits_sampled, early_abort, draft_ctx, use_smartcontext>>
      /\ UNCHANGED <<savestate, logits>>
  BY DEF Ingest, outputVars, draftVars, requestVars
<1>2. WindowTypes
  BY DEF WindowInv
<1>3. c \in Seq(Nat) /\ embd_inp \in Seq(Nat) /\ n \in Nat /\ left \in Nat
  BY <1>2, LenProperties DEF WindowTypes
<1>4. remaining_tokens = NPredict /\ delayed = <<>> /\ n + left + remaining_tokens <= NCtx
  BY <1>1 DEF WindowInv, WindowRequest
<1>5. NPredict \in Nat /\ NCtx \in Nat /\ NBatch \in Nat \ {0}
  BY ContextAssumption
<1>6. m \in 0..left /\ m >= 1
  <2>1. left >= 1
    <3>1. left # 0
      BY <1>1, <1>3, EmptySeq
    <3> QED BY <1>3, <3>1
  <2> HIDE DEF left
  <2>2. Smaller(NBatch, left) \in {NBatch, left} /\ Smaller(NBatch, left) <= left
    BY <1>3, <1>5, SmallerLarger
  <2> QED BY <1>3, <1>5, <2>1, <2>2
<1>7. taken \in Seq(Nat) /\ Len(taken) = m /\ rest \in Seq(Nat) /\ Len(rest) = left - m
  BY <1>3, <1>6, TakeIs, DropIs
<1> HIDE DEF m, taken, rest
<1>8. c \o taken \in Seq(Nat) /\ Len(c \o taken) = n + m
  BY <1>3, <1>7, ConcatIs
<1>9. ~(remaining_tokens < NPredict)
  BY <1>4, <1>5
<1>10. NothingBehind /\ n_past = n
  <2>1. logits_sampled \in 0..Chunk /\ Chunk \in Nat
    BY <1>2, ContextAssumption DEF WindowTypes
  <2>2. ~(logits_sampled > 0)
    BY <1>1, <1>9 DEF WindowInv, WindowChoice
  <2>3. logits_sampled = 0
    BY <2>1, <2>2
  <2> QED BY <1>1, <1>9, <2>3 DEF WindowInv, WindowChoice
<1>11. WindowTypes'
  BY <1>1, <1>2, <1>7, <1>8 DEF WindowTypes
<1>12. WindowRequest'
  <2>1. Len(c') + Len(embd_inp') + remaining_tokens' <= NCtx
    <3> HIDE DEF n, left
    <3>1. Len(c') = n + m /\ Len(embd_inp') = left - m /\ remaining_tokens' = remaining_tokens
      BY <1>1, <1>7, <1>8
    <3>2. (n + m) + (left - m) + remaining_tokens <= NCtx
      BY <1>3, <1>4, <1>5, <1>6
    <3> QED BY <3>1, <3>2
  <2>2. Len(delayed') = 0 /\ 0 <= n + m /\ Len(c') = n + m
    <3>1. 0 <= n + m
      <4> HIDE DEF n, left
      <4> QED BY <1>3, <1>6
    <3> QED BY <1>1, <1>4, <1>8, <3>1, EmptySeq
  <2>3. \A i \in 1..Len(delayed') : FALSE
    BY <2>2
  <2>4. Len(c') + Len(embd_inp') > Len(delayed')
    <3> HIDE DEF n, left
    <3>1. Len(c') = n + m /\ Len(embd_inp') = left - m
      BY <1>1, <1>7, <1>8
    <3>2. (n + m) + (left - m) > 0
      BY <1>3, <1>6
    <3> QED BY <2>2, <3>1, <3>2
  <2> QED BY <1>1, <1>4, <2>1, <2>2, <2>3, <2>4 DEF WindowRequest
<1>13. WindowTest'
  <2>1. n_past' + Len(embd') = Len(c')
    BY <1>1, <1>7, <1>8, <1>10
  <2>2. embd' # <<>>
    BY <1>1, <1>6, <1>7, EmptySeq
  <2>3. NothingBehind'
    BY <1>1, <1>10 DEF NothingBehind
  <2> QED BY <2>1, <2>2, <2>3 DEF WindowTest
<1>14. WindowChoice'
  BY <1>1 DEF WindowChoice
<1> QED BY <1>11, <1>12, <1>13, <1>14 DEF WindowInv

-----------------------------------------------------------------------------
(* A new request *)

LEMMA RequestInWindow == ASSUME WindowInv, Request PROVE WindowInv'
<1> DEFINE c == current_context_tokens
           erasure(sent) == IF Shift /\ ~IsBlank(sent)
                            THEN Erasure(c, Trimmed(sent))
                            ELSE [from |-> 0, to |-> 0]
           old(sent) == EraseTokens(c, erasure(sent).from, erasure(sent).to)
           blank(sent) == [past |-> 0, rest |-> Trimmed(sent), marker |-> smartcontext,
                           goal |-> Trimmed(sent)]
<1>1. /\ embd' = <<>> /\ remaining_tokens' = NPredict /\ early_abort' = FALSE
      /\ draftids' = <<>> /\ logits_sampled' = 0 /\ delayed' = <<>> /\ shown' = <<>>
      /\ bans' = {} /\ stage' = "loop"
      /\ UNCHANGED <<logits, savestate, draft_ctx, use_smartcontext>>
  BY DEF Request
<1>2. WindowTypes
  BY DEF WindowInv
<1>3. /\ c \in Seq(Nat) /\ Len(c) \in Nat /\ smartcontext \in Seq(Nat)
      /\ InWindow(kv) /\ InWindow(dkv) /\ NPredict \in Nat /\ NCtx \in Nat /\ Chunk \in Nat
  BY <1>2, ContextAssumption, LenProperties DEF WindowTypes
<1>4. PICK sent \in Prompts :
        \E taken \in IF IsBlank(sent) THEN {blank(sent)} ELSE TakenIn(old(sent), Trimmed(sent)) :
          /\ goal' = taken.goal /\ n_past' = taken.past
          /\ c' = Take(old(sent), taken.past) /\ embd_inp' = taken.rest
          /\ smartcontext' = taken.marker
          /\ kv' = Below(Excise(kv, erasure(sent).from, erasure(sent).to), taken.past)
          /\ dkv' = Below(Excise(dkv, erasure(sent).from, erasure(sent).to), taken.past)
  BY DEF Request
<1> DEFINE prompt == Trimmed(sent)
           from == erasure(sent).from
           to == erasure(sent).to
           kept == old(sent)
<1>5. sent \in Seq(Nat) /\ sent # <<>>
  BY ContextAssumption
<1>6. /\ prompt \in Seq(Nat) /\ Len(prompt) \in Nat /\ Len(prompt) >= 1
      /\ Len(prompt) + NPredict <= NCtx
  BY <1>5, TrimmedFits
<1>7. from \in Nat /\ to \in Nat /\ Piece(c, prompt, from, to)
  <2>1. CASE Shift /\ ~IsBlank(sent)
    <3>1. erasure(sent) = Erasure(c, prompt)
      BY <2>1
    <3> HIDE DEF erasure, prompt
    <3>2. LET e == Erasure(c, prompt)
          IN  e.from \in Nat /\ e.to \in Nat /\ Piece(c, prompt, e.from, e.to)
      BY <1>3, <1>6, ErasureIs
    <3> QED BY <3>1, <3>2
  <2>2. CASE ~(Shift /\ ~IsBlank(sent))
    <3>1. from = 0 /\ to = 0
      BY <2>2
    <3> HIDE DEF from, to
    <3> QED BY <3>1 DEF Piece
  <2> QED BY <2>1, <2>2
<1>8. PICK taken \in IF IsBlank(sent) THEN {blank(sent)} ELSE TakenIn(kept, prompt) :
        /\ goal' = taken.goal /\ n_past' = taken.past
        /\ c' = Take(kept, taken.past) /\ embd_inp' = taken.rest
        /\ smartcontext' = taken.marker
        /\ kv' = Below(Excise(kv, from, to), taken.past)
        /\ dkv' = Below(Excise(dkv, from, to), taken.past)
  BY <1>4
<1>9. kept = EraseTokens(c, from, to)
  OBVIOUS
<1>10. prompt = Trimmed(sent)
  OBVIOUS
<1> HIDE DEF erasure, old, kept, prompt, from, to
<1>11. kept \in Seq(Nat) /\ Len(kept) \in Nat
  <2> DEFINE erased == EraseTokens(c, from, to)
  <2>1. erased \in Seq(Nat)
    BY <1>3, <1>7, EraseTokensIs
  <2> HIDE DEF erased
  <2> QED BY <1>9, <2>1, LenProperties DEF erased
<1>12. /\ taken.past \in 0..Len(kept) /\ taken.rest \in Seq(Nat)
       /\ taken.past + Len(taken.rest) <= Len(prompt)
       /\ taken.past + Len(taken.rest) >= 1
       /\ taken.marker \in Seq(Nat) /\ taken.goal \in Seq(Nat)
  <2>1. CASE IsBlank(sent)
    <3>1. taken.past = 0 /\ taken.rest = prompt /\ taken.marker = smartcontext /\ taken.goal = prompt
      BY <1>8, <1>10, <2>1
    <3>2. 0 + Len(prompt) <= Len(prompt) /\ 0 + Len(prompt) >= 1 /\ 0 \in 0..Len(kept)
      BY <1>6, <1>11
    <3> QED BY <1>3, <1>6, <3>1, <3>2
  <2>2. CASE ~IsBlank(sent)
    <3>1. taken \in TakenIn(kept, prompt)
      BY <1>8, <2>2
    <3> HIDE DEF blank
    <3> QED BY <1>3, <1>6, <1>11, <3>1, TakenInSize
  <2> QED BY <2>1, <2>2
<1> HIDE DEF blank
<1> DEFINE past == taken.past
           l == Len(taken.rest)
<1>13. Take(kept, past) \in Seq(Nat) /\ Len(Take(kept, past)) = past
  BY <1>11, <1>12, TakeIs
<1>14. past \in Nat /\ past <= NCtx /\ past + l + NPredict <= NCtx /\ past + l > 0
  <2> DEFINE p == Len(prompt)
             e == Len(kept)
  <2>1. past \in 0..e /\ l \in Nat /\ past + l <= p /\ past + l >= 1 /\ p \in Nat /\ e \in Nat /\ p + NPredict <= NCtx
    BY <1>6, <1>11, <1>12, LenProperties
  <2> HIDE DEF p, e, past, l
  <2> QED BY <1>3, <2>1
<1>15. n_past' = past /\ Len(c') = past /\ Len(embd_inp') = l /\ Len(<<>>) = 0
  BY <1>8, <1>13, EmptySeq
<1>16. /\ InWindow(kv') /\ InWindow(dkv')
       /\ (\A i \in DOMAIN kv' : i < past) /\ (\A i \in DOMAIN dkv' : i < past)
  <2>1. from <= to
    BY <1>7 DEF Piece
  <2>2. InWindow(Excise(kv, from, to)) /\ InWindow(Excise(dkv, from, to))
    BY <1>3, <1>7, <2>1, ExciseCache
  <2>3. kv' = Below(Excise(kv, from, to), past) /\ dkv' = Below(Excise(dkv, from, to), past)
    BY <1>8
  <2> HIDE DEF past
  <2> QED BY <2>2, <2>3, BelowCache
<1> HIDE DEF past, l
<1>17. WindowTypes'
  <2>1. n_past' \in 0..NCtx /\ remaining_tokens' \in 0..NPredict /\ logits_sampled' \in 0..Chunk
    BY <1>1, <1>3, <1>14, <1>15
  <2>2. /\ c' \in Seq(Nat) /\ goal' \in Seq(Nat) /\ smartcontext' \in Seq(Nat) /\ embd_inp' \in Seq(Nat)
    BY <1>8, <1>12, <1>13 DEF past
  <2>3. <<>> \in Seq(Nat) /\ <<>> \in Seq(Sampled)
    BY EmptySeq
  <2> QED BY <1>1, <1>2, <1>16, <2>1, <2>2, <2>3 DEF WindowTypes
<1>18. WindowRequest'
  <2>1. Len(c') + Len(embd_inp') + remaining_tokens' <= NCtx
    BY <1>1, <1>14, <1>15
  <2>2. Len(delayed') = 0 /\ 0 <= Len(c')
    BY <1>1, <1>14, <1>15
  <2>3. \A i \in 1..Len(delayed') : FALSE
    BY <2>2
  <2>4. Len(c') + Len(embd_inp') > Len(delayed')
    BY <1>14, <1>15, <2>2
  <2> QED BY <1>1, <2>1, <2>2, <2>3, <2>4 DEF WindowRequest
<1>19. WindowTest'
  <2>1. n_past' + Len(embd') = Len(c')
    BY <1>1, <1>14, <1>15
  <2>2. NothingBehind'
    BY <1>15, <1>16 DEF NothingBehind
  <2> QED BY <1>1, <2>1, <2>2 DEF WindowTest
<1>20. WindowChoice'
  BY <1>1 DEF WindowChoice
<1> QED BY <1>17, <1>18, <1>19, <1>20 DEF WindowInv

-----------------------------------------------------------------------------
(* Sampling *)

LEMMA SampledTokens ==
    ASSUME NEW s \in Seq(Sampled)
    PROVE  s \in Seq(Nat) /\ Len(s) \in Nat /\ \A i \in 1..Len(s) : s[i] \in Sampled
<1>1. s \in [1..Len(s) -> Sampled] /\ Len(s) \in Nat
  BY LenProperties
<1>2. s \in [1..Len(s) -> Nat]
  BY <1>1, ContextAssumption
<1> QED BY <1>1, <1>2

\* The queue is the end of the context.
EndsWith(context, queue) ==
    /\ Len(queue) <= Len(context)
    /\ \A i \in 1..Len(queue) : context[Len(context) - Len(queue) + i] = queue[i]

\* What holds when a token is sampled.
LEMMA BeforeToken ==
    ASSUME WindowInv, stage = "choose", ~early_abort, embd_inp = <<>>
    PROVE  /\ current_context_tokens \in Seq(Nat) /\ Len(current_context_tokens) \in Nat
           /\ delayed \in Seq(Sampled) /\ Len(delayed) \in Nat
           /\ EndsWith(current_context_tokens, delayed)
           /\ Len(delayed) < Len(current_context_tokens)
           /\ logits_sampled \in Nat /\ logits_sampled < Chunk /\ Chunk \in Nat
           /\ Here = Len(current_context_tokens)
           /\ remaining_tokens \in 1..NPredict /\ NPredict \in Nat /\ NCtx \in Nat
           /\ Len(current_context_tokens) + remaining_tokens <= NCtx
           /\ Len(draftids) <= Chunk /\ Len(draftids) \in Nat
           /\ InWindow(kv) /\ InWindow(dkv)
           /\ draftids = <<>> => NothingBehind /\ n_past = Len(current_context_tokens)
           /\ draftids # <<>> => remaining_tokens < NPredict
<1>1. WindowTypes
  BY DEF WindowInv
<1>2. /\ current_context_tokens \in Seq(Nat) /\ Len(current_context_tokens) \in Nat
      /\ delayed \in Seq(Sampled) /\ Len(delayed) \in Nat /\ Len(draftids) \in Nat
      /\ n_past \in 0..NCtx /\ NCtx \in Nat /\ NPredict \in Nat /\ Chunk \in Nat
      /\ logits_sampled \in 0..Chunk /\ remaining_tokens \in 0..NPredict
      /\ InWindow(kv) /\ InWindow(dkv)
  BY <1>1, ContextAssumption, LenProperties DEF WindowTypes
<1>3. EndsWith(current_context_tokens, delayed)
  BY DEF WindowInv, WindowRequest, EndsWith
<1>4. /\ logits_sampled < Chunk /\ Len(draftids) <= Chunk /\ remaining_tokens > 0
      /\ logits_sampled = 0 => n_past = Len(current_context_tokens)
      /\ logits_sampled > 0 => n_past = Len(current_context_tokens) - 1 /\ draftids # <<>>
      /\ draftids = <<>> => NothingBehind
      /\ draftids # <<>> => remaining_tokens < NPredict
  BY DEF WindowInv, WindowChoice
<1> DEFINE n == Len(current_context_tokens)
<1>5. logits_sampled = 0 \/ logits_sampled > 0
  BY <1>2
<1>6. Here = n
  <2>1. n \in Nat /\ n_past \in Int
    BY <1>2
  <2>2. CASE logits_sampled = 0
    BY <1>4, <2>2 DEF Here
  <2>3. CASE logits_sampled > 0
    <3>1. n_past = n - 1 /\ Here = n_past + 1
      BY <1>4, <2>3 DEF Here
    <3> HIDE DEF n
    <3> QED BY <2>1, <3>1
  <2> QED BY <1>5, <2>2, <2>3
<1>7. n + remaining_tokens <= NCtx
  <2>1. n + Len(embd_inp) + remaining_tokens <= NCtx
    BY DEF WindowInv, WindowRequest
  <2>2. Len(embd_inp) = 0
    BY EmptySeq
  <2> HIDE DEF n
  <2>3. n \in Nat /\ remaining_tokens \in Nat
    BY <1>2 DEF n
  <2> QED BY <2>1, <2>2, <2>3
<1>8. logits_sampled \in Nat /\ remaining_tokens \in 1..NPredict
  BY <1>2, <1>4
<1>9. draftids = <<>> => n_past = n
  BY <1>4, <1>5
<1>10. Len(delayed) < n
  <2>1. n + Len(embd_inp) > Len(delayed)
    BY DEF WindowInv, WindowRequest
  <2>2. Len(embd_inp) = 0
    BY EmptySeq
  <2> HIDE DEF n
  <2> QED BY <1>2, <2>1, <2>2 DEF n
<1> QED BY <1>2, <1>3, <1>4, <1>6, <1>7, <1>8, <1>9, <1>10

LEMMA ChooseInWindow == ASSUME WindowInv, Choose PROVE WindowInv'
<1>1. /\ stage = "choose" /\ ~early_abort /\ embd_inp = <<>> /\ embd_inp' = <<>>
      /\ UNCHANGED <<draftids, logits, savestate, goal, smartcontext, draft_ctx, use_smartcontext>>
  BY DEF Choose, requestVars
<1>2. PICK token \in Allowed : Sample(token)
  BY DEF Choose
<1>3. token \in Sampled /\ token \in Nat
  BY <1>2, ContextAssumption DEF Allowed
<1> DEFINE c == current_context_tokens
           n == Len(c)
           k == logits_sampled
           context == Append(c, token)
           queue == Append(delayed, token)
           out == Released(queue)
           back == RewindAmount(Drop(queue, out))
           rewound == back > 0 /\ Len(context) > back
           past == IF rewound THEN Larger(0, Here - back) ELSE Here
           row == k + 1
           more == /\ row < Len(draftids) /\ draftids[row] = token /\ ~rewound
                   /\ remaining_tokens > 1 /\ token # Eos
           kept == IF rewound THEN Take(context, Len(context) - back) ELSE context
           waits == IF rewound THEN SubSeq(queue, out + 1, Len(queue) - back) ELSE Drop(queue, out)
           d == Len(delayed)
           q == Len(queue)
<1>4. /\ c' = kept /\ embd' = <<c'[Len(c')]>> /\ n_past' = past /\ delayed' = waits
      /\ shown' = shown \o Take(queue, out)
      /\ bans' = IF rewound THEN bans \cup {<<past + 1, context[Len(context) - back + 1]>>} ELSE bans
      /\ remaining_tokens' = remaining_tokens - 1 /\ early_abort' = (token = Eos)
      /\ logits_sampled' = row /\ stage' = IF more THEN "choose" ELSE "loop"
      /\ IF rewound \/ (draftids # <<>> /\ ~more)
         THEN kv' = Below(kv, past) /\ dkv' = Below(dkv, past)
         ELSE kv' = kv /\ dkv' = dkv
  BY <1>2 DEF Sample
<1>5. /\ c \in Seq(Nat) /\ delayed \in Seq(Sampled) /\ EndsWith(c, delayed)
      /\ n \in Nat /\ d \in Nat /\ d < n /\ k \in Nat /\ k < Chunk /\ Chunk \in Nat /\ Here = n
      /\ remaining_tokens \in 1..NPredict /\ NPredict \in Nat /\ NCtx \in Nat
      /\ n + remaining_tokens <= NCtx /\ Len(draftids) <= Chunk /\ Len(draftids) \in Nat
      /\ InWindow(kv) /\ InWindow(dkv)
      /\ draftids = <<>> => NothingBehind /\ n_past = n
      /\ draftids # <<>> => remaining_tokens < NPredict
  BY <1>1, BeforeToken
<1>6. /\ context \in Seq(Nat) /\ Len(context) = n + 1
      /\ \A i \in 1..n : context[i] = c[i]
      /\ context[n + 1] = token
  BY <1>3, <1>5, AppendIs
<1>7. /\ queue \in Seq(Sampled) /\ q = d + 1
      /\ \A i \in 1..d : queue[i] = delayed[i]
      /\ queue[d + 1] = token
  BY <1>3, <1>5, AppendIs
<1> HIDE DEF context, queue
<1>8. d <= n /\ \A i \in 1..q : context[n + 1 - q + i] = queue[i]
  <2>1. d <= n /\ \A i \in 1..d : c[n - d + i] = delayed[i]
    BY <1>5 DEF EndsWith
  <2>2. ASSUME NEW i \in 1..q PROVE context[n + 1 - q + i] = queue[i]
    <3> HIDE DEF n, d, q
    <3>1. CASE i = d + 1
      <4>1. n + 1 - q + i = n + 1
        BY <1>5, <1>7, <3>1
      <4> QED BY <1>6, <1>7, <3>1, <4>1
    <3>2. CASE i # d + 1
      <4>1. i \in 1..d /\ n + 1 - q + i = n - d + i /\ n - d + i \in 1..n
        BY <1>5, <1>7, <2>1, <3>2
      <4> QED BY <1>6, <1>7, <2>1, <4>1
    <3> QED BY <3>1, <3>2
  <2> QED BY <2>1, <2>2
<1>9. queue \in Seq(Nat) /\ \A i \in 1..q : queue[i] \in Sampled
  BY <1>7, SampledTokens
<1> HIDE DEF d, q, n
<1>10. out \in 0..q
  <2>1. DelayLimit \in Nat /\ q \in Nat
    BY <1>5, <1>7, ContextAssumption
  <2>2. out = Larger(0, q - DelayLimit)
    BY DEF Released, q
  <2> HIDE DEF out
  <2>3. out \in {0, q - DelayLimit} /\ out >= 0
    BY <2>1, <2>2, SmallerLarger
  <2> QED BY <2>1, <2>3
<1> HIDE DEF out
<1>11. Drop(queue, out) \in Seq(Nat) /\ Drop(queue, out) \in Seq(Sampled)
       /\ Len(Drop(queue, out)) = q - out /\ \A i \in 1..q - out : Drop(queue, out)[i] = queue[out + i]
  BY <1>7, <1>9, <1>10, DropIs DEF q
<1>12. back \in 0..q - out
  <2>1. RewindAmount(Drop(queue, out)) \in 0..Len(Drop(queue, out))
    BY <1>11, RewindIs
  <2> QED BY <1>11, <2>1
<1> HIDE DEF back
<1>13. q = d + 1 /\ out \in Nat /\ out <= q /\ back \in Nat /\ back <= q - out /\ q \in Nat /\ q <= n + 1
  BY <1>5, <1>7, <1>8, <1>10, <1>12
<1>14. rewound <=> back > 0 /\ n + 1 > back
  BY <1>6
<1> HIDE DEF rewound
<1>15. /\ kept \in Seq(Nat) /\ waits \in Seq(Sampled) /\ EndsWith(kept, waits)
       /\ past \in Nat /\ Len(kept) = past + 1 /\ past <= n
       /\ bans' \subseteq (0..NCtx) \X Sampled
       /\ (~rewound => past = n) /\ Len(waits) < past + 1
  <2>1. CASE rewound
    <3>1. back >= 1 /\ back <= n
      BY <1>5, <1>13, <1>14, <2>1
    <3>2. past = n - back
      <4>1. past = Larger(0, n - back)
        BY <1>5, <2>1
      <4>2. ~(n - back < 0)
        BY <1>5, <1>13, <3>1
      <4> HIDE DEF past
      <4> QED BY <1>5, <1>13, <3>1, <4>1, <4>2 DEF Larger
    <3> DEFINE m == n + 1 - back
               b == out + 1
               e == q - back
    <3>3. m \in 0..Len(context) /\ m \in Nat /\ m <= n
      BY <1>5, <1>6, <1>13, <3>1
    <3>4. kept = Take(context, m)
      <4> DEFINE l == Len(context)
      <4>1. kept = Take(context, l - back) /\ l = n + 1
        BY <1>6, <2>1
      <4> HIDE DEF kept, l
      <4>2. l - back = m
        BY <1>5, <1>13, <4>1
      <4> HIDE DEF m
      <4> QED BY <4>1, <4>2, Zenon
    <3> HIDE DEF m
    <3>5. /\ kept \in Seq(Nat) /\ Len(kept) = m /\ \A i \in 1..m : kept[i] = context[i]
      <4>1. /\ Take(context, m) \in Seq(Nat) /\ Len(Take(context, m)) = m
            /\ \A i \in 1..m : Take(context, m)[i] = context[i]
        BY <1>6, <3>3, TakeIs
      <4> HIDE DEF kept
      <4> QED BY <3>4, <4>1
    <3>6. waits = SubSeq(queue, b, e)
      BY <2>1 DEF q
    <3>7. b \in Int /\ e \in Int /\ b >= 1 /\ e <= q /\ e >= 0
      BY <1>13
    <3>8. waits \in Seq(Sampled) /\ Len(waits) = e - out /\ \A i \in 1..e - out : waits[i] = queue[out + i]
      <4>1. \A i \in b..e : queue[i] \in Sampled
        <5>1. \A i \in b..e : i \in 1..q
          BY <1>13, <3>7
        <5> QED BY <1>9, <5>1
      <4>2. e - out >= 0
        BY <1>13
      <4>3. IF b <= e THEN e - b + 1 = e - out ELSE e - out = 0
        BY <1>13
      <4> HIDE DEF waits, b, e
      <4>4. waits \in Seq(Sampled) /\ Len(waits) = (IF b <= e THEN e - b + 1 ELSE 0)
            /\ \A i \in 1..Len(waits) : waits[i] = queue[b + i - 1]
        <5>1. /\ SubSeq(queue, b, e) \in Seq(Sampled)
              /\ Len(SubSeq(queue, b, e)) = (IF b <= e THEN e - b + 1 ELSE 0)
              /\ \A i \in 1..(IF b <= e THEN e - b + 1 ELSE 0) : SubSeq(queue, b, e)[i] = queue[b + i - 1]
          BY <3>7, <4>1, SubSeqProperties
        <5> QED BY <3>6, <5>1
      <4>5. Len(waits) = e - out
        BY <4>3, <4>4
      <4>6. \A i \in 1..e - out : b + i - 1 = out + i
        BY <1>13, <3>7 DEF b
      <4> QED BY <4>4, <4>5, <4>6
    <3> HIDE DEF kept, waits
    <3> DEFINE w == e - out
    <3>9. w \in Nat /\ w <= m
      BY <1>5, <1>13, <3>1 DEF m
    <3>10. \A i \in 1..w : kept[m - w + i] = waits[i]
      <4>1. ASSUME NEW i \in 1..w PROVE kept[m - w + i] = waits[i]
        <5> DEFINE j == out + i
        <5>1. j \in 1..q /\ m - w + i \in 1..m /\ m - w + i = n + 1 - q + j
          BY <1>5, <1>13, <3>1, <3>9 DEF m
        <5>2. kept[m - w + i] = context[m - w + i]
          BY <3>5, <5>1
        <5>3. waits[i] = queue[j]
          BY <3>8
        <5> HIDE DEF j, w
        <5> QED BY <1>8, <5>1, <5>2, <5>3
      <4> QED BY <4>1
    <3>11. EndsWith(kept, waits)
      BY <3>5, <3>8, <3>9, <3>10 DEF EndsWith
    <3>12. bans' \subseteq (0..NCtx) \X Sampled
      <4>1. context[Len(context) - back + 1] = queue[q - back + 1]
        <5> DEFINE j == q - back + 1
        <5>1. j \in 1..q
          BY <1>13, <3>1
        <5>2. n + 1 - q + j = n + 1 - back + 1
          BY <1>5, <1>13
        <5>3. context[n + 1 - q + j] = queue[j]
          BY <1>8, <5>1
        <5> DEFINE l == Len(context)
        <5>4. l = n + 1
          BY <1>6
        <5> HIDE DEF l
        <5>5. l - back + 1 = n + 1 - q + j
          BY <1>5, <1>13, <5>2, <5>4
        <5> HIDE DEF j
        <5>6. context[l - back + 1] = queue[j]
          BY <5>3, <5>5, Zenon
        <5> QED BY <5>6, Zenon DEF j, l
      <4>2. q - back + 1 \in 1..q
        BY <1>13, <3>1
      <4>3. queue[q - back + 1] \in Sampled
        BY <1>9, <4>2
      <4>4. past + 1 \in 0..NCtx
        <5> HIDE DEF past
        <5> QED BY <1>5, <1>13, <3>1, <3>2
      <4>5. bans \subseteq (0..NCtx) \X Sampled
        BY DEF WindowInv, WindowTypes
      <4>6. bans' = bans \cup {<<past + 1, context[Len(context) - back + 1]>>}
        BY <1>4, <2>1
      <4> HIDE DEF past
      <4> QED BY <4>1, <4>3, <4>4, <4>5, <4>6
    <3>13. past \in Nat /\ m = past + 1 /\ past <= n /\ e - out < past + 1
      <4> HIDE DEF past
      <4> QED BY <1>5, <1>13, <3>1, <3>2 DEF m
    <3> HIDE DEF past, e
    <3> QED BY <2>1, <3>5, <3>8, <3>11, <3>12, <3>13
  <2>2. CASE ~rewound
    <3>1. kept = context /\ waits = Drop(queue, out) /\ past = n /\ bans' = bans
      BY <1>4, <1>5, <2>2
    <3> HIDE DEF kept, waits, past
    <3> DEFINE w == q - out
               m == n + 1
    <3>2. w \in Nat /\ w <= m
      BY <1>5, <1>13
    <3>3. ASSUME NEW i \in 1..w PROVE context[m - w + i] = Drop(queue, out)[i]
      <4> DEFINE j == out + i
      <4>1. j \in 1..q /\ m - w + i = n + 1 - q + j
        BY <1>5, <1>13
      <4>2. Drop(queue, out)[i] = queue[j]
        BY <1>11
      <4> HIDE DEF j, w, m
      <4> QED BY <1>8, <4>1, <4>2
    <3>4. EndsWith(context, Drop(queue, out))
      BY <1>6, <1>11, <3>2, <3>3 DEF EndsWith
    <3>5. bans \subseteq (0..NCtx) \X Sampled
      BY DEF WindowInv, WindowTypes
    <3>6. n <= n /\ q - out < n + 1
      BY <1>5, <1>13
    <3> QED BY <1>5, <1>6, <1>11, <3>1, <3>4, <3>5, <3>6
  <2> QED BY <2>1, <2>2
<1>16. more => ~rewound
  OBVIOUS
<1>17. more => row < Len(draftids) /\ remaining_tokens > 1
  OBVIOUS
<1> HIDE DEF kept, waits, past, more
<1>18. InWindow(kv') /\ InWindow(dkv')
  BY <1>4, <1>5, BelowCache
<1>19. embd' = <<kept[Len(kept)]>> /\ embd' \in Seq(Nat) /\ Len(embd') = 1
  <2>1. Len(kept) \in 1..Len(kept)
    <3> DEFINE m == Len(kept)
    <3>1. m = past + 1 /\ past \in Nat
      BY <1>15
    <3> HIDE DEF m
    <3>2. m \in 1..m
      BY <3>1
    <3> QED BY <3>2 DEF m
  <2>2. kept[Len(kept)] \in Nat
    BY <1>15, <2>1, ElementOfSeq
  <2> QED BY <1>4, <2>2
<1>20. shown' \in Seq(Sampled)
  <2>1. Take(queue, out) \in Seq(Sampled)
    BY <1>7, <1>10, TakeIs DEF q
  <2>2. shown \in Seq(Sampled)
    BY DEF WindowInv, WindowTypes
  <2> QED BY <1>4, <2>1, <2>2, ConcatProperties
<1>21. row \in 0..Chunk /\ remaining_tokens - 1 \in 0..NPredict /\ past \in 0..NCtx
  BY <1>5, <1>15
<1>22. WindowTypes'
  <2>1. early_abort' \in BOOLEAN /\ stage' \in {"idle", "loop", "choose"}
    BY <1>4
  <2>2. c' \in Seq(Nat) /\ delayed' \in Seq(Sampled) /\ bans' \subseteq (0..NCtx) \X Sampled
    BY <1>4, <1>15
  <2>3. n_past' \in 0..NCtx /\ remaining_tokens' \in 0..NPredict /\ logits_sampled' \in 0..Chunk
    BY <1>4, <1>21
  <2>4. <<>> \in Seq(Nat)
    BY EmptySeq
  <2> QED BY <1>1, <1>18, <1>19, <1>20, <2>1, <2>2, <2>3, <2>4 DEF WindowInv, WindowTypes
<1>23. WindowRequest'
  <2>1. Len(c') + Len(embd_inp') + remaining_tokens' <= NCtx
    <3>1. Len(c') = past + 1 /\ Len(embd_inp') = 0 /\ remaining_tokens' = remaining_tokens - 1
      BY <1>1, <1>4, <1>15, EmptySeq
    <3>2. past + 1 + 0 + (remaining_tokens - 1) <= NCtx
      BY <1>5, <1>15
    <3> QED BY <3>1, <3>2
  <2>2. EndsWith(c', delayed')
    BY <1>4, <1>15
  <2>3. Len(c') + Len(embd_inp') > Len(delayed')
    <3>1. Len(c') = past + 1 /\ Len(embd_inp') = 0 /\ Len(delayed') < past + 1
      BY <1>1, <1>4, <1>15, EmptySeq
    <3>2. Len(delayed') \in Nat
      BY <1>4, <1>15, LenProperties
    <3> QED BY <1>15, <3>1, <3>2
  <2> QED BY <1>1, <2>1, <2>2, <2>3 DEF WindowRequest, EndsWith
<1>24. WindowTest'
  <2> SUFFICES ASSUME stage' = "loop" PROVE WindowTest'
    BY DEF WindowTest
  <2>1. ~more
    BY <1>4
  <2>2. n_past' + Len(embd') = Len(c')
    BY <1>4, <1>15, <1>19
  <2>3. embd' # <<>>
    BY <1>19, EmptySeq
  <2>4. NothingBehind'
    <3>1. CASE rewound \/ draftids # <<>>
      <4>1. kv' = Below(kv, past) /\ dkv' = Below(dkv, past) /\ n_past' = past
        BY <1>4, <2>1, <3>1
      <4>2. \A i \in DOMAIN kv' : i < past
        BY <1>5, <4>1, BelowCache
      <4>3. \A i \in DOMAIN dkv' : i < past
        BY <1>5, <4>1, BelowCache
      <4> QED BY <4>1, <4>2, <4>3 DEF NothingBehind
    <3>2. CASE ~rewound /\ draftids = <<>>
      <4>1. kv' = kv /\ dkv' = dkv /\ n_past' = n /\ NothingBehind /\ n_past = n
        BY <1>4, <1>5, <1>15, <3>2
      <4> QED BY <4>1 DEF NothingBehind
    <3> QED BY <3>1, <3>2
  <2> QED BY <2>2, <2>3, <2>4 DEF WindowTest
<1>25. WindowChoice'
  <2> SUFFICES ASSUME stage' = "choose" PROVE WindowChoice'
    BY DEF WindowChoice
  <2>1. more
    BY <1>4
  <2>2. row < Len(draftids) /\ remaining_tokens > 1 /\ ~rewound
    BY <1>16, <1>17, <2>1
  <2>3. past = n /\ n_past' = n
    BY <1>4, <1>15, <2>2
  <2>4. draftids' = draftids /\ draftids # <<>>
    <3>1. Len(draftids) # 0
      BY <1>5, <2>2
    <3> QED BY <1>1, <3>1, EmptySeq
  <2>5. row < Chunk /\ row # 0 /\ row > 0 /\ remaining_tokens - 1 > 0 /\ remaining_tokens - 1 < NPredict
    BY <1>5, <2>2
  <2>6. Len(c') = n + 1 /\ n_past' = Len(c') - 1
    <3> DEFINE l == Len(c')
    <3>1. l = past + 1
      BY <1>4, <1>15
    <3> HIDE DEF l
    <3>2. l = n + 1 /\ n_past' = l - 1
      BY <1>5, <2>3, <3>1
    <3> QED BY <3>2 DEF l
  <2>7. Len(draftids') <= Chunk
    BY <1>5, <2>4
  <2> QED BY <1>4, <1>19, <2>4, <2>5, <2>6, <2>7 DEF WindowChoice
<1> QED BY <1>22, <1>23, <1>24, <1>25 DEF WindowInv

-----------------------------------------------------------------------------
(* Every step, and what follows *)

LEMMA WindowNext == ASSUME WindowInv, [Next]_vars PROVE WindowInv'
<1>1. CASE Request
  BY <1>1, RequestInWindow
<1>2. CASE EvalNothing
  BY <1>2, EvalNothingInWindow
<1>3. CASE Eval
  BY <1>3, EvalInWindow
<1>4. CASE EvalDraft
  BY <1>4, EvalDraftInWindow
<1>5. CASE EvalFails
  BY <1>5, EvalFailsInWindow
<1>6. CASE Ingest
  BY <1>6, IngestInWindow
<1>7. CASE Choose
  BY <1>7, ChooseInWindow
<1>8. CASE StopChoosing
  BY <1>8, StopChoosingInWindow
<1>9. CASE Finish
  BY <1>9, FinishInWindow
<1>10. CASE Abort
  BY <1>10, AbortInWindow
<1>11. CASE SaveState \/ ClearState
  BY <1>11, SaveInWindow
<1>12. CASE LoadState
  BY <1>12, LoadInWindow
<1>13. CASE UNCHANGED vars
  <2>1. /\ UNCHANGED <<current_context_tokens, goal, smartcontext, embd, embd_inp, draftids, delayed, shown>>
        /\ UNCHANGED <<n_past, remaining_tokens, logits_sampled, early_abort, draft_ctx, use_smartcontext>>
        /\ UNCHANGED <<stage, kv, dkv, savestate, logits, bans>>
    BY <1>13 DEF vars, contextVars, outputVars, draftVars, turnVars, requestVars
  <2>2. WindowTypes'
    BY <2>1 DEF WindowInv, WindowTypes
  <2>3. WindowRequest'
    BY <2>1 DEF WindowInv, WindowRequest
  <2>4. WindowTest'
    BY <2>1 DEF WindowInv, WindowTest, NothingBehind
  <2>5. WindowChoice'
    BY <2>1 DEF WindowInv, WindowChoice, NothingBehind
  <2> QED BY <2>2, <2>3, <2>4, <2>5 DEF WindowInv
<1> QED BY <1>1, <1>2, <1>3, <1>4, <1>5, <1>6, <1>7, <1>8, <1>9, <1>10, <1>11, <1>12, <1>13
     DEF Next, Turn

\* The invariant of the window, whatever fails.
THEOREM WindowInvariant == Spec => []WindowInv
<1>1. Init => WindowInv
  BY WindowInit
<1>2. WindowInv /\ [Next]_vars => WindowInv'
  BY WindowNext
<1> QED BY <1>1, <1>2, PTL DEF Spec

\* The context and the tokens still to come stay within the window, and so
\* does what is drafted ahead, also when evaluations fail, aborts come at any
\* time, and states are restored under a draft model.
THEOREM WindowAlwaysKept == Spec => []WindowKept
<1>1. WindowInv => WindowKept
  BY DEF WindowInv, WindowRequest, WindowTypes, InWindow, WindowKept
<1> QED BY <1>1, WindowInvariant, PTL

\* All variables of the generation keep their types and ranges.
THEOREM GenerationTypes == Spec => []TypeOK
<1>1. WindowInv => TypeOK
  BY DEF WindowInv, WindowTypes, InWindow, TypeOK, Token
<1> QED BY <1>1, WindowInvariant, PTL

-----------------------------------------------------------------------------
(* A banned phrase of one token, or of the same token several times, is    *)
(* never shown. The text is what is shown and what is still delayed; the   *)
(* phrase is found only in the delayed part, which a rewind shortens, so   *)
(* that the proof needs what the end of the shown part is.                 *)

Repeated == Phrase[1]

\* Nowhere in text is the phrase.
Free(text) ==
    \A i \in 0..Len(text) - Len(Phrase) : \E j \in 1..Len(Phrase) : text[i + j] # Repeated

\* No occurrence of the phrase can begin in what is shown any more: its last
\* token, or one of those delayed after it, is another one.
Guarded(front, back) ==
    Len(front) > 0 =>
        \/ front[Len(front)] # Repeated
        \/ \E i \in 1..Len(back) : back[i] # Repeated

PhraseInv ==
    OneToken =>
        /\ Free(shown \o delayed)
        /\ stage # "idle" => Guarded(shown, delayed)

-----------------------------------------------------------------------------
(* Where the phrase is *)

LEMMA PhraseIs ==
    ASSUME OneToken
    PROVE  /\ Phrase \in Seq(Nat) /\ Len(Phrase) \in Nat /\ Len(Phrase) >= 1
           /\ Len(Phrase) <= DelayLimit /\ DelayLimit \in Nat
           /\ \A j \in 1..Len(Phrase) : Phrase[j] = Repeated
<1>1. Phrase \in Seq(Nat) /\ Phrase # <<>> /\ DelayLimit \in Nat /\ Len(Phrase) <= DelayLimit
  BY ContextAssumption DEF OneToken
<1>2. Len(Phrase) \in Nat \ {0}
  BY <1>1, EmptySeq
<1> QED BY <1>1, <1>2 DEF OneToken, Repeated

LEMMA PlaceIs ==
    ASSUME OneToken, NEW text \in Seq(Nat), NEW i \in Nat, i + Len(Phrase) <= Len(text)
    PROVE  i \in Places(text, Phrase) <=> \A j \in 1..Len(Phrase) : text[i + j] = Repeated
<1> DEFINE l == Len(Phrase)
           n == Len(text)
           rest == Drop(text, i)
           piece == Take(rest, l)
<1>1. /\ Phrase \in Seq(Nat) /\ l \in Nat /\ l >= 1 /\ n \in Nat
      /\ \A j \in 1..l : Phrase[j] = Repeated
  BY PhraseIs, LenProperties
<1>2. i + l <= n
  OBVIOUS
<1>3. i \in 0..n - l
  <2> HIDE DEF l, n
  <2> QED BY <1>1, <1>2
<1>4. i \in 0..n /\ l \in 0..n - i
  <2> HIDE DEF l, n
  <2> QED BY <1>1, <1>2
<1>5. rest \in Seq(Nat) /\ Len(rest) = n - i /\ \A j \in 1..n - i : rest[j] = text[i + j]
  BY <1>4, DropIs
<1> HIDE DEF rest
<1>6. piece \in Seq(Nat) /\ Len(piece) = l /\ \A j \in 1..l : piece[j] = rest[j]
  <2>1. l \in 0..Len(rest)
    BY <1>4, <1>5
  <2> QED BY <1>5, <2>1, TakeIs
<1> HIDE DEF piece
<1>7. \A j \in 1..l : piece[j] = text[i + j]
  <2>1. \A j \in 1..l : j \in 1..n - i
    <3> HIDE DEF l, n
    <3> QED BY <1>1, <1>4
  <2> QED BY <1>5, <1>6, <2>1
<1>8. piece = Phrase <=> \A j \in 1..l : text[i + j] = Repeated
  <2>1. ASSUME \A j \in 1..l : text[i + j] = Repeated PROVE piece = Phrase
    <3>1. \A j \in 1..l : piece[j] = Phrase[j]
      BY <1>1, <1>7, <2>1
    <3>2. Len(piece) = Len(Phrase)
      BY <1>6
    <3> QED BY <1>1, <1>6, <3>1, <3>2, SeqEqual
  <2>2. ASSUME piece = Phrase PROVE \A j \in 1..l : text[i + j] = Repeated
    BY <1>1, <1>7, <2>2
  <2> QED BY <2>1, <2>2
<1>9. i \in Places(text, Phrase) <=> piece = Phrase
  BY <1>3 DEF Places, piece, rest
<1> QED BY <1>8, <1>9

LEMMA FreeIs ==
    ASSUME OneToken, NEW text \in Seq(Nat)
    PROVE  Places(text, Phrase) = {} <=> Free(text)
<1> DEFINE l == Len(Phrase)
           n == Len(text)
<1>1. l \in Nat /\ l >= 1 /\ n \in Nat /\ Phrase \in Seq(Nat)
  BY PhraseIs, LenProperties
<1>2. ASSUME NEW i \in 0..n - l
      PROVE  i \in Places(text, Phrase) <=> \A j \in 1..l : text[i + j] = Repeated
  <2>1. i \in Nat /\ i + Len(Phrase) <= Len(text)
    <3>1. i \in Nat /\ i + l <= n
      <4> HIDE DEF l, n
      <4> QED BY <1>1
    <3> QED BY <3>1
  <2> QED BY <2>1, PlaceIs
<1>3. Places(text, Phrase) \subseteq 0..n - l
  BY DEF Places
<1>4. Free(text) <=> \A i \in 0..n - l : ~ \A j \in 1..l : text[i + j] = Repeated
  BY DEF Free
<1> HIDE DEF l, n
<1> QED BY <1>2, <1>3, <1>4

-----------------------------------------------------------------------------
(* The text as one function of the places, counted from 1 *)

FreeUpTo(text, n) ==
    \A i \in 0..n - Len(Phrase) : \E j \in 1..Len(Phrase) : text[i + j] # Repeated

GuardedAt(text, m, g) ==
    m > 0 => text[m] # Repeated \/ \E i \in 1..g : text[m + i] # Repeated

\* The phrase is nowhere in the n places behind m; it is right behind k.
FreeBehind(text, m, n) ==
    \A i \in 0..n - Len(Phrase) : \E j \in 1..Len(Phrase) : text[m + (i + j)] # Repeated

PhraseBehind(text, k) == \A j \in 1..Len(Phrase) : text[k + j] = Repeated

LEMMA JoinedIs ==
    ASSUME OneToken, NEW text, NEW front \in Seq(Nat), NEW back \in Seq(Nat),
           NEW m, m = Len(front), NEW g, g = Len(back),
           \A i \in 1..m : front[i] = text[i],
           \A i \in 1..g : back[i] = text[m + i]
    PROVE  /\ Free(front \o back) <=> FreeUpTo(text, m + g)
           /\ Guarded(front, back) <=> GuardedAt(text, m, g)
<1> DEFINE l == Len(Phrase)
           whole == front \o back
<1>1. m \in Nat /\ g \in Nat /\ l \in Nat /\ l >= 1
  BY PhraseIs, LenProperties
<1>2. /\ Len(whole) = m + g
      /\ \A i \in 1..m : whole[i] = front[i]
      /\ \A i \in 1..g : whole[m + i] = back[i]
  <2>1. /\ Len(whole) = Len(front) + Len(back)
        /\ \A i \in 1..Len(front) : whole[i] = front[i]
        /\ \A i \in 1..Len(back) : whole[Len(front) + i] = back[i]
    BY ConcatIs
  <2> HIDE DEF whole
  <2> QED BY <2>1
<1> HIDE DEF whole, l
<1>3. ASSUME NEW k \in 1..m + g PROVE whole[k] = text[k]
  <2>1. CASE k <= m
    <3>1. k \in 1..m
      BY <1>1, <2>1
    <3> QED BY <1>2, <3>1
  <2>2. CASE ~(k <= m)
    <3>1. k - m \in 1..g /\ m + (k - m) = k
      BY <1>1, <2>2
    <3>2. whole[m + (k - m)] = back[k - m] /\ back[k - m] = text[m + (k - m)]
      BY <1>2, <3>1
    <3> QED BY <3>1, <3>2
  <2> QED BY <2>1, <2>2
<1>4. \A i \in 0..(m + g) - l : \A j \in 1..l : whole[i + j] = text[i + j]
  <2>1. \A i \in 0..(m + g) - l : \A j \in 1..l : i + j \in 1..m + g
    BY <1>1
  <2> QED BY <1>3, <2>1
<1>5. Free(whole) <=> FreeUpTo(text, m + g)
  <2>1. Free(whole) <=> \A i \in 0..(m + g) - l : \E j \in 1..l : whole[i + j] # Repeated
    BY <1>2 DEF Free, l
  <2>2. FreeUpTo(text, m + g) <=> \A i \in 0..(m + g) - l : \E j \in 1..l : text[i + j] # Repeated
    BY DEF FreeUpTo, l
  <2>3. ASSUME NEW i \in 0..(m + g) - l
        PROVE  (\E j \in 1..l : whole[i + j] # Repeated) <=> (\E j \in 1..l : text[i + j] # Repeated)
    <3>1. \A j \in 1..l : whole[i + j] = text[i + j]
      BY <1>4
    <3> QED BY <3>1
  <2> QED BY <2>1, <2>2, <2>3
<1>6. Guarded(front, back) <=> GuardedAt(text, m, g)
  <2>1. m > 0 => front[m] = text[m]
    <3>1. m > 0 => m \in 1..m
      BY <1>1
    <3> QED BY <3>1
  <2> QED BY <2>1 DEF Guarded, GuardedAt
<1> QED BY <1>5, <1>6 DEF whole

\* A token comes and the phrase is not among the delayed tokens: it is nowhere,
\* for where it would have begun in what is shown, that was guarded.
LEMMA Quiet ==
    ASSUME OneToken, NEW text, NEW s \in Nat, NEW d \in Nat, NEW out \in Nat,
           out = Larger(0, (d + 1) - DelayLimit), FreeUpTo(text, s + d), GuardedAt(text, s, d),
           FreeBehind(text, s + out, (d + 1) - out)
    PROVE  FreeUpTo(text, s + d + 1) /\ GuardedAt(text, s + out, (d + 1) - out)
<1> DEFINE l == Len(Phrase)
<1>1. l \in Nat /\ l >= 1 /\ l <= DelayLimit /\ DelayLimit \in Nat
  BY PhraseIs
<1>2. \A i \in 0..(s + d) - l : \E j \in 1..l : text[i + j] # Repeated
  BY DEF FreeUpTo
<1>3. \A i \in 0..((d + 1) - out) - l : \E j \in 1..l : text[s + out + (i + j)] # Repeated
  BY DEF FreeBehind
<1> HIDE DEF l
<1>4. (d + 1) - out < l => out = 0 /\ d + 1 < l
  <2>1. out \in {0, (d + 1) - DelayLimit}
    <3>1. 0 \in Int /\ (d + 1) - DelayLimit \in Int
      BY <1>1
    <3> QED BY <3>1, SmallerLarger
  <2> QED BY <1>1, <2>1
<1>5. ASSUME NEW i \in 0..(s + d + 1) - l PROVE \E j \in 1..l : text[i + j] # Repeated
  <2>1. CASE i <= s + d - l
    <3>1. i \in 0..(s + d) - l
      BY <1>1, <2>1
    <3> QED BY <1>2, <3>1
  <2>2. CASE ~(i <= s + d - l) /\ (d + 1) - out >= l
    <3> DEFINE k == (d + 1) - out - l
    <3>1. k \in 0..((d + 1) - out) - l /\ i = s + out + k
      BY <1>1, <2>2
    <3> HIDE DEF k
    <3>2. PICK j \in 1..l : text[s + out + (k + j)] # Repeated
      BY <1>3, <3>1
    <3>3. s + out + (k + j) = i + j
      BY <1>1, <3>1
    <3> QED BY <3>2, <3>3
  <2>3. CASE ~(i <= s + d - l) /\ ~((d + 1) - out >= l)
    <3>1. d + 1 < l
      BY <1>1, <1>4, <2>3
    <3>2. s > 0 /\ i = s + d + 1 - l
      BY <1>1, <2>3, <3>1
    <3>3. CASE text[s] # Repeated
      <4>1. l - d - 1 \in 1..l /\ i + (l - d - 1) = s
        BY <1>1, <3>1, <3>2
      <4> QED BY <3>3, <4>1
    <3>4. CASE \E k \in 1..d : text[s + k] # Repeated
      <4>1. PICK k \in 1..d : text[s + k] # Repeated
        BY <3>4
      <4>2. l - d - 1 + k \in 1..l /\ i + (l - d - 1 + k) = s + k
        BY <1>1, <3>1, <3>2
      <4> QED BY <4>1, <4>2
    <3> QED BY <3>2, <3>3, <3>4 DEF GuardedAt
  <2> QED BY <2>1, <2>2, <2>3
<1>6. FreeUpTo(text, s + d + 1)
  BY <1>5 DEF FreeUpTo, l
<1>7. GuardedAt(text, s + out, (d + 1) - out)
  <2>1. CASE (d + 1) - out >= l
    <3>1. 0 \in 0..((d + 1) - out) - l
      BY <1>1, <2>1
    <3>2. PICK j \in 1..l : text[s + out + (0 + j)] # Repeated
      BY <1>3, <3>1
    <3>3. j \in 1..(d + 1) - out /\ s + out + (0 + j) = s + out + j
      BY <1>1, <2>1
    <3> QED BY <3>2, <3>3 DEF GuardedAt
  <2>2. CASE ~((d + 1) - out >= l)
    <3>1. out = 0 /\ s + out = s /\ (d + 1) - out = d + 1
      BY <1>1, <1>4, <2>2
    <3>2. \A i \in 1..d : i \in 1..d + 1
      OBVIOUS
    <3>3. GuardedAt(text, s, d + 1)
      BY <3>2 DEF GuardedAt
    <3> QED BY <3>1, <3>3
  <2> QED BY <2>1, <2>2
<1> QED BY <1>6, <1>7

\* The phrase is found in the delayed tokens and rewound over. Were all before
\* it guarded no longer, it would have been in the text before the token came.
LEMMA Found ==
    ASSUME OneToken, NEW text, NEW s \in Nat, NEW d \in Nat, NEW out \in Nat,
           NEW g \in 0..((d + 1) - out) - Len(Phrase), FreeUpTo(text, s + d),
           PhraseBehind(text, s + out + g)
    PROVE  FreeUpTo(text, s + out + g) /\ GuardedAt(text, s + out, g)
<1> DEFINE l == Len(Phrase)
           m == s + out
<1>1. l \in Nat /\ l >= 1 /\ g \in 0..((d + 1) - out) - l
  BY PhraseIs
<1>2. \A i \in 0..(s + d) - l : \E j \in 1..l : text[i + j] # Repeated
  BY DEF FreeUpTo
<1>3. \A j \in 1..l : text[m + g + j] = Repeated
  BY DEF PhraseBehind
<1> HIDE DEF l
<1>4. g \in Nat /\ m \in Nat /\ m + g <= s + d + 1 - l
  BY <1>1
<1>5. \A i \in 0..(m + g) - l : i \in 0..(s + d) - l
  BY <1>1, <1>4
<1>6. FreeUpTo(text, m + g)
  BY <1>2, <1>5 DEF FreeUpTo, l
<1>7. GuardedAt(text, m, g)
  <2> SUFFICES ASSUME m > 0, text[m] = Repeated, \A i \in 1..g : text[m + i] = Repeated
               PROVE  FALSE
    BY DEF GuardedAt
  <2> HIDE DEF m
  <2> DEFINE i == m + g - 1
  <2>1. i \in 0..(s + d) - l
    BY <1>1, <1>4
  <2>2. PICK j \in 1..l : text[i + j] # Repeated
    BY <1>2, <2>1
  <2>3. CASE j = 1
    <3>1. i + j = m + g
      BY <1>4, <2>3
    <3>2. g = 0 \/ g \in 1..g
      BY <1>4
    <3>3. text[m + g] = Repeated
      <4>1. CASE g = 0
        <5>1. m + g = m
          BY <1>4, <4>1
        <5> QED BY <5>1
      <4>2. CASE g \in 1..g
        BY <4>2
      <4> QED BY <3>2, <4>1, <4>2
    <3> QED BY <2>2, <3>1, <3>3
  <2>4. CASE j # 1
    <3>1. j - 1 \in 1..l /\ i + j = m + g + (j - 1)
      BY <1>1, <1>4, <2>4
    <3>2. text[m + g + (j - 1)] = Repeated
      BY <1>3, <3>1
    <3> QED BY <2>2, <3>1, <3>2
  <2> QED BY <2>3, <2>4
<1> QED BY <1>6, <1>7

-----------------------------------------------------------------------------
(* The steps *)

\* A token comes: what it does to the text, whether the phrase is found or not.
LEMMA TokenKeepsText ==
    ASSUME OneToken, NEW front \in Seq(Nat), NEW back \in Seq(Nat), NEW token \in Nat,
           Free(front \o back), Guarded(front, back)
    PROVE  LET queue  == Append(back, token)
               out    == Released(queue)
               amount == RewindAmount(Drop(queue, out))
               shows  == front \o Take(queue, out)
               waits  == IF amount > 0 THEN SubSeq(queue, out + 1, Len(queue) - amount)
                         ELSE Drop(queue, out)
           IN  /\ amount <= Len(back) + 1
               /\ Free(shows \o waits) /\ Guarded(shows, waits)
<1> DEFINE queue == Append(back, token)
           out == Released(queue)
           held == Drop(queue, out)
           amount == RewindAmount(held)
           shows == front \o Take(queue, out)
           waits == IF amount > 0 THEN SubSeq(queue, out + 1, Len(queue) - amount)
                    ELSE held
           text == front \o queue
           s == Len(front)
           d == Len(back)
           l == Len(Phrase)
<1>1. /\ l \in Nat /\ l >= 1 /\ l <= DelayLimit /\ DelayLimit \in Nat /\ Phrase \in Seq(Nat)
      /\ s \in Nat /\ d \in Nat
  BY PhraseIs, LenProperties
<1>2. /\ queue \in Seq(Nat) /\ Len(queue) = d + 1
      /\ \A i \in 1..d : queue[i] = back[i]
  BY AppendIs
<1>3. out = Larger(0, (d + 1) - DelayLimit)
  BY <1>2 DEF Released
<1> HIDE DEF queue, out
<1>4. out \in Nat /\ out <= d + 1
  <2>1. (d + 1) - DelayLimit \in Int /\ (d + 1) - DelayLimit <= d + 1
    BY <1>1
  <2>2. out \in {0, (d + 1) - DelayLimit} /\ out >= 0
    BY <1>3, <2>1, SmallerLarger
  <2> HIDE DEF s, d
  <2> QED BY <1>1, <2>1, <2>2
<1>5. /\ \A i \in 1..s : text[i] = front[i]
      /\ \A i \in 1..d + 1 : text[s + i] = queue[i]
  <2>1. /\ \A i \in 1..Len(front) : text[i] = front[i]
        /\ \A i \in 1..Len(queue) : text[Len(front) + i] = queue[i]
    BY <1>2, ConcatIs
  <2> HIDE DEF text
  <2> QED BY <1>2, <2>1
<1> HIDE DEF text
<1>6. FreeUpTo(text, s + d) /\ GuardedAt(text, s, d)
  <2>1. \A i \in 1..d : back[i] = text[s + i]
    <3>1. \A i \in 1..d : i \in 1..d + 1
      <4> HIDE DEF d
      <4> QED BY <1>1
    <3> QED BY <1>2, <1>5, <3>1
  <2>2. \A i \in 1..s : front[i] = text[i]
    BY <1>5
  <2> QED BY <2>1, <2>2, JoinedIs
<1> DEFINE h == (d + 1) - out
           m == s + out
<1>7. held \in Seq(Nat) /\ Len(held) = h /\ \A i \in 1..h : held[i] = queue[out + i]
  <2>1. out \in 0..Len(queue)
    BY <1>1, <1>2, <1>4
  <2>2. /\ held \in Seq(Nat) /\ Len(held) = Len(queue) - out
        /\ \A i \in 1..Len(queue) - out : held[i] = queue[out + i]
    BY <1>2, <2>1, DropIs
  <2> QED BY <1>2, <2>2
<1> HIDE DEF held
<1> HIDE DEF s, d, l
<1>8. h \in Nat /\ m \in Nat
  BY <1>1, <1>4
<1>9. \A i \in 1..h : held[i] = text[m + i]
  <2>1. \A i \in 1..h : out + i \in 1..d + 1 /\ s + (out + i) = m + i
    BY <1>1, <1>4
  <2> QED BY <1>5, <1>7, <2>1
<1>10. /\ shows \in Seq(Nat) /\ Len(shows) = m /\ \A i \in 1..m : shows[i] = text[i]
  <2> DEFINE gone == Take(queue, out)
  <2>1. gone \in Seq(Nat) /\ Len(gone) = out /\ \A i \in 1..out : gone[i] = queue[i]
    <3>1. out \in 0..Len(queue)
      BY <1>1, <1>2, <1>4
    <3> QED BY <1>2, <3>1, TakeIs
  <2> HIDE DEF gone
  <2>2. /\ front \o gone \in Seq(Nat) /\ Len(front \o gone) = Len(front) + Len(gone)
        /\ \A i \in 1..Len(front) : (front \o gone)[i] = front[i]
        /\ \A i \in 1..Len(gone) : (front \o gone)[Len(front) + i] = gone[i]
    BY <2>1, ConcatIs
  <2>3. shows = front \o gone
    BY DEF gone
  <2> HIDE DEF shows
  <2>4. /\ shows \in Seq(Nat) /\ Len(shows) = s + out
        /\ \A i \in 1..s : shows[i] = front[i]
        /\ \A i \in 1..out : shows[s + i] = gone[i]
    BY <2>1, <2>2, <2>3 DEF s
  <2>5. ASSUME NEW i \in 1..m PROVE shows[i] = text[i]
    <3>1. CASE i <= s
      <4>1. i \in 1..s
        BY <1>1, <3>1
      <4> QED BY <1>5, <2>4, <4>1
    <3>2. CASE ~(i <= s)
      <4>1. i - s \in 1..out /\ i - s \in 1..d + 1 /\ s + (i - s) = i
        BY <1>1, <1>4, <3>2
      <4>2. shows[s + (i - s)] = gone[i - s] /\ gone[i - s] = queue[i - s]
        BY <2>1, <2>4, <4>1
      <4>3. text[s + (i - s)] = queue[i - s]
        BY <1>5, <4>1
      <4> QED BY <4>1, <4>2, <4>3
    <3> QED BY <3>1, <3>2
  <2> QED BY <2>4, <2>5
<1> DEFINE places == Places(held, Phrase)
<1>11. CASE places = {}
  <2>1. amount = 0
    BY <1>11 DEF RewindAmount
  <2>2. waits = held
    <3>1. ~(amount > 0)
      BY <2>1
    <3> QED BY <3>1
  <2>3. FreeBehind(text, m, h)
    <3>1. \A i \in 0..h - l : \E j \in 1..l : held[i + j] # Repeated
      <4>1. Free(held)
        BY <1>7, <1>11, FreeIs
      <4> HIDE DEF h
      <4> QED BY <1>7, <4>1 DEF Free, l
    <3>2. \A i \in 0..h - l : \A j \in 1..l : i + j \in 1..h
      BY <1>1, <1>8
    <3>3. ASSUME NEW i \in 0..h - l PROVE \E j \in 1..l : text[m + (i + j)] # Repeated
      <4>1. PICK j \in 1..l : held[i + j] # Repeated
        BY <3>1
      <4>2. held[i + j] = text[m + (i + j)]
        BY <1>9, <3>2
      <4> QED BY <4>1, <4>2
    <3> QED BY <3>3 DEF FreeBehind, l
  <2>4. FreeUpTo(text, s + d + 1) /\ GuardedAt(text, m, h)
    <3>1. FreeBehind(text, s + out, (d + 1) - out)
      BY <2>3
    <3> QED BY <1>1, <1>3, <1>4, <1>6, <3>1, Quiet
  <2>5. m + h = s + d + 1
    BY <1>1, <1>4
  <2>6. Free(shows \o held) /\ Guarded(shows, held)
    <3> HIDE DEF m, h, shows
    <3>1. FreeUpTo(text, m + h)
      BY <2>4, <2>5, Zenon
    <3> QED BY <1>7, <1>9, <1>10, <2>4, <3>1, JoinedIs
  <2>7. amount <= Len(back) + 1
    BY <1>1, <2>1 DEF d
  <2> HIDE DEF amount, waits, shows
  <2> QED BY <2>2, <2>6, <2>7 DEF amount, waits, shows, held, out, queue
<1>12. CASE places # {}
  <2> DEFINE g == Greatest(places)
  <2>1. g \in places /\ g \in Nat /\ g + l <= h
    <3>1. places \in SUBSET Nat /\ \A i \in places : i + Len(Phrase) <= Len(held)
      BY <1>1, <1>7, PlacesAre
    <3>2. \A i \in places : i <= h
      <4>1. \A i \in places : i \in Nat /\ i + l <= h
        BY <1>7, <3>1 DEF l
      <4> HIDE DEF places
      <4> QED BY <1>1, <1>8, <4>1
    <3>3. g \in places
      <4> HIDE DEF places
      <4> QED BY <1>8, <1>12, <3>1, <3>2, GreatestIs
    <3> HIDE DEF places, g
    <3> QED BY <1>7, <3>1, <3>3 DEF l
  <2>2. amount = h - g
    <3>1. ~(Phrase = <<>> \/ Places(held, Phrase) = {})
      BY <1>12 DEF OneToken
    <3> QED BY <1>7, <3>1 DEF RewindAmount
  <2>3. \A j \in 1..l : held[g + j] = Repeated
    <3>1. g + Len(Phrase) <= Len(held)
      BY <1>7, <2>1 DEF l
    <3> HIDE DEF g
    <3> QED BY <1>7, <2>1, <3>1, PlaceIs DEF l
  <2> HIDE DEF g, places
  <2>4. amount > 0 /\ amount <= d + 1 /\ (d + 1) - amount = out + g
    <3> HIDE DEF amount
    <3> QED BY <1>1, <1>4, <2>1, <2>2
  <2>5. waits = SubSeq(queue, out + 1, out + g)
    <3>1. waits = SubSeq(queue, out + 1, Len(queue) - amount)
      BY <2>4
    <3>2. Len(queue) - amount = out + g
      BY <1>2, <2>4
    <3> HIDE DEF waits
    <3> QED BY <3>1, <3>2, Zenon
  <2> HIDE DEF waits
  <2>6. /\ waits \in Seq(Nat) /\ Len(waits) = g /\ \A i \in 1..g : waits[i] = queue[out + i]
    <3> DEFINE b == out + 1
               e == out + g
    <3>1. b \in Int /\ e \in Int
      BY <1>4, <2>1
    <3>2. \A i \in b..e : queue[i] \in Nat
      <4>1. \A i \in b..e : i \in 1..Len(queue)
        BY <1>1, <1>2, <1>4, <2>1
      <4> QED BY <1>2, <4>1, ElementOfSeq
    <3>3. e - b + 1 = g /\ IF b <= e THEN TRUE ELSE g = 0
      BY <1>4, <2>1
    <3>4. \A i \in 1..g : b + i - 1 = out + i
      BY <1>4, <2>1
    <3>5. waits = SubSeq(queue, b, e)
      BY <2>5
    <3> HIDE DEF b, e
    <3>6. /\ waits \in Seq(Nat) /\ Len(waits) = (IF b <= e THEN e - b + 1 ELSE 0)
          /\ \A i \in 1..e - b + 1 : waits[i] = queue[b + i - 1]
      BY <3>1, <3>2, <3>5, SubSeqProperties
    <3>7. Len(waits) = g
      BY <3>3, <3>6
    <3>8. \A i \in 1..g : waits[i] = queue[b + i - 1]
      BY <3>3, <3>6
    <3> QED BY <3>4, <3>6, <3>7, <3>8
  <2>7. \A i \in 1..g : waits[i] = text[m + i]
    <3>1. \A i \in 1..g : i \in 1..h
      BY <1>1, <1>8, <2>1
    <3> QED BY <1>7, <1>9, <2>6, <3>1
  <2>8. PhraseBehind(text, m + g)
    <3>1. ASSUME NEW j \in 1..l PROVE text[m + g + j] = Repeated
      <4>1. g + j \in 1..h /\ m + (g + j) = m + g + j
        BY <1>1, <1>8, <2>1
      <4> QED BY <1>9, <2>3, <4>1
    <3> QED BY <3>1 DEF PhraseBehind, l
  <2>9. FreeUpTo(text, m + g) /\ GuardedAt(text, m, g)
    <3>1. g \in 0..((d + 1) - out) - Len(Phrase)
      <4>1. g \in 0..h - l
        BY <1>1, <1>8, <2>1
      <4> QED BY <4>1 DEF l
    <3> QED BY <1>1, <1>4, <1>6, <2>8, <3>1, Found
  <2>10. Free(shows \o waits) /\ Guarded(shows, waits)
    <3> HIDE DEF m, shows
    <3> QED BY <1>10, <2>6, <2>7, <2>9, JoinedIs
  <2>11. amount <= Len(back) + 1
    BY <2>4 DEF d
  <2> HIDE DEF amount, shows
  <2> QED BY <2>10, <2>11 DEF amount, waits, shows, held, out, queue
<1> QED BY <1>11, <1>12

LEMMA ChooseHides == ASSUME WindowInv, PhraseInv, Choose PROVE PhraseInv'
<1> SUFFICES ASSUME OneToken PROVE Free(shown' \o delayed') /\ Guarded(shown', delayed')
  BY DEF PhraseInv
<1>1. stage = "choose" /\ ~early_abort /\ embd_inp = <<>>
  BY DEF Choose
<1>2. PICK token \in Allowed : Sample(token)
  BY DEF Choose
<1>3. token \in Nat
  BY <1>2, ContextAssumption DEF Allowed
<1> DEFINE context == Append(current_context_tokens, token)
           queue == Append(delayed, token)
           out == Released(queue)
           back == RewindAmount(Drop(queue, out))
           rewound == back > 0 /\ Len(context) > back
           n == Len(current_context_tokens)
           d == Len(delayed)
<1>4. /\ shown' = shown \o Take(queue, out)
      /\ delayed' = IF rewound THEN SubSeq(queue, out + 1, Len(queue) - back) ELSE Drop(queue, out)
  BY <1>2 DEF Sample
<1>5. /\ current_context_tokens \in Seq(Nat) /\ delayed \in Seq(Sampled)
      /\ n \in Nat /\ d \in Nat /\ d < n
  BY <1>1, BeforeToken
<1>6. shown \in Seq(Nat) /\ delayed \in Seq(Nat)
  BY <1>5, SampledTokens DEF WindowInv, WindowTypes
<1>7. Free(shown \o delayed) /\ Guarded(shown, delayed)
  BY <1>1 DEF PhraseInv
<1> DEFINE waits == IF back > 0 THEN SubSeq(queue, out + 1, Len(queue) - back) ELSE Drop(queue, out)
           shows == shown \o Take(queue, out)
<1>8. back <= d + 1 /\ Free(shows \o waits) /\ Guarded(shows, waits)
  BY <1>3, <1>6, <1>7, TokenKeepsText
<1>9. back \in Int
  <2>1. queue \in Seq(Nat) /\ Len(queue) \in Nat
    BY <1>3, <1>6, AppendIs, LenProperties
  <2>2. out \in 0..Len(queue)
    <3> DEFINE q == Len(queue)
    <3>1. q \in Nat /\ DelayLimit \in Nat /\ out = Larger(0, q - DelayLimit)
      BY <2>1, ContextAssumption DEF Released
    <3> HIDE DEF out, q
    <3>2. out \in {0, q - DelayLimit} /\ out >= 0
      BY <3>1, SmallerLarger
    <3>3. out \in 0..q
      BY <3>1, <3>2
    <3> QED BY <3>3 DEF q
  <2>3. Drop(queue, out) \in Seq(Nat) /\ Len(Drop(queue, out)) \in Nat
    BY <2>1, <2>2, DropIs, LenProperties
  <2>4. back \in 0..Len(Drop(queue, out))
    BY <2>3, RewindIs
  <2> QED BY <2>3, <2>4
<1>10. Len(context) = n + 1
  BY <1>3, <1>5, AppendIs
<1> HIDE DEF context, back, queue, out
<1>11. rewound <=> back > 0
  <2> HIDE DEF n, d
  <2>1. n + 1 > back
    BY <1>5, <1>8, <1>9
  <2> QED BY <1>10, <2>1
<1>12. delayed' = waits /\ shown' = shows
  BY <1>4, <1>11
<1> HIDE DEF waits, shows
<1> QED BY <1>8, <1>12

\* A request begins with no text; nothing but sampling and the end of a request
\* touches the text.
LEMMA NoText == ASSUME OneToken PROVE Free(<<>> \o <<>>) /\ Guarded(<<>>, <<>>)
<1>1. <<>> \in Seq(Nat) /\ Len(<<>>) = 0 /\ <<>> \o <<>> = <<>>
  BY EmptySeq
<1>2. Len(Phrase) \in Nat /\ Len(Phrase) >= 1
  BY PhraseIs
<1> DEFINE l == Len(Phrase)
<1>3. 0..0 - l = {}
  <2>1. l \in Nat /\ l >= 1
    BY <1>2
  <2> HIDE DEF l
  <2> QED BY <2>1
<1>4. Free(<<>>)
  BY <1>1, <1>3 DEF Free
<1> QED BY <1>1, <1>4 DEF Guarded

LEMMA FinishHides == ASSUME WindowInv, PhraseInv, Finish PROVE PhraseInv'
<1> SUFFICES ASSUME OneToken PROVE Free(shown' \o delayed') /\ stage' = "idle"
  BY DEF PhraseInv
<1>1. stage' = "idle" /\ delayed' = <<>> /\ shown' = shown \o delayed
  BY DEF Finish
<1>2. shown \in Seq(Sampled) /\ delayed \in Seq(Sampled)
  BY DEF WindowInv, WindowTypes
<1>3. shown' \in Seq(Sampled)
  BY <1>1, <1>2, ConcatProperties
<1>4. shown' \o <<>> = shown'
  BY <1>3, ConcatEmptySeq
<1>5. Free(shown \o delayed)
  BY DEF PhraseInv
<1> QED BY <1>1, <1>4, <1>5

LEMMA PhraseInit == ASSUME Init PROVE PhraseInv
BY NoText DEF Init, PhraseInv

LEMMA PhraseNext == ASSUME WindowInv, PhraseInv, [Next]_vars PROVE PhraseInv'
<1>1. CASE Request
  <2>1. shown' = <<>> /\ delayed' = <<>>
    BY <1>1 DEF Request
  <2> QED BY <2>1, NoText DEF PhraseInv
<1>2. CASE Choose
  BY <1>2, ChooseHides
<1>3. CASE Finish
  BY <1>3, FinishHides
<1>4. ASSUME UNCHANGED <<shown, delayed>>, stage' # "idle" => stage # "idle" PROVE PhraseInv'
  BY <1>4 DEF PhraseInv
<1>5. CASE EvalNothing \/ Eval \/ EvalDraft \/ EvalFails
  BY <1>4, <1>5 DEF EvalNothing, Eval, EvalDraft, EvalFails, Looping, outputVars
<1>6. CASE Ingest \/ StopChoosing \/ Abort
  BY <1>4, <1>6 DEF Ingest, StopChoosing, Abort, outputVars, turnVars
<1>7. CASE SaveState \/ LoadState \/ ClearState \/ UNCHANGED vars
  BY <1>4, <1>7 DEF SaveState, LoadState, ClearState, vars, outputVars, turnVars
<1> QED BY <1>1, <1>2, <1>3, <1>5, <1>6, <1>7 DEF Next, Turn

\* A banned phrase of one token, or of the same token several times, is never
\* shown, whatever is drafted, aborted, restored or fails: the delay buffer of
\* gpttype_generate is long enough even after any number of rewinds.
THEOREM RepeatedPhraseHidden == Spec => []PhraseHidden
<1>1. Init => WindowInv /\ PhraseInv
  BY WindowInit, PhraseInit
<1>2. (WindowInv /\ PhraseInv) /\ [Next]_vars => (WindowInv /\ PhraseInv)'
  BY WindowNext, PhraseNext
<1>3. WindowInv /\ PhraseInv => PhraseHidden
  <2> SUFFICES ASSUME WindowInv, PhraseInv, OneToken PROVE Places(shown, Phrase) = {}
    BY DEF PhraseHidden
  <2>1. shown \in Seq(Nat) /\ delayed \in Seq(Nat)
    BY SampledTokens DEF WindowInv, WindowTypes
  <2>2. Free(shown \o delayed)
    BY DEF PhraseInv
  <2> DEFINE s == Len(shown)
             d == Len(delayed)
             l == Len(Phrase)
             whole == shown \o delayed
  <2>3. s \in Nat /\ d \in Nat /\ l \in Nat /\ l >= 1
    BY <2>1, PhraseIs, LenProperties
  <2>4. Len(whole) = s + d /\ \A i \in 1..s : whole[i] = shown[i]
    BY <2>1, ConcatIs
  <2> HIDE DEF whole, s, d, l
  <2>5. \A i \in 0..(s + d) - l : \E j \in 1..l : whole[i + j] # Repeated
    BY <2>2, <2>4 DEF Free, whole, l
  <2>6. ASSUME NEW i \in 0..s - l PROVE \E j \in 1..l : shown[i + j] # Repeated
    <3>1. i \in 0..(s + d) - l
      BY <2>3
    <3>2. PICK j \in 1..l : whole[i + j] # Repeated
      BY <2>5, <3>1
    <3>3. i + j \in 1..s
      BY <2>3
    <3> QED BY <2>4, <3>2, <3>3
  <2>7. Free(shown)
    BY <2>6 DEF Free, s, l
  <2> QED BY <2>1, <2>7, FreeIs
<1> QED BY <1>1, <1>2, <1>3, PTL DEF Spec
================================================================================
