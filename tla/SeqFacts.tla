------------------------------ MODULE SeqFacts ------------------------------
(***************************************************************************)
(* Facts about the naturals and about sequences that the proofs of several *)
(* components need.  The induction theorems of the library take the        *)
(* predicate as a parameter; here induction is over a set of naturals,     *)
(* which follows from the well-foundedness of the subsets of a finite set. *)
(***************************************************************************)
EXTENDS SeqFilter, Integers, SequencesExt, SequenceTheorems, FiniteSetTheorems, WellFoundedInduction, TLAPS

---------------------------------------------------------------------------
(* Induction over the naturals *)

\* Every non-empty set of naturals has a least element.
THEOREM LeastNatural ==
  ASSUME NEW T \in SUBSET Nat, T # {}
  PROVE  \E m \in T : \A n \in T : m <= n
<1>1. PICK t \in T : TRUE
  OBVIOUS
<1> DEFINE S == 0 .. t
           D == {U \in SUBSET S : \E k \in T : U = 0 .. k}
<1>2. IsFiniteSet(S)
  BY FS_Interval
<1>3. IsWellFoundedOn(StrictSubsetOrdering(S), FiniteSubsetsOf(S))
  BY FS_StrictSubsetOrderingWellFounded
<1>4. D \subseteq FiniteSubsetsOf(S)
  BY <1>2, FS_Subset DEF FiniteSubsetsOf
<1>5. S \in D
  BY <1>1
<1> HIDE DEF D
<1>6. PICK U \in D : \A V \in D : ~ (<<V, U>> \in StrictSubsetOrdering(S))
  BY <1>3, <1>4, <1>5, WFMin
<1>7. PICK m \in T : U = 0 .. m /\ U \subseteq S
  BY <1>6 DEF D
<1>8. ASSUME NEW n \in T, n < m
      PROVE  FALSE
  <2>1. 0 .. n \subseteq S /\ 0 .. n \subseteq U /\ 0 .. n # U
    BY <1>7, <1>8
  <2>2. 0 .. n \in D
    BY <2>1 DEF D
  <2>3. <<0 .. n, U>> \in StrictSubsetOrdering(S)
    BY <2>1, <1>7 DEF StrictSubsetOrdering
  <2>4. QED BY <2>2, <2>3, <1>6
<1>9. QED
  BY <1>7, <1>8

\* A set that has 0, and n + 1 with every n up to a bound, has every natural
\* up to the bound.
LEMMA SetInduction ==
  ASSUME NEW S, NEW b \in Nat, 0 \in S,
         \A n \in 0 .. b - 1 : n \in S => n + 1 \in S
  PROVE  0 .. b \subseteq S
<1>1. SUFFICES ASSUME (0 .. b) \ S # {} PROVE FALSE
  OBVIOUS
<1>2. (0 .. b) \ S \in SUBSET Nat
  OBVIOUS
<1>3. PICK m \in (0 .. b) \ S : \A n \in (0 .. b) \ S : m <= n
  BY <1>1, <1>2, LeastNatural
<1>4. m - 1 \in 0 .. b - 1 /\ m - 1 \in S /\ (m - 1) + 1 = m
  BY <1>3
<1>5. QED BY <1>3, <1>4

\* The values of g from place 1 on, each right for the one before it, as R says: it holds of a
\* place, the value before it, and the value there.
Chain(g, b, v, R) == g[1] = v /\ \A n \in 2 .. b : <<n, g[n - 1], g[n]>> \in R

\* A function that is defined from its value at the place before exists.
LEMMA Recursion ==
  ASSUME NEW V, NEW b \in Nat \ {0}, NEW v \in V, NEW R,
         \A n \in 2 .. b : \A w \in V : \E u \in V : <<n, w, u>> \in R
  PROVE  \E g \in [1 .. b -> V] : Chain(g, b, v, R)
<1> DEFINE Step(g, n) == IF n = 1 THEN g[1] = v ELSE <<n, g[n - 1], g[n]>> \in R
           Solves(g, m) == g \in [1 .. m -> V] /\ \A n \in 1 .. m : Step(g, n)
           Solved == {m \in Nat : \E g : Solves(g, m + 1)}
<1>1. 0 \in Solved
  <2>1. Solves([n \in 1 .. 0 + 1 |-> v], 0 + 1)
    OBVIOUS
  <2>2. QED BY <2>1
<1>2. ASSUME NEW m \in 0 .. (b - 1) - 1, m \in Solved
      PROVE  m + 1 \in Solved
  <2>1. PICK g : Solves(g, m + 1)
    BY <1>2
  <2> DEFINE k == m + 2
             e == CHOOSE u \in V : <<k, g[k - 1], u>> \in R
             h == [n \in 1 .. k |-> IF n = k THEN e ELSE g[n]]
  <2>2. k \in 2 .. b /\ k \in 1 .. k /\ k - 1 \in 1 .. m + 1 /\ k = (m + 1) + 1 /\ m + 1 \in Nat /\ k # 1
    OBVIOUS
  <2>3. g[k - 1] \in V
    BY <2>1, <2>2
  <2>4. e \in V /\ <<k, g[k - 1], e>> \in R
    <3>1. \E u \in V : <<k, g[k - 1], u>> \in R
      BY <2>2, <2>3
    <3>2. QED BY <3>1
  <2> HIDE DEF e, k
  <2>5. \A n \in 1 .. k : n = k \/ n \in 1 .. m + 1
    BY <2>2
  <2>6. h \in [1 .. k -> V]
    BY <2>1, <2>4, <2>5
  <2>7. ASSUME NEW n \in 1 .. k PROVE Step(h, n)
    <3>1. CASE n = k
      <4>1. h[k] = e /\ h[k - 1] = g[k - 1]
        BY <2>2
      <4>2. QED BY <2>2, <2>4, <3>1, <4>1
    <3>2. CASE n # k
      <4>1. n \in 1 .. m + 1 /\ h[n] = g[n] /\ Step(g, n)
        BY <2>1, <2>5, <3>2
      <4>2. n # 1 => n - 1 \in 1 .. k /\ n - 1 # k
        BY <2>2, <3>2
      <4>3. n # 1 => h[n - 1] = g[n - 1]
        BY <4>2
      <4>4. QED BY <4>1, <4>3
    <3>3. QED BY <3>1, <3>2
  <2> HIDE DEF h, Step
  <2>8. Solves(h, (m + 1) + 1)
    BY <2>2, <2>6, <2>7
  <2> HIDE DEF Solves
  <2>9. QED BY <2>2, <2>8
<1>3. b - 1 \in Nat /\ b - 1 \in 0 .. b - 1 /\ (b - 1) + 1 = b
  OBVIOUS
<1>4. b - 1 \in Solved
  <2> HIDE DEF Solved
  <2>1. QED BY <1>1, <1>2, <1>3, SetInduction
<1>5. PICK g : Solves(g, b)
  <2> HIDE DEF Solves
  <2>1. QED BY <1>3, <1>4
<1>6. 1 \in 1 .. b /\ \A n \in 2 .. b : n \in 1 .. b /\ n # 1
  OBVIOUS
<1>7. QED BY <1>5, <1>6 DEF Chain

Series(g, b, v, R) == g[0] = v /\ \A n \in 0 .. b - 1 : <<n, g[n], g[n + 1]>> \in R

\* The same for a function that begins at 0.
LEMMA RecursionFromZero ==
  ASSUME NEW V, NEW b \in Nat, NEW v \in V, NEW R,
         \A n \in 0 .. b - 1 : \A w \in V : \E u \in V : <<n, w, u>> \in R
  PROVE  \E g \in [0 .. b -> V] : Series(g, b, v, R)
<1> DEFINE Q == {p \in Nat \X V \X V : <<p[1] - 2, p[2], p[3]>> \in R}
<1>1. b + 1 \in Nat \ {0} /\ \A n \in 2 .. b + 1 : n - 2 \in 0 .. b - 1 /\ n \in Nat
  OBVIOUS
<1>2. \A n \in 2 .. b + 1 : \A w \in V : \E u \in V : <<n, w, u>> \in Q
  <2>1. ASSUME NEW n \in 2 .. b + 1, NEW w \in V PROVE \E u \in V : <<n, w, u>> \in Q
    <3>1. PICK u \in V : <<n - 2, w, u>> \in R
      BY <1>1
    <3>2. <<n, w, u>> \in Q
      BY <1>1, <3>1
    <3>3. QED BY <3>2
  <2>2. QED BY <2>1
<1>3. PICK g \in [1 .. b + 1 -> V] : Chain(g, b + 1, v, Q)
  <2> HIDE DEF Q
  <2>1. QED BY <1>1, <1>2, Recursion
<1> DEFINE h == [n \in 0 .. b |-> g[n + 1]]
<1>4. \A n \in 0 .. b : n + 1 \in 1 .. b + 1
  OBVIOUS
<1>5. h \in [0 .. b -> V] /\ h[0] = v
  BY <1>3, <1>4 DEF Chain
<1>6. ASSUME NEW n \in 0 .. b - 1 PROVE <<n, h[n], h[n + 1]>> \in R
  <2>1. /\ n + 2 \in 2 .. b + 1 /\ (n + 2) - 1 = n + 1 /\ (n + 2) - 2 = n /\ (n + 1) + 1 = n + 2
        /\ n \in 0 .. b /\ n + 1 \in 0 .. b
    OBVIOUS
  <2>2. <<n + 2, g[n + 1], g[n + 2]>> \in Q
    BY <1>3, <2>1 DEF Chain
  <2>3. h[n] = g[n + 1] /\ h[n + 1] = g[n + 2]
    BY <2>1
  <2>4. QED BY <2>1, <2>2, <2>3
<1>7. Series(h, b, v, R)
  BY <1>5, <1>6 DEF Series
<1>8. QED BY <1>5, <1>7

---------------------------------------------------------------------------
(* The places of a sequence after an operation *)

LEMMA AppendPlaces ==
  ASSUME NEW T, NEW s \in Seq(T), NEW e \in T
  PROVE  /\ Append(s, e) \in Seq(T)
         /\ Len(s) \in Nat /\ Len(Append(s, e)) = Len(s) + 1
         /\ \A k \in 1 .. Len(s) : Append(s, e)[k] = s[k]
         /\ Append(s, e)[Len(s) + 1] = e
  OBVIOUS

LEMMA TailPlaces ==
  ASSUME NEW T, NEW s \in Seq(T), s # <<>>
  PROVE  /\ Tail(s) \in Seq(T)
         /\ Len(s) \in Nat \ {0} /\ Len(Tail(s)) = Len(s) - 1
         /\ Head(s) = s[1] /\ Head(s) \in T
         /\ \A k \in 1 .. Len(s) - 1 : Tail(s)[k] = s[k + 1]
  OBVIOUS

LEMMA ConcatPlaces ==
  ASSUME NEW T, NEW s \in Seq(T), NEW t \in Seq(T)
  PROVE  /\ s \o t \in Seq(T)
         /\ Len(s) \in Nat /\ Len(t) \in Nat /\ Len(s \o t) = Len(s) + Len(t)
         /\ \A k \in 1 .. Len(s) : (s \o t)[k] = s[k]
         /\ \A k \in 1 .. Len(t) : (s \o t)[Len(s) + k] = t[k]
         /\ \A k \in Len(s) + 1 .. Len(s) + Len(t) : (s \o t)[k] = t[k - Len(s)]
  OBVIOUS

---------------------------------------------------------------------------
(* The sequence that is left when elements are taken out *)

\* k is a part of s, in its order: f says where each element of it was.
Embeds(f, k, s) ==
  /\ f \in [1 .. Len(k) -> 1 .. Len(s)]
  /\ \A a, b \in 1 .. Len(k) : a < b => f[a] < f[b]
  /\ \A a \in 1 .. Len(k) : k[a] = s[f[a]]

\* The function KeptUpTo is defined by a recursion, which has a solution.
LEMMA KeptDefined ==
  ASSUME NEW T, NEW s \in Seq(T), NEW S
  PROVE  /\ KeptUpTo(s, S)[0] = <<>>
         /\ \A n \in 0 .. Len(s) - 1 :
              KeptUpTo(s, S)[n + 1] =
                IF s[n + 1] \in S THEN Append(KeptUpTo(s, S)[n], s[n + 1])
                                  ELSE KeptUpTo(s, S)[n]
<1> DEFINE Step(g, n) == IF n = 0 THEN <<>>
                         ELSE IF s[n] \in S THEN Append(g[n - 1], s[n]) ELSE g[n - 1]
           Solves(g, m) == g = [n \in 0 .. m |-> Step(g, n)]
           Solved == {m \in Nat : \E g : Solves(g, m)}
<1>1. 0 \in Solved
  <2>1. Solves([n \in 0 .. 0 |-> <<>>], 0)
    OBVIOUS
  <2>2. QED BY <2>1
<1>2. ASSUME NEW m \in Nat, m \in Solved
      PROVE  m + 1 \in Solved
  <2>1. PICK g : Solves(g, m)
    BY <1>2
  <2> DEFINE h == [n \in 0 .. m + 1 |-> IF n <= m THEN g[n] ELSE Step(g, m + 1)]
  <2>2. ASSUME NEW n \in 0 .. m + 1 PROVE h[n] = Step(h, n)
    <3>1. CASE n <= m
      <4>1. n \in 0 .. m /\ h[n] = g[n] /\ (n # 0 => n - 1 \in 0 .. m /\ h[n - 1] = g[n - 1])
        BY <3>1
      <4>2. g[n] = Step(g, n)
        BY <2>1, <4>1
      <4>3. Step(g, n) = Step(h, n)
        BY <4>1
      <4>4. QED BY <4>1, <4>2, <4>3
    <3>2. CASE n = m + 1
      <4>1. h[n] = Step(g, n) /\ n # 0 /\ n - 1 \in 0 .. m /\ h[n - 1] = g[n - 1]
        BY <3>2
      <4>2. QED BY <4>1
    <3>3. QED BY <3>1, <3>2
  <2>3. Solves(h, m + 1)
    BY <2>2
  <2>4. m + 1 \in Nat
    OBVIOUS
  <2> HIDE DEF Solves
  <2>5. QED BY <2>3, <2>4
<1>3. /\ Len(s) \in Nat /\ Len(s) \in 0 .. Len(s)
      /\ \A n \in 0 .. Len(s) - 1 : n \in Nat
  OBVIOUS
<1>4. Len(s) \in Solved
  <2> HIDE DEF Solved
  <2>1. QED BY <1>1, <1>2, <1>3, SetInduction
<1>5. \E g : Solves(g, Len(s))
  BY <1>4
<1>6. KeptUpTo(s, S) = CHOOSE g : Solves(g, Len(s))
  BY DEF KeptUpTo
<1>7. Solves(KeptUpTo(s, S), Len(s))
  <2> HIDE DEF Solves
  <2>1. QED BY <1>5, <1>6
<1> DEFINE k == KeptUpTo(s, S)
<1>8. k = [n \in 0 .. Len(s) |-> Step(k, n)]
  BY <1>7
<1> HIDE DEF k
<1>9. k[0] = <<>>
  <2>1. 0 \in 0 .. Len(s)
    BY <1>3
  <2>2. QED BY <1>8, <2>1
<1>10. ASSUME NEW n \in 0 .. Len(s) - 1
       PROVE  k[n + 1] = IF s[n + 1] \in S THEN Append(k[n], s[n + 1]) ELSE k[n]
  <2>1. n + 1 \in 0 .. Len(s) /\ n + 1 # 0 /\ (n + 1) - 1 = n
    OBVIOUS
  <2>2. k[n + 1] = Step(k, n + 1)
    BY <1>8, <2>1
  <2>3. QED BY <2>1, <2>2
<1>11. QED BY <1>9, <1>10 DEF k

\* What Keep leaves is a part of the sequence, and of the set.
LEMMA KeepEmbeds ==
  ASSUME NEW T, NEW s \in Seq(T), NEW S
  PROVE  /\ Keep(s, S) \in Seq(T \cap S)
         /\ \E f : Embeds(f, Keep(s, S), s)
<1> DEFINE k(n) == KeptUpTo(s, S)[n]
           Part(n) == {f \in [1 .. Len(k(n)) -> 1 .. n] :
                         /\ \A a, b \in 1 .. Len(k(n)) : a < b => f[a] < f[b]
                         /\ \A a \in 1 .. Len(k(n)) : k(n)[a] = s[f[a]]}
           Good == {n \in Nat : k(n) \in Seq(T \cap S) /\ Part(n) # {}}
<1>1. 0 \in Good
  <2>1. k(0) = <<>>
    BY KeptDefined
  <2>2. Len(k(0)) = 0 /\ k(0) \in Seq(T \cap S)
    BY <2>1
  <2> HIDE DEF k
  <2>3. <<>> \in Part(0)
    BY <2>2
  <2> HIDE DEF Part
  <2>4. QED BY <2>2, <2>3
<1>2. ASSUME NEW n \in 0 .. Len(s) - 1, n \in Good
      PROVE  n + 1 \in Good
  <2> DEFINE e == s[n + 1]
  <2>0. e \in T /\ n \in Nat /\ n + 1 \in 0 .. Len(s)
    OBVIOUS
  <2>1. k(n + 1) = IF e \in S THEN Append(k(n), e) ELSE k(n)
    BY KeptDefined
  <2>2. PICK f \in Part(n) : TRUE
    BY <1>2
  <2>3. k(n) \in Seq(T \cap S)
    BY <1>2
  <2> HIDE DEF k
  <2>4. CASE e \in S
    <3> DEFINE l == Len(k(n))
               g == [a \in 1 .. l + 1 |-> IF a <= l THEN f[a] ELSE n + 1]
    <3>1. /\ k(n + 1) = Append(k(n), e) /\ k(n + 1) \in Seq(T \cap S)
          /\ Len(k(n + 1)) = l + 1 /\ l \in Nat
          /\ \A a \in 1 .. l : k(n + 1)[a] = k(n)[a]
          /\ k(n + 1)[l + 1] = e
      <4>1. e \in T \cap S /\ k(n + 1) = Append(k(n), e)
        BY <2>0, <2>1, <2>4
      <4>2. l \in Nat /\ Append(k(n), e) \in Seq(T \cap S)
            /\ Len(Append(k(n), e)) = l + 1
        BY <2>3, <4>1
      <4>3. \A a \in 1 .. l + 1 : Append(k(n), e)[a] = IF a <= l THEN k(n)[a] ELSE e
        BY <2>3, <4>1
      <4> DEFINE q == Append(k(n), e)
      <4> HIDE DEF q, l
      <4>4. /\ q \in Seq(T \cap S) /\ Len(q) = l + 1 /\ l \in Nat
            /\ \A a \in 1 .. l : q[a] = k(n)[a]
            /\ q[l + 1] = e
        BY <4>2, <4>3 DEF q
      <4>5. k(n + 1) = q
        BY <4>1 DEF q
      <4>6. QED BY <4>4, <4>5 DEF q
    <3>2. g \in [1 .. l + 1 -> 1 .. n + 1]
      BY <2>0, <2>2, <3>1
    <3>3. \A a, b \in 1 .. l + 1 : a < b => g[a] < g[b]
      BY <2>0, <2>2, <3>1
    <3>4. \A a \in 1 .. l + 1 : k(n + 1)[a] = s[g[a]]
      BY <2>0, <2>2, <3>1
    <3>5. g \in Part(n + 1)
      <4> HIDE DEF g
      <4>1. QED BY <3>1, <3>2, <3>3, <3>4
    <3>6. n + 1 \in Nat
      BY <2>0
    <3> HIDE DEF Part
    <3>7. QED BY <3>1, <3>5, <3>6
  <2>5. CASE e \notin S
    <3>1. k(n + 1) = k(n)
      BY <2>1, <2>5
    <3>2. f \in Part(n + 1)
      BY <2>0, <2>2, <3>1
    <3>3. k(n + 1) \in Seq(T \cap S) /\ n + 1 \in Nat
      BY <2>0, <2>3, <3>1
    <3> HIDE DEF Part, k
    <3>4. QED BY <3>2, <3>3
  <2>6. QED BY <2>4, <2>5
<1>3. Len(s) \in Nat /\ Len(s) \in 0 .. Len(s)
  OBVIOUS
<1>4. Len(s) \in Good
  <2> HIDE DEF Good
  <2>1. QED BY <1>1, <1>2, <1>3, SetInduction
<1>5. PICK f \in Part(Len(s)) : TRUE
  BY <1>4
<1>6. Embeds(f, Keep(s, S), s)
  BY <1>5 DEF Embeds, Keep
<1>7. QED BY <1>4, <1>6 DEF Keep

\* Every element that is left was there, and is in the set.
THEOREM KeepWithin ==
  ASSUME NEW T, NEW s \in Seq(T), NEW S, NEW i \in 1 .. Len(Keep(s, S))
  PROVE  /\ Keep(s, S)[i] \in S
         /\ \E j \in 1 .. Len(s) : s[j] = Keep(s, S)[i]
<1>1. PICK f : Embeds(f, Keep(s, S), s)
  BY KeepEmbeds
<1>2. Keep(s, S) \in Seq(T \cap S)
  BY KeepEmbeds
<1>3. f[i] \in 1 .. Len(s) /\ Keep(s, S)[i] = s[f[i]]
  BY <1>1 DEF Embeds
<1>4. Keep(s, S)[i] \in T \cap S
  BY <1>2
<1>5. QED BY <1>3, <1>4

\* A sequence without repetitions has none when elements are taken out.
THEOREM KeepInjective ==
  ASSUME NEW T, NEW s \in Seq(T), NEW S, IsInjective(s)
  PROVE  IsInjective(Keep(s, S))
<1>1. PICK f : Embeds(f, Keep(s, S), s)
  BY KeepEmbeds
<1>2. Keep(s, S) \in Seq(T \cap S)
  BY KeepEmbeds
<1> DEFINE k == Keep(s, S)
<1> HIDE DEF k
<1>3. ASSUME NEW a \in 1 .. Len(k), NEW b \in 1 .. Len(k), k[a] = k[b]
      PROVE  a = b
  <2>1. s[f[a]] = s[f[b]] /\ f[a] \in 1 .. Len(s) /\ f[b] \in 1 .. Len(s)
    BY <1>1, <1>3 DEF Embeds, k
  <2>2. f[a] = f[b]
    BY <2>1 DEF IsInjective
  <2>3. ~(a < b) /\ ~(b < a)
    BY <1>1, <2>1, <2>2 DEF Embeds, k
  <2>4. Len(k) \in Nat
    BY <1>2 DEF k
  <2>5. QED BY <2>3, <2>4
<1>4. QED BY <1>2, <1>3 DEF IsInjective, k

\* What is in the set is left.
THEOREM KeepAll ==
  ASSUME NEW T, NEW s \in Seq(T), NEW S, NEW j \in 1 .. Len(s), s[j] \in S
  PROVE  \E i \in 1 .. Len(Keep(s, S)) : Keep(s, S)[i] = s[j]
<1> DEFINE k(n) == KeptUpTo(s, S)[n]
           Good == {n \in Nat : /\ k(n) \in Seq(T)
                                /\ \A a \in 1 .. n : s[a] \in S =>
                                     \E i \in 1 .. Len(k(n)) : k(n)[i] = s[a]}
<1>1. 0 \in Good
  <2>1. k(0) = <<>>
    BY KeptDefined
  <2>2. k(0) \in Seq(T)
    BY <2>1
  <2> HIDE DEF k
  <2>3. QED BY <2>2
<1>2. ASSUME NEW n \in 0 .. Len(s) - 1, n \in Good
      PROVE  n + 1 \in Good
  <2>1. n + 1 \in Nat /\ n + 1 \in 1 .. Len(s) /\ s[n + 1] \in T /\ n \in Nat
    OBVIOUS
  <2>2. k(n + 1) = IF s[n + 1] \in S THEN Append(k(n), s[n + 1]) ELSE k(n)
    BY KeptDefined
  <2>3. PICK q \in Seq(T) : q = k(n)
    BY <1>2
  <2>4. \A a \in 1 .. n : s[a] \in S => \E i \in 1 .. Len(q) : q[i] = s[a]
    BY <1>2, <2>3
  <2>5. PICK e \in T : e = s[n + 1]
    BY <2>1
  <2>6. /\ k(n + 1) \in Seq(T)
        /\ \A i \in 1 .. Len(q) : i \in 1 .. Len(k(n + 1)) /\ k(n + 1)[i] = q[i]
        /\ e \in S => \E i \in 1 .. Len(k(n + 1)) : k(n + 1)[i] = e
    <3>1. CASE e \in S
      <4> DEFINE r == Append(q, e)
      <4>1. /\ r \in Seq(T) /\ Len(q) \in Nat /\ Len(r) = Len(q) + 1
            /\ \A i \in 1 .. Len(q) : r[i] = q[i]
            /\ r[Len(q) + 1] = e
        BY AppendPlaces
      <4>2. k(n + 1) = r
        BY <2>2, <2>3, <2>5, <3>1
      <4> HIDE DEF r, k
      <4>3. Len(q) + 1 \in 1 .. Len(r) /\ \A i \in 1 .. Len(q) : i \in 1 .. Len(r)
        BY <4>1
      <4>4. QED BY <4>1, <4>2, <4>3
    <3>2. CASE e \notin S
      <4>1. k(n + 1) = q
        BY <2>2, <2>3, <2>5, <3>2
      <4> HIDE DEF k
      <4>2. QED BY <3>2, <4>1
    <3>3. QED BY <3>1, <3>2
  <2> HIDE DEF k
  <2>7. ASSUME NEW a \in 1 .. n + 1, s[a] \in S
        PROVE  \E i \in 1 .. Len(k(n + 1)) : k(n + 1)[i] = s[a]
    <3>1. CASE a = n + 1
      BY <2>5, <2>6, <2>7, <3>1
    <3>2. CASE a # n + 1
      <4>1. a \in 1 .. n
        BY <2>1, <3>2
      <4>2. PICK i \in 1 .. Len(q) : q[i] = s[a]
        BY <2>4, <2>7, <4>1
      <4>3. QED BY <2>6, <4>2
    <3>3. QED BY <3>1, <3>2
  <2>8. QED BY <2>1, <2>6, <2>7
<1>3. Len(s) \in Nat /\ Len(s) \in 0 .. Len(s)
  OBVIOUS
<1>4. Len(s) \in Good
  <2> HIDE DEF Good
  <2>1. QED BY <1>1, <1>2, <1>3, SetInduction
<1>5. QED BY <1>4 DEF Keep

---------------------------------------------------------------------------
(* The elements of a sequence *)

LEMMA Elements ==
  ASSUME NEW T, NEW s \in Seq(T), NEW x
  PROVE  x \in ToSet(s) <=> \E i \in 1 .. Len(s) : s[i] = x
BY DEF ToSet

LEMMA KeepElements ==
  ASSUME NEW T, NEW s \in Seq(T), NEW S
  PROVE  /\ Keep(s, S) \in Seq(T)
         /\ ToSet(Keep(s, S)) = ToSet(s) \cap S
         /\ IsInjective(s) => IsInjective(Keep(s, S))
<1>1. PICK k \in Seq(T \cap S) : k = Keep(s, S)
  BY KeepEmbeds
<1>2. k \in Seq(T)
  OBVIOUS
<1>3. ASSUME NEW x PROVE x \in ToSet(k) <=> x \in ToSet(s) /\ x \in S
  <2>1. ASSUME x \in ToSet(k) PROVE x \in ToSet(s) /\ x \in S
    <3>1. PICK i \in 1 .. Len(k) : k[i] = x
      BY <1>2, <2>1, Elements
    <3>2. k[i] \in S /\ \E j \in 1 .. Len(s) : s[j] = k[i]
      BY <1>1, KeepWithin
    <3>3. QED BY <3>1, <3>2, Elements
  <2>2. ASSUME x \in ToSet(s), x \in S PROVE x \in ToSet(k)
    <3>1. PICK j \in 1 .. Len(s) : s[j] = x
      BY <2>2, Elements
    <3>2. \E i \in 1 .. Len(k) : k[i] = s[j]
      BY <1>1, <2>2, <3>1, KeepAll
    <3>3. QED BY <1>2, <3>1, <3>2, Elements
  <2>3. QED BY <2>1, <2>2
<1>4. QED BY <1>1, <1>2, <1>3, KeepInjective

LEMMA ConcatElements ==
  ASSUME NEW T, NEW s \in Seq(T), NEW t \in Seq(T)
  PROVE  /\ s \o t \in Seq(T)
         /\ ToSet(s \o t) = ToSet(s) \cup ToSet(t)
         /\ IsInjective(s) /\ IsInjective(t) /\ ToSet(s) \cap ToSet(t) = {} => IsInjective(s \o t)
<1>1. PICK u \in Seq(T) : u = s \o t
  BY ConcatPlaces
<1>2. /\ Len(s) \in Nat /\ Len(t) \in Nat /\ Len(u) = Len(s) + Len(t)
      /\ \A k \in 1 .. Len(s) : u[k] = s[k]
      /\ \A k \in 1 .. Len(t) : u[Len(s) + k] = t[k]
      /\ \A k \in Len(s) + 1 .. Len(s) + Len(t) : u[k] = t[k - Len(s)]
  BY <1>1, ConcatPlaces
<1>3. ASSUME NEW x PROVE x \in ToSet(u) <=> x \in ToSet(s) \/ x \in ToSet(t)
  <2>1. ASSUME NEW k \in 1 .. Len(u), u[k] = x PROVE x \in ToSet(s) \/ x \in ToSet(t)
    <3>1. CASE k <= Len(s)
      <4>1. k \in 1 .. Len(s) /\ s[k] = x
        BY <1>2, <2>1, <3>1
      <4>2. QED BY <4>1, Elements
    <3>2. CASE Len(s) < k
      <4>1. k - Len(s) \in 1 .. Len(t) /\ t[k - Len(s)] = x
        BY <1>2, <2>1, <3>2
      <4>2. QED BY <4>1, Elements
    <3>3. QED BY <1>2, <3>1, <3>2
  <2>2. ASSUME NEW k \in 1 .. Len(s), s[k] = x PROVE x \in ToSet(u)
    <3>1. k \in 1 .. Len(u) /\ u[k] = x
      BY <1>2, <2>2
    <3>2. QED BY <3>1, Elements
  <2>3. ASSUME NEW k \in 1 .. Len(t), t[k] = x PROVE x \in ToSet(u)
    <3>1. Len(s) + k \in 1 .. Len(u) /\ u[Len(s) + k] = x
      BY <1>2, <2>3
    <3>2. QED BY <3>1, Elements
  <2>4. QED BY <2>1, <2>2, <2>3, Elements
<1>4. ASSUME IsInjective(s), IsInjective(t), ToSet(s) \cap ToSet(t) = {} PROVE IsInjective(u)
  <2>1. ASSUME NEW i \in 1 .. Len(u), NEW j \in 1 .. Len(u), u[i] = u[j] PROVE i = j
    <3>1. CASE i <= Len(s) /\ j <= Len(s)
      <4>1. i \in 1 .. Len(s) /\ j \in 1 .. Len(s) /\ s[i] = s[j]
        BY <1>2, <2>1, <3>1
      <4>2. QED BY <1>4, <4>1 DEF IsInjective
    <3>2. CASE Len(s) < i /\ Len(s) < j
      <4>1. /\ i - Len(s) \in 1 .. Len(t) /\ j - Len(s) \in 1 .. Len(t)
            /\ t[i - Len(s)] = t[j - Len(s)]
        BY <1>2, <2>1, <3>2
      <4>2. i - Len(s) = j - Len(s)
        BY <1>4, <4>1 DEF IsInjective
      <4>3. QED BY <1>2, <4>2
    <3>3. CASE i <= Len(s) /\ Len(s) < j
      <4>1. i \in 1 .. Len(s) /\ j - Len(s) \in 1 .. Len(t) /\ s[i] = t[j - Len(s)]
        BY <1>2, <2>1, <3>3
      <4>2. s[i] \in ToSet(s) /\ s[i] \in ToSet(t)
        BY <4>1, Elements
      <4>3. QED BY <1>4, <4>2
    <3>4. CASE j <= Len(s) /\ Len(s) < i
      <4>1. j \in 1 .. Len(s) /\ i - Len(s) \in 1 .. Len(t) /\ s[j] = t[i - Len(s)]
        BY <1>2, <2>1, <3>4
      <4>2. s[j] \in ToSet(s) /\ s[j] \in ToSet(t)
        BY <4>1, Elements
      <4>3. QED BY <1>4, <4>2
    <3>5. QED BY <1>2, <3>1, <3>2, <3>3, <3>4
  <2>2. QED BY <2>1 DEF IsInjective
<1>5. QED BY <1>1, <1>3, <1>4

LEMMA UnitElements ==
  ASSUME NEW T, NEW x \in T
  PROVE  <<x>> \in Seq(T) /\ ToSet(<<x>>) = {x} /\ IsInjective(<<x>>)
<1>1. <<x>> \in Seq(T) /\ Len(<<x>>) = 1 /\ <<x>>[1] = x
  OBVIOUS
<1>2. QED BY <1>1 DEF ToSet, IsInjective

\* Adding at either end.
LEMMA AddedElements ==
  ASSUME NEW T, NEW s \in Seq(T), NEW x \in T
  PROVE  /\ Append(s, x) \in Seq(T) /\ <<x>> \o s \in Seq(T)
         /\ ToSet(Append(s, x)) = ToSet(s) \cup {x} /\ ToSet(<<x>> \o s) = ToSet(s) \cup {x}
         /\ IsInjective(s) /\ x \notin ToSet(s)
              => IsInjective(Append(s, x)) /\ IsInjective(<<x>> \o s)
<1>1. Append(s, x) = s \o <<x>>
  OBVIOUS
<1>2. PICK u \in Seq(T) : u = <<x>>
  BY UnitElements
<1>3. ToSet(u) = {x} /\ IsInjective(u)
  BY <1>2, UnitElements
<1>4. /\ s \o u \in Seq(T) /\ u \o s \in Seq(T)
      /\ ToSet(s \o u) = ToSet(s) \cup ToSet(u) /\ ToSet(u \o s) = ToSet(s) \cup ToSet(u)
      /\ IsInjective(s) /\ ToSet(s) \cap ToSet(u) = {} => IsInjective(s \o u) /\ IsInjective(u \o s)
  BY <1>3, ConcatElements
<1>5. QED BY <1>1, <1>2, <1>3, <1>4

\* The first of a sequence without repetitions is taken off.
LEMMA TailElements ==
  ASSUME NEW T, NEW s \in Seq(T), s # <<>>, IsInjective(s)
  PROVE  /\ Tail(s) \in Seq(T) /\ Head(s) \in T /\ Head(s) \in ToSet(s)
         /\ ToSet(Tail(s)) = ToSet(s) \ {Head(s)}
         /\ IsInjective(Tail(s))
<1>1. PICK len \in Nat \ {0}, t \in Seq(T), h \in T :
        /\ len = Len(s) /\ t = Tail(s) /\ h = Head(s)
        /\ Len(t) = len - 1 /\ h = s[1]
        /\ \A k \in 1 .. len - 1 : t[k] = s[k + 1]
  <2>1. /\ Tail(s) \in Seq(T) /\ Len(s) \in Nat \ {0} /\ Len(Tail(s)) = Len(s) - 1
        /\ Head(s) = s[1] /\ Head(s) \in T
        /\ \A k \in 1 .. Len(s) - 1 : Tail(s)[k] = s[k + 1]
    BY TailPlaces
  <2>2. QED BY <2>1, Zenon
<1>2. \A i, j \in 1 .. len : s[i] = s[j] => i = j
  BY <1>1 DEF IsInjective
<1>3. \A k \in 1 .. len - 1 : k + 1 \in 1 .. len /\ k + 1 # 1
  BY <1>1
<1>4. \A k \in 1 .. len : k = 1 \/ (k - 1 \in 1 .. len - 1 /\ (k - 1) + 1 = k)
  BY <1>1
<1>5. 1 \in 1 .. len
  BY <1>1
<1>6. h \in ToSet(s)
  BY <1>1, <1>5, Elements
<1>7. ASSUME NEW x PROVE x \in ToSet(t) <=> x \in ToSet(s) /\ x # h
  <2>1. ASSUME x \in ToSet(t) PROVE x \in ToSet(s) /\ x # h
    <3>1. PICK k \in 1 .. len - 1 : t[k] = x
      <4>1. PICK k \in 1 .. Len(t) : t[k] = x
        BY <2>1, Elements
      <4>2. QED BY <1>1, <4>1
    <3>2. s[k + 1] = x /\ k + 1 \in 1 .. len /\ s[k + 1] # s[1]
      BY <1>1, <1>2, <1>3, <1>5, <3>1
    <3>3. QED BY <1>1, <3>2, Elements
  <2>2. ASSUME x \in ToSet(s), x # h PROVE x \in ToSet(t)
    <3>1. PICK k \in 1 .. len : s[k] = x
      <4>1. PICK k \in 1 .. Len(s) : s[k] = x
        BY <2>2, Elements
      <4>2. QED BY <1>1, <4>1
    <3>2. k - 1 \in 1 .. len - 1 /\ (k - 1) + 1 = k
      BY <1>1, <1>4, <2>2, <3>1
    <3>3. t[k - 1] = x
      BY <1>1, <3>1, <3>2
    <3>4. QED BY <1>1, <3>2, <3>3, Elements
  <2>3. QED BY <2>1, <2>2
<1>8. IsInjective(t)
  <2>1. ASSUME NEW i \in 1 .. len - 1, NEW j \in 1 .. len - 1, t[i] = t[j] PROVE i = j
    <3>1. s[i + 1] = s[j + 1] /\ i + 1 \in 1 .. len /\ j + 1 \in 1 .. len
      BY <1>1, <1>3, <2>1
    <3>2. i + 1 = j + 1
      BY <1>2, <3>1
    <3>3. QED BY <3>2
  <2>2. QED BY <1>1, <2>1 DEF IsInjective
<1>9. QED BY <1>1, <1>6, <1>7, <1>8
=============================================================================
