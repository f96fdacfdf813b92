------------------------------ MODULE FiniteLemmas ------------------------------
(***************************************************************************)
(* Facts about finite sets, numbers and sequences that the proofs of       *)
(* several modules need: least and greatest members, induction in a form   *)
(* that speaks of the set of values that qualify, what is left of a        *)
(* filtered sequence, and a set in the order of its numbers.               *)
(***************************************************************************)
EXTENDS Integers, FiniteSetsExt, FiniteSetTheorems, WellFoundedInduction,
        FunctionTheorems, Listings, SequenceTheorems, TLAPS

(* A set of numbers that is not empty has a least member: Min is one of    *)
(* its members and no member is below it.                                  *)
LEMMA LeastMember ==
    ASSUME NEW T \in SUBSET Nat, T # {}
    PROVE  Min(T) \in T /\ \A m \in T : Min(T) <= m
<1>1. PICK n \in T : \A m \in T : ~ (<<m, n>> \in OpToRel(<, Nat))
  BY NatLessThanWellFounded, WFMin, Zenon
<1>2. \A m \in T : ~ (m < n)
  BY <1>1 DEF OpToRel
<1>3. \A m \in T : n <= m
  BY <1>2
<1> QED BY <1>3 DEF Min

(* U is in the family F and contains no other member of it.                *)
SmallestIn(U, F) == U \in F /\ \A V \in F : V \subseteq U => V = U

(* A family of subsets of a finite set has such a member.                  *)
LEMMA SmallestSet ==
    ASSUME NEW S, IsFiniteSet(S), NEW F, F \subseteq SUBSET S, F # {}
    PROVE  \E U : SmallestIn(U, F)
<1>1. F \subseteq FiniteSubsetsOf(S)
  BY FS_FiniteSubsetsOfFinite
<1>2. PICK U \in F : \A V \in F : ~ (<<V, U>> \in StrictSubsetOrdering(S))
  BY <1>1, FS_StrictSubsetOrderingWellFounded, WFMin, Zenon
<1> QED BY <1>2 DEF StrictSubsetOrdering, SmallestIn

(* Induction over a finite set, for a family of its subsets: a family that *)
(* holds the empty set and is closed under adding an element holds the set.*)
LEMMA ElementByElement ==
    ASSUME NEW S, IsFiniteSet(S), NEW F,
           {} \in F, \A U \in SUBSET S : \A x \in S \ U : U \in F => U \cup {x} \in F
    PROVE  S \in F
<1> DEFINE Left == {U \in SUBSET S : U \notin F}
<1>1. SUFFICES ASSUME Left # {} PROVE FALSE
  BY <1>1
<1>2. PICK U : SmallestIn(U, Left)
  <2>1. Left \subseteq SUBSET S
    OBVIOUS
  <2> HIDE DEF Left
  <2> QED BY <1>1, <2>1, SmallestSet
<1>3. U \in SUBSET S /\ U \notin F /\ \A V \in SUBSET S : V \subseteq U /\ V # U => V \in F
  BY <1>2 DEF SmallestIn
<1>4. PICK x \in U : TRUE
  BY <1>3
<1>5. U \ {x} \in SUBSET S /\ x \in S \ (U \ {x}) /\ (U \ {x}) \cup {x} = U /\ U \ {x} # U
  BY <1>3, <1>4
<1>6. U \ {x} \in F
  BY <1>3, <1>5
<1>7. (U \ {x}) \cup {x} \in F
  BY <1>5, <1>6
<1> QED BY <1>3, <1>5, <1>7

(* A finite set of numbers that is not empty has a greatest member.        *)
LEMMA GreatestMember ==
    ASSUME NEW S \in SUBSET Nat, IsFiniteSet(S), S # {}
    PROVE  Max(S) \in S /\ \A m \in S : m <= Max(S)
<1> DEFINE Topped(U) == U = {} \/ \E n \in U : \A m \in U : m <= n
           F == {U \in SUBSET S : Topped(U)}
<1>1. {} \in F
  OBVIOUS
<1>2. ASSUME NEW U \in SUBSET S, NEW x \in S \ U, U \in F PROVE U \cup {x} \in F
  <2>1. CASE U = {}
    BY <2>1
  <2>2. CASE U # {}
    <3>1. PICK n \in U : \A m \in U : m <= n
      BY <1>2, <2>2
    <3>2. \E k \in U \cup {x} : \A m \in U \cup {x} : m <= k
      <4>1. CASE x <= n
        BY <3>1, <4>1
      <4>2. CASE ~ (x <= n)
        BY <3>1, <4>2
      <4> QED BY <4>1, <4>2
    <3> QED BY <3>2
  <2> QED BY <2>1, <2>2
<1>3. S \in F
  <2> HIDE DEF F
  <2> QED BY <1>1, <1>2, ElementByElement
<1> QED BY <1>3 DEF Max

(* Induction on a bounded counter, for the set of values that qualify.     *)
LEMMA CountUp ==
    ASSUME NEW T, NEW n \in Nat, 0 \in T, \A k \in 0 .. (n - 1) : k \in T => k + 1 \in T
    PROVE  0 .. n \subseteq T
<1> DEFINE Left == {k \in 0 .. n : k \notin T}
<1>1. SUFFICES ASSUME Left # {} PROVE FALSE
  BY <1>1
<1>2. Left \in SUBSET Nat
  OBVIOUS
<1>3. Min(Left) \in Left /\ \A k \in Left : Min(Left) <= k
  <2> HIDE DEF Left
  <2> QED BY <1>1, <1>2, LeastMember
<1>4. PICK k \in 0 .. n : k \notin T /\ \A j \in 0 .. n : j \notin T => k <= j
  BY <1>3
<1>5. k # 0 /\ k - 1 \in 0 .. (n - 1)
  BY <1>4
<1>6. k - 1 \in T
  BY <1>4, <1>5
<1>7. (k - 1) + 1 \in T
  BY <1>5, <1>6
<1> QED BY <1>4, <1>5, <1>7

(***************************************************************************)
(* Ranks: how many elements come before an element of an ordered set.      *)
(***************************************************************************)

Lesser(S, R, a) == {x \in S : <<x, a>> \in R}

StrictOrder(S, R) ==
    /\ \A a \in S : <<a, a>> \notin R
    /\ \A a, b \in S : <<a, b>> \in R \/ a = b \/ <<b, a>> \in R
    /\ \A a, b, c \in S : <<a, b>> \in R /\ <<b, c>> \in R => <<a, c>> \in R

(* The ranks of a finite, totally ordered set ascend with it and are the   *)
(* numbers below its cardinality, each the rank of one element.            *)
LEMMA RanksOfOrder ==
    ASSUME NEW S, IsFiniteSet(S), NEW R, StrictOrder(S, R)
    PROVE  /\ \A a \in S : Cardinality(Lesser(S, R, a)) \in 0 .. (Cardinality(S) - 1)
           /\ \A a, b \in S : <<a, b>> \in R =>
                  Cardinality(Lesser(S, R, a)) < Cardinality(Lesser(S, R, b))
           /\ \A n \in 0 .. (Cardinality(S) - 1) :
                  \E a \in S : Cardinality(Lesser(S, R, a)) = n
<1>0. Cardinality(S) \in Nat
  BY FS_CardinalityType
<1>1. \A a \in S : /\ Lesser(S, R, a) \in SUBSET S
                   /\ IsFiniteSet(Lesser(S, R, a)) /\ Cardinality(Lesser(S, R, a)) \in Nat
  <2>1. \A a \in S : Lesser(S, R, a) \in SUBSET S
    BY DEF Lesser
  <2> QED BY <2>1, FS_Subset, FS_CardinalityType
<1>2. ASSUME NEW a \in S PROVE Cardinality(Lesser(S, R, a)) \in 0 .. (Cardinality(S) - 1)
  <2>1. Lesser(S, R, a) # S
    BY DEF Lesser, StrictOrder
  <2>2. /\ Cardinality(Lesser(S, R, a)) <= Cardinality(S)
        /\ Cardinality(Lesser(S, R, a)) # Cardinality(S)
    BY <1>1, <2>1, FS_Subset
  <2> QED BY <1>0, <1>1, <2>2
<1>3. ASSUME NEW a \in S, NEW b \in S, <<a, b>> \in R
      PROVE  Cardinality(Lesser(S, R, a)) < Cardinality(Lesser(S, R, b))
  <2>1. Lesser(S, R, a) \in SUBSET Lesser(S, R, b)
    BY <1>3 DEF Lesser, StrictOrder
  <2>2. a \in Lesser(S, R, b) /\ a \notin Lesser(S, R, a)
    BY <1>3 DEF Lesser, StrictOrder
  <2>3. /\ Cardinality(Lesser(S, R, a)) <= Cardinality(Lesser(S, R, b))
        /\ Cardinality(Lesser(S, R, a)) # Cardinality(Lesser(S, R, b))
    BY <1>1, <2>1, <2>2, FS_Subset
  <2> QED BY <1>1, <2>3
<1>4. ASSUME NEW n \in 0 .. (Cardinality(S) - 1)
      PROVE  \E a \in S : Cardinality(Lesser(S, R, a)) = n
  <2> DEFINE T == 0 .. (Cardinality(S) - 1)
             f == [a \in S |-> Cardinality(Lesser(S, R, a))]
  <2>1. IsFiniteSet(T) /\ Cardinality(T) = Cardinality(S)
    BY <1>0, FS_Interval
  <2>2. f \in Injection(S, T)
    <3>1. f \in [S -> T]
      BY <1>2
    <3>2. ASSUME NEW a \in S, NEW b \in S, f[a] = f[b] PROVE a = b
      <4>1. ~(f[a] < f[b]) /\ ~(f[b] < f[a])
        BY <1>1, <3>2
      <4>2. <<a, b>> \notin R /\ <<b, a>> \notin R
        BY <1>3, <4>1
      <4> QED BY <4>2 DEF StrictOrder
    <3> QED BY <3>1, <3>2 DEF Injection, IsInjective
  <2> HIDE DEF f, T
  <2>3. f \in Surjection(S, T)
    BY <2>1, <2>2, FS_Injection
  <2>4. \E a \in S : f[a] = n
    BY <2>3 DEF Surjection, T
  <2> QED BY <2>4 DEF f
<1> QED BY <1>2, <1>3, <1>4

(* For numbers: a member of a finite set is found by how many members are  *)
(* below it.                                                               *)
LEMMA NumberRanks ==
    ASSUME NEW S \in SUBSET Nat, IsFiniteSet(S)
    PROVE  /\ \A i \in S : Cardinality({j \in S : j < i}) \in 0 .. (Cardinality(S) - 1)
           /\ \A h, i \in S : h < i =>
                  Cardinality({j \in S : j < h}) < Cardinality({j \in S : j < i})
           /\ \A n \in 0 .. (Cardinality(S) - 1) :
                  \E i \in S : Cardinality({j \in S : j < i}) = n
<1> DEFINE R == {e \in S \X S : e[1] < e[2]}
<1>1. \A i, j \in S : <<i, j>> \in R <=> i < j
  OBVIOUS
<1>2. \A i \in S : Lesser(S, R, i) = {j \in S : j < i}
  BY <1>1 DEF Lesser
<1> HIDE DEF R
<1>3. StrictOrder(S, R)
  BY <1>1 DEF StrictOrder
<1>4. /\ \A a \in S : Cardinality(Lesser(S, R, a)) \in 0 .. (Cardinality(S) - 1)
      /\ \A a, b \in S : <<a, b>> \in R =>
             Cardinality(Lesser(S, R, a)) < Cardinality(Lesser(S, R, b))
      /\ \A n \in 0 .. (Cardinality(S) - 1) :
             \E a \in S : Cardinality(Lesser(S, R, a)) = n
  BY <1>3, RanksOfOrder
<1> QED BY <1>1, <1>2, <1>4

(***************************************************************************)
(* Recursion on a counter, and filtered sequences                          *)
(***************************************************************************)

(* The function that starts at x and takes step i to its value at i.       *)
Iterates(f, x, n, step) ==
    /\ f[0] = x
    /\ \A i \in 1 .. n : f[i] = step[<<i, f[i - 1]>>]

(* A function defined by recursion on a counter exists, and stays in V.    *)
LEMMA StepByStep ==
    ASSUME NEW V, NEW x \in V, NEW n \in Nat, NEW step,
           \A i \in 1 .. n : \A v \in V : step[<<i, v>>] \in V
    PROVE  \E f \in [0 .. n -> V] : Iterates(f, x, n, step)
<1> DEFINE Steps(f, m) == /\ f \in [0 .. m -> V]
                          /\ f[0] = x
                          /\ \A i \in 1 .. m : f[i] = step[<<i, f[i - 1]>>]
           T == {m \in 0 .. n : \E f : Steps(f, m)}
<1>1. 0 \in T
  <2>1. Steps([i \in 0 .. 0 |-> x], 0)
    OBVIOUS
  <2>2. 0 \in 0 .. n
    OBVIOUS
  <2> HIDE DEF Steps
  <2> QED BY <2>1, <2>2
<1>2. ASSUME NEW m \in 0 .. (n - 1), m \in T PROVE m + 1 \in T
  <2>1. PICK f : Steps(f, m)
    BY <1>2
  <2> DEFINE g == [i \in 0 .. (m + 1) |-> IF i = m + 1 THEN step[<<m + 1, f[m]>>] ELSE f[i]]
  <2>2. f[m] \in V /\ step[<<m + 1, f[m]>>] \in V
    BY <2>1
  <2>3. g \in [0 .. (m + 1) -> V] /\ g[0] = x /\ g[m + 1] = step[<<m + 1, f[m]>>]
        /\ \A i \in 0 .. m : g[i] = f[i]
    BY <2>1, <2>2
  <2> HIDE DEF g
  <2>4. ASSUME NEW i \in 1 .. (m + 1) PROVE g[i] = step[<<i, g[i - 1]>>]
    <3>1. CASE i = m + 1
      <4>1. i - 1 = m /\ m \in 0 .. m
        BY <3>1
      <4> QED BY <2>3, <3>1, <4>1
    <3>2. CASE i # m + 1
      <4>1. i \in 1 .. m /\ i \in 0 .. m /\ i - 1 \in 0 .. m
        BY <3>2
      <4> QED BY <2>1, <2>3, <4>1
    <3> QED BY <3>1, <3>2
  <2>5. Steps(g, m + 1)
    BY <2>3, <2>4
  <2> QED BY <2>5
<1>3. n \in T
  <2>1. 0 .. n \subseteq T
    <3> HIDE DEF T
    <3> QED BY <1>1, <1>2, CountUp
  <2> QED BY <2>1
<1>4. PICK f : Steps(f, n)
  BY <1>3
<1> QED BY <1>4 DEF Iterates

IsFilter(f, s, keep) ==
    f = [n \in 0 .. Len(s) |->
           IF n = 0 THEN <<>>
           ELSE IF s[n] \in keep THEN Append(f[n - 1], s[n]) ELSE f[n - 1]]

Unfolds(f, s, keep) ==
    /\ f[0] = <<>>
    /\ \A n \in 1 .. Len(s) :
         f[n] = IF s[n] \in keep THEN Append(f[n - 1], s[n]) ELSE f[n - 1]
    /\ Filtered(s, keep) = f[Len(s)]

(* The filter of a sequence, prefix by prefix.                             *)
LEMMA FilterUnfolds ==
    ASSUME NEW S, NEW s \in Seq(S), NEW keep
    PROVE  \E f \in [0 .. Len(s) -> Seq(S \cap keep)] : Unfolds(f, s, keep)
<1> DEFINE V == Seq(S \cap keep)
           step == [p \in (1 .. Len(s)) \X V |->
                      IF s[p[1]] \in keep THEN Append(p[2], s[p[1]]) ELSE p[2]]
<1>1. \A i \in 1 .. Len(s) : \A v \in V :
        step[<<i, v>>] = (IF s[i] \in keep THEN Append(v, s[i]) ELSE v) /\ step[<<i, v>>] \in V
  OBVIOUS
<1>2. <<>> \in V /\ Len(s) \in Nat
  OBVIOUS
<1> HIDE DEF step, V
<1>0. \A i \in 1 .. Len(s) : \A v \in V : step[<<i, v>>] \in V
  BY <1>1
<1>3. PICK f \in [0 .. Len(s) -> V] : Iterates(f, <<>>, Len(s), step)
  <2>1. PICK n \in Nat, x \in V : n = Len(s) /\ x = <<>>
    BY <1>2
  <2>2. \A i \in 1 .. n : \A v \in V : step[<<i, v>>] \in V
    BY <1>0, <2>1
  <2>3. \E f \in [0 .. n -> V] : Iterates(f, x, n, step)
    BY <2>2, StepByStep
  <2> QED BY <2>1, <2>3
<1>4. \A i \in 0 .. Len(s) :
        f[i] = IF i = 0 THEN <<>>
               ELSE IF s[i] \in keep THEN Append(f[i - 1], s[i]) ELSE f[i - 1]
  <2> SUFFICES ASSUME NEW i \in 0 .. Len(s), i # 0
               PROVE f[i] = IF s[i] \in keep THEN Append(f[i - 1], s[i]) ELSE f[i - 1]
    BY <1>2, <1>3 DEF Iterates
  <2>1. i \in 1 .. Len(s) /\ i - 1 \in 0 .. Len(s)
    BY <1>2
  <2> QED BY <1>1, <1>3, <2>1 DEF Iterates
<1>5. f = [i \in 0 .. Len(s) |->
             IF i = 0 THEN <<>>
             ELSE IF s[i] \in keep THEN Append(f[i - 1], s[i]) ELSE f[i - 1]]
  BY <1>3, <1>4
<1>6. IsFilter(f, s, keep)
  BY <1>5 DEF IsFilter
<1> DEFINE h == CHOOSE g : IsFilter(g, s, keep)
<1>7. IsFilter(h, s, keep)
  BY <1>6
<1>8. Filtered(s, keep) = h[Len(s)]
  BY DEF Filtered, IsFilter
<1> HIDE DEF h
<1>9. h = [i \in 0 .. Len(s) |->
             IF i = 0 THEN <<>>
             ELSE IF s[i] \in keep THEN Append(h[i - 1], s[i]) ELSE h[i - 1]]
  BY <1>7 DEF IsFilter
<1>10. h[0] = <<>>
       /\ \A i \in 1 .. Len(s) : h[i] = IF s[i] \in keep THEN Append(h[i - 1], s[i]) ELSE h[i - 1]
  <2>1. \A i \in 0 .. Len(s) :
          h[i] = IF i = 0 THEN <<>>
                 ELSE IF s[i] \in keep THEN Append(h[i - 1], s[i]) ELSE h[i - 1]
    BY <1>9, Zenon
  <2>2. 0 \in 0 .. Len(s) /\ \A i \in 1 .. Len(s) : i \in 0 .. Len(s) /\ i # 0
    BY <1>2
  <2> QED BY <2>1, <2>2, Zenon
<1>11. h[Len(s)] = f[Len(s)]
  <2> DEFINE T == {i \in 0 .. Len(s) : h[i] = f[i]}
  <2>1. 0 \in T
    BY <1>2, <1>4, <1>10
  <2>2. ASSUME NEW k \in 0 .. (Len(s) - 1), k \in T PROVE k + 1 \in T
    <3>1. k + 1 \in 1 .. Len(s) /\ k + 1 \in 0 .. Len(s) /\ (k + 1) - 1 = k /\ k + 1 # 0
      BY <1>2
    <3>2. h[k] = f[k]
      BY <2>2
    <3>3. h[k + 1] = f[k + 1]
      BY <1>4, <1>10, <3>1, <3>2
    <3> QED BY <3>1, <3>3
  <2>3. 0 .. Len(s) \subseteq T
    <3> HIDE DEF T
    <3> QED BY <1>2, <2>1, <2>2, CountUp
  <2> QED BY <1>2, <2>3
<1>12. f[0] = <<>> /\ \A n \in 1 .. Len(s) :
         f[n] = IF s[n] \in keep THEN Append(f[n - 1], s[n]) ELSE f[n - 1]
  <2>1. 0 \in 0 .. Len(s) /\ \A i \in 1 .. Len(s) : i \in 0 .. Len(s) /\ i # 0
    BY <1>2
  <2> QED BY <1>4, <2>1, Zenon
<1> QED BY <1>3, <1>8, <1>11, <1>12 DEF V, Unfolds

(* Induction on sequences, for the set of those that qualify.              *)
LEMMA AppendByAppend ==
    ASSUME NEW S, NEW T, <<>> \in T,
           \A s \in Seq(S), x \in S : s \in T => Append(s, x) \in T
    PROVE  Seq(S) \subseteq T
<1> SUFFICES ASSUME NEW s \in Seq(S) PROVE s \in T
  OBVIOUS
<1> DEFINE N == {n \in 0 .. Len(s) : SubSeq(s, 1, n) \in T}
<1>1. Len(s) \in Nat
  OBVIOUS
<1>2. 0 \in N
  <2>1. SubSeq(s, 1, 0) = <<>>
    OBVIOUS
  <2>2. 0 \in 0 .. Len(s)
    BY <1>1
  <2> QED BY <2>1, <2>2
<1>3. ASSUME NEW n \in 0 .. (Len(s) - 1), n \in N PROVE n + 1 \in N
  <2>1. n + 1 \in 1 .. Len(s) /\ n + 1 \in 0 .. Len(s) /\ n \in Nat
    BY <1>1
  <2>2. SubSeq(s, 1, n) \in Seq(S) /\ s[n + 1] \in S
    BY <2>1
  <2>3. SubSeq(s, 1, n + 1) = Append(SubSeq(s, 1, n), s[n + 1])
    BY <2>1, <2>2
  <2> QED BY <1>3, <2>1, <2>2, <2>3
<1>4. Len(s) \in N
  <2>1. 0 .. Len(s) \subseteq N
    <3> HIDE DEF N
    <3> QED BY <1>1, <1>2, <1>3, CountUp
  <2> QED BY <1>1, <2>1
<1>5. SubSeq(s, 1, Len(s)) = s
  OBVIOUS
<1> QED BY <1>4, <1>5

(* Nothing is left of nothing.                                             *)
LEMMA FilterEmpty == \A keep : Filtered(<<>>, keep) = <<>>
<1> SUFFICES ASSUME NEW keep PROVE Filtered(<<>>, keep) = <<>>
  OBVIOUS
<1>1. PICK s \in Seq({}) : s = <<>>
  BY EmptySeq
<1>2. PICK f \in [0 .. Len(s) -> Seq({} \cap keep)] : Unfolds(f, s, keep)
  BY FilterUnfolds
<1>3. Len(s) = 0
  BY <1>1
<1> QED BY <1>1, <1>2, <1>3 DEF Unfolds

(* One more element stays, or does not.                                    *)
LEMMA FilterAppend ==
    ASSUME NEW S, NEW s \in Seq(S), NEW x \in S, NEW keep
    PROVE  Filtered(Append(s, x), keep) =
             IF x \in keep THEN Append(Filtered(s, keep), x) ELSE Filtered(s, keep)
<1>0. Append(s, x) \in Seq(S)
  OBVIOUS
<1>1. PICK t \in Seq(S) : t = Append(s, x)
  BY <1>0
<1>2. Len(s) \in Nat /\ Len(t) = Len(s) + 1 /\ t[Len(s) + 1] = x
      /\ \A i \in 1 .. Len(s) : t[i] = s[i]
  BY <1>1
<1>3. PICK f \in [0 .. Len(s) -> Seq(S \cap keep)] : Unfolds(f, s, keep)
  BY FilterUnfolds
<1>4. PICK g \in [0 .. Len(t) -> Seq(S \cap keep)] : Unfolds(g, t, keep)
  BY FilterUnfolds
<1> DEFINE T == {n \in 0 .. Len(s) : g[n] = f[n]}
<1>5. 0 \in T
  BY <1>2, <1>3, <1>4 DEF Unfolds
<1>6. ASSUME NEW k \in 0 .. (Len(s) - 1), k \in T PROVE k + 1 \in T
  <2>1. k + 1 \in 1 .. Len(s) /\ k + 1 \in 1 .. Len(t) /\ (k + 1) - 1 = k /\ k + 1 \in 0 .. Len(s)
    BY <1>2
  <2>2. g[k] = f[k] /\ t[k + 1] = s[k + 1]
    BY <1>2, <1>6, <2>1
  <2>3. g[k + 1] = f[k + 1]
    BY <1>3, <1>4, <2>1, <2>2 DEF Unfolds
  <2> QED BY <2>1, <2>3
<1>7. g[Len(s)] = f[Len(s)]
  <2>1. 0 .. Len(s) \subseteq T
    <3> HIDE DEF T
    <3> QED BY <1>2, <1>5, <1>6, CountUp
  <2> QED BY <1>2, <2>1
<1>8. Len(s) + 1 \in 1 .. Len(t) /\ (Len(s) + 1) - 1 = Len(s)
  BY <1>2
<1>9. g[Len(t)] = IF x \in keep THEN Append(g[Len(s)], x) ELSE g[Len(s)]
  BY <1>2, <1>4, <1>8 DEF Unfolds
<1> QED BY <1>1, <1>3, <1>4, <1>7, <1>9 DEF Unfolds

(* e places what is left, f, in s: in the order of s, without a gap.       *)
Embeds(e, f, s, keep) ==
    /\ e \in [1 .. Len(f) -> 1 .. Len(s)]
    /\ \A m, n \in 1 .. Len(f) : m < n => e[m] < e[n]
    /\ \A n \in 1 .. Len(f) : f[n] = s[e[n]]
    /\ \A i \in 1 .. Len(s) : s[i] \in keep => \E n \in 1 .. Len(f) : e[n] = i

(* What is left are the elements to keep, each once for its place in s.    *)
LEMMA FilterPlaces ==
    ASSUME NEW S, NEW keep
    PROVE  \A s \in Seq(S) : /\ Filtered(s, keep) \in Seq(S \cap keep)
                             /\ \E e : Embeds(e, Filtered(s, keep), s, keep)
<1> DEFINE Good(s) == /\ Filtered(s, keep) \in Seq(S \cap keep)
                      /\ \E e : Embeds(e, Filtered(s, keep), s, keep)
           T == {s \in Seq(S) : Good(s)}
<1>1. <<>> \in T
  <2>1. Filtered(<<>>, keep) = <<>> /\ <<>> \in Seq(S) /\ <<>> \in Seq(S \cap keep)
    BY FilterEmpty
  <2>2. Embeds(<<>>, <<>>, <<>>, keep)
    BY DEF Embeds
  <2> QED BY <2>1, <2>2
<1>2. ASSUME NEW s \in Seq(S), NEW x \in S, s \in T PROVE Append(s, x) \in T
  <2>1. PICK f \in Seq(S \cap keep) : f = Filtered(s, keep)
    BY <1>2
  <2>2. PICK e : Embeds(e, f, s, keep)
    BY <1>2, <2>1
  <2> HIDE DEF Good
  <2>0. Append(s, x) \in Seq(S)
    OBVIOUS
  <2>3. PICK t \in Seq(S) : t = Append(s, x)
    BY <2>0
  <2>4. Len(s) \in Nat /\ Len(t) = Len(s) + 1 /\ t[Len(s) + 1] = x
        /\ \A i \in 1 .. Len(s) : t[i] = s[i]
    BY <2>3
  <2>5. Len(f) \in Nat
    OBVIOUS
  <2>6. CASE x \notin keep
    <3>1. Filtered(t, keep) = f
      BY <2>1, <2>3, <2>6, FilterAppend
    <3>0. \A i \in 1 .. Len(t) : i \in 1 .. Len(s) \/ i = Len(s) + 1
      BY <2>4
    <3>2. Embeds(e, f, t, keep)
      <4>1. e \in [1 .. Len(f) -> 1 .. Len(t)]
        BY <2>2, <2>4 DEF Embeds
      <4>2. \A i \in 1 .. Len(t) : t[i] \in keep => \E n \in 1 .. Len(f) : e[n] = i
        BY <2>2, <2>4, <2>6, <3>0 DEF Embeds
      <4>3. \A n \in 1 .. Len(f) : f[n] = t[e[n]]
        BY <2>2, <2>4 DEF Embeds
      <4> QED BY <2>2, <4>1, <4>2, <4>3 DEF Embeds
    <3>3. Good(t)
      BY <3>1, <3>2 DEF Good
    <3> QED BY <2>3, <3>3
  <2>7. CASE x \in keep
    <3>0. Append(f, x) \in Seq(S \cap keep)
      BY <2>7
    <3>1. PICK g \in Seq(S \cap keep) : g = Append(f, x)
      BY <3>0
    <3>2. Filtered(t, keep) = g
      BY <2>1, <2>3, <2>7, <3>1, FilterAppend
    <3>3. Len(g) = Len(f) + 1 /\ g[Len(f) + 1] = x /\ \A n \in 1 .. Len(f) : g[n] = f[n]
      BY <3>1
    <3> DEFINE d == [n \in 1 .. (Len(f) + 1) |-> IF n = Len(f) + 1 THEN Len(s) + 1 ELSE e[n]]
    <3>5. \A n \in 1 .. Len(g) : n \in 1 .. Len(f) \/ n = Len(f) + 1
      BY <2>5, <3>3
    <3>11. \A n \in 1 .. Len(f) : e[n] \in 1 .. Len(s)
      BY <2>2 DEF Embeds
    <3>12. d[Len(f) + 1] = Len(s) + 1 /\ \A n \in 1 .. Len(f) : d[n] = e[n] /\ d[n] \in 1 .. Len(s)
      BY <2>5, <3>11
    <3>13. d = [n \in 1 .. Len(g) |-> d[n]]
      BY <2>5, <3>3
    <3> HIDE DEF d
    <3>14. \A n \in 1 .. Len(g) : d[n] \in 1 .. Len(t)
      BY <2>4, <3>5, <3>12
    <3>4. d[Len(f) + 1] = Len(s) + 1 /\ (\A n \in 1 .. Len(f) : d[n] = e[n] /\ d[n] \in 1 .. Len(s))
          /\ d \in [1 .. Len(g) -> 1 .. Len(t)]
      BY <3>12, <3>13, <3>14
    <3>6. \A m, n \in 1 .. Len(g) : m < n => d[m] < d[n]
      <4> SUFFICES ASSUME NEW m \in 1 .. Len(g), NEW n \in 1 .. Len(g), m < n PROVE d[m] < d[n]
        OBVIOUS
      <4>1. m \in 1 .. Len(f)
        BY <2>5, <3>3
      <4>2. CASE n \in 1 .. Len(f)
        BY <2>2, <3>4, <4>1, <4>2 DEF Embeds
      <4>3. CASE n = Len(f) + 1
        BY <2>4, <3>4, <4>1, <4>3
      <4> QED BY <3>5, <4>2, <4>3
    <3>7. \A n \in 1 .. Len(g) : g[n] = t[d[n]]
      <4>1. \A n \in 1 .. Len(f) : g[n] = t[d[n]]
        BY <2>2, <2>4, <3>3, <3>4 DEF Embeds
      <4> QED BY <2>4, <3>3, <3>4, <3>5, <4>1
    <3>8. \A i \in 1 .. Len(t) : t[i] \in keep => \E n \in 1 .. Len(g) : d[n] = i
      <4> SUFFICES ASSUME NEW i \in 1 .. Len(t), t[i] \in keep PROVE \E n \in 1 .. Len(g) : d[n] = i
        OBVIOUS
      <4>1. CASE i \in 1 .. Len(s)
        <5>1. PICK n \in 1 .. Len(f) : e[n] = i
          BY <2>2, <2>4, <4>1 DEF Embeds
        <5> QED BY <2>5, <3>3, <3>4, <5>1
      <4>2. CASE i = Len(s) + 1
        BY <2>5, <3>3, <3>4, <4>2
      <4> QED BY <2>4, <4>1, <4>2
    <3>9. Embeds(d, g, t, keep)
      BY <3>4, <3>6, <3>7, <3>8 DEF Embeds
    <3>10. Good(t)
      BY <3>2, <3>9 DEF Good
    <3> QED BY <2>3, <3>10
  <2> QED BY <2>6, <2>7
<1>3. Seq(S) \subseteq T
  <2> HIDE DEF T
  <2> QED BY <1>1, <1>2, AppendByAppend
<1> QED BY <1>3

(* Only the elements there are matter for what is kept.                    *)
LEMMA FilterSame ==
    ASSUME NEW S, NEW A, NEW B
    PROVE  \A s \in Seq(S) : (\A i \in 1 .. Len(s) : s[i] \in A <=> s[i] \in B)
                             => Filtered(s, A) = Filtered(s, B)
<1> DEFINE Agree(s) == \A i \in 1 .. Len(s) : s[i] \in A <=> s[i] \in B
           T == {s \in Seq(S) : Agree(s) => Filtered(s, A) = Filtered(s, B)}
<1>1. <<>> \in T
  BY FilterEmpty
<1>2. ASSUME NEW s \in Seq(S), NEW x \in S, s \in T PROVE Append(s, x) \in T
  <2>1. Append(s, x) \in Seq(S) /\ Len(s) \in Nat /\ Len(Append(s, x)) = Len(s) + 1
        /\ Append(s, x)[Len(s) + 1] = x /\ \A i \in 1 .. Len(s) : Append(s, x)[i] = s[i]
    OBVIOUS
  <2>2. SUFFICES ASSUME Agree(Append(s, x))
                 PROVE  Filtered(Append(s, x), A) = Filtered(Append(s, x), B)
    BY <2>1
  <2>3. Agree(s) /\ (x \in A <=> x \in B)
    BY <2>1, <2>2
  <2>4. Filtered(s, A) = Filtered(s, B)
    BY <1>2, <2>3
  <2>5. Filtered(Append(s, x), A) = IF x \in A THEN Append(Filtered(s, A), x) ELSE Filtered(s, A)
    BY FilterAppend
  <2>6. Filtered(Append(s, x), B) = IF x \in B THEN Append(Filtered(s, B), x) ELSE Filtered(s, B)
    BY FilterAppend
  <2> QED BY <2>3, <2>4, <2>5, <2>6
<1>3. Seq(S) \subseteq T
  <2> HIDE DEF T
  <2> QED BY <1>1, <1>2, AppendByAppend
<1> QED BY <1>3

(* Filtering twice is filtering once.                                      *)
LEMMA FilterTwice ==
    ASSUME NEW S, NEW A, NEW B
    PROVE  \A s \in Seq(S) : Filtered(Filtered(s, A), B) = Filtered(s, A \cap B)
<1> DEFINE T == {s \in Seq(S) : Filtered(Filtered(s, A), B) = Filtered(s, A \cap B)}
<1>1. <<>> \in T
  BY FilterEmpty
<1>2. ASSUME NEW s \in Seq(S), NEW x \in S, s \in T PROVE Append(s, x) \in T
  <2>1. PICK f \in Seq(S \cap A) : f = Filtered(s, A)
    BY FilterPlaces
  <2>2. Filtered(f, B) = Filtered(s, A \cap B) /\ Append(s, x) \in Seq(S)
    BY <1>2, <2>1
  <2>3. Filtered(Append(s, x), A) = IF x \in A THEN Append(f, x) ELSE f
    BY <2>1, FilterAppend
  <2>4. Filtered(Append(s, x), A \cap B) =
          IF x \in A \cap B THEN Append(Filtered(f, B), x) ELSE Filtered(f, B)
    BY <2>2, FilterAppend
  <2>5. x \in A => Filtered(Append(f, x), B) = IF x \in B THEN Append(Filtered(f, B), x)
                                              ELSE Filtered(f, B)
    <3> SUFFICES ASSUME x \in A
                 PROVE Filtered(Append(f, x), B) = IF x \in B THEN Append(Filtered(f, B), x)
                                                  ELSE Filtered(f, B)
      OBVIOUS
    <3>1. x \in S /\ f \in Seq(S)
      <4>1. S \cap A \subseteq S
        OBVIOUS
      <4> HIDE DEF T
      <4> QED BY <4>1, SeqMonotonic
    <3> HIDE DEF T
    <3> QED BY <3>1, FilterAppend
  <2>6. Filtered(Filtered(Append(s, x), A), B) = Filtered(Append(s, x), A \cap B)
    <3> HIDE DEF T
    <3>1. CASE x \in A
      <4>1. (x \in B <=> x \in A \cap B) /\ Filtered(Append(s, x), A) = Append(f, x)
        BY <2>3, <3>1
      <4> QED BY <2>4, <2>5, <3>1, <4>1
    <3>2. CASE x \notin A
      <4>1. x \notin A \cap B /\ Filtered(Append(s, x), A) = f
        BY <2>3, <3>2
      <4> QED BY <2>4, <4>1
    <3> QED BY <3>1, <3>2
  <2> QED BY <2>2, <2>6
<1>3. Seq(S) \subseteq T
  <2> HIDE DEF T
  <2> QED BY <1>1, <1>2, AppendByAppend
<1> QED BY <1>3

(* Nothing goes when all are kept.                                         *)
LEMMA FilterAll ==
    ASSUME NEW S, NEW keep
    PROVE  \A s \in Seq(S) : (\A i \in 1 .. Len(s) : s[i] \in keep) => Filtered(s, keep) = s
<1> DEFINE All(s) == \A i \in 1 .. Len(s) : s[i] \in keep
           T == {s \in Seq(S) : All(s) => Filtered(s, keep) = s}
<1>1. <<>> \in T
  BY FilterEmpty
<1>2. ASSUME NEW s \in Seq(S), NEW x \in S, s \in T PROVE Append(s, x) \in T
  <2>1. Append(s, x) \in Seq(S) /\ Len(s) \in Nat /\ Len(Append(s, x)) = Len(s) + 1
        /\ Append(s, x)[Len(s) + 1] = x /\ \A i \in 1 .. Len(s) : Append(s, x)[i] = s[i]
    OBVIOUS
  <2>2. SUFFICES ASSUME All(Append(s, x)) PROVE Filtered(Append(s, x), keep) = Append(s, x)
    BY <2>1
  <2>3. All(s) /\ x \in keep
    BY <2>1, <2>2
  <2>4. Filtered(Append(s, x), keep) =
          IF x \in keep THEN Append(Filtered(s, keep), x) ELSE Filtered(s, keep)
    BY FilterAppend
  <2> QED BY <1>2, <2>3, <2>4
<1>3. Seq(S) \subseteq T
  <2> HIDE DEF T
  <2> QED BY <1>1, <1>2, AppendByAppend
<1> QED BY <1>3

(* The members of what is left.                                            *)
LEMMA FilterMembers ==
    ASSUME NEW S, NEW keep, NEW s \in Seq(S)
    PROVE  \A x : (\E n \in 1 .. Len(Filtered(s, keep)) : Filtered(s, keep)[n] = x)
                  <=> x \in keep /\ \E i \in 1 .. Len(s) : s[i] = x
<1>0. PICK f \in Seq(S \cap keep) : f = Filtered(s, keep)
  BY FilterPlaces
<1>1. PICK e : Embeds(e, f, s, keep)
  BY <1>0, FilterPlaces
<1>2. \A n \in 1 .. Len(f) : f[n] \in keep /\ e[n] \in 1 .. Len(s) /\ f[n] = s[e[n]]
  BY <1>1 DEF Embeds
<1>3. \A i \in 1 .. Len(s) : s[i] \in keep => \E n \in 1 .. Len(f) : e[n] = i
  BY <1>1 DEF Embeds
<1> QED BY <1>0, <1>1, <1>2, <1>3

(* A filter makes no sequence longer, and one that drops something shorter.*)
LEMMA FilterShortens ==
    ASSUME NEW S, NEW keep
    PROVE  \A s \in Seq(S) : /\ Len(Filtered(s, keep)) <= Len(s)
                             /\ (\E i \in 1 .. Len(s) : s[i] \notin keep) =>
                                  Len(Filtered(s, keep)) < Len(s)
<1> DEFINE Shorter(s) == /\ Len(Filtered(s, keep)) <= Len(s)
                         /\ (\E i \in 1 .. Len(s) : s[i] \notin keep) =>
                              Len(Filtered(s, keep)) < Len(s)
           T == {s \in Seq(S) : Shorter(s)}
<1>1. <<>> \in T
  BY FilterEmpty
<1>2. ASSUME NEW s \in Seq(S), NEW x \in S, s \in T PROVE Append(s, x) \in T
  <2>1. Append(s, x) \in Seq(S) /\ Len(s) \in Nat /\ Len(Append(s, x)) = Len(s) + 1
        /\ Append(s, x)[Len(s) + 1] = x /\ \A i \in 1 .. Len(s) : Append(s, x)[i] = s[i]
    OBVIOUS
  <2>2. PICK f \in Seq(S \cap keep) : f = Filtered(s, keep)
    BY FilterPlaces
  <2>3. Len(f) \in Nat /\ \A y \in S \cap keep : Len(Append(f, y)) = Len(f) + 1
    OBVIOUS
  <2>4. Filtered(Append(s, x), keep) = IF x \in keep THEN Append(f, x) ELSE f
    BY <2>2, FilterAppend
  <2>5. Len(f) <= Len(s) /\ ((\E i \in 1 .. Len(s) : s[i] \notin keep) => Len(f) < Len(s))
    BY <1>2, <2>2
  <2>6. \A i \in 1 .. Len(s) + 1 : i \in 1 .. Len(s) \/ i = Len(s) + 1
    BY <2>1
  <2> HIDE DEF T
  <2>7. Shorter(Append(s, x))
    <3>1. CASE x \in keep
      <4>1. Len(Filtered(Append(s, x), keep)) = Len(f) + 1
        BY <2>3, <2>4, <3>1
      <4>2. (\E i \in 1 .. Len(s) + 1 : Append(s, x)[i] \notin keep) =>
              \E i \in 1 .. Len(s) : s[i] \notin keep
        BY <2>1, <2>6, <3>1
      <4> QED BY <2>1, <2>3, <2>5, <4>1, <4>2
    <3>2. CASE x \notin keep
      <4>1. Filtered(Append(s, x), keep) = f
        BY <2>4, <3>2
      <4> QED BY <2>1, <2>3, <2>5, <4>1
    <3> QED BY <3>1, <3>2
  <2> QED BY <2>1, <2>7 DEF T
<1>3. Seq(S) \subseteq T
  <2> HIDE DEF T
  <2> QED BY <1>1, <1>2, AppendByAppend
<1> QED BY <1>3

(* What had no element twice has none afterwards.                          *)
LEMMA FilterDistinct ==
    ASSUME NEW S, NEW keep, NEW s \in Seq(S),
           \A i, j \in 1 .. Len(s) : s[i] = s[j] => i = j
    PROVE  \A m, n \in 1 .. Len(Filtered(s, keep)) :
             Filtered(s, keep)[m] = Filtered(s, keep)[n] => m = n
<1>1. PICK f \in Seq(S \cap keep) : f = Filtered(s, keep)
  BY FilterPlaces
<1>2. PICK e : Embeds(e, f, s, keep)
  BY <1>1, FilterPlaces
<1>3. PICK l \in Nat : l = Len(f)
  OBVIOUS
<1>4. PICK k \in Nat : k = Len(s)
  OBVIOUS
<1>5. /\ e \in [1 .. l -> 1 .. k]
      /\ \A m, n \in 1 .. l : m < n => e[m] < e[n]
      /\ \A n \in 1 .. l : f[n] = s[e[n]]
  BY <1>2, <1>3, <1>4 DEF Embeds
<1>6. \A i, j \in 1 .. k : s[i] = s[j] => i = j
  BY <1>4
<1> SUFFICES ASSUME NEW m \in 1 .. l, NEW n \in 1 .. l, f[m] = f[n] PROVE m = n
  BY <1>1, <1>3
<1>7. e[m] = e[n] /\ e[m] \in Int
  <2>1. e[m] \in 1 .. k /\ e[n] \in 1 .. k
    BY <1>5
  <2>2. s[e[m]] = s[e[n]]
    BY <1>5
  <2> QED BY <1>6, <2>1, <2>2
<1>8. ~ (m < n) /\ ~ (n < m)
  BY <1>5, <1>7
<1> QED BY ONLY <1>8, m \in 1 .. l, n \in 1 .. l


(* The members of a finite set in id order: InIdOrder lists each of them,  *)
(* once.                                                                   *)
LEMMA InIdOrderListsAll ==
    ASSUME NEW S \in SUBSET Nat, IsFiniteSet(S)
    PROVE  /\ InIdOrder(S) \in Seq(S)
           /\ Len(InIdOrder(S)) = Cardinality(S)
           /\ Range(InIdOrder(S)) = S
           /\ \A i, j \in 1 .. Cardinality(S) : InIdOrder(S)[i] = InIdOrder(S)[j] => i = j
<1> DEFINE n == Cardinality(S)
           UpTo(e) == {f \in S : f <= e}
           rank == [e \in S |-> Cardinality(UpTo(e))]
<1>1. n \in Nat /\ Cardinality(1 .. n) = n /\ IsFiniteSet(1 .. n)
  BY FS_CardinalityType, FS_Interval
<1>2. \A e \in S : IsFiniteSet(UpTo(e)) /\ Cardinality(UpTo(e)) \in Nat
                   /\ Cardinality(UpTo(e)) <= n
  BY FS_Subset, FS_CardinalityType
<1>3. rank \in [S -> 1 .. n]
  <2> SUFFICES ASSUME NEW e \in S PROVE Cardinality(UpTo(e)) \in 1 .. n
    OBVIOUS
  <2>1. UpTo(e) # {}
    OBVIOUS
  <2>2. Cardinality(UpTo(e)) # 0
    BY <1>2, <2>1, FS_EmptySet
  <2> QED BY <1>1, <1>2, <2>2
<1>4. ASSUME NEW d \in S, NEW e \in S, d < e PROVE rank[d] # rank[e]
  <2>1. UpTo(d) \in SUBSET UpTo(e) /\ UpTo(d) # UpTo(e)
    <3>1. \A f \in S : f <= d => f <= e
      BY <1>4
    <3>2. e \in UpTo(e) /\ e \notin UpTo(d)
      BY <1>4
    <3> QED BY <3>1, <3>2
  <2>2. Cardinality(UpTo(d)) # Cardinality(UpTo(e))
    BY <1>2, <2>1, FS_Subset
  <2> QED BY <2>2
<1>5. rank \in Injection(S, 1 .. n)
  <2>1. \A d, e \in S : rank[d] = rank[e] => d = e
    BY <1>4
  <2> HIDE DEF rank
  <2> QED BY <1>3, <2>1, Fun_IsInj
<1>6. rank \in Surjection(S, 1 .. n)
  <2> HIDE DEF rank
  <2> QED BY <1>1, <1>5, FS_Injection
<1>7. \A i \in 1 .. n : \E e \in S : rank[e] = i
  <2> HIDE DEF rank
  <2> QED BY <1>6, Fun_SurjectionProperties
<1> DEFINE at == InIdOrder(S)
<1>8. \A i \in 1 .. n : at[i] \in S /\ rank[at[i]] = i
  <2>1. \A i \in 1 .. n : at[i] = CHOOSE e \in S : rank[e] = i
    BY DEF InIdOrder
  <2> QED BY <2>1, <1>7
<1>9. at \in [1 .. n -> S]
  BY <1>8 DEF InIdOrder
<1>10. at \in Seq(S) /\ Len(at) = n
  <2>1. at \in Seq(S)
    BY <1>1, <1>9, SeqDef
  <2>2. DOMAIN at = 1 .. Len(at) /\ Len(at) \in Nat
    BY <2>1, LenProperties
  <2> QED BY <2>1, <2>2, <1>1, <1>9
<1>11. \A e \in S : rank[e] \in 1 .. n /\ at[rank[e]] = e
  <2>1. \A e \in S : rank[e] \in 1 .. n
    BY <1>3
  <2>2. \A e \in S : at[rank[e]] \in S /\ rank[at[rank[e]]] = rank[e]
    BY <2>1, <1>8
  <2>3. \A d, e \in S : rank[d] = rank[e] => d = e
    BY <1>5, Fun_InjectionProperties
  <2> HIDE DEF rank, at
  <2> QED BY <2>1, <2>2, <2>3
<1>12. Range(at) = S
  <2> HIDE DEF rank, at
  <2>1. Range(at) = {at[i] : i \in 1 .. n}
    BY <1>9 DEF Range
  <2> QED BY <2>1, <1>9, <1>11
<1>13. \A i, j \in 1 .. n : at[i] = at[j] => i = j
  BY <1>8
<1> QED BY <1>10, <1>12, <1>13
================================================================================
