----------------------------- MODULE PlanningProofs -----------------------------

(***************************************************************************)
(* What reconciliation leaves behind, for any entries, tree, configuration *)
(* and contract versions, any setups that fail and any calls on the        *)
(* desired state between its turns: the instances a generation reaches,    *)
(* and how they are bound to each other.                                   *)
(*                                                                         *)
(* A generation is bound to its own members because the walk of a          *)
(* reconciliation is: IInv follows it turn by turn. Every member that was  *)
(* walked is settled (the newest instance of its entry, unchanged or       *)
(* mounted on its inputs) and bound to members walked before it, except on *)
(* a loop of the plan's selections. The resolver's order puts providers    *)
(* first, and what is not on a loop is placed: that is proved of the       *)
(* model's operators, before the invariant. What the walk cannot see, a    *)
(* provider uninstalled or replaced after its consumer's plan was made, is *)
(* left to the validation before the publication.                          *)
(*                                                                         *)
(* Three more invariants stand on it. RInv keeps the reasons: of every     *)
(* instance a reconciliation mounted, why it did not carry on the one      *)
(* before. SInv is about repetition: what was published last is the plan   *)
(* of the desired state as long as nothing is called. PInv keeps the       *)
(* promises of the previews, through every turn of what they foretold.     *)
(***************************************************************************)
EXTENDS Diagnostics, FiniteLemmas, SequenceTheorems

(***************************************************************************)
(* Loops of edges                                                          *)
(***************************************************************************)

(* An edge leads to its head, and leading to is transitive.                *)
LEMMA LeadingOn ==
    ASSUME NEW edges
    PROVE  /\ \A a, b : <<a, b>> \in edges => LeadsTo(edges, a, b)
           /\ \A a, b, c : LeadsTo(edges, a, b) /\ LeadsTo(edges, b, c) => LeadsTo(edges, a, c)
<1>1. ASSUME NEW a, NEW b, <<a, b>> \in edges PROVE LeadsTo(edges, a, b)
  <2>1. <<a, b>>[1] = a /\ <<a, b>>[2] = b
    OBVIOUS
  <2> QED BY <1>1, <2>1 DEF LeadsTo
<1>2. ASSUME NEW a, NEW b, NEW c, LeadsTo(edges, a, b), LeadsTo(edges, b, c)
      PROVE  LeadsTo(edges, a, c)
  <2> SUFFICES ASSUME NEW S \in SUBSET Heads(edges),
                      ~ \E e \in edges : e[1] \in S \cup {a} /\ e[2] \notin S
               PROVE  c \in S
    BY DEF LeadsTo
  <2>1. b \in S
    BY <1>2 DEF LeadsTo
  <2>2. S \cup {b} \subseteq S \cup {a}
    BY <2>1
  <2>3. ~ \E e \in edges : e[1] \in S \cup {b} /\ e[2] \notin S
    BY <2>2
  <2> QED BY <1>2, <2>3 DEF LeadsTo
<1> QED BY <1>1, <1>2

(* In a finite set whose members all have a predecessor in it, a loop of   *)
(* the edges leads to every member.                                        *)
LEMMA StuckIsTangled ==
    ASSUME NEW L, IsFiniteSet(L), NEW edges,
           \A m \in L : \E q \in L : <<q, m>> \in edges, NEW p \in L
    PROVE  p \in TangledBy(edges)
<1> DEFINE Up(m) == {q \in L : q = m \/ LeadsTo(edges, q, m)}
           F == {Up(m) : m \in Up(p)}
<1>1. p \in Up(p)
  OBVIOUS
<1>2. PICK W : SmallestIn(W, F)
  <2>1. F \subseteq SUBSET L /\ F # {}
    BY <1>1
  <2> HIDE DEF F
  <2> QED BY <2>1, SmallestSet
<1>3. PICK m \in Up(p) : W = Up(m)
  BY <1>2 DEF SmallestIn
<1>4. m \in L /\ (m = p \/ LeadsTo(edges, m, p))
  BY <1>3
<1>5. PICK q \in L : <<q, m>> \in edges
  BY <1>4
<1>6. LeadsTo(edges, q, m) /\ q \in Up(p)
  <2>1. LeadsTo(edges, q, m)
    BY <1>5, LeadingOn
  <2> QED BY <1>4, <2>1, LeadingOn
<1>7. Up(q) \subseteq W
  BY <1>3, <1>6, LeadingOn
<1>8. Up(q) = W
  <2>1. Up(q) \in F
    BY <1>6
  <2> HIDE DEF F, Up
  <2> QED BY <1>2, <1>7, <2>1 DEF SmallestIn
<1>9. m \in Up(q)
  BY <1>3, <1>4, <1>8
<1>10. LeadsTo(edges, m, m)
  BY <1>6, <1>9, LeadingOn
<1>11. LeadsTo(edges, m, p)
  BY <1>4, <1>10
<1>12. m \in Heads(edges) /\ p \in Heads(edges)
  <2>1. ASSUME NEW x \in L PROVE x \in Heads(edges)
    <3>1. PICK y \in L : <<y, x>> \in edges
      OBVIOUS
    <3>2. <<y, x>>[2] = x
      OBVIOUS
    <3> QED BY <3>1, <3>2 DEF Heads
  <2> QED BY <1>4, <2>1
<1> QED BY <1>10, <1>11, <1>12 DEF TangledBy, OnLoop

(***************************************************************************)
(* The activation order                                                    *)
(***************************************************************************)

(* The entries in s come once each, after those of S they have edges from. *)
Forward(s, S, edges) ==
    /\ \A i, j \in 1 .. Len(s) : s[i] = s[j] => i = j
    /\ \A i \in 1 .. Len(s) : \A p \in S :
         <<p, s[i]>> \in edges => \E j \in 1 .. Len(s) : j < i /\ s[j] = p

(* One step of Kahn's algorithm.                                           *)
LEMMA PlacedNext ==
    ASSUME NEW S \in SUBSET Nat, NEW edges, NEW s \in Seq(S)
    PROVE  /\ PlaceNext(S, edges, s) \in Seq(S)
           /\ Forward(s, S, edges) => Forward(PlaceNext(S, edges, s), S, edges)
           /\ IF Ready(S, edges, s) = {} THEN PlaceNext(S, edges, s) = s
              ELSE Len(PlaceNext(S, edges, s)) = Len(s) + 1
<1>1. CASE Ready(S, edges, s) = {}
  BY <1>1 DEF PlaceNext
<1>2. CASE Ready(S, edges, s) # {}
  <2>1. PICK e : e = Min(Ready(S, edges, s))
    OBVIOUS
  <2>2. Ready(S, edges, s) \in SUBSET Nat
    BY DEF Ready, Unplaced
  <2>3. e \in Ready(S, edges, s)
    BY <1>2, <2>1, <2>2, LeastMember
  <2>4. /\ e \in S /\ e \notin Range(s)
        /\ \A p \in S : p \notin Range(s) => <<p, e>> \notin edges
    BY <2>3 DEF Ready, Unplaced
  <2>5. PICK t : t = Append(s, e)
    OBVIOUS
  <2>6. PlaceNext(S, edges, s) = t
    BY <1>2, <2>1, <2>5 DEF PlaceNext
  <2>7. /\ t \in Seq(S) /\ Len(s) \in Nat /\ Len(t) = Len(s) + 1 /\ t[Len(s) + 1] = e
        /\ \A i \in 1 .. Len(s) : t[i] = s[i]
    BY <2>4, <2>5
  <2>8. \A x : x \in Range(s) <=> \E i \in 1 .. Len(s) : s[i] = x
    BY DEF Range
  <2>9. ASSUME Forward(s, S, edges) PROVE Forward(t, S, edges)
    <3>1. ASSUME NEW i \in 1 .. Len(t), NEW j \in 1 .. Len(t), t[i] = t[j] PROVE i = j
      <4>1. (i \in 1 .. Len(s) \/ i = Len(s) + 1) /\ (j \in 1 .. Len(s) \/ j = Len(s) + 1)
        BY <2>7
      <4>2. \A k \in 1 .. Len(s) : s[k] # e
        BY <2>4, <2>8
      <4> QED BY <2>7, <2>9, <3>1, <4>1, <4>2 DEF Forward
    <3>2. ASSUME NEW i \in 1 .. Len(t), NEW p \in S, <<p, t[i]>> \in edges
          PROVE  \E j \in 1 .. Len(t) : j < i /\ t[j] = p
      <4>1. CASE i \in 1 .. Len(s)
        <5>1. PICK j \in 1 .. Len(s) : j < i /\ s[j] = p
          BY <2>7, <2>9, <3>2, <4>1 DEF Forward
        <5> QED BY <2>7, <5>1
      <4>2. CASE i = Len(s) + 1
        <5>1. p \in Range(s)
          BY <2>4, <2>7, <3>2, <4>2
        <5>2. PICK j \in 1 .. Len(s) : s[j] = p
          BY <2>8, <5>1
        <5>3. j \in 1 .. Len(t) /\ j < i /\ t[j] = p
          BY <2>7, <4>2, <5>2
        <5> QED BY <5>3
      <4> QED BY <2>7, <4>1, <4>2
    <3> QED BY <3>1, <3>2 DEF Forward
  <2> QED BY <1>2, <2>6, <2>7, <2>9
<1> QED BY <1>1, <1>2
(* r places what was left: its elements all had to wait for one of them.   *)
Waiting(R, edges) == \A e \in R : \E p \in R : <<p, e>> \in edges

IsPlacing(f, S, edges, n) ==
    f = [i \in 0 .. n |-> IF i = 0 THEN <<>> ELSE PlaceNext(S, edges, f[i - 1])]

(* Kahn's algorithm ends with nothing ready, and what it placed is in      *)
(* order.                                                                  *)
LEMMA PlacedAll ==
    ASSUME NEW S \in SUBSET Nat, IsFiniteSet(S), NEW edges
    PROVE  \E s \in Seq(S) : /\ Forward(s, S, edges)
                             /\ Ready(S, edges, s) = {}
                             /\ OrderOf(S, edges) = s \o InIdOrder(Unplaced(S, s))
<1> DEFINE N == Cardinality(S)
           V == Seq(S)
           step == [p \in (1 .. N) \X V |-> PlaceNext(S, edges, p[2])]
<1>1. N \in Nat /\ <<>> \in V
  BY FS_CardinalityType
<1>2. \A v \in V : PlaceNext(S, edges, v) \in V
  BY PlacedNext
<1>3. \A i \in 1 .. N : \A v \in V :
        step[<<i, v>>] = PlaceNext(S, edges, v) /\ step[<<i, v>>] \in V
  <2> HIDE DEF N, V
  <2> QED BY <1>2
<1> HIDE DEF step, N, V
<1>4. PICK f \in [0 .. N -> V] : Iterates(f, <<>>, N, step)
  <2>1. PICK x \in V : x = <<>>
    BY <1>1
  <2>2. \E f \in [0 .. N -> V] : Iterates(f, x, N, step)
    BY <1>1, <1>3, StepByStep
  <2> QED BY <2>1, <2>2
<1>5. \A i \in 0 .. N : f[i] = IF i = 0 THEN <<>> ELSE PlaceNext(S, edges, f[i - 1])
  <2> SUFFICES ASSUME NEW i \in 0 .. N, i # 0 PROVE f[i] = PlaceNext(S, edges, f[i - 1])
    BY <1>1, <1>4 DEF Iterates
  <2>1. i \in 1 .. N /\ i - 1 \in 0 .. N
    BY <1>1
  <2> QED BY <1>3, <1>4, <2>1 DEF Iterates
<1>6. IsPlacing(f, S, edges, N)
  <2>1. f = [i \in 0 .. N |-> IF i = 0 THEN <<>> ELSE PlaceNext(S, edges, f[i - 1])]
    BY <1>4, <1>5
  <2> QED BY <2>1 DEF IsPlacing
<1> DEFINE h == CHOOSE g : IsPlacing(g, S, edges, N)
<1>7. IsPlacing(h, S, edges, N)
  BY <1>6
<1>8. OrderOf(S, edges) = h[N] \o InIdOrder(Unplaced(S, h[N]))
  BY DEF OrderOf, IsPlacing, N
<1> HIDE DEF h
<1>9. \A i \in 0 .. N : h[i] = IF i = 0 THEN <<>> ELSE PlaceNext(S, edges, h[i - 1])
  <2>1. h = [i \in 0 .. N |-> IF i = 0 THEN <<>> ELSE PlaceNext(S, edges, h[i - 1])]
    BY <1>7 DEF IsPlacing
  <2> QED BY <2>1, Zenon
<1> DEFINE Good(i) == /\ h[i] \in Seq(S) /\ Forward(h[i], S, edges)
                      /\ Ready(S, edges, h[i]) = {} \/ Len(h[i]) = i
           T == {i \in 0 .. N : Good(i)}
<1>10. 0 \in T
  <2>1. 0 \in 0 .. N /\ h[0] = <<>>
    BY <1>1, <1>9
  <2>2. Forward(<<>>, S, edges)
    BY DEF Forward
  <2>3. <<>> \in Seq(S) /\ Len(<<>>) = 0
    OBVIOUS
  <2>4. Good(0)
    BY <2>1, <2>2, <2>3
  <2> HIDE DEF Good
  <2> QED BY <2>1, <2>4
<1>11. ASSUME NEW i \in 0 .. (N - 1), i \in T PROVE i + 1 \in T
  <2>1. i + 1 \in 0 .. N /\ i + 1 # 0 /\ (i + 1) - 1 = i
    BY <1>1
  <2>2. h[i + 1] = PlaceNext(S, edges, h[i])
    BY <1>9, <2>1
  <2>3. PICK s \in Seq(S) : s = h[i]
    BY <1>11
  <2>4. /\ PlaceNext(S, edges, s) \in Seq(S)
        /\ Forward(s, S, edges) => Forward(PlaceNext(S, edges, s), S, edges)
        /\ IF Ready(S, edges, s) = {} THEN PlaceNext(S, edges, s) = s
           ELSE Len(PlaceNext(S, edges, s)) = Len(s) + 1
    BY PlacedNext
  <2>5. Good(i + 1)
    <3>1. Forward(s, S, edges) /\ (Ready(S, edges, s) = {} \/ Len(s) = i)
      BY <1>11, <2>3
    <3>2. CASE Ready(S, edges, s) = {}
      BY <2>2, <2>3, <2>4, <3>1, <3>2
    <3>3. CASE Ready(S, edges, s) # {}
      BY <2>2, <2>3, <2>4, <3>1, <3>3
    <3> QED BY <3>2, <3>3
  <2> QED BY <2>1, <2>5
<1>12. Good(N)
  <2>1. 0 .. N \subseteq T
    <3> HIDE DEF T
    <3> QED BY <1>1, <1>10, <1>11, CountUp
  <2> HIDE DEF Good
  <2> QED BY <1>1, <2>1
<1>13. PICK s \in Seq(S) : s = h[N]
  BY <1>12
<1>14. Ready(S, edges, s) = {}
  <2>1. CASE Len(s) = N
    <3>1. \A i, j \in 1 .. N : s[i] = s[j] => i = j
      BY <1>12, <1>13, <2>1 DEF Forward
    <3>2. s \in [1 .. N -> S]
      BY <2>1
    <3>3. s \in Injection(1 .. N, S)
      BY <3>1, <3>2, Fun_IsInj
    <3>4. IsFiniteSet(1 .. N) /\ Cardinality(1 .. N) = N
      BY <1>1, FS_Interval
    <3>5. s \in Surjection(1 .. N, S)
      BY <3>3, <3>4, FS_Injection DEF N
    <3>6. \A x \in S : \E i \in 1 .. N : s[i] = x
      BY <3>5 DEF Surjection
    <3>7. \A x \in S : x \in Range(s)
      BY <3>2, <3>6 DEF Range
    <3> QED BY <3>7 DEF Ready, Unplaced
  <2>2. CASE Len(s) # N
    BY <1>12, <1>13, <2>2
  <2> QED BY <2>1, <2>2
<1> QED BY <1>8, <1>12, <1>13, <1>14

(* OrderOf (plugins/resolver.py, _activation_order): it lists S, each entry*)
(* once, behind those it has edges from, but for a rest of which each      *)
(* entry waits for another.                                                *)
Orders(r, S, edges, R) ==
    /\ r \in Seq(S) /\ Range(r) = S
    /\ \A i, j \in 1 .. Len(r) : r[i] = r[j] => i = j
    /\ R \subseteq S /\ Waiting(R, edges)
    /\ \A i \in 1 .. Len(r) : \A p \in S :
         <<p, r[i]>> \in edges => \/ \E j \in 1 .. Len(r) : j < i /\ r[j] = p
                                  \/ r[i] \in R

(* Kahn's order over the entries is such a list.                           *)
LEMMA OrderIsForward ==
    ASSUME NEW S \in SUBSET Nat, IsFiniteSet(S), NEW edges
    PROVE  \E R : Orders(OrderOf(S, edges), S, edges, R)
<1>1. PICK s \in Seq(S) : /\ Forward(s, S, edges)
                          /\ Ready(S, edges, s) = {}
                          /\ OrderOf(S, edges) = s \o InIdOrder(Unplaced(S, s))
  BY PlacedAll
<1>2. PICK R : R = Unplaced(S, s)
  OBVIOUS
<1>3. R \in SUBSET Nat /\ IsFiniteSet(R) /\ R \subseteq S /\ R = S \ Range(s)
  <2>1. R = S \ Range(s)
    BY <1>2 DEF Unplaced
  <2> QED BY <2>1, FS_Subset
<1>4. PICK q : q = InIdOrder(R)
  OBVIOUS
<1>5. /\ q \in Seq(R) /\ Range(q) = R /\ Len(q) = Cardinality(R)
      /\ \A i, j \in 1 .. Len(q) : q[i] = q[j] => i = j
  BY <1>3, <1>4, InIdOrderListsAll
<1>6. PICK r : r = s \o q
  OBVIOUS
<1>7. Len(s) \in Nat /\ Len(q) \in Nat
  BY <1>5
<1>8. /\ r \in Seq(S) /\ Len(r) = Len(s) + Len(q)
      /\ \A i \in 1 .. Len(s) : r[i] = s[i]
      /\ \A i \in 1 .. Len(q) : r[Len(s) + i] = q[i]
  <2>1. q \in Seq(S)
    BY <1>3, <1>5
  <2> QED BY <1>6, <2>1, ConcatProperties
<1>9. \A i \in 1 .. Len(r) : i \in 1 .. Len(s) \/ \E k \in 1 .. Len(q) : i = Len(s) + k
  <2> SUFFICES ASSUME NEW i \in 1 .. Len(r), i \notin 1 .. Len(s)
               PROVE  \E k \in 1 .. Len(q) : i = Len(s) + k
    OBVIOUS
  <2>1. i - Len(s) \in 1 .. Len(q) /\ i = Len(s) + (i - Len(s))
    BY <1>7, <1>8
  <2> QED BY <2>1
<1>10. /\ \A x : x \in Range(s) <=> \E i \in 1 .. Len(s) : s[i] = x
       /\ \A x : x \in Range(q) <=> \E i \in 1 .. Len(q) : q[i] = x
       /\ \A x : x \in Range(r) <=> \E i \in 1 .. Len(r) : r[i] = x
  <2>1. DOMAIN s = 1 .. Len(s) /\ DOMAIN q = 1 .. Len(q) /\ DOMAIN r = 1 .. Len(r)
    BY <1>5, <1>8
  <2> QED BY <2>1 DEF Range
<1>11. Range(r) = S
  <2>1. ASSUME NEW x \in S PROVE x \in Range(r)
    <3>1. CASE x \in Range(s)
      <4>1. PICK i \in 1 .. Len(s) : s[i] = x
        BY <1>10, <3>1
      <4>2. i \in 1 .. Len(r) /\ r[i] = x
        BY <1>7, <1>8, <4>1
      <4> QED BY <1>10, <4>2
    <3>2. CASE x \notin Range(s)
      <4>1. PICK i \in 1 .. Len(q) : q[i] = x
        BY <1>3, <1>5, <1>10, <3>2
      <4>2. Len(s) + i \in 1 .. Len(r) /\ r[Len(s) + i] = x
        BY <1>7, <1>8, <4>1
      <4> QED BY <1>10, <4>2
    <3> QED BY <3>1, <3>2
  <2>2. Range(r) \subseteq S
    BY <1>8, <1>10
  <2> QED BY <2>1, <2>2
<1>12. \A k \in 1 .. Len(q) : q[k] \in R /\ \A i \in 1 .. Len(s) : s[i] # q[k]
  <2>1. \A k \in 1 .. Len(q) : q[k] \in R
    BY <1>5, <1>10
  <2> QED BY <1>3, <1>10, <2>1
<1>13. ASSUME NEW i \in 1 .. Len(r), NEW j \in 1 .. Len(r), r[i] = r[j] PROVE i = j
  <2>1. CASE i \in 1 .. Len(s) /\ j \in 1 .. Len(s)
    BY <1>1, <1>8, <1>13, <2>1 DEF Forward
  <2>2. CASE i \in 1 .. Len(s) /\ j \notin 1 .. Len(s)
    <3>1. PICK k \in 1 .. Len(q) : j = Len(s) + k
      BY <1>9, <2>2
    <3> QED BY <1>8, <1>12, <1>13, <2>2, <3>1
  <2>3. CASE i \notin 1 .. Len(s) /\ j \in 1 .. Len(s)
    <3>1. PICK k \in 1 .. Len(q) : i = Len(s) + k
      BY <1>9, <2>3
    <3> QED BY <1>8, <1>12, <1>13, <2>3, <3>1
  <2>4. CASE i \notin 1 .. Len(s) /\ j \notin 1 .. Len(s)
    <3>1. PICK k \in 1 .. Len(q) : i = Len(s) + k
      BY <1>9, <2>4
    <3>2. PICK m \in 1 .. Len(q) : j = Len(s) + m
      BY <1>9, <2>4
    <3>3. k = m
      BY <1>5, <1>8, <1>13, <3>1, <3>2
    <3> QED BY <3>1, <3>2, <3>3
  <2> QED BY <2>1, <2>2, <2>3, <2>4
<1>14. Waiting(R, edges)
  BY <1>1, <1>2 DEF Waiting, Ready
<1>15. ASSUME NEW i \in 1 .. Len(r), NEW p \in S, <<p, r[i]>> \in edges
       PROVE  \/ \E j \in 1 .. Len(r) : j < i /\ r[j] = p
              \/ r[i] \in R
  <2>1. CASE i \in 1 .. Len(s)
    <3>1. PICK j \in 1 .. Len(s) : j < i /\ s[j] = p
      BY <1>1, <1>8, <1>15, <2>1 DEF Forward
    <3>2. j \in 1 .. Len(r) /\ r[j] = p
      BY <1>7, <1>8, <3>1
    <3> QED BY <3>1, <3>2
  <2>2. CASE i \notin 1 .. Len(s)
    <3>1. PICK k \in 1 .. Len(q) : i = Len(s) + k
      BY <1>9, <2>2
    <3> QED BY <1>8, <1>12, <3>1
  <2> QED BY <2>1, <2>2
<1>16. OrderOf(S, edges) = r
  BY <1>1, <1>2, <1>4, <1>6
<1> QED BY <1>3, <1>8, <1>11, <1>13, <1>14, <1>15, <1>16 DEF Orders
(***************************************************************************)
(* The plan                                                                *)
(***************************************************************************)

(* A requirement is resolved to an entry of the pool, or to none.          *)
LEMMA ResolvedInPool ==
    ASSUME NEW cands, IsFiniteSet(DOMAIN cands), DOMAIN cands \subseteq EntryIds,
           NEW prefs, NEW c, NEW cap, NEW pool
    PROVE  \/ ResolveOne(cands, prefs, c, cap, pool).provider = None
           \/ ResolveOne(cands, prefs, c, cap, pool).provider \in pool
<1>1. PICK matching : matching = Visible(cands, c, cap) \cap pool
  OBVIOUS
<1>2. PICK preferred :
        preferred = matching \cap {PreferenceFor(prefs, c, cap, cands[c].scope)}
  OBVIOUS
<1>3. matching \subseteq pool /\ matching \in SUBSET Nat /\ IsFiniteSet(matching)
  <2>1. matching \subseteq pool /\ matching \in SUBSET (DOMAIN cands)
    BY <1>1 DEF Visible
  <2> QED BY <2>1, FS_Subset DEF EntryIds
<1>4. preferred \subseteq pool /\ preferred \in SUBSET Nat
  BY <1>2, <1>3
<1>5. Cardinality(matching) = 1 => Min(matching) \in pool
  <2>1. Cardinality(matching) = 1 => matching # {}
    BY FS_EmptySet
  <2> QED BY <1>3, <2>1, LeastMember
<1>6. preferred # {} => Min(preferred) \in pool
  BY <1>4, LeastMember
<1>7. ResolveOne(cands, prefs, c, cap, pool) =
        LET result(status, provider) == [status |-> status, provider |-> provider]
            visible == Visible(cands, c, cap)
        IN CASE Cardinality(matching) = 1 -> result("resolved", Min(matching))
             [] Cardinality(matching) > 1 /\ preferred # {} -> result("resolved", Min(preferred))
             [] Cardinality(matching) > 1 /\ preferred = {} -> result("ambiguous", None)
             [] matching = {} /\ visible # {} -> result("provider_pending", None)
             [] OTHER -> result("no_provider", None)
  BY <1>1, <1>2 DEF ResolveOne
<1>8. CASE Cardinality(matching) = 1
  BY <1>5, <1>7, <1>8
<1>9. CASE Cardinality(matching) # 1 /\ Cardinality(matching) > 1 /\ preferred # {}
  BY <1>6, <1>7, <1>9
<1>10. CASE Cardinality(matching) # 1 /\ ~(Cardinality(matching) > 1 /\ preferred # {})
  BY <1>7, <1>10
<1> QED BY <1>8, <1>9, <1>10

IsShrinking(f, cands, prefs, n) ==
    f = [i \in 0 .. n |->
           IF i = 0 THEN DOMAIN cands
           ELSE {c \in f[i - 1] : \A cap \in Manifest[cands[c].plugin].requires :
                   ResolveOne(cands, prefs, c, cap, f[i - 1]).status = "resolved"}]

(* The fixpoint of resolve() (plugins/resolver.py) keeps some entries.     *)
LEMMA EligibleAreEntries ==
    ASSUME NEW cands, IsFiniteSet(DOMAIN cands), NEW prefs
    PROVE  EligibleOf(cands, prefs) \subseteq DOMAIN cands
<1> DEFINE N == Cardinality(DOMAIN cands)
           V == SUBSET (DOMAIN cands)
           Pass(pool) == {c \in pool : \A cap \in Manifest[cands[c].plugin].requires :
                            ResolveOne(cands, prefs, c, cap, pool).status = "resolved"}
           step == [p \in (1 .. N) \X V |-> Pass(p[2])]
<1>1. N \in Nat /\ DOMAIN cands \in V
  BY FS_CardinalityType
<1>2. \A v \in V : Pass(v) \in V
  OBVIOUS
<1> HIDE DEF N, V, Pass
<1>3. \A i \in 1 .. N : \A v \in V : step[<<i, v>>] = Pass(v) /\ step[<<i, v>>] \in V
  BY <1>2
<1> HIDE DEF step
<1>4. PICK f \in [0 .. N -> V] : Iterates(f, DOMAIN cands, N, step)
  <2>1. PICK x \in V : x = DOMAIN cands
    BY <1>1
  <2>2. \E f \in [0 .. N -> V] : Iterates(f, x, N, step)
    BY <1>1, <1>3, StepByStep
  <2> QED BY <2>1, <2>2
<1>5. \A i \in 0 .. N : f[i] = IF i = 0 THEN DOMAIN cands ELSE Pass(f[i - 1])
  <2> SUFFICES ASSUME NEW i \in 0 .. N, i # 0 PROVE f[i] = Pass(f[i - 1])
    BY <1>1, <1>4 DEF Iterates
  <2>1. i \in 1 .. N /\ i - 1 \in 0 .. N
    BY <1>1
  <2> QED BY <1>3, <1>4, <2>1 DEF Iterates
<1>6. IsShrinking(f, cands, prefs, N)
  <2>1. f = [i \in 0 .. N |-> IF i = 0 THEN DOMAIN cands ELSE Pass(f[i - 1])]
    BY <1>4, <1>5
  <2> QED BY <2>1 DEF IsShrinking, Pass
<1> DEFINE h == CHOOSE g : IsShrinking(g, cands, prefs, N)
<1>7. IsShrinking(h, cands, prefs, N)
  BY <1>6
<1>8. EligibleOf(cands, prefs) = h[N]
  BY DEF EligibleOf, IsShrinking, N
<1> HIDE DEF h
<1>9. \A i \in 0 .. N : h[i] = IF i = 0 THEN DOMAIN cands ELSE Pass(h[i - 1])
  <2>1. h = [i \in 0 .. N |-> IF i = 0 THEN DOMAIN cands ELSE Pass(h[i - 1])]
    BY <1>7 DEF IsShrinking, Pass
  <2> QED BY <2>1, Zenon
<1> DEFINE T == {i \in 0 .. N : h[i] \in V}
<1>10. 0 \in T
  BY <1>1, <1>9
<1>11. ASSUME NEW i \in 0 .. (N - 1), i \in T PROVE i + 1 \in T
  <2>1. i + 1 \in 0 .. N /\ i + 1 # 0 /\ (i + 1) - 1 = i
    BY <1>1
  <2>2. h[i + 1] = Pass(h[i])
    BY <1>9, <2>1
  <2> QED BY <1>2, <1>11, <2>1, <2>2
<1>12. 0 .. N \subseteq T
  <2> HIDE DEF T
  <2> QED BY <1>1, <1>10, <1>11, CountUp
<1>13. h[N] \in V
  BY <1>1, <1>12
<1> QED BY <1>8, <1>13 DEF V

(* What reconcile() can rely on in a plan it accepts: the order lists      *)
(* entries once each; whatever was selected is in it; and the providers of *)
(* an entry are ordered before it, unless loops lead to the entry.         *)
Knots(selections) == TangledBy(SelectedEdges(selections, DOMAIN selections))
Sound(plan) ==
    LET order == plan.order
        selected == plan.resolution
    IN /\ order \in Seq(DOMAIN selected)
       /\ \A i, j \in 1 .. Len(order) : order[i] = order[j] => i = j
       /\ \A i \in 1 .. Len(order) : \A cap \in DOMAIN selected[order[i]] :
            LET p == selected[order[i]][cap].provider
            IN \/ p = None
               \/ \E j \in 1 .. Len(order) : j < i /\ order[j] = p
               \/ order[i] \in Knots(selected)

(* The plan of resolve() (plugins/resolver.py).                            *)
LEMMA PlanIsSound ==
    ASSUME NEW cands, IsFiniteSet(DOMAIN cands), DOMAIN cands \subseteq EntryIds,
           NEW prefs, NEW plan, plan = PlanOf(cands, prefs), plan.cyclic = {}
    PROVE  /\ Sound(plan)
           /\ DOMAIN plan.resolution = DOMAIN cands
<1>1. PICK pool : pool = EligibleOf(cands, prefs)
  OBVIOUS
<1>2. PICK resolution :
        resolution = [c \in DOMAIN cands |->
                        [cap \in Needs(cands[c]) |-> ResolveOne(cands, prefs, c, cap, pool)]]
  OBVIOUS
<1>3. plan = [resolution |-> resolution, cyclic |-> plan.cyclic,
              instances |-> plan.instances,
              order |-> OrderOf(pool \ plan.cyclic, SelectedEdges(resolution, pool \ plan.cyclic))]
  BY <1>1, <1>2 DEF PlanOf
<1>4. PICK edges : edges = SelectedEdges(resolution, pool)
  OBVIOUS
<1>5. pool \ plan.cyclic = pool
  OBVIOUS
<1>6. plan.resolution = resolution /\ plan.order = OrderOf(pool, edges)
  BY <1>3, <1>4, <1>5
<1>7. pool \subseteq DOMAIN cands /\ pool \in SUBSET Nat /\ IsFiniteSet(pool) /\ None \notin pool
  <2>1. pool \in SUBSET (DOMAIN cands)
    BY <1>1, EligibleAreEntries
  <2> QED BY <2>1, FS_Subset DEF EntryIds, None
<1>8. PICK order : order = plan.order
  OBVIOUS
<1>9. PICK R : Orders(order, pool, edges, R)
  BY <1>6, <1>7, <1>8, OrderIsForward
<1>10. DOMAIN resolution = DOMAIN cands
  BY <1>2
<1>11. \A x : x \in Range(order) <=> \E i \in 1 .. Len(order) : order[i] = x
  BY <1>9 DEF Orders, Range
<1>12. \A i \in 1 .. Len(order) : order[i] \in pool
  BY <1>9, <1>11 DEF Orders
<1>13. order \in Seq(DOMAIN resolution)
  BY <1>7, <1>9, <1>10 DEF Orders
<1>14. ASSUME NEW i \in 1 .. Len(order), NEW cap \in DOMAIN resolution[order[i]]
       PROVE  LET p == resolution[order[i]][cap].provider
              IN \/ p = None
                 \/ \E j \in 1 .. Len(order) : j < i /\ order[j] = p
                 \/ order[i] \in Knots(resolution)
  <2>1. PICK c, p : c = order[i] /\ p = resolution[c][cap].provider
    OBVIOUS
  <2>2. c \in pool /\ c \in DOMAIN cands /\ cap \in DOMAIN resolution[c]
    BY <1>7, <1>12, <1>14, <2>1
  <2>3. resolution[c][cap] = ResolveOne(cands, prefs, c, cap, pool)
    BY <1>2, <2>2
  <2>4. p = None \/ p \in pool
    BY <2>1, <2>3, ResolvedInPool
  <2>5. CASE p \in pool
    <3>1. <<p, c>> \in edges
      <4>1. <<p, c>>[1] = p /\ <<p, c>>[2] = c /\ <<p, c>> \in pool \X pool
        BY <2>2, <2>5
      <4> QED BY <1>4, <2>1, <2>2, <4>1 DEF SelectedEdges
    <3>2. (\E j \in 1 .. Len(order) : j < i /\ order[j] = p) \/ c \in R
      BY <1>9, <2>1, <2>5, <3>1 DEF Orders
    <3>3. c \in R => c \in Knots(resolution)
      <4> SUFFICES ASSUME c \in R PROVE c \in Knots(resolution)
        OBVIOUS
      <4>1. PICK all : all = SelectedEdges(resolution, DOMAIN resolution)
        OBVIOUS
      <4>2. edges \subseteq all
        BY <1>4, <1>7, <1>10, <4>1 DEF SelectedEdges
      <4>3. \A m \in R : \E q \in R : <<q, m>> \in all
        BY <1>9, <4>2 DEF Orders, Waiting
      <4>4. IsFiniteSet(R)
        BY <1>7, <1>9, FS_Subset DEF Orders
      <4>5. c \in TangledBy(all)
        BY <4>3, <4>4, StuckIsTangled
      <4> QED BY <4>1, <4>5 DEF Knots
    <3> QED BY <2>1, <3>2, <3>3
  <2> QED BY <2>1, <2>4, <2>5
<1>15. \A i, j \in 1 .. Len(order) : order[i] = order[j] => i = j
  BY <1>9 DEF Orders
<1> QED BY <1>6, <1>8, <1>10, <1>13, <1>14, <1>15 DEF Sound
(***************************************************************************)
(* The desired state                                                       *)
(***************************************************************************)

(* A desired state, of finitely many entries, each of its latest revision. *)
Desired(d) ==
    /\ d = [scopes |-> d.scopes, entries |-> d.entries, revisions |-> d.revisions,
            dirty |-> d.dirty]
    /\ DOMAIN d.entries \subseteq EntryIds /\ IsFiniteSet(DOMAIN d.entries)
    /\ \A id : RevisionOf(d, id) \in Nat
    /\ \A id \in DOMAIN d.entries : d.entries[id].revision = RevisionOf(d, id)

(* A desired state that may come after: an entry is as it was or of a new  *)
(* revision, and no counter goes back.                                     *)
Follows(d, e) ==
    /\ \A id : RevisionOf(d, id) <= RevisionOf(e, id)
    /\ \A id \in DOMAIN e.entries :
         \/ id \in DOMAIN d.entries /\ e.entries[id] = d.entries[id]
         \/ RevisionOf(d, id) < e.entries[id].revision
Later(d, e) == Desired(e) /\ Follows(d, e)

(* Nothing or only the flag changed, and one change after the other.       *)
LEMMA LaterOn ==
    ASSUME NEW d, Desired(d)
    PROVE  /\ Later(d, d)
           /\ \A b : Later(d, [d EXCEPT !.dirty = b])
           /\ \A e, f : Later(d, e) /\ Later(e, f) => Later(d, f)
<1>1. Later(d, d)
  BY DEF Later, Follows, Desired
<1>2. ASSUME NEW b PROVE Later(d, [d EXCEPT !.dirty = b])
  <2>1. PICK e : e = [d EXCEPT !.dirty = b]
    OBVIOUS
  <2>2. e = [scopes |-> d.scopes, entries |-> d.entries, revisions |-> d.revisions, dirty |-> b]
    BY <2>1 DEF Desired
  <2>3. \A id : RevisionOf(e, id) = RevisionOf(d, id)
    BY <2>2 DEF RevisionOf
  <2>4. Desired(e)
    BY <2>2, <2>3 DEF Desired
  <2>5. Follows(d, e)
    BY <2>2, <2>3 DEF Follows, Desired
  <2> QED BY <2>1, <2>4, <2>5 DEF Later
<1>3. ASSUME NEW e, NEW f, Later(d, e), Later(e, f) PROVE Later(d, f)
  <2>1. ASSUME NEW id PROVE RevisionOf(d, id) <= RevisionOf(f, id)
    <3>1. RevisionOf(d, id) <= RevisionOf(e, id) /\ RevisionOf(e, id) <= RevisionOf(f, id)
      BY <1>3 DEF Later, Follows
    <3>2. RevisionOf(d, id) \in Nat /\ RevisionOf(e, id) \in Nat /\ RevisionOf(f, id) \in Nat
      BY <1>3 DEF Later, Desired
    <3> QED BY <3>1, <3>2
  <2>2. ASSUME NEW id \in DOMAIN f.entries
        PROVE  \/ id \in DOMAIN d.entries /\ f.entries[id] = d.entries[id]
               \/ RevisionOf(d, id) < f.entries[id].revision
    <3>1. CASE id \in DOMAIN e.entries /\ f.entries[id] = e.entries[id]
      BY <1>3, <3>1 DEF Later, Follows
    <3>2. CASE RevisionOf(e, id) < f.entries[id].revision
      <4>1. f.entries[id].revision = RevisionOf(f, id)
        BY <1>3 DEF Later, Desired
      <4>2. RevisionOf(d, id) <= RevisionOf(e, id)
        BY <1>3 DEF Later, Follows
      <4>3. RevisionOf(d, id) \in Nat /\ RevisionOf(e, id) \in Nat /\ RevisionOf(f, id) \in Nat
        BY <1>3 DEF Later, Desired
      <4> QED BY <3>2, <4>1, <4>2, <4>3
    <3> QED BY <1>3, <3>1, <3>2 DEF Later, Follows
  <2> QED BY <1>3, <2>1, <2>2 DEF Later, Follows
<1> QED BY <1>1, <1>2, <1>3

(* One change of the registry (harness.py install, uninstall).             *)
LEMMA ChangeKeepsDesired ==
    ASSUME NEW d, Desired(d)
    PROVE  /\ \A id \in EntryIds : \A plugin, config, scope :
                Later(d, InstallEntry(d, id, plugin, config, scope))
           /\ \A id : Later(d, Uninstall(d, id))
           /\ \A path : Later(d, Ensure(d, path))
           /\ \A change : change.id \in EntryIds => Later(d, Apply(d, change))
<1>1. ASSUME NEW id \in EntryIds, NEW plugin, NEW config, NEW scope
      PROVE  Later(d, InstallEntry(d, id, plugin, config, scope))
  <2>1. PICK e : e = InstallEntry(d, id, plugin, config, scope)
    OBVIOUS
  <2>2. PICK r, entry :
          /\ r = RevisionOf(d, id) + 1
          /\ entry = [plugin |-> plugin, config |-> config, scope |-> scope, revision |-> r]
    OBVIOUS
  <2>3. e = [scopes |-> d.scopes, entries |-> Put(d.entries, id, entry),
             revisions |-> Put(d.revisions, id, r), dirty |-> TRUE]
    BY <2>1, <2>2 DEF InstallEntry, Desired
  <2>4. /\ DOMAIN e.entries = DOMAIN d.entries \cup {id} /\ e.entries[id] = entry
        /\ \A x \in DOMAIN d.entries \ {id} : e.entries[x] = d.entries[x]
    BY <2>3 DEF Put
  <2>5. RevisionOf(e, id) = r /\ \A x : x # id => RevisionOf(e, x) = RevisionOf(d, x)
    BY <2>3 DEF RevisionOf, Put
  <2>6. RevisionOf(d, id) \in Nat /\ r \in Nat /\ RevisionOf(d, id) < r
    BY <2>2 DEF Desired
  <2>7. IsFiniteSet(DOMAIN d.entries \cup {id})
    BY FS_AddElement DEF Desired
  <2>8. \A x \in DOMAIN e.entries : e.entries[x].revision = RevisionOf(e, x)
    BY <2>2, <2>4, <2>5 DEF Desired
  <2>9. \A x : RevisionOf(e, x) \in Nat /\ RevisionOf(d, x) <= RevisionOf(e, x)
    <3>1. ASSUME NEW x PROVE RevisionOf(e, x) \in Nat /\ RevisionOf(d, x) <= RevisionOf(e, x)
      <4>1. RevisionOf(d, x) \in Nat
        BY DEF Desired
      <4> QED BY <2>5, <2>6, <4>1
    <3> QED BY <3>1
  <2>10. Desired(e)
    BY <2>3, <2>4, <2>7, <2>8, <2>9 DEF Desired
  <2>11. Follows(d, e)
    BY <2>2, <2>4, <2>6, <2>9 DEF Follows
  <2> QED BY <2>1, <2>10, <2>11 DEF Later
<1>2. ASSUME NEW id PROVE Later(d, Uninstall(d, id))
  <2>1. PICK e : e = Uninstall(d, id)
    OBVIOUS
  <2>2. e = [scopes |-> d.scopes, entries |-> Drop(d.entries, {id}), revisions |-> d.revisions,
             dirty |-> e.dirty]
    BY <2>1 DEF Uninstall, UninstallAll, Desired
  <2>3. /\ DOMAIN e.entries = DOMAIN d.entries \ {id}
        /\ \A x \in DOMAIN e.entries : e.entries[x] = d.entries[x]
    BY <2>2 DEF Drop
  <2>4. \A x : RevisionOf(e, x) = RevisionOf(d, x)
    BY <2>2 DEF RevisionOf
  <2>5. IsFiniteSet(DOMAIN d.entries \ {id})
    BY FS_RemoveElement DEF Desired
  <2>6. Desired(e)
    BY <2>2, <2>3, <2>4, <2>5 DEF Desired
  <2>7. Follows(d, e)
    BY <2>3, <2>4 DEF Follows, Desired
  <2> QED BY <2>1, <2>6, <2>7 DEF Later
<1>3. ASSUME NEW path PROVE Later(d, Ensure(d, path))
  <2>1. CASE HasScope(d, path)
    BY <2>1, LaterOn DEF Ensure
  <2>2. CASE ~HasScope(d, path)
    <3>1. PICK e : e = Ensure(d, path)
      OBVIOUS
    <3>2. e = [scopes |-> e.scopes, entries |-> d.entries, revisions |-> d.revisions, dirty |-> TRUE]
      BY <2>2, <3>1 DEF Ensure, Desired
    <3>3. \A x : RevisionOf(e, x) = RevisionOf(d, x)
      BY <3>2 DEF RevisionOf
    <3>4. Desired(e)
      BY <3>2, <3>3 DEF Desired
    <3>5. Follows(d, e)
      BY <3>2, <3>3 DEF Follows, Desired
    <3> QED BY <3>1, <3>4, <3>5 DEF Later
  <2> QED BY <2>1, <2>2
<1>4. ASSUME NEW change, change.id \in EntryIds PROVE Later(d, Apply(d, change))
  BY <1>1, <1>2, <1>4 DEF Apply
<1> QED BY <1>1, <1>2, <1>3, <1>4

(* The states that the changes of a transaction lead through.              *)
ForthStep(f, d, changes, i) == IF i = 0 THEN d ELSE Apply(f[i - 1], changes[i])
IsForth(f, d, changes, n) == f = [i \in 0 .. n |-> ForthStep(f, d, changes, i)]

(* There is the sequence of these states.                                  *)
LEMMA ForthExists ==
    ASSUME NEW d, NEW changes, NEW n \in Nat
    PROVE  \E f : IsForth(f, d, changes, n)
<1> DEFINE T == {m \in 0 .. n : \E f : IsForth(f, d, changes, m)}
<1>1. 0 \in T
  <2>1. IsForth([i \in 0 .. 0 |-> d], d, changes, 0)
    BY DEF IsForth, ForthStep
  <2>2. 0 \in 0 .. n
    OBVIOUS
  <2> QED BY <2>1, <2>2
<1>2. ASSUME NEW m \in 0 .. (n - 1), m \in T PROVE m + 1 \in T
  <2>1. PICK f : IsForth(f, d, changes, m)
    BY <1>2
  <2> DEFINE g == [i \in 0 .. (m + 1) |-> IF i = m + 1 THEN Apply(f[m], changes[m + 1]) ELSE f[i]]
  <2>2. \A i \in 0 .. m : g[i] = f[i] /\ f[i] = ForthStep(f, d, changes, i)
    BY <2>1 DEF IsForth
  <2>3. g[m + 1] = Apply(f[m], changes[m + 1]) /\ g = [i \in 0 .. (m + 1) |-> g[i]]
    OBVIOUS
  <2> HIDE DEF g
  <2>4. ASSUME NEW i \in 0 .. (m + 1) PROVE g[i] = ForthStep(g, d, changes, i)
    <3>1. CASE i = m + 1
      <4>1. i - 1 = m /\ i # 0 /\ m \in 0 .. m
        BY <3>1
      <4> QED BY <2>2, <2>3, <3>1, <4>1 DEF ForthStep
    <3>2. CASE i = 0
      <4>1. 0 \in 0 .. m
        OBVIOUS
      <4> QED BY <2>2, <3>2, <4>1 DEF ForthStep
    <3>3. CASE i # m + 1 /\ i # 0
      <4>1. i \in 0 .. m /\ i - 1 \in 0 .. m
        BY <3>3
      <4> QED BY <2>2, <3>3, <4>1 DEF ForthStep
    <3> QED BY <3>1, <3>2, <3>3
  <2>5. IsForth(g, d, changes, m + 1)
    BY <2>3, <2>4 DEF IsForth
  <2> QED BY <2>5
<1>3. n \in T
  <2> HIDE DEF T
  <2> QED BY <1>1, <1>2, CountUp
<1> QED BY <1>3

(* What a transaction on entries of known ids leaves (harness.py           *)
(* apply_config).                                                          *)
LEMMA TransactionKeepsDesired ==
    ASSUME NEW d, Desired(d), NEW changes, Len(changes) \in Nat,
           DOMAIN changes = 1 .. Len(changes), \A i \in DOMAIN changes : changes[i].id \in EntryIds
    PROVE  Later(d, Transaction(d, changes).done)
<1> DEFINE bad == {i \in DOMAIN changes : Fails(changes[i])}
           last == IF bad = {} THEN Len(changes) ELSE Min(bad) - 1
           forth == CHOOSE f : IsForth(f, d, changes, last)
<1>1. Transaction(d, changes).done = forth[last]
  BY DEF Transaction, IsForth, ForthStep
<1>2. last \in 0 .. Len(changes)
  <2>1. CASE bad = {}
    BY <2>1
  <2>2. CASE bad # {}
    <3>1. bad \in SUBSET Nat
      OBVIOUS
    <3>2. Min(bad) \in bad
      <4> HIDE DEF bad
      <4> QED BY <2>2, <3>1, LeastMember
    <3> QED BY <2>2, <3>2
  <2> QED BY <2>1, <2>2
<1> HIDE DEF bad, last
<1>3. last \in Nat /\ \A i \in 1 .. last : i \in DOMAIN changes
  BY <1>2
<1>4. IsForth(forth, d, changes, last)
  <2>1. \E f : IsForth(f, d, changes, last)
    BY <1>3, ForthExists
  <2> QED BY <2>1
<1> HIDE DEF forth
<1>5. \A i \in 0 .. last : forth[i] = ForthStep(forth, d, changes, i)
  BY <1>4 DEF IsForth
<1> DEFINE T == {i \in 0 .. last : Later(d, forth[i])}
<1>6. 0 \in T
  <2>1. 0 \in 0 .. last
    BY <1>3
  <2> QED BY <1>5, <2>1, LaterOn DEF ForthStep
<1>7. ASSUME NEW i \in 0 .. (last - 1), i \in T PROVE i + 1 \in T
  <2>1. i + 1 \in 0 .. last /\ i + 1 \in 1 .. last /\ i + 1 # 0 /\ (i + 1) - 1 = i
    BY <1>3
  <2>2. forth[i + 1] = Apply(forth[i], changes[i + 1])
    BY <1>5, <2>1 DEF ForthStep
  <2>3. changes[i + 1].id \in EntryIds
    BY <1>3, <2>1
  <2>4. PICK e, f : e = forth[i] /\ f = Apply(e, changes[i + 1])
    OBVIOUS
  <2>5. Later(d, e)
    BY <1>7, <2>4
  <2>6. Later(e, f)
    BY <2>3, <2>4, <2>5, ChangeKeepsDesired DEF Later
  <2>7. Later(d, f)
    BY <2>5, <2>6, LaterOn
  <2> QED BY <2>1, <2>2, <2>4, <2>7
<1>8. 0 .. last \subseteq T
  <2> HIDE DEF T
  <2> QED BY <1>3, <1>6, <1>7, CountUp
<1> QED BY <1>1, <1>3, <1>8

(* What the application of a configuration leaves (harness.py apply_config,*)
(* config/reconcile.py).                                                   *)
LEMMA BatchKeepsDesired ==
    ASSUME NEW d, Desired(d), NEW config \in Configs
    PROVE  Later(d, Batch(config, d).done)
<1>1. PICK S : S = Changes(config, d)
  OBVIOUS
<1>2. S \subseteq EntryIds /\ IsFiniteSet(S)
  <2>1. S \in SUBSET (DOMAIN config.entries \cup DOMAIN d.entries)
    BY <1>1 DEF Changes
  <2>2. IsFiniteSet(DOMAIN config.entries \cup DOMAIN d.entries)
    BY IdsAssumption, FS_Union DEF Desired
  <2>3. DOMAIN config.entries \cup DOMAIN d.entries \subseteq EntryIds
    BY IdsAssumption DEF Desired
  <2> QED BY <2>1, <2>2, <2>3, FS_Subset
<1>3. PICK ids : ids = SetToSeq(S)
  OBVIOUS
<1>4. PICK n \in Nat : ids \in [1 .. n -> S]
  <2>1. PICK n \in Nat : n = Cardinality(S)
    BY <1>2, FS_CardinalityType
  <2>2. ExistsBijection(1 .. n, S)
    BY <1>2, <2>1, FS_CardinalityType
  <2>3. \E f \in [1 .. n -> S] : IsInjective(f)
    BY <2>2 DEF ExistsBijection, Bijection, Injection
  <2>4. ids = CHOOSE f \in [1 .. n -> S] : IsInjective(f)
    BY <1>3, <2>1 DEF SetToSeq
  <2> QED BY <2>3, <2>4
<1>5. PICK changes : changes = [i \in DOMAIN ids |-> ChangeOf(config, d, ids[i])]
  OBVIOUS
<1>6. Batch(config, d) = Transaction(d, changes)
  BY <1>1, <1>3, <1>5 DEF Batch
<1>7. DOMAIN changes = 1 .. n /\ Len(changes) = n
  BY <1>4, <1>5
<1>8. \A i \in 1 .. n : changes[i].id = ids[i]
  BY <1>4, <1>5 DEF ChangeOf
<1>9. \A i \in 1 .. n : changes[i].id \in EntryIds
  BY <1>2, <1>4, <1>8
<1> QED BY <1>6, <1>7, <1>9, TransactionKeepsDesired
(***************************************************************************)
(* The live instances                                                      *)
(***************************************************************************)

(* The instances of an entry: its own, of ascending numbers up to top; only*)
(* the newest can have failed.                                             *)
Listed(q, id, top) ==
    /\ q \in Seq(Range(q)) /\ q # <<>>
    /\ \A i \in 1 .. Len(q) :
         q[i].entry = id /\ q[i].no \in 1 .. top /\ q[i].state \in {"active", "failed"}
    /\ \A i, j \in 1 .. Len(q) : i < j => q[i].no < q[j].no /\ q[i].state = "active"
AllListed(insts, top) == \A id \in DOMAIN insts : Listed(insts[id], id, top)

(* A sequence is one of its own elements.                                  *)
LEMMA OwnElements ==
    ASSUME NEW S, NEW q \in Seq(S)
    PROVE  /\ q \in Seq(Range(q))
           /\ \A x : x \in Range(q) <=> \E i \in 1 .. Len(q) : q[i] = x
<1>1. Len(q) \in Nat /\ DOMAIN q = 1 .. Len(q) /\ q = [i \in 1 .. Len(q) |-> q[i]]
  OBVIOUS
<1>2. \A x : x \in Range(q) <=> \E i \in 1 .. Len(q) : q[i] = x
  BY <1>1 DEF Range
<1>3. q \in [1 .. Len(q) -> Range(q)]
  BY <1>1, <1>2
<1> QED BY <1>1, <1>2, <1>3

(* What the disposal of some instances leaves of an entry's.               *)
LEMMA FilteredListed ==
    ASSUME NEW id, NEW top, NEW q, Listed(q, id, top), NEW keep
    PROVE  /\ Filtered(q, keep) # <<>> => Listed(Filtered(q, keep), id, top)
           /\ \A x \in Range(q) \cap keep : x \in Range(Filtered(q, keep)) /\ Filtered(q, keep) # <<>>
<1>1. PICK S : S = Range(q)
  OBVIOUS
<1>2. q \in Seq(S)
  BY <1>1 DEF Listed
<1>3. PICK f : f = Filtered(q, keep)
  OBVIOUS
<1>4. f \in Seq(S \cap keep) /\ \E e : Embeds(e, f, q, keep)
  BY <1>2, <1>3, FilterPlaces
<1>5. PICK e : Embeds(e, f, q, keep)
  BY <1>4
<1>6. f \in Seq(Range(f)) /\ \A x : x \in Range(f) <=> \E i \in 1 .. Len(f) : f[i] = x
  BY <1>4, OwnElements
<1>7. \A x : x \in S <=> \E i \in 1 .. Len(q) : q[i] = x
  BY <1>1, <1>2, OwnElements
<1>8. \A n \in 1 .. Len(f) : f[n] = q[e[n]] /\ e[n] \in 1 .. Len(q)
  BY <1>5 DEF Embeds
<1>9. \A m, n \in 1 .. Len(f) : m < n => e[m] < e[n]
  BY <1>5 DEF Embeds
<1>10. f # <<>> => Listed(f, id, top)
  <2>1. \A n \in 1 .. Len(f) :
          f[n].entry = id /\ f[n].no \in 1 .. top /\ f[n].state \in {"active", "failed"}
    BY <1>8 DEF Listed
  <2>2. ASSUME NEW m \in 1 .. Len(f), NEW n \in 1 .. Len(f), m < n
        PROVE  f[m].no < f[n].no /\ f[m].state = "active"
    <3>1. e[m] \in 1 .. Len(q) /\ e[n] \in 1 .. Len(q) /\ e[m] < e[n]
      BY <1>8, <1>9, <2>2
    <3>2. f[m] = q[e[m]] /\ f[n] = q[e[n]]
      BY <1>8
    <3> QED BY <3>1, <3>2 DEF Listed
  <2> QED BY <1>6, <2>1, <2>2 DEF Listed
<1>11. ASSUME NEW x \in S, x \in keep PROVE x \in Range(f) /\ f # <<>>
  <2>1. PICK i \in 1 .. Len(q) : q[i] = x
    BY <1>7
  <2>2. PICK n \in 1 .. Len(f) : e[n] = i
    BY <1>5, <1>11, <2>1 DEF Embeds
  <2>3. f[n] = x
    BY <1>8, <2>1, <2>2
  <2>4. x \in Range(f)
    BY <1>6, <2>3
  <2>5. f # <<>>
    BY <2>2
  <2> QED BY <2>4, <2>5
<1> QED BY <1>1, <1>3, <1>10, <1>11

(* Disposal (harness.py reconcile, _reclaim): what stays is as it was.     *)
LEMMA ThinnedListed ==
    ASSUME NEW insts, NEW top, AllListed(insts, top), NEW stay, NEW T, T = Thinned(insts, stay)
    PROVE  /\ AllListed(T, top)
           /\ \A id \in DOMAIN insts : \A x \in Range(insts[id]) \cap stay[id] :
                id \in DOMAIN T /\ x \in Range(T[id])
<1>1. PICK left : left = [id \in DOMAIN insts |-> Filtered(insts[id], stay[id])]
  OBVIOUS
<1>2. T = [id \in DOMAIN left \ {id \in DOMAIN left : left[id] = <<>>} |-> left[id]]
  BY <1>1 DEF Thinned, Drop
<1>3. /\ DOMAIN T = {id \in DOMAIN insts : left[id] # <<>>}
      /\ \A id \in DOMAIN T : T[id] = left[id]
  BY <1>1, <1>2
<1>4. ASSUME NEW id \in DOMAIN insts
      PROVE  /\ left[id] # <<>> => Listed(left[id], id, top)
             /\ \A x \in Range(insts[id]) \cap stay[id] : x \in Range(left[id]) /\ left[id] # <<>>
  <2>1. PICK q, keep : q = insts[id] /\ keep = stay[id]
    OBVIOUS
  <2>2. left[id] = Filtered(q, keep) /\ Listed(q, id, top)
    BY <1>1, <2>1 DEF AllListed
  <2> QED BY <2>1, <2>2, FilteredListed
<1>5. AllListed(T, top)
  BY <1>3, <1>4 DEF AllListed
<1> QED BY <1>3, <1>4, <1>5

(* A new instance beside the old ones of its entry (plugins/registry.py).  *)
TookPlace(T, id, new, top) ==
    /\ AllListed(T, top)
    /\ DOMAIN T = DOMAIN instances \cup {id}
    /\ \A x \in DOMAIN instances \ {id} : T[x] = instances[x]
    /\ T[id] # <<>> /\ Last(T[id]) = new /\ new \in Range(T[id])
    /\ id \in DOMAIN instances =>
         \A x \in Range(instances[id]) : x.state # "failed" => x \in Range(T[id])

(* What mount leaves is such a table of instances.                         *)
LEMMA BesideListed ==
    ASSUME NEW top \in Nat, AllListed(instances, top), NEW id, NEW new,
           new.no = top + 1, new.entry = id, new.state \in {"active", "failed"}, NEW T, T = Beside(id, new)
    PROVE  TookPlace(T, id, new, top + 1)
<1>1. PICK old : old = IF HasInstance(id) THEN instances[id] ELSE <<>>
  OBVIOUS
<1>2. PICK kept : kept = IF old # <<>> /\ Last(old).state = "failed" THEN Front(old) ELSE old
  OBVIOUS
<1>3. PICK q : q = Append(kept, new)
  OBVIOUS
<1>4. T = Put(instances, id, q)
  BY <1>1, <1>2, <1>3 DEF Beside
<1>5. /\ DOMAIN T = DOMAIN instances \cup {id} /\ T[id] = q
      /\ \A x \in DOMAIN instances \ {id} : T[x] = instances[x]
  BY <1>4 DEF Put
<1>6. PICK S : old \in Seq(S) /\ S = Range(old)
  <2>1. CASE HasInstance(id)
    BY <1>1, <2>1 DEF AllListed, Listed, HasInstance
  <2>2. CASE ~HasInstance(id)
    <3>1. old = <<>>
      BY <1>1, <2>2
    <3>2. <<>> \in Seq({})
      OBVIOUS
    <3> QED BY <3>1, <3>2, OwnElements
  <2> QED BY <2>1, <2>2
<1>7. /\ \A i \in 1 .. Len(old) :
           old[i].entry = id /\ old[i].no \in 1 .. top /\ old[i].state \in {"active", "failed"}
      /\ \A i, j \in 1 .. Len(old) : i < j => old[i].no < old[j].no /\ old[i].state = "active"
  <2>1. CASE HasInstance(id)
    <3>1. Listed(old, id, top)
      BY <1>1, <2>1 DEF AllListed, HasInstance
    <3> QED BY <3>1 DEF Listed
  <2>2. CASE ~HasInstance(id)
    BY <1>1, <2>2
  <2> QED BY <2>1, <2>2
<1>8. /\ kept \in Seq(S) /\ Len(kept) <= Len(old)
      /\ \A i \in 1 .. Len(kept) : kept[i] = old[i] /\ kept[i].state = old[i].state
      /\ \A i \in 1 .. Len(old) : i \notin 1 .. Len(kept) => old[i].state = "failed"
      /\ \A i \in 1 .. Len(kept) : i < Len(old) \/ kept[i].state # "failed"
  <2>1. CASE old # <<>> /\ Last(old).state = "failed"
    <3>1. Len(old) \in Nat /\ Len(old) >= 1 /\ kept = SubSeq(old, 1, Len(old) - 1)
      BY <1>2, <1>6, <2>1 DEF Front
    <3>2. /\ kept \in Seq(S) /\ Len(kept) = Len(old) - 1
          /\ \A i \in 1 .. Len(kept) : kept[i] = old[i]
      <4>1. PICK n \in Nat : n = Len(old) - 1
        <5>1. PICK l : l = Len(old)
          OBVIOUS
        <5>2. l \in Nat /\ l >= 1
          BY <3>1, <5>1
        <5>3. l - 1 \in Nat
          BY ONLY <5>2
        <5> QED BY <5>1, <5>3
      <4>2. \A i \in 1 .. n : old[i] \in S
        BY <1>6, <3>1, <4>1
      <4>3. /\ SubSeq(old, 1, n) \in Seq(S)
            /\ Len(SubSeq(old, 1, n)) = IF 1 <= n THEN n - 1 + 1 ELSE 0
            /\ \A i \in 1 .. (n - 1 + 1) : SubSeq(old, 1, n)[i] = old[1 + i - 1]
        BY <4>1, <4>2, SubSeqProperties
      <4>4. kept = SubSeq(old, 1, n)
        BY <3>1, <4>1
      <4>5. Len(kept) = n
        BY <4>1, <4>3, <4>4
      <4>6. \A i \in 1 .. n : 1 + i - 1 = i /\ i \in 1 .. (n - 1 + 1)
        BY <4>1
      <4> QED BY <4>1, <4>3, <4>4, <4>5, <4>6
    <3>3. old[Len(old)].state = "failed"
      BY <2>1 DEF Last
    <3> QED BY <3>1, <3>2, <3>3
  <2>2. CASE old # <<>> /\ Last(old).state # "failed"
    <3>1. kept = old /\ old[Len(old)].state # "failed" /\ Len(old) \in Nat
      BY <1>2, <1>6, <2>2 DEF Last
    <3> QED BY <1>6, <3>1
  <2>3. CASE old = <<>>
    <3>1. kept = old /\ Len(old) = 0
      BY <1>2, <2>3
    <3> QED BY <1>6, <3>1
  <2> QED BY <2>1, <2>2, <2>3
<1>9. Len(old) \in Nat /\ Len(kept) \in Nat
  BY <1>6, <1>8
<1>10. /\ q \in Seq(S \cup {new}) /\ Len(q) = Len(kept) + 1 /\ q[Len(kept) + 1] = new
       /\ \A i \in 1 .. Len(kept) : q[i] = old[i]
  <2>1. kept \in Seq(S \cup {new})
    BY <1>8
  <2> QED BY <1>3, <1>8, <2>1
<1>11. q \in Seq(Range(q)) /\ \A x : x \in Range(q) <=> \E i \in 1 .. Len(q) : q[i] = x
  BY <1>10, OwnElements
<1>12. \A i \in 1 .. Len(q) : i \in 1 .. Len(kept) \/ i = Len(kept) + 1
  BY <1>9, <1>10
<1>13. \A i \in 1 .. Len(kept) : i \in 1 .. Len(old)
  BY <1>8, <1>9
<1>14. \A i \in 1 .. Len(q) :
         q[i].entry = id /\ q[i].no \in 1 .. (top + 1) /\ q[i].state \in {"active", "failed"}
  BY <1>7, <1>10, <1>12, <1>13
<1>15. \A i \in 1 .. Len(kept) : old[i].state = "active"
  <2> SUFFICES ASSUME NEW i \in 1 .. Len(kept) PROVE old[i].state = "active"
    OBVIOUS
  <2>1. i \in 1 .. Len(old) /\ Len(old) \in 1 .. Len(old) /\ (i < Len(old) \/ i = Len(old))
    BY <1>8, <1>9
  <2>2. i = Len(old) => kept[i].state # "failed" /\ kept[i] = old[i]
    BY <1>8, <1>9
  <2> QED BY <1>7, <2>1, <2>2
<1>16. \A i, j \in 1 .. Len(q) : i < j => q[i].no < q[j].no /\ q[i].state = "active"
  <2> SUFFICES ASSUME NEW i \in 1 .. Len(q), NEW j \in 1 .. Len(q), i < j
               PROVE  q[i].no < q[j].no /\ q[i].state = "active"
    OBVIOUS
  <2>1. i \in 1 .. Len(kept) /\ i \in 1 .. Len(old) /\ q[i] = old[i]
    BY <1>9, <1>10, <1>12, <1>13
  <2>2. CASE j \in 1 .. Len(kept)
    BY <1>7, <1>10, <1>13, <2>1, <2>2
  <2>3. CASE j = Len(kept) + 1
    <3>1. q[j].no = top + 1 /\ q[i].no \in 1 .. top
      BY <1>7, <1>10, <2>1, <2>3
    <3>2. old[i].state = "active"
      BY <1>15, <2>1
    <3> QED BY <2>1, <3>1, <3>2
  <2> QED BY <1>12, <2>2, <2>3
<1>17. Listed(q, id, top + 1)
  BY <1>9, <1>10, <1>11, <1>14, <1>16 DEF Listed
<1>18. AllListed(T, top + 1)
  <2>1. ASSUME NEW x \in DOMAIN instances PROVE Listed(instances[x], x, top + 1)
    <3>1. Listed(instances[x], x, top) /\ \A k \in 1 .. top : k \in 1 .. (top + 1)
      BY DEF AllListed
    <3> QED BY <3>1 DEF Listed
  <2> QED BY <1>5, <1>17, <2>1 DEF AllListed
<1>19. q # <<>> /\ Last(q) = new /\ new \in Range(q)
  <2>1. Len(kept) + 1 \in 1 .. Len(q) /\ q[Len(q)] = new
    BY <1>9, <1>10
  <2> QED BY <1>10, <1>11, <2>1 DEF Last
<1>20. ASSUME id \in DOMAIN instances, NEW x \in Range(instances[id]), x.state # "failed"
       PROVE  x \in Range(q)
  <2>1. old = instances[id]
    BY <1>1, <1>20 DEF HasInstance
  <2>2. PICK i \in 1 .. Len(old) : old[i] = x
    BY <1>6, <1>20, <2>1, OwnElements
  <2>3. i \in 1 .. Len(kept)
    BY <1>8, <1>20, <2>2
  <2>4. i \in 1 .. Len(q) /\ q[i] = x
    BY <1>9, <1>10, <2>2, <2>3
  <2> QED BY <1>11, <2>4
<1> QED BY <1>5, <1>18, <1>19, <1>20 DEF TookPlace

(***************************************************************************)
(* The inductive invariant                                                 *)
(***************************************************************************)

(* The control state is a record, of a desired state among others.         *)
Control(c) ==
    /\ c = [desired |-> c.desired, configPrefs |-> c.configPrefs,
            programPrefs |-> c.programPrefs, config |-> c.config, provisions |-> c.provisions]
    /\ Desired(c.desired)

(* What a generation reaches is live and did not fail.                     *)
Reached(g) ==
    /\ g.members \in Seq(Range(g.members))
    /\ \A m \in Range(g.members) :
         m.entry \in DOMAIN instances /\ m \in Range(instances[m.entry]) /\ m.state = "active"

(* A control state that a call may leave.                                  *)
Onward(c, next) == Control(next) /\ Follows(c.desired, next.desired)

(* BoundToMembers, of one generation.                                      *)
Bound(g) ==
    \A m \in Range(g.members) : \A cap \in DOMAIN m.identity.bindings :
      LET b == m.identity.bindings[cap]
          provider == MemberOf(g, b.provider)
      IN b.provider # None =>
           /\ b.provider \in MemberIds(g)
           /\ cap \in Manifest[provider.identity.plugin].registers
           /\ b.instance = provider.no \/ m.entry \in Tangled(g)

(* The first k entries of the order had their turn.                        *)
Done(k) == {building.plan.order[i] : i \in 1 .. k}
Remaining(k) ==
    LET order == building.plan.order
    IN /\ building.left \in Seq(Range(building.left))
       /\ k + Len(building.left) = Len(order)
       /\ \A i \in 1 .. Len(building.left) : building.left[i] = order[k + i]

(* An identity has the providers that the plan selected for its entry.     *)
SelectedBy(bindings, r) ==
    DOMAIN bindings = DOMAIN r /\ \A cap \in DOMAIN r : bindings[cap].provider = r[cap].provider

(* A member so far is the newest instance of an entry that had its turn,   *)
(* has the providers of the plan, and is bound to the newest instances of  *)
(* such entries, or loops lead to it.                                      *)
Settled(m, k) ==
    /\ m.entry \in Done(k) /\ HasInstance(m.entry) /\ m = InstanceOf(m.entry) /\ m.state = "active"
    /\ SelectedBy(m.identity.bindings, building.plan.resolution[m.entry])
    /\ \A cap \in DOMAIN m.identity.bindings :
         LET b == m.identity.bindings[cap]
         IN \/ b.provider = None
            \/ b.provider \in Done(k) /\ b.instance = InstanceOf(b.provider).no
            \/ m.entry \in Knots(building.plan.resolution)

(* A reconciliation that is under way.                                     *)
IsBuild(b) ==
    b = [step |-> "mounting", plan |-> b.plan, cands |-> b.cands, scopes |-> b.scopes,
         left |-> b.left, ordered |-> b.ordered, mounted |-> b.mounted, decided |-> b.decided]

(* A reconciliation after k turns.  The observation that nothing was       *)
(* called since it began stands for what a call may have uninstalled.      *)
Progress(k) ==
    /\ IsBuild(building)
    /\ Sound(building.plan)
    /\ Remaining(k)
    /\ building.ordered \in Seq(Range(building.ordered))
    /\ \A m \in Range(building.ordered) : Settled(m, k)
    /\ \A id \in Done(k) : id \in Joined \/ previews = {}
    /\ \A id \in Range(building.plan.order) : HasEntry(control.desired, id) \/ previews = {}
    /\ \A g \in {current, held} : \A m \in Range(g.members) : m.no \notin building.mounted

(* The invariant: TypeOK and BoundToMembers, with what the steps of a      *)
(* reconciliation leave and rely on.                                       *)
IInv ==
    /\ Control(control)
    /\ mounts \in Nat /\ AllListed(instances, mounts)
    /\ \A g \in {current, held} : Reached(g) /\ Bound(g)
    /\ building # NoBuild => \E k \in 0 .. Len(building.plan.order) : Progress(k)

(* The calls on the desired state (harness.py install, uninstall,          *)
(* declare_scope, prefer_provider, apply_config), and what a publication   *)
(* makes of its flag.                                                      *)
LEMMA CallsKeepControl ==
    ASSUME NEW c, Control(c)
    PROVE  /\ \A e \in UserEntries :
                Onward(c, [c EXCEPT !.desired = InstallEntry(@, e.id, e.plugin, e.config, e.scope)])
           /\ \A id : Onward(c, [c EXCEPT !.desired = Uninstall(@, id)])
           /\ \A path : Onward(c, [c EXCEPT !.desired = Ensure(@, path)])
           /\ \A key, provider : Onward(c, Prefer(c, key, provider))
           /\ \A config \in Configs : Onward(c, Commit(c, config))
           /\ Onward(c, [c EXCEPT !.desired.dirty = FALSE])
           /\ [c EXCEPT !.desired.dirty = FALSE].desired.entries = c.desired.entries
<1>1. Desired(c.desired)
  BY DEF Control
<1>2. ASSUME NEW d, Later(c.desired, d) PROVE Onward(c, [c EXCEPT !.desired = d])
  <2>1. PICK e : e = [c EXCEPT !.desired = d]
    OBVIOUS
  <2>2. e = [desired |-> d, configPrefs |-> c.configPrefs,
             programPrefs |-> c.programPrefs, config |-> c.config, provisions |-> c.provisions]
    BY <2>1 DEF Control
  <2> QED BY <1>2, <2>1, <2>2 DEF Control, Onward, Later
<1>3. ASSUME NEW e \in UserEntries
      PROVE  Onward(c, [c EXCEPT !.desired = InstallEntry(@, e.id, e.plugin, e.config, e.scope)])
  <2>1. Later(c.desired, InstallEntry(c.desired, e.id, e.plugin, e.config, e.scope))
    BY <1>1, IdsAssumption, ChangeKeepsDesired
  <2>2. Onward(c, [c EXCEPT !.desired = InstallEntry(c.desired, e.id, e.plugin, e.config, e.scope)])
    BY <1>2, <2>1
  <2> QED BY <2>2
<1>4. ASSUME NEW id PROVE Onward(c, [c EXCEPT !.desired = Uninstall(@, id)])
  <2>1. Onward(c, [c EXCEPT !.desired = Uninstall(c.desired, id)])
    BY <1>1, <1>2, ChangeKeepsDesired
  <2> QED BY <2>1
<1>5. ASSUME NEW path PROVE Onward(c, [c EXCEPT !.desired = Ensure(@, path)])
  <2>1. Onward(c, [c EXCEPT !.desired = Ensure(c.desired, path)])
    BY <1>1, <1>2, ChangeKeepsDesired
  <2> QED BY <2>1
<1>6. ASSUME NEW key, NEW provider PROVE Onward(c, Prefer(c, key, provider))
  <2>1. PICK d : d = [c.desired EXCEPT !.dirty = TRUE]
    OBVIOUS
  <2>2. PICK e : e = Prefer(c, key, provider)
    OBVIOUS
  <2>3. e = [desired |-> d, configPrefs |-> c.configPrefs, programPrefs |-> e.programPrefs,
             config |-> c.config, provisions |-> c.provisions]
    BY <2>1, <2>2 DEF Prefer, Control
  <2>4. Later(c.desired, d)
    BY <1>1, <2>1, LaterOn
  <2> QED BY <2>2, <2>3, <2>4 DEF Control, Onward, Later
<1>7. ASSUME NEW config \in Configs PROVE Onward(c, Commit(c, config))
  <2>1. PICK d : d = Batch(config, c.desired).done
    OBVIOUS
  <2>2. PICK b : b = (d.dirty \/ ConfigPreferences(config) # c.configPrefs)
    OBVIOUS
  <2>3. PICK e : e = Commit(c, config)
    OBVIOUS
  <2>4. PICK f : f = [d EXCEPT !.dirty = b]
    OBVIOUS
  <2>5. e = [desired |-> f, configPrefs |-> ConfigPreferences(config),
             programPrefs |-> c.programPrefs, config |-> config, provisions |-> c.provisions]
    BY <2>1, <2>2, <2>3, <2>4 DEF Commit, Control
  <2>6. Later(c.desired, d)
    BY <1>1, <2>1, BatchKeepsDesired
  <2>7. Later(d, f)
    BY <2>4, <2>6, LaterOn DEF Later
  <2>8. Later(c.desired, f)
    BY <1>1, <2>6, <2>7, LaterOn
  <2> QED BY <2>3, <2>5, <2>8 DEF Control, Onward, Later
<1>8. /\ Onward(c, [c EXCEPT !.desired.dirty = FALSE])
      /\ [c EXCEPT !.desired.dirty = FALSE].desired.entries = c.desired.entries
  <2>1. PICK d : d = [c.desired EXCEPT !.dirty = FALSE]
    OBVIOUS
  <2>2. d.entries = c.desired.entries
    BY <1>1, <2>1 DEF Desired
  <2>3. Later(c.desired, d)
    BY <1>1, <2>1, LaterOn
  <2>4. PICK e : e = [c EXCEPT !.desired.dirty = FALSE]
    OBVIOUS
  <2>5. e = [c EXCEPT !.desired = d]
    BY <2>1, <2>4
  <2>6. e.desired = d
    BY <2>5 DEF Control
  <2> QED BY <1>2, <2>2, <2>3, <2>4, <2>5, <2>6
<1> QED BY <1>3, <1>4, <1>5, <1>6, <1>7, <1>8

(* The member of an entry in a generation.                                 *)
LEMMA MemberOfIs ==
    ASSUME NEW g, g.members \in Seq(Range(g.members)), NEW p
    PROVE  /\ p \in MemberIds(g) => MemberOf(g, p) \in Range(g.members) /\ MemberOf(g, p).entry = p
           /\ p \notin MemberIds(g) => MemberOf(g, p) = NoInstance
<1>1. PICK q : q = g.members
  OBVIOUS
<1>2. PICK at : at = {i \in DOMAIN q : q[i].entry = p}
  OBVIOUS
<1>3. /\ \A x : x \in Range(q) <=> \E i \in 1 .. Len(q) : q[i] = x
      /\ DOMAIN q = 1 .. Len(q) /\ Len(q) \in Nat
  <2>1. q \in Seq(Range(q))
    BY <1>1
  <2> QED BY <2>1, OwnElements
<1>4. MemberOf(g, p) = IF at = {} THEN NoInstance ELSE q[Min(at)]
  BY <1>1, <1>2 DEF MemberOf
<1>5. at # {} <=> p \in MemberIds(g)
  <2>1. p \in MemberIds(g) <=> \E m \in Range(q) : m.entry = p
    BY <1>1 DEF MemberIds
  <2>2. at # {} <=> \E i \in 1 .. Len(q) : q[i].entry = p
    BY <1>2, <1>3
  <2> QED BY <1>3, <2>1, <2>2
<1>6. at # {} => q[Min(at)] \in Range(q) /\ q[Min(at)].entry = p
  <2>1. at \in SUBSET Nat
    BY <1>2, <1>3
  <2>2. at # {} => Min(at) \in at
    BY <2>1, LeastMember
  <2> QED BY <1>2, <1>3, <2>2
<1> QED BY <1>1, <1>4, <1>5, <1>6

(* The initial state.                                                      *)
LEMMA StartsSound == Init => IInv
<1> SUFFICES ASSUME Init PROVE IInv
  OBVIOUS
<1>1. Control(control)
  <2>1. PICK d : d = control.desired
    OBVIOUS
  <2>2. d = NewDesired
    BY <2>1 DEF Init
  <2>3. d = [scopes |-> d.scopes, entries |-> d.entries, revisions |-> d.revisions,
             dirty |-> d.dirty] /\ DOMAIN d.entries = {} /\ DOMAIN d.revisions = {}
    BY <2>2 DEF NewDesired
  <2>4. IsFiniteSet(DOMAIN d.entries)
    BY <2>3, FS_EmptySet
  <2>5. \A id : RevisionOf(d, id) = 0
    BY <2>3 DEF RevisionOf
  <2>6. Desired(d)
    BY <2>3, <2>4, <2>5 DEF Desired
  <2> QED BY <2>1, <2>6 DEF Init, Control
<1>2. AllListed(instances, mounts) /\ mounts \in Nat
  BY DEF Init, AllListed
<1>3. NoGeneration.members = <<>> /\ Range(<<>>) = {} /\ <<>> \in Seq({})
  BY DEF NoGeneration, Range
<1>4. Reached(NoGeneration) /\ Bound(NoGeneration)
  BY <1>3 DEF Reached, Bound
<1> QED BY <1>1, <1>2, <1>4 DEF Init, IInv

(* A call on the desired state, at any step of a reconciliation.           *)
LEMMA CallsKeep ==
    ASSUME IInv, NEW next, Control(next), NEW seen, building # NoBuild => seen = {},
           Call(next, seen)
    PROVE  IInv'
<1>1. /\ control' = next /\ previews' = seen
      /\ UNCHANGED <<instances, current, held, building, mounts>>
  BY DEF Call
<1>2. Control(control)' /\ (mounts \in Nat /\ AllListed(instances, mounts))'
  BY <1>1 DEF IInv
<1>3. ASSUME NEW g, Reached(g) PROVE Reached(g)'
  BY <1>1, <1>3 DEF Reached
<1>4. (\A g \in {current, held} : Reached(g) /\ Bound(g))'
  BY <1>1, <1>3 DEF IInv
<1>5. ASSUME building # NoBuild PROVE (\E k \in 0 .. Len(building.plan.order) : Progress(k))'
  <2>1. PICK k \in 0 .. Len(building.plan.order) : Progress(k)
    BY <1>5 DEF IInv
  <2>2. Done(k)' = Done(k) /\ Joined' = Joined /\ (Remaining(k)' <=> Remaining(k))
    BY <1>1 DEF Done, Joined, Remaining
  <2>3. ASSUME NEW m, Settled(m, k) PROVE Settled(m, k)'
    <3>1. \A id : HasInstance(id)' = HasInstance(id) /\ InstanceOf(id)' = InstanceOf(id)
      BY <1>1 DEF HasInstance, InstanceOf, Newest
    <3> QED BY <1>1, <2>2, <2>3, <3>1 DEF Settled
  <2>4. previews' = {}
    BY <1>1, <1>5
  <2>5. Progress(k)'
    BY <1>1, <2>1, <2>2, <2>3, <2>4 DEF Progress
  <2> QED BY <1>1, <2>5
<1> QED BY <1>1, <1>2, <1>4, <1>5 DEF IInv

(* A reconciliation begins (harness.py reconcile, _materialize).           *)
LEMMA BeginKeeps == ASSUME IInv, ReconcileBegin PROVE IInv'
<1>1. /\ building = NoBuild
      /\ UNCHANGED <<control, instances, current, held, mounts>>
  BY DEF ReconcileBegin
<1>2. Control(control)' /\ (mounts \in Nat /\ AllListed(instances, mounts))'
  BY <1>1 DEF IInv
<1>3. ASSUME NEW g, Reached(g) PROVE Reached(g)'
  BY <1>1, <1>3 DEF Reached
<1>4. (\A g \in {current, held} : Reached(g) /\ Bound(g))'
  BY <1>1, <1>3 DEF IInv
<1>5. ASSUME building' # NoBuild PROVE (\E k \in 0 .. Len(building.plan.order) : Progress(k))'
  <2>1. PICK cands : cands = Candidates(control.desired.entries)
    OBVIOUS
  <2>2. PICK prefs : prefs = EffectivePreferences(control)
    OBVIOUS
  <2>3. PICK plan : plan = PlanOf(cands, prefs)
    OBVIOUS
  <2>4. /\ plan.cyclic = {}
        /\ building' = [step |-> "mounting", plan |-> plan, cands |-> cands,
                        scopes |-> control.desired.scopes, left |-> plan.order,
                        ordered |-> <<>>, mounted |-> {}, decided |-> <<>>]
    BY <1>5, <2>1, <2>2, <2>3 DEF ReconcileBegin
  <2>5. DOMAIN cands = DOMAIN control.desired.entries
    BY <2>1 DEF Candidates
  <2>6. IsFiniteSet(DOMAIN cands) /\ DOMAIN cands \subseteq EntryIds
    BY <2>5 DEF IInv, Control, Desired
  <2>7. Sound(plan) /\ DOMAIN plan.resolution = DOMAIN cands
    BY <2>3, <2>4, <2>6, PlanIsSound
  <2>8. PICK order : order = plan.order
    OBVIOUS
  <2>9. order \in Seq(DOMAIN cands)
    BY <2>7, <2>8 DEF Sound
  <2>10. /\ order \in Seq(Range(order))
         /\ \A x : x \in Range(order) <=> \E i \in 1 .. Len(order) : order[i] = x
    BY <2>9, OwnElements
  <2>11. /\ building'.plan.order = order /\ building'.left = order /\ building'.ordered = <<>>
         /\ building'.mounted = {} /\ building'.plan = plan
    BY <2>4, <2>8
  <2>12. Remaining(0)'
    <3>1. Len(order) \in Nat
      BY <2>10
    <3>2. 0 + Len(order) = Len(order) /\ \A i \in 1 .. Len(order) : 0 + i = i
      BY <3>1
    <3> QED BY <2>10, <2>11, <3>2 DEF Remaining
  <2>13. Done(0)' = {}
    BY DEF Done
  <2>14. (building.ordered \in Seq(Range(building.ordered)))' /\ Range(building.ordered)' = {}
    <3>1. <<>> \in Seq({}) /\ Range(<<>>) = {}
      BY DEF Range
    <3> QED BY <2>11, <3>1
  <2>15. (\A id \in Range(building.plan.order) : HasEntry(control.desired, id))'
    BY <1>1, <2>5, <2>9, <2>10, <2>11 DEF HasEntry
  <2>16. Progress(0)'
    BY <2>4, <2>7, <2>11, <2>12, <2>13, <2>14, <2>15 DEF Progress, IsBuild
  <2>17. (0 \in 0 .. Len(building.plan.order))'
    BY <2>10, <2>11
  <2> QED BY <2>16, <2>17
<1> QED BY <1>2, <1>4, <1>5 DEF IInv

(* A run leases the current generation (harness.py acquire).               *)
LEMMA LeaseKeeps == ASSUME IInv, Lease PROVE IInv'
<1>1. /\ building = NoBuild /\ held' = current
      /\ UNCHANGED <<control, instances, current, building, mounts>>
  BY DEF Lease
<1>2. Control(control)' /\ (mounts \in Nat /\ AllListed(instances, mounts))'
  BY <1>1 DEF IInv
<1>3. ASSUME NEW g, Reached(g) PROVE Reached(g)'
  BY <1>1, <1>3 DEF Reached
<1>4. (\A g \in {current, held} : Reached(g) /\ Bound(g))'
  BY <1>1, <1>3 DEF IInv
<1> QED BY <1>1, <1>2, <1>4 DEF IInv

(* Disposal spares what is reached (harness.py _reclaim).                  *)
LEMMA ReclaimedSparesReached ==
    ASSUME NEW top, AllListed(instances, top), NEW G, NEW T, T = Reclaimed(instances, G)
    PROVE  /\ AllListed(T, top)
           /\ \A g \in G : Reached(g) =>
                \A m \in Range(g.members) : m.entry \in DOMAIN T /\ m \in Range(T[m.entry])
<1> DEFINE Kept(i) == IF i.state = "failed" THEN HasEntry(control.desired, i.entry)
                      ELSE \E g \in G : i.no \in {m.no : m \in Range(g.members)}
<1>1. PICK stay : stay = [id \in DOMAIN instances |-> {i \in Range(instances[id]) : Kept(i)}]
  OBVIOUS
<1>2. T = Thinned(instances, stay)
  BY <1>1 DEF Reclaimed
<1>3. /\ AllListed(T, top)
      /\ \A id \in DOMAIN instances : \A x \in Range(instances[id]) \cap stay[id] :
           id \in DOMAIN T /\ x \in Range(T[id])
  BY <1>2, ThinnedListed
<1>4. ASSUME NEW g \in G, Reached(g), NEW m \in Range(g.members)
      PROVE  m.entry \in DOMAIN T /\ m \in Range(T[m.entry])
  <2>1. m.entry \in DOMAIN instances /\ m \in Range(instances[m.entry]) /\ m.state = "active"
    BY <1>4 DEF Reached
  <2>2. Kept(m)
    BY <2>1
  <2>3. m \in stay[m.entry]
    BY <1>1, <2>1, <2>2
  <2> QED BY <1>3, <2>1, <2>3
<1> QED BY <1>3, <1>4

(* A run returns its lease (harness.py acquire).                           *)
LEMMA ReleaseKeeps == ASSUME IInv, Release PROVE IInv'
<1>1. /\ building = NoBuild /\ held' = NoGeneration /\ instances' = Reclaimed(instances, {current})
      /\ UNCHANGED <<control, current, building, mounts>>
  BY DEF Release
<1>2. /\ AllListed(instances', mounts)
      /\ \A g \in {current} : Reached(g) =>
           \A m \in Range(g.members) : m.entry \in DOMAIN instances' /\ m \in Range(instances'[m.entry])
  <2>1. PICK G, T : G = {current} /\ T = Reclaimed(instances, G)
    OBVIOUS
  <2>2. AllListed(instances, mounts)
    BY DEF IInv
  <2>3. /\ AllListed(T, mounts)
        /\ \A g \in G : Reached(g) =>
             \A m \in Range(g.members) : m.entry \in DOMAIN T /\ m \in Range(T[m.entry])
    BY <2>1, <2>2, ReclaimedSparesReached
  <2> QED BY <1>1, <2>1, <2>3
<1>3. Reached(current)'
  BY <1>1, <1>2 DEF IInv, Reached
<1>4. NoGeneration.members = <<>> /\ Range(<<>>) = {} /\ <<>> \in Seq({})
  BY DEF NoGeneration, Range
<1>5. Reached(NoGeneration)' /\ Bound(NoGeneration)
  BY <1>4 DEF Reached, Bound
<1>6. (\A g \in {current, held} : Reached(g) /\ Bound(g))'
  BY <1>1, <1>3, <1>5 DEF IInv
<1>7. Control(control)' /\ (mounts \in Nat /\ AllListed(instances, mounts))'
  BY <1>1, <1>2 DEF IInv
<1> QED BY <1>1, <1>6, <1>7 DEF IInv

(***************************************************************************)
(* The turns of a reconciliation                                           *)
(***************************************************************************)

(* The entry whose turn it is, and what the plan says of it.               *)
LEMMA AtTurn ==
    ASSUME NEW k \in Nat, Progress(k), NEW id, Turn(id)
    PROVE  /\ k + 1 \in 0 .. Len(building.plan.order)
           /\ id \in Range(building.plan.order) /\ id \in DOMAIN building.plan.resolution
           /\ id \notin Done(k) /\ Done(k + 1) = Done(k) \cup {id}
           /\ \A cap \in DOMAIN building.plan.resolution[id] :
                LET p == building.plan.resolution[id][cap].provider
                IN p = None \/ p \in Done(k) \/ id \in Knots(building.plan.resolution)
           /\ LET rest == Tail(building.left)
              IN /\ rest \in Seq(Range(rest)) /\ (k + 1) + Len(rest) = Len(building.plan.order)
                 /\ \A i \in 1 .. Len(rest) : rest[i] = building.plan.order[(k + 1) + i]
<1>1. PICK order, left, selected :
        order = building.plan.order /\ left = building.left /\ selected = building.plan.resolution
  OBVIOUS
<1>2. left \in Seq(Range(left)) /\ left # <<>> /\ id = Head(left)
  BY <1>1 DEF Progress, Remaining, Turn
<1>3. k + Len(left) = Len(order) /\ \A i \in 1 .. Len(left) : left[i] = order[k + i]
  BY <1>1 DEF Progress, Remaining
<1>4. /\ order \in Seq(DOMAIN selected)
      /\ \A i, j \in 1 .. Len(order) : order[i] = order[j] => i = j
      /\ \A i \in 1 .. Len(order) : \A cap \in DOMAIN selected[order[i]] :
           LET p == selected[order[i]][cap].provider
           IN p = None \/ (\E j \in 1 .. Len(order) : j < i /\ order[j] = p)
                \/ order[i] \in Knots(selected)
  BY <1>1 DEF Progress, Sound
<1>5. PICK rest : rest = Tail(left)
  OBVIOUS
<1>6. /\ rest \in Seq(Range(left)) /\ Len(rest) = Len(left) - 1
      /\ \A i \in 1 .. Len(rest) : rest[i] = left[i + 1]
  BY <1>2, <1>5, HeadTailProperties
<1>7. Len(left) \in Nat /\ Len(left) >= 1 /\ Len(order) \in Nat /\ Len(rest) \in Nat
  <2>1. Len(left) \in Nat /\ Len(order) \in Nat /\ Len(rest) \in Nat
    BY <1>2, <1>4, <1>6
  <2>2. Len(left) # 0
    BY <1>2
  <2> QED BY <2>1, <2>2
<1>8. k + 1 \in 1 .. Len(order) /\ id = order[k + 1]
  <2>1. left[1] = order[k + 1] /\ id = left[1]
    BY <1>2, <1>3, <1>7
  <2> QED BY <1>3, <1>7, <2>1
<1>9. id \in Range(order) /\ id \in DOMAIN selected
  BY <1>4, <1>8 DEF Range
<1>10. Done(k) = {order[i] : i \in 1 .. k} /\ Done(k + 1) = {order[i] : i \in 1 .. (k + 1)}
  BY <1>1 DEF Done
<1>11. Done(k + 1) = Done(k) \cup {id}
  <2>1. 1 .. (k + 1) = 1 .. k \cup {k + 1}
    OBVIOUS
  <2> QED BY <1>8, <1>10, <2>1
<1>12. id \notin Done(k)
  <2> SUFFICES ASSUME NEW i \in 1 .. k, order[i] = id PROVE FALSE
    BY <1>10
  <2>1. i \in 1 .. Len(order) /\ i # k + 1
    BY <1>8, <1>7
  <2> QED BY <1>4, <1>8, <2>1
<1>13. ASSUME NEW cap \in DOMAIN selected[id]
       PROVE  LET p == selected[id][cap].provider
              IN p = None \/ p \in Done(k) \/ id \in Knots(selected)
  <2>1. PICK p : p = selected[id][cap].provider
    OBVIOUS
  <2>2. p = None \/ (\E j \in 1 .. Len(order) : j < k + 1 /\ order[j] = p) \/ id \in Knots(selected)
    BY <1>4, <1>8, <2>1
  <2>3. ASSUME NEW j \in 1 .. Len(order), j < k + 1, order[j] = p PROVE p \in Done(k)
    <3>1. j \in 1 .. k
      BY <2>3, <1>7
    <3> QED BY <1>10, <2>3, <3>1
  <2> QED BY <2>1, <2>2, <2>3
<1>14. rest \in Seq(Range(rest))
  BY <1>6, OwnElements
<1>15. /\ (k + 1) + Len(rest) = Len(order)
       /\ \A i \in 1 .. Len(rest) : rest[i] = order[(k + 1) + i]
  <2>1. (k + 1) + Len(rest) = Len(order)
    <3>1. PICK l, r, n : l = Len(left) /\ r = Len(rest) /\ n = Len(order)
      OBVIOUS
    <3>2. k + l = n /\ r = l - 1 /\ l \in Nat /\ r \in Nat /\ n \in Nat
      BY <1>3, <1>6, <1>7, <3>1
    <3>3. (k + 1) + r = n
      BY ONLY <3>2, k \in Nat
    <3> QED BY <3>1, <3>3
  <2>2. ASSUME NEW i \in 1 .. Len(rest) PROVE rest[i] = order[(k + 1) + i]
    <3>1. i + 1 \in 1 .. Len(left) /\ k + (i + 1) = (k + 1) + i
      BY <1>6, <1>7
    <3> QED BY <1>3, <1>6, <3>1
  <2> QED BY <2>1, <2>2
<1>16. k + 1 \in 0 .. Len(order)
  BY <1>7, <1>8
<1>17. LET tail == Tail(building.left)
       IN /\ tail \in Seq(Range(tail)) /\ (k + 1) + Len(tail) = Len(building.plan.order)
          /\ \A i \in 1 .. Len(tail) : tail[i] = building.plan.order[(k + 1) + i]
  BY <1>1, <1>5, <1>14, <1>15, Zenon
<1> QED BY <1>1, <1>9, <1>11, <1>12, <1>13, <1>16, <1>17

(* The members so far stay settled when the instances of the entries that  *)
(* had their turn stay.                                                    *)
LEMMA StaySettled ==
    ASSUME NEW k \in Nat, Progress(k), NEW id, Turn(id), building'.plan = building.plan,
           \A x \in Done(k) : HasInstance(x)' = HasInstance(x) /\ InstanceOf(x)' = InstanceOf(x)
    PROVE  /\ Done(k + 1)' = Done(k) \cup {id}
           /\ \A m : Settled(m, k) => Settled(m, k + 1)'
<1>1. Done(k + 1) = Done(k) \cup {id}
  BY AtTurn
<1>2. Done(k + 1)' = Done(k) \cup {id}
  BY <1>1 DEF Done
<1>3. ASSUME NEW m, Settled(m, k) PROVE Settled(m, k + 1)'
  <2>1. m.entry \in Done(k) /\ HasInstance(m.entry) /\ m = InstanceOf(m.entry) /\ m.state = "active"
    BY <1>3 DEF Settled
  <2>2. HasInstance(m.entry)' /\ m = InstanceOf(m.entry)'
    BY <2>1
  <2>3. ASSUME NEW cap \in DOMAIN m.identity.bindings, NEW b, b = m.identity.bindings[cap]
        PROVE  \/ b.provider = None
               \/ b.provider \in Done(k + 1)' /\ b.instance = InstanceOf(b.provider)'.no
               \/ m.entry \in Knots(building'.plan.resolution)
    <3>1. \/ b.provider = None
          \/ b.provider \in Done(k) /\ b.instance = InstanceOf(b.provider).no
          \/ m.entry \in Knots(building.plan.resolution)
      BY <1>3, <2>3 DEF Settled
    <3> QED BY <1>2, <3>1
  <2>4. SelectedBy(m.identity.bindings, building'.plan.resolution[m.entry])
    BY <1>3 DEF Settled
  <2> QED BY <1>2, <2>1, <2>2, <2>3, <2>4 DEF Settled
<1> QED BY <1>2, <1>3

(* What the identity of the entry says of its providers.                   *)
LEMMA BoundAtTurn ==
    ASSUME NEW k \in Nat, Progress(k), NEW id, Turn(id), NEW i,
           i = IdentityAtTurn(id) \/ Same(i, IdentityAtTurn(id))
    PROVE  /\ SelectedBy(i.bindings, building.plan.resolution[id])
           /\ \A cap \in DOMAIN i.bindings :
                LET b == i.bindings[cap]
                IN \/ b.provider = None
                   \/ b.provider \in Done(k) /\ b.instance = InstanceOf(b.provider).no
                   \/ id \in Knots(building.plan.resolution)
<1>1. PICK r : r = building.plan.resolution[id]
  OBVIOUS
<1>2. PICK j : j = IdentityAtTurn(id)
  OBVIOUS
<1> DEFINE P == Providers(r)
<1>3. PICK entry, prefs, number, digest :
        /\ number = [p \in P |-> InstanceOf(p).no]
        /\ j = Identity(id, entry, r, prefs, number, digest)
  BY <1>1, <1>2 DEF IdentityAtTurn
<1>4. /\ DOMAIN j.bindings = DOMAIN r
      /\ \A cap \in DOMAIN r :
           /\ j.bindings[cap].provider = r[cap].provider
           /\ j.bindings[cap].instance =
                IF r[cap].provider = None THEN None ELSE number[r[cap].provider]
  BY <1>3 DEF Identity
<1>5. i.bindings = j.bindings
  <2>1. CASE i = j
    BY <2>1
  <2>2. CASE Same(i, j)
    <3>1. [i EXCEPT !.prefs = j.prefs] = j
      BY <2>2 DEF Same
    <3>2. "bindings" \in DOMAIN j
      BY <1>3 DEF Identity
    <3> QED BY <3>1, <3>2
  <2> QED BY <1>2, <2>1, <2>2
<1>6. ASSUME NEW cap \in DOMAIN r, NEW p, p = r[cap].provider, p # None
      PROVE  number[p] = InstanceOf(p).no
  <2>1. p \in P
    BY <1>6 DEF Providers
  <2> QED BY <1>3, <2>1
<1>7. \A cap \in DOMAIN r :
        LET p == r[cap].provider
        IN p = None \/ p \in Done(k) \/ id \in Knots(building.plan.resolution)
  BY <1>1, AtTurn
<1>8. SelectedBy(i.bindings, r)
  BY <1>4, <1>5 DEF SelectedBy
<1> QED BY <1>1, <1>4, <1>5, <1>6, <1>7, <1>8

(* The fields of its record that a step of a reconciliation changes.       *)
NewLeft(b, v) == [b EXCEPT !.left = v]
NewOrdered(b, v) == [b EXCEPT !.ordered = v]
NewMounted(b, v) == [b EXCEPT !.mounted = v]
NewDecided(b, v) == [b EXCEPT !.decided = v]

(* Each changes its own field and leaves a reconciliation under way.       *)
LEMMA BuildMoves ==
    ASSUME NEW b, IsBuild(b), NEW v
    PROVE  /\ IsBuild(NewLeft(b, v)) /\ NewLeft(b, v).plan = b.plan
           /\ NewLeft(b, v).left = v /\ NewLeft(b, v).ordered = b.ordered
           /\ NewLeft(b, v).mounted = b.mounted /\ NewLeft(b, v).decided = b.decided
           /\ IsBuild(NewOrdered(b, v)) /\ NewOrdered(b, v).plan = b.plan
           /\ NewOrdered(b, v).left = b.left /\ NewOrdered(b, v).ordered = v
           /\ NewOrdered(b, v).mounted = b.mounted /\ NewOrdered(b, v).decided = b.decided
           /\ IsBuild(NewMounted(b, v)) /\ NewMounted(b, v).plan = b.plan
           /\ NewMounted(b, v).left = b.left /\ NewMounted(b, v).ordered = b.ordered
           /\ NewMounted(b, v).mounted = v /\ NewMounted(b, v).decided = b.decided
           /\ IsBuild(NewDecided(b, v)) /\ NewDecided(b, v).plan = b.plan
           /\ NewDecided(b, v).left = b.left /\ NewDecided(b, v).ordered = b.ordered
           /\ NewDecided(b, v).mounted = b.mounted /\ NewDecided(b, v).decided = v
<1>1. PICK plan, cands, scopes, left, ordered, mounted, decided :
        b = [step |-> "mounting", plan |-> plan, cands |-> cands, scopes |-> scopes,
             left |-> left, ordered |-> ordered, mounted |-> mounted, decided |-> decided]
  BY DEF IsBuild
<1>2. /\ IsBuild(NewLeft(b, v)) /\ NewLeft(b, v).plan = b.plan
      /\ NewLeft(b, v).left = v /\ NewLeft(b, v).ordered = b.ordered
      /\ NewLeft(b, v).mounted = b.mounted /\ NewLeft(b, v).decided = b.decided
  <2>1. NewLeft(b, v) =
          [step |-> "mounting", plan |-> plan, cands |-> cands, scopes |-> scopes,
           left |-> v, ordered |-> ordered, mounted |-> mounted, decided |-> decided]
    BY <1>1 DEF NewLeft
  <2> QED BY <1>1, <2>1 DEF IsBuild
<1>3. /\ IsBuild(NewOrdered(b, v)) /\ NewOrdered(b, v).plan = b.plan
      /\ NewOrdered(b, v).left = b.left /\ NewOrdered(b, v).ordered = v
      /\ NewOrdered(b, v).mounted = b.mounted /\ NewOrdered(b, v).decided = b.decided
  <2>1. NewOrdered(b, v) =
          [step |-> "mounting", plan |-> plan, cands |-> cands, scopes |-> scopes,
           left |-> left, ordered |-> v, mounted |-> mounted, decided |-> decided]
    BY <1>1 DEF NewOrdered
  <2> QED BY <1>1, <2>1 DEF IsBuild
<1>4. /\ IsBuild(NewMounted(b, v)) /\ NewMounted(b, v).plan = b.plan
      /\ NewMounted(b, v).left = b.left /\ NewMounted(b, v).ordered = b.ordered
      /\ NewMounted(b, v).mounted = v /\ NewMounted(b, v).decided = b.decided
  <2>1. NewMounted(b, v) =
          [step |-> "mounting", plan |-> plan, cands |-> cands, scopes |-> scopes,
           left |-> left, ordered |-> ordered, mounted |-> v, decided |-> decided]
    BY <1>1 DEF NewMounted
  <2> QED BY <1>1, <2>1 DEF IsBuild
<1>5. /\ IsBuild(NewDecided(b, v)) /\ NewDecided(b, v).plan = b.plan
      /\ NewDecided(b, v).left = b.left /\ NewDecided(b, v).ordered = b.ordered
      /\ NewDecided(b, v).mounted = b.mounted /\ NewDecided(b, v).decided = v
  <2>1. NewDecided(b, v) =
          [step |-> "mounting", plan |-> plan, cands |-> cands, scopes |-> scopes,
           left |-> left, ordered |-> ordered, mounted |-> mounted, decided |-> v]
    BY <1>1 DEF NewDecided
  <2> QED BY <1>1, <2>1 DEF IsBuild
<1> QED BY <1>2, <1>3, <1>4, <1>5

(* A turn's changes to that record, one after the other.                   *)
CarriedOn(b, l, o, d) == [b EXCEPT !.left = l, !.ordered = o, !.decided = d]
MountedOn(b, l, o, m, d) == [b EXCEPT !.left = l, !.ordered = o, !.mounted = m, !.decided = d]

(* They leave a reconciliation under way, of the same plan.                *)
LEMMA TurnMoves ==
    ASSUME NEW b, IsBuild(b), NEW l, NEW o, NEW m, NEW d
    PROVE  /\ LET c == CarriedOn(b, l, o, d)
              IN /\ IsBuild(c) /\ c.plan = b.plan /\ c.left = l /\ c.ordered = o
                 /\ c.mounted = b.mounted /\ c.decided = d
           /\ LET c == MountedOn(b, l, o, m, d)
              IN /\ IsBuild(c) /\ c.plan = b.plan /\ c.left = l /\ c.ordered = o
                 /\ c.mounted = m /\ c.decided = d
<1>1. PICK c1 : c1 = NewLeft(b, l)
  OBVIOUS
<1>2. PICK c2 : c2 = NewOrdered(c1, o)
  OBVIOUS
<1>3. PICK c3 : c3 = NewMounted(c2, m)
  OBVIOUS
<1>4. PICK c4, c5 : c4 = NewDecided(c2, d) /\ c5 = NewDecided(c3, d)
  OBVIOUS
<1>5. IsBuild(c1) /\ c1.plan = b.plan /\ c1.left = l /\ c1.mounted = b.mounted
  BY <1>1, BuildMoves
<1>6. /\ IsBuild(c2) /\ c2.plan = b.plan /\ c2.left = l /\ c2.ordered = o
      /\ c2.mounted = b.mounted
  BY <1>2, <1>5, BuildMoves
<1>7. IsBuild(c3) /\ c3.plan = b.plan /\ c3.left = l /\ c3.ordered = o /\ c3.mounted = m
  BY <1>3, <1>6, BuildMoves
<1>8. /\ IsBuild(c4) /\ c4.plan = b.plan /\ c4.left = l /\ c4.ordered = o
      /\ c4.mounted = b.mounted /\ c4.decided = d
  BY <1>4, <1>6, BuildMoves
<1>9. /\ IsBuild(c5) /\ c5.plan = b.plan /\ c5.left = l /\ c5.ordered = o /\ c5.mounted = m
      /\ c5.decided = d
  BY <1>4, <1>7, BuildMoves
<1>10. c4 = CarriedOn(b, l, o, d)
  BY <1>1, <1>2, <1>4 DEF NewLeft, NewOrdered, NewDecided, CarriedOn
<1>11. c5 = MountedOn(b, l, o, m, d)
  BY <1>1, <1>2, <1>3, <1>4 DEF NewLeft, NewOrdered, NewMounted, NewDecided, MountedOn
<1> QED BY <1>8, <1>9, <1>10, <1>11

(* The three turns that leave a reconciliation under way.                  *)
LEMMA PassOverMoves ==
    ASSUME IInv, NEW id, PassOver(id)
    PROVE  /\ building'.plan = building.plan /\ building'.left = Tail(building.left)
           /\ building'.ordered = building.ordered /\ building'.mounted = building.mounted
           /\ building'.decided = building.decided /\ IsBuild(building')
<1>1. building # NoBuild /\ building' = [building EXCEPT !.left = Tail(@)]
  BY DEF PassOver, Turn
<1>2. PICK l, b, c : l = Tail(building.left) /\ b = building /\ c = building'
  OBVIOUS
<1>3. IsBuild(b) /\ c = NewLeft(b, l)
  BY <1>1, <1>2 DEF IInv, Progress, NewLeft
<1>4. /\ IsBuild(c) /\ c.plan = b.plan /\ c.left = l
      /\ c.ordered = b.ordered /\ c.mounted = b.mounted /\ c.decided = b.decided
  BY <1>3, BuildMoves
<1> QED BY <1>2, <1>4

(* An instance carried over joins the members.                             *)
LEMMA CarryOverMoves ==
    ASSUME IInv, NEW id, CarryOver(id)
    PROVE  /\ building'.plan = building.plan /\ building'.left = Tail(building.left)
           /\ building'.ordered = Append(building.ordered, Newest(id))
           /\ building'.mounted = building.mounted
           /\ building'.decided = Put(building.decided, id, IdentityAtTurn(id))
           /\ IsBuild(building')
<1>1. /\ building # NoBuild
      /\ building' = [building EXCEPT !.left = Tail(@), !.ordered = Append(@, Newest(id)),
                                      !.decided = Put(@, id, IdentityAtTurn(id))]
  BY DEF CarryOver, Turn
<1>2. PICK l, o, d, b, c :
        /\ l = Tail(building.left) /\ o = Append(building.ordered, Newest(id))
        /\ d = Put(building.decided, id, IdentityAtTurn(id)) /\ b = building /\ c = building'
  OBVIOUS
<1>3. IsBuild(b)
  BY <1>1, <1>2 DEF IInv, Progress
<1>4. c = CarriedOn(b, l, o, d)
  BY <1>1, <1>2 DEF CarriedOn
<1>5. /\ IsBuild(c) /\ c.plan = b.plan /\ c.left = l /\ c.ordered = o /\ c.mounted = b.mounted
      /\ c.decided = d
  BY <1>3, <1>4, TurnMoves
<1> QED BY <1>2, <1>5

(* So does a new one, which is listed as mounted.                          *)
LEMMA MountMoves ==
    ASSUME IInv, NEW id, Mount(id), NEW new,
           new = [no |-> mounts + 1, entry |-> id, state |-> "active",
                  revision |-> control.desired.entries[id].revision,
                  identity |-> IdentityAtTurn(id)]
    PROVE  /\ building'.plan = building.plan /\ building'.left = Tail(building.left)
           /\ building'.ordered = Append(building.ordered, new)
           /\ building'.mounted = building.mounted \cup {mounts + 1}
           /\ building'.decided = Put(building.decided, id, IdentityAtTurn(id))
           /\ IsBuild(building')
<1>1. /\ building # NoBuild
      /\ building' = [building EXCEPT !.left = Tail(@), !.ordered = Append(@, new),
                                      !.mounted = @ \cup {new.no},
                                      !.decided = Put(@, id, new.identity)]
  BY DEF Mount, Turn
<1>2. PICK l, o, m, d, b, c :
        /\ l = Tail(building.left) /\ o = Append(building.ordered, new)
        /\ m = building.mounted \cup {new.no} /\ d = Put(building.decided, id, new.identity)
        /\ b = building /\ c = building'
  OBVIOUS
<1>3. IsBuild(b)
  BY <1>1, <1>2 DEF IInv, Progress
<1>4. c = MountedOn(b, l, o, m, d)
  BY <1>1, <1>2 DEF MountedOn
<1>5. /\ IsBuild(c) /\ c.plan = b.plan /\ c.left = l /\ c.ordered = o /\ c.mounted = m
      /\ c.decided = d
  BY <1>3, <1>4, TurnMoves
<1>6. new.no = mounts + 1 /\ new.identity = IdentityAtTurn(id)
  OBVIOUS
<1> QED BY <1>2, <1>5, <1>6

(* An entry uninstalled since is passed over (harness.py _materialize).    *)
LEMMA PassOverKeeps == ASSUME IInv, NEW id, PassOver(id) PROVE IInv'
<1>1. /\ Turn(id) /\ building # NoBuild /\ ~HasEntry(control.desired, id)
      /\ building' = [building EXCEPT !.left = Tail(@)]
      /\ UNCHANGED <<control, instances, current, held, mounts, previews>>
  BY DEF PassOver, Turn
<1>2. PICK k \in 0 .. Len(building.plan.order) : Progress(k)
  BY <1>1 DEF IInv
<1>3. k \in Nat /\ k + 1 \in 0 .. Len(building.plan.order) /\ id \in Range(building.plan.order)
  BY <1>1, <1>2, AtTurn
<1>4. /\ building'.plan = building.plan /\ building'.left = Tail(building.left)
      /\ building'.ordered = building.ordered /\ building'.mounted = building.mounted
      /\ IsBuild(building')
  BY PassOverMoves
<1>5. \A x : HasInstance(x)' = HasInstance(x) /\ InstanceOf(x)' = InstanceOf(x)
  BY <1>1 DEF HasInstance, InstanceOf, Newest
<1>6. /\ Done(k + 1)' = Done(k) \cup {id}
      /\ \A m : Settled(m, k) => Settled(m, k + 1)'
  BY <1>1, <1>2, <1>3, <1>4, <1>5, StaySettled
<1>7. Remaining(k + 1)'
  <2>1. LET rest == Tail(building.left)
        IN /\ rest \in Seq(Range(rest)) /\ (k + 1) + Len(rest) = Len(building.plan.order)
           /\ \A i \in 1 .. Len(rest) : rest[i] = building.plan.order[(k + 1) + i]
    BY <1>1, <1>2, <1>3, AtTurn
  <2> QED BY <1>4, <2>1 DEF Remaining
<1>8. previews = {}
  BY <1>1, <1>2, <1>3 DEF Progress
<1>9. Progress(k + 1)'
  BY <1>1, <1>2, <1>4, <1>6, <1>7, <1>8 DEF Progress
<1>10. (\E n \in 0 .. Len(building.plan.order) : Progress(n))'
  BY <1>3, <1>4, <1>9
<1>11. ASSUME NEW g, Reached(g) PROVE Reached(g)'
  BY <1>1, <1>11 DEF Reached
<1>12. (\A g \in {current, held} : Reached(g) /\ Bound(g))'
  BY <1>1, <1>11 DEF IInv
<1>13. Control(control)' /\ (mounts \in Nat /\ AllListed(instances, mounts))'
  BY <1>1 DEF IInv
<1> QED BY <1>10, <1>12, <1>13 DEF IInv

(* One element more.                                                       *)
LEMMA OneMore ==
    ASSUME NEW q, q \in Seq(Range(q)), NEW new
    PROVE  /\ Append(q, new) \in Seq(Range(Append(q, new)))
           /\ Range(Append(q, new)) = Range(q) \cup {new}
<1>1. PICK S : S = Range(q)
  OBVIOUS
<1>2. PICK t : t = Append(q, new)
  OBVIOUS
<1>3. /\ t \in Seq(S \cup {new}) /\ Len(q) \in Nat /\ Len(t) = Len(q) + 1 /\ t[Len(q) + 1] = new
      /\ \A i \in 1 .. Len(q) : t[i] = q[i]
  BY <1>1, <1>2, q \in Seq(S \cup {new})
<1>4. t \in Seq(Range(t)) /\ \A x : x \in Range(t) <=> \E i \in 1 .. Len(t) : t[i] = x
  BY <1>3, OwnElements
<1>5. \A x : x \in S <=> \E i \in 1 .. Len(q) : q[i] = x
  BY <1>1, OwnElements
<1>6. \A i \in 1 .. Len(t) : i \in 1 .. Len(q) \/ i = Len(q) + 1
  BY <1>3
<1>7. ASSUME NEW x \in Range(t) PROVE x \in S \cup {new}
  <2>1. PICK i \in 1 .. Len(t) : t[i] = x
    BY <1>4
  <2> QED BY <1>3, <1>5, <1>6, <2>1
<1>8. new \in Range(t)
  <2>1. Len(q) + 1 \in 1 .. Len(t)
    BY <1>3
  <2> QED BY <1>3, <1>4, <2>1
<1>9. ASSUME NEW x \in S PROVE x \in Range(t)
  <2>1. PICK i \in 1 .. Len(q) : q[i] = x
    BY <1>5
  <2>2. i \in 1 .. Len(t) /\ t[i] = x
    BY <1>3, <2>1
  <2> QED BY <1>4, <2>2
<1>10. Range(t) = S \cup {new}
  BY <1>7, <1>8, <1>9
<1> QED BY <1>1, <1>2, <1>4, <1>10

(* One member more: the newest instance of the entry whose turn it was.    *)
LEMMA JoinKeepsProgress ==
    ASSUME NEW k \in Nat, Progress(k), NEW id, Turn(id), NEW new, new.entry = id,
           building'.plan = building.plan, building'.left = Tail(building.left),
           building'.ordered = Append(building.ordered, new),
           IsBuild(building'),
           \A x \in Done(k) : HasInstance(x)' = HasInstance(x) /\ InstanceOf(x)' = InstanceOf(x),
           HasInstance(id)', new = InstanceOf(id)', new.state = "active",
           new.identity = IdentityAtTurn(id) \/ Same(new.identity, IdentityAtTurn(id)),
           UNCHANGED <<control, current, held, previews>>,
           \A g \in {current, held} : \A m \in Range(g.members) : m.no \notin building'.mounted
    PROVE  (\E n \in 0 .. Len(building.plan.order) : Progress(n))'
<1>1. k + 1 \in 0 .. Len(building.plan.order)
  BY AtTurn
<1>2. /\ Done(k + 1)' = Done(k) \cup {id}
      /\ \A m : Settled(m, k) => Settled(m, k + 1)'
  BY StaySettled
<1>3. Remaining(k + 1)'
  <2>1. LET rest == Tail(building.left)
        IN /\ rest \in Seq(Range(rest)) /\ (k + 1) + Len(rest) = Len(building.plan.order)
           /\ \A i \in 1 .. Len(rest) : rest[i] = building.plan.order[(k + 1) + i]
    BY AtTurn
  <2> QED BY <2>1 DEF Remaining
<1>4. /\ building'.ordered \in Seq(Range(building'.ordered))
      /\ Range(building'.ordered) = Range(building.ordered) \cup {new}
  BY OneMore DEF Progress
<1>5. Settled(new, k + 1)'
  <2>1. \A cap \in DOMAIN new.identity.bindings :
          LET b == new.identity.bindings[cap]
          IN \/ b.provider = None
             \/ b.provider \in Done(k) /\ b.instance = InstanceOf(b.provider).no
             \/ id \in Knots(building.plan.resolution)
    BY BoundAtTurn
  <2>2. \A cap \in DOMAIN new.identity.bindings :
          LET b == new.identity.bindings[cap]
          IN \/ b.provider = None
             \/ b.provider \in Done(k + 1)' /\ b.instance = InstanceOf(b.provider)'.no
             \/ id \in Knots(building'.plan.resolution)
    BY <1>2, <2>1
  <2>3. SelectedBy(new.identity.bindings, building'.plan.resolution[id])
    BY BoundAtTurn
  <2> QED BY <1>2, <2>2, <2>3 DEF Settled
<1>6. (\A m \in Range(building.ordered) : Settled(m, k + 1))'
  BY <1>2, <1>4, <1>5 DEF Progress
<1>7. (\A x \in Done(k + 1) : x \in Joined \/ previews = {})'
  <2>1. Joined' = Joined \cup {id}
    BY <1>4 DEF Joined
  <2> QED BY <1>2, <2>1 DEF Progress
<1>8. (\A x \in Range(building.plan.order) : HasEntry(control.desired, x) \/ previews = {})'
  BY DEF Progress
<1>9. Progress(k + 1)'
  BY <1>3, <1>4, <1>6, <1>7, <1>8 DEF Progress
<1> QED BY <1>1, <1>9

(* The mounted instance is carried over (harness.py _materialize).         *)
LEMMA CarryOverKeeps == ASSUME IInv, NEW id, CarryOver(id) PROVE IInv'
<1>1. /\ Turn(id) /\ building # NoBuild /\ Carried(id)
      /\ building' = [building EXCEPT !.left = Tail(@), !.ordered = Append(@, Newest(id)),
                                      !.decided = Put(@, id, IdentityAtTurn(id))]
      /\ UNCHANGED <<control, instances, current, held, mounts, previews>>
  BY DEF CarryOver, Turn
<1>2. PICK k \in 0 .. Len(building.plan.order) : Progress(k)
  BY <1>1 DEF IInv
<1>3. PICK new : new = InstanceOf(id)
  OBVIOUS
<1>4. new.state = "active" /\ Same(new.identity, IdentityAtTurn(id))
  BY <1>1, <1>3 DEF Carried, Carries
<1>5. HasInstance(id) /\ new = Newest(id)
  BY <1>3, <1>4 DEF InstanceOf, NoInstance
<1>6. new.entry = id
  <2>1. PICK q : q = instances[id]
    OBVIOUS
  <2>2. Listed(q, id, mounts)
    BY <1>5, <2>1 DEF IInv, AllListed, HasInstance
  <2>3. q \in Seq(Range(q)) /\ q # <<>> /\ \A i \in 1 .. Len(q) : q[i].entry = id
    BY <2>2 DEF Listed
  <2>4. Len(q) \in 1 .. Len(q)
    BY <2>3
  <2>5. new = q[Len(q)]
    BY <1>5, <2>1 DEF Newest, Last
  <2> QED BY <2>3, <2>4, <2>5
<1>7. \A x : HasInstance(x)' = HasInstance(x) /\ InstanceOf(x)' = InstanceOf(x)
  BY <1>1 DEF HasInstance, InstanceOf, Newest
<1>8. /\ building'.plan = building.plan /\ building'.left = Tail(building.left)
      /\ building'.ordered = Append(building.ordered, new) /\ building'.mounted = building.mounted
      /\ IsBuild(building')
  BY <1>5, CarryOverMoves
<1>9. \A g \in {current, held} : \A m \in Range(g.members) : m.no \notin building'.mounted
  BY <1>2, <1>8 DEF Progress
<1>10. HasInstance(id)' /\ new = InstanceOf(id)'
  BY <1>3, <1>5, <1>7
<1>11. k \in Nat /\ UNCHANGED <<control, current, held, previews>>
  BY <1>1, <1>2
<1>12. (\E n \in 0 .. Len(building.plan.order) : Progress(n))'
  BY <1>1, <1>2, <1>4, <1>6, <1>7, <1>8, <1>9, <1>10, <1>11, JoinKeepsProgress
<1>13. ASSUME NEW g, Reached(g) PROVE Reached(g)'
  BY <1>1, <1>13 DEF Reached
<1>14. (\A g \in {current, held} : Reached(g) /\ Bound(g))'
  BY <1>1, <1>13 DEF IInv
<1>15. Control(control)' /\ (mounts \in Nat /\ AllListed(instances, mounts))'
  BY <1>1 DEF IInv
<1> QED BY <1>12, <1>14, <1>15 DEF IInv

(* Where a new instance stands beside the old ones.                        *)
LEMMA BesideSparesReached ==
    ASSUME NEW top \in Nat, AllListed(instances, top), NEW id, NEW new,
           new.no = top + 1, new.entry = id, new.state \in {"active", "failed"},
           NEW T, T = Beside(id, new), NEW g, Reached(g)
    PROVE  \A m \in Range(g.members) : /\ m.entry \in DOMAIN T /\ m \in Range(T[m.entry])
                                       /\ m.state = "active" /\ m.no # top + 1
<1>1. /\ AllListed(T, top + 1)
      /\ DOMAIN T = DOMAIN instances \cup {id}
      /\ \A x \in DOMAIN instances \ {id} : T[x] = instances[x]
      /\ T[id] # <<>> /\ Last(T[id]) = new /\ new \in Range(T[id])
      /\ id \in DOMAIN instances =>
           \A x \in Range(instances[id]) : x.state # "failed" => x \in Range(T[id])
  <2>1. TookPlace(T, id, new, top + 1)
    BY BesideListed
  <2> QED BY <2>1 DEF TookPlace
<1>2. ASSUME NEW m \in Range(g.members)
      PROVE  /\ m.entry \in DOMAIN T /\ m \in Range(T[m.entry])
             /\ m.state = "active" /\ m.no # top + 1
  <2>1. m.entry \in DOMAIN instances /\ m \in Range(instances[m.entry]) /\ m.state = "active"
    BY DEF Reached
  <2>2. PICK q : q = instances[m.entry]
    OBVIOUS
  <2>3. q \in Seq(Range(q)) /\ \A i \in 1 .. Len(q) : q[i].no \in 1 .. top
    BY <2>1, <2>2 DEF AllListed, Listed
  <2>4. \A x : x \in Range(q) <=> \E i \in 1 .. Len(q) : q[i] = x
    BY <2>3, OwnElements
  <2>5. m.no \in 1 .. top
    BY <2>1, <2>2, <2>3, <2>4
  <2>6. m \in Range(T[m.entry])
    BY <1>1, <2>1
  <2> QED BY <1>1, <2>1, <2>5, <2>6
<1> QED BY <1>2

(* A new instance is mounted (harness.py _materialize).                    *)
LEMMA MountKeeps == ASSUME IInv, NEW id, Mount(id) PROVE IInv'
<1>1. PICK new : new = [no |-> mounts + 1, entry |-> id, state |-> "active",
                        revision |-> control.desired.entries[id].revision,
                        identity |-> IdentityAtTurn(id)]
  OBVIOUS
<1>2. /\ Turn(id) /\ building # NoBuild /\ instances' = Beside(id, new) /\ mounts' = mounts + 1
      /\ building' = [building EXCEPT !.left = Tail(@), !.ordered = Append(@, new),
                                      !.mounted = @ \cup {new.no},
                                      !.decided = Put(@, id, new.identity)]
      /\ UNCHANGED <<control, current, held, previews>>
  BY <1>1 DEF Mount, Turn
<1>3. /\ new.no = mounts + 1 /\ new.entry = id /\ new.state = "active"
      /\ new.identity = IdentityAtTurn(id)
  BY <1>1
<1>4. PICK k \in 0 .. Len(building.plan.order) : Progress(k)
  BY <1>2 DEF IInv
<1>5. k \in Nat /\ id \notin Done(k)
  <2>1. k \in Nat
    BY <1>4
  <2> QED BY <1>2, <1>4, <2>1, AtTurn
<1>6. PICK top, T : top = mounts /\ T = Beside(id, new)
  OBVIOUS
<1>7. top \in Nat /\ AllListed(instances, top) /\ new.no = top + 1 /\ new.state \in {"active", "failed"}
  BY <1>3, <1>6 DEF IInv
<1>8. /\ AllListed(T, top + 1)
      /\ DOMAIN T = DOMAIN instances \cup {id}
      /\ \A x \in DOMAIN instances \ {id} : T[x] = instances[x]
      /\ T[id] # <<>> /\ Last(T[id]) = new /\ new \in Range(T[id])
      /\ id \in DOMAIN instances =>
           \A x \in Range(instances[id]) : x.state # "failed" => x \in Range(T[id])
  <2>1. TookPlace(T, id, new, top + 1)
    BY <1>3, <1>6, <1>7, BesideListed
  <2> QED BY <2>1 DEF TookPlace
<1>9. ASSUME NEW g \in {current, held}
      PROVE  /\ Reached(g)'
             /\ \A m \in Range(g.members) : m.no # top + 1
  <2>1. Reached(g)
    BY DEF IInv
  <2>2. \A m \in Range(g.members) : /\ m.entry \in DOMAIN T /\ m \in Range(T[m.entry])
                                    /\ m.state = "active" /\ m.no # top + 1
    BY <1>3, <1>6, <1>7, <2>1, BesideSparesReached
  <2> QED BY <1>2, <1>6, <2>1, <2>2 DEF Reached
<1>10. /\ building'.plan = building.plan /\ building'.left = Tail(building.left)
       /\ building'.ordered = Append(building.ordered, new)
       /\ building'.mounted = building.mounted \cup {top + 1}
       /\ IsBuild(building')
  BY <1>1, <1>6, MountMoves
<1>11. \A x \in Done(k) : HasInstance(x)' = HasInstance(x) /\ InstanceOf(x)' = InstanceOf(x)
  BY <1>2, <1>5, <1>6, <1>8 DEF HasInstance, InstanceOf, Newest
<1>12. HasInstance(id)' /\ new = InstanceOf(id)'
  BY <1>2, <1>6, <1>8 DEF HasInstance, InstanceOf, Newest
<1>13. \A g \in {current, held} : \A m \in Range(g.members) : m.no \notin building'.mounted
  BY <1>4, <1>9, <1>10 DEF Progress
<1>14. UNCHANGED <<control, current, held, previews>>
  BY <1>2
<1>15. (\E n \in 0 .. Len(building.plan.order) : Progress(n))'
  BY <1>2, <1>3, <1>4, <1>5, <1>10, <1>11, <1>12, <1>13, <1>14, JoinKeepsProgress
<1>16. (\A g \in {current, held} : Reached(g) /\ Bound(g))'
  BY <1>2, <1>9 DEF IInv
<1>17. Control(control)' /\ (mounts \in Nat /\ AllListed(instances, mounts))'
  BY <1>2, <1>6, <1>7, <1>8 DEF IInv
<1> QED BY <1>15, <1>16, <1>17 DEF IInv

(* A setup fails and the candidate is rolled back (harness.py reconcile).  *)
LEMMA MountFailsKeeps == ASSUME IInv, NEW id, MountFails(id) PROVE IInv'
<1>1. PICK failed : failed = [no |-> mounts + 1, entry |-> id, state |-> "failed",
                              identity |-> NoIdentity,
                              revision |-> control.desired.entries[id].revision]
  OBVIOUS
<1>2. PICK insts : insts = Beside(id, failed)
  OBVIOUS
<1>3. PICK stay : stay = [x \in DOMAIN insts |-> {i \in Range(insts[x]) : i.no \notin building.mounted}]
  OBVIOUS
<1>4. /\ building # NoBuild /\ building' = NoBuild /\ mounts' = mounts + 1
      /\ instances' = Thinned(insts, stay)
      /\ UNCHANGED <<control, current, held>>
  BY <1>1, <1>2, <1>3 DEF MountFails, RolledBack, Turn
<1>5. PICK k \in 0 .. Len(building.plan.order) : Progress(k)
  BY <1>4 DEF IInv
<1>6. PICK top : top = mounts
  OBVIOUS
<1>7. /\ top \in Nat /\ AllListed(instances, top) /\ failed.no = top + 1 /\ failed.entry = id
      /\ failed.state \in {"active", "failed"}
  BY <1>1, <1>6 DEF IInv
<1>8. AllListed(insts, top + 1)
  <2>1. TookPlace(insts, id, failed, top + 1)
    BY <1>2, <1>7, BesideListed
  <2> QED BY <2>1 DEF TookPlace
<1>9. PICK T : T = Thinned(insts, stay)
  OBVIOUS
<1>10. PICK n : n = top + 1
  OBVIOUS
<1>11. /\ AllListed(T, n)
       /\ \A x \in DOMAIN insts : \A i \in Range(insts[x]) \cap stay[x] :
            x \in DOMAIN T /\ i \in Range(T[x])
  BY <1>8, <1>9, <1>10, ThinnedListed
<1>12. ASSUME NEW g \in {current, held} PROVE Reached(g)'
  <2>1. Reached(g)
    BY DEF IInv
  <2>2. ASSUME NEW m \in Range(g.members)
        PROVE  m.entry \in DOMAIN T /\ m \in Range(T[m.entry]) /\ m.state = "active"
    <3>1. m.entry \in DOMAIN insts /\ m \in Range(insts[m.entry]) /\ m.state = "active"
      BY <1>2, <1>7, <2>1, BesideSparesReached
    <3>2. m.no \notin building.mounted
      BY <1>5 DEF Progress
    <3>3. m \in stay[m.entry]
      BY <1>3, <3>1, <3>2
    <3> QED BY <1>11, <3>1, <3>3
  <2> QED BY <1>4, <1>9, <2>1, <2>2 DEF Reached
<1>13. (\A g \in {current, held} : Reached(g) /\ Bound(g))'
  BY <1>4, <1>12 DEF IInv
<1>14. Control(control)' /\ (mounts \in Nat /\ AllListed(instances, mounts))'
  BY <1>4, <1>6, <1>7, <1>9, <1>10, <1>11 DEF IInv
<1> QED BY <1>4, <1>13, <1>14 DEF IInv

(* A candidate that does not validate is rolled back (harness.py           *)
(* reconcile, _validate_publication).                                      *)
LEMMA RejectedKeeps == ASSUME IInv, Rejected PROVE IInv'
<1>1. PICK stay, T :
        /\ stay = [x \in DOMAIN instances |-> {i \in Range(instances[x]) : i.no \notin building.mounted}]
        /\ T = Thinned(instances, stay)
  OBVIOUS
<1>2. /\ building # NoBuild /\ building' = NoBuild /\ instances' = T
      /\ UNCHANGED <<control, current, held, mounts>>
  BY <1>1 DEF Rejected, RolledBack
<1>3. PICK k \in 0 .. Len(building.plan.order) : Progress(k)
  BY <1>2 DEF IInv
<1>4. PICK top : top = mounts
  OBVIOUS
<1>5. /\ AllListed(T, top)
      /\ \A x \in DOMAIN instances : \A i \in Range(instances[x]) \cap stay[x] :
           x \in DOMAIN T /\ i \in Range(T[x])
  <2>1. AllListed(instances, top)
    BY <1>4 DEF IInv
  <2> QED BY <1>1, <2>1, ThinnedListed
<1>6. ASSUME NEW g \in {current, held} PROVE Reached(g)'
  <2>1. ASSUME NEW m \in Range(g.members)
        PROVE  m.entry \in DOMAIN T /\ m \in Range(T[m.entry]) /\ m.state = "active"
    <3>1. m.entry \in DOMAIN instances /\ m \in Range(instances[m.entry]) /\ m.state = "active"
      BY DEF IInv, Reached
    <3>2. m.no \notin building.mounted
      BY <1>3 DEF Progress
    <3> QED BY <1>1, <1>5, <3>1, <3>2
  <2> QED BY <1>2, <2>1 DEF IInv, Reached
<1>7. (\A g \in {current, held} : Reached(g) /\ Bound(g))'
  BY <1>2, <1>6 DEF IInv
<1>8. Control(control)' /\ (mounts \in Nat /\ AllListed(instances, mounts))'
  BY <1>2, <1>4, <1>5 DEF IInv
<1> QED BY <1>2, <1>7, <1>8 DEF IInv

(* The members of a generation are complete and valid (harness.py          *)
(* reconcile).                                                             *)
LEMMA PublishKeeps == ASSUME IInv, Publish PROVE IInv'
<1>1. PICK ordered, plan : ordered = building.ordered /\ plan = building.plan
  OBVIOUS
<1>2. PICK tree, prefs :
        tree = TreeOf(building.scopes, building.cands, plan) /\ prefs = EffectivePreferences(control)
  OBVIOUS
<1>3. PICK new : new = [no |-> current.no + 1, members |-> ordered, tree |-> tree,
                        prefs |-> prefs, raced |-> previews = {}]
  OBVIOUS
<1>4. /\ building # NoBuild /\ building' = NoBuild
      /\ current' \in {current, new}
      /\ instances' = Reclaimed(instances, {current', held})
      /\ control' = [control EXCEPT !.desired.dirty = FALSE]
      /\ UNCHANGED <<held, mounts>>
  BY <1>1, <1>2, <1>3 DEF Publish
<1>5. PICK k \in 0 .. Len(building.plan.order) : Progress(k)
  BY <1>4 DEF IInv
<1>6. /\ ordered \in Seq(Range(ordered)) /\ \A m \in Range(ordered) : Settled(m, k)
      /\ \A id \in Done(k) : id \in {m.entry : m \in Range(ordered)} \/ previews = {}
  BY <1>1, <1>5 DEF Progress, Joined
<1>7. /\ new.members = ordered /\ new.raced = (previews = {})
      /\ new.tree.selections = plan.resolution
  BY <1>2, <1>3 DEF TreeOf
<1>8. AllListed(instances, mounts)
  BY DEF IInv
<1>9. Reached(new)
  <2>1. ASSUME NEW m \in Range(ordered)
        PROVE  m.entry \in DOMAIN instances /\ m \in Range(instances[m.entry]) /\ m.state = "active"
    <3>1. HasInstance(m.entry) /\ m = InstanceOf(m.entry) /\ m.state = "active"
      BY <1>6 DEF Settled
    <3>2. m.entry \in DOMAIN instances /\ m = Last(instances[m.entry])
      BY <3>1 DEF InstanceOf, HasInstance, Newest
    <3>3. PICK q : q = instances[m.entry]
      OBVIOUS
    <3>4. q \in Seq(Range(q)) /\ q # <<>>
      BY <1>8, <3>2, <3>3 DEF AllListed, Listed
    <3>5. \A x : x \in Range(q) <=> \E i \in 1 .. Len(q) : q[i] = x
      BY <3>4, OwnElements
    <3>6. Len(q) \in 1 .. Len(q) /\ m = q[Len(q)]
      BY <3>2, <3>3, <3>4 DEF Last
    <3> QED BY <3>1, <3>2, <3>3, <3>5, <3>6
  <2> QED BY <1>6, <1>7, <2>1 DEF Reached
<1>10. ASSUME NEW p \in MemberIds(new) PROVE MemberOf(new, p) = InstanceOf(p)
  <2>1. new.members \in Seq(Range(new.members))
    BY <1>6, <1>7
  <2>2. MemberOf(new, p) \in Range(ordered) /\ MemberOf(new, p).entry = p
    BY <1>7, <2>1, MemberOfIs
  <2> QED BY <1>6, <2>2 DEF Settled
<1>11. Bound(new)
  <2> SUFFICES ASSUME NEW m \in Range(ordered), NEW cap \in DOMAIN m.identity.bindings,
                      NEW b, b = m.identity.bindings[cap], b.provider # None
               PROVE  /\ b.provider \in MemberIds(new)
                      /\ cap \in Manifest[MemberOf(new, b.provider).identity.plugin].registers
                      /\ \/ b.instance = MemberOf(new, b.provider).no
                         \/ m.entry \in Tangled(new)
    BY <1>7 DEF Bound
  <2>1. /\ m.entry \in Done(k) /\ SelectedBy(m.identity.bindings, plan.resolution[m.entry])
        /\ \/ b.instance = InstanceOf(b.provider).no
           \/ m.entry \in Knots(plan.resolution)
    BY <1>1, <1>6 DEF Settled
  <2>2. Tangled(new) = Knots(plan.resolution)
    BY <1>7 DEF Tangled, PlannedEdges, Knots
  <2>3. m.entry \in Range(plan.order)
    <3>1. plan.order \in Seq(DOMAIN plan.resolution)
      BY <1>1, <1>5 DEF Progress, Sound
    <3>2. PICK i \in 1 .. k : plan.order[i] = m.entry
      BY <1>1, <2>1 DEF Done
    <3>3. i \in 1 .. Len(plan.order)
      BY <1>1, <1>5, <3>1, <3>2
    <3> QED BY <3>1, <3>2, <3>3, OwnElements
  <2>4. cap \in DOMAIN plan.resolution[m.entry] /\ plan.resolution[m.entry][cap].provider = b.provider
    BY <2>1 DEF SelectedBy
  <2>5. cap \in Registered(b.provider)
    BY <1>1, <2>3, <2>4 DEF Publish, Validated
  <2>6. PICK n \in Range(ordered) : n.entry = b.provider /\ cap \in Manifest[n.identity.plugin].registers
    BY <1>1, <2>5 DEF Registered
  <2>7. b.provider \in MemberIds(new) /\ MemberOf(new, b.provider) = InstanceOf(b.provider)
    BY <1>7, <1>10, <2>6 DEF MemberIds
  <2>8. n = InstanceOf(b.provider)
    BY <1>6, <2>6 DEF Settled
  <2> QED BY <2>1, <2>2, <2>6, <2>7, <2>8
<1>12. \A g \in {current', held} : Reached(g) /\ Bound(g)
  BY <1>4, <1>9, <1>11 DEF IInv
<1>13. /\ AllListed(instances', mounts)
       /\ \A g \in {current', held} :
            \A m \in Range(g.members) : m.entry \in DOMAIN instances' /\ m \in Range(instances'[m.entry])
  <2>1. PICK G, T : G = {current', held} /\ T = Reclaimed(instances, G)
    OBVIOUS
  <2>2. /\ AllListed(T, mounts)
        /\ \A g \in G : Reached(g) =>
             \A m \in Range(g.members) : m.entry \in DOMAIN T /\ m \in Range(T[m.entry])
    BY <1>8, <2>1, ReclaimedSparesReached
  <2> QED BY <1>4, <1>12, <2>1, <2>2
<1>14. ASSUME NEW g \in {current', held} PROVE Reached(g)'
  BY <1>12, <1>13 DEF Reached
<1>15. (\A g \in {current, held} : Reached(g) /\ Bound(g))'
  BY <1>4, <1>12, <1>14
<1>16. Control(control)'
  BY <1>4, CallsKeepControl DEF IInv, Onward
<1> QED BY <1>4, <1>13, <1>15, <1>16 DEF IInv

(***************************************************************************)
(* What a step disposes                                                    *)
(***************************************************************************)

(* Live instances have numbers of their own.                               *)
LiveOf(insts) == UNION {Range(insts[id]) : id \in DOMAIN insts}
Distinct(insts) == \A i, j \in LiveOf(insts) : i.no = j.no => i = j

(* A disposal leaves of each entry what stays.                             *)
LEMMA ThinnedFewer ==
    ASSUME NEW insts, NEW top, AllListed(insts, top), NEW stay, NEW T, T = Thinned(insts, stay)
    PROVE  \A id \in DOMAIN T : \A x \in Range(T[id]) :
             id \in DOMAIN insts /\ x \in Range(insts[id]) \cap stay[id]
<1>1. PICK left : left = [id \in DOMAIN insts |-> Filtered(insts[id], stay[id])]
  OBVIOUS
<1>2. T = [id \in DOMAIN left \ {id \in DOMAIN left : left[id] = <<>>} |-> left[id]]
  BY <1>1 DEF Thinned, Drop
<1>3. ASSUME NEW id \in DOMAIN T, NEW x \in Range(T[id])
      PROVE  id \in DOMAIN insts /\ x \in Range(insts[id]) \cap stay[id]
  <2>1. id \in DOMAIN insts /\ T[id] = Filtered(insts[id], stay[id])
    BY <1>1, <1>2
  <2>2. PICK q, keep, f : q = insts[id] /\ keep = stay[id] /\ f = Filtered(q, keep)
    OBVIOUS
  <2>3. q \in Seq(Range(q))
    BY <2>1, <2>2 DEF AllListed, Listed
  <2>4. f \in Seq(Range(q) \cap keep)
    BY <2>2, <2>3, FilterPlaces
  <2>5. \A y : y \in Range(f) => y \in Range(q) \cap keep
    <3>1. \A y : y \in Range(f) <=> \E i \in 1 .. Len(f) : f[i] = y
      BY <2>4, OwnElements
    <3>2. \A i \in 1 .. Len(f) : f[i] \in Range(q) \cap keep
      BY <2>4
    <3> QED BY <3>1, <3>2
  <2> QED BY <1>3, <2>1, <2>2, <2>5
<1> QED BY <1>3

(* A mount adds the new instance, no other.                                *)
LEMMA BesideFewer ==
    ASSUME NEW top, AllListed(instances, top), NEW id, NEW new, NEW T, T = Beside(id, new)
    PROVE  LiveOf(T) \subseteq LiveOf(instances) \cup {new}
<1>1. PICK old : old = IF HasInstance(id) THEN instances[id] ELSE <<>>
  OBVIOUS
<1>2. PICK kept : kept = IF old # <<>> /\ Last(old).state = "failed" THEN Front(old) ELSE old
  OBVIOUS
<1>3. PICK q : q = Append(kept, new)
  OBVIOUS
<1>4. T = Put(instances, id, q)
  BY <1>1, <1>2, <1>3 DEF Beside
<1>5. /\ DOMAIN T = DOMAIN instances \cup {id} /\ T[id] = q
      /\ \A x \in DOMAIN instances \ {id} : T[x] = instances[x]
  BY <1>4 DEF Put
<1>6. old \in Seq(Range(old))
  <2>1. CASE HasInstance(id)
    BY <1>1, <2>1 DEF AllListed, Listed, HasInstance
  <2>2. CASE ~HasInstance(id)
    <3>1. old = <<>> /\ <<>> \in Seq({})
      BY <1>1, <2>2
    <3> QED BY <3>1, OwnElements
  <2> QED BY <2>1, <2>2
<1>7. kept \in Seq(Range(old))
  <2>1. CASE old # <<>> /\ Last(old).state = "failed"
    <3>1. PICK S, s : S = Range(old) /\ s = old
      OBVIOUS
    <3>2. s \in Seq(S) /\ s # <<>>
      BY <1>6, <2>1, <3>1
    <3>3. Len(s) \in Nat /\ Front(s) = SubSeq(s, 1, Len(s) - 1)
      BY <3>2 DEF Front
    <3>4. Front(s) \in Seq(S)
      BY <3>2, <3>3, SubSeqProperties
    <3> QED BY <1>2, <2>1, <3>1, <3>4
  <2> QED BY <1>2, <1>6, <2>1
<1>8. q \in Seq(Range(old) \cup {new})
  <2>1. kept \in Seq(Range(old) \cup {new})
    BY <1>7
  <2> QED BY <1>3, <2>1
<1>9. \A x \in Range(q) : x \in Range(old) \cup {new}
  <2>1. \A x : x \in Range(q) <=> \E i \in 1 .. Len(q) : q[i] = x
    BY <1>8, OwnElements
  <2> QED BY <1>8, <2>1
<1>10. \A x \in Range(old) : x \in LiveOf(instances)
  <2>1. CASE HasInstance(id)
    BY <1>1, <2>1 DEF HasInstance, LiveOf
  <2>2. CASE ~HasInstance(id)
    BY <1>1, <2>2 DEF Range
  <2> QED BY <2>1, <2>2
<1>11. ASSUME NEW i \in LiveOf(T) PROVE i \in LiveOf(instances) \cup {new}
  <2>1. PICK x \in DOMAIN T : i \in Range(T[x])
    BY DEF LiveOf
  <2>2. CASE x = id
    BY <1>5, <1>9, <1>10, <2>1, <2>2
  <2>3. CASE x # id
    BY <1>5, <2>1, <2>3 DEF LiveOf
  <2> QED BY <2>2, <2>3
<1> QED BY <1>11

(* The live instances, one by one.                                         *)
LEMMA LiveListed ==
    ASSUME NEW insts, NEW top, AllListed(insts, top), NEW i \in LiveOf(insts)
    PROVE  /\ i.entry \in DOMAIN insts /\ i \in Range(insts[i.entry])
           /\ i.no \in 1 .. top /\ i.state \in {"active", "failed"}
           /\ Last(insts[i.entry]) \in LiveOf(insts) /\ Last(insts[i.entry]).entry = i.entry
           /\ i.no <= Last(insts[i.entry]).no
<1>1. PICK id \in DOMAIN insts : i \in Range(insts[id])
  BY DEF LiveOf
<1>2. PICK q : q = insts[id]
  OBVIOUS
<1>3. Listed(q, id, top)
  BY <1>2 DEF AllListed
<1>4. q \in Seq(Range(q)) /\ Len(q) \in Nat
  BY <1>3 DEF Listed
<1>5. \A x : x \in Range(q) <=> \E n \in 1 .. Len(q) : q[n] = x
  BY <1>4, OwnElements
<1>6. PICK n \in 1 .. Len(q) : q[n] = i
  BY <1>1, <1>2, <1>5
<1>7. i.entry = id /\ i.no \in 1 .. top /\ i.state \in {"active", "failed"}
  BY <1>3, <1>6 DEF Listed
<1>8. Last(q) = q[Len(q)] /\ Len(q) \in 1 .. Len(q)
  BY <1>4, <1>6 DEF Last
<1>9. Last(q) \in Range(q) /\ Last(q).entry = id /\ Last(q).no \in 1 .. top
  BY <1>3, <1>5, <1>8 DEF Listed
<1>10. i.no <= Last(q).no
  <2>1. CASE n = Len(q)
    BY <1>6, <1>7, <1>8, <2>1
  <2>2. CASE n # Len(q)
    <3>1. n < Len(q)
      BY <1>4, <2>2
    <3>2. q[n].no < q[Len(q)].no
      BY <1>3, <1>8, <3>1 DEF Listed
    <3> QED BY <1>6, <1>7, <1>8, <1>9, <3>2
  <2> QED BY <2>1, <2>2
<1>11. Last(q) \in LiveOf(insts)
  BY <1>1, <1>2, <1>9 DEF LiveOf
<1> QED BY <1>1, <1>2, <1>7, <1>9, <1>10, <1>11

(* Numbers are given out once, so instances that are left stay distinct,   *)
(* and so does one that is added.                                          *)
LEMMA DistinctAgain ==
    ASSUME NEW insts, NEW top \in Nat, AllListed(insts, top), Distinct(insts), NEW T, NEW new,
           new.no = top + 1, LiveOf(T) \subseteq LiveOf(insts) \cup {new}
    PROVE  Distinct(T)
<1>1. ASSUME NEW i \in LiveOf(insts) PROVE i.no # new.no
  <2>1. i.no \in 1 .. top
    BY LiveListed
  <2> QED BY <2>1
<1> QED BY <1>1 DEF Distinct

(* Disposal adds no instance, and leaves of what a generation reached only *)
(* what one of G reaches (harness.py _reclaim).                            *)
LEMMA ReclaimedFewer ==
    ASSUME NEW top, AllListed(instances, top), NEW G, NEW T, T = Reclaimed(instances, G)
    PROVE  /\ LiveOf(T) \subseteq LiveOf(instances)
           /\ \A x \in LiveOf(T) : x.state # "failed" => \E g \in G : x.no \in InstanceIds(g)
<1> DEFINE Kept(i) == IF i.state = "failed" THEN HasEntry(control.desired, i.entry)
                      ELSE \E g \in G : i.no \in {m.no : m \in Range(g.members)}
<1>1. PICK stay : stay = [id \in DOMAIN instances |-> {i \in Range(instances[id]) : Kept(i)}]
  OBVIOUS
<1>2. T = Thinned(instances, stay)
  BY <1>1 DEF Reclaimed
<1>3. \A id \in DOMAIN T : \A x \in Range(T[id]) :
        id \in DOMAIN instances /\ x \in Range(instances[id]) \cap stay[id]
  BY <1>2, ThinnedFewer
<1>4. ASSUME NEW x \in LiveOf(T)
      PROVE  x \in LiveOf(instances) /\ Kept(x)
  <2>1. PICK id \in DOMAIN T : x \in Range(T[id])
    BY DEF LiveOf
  <2>2. id \in DOMAIN instances /\ x \in Range(instances[id]) /\ x \in stay[id]
    BY <1>3, <2>1
  <2> QED BY <1>1, <2>2 DEF LiveOf
<1> QED BY <1>4 DEF InstanceIds

(* What a step makes of the live instances: fewer, or one more of the      *)
(* entry whose turn it is.                                                 *)
NewInstance(id, new) ==
    /\ Turn(id) /\ HasEntry(control.desired, id)
    /\ new.no = mounts + 1 /\ new.entry = id /\ new.revision = control.desired.entries[id].revision
    /\ \/ new.state = "active" /\ new.identity = IdentityAtTurn(id)
       \/ new.state = "failed" /\ control.desired.entries[id].plugin \in Flaky

(* A mount adds one.                                                       *)
LEMMA MountAdds ==
    ASSUME IInv, NEW id, Mount(id), NEW new,
           new = [no |-> mounts + 1, entry |-> id, state |-> "active",
                  revision |-> control.desired.entries[id].revision,
                  identity |-> IdentityAtTurn(id)]
    PROVE  NewInstance(id, new) /\ LiveOf(instances') \subseteq LiveOf(instances) \cup {new}
<1>1. PICK top, T : top = mounts /\ T = Beside(id, new)
  OBVIOUS
<1>2. instances' = T /\ Turn(id) /\ HasEntry(control.desired, id)
  BY <1>1 DEF Mount
<1>3. AllListed(instances, top)
  BY <1>1 DEF IInv
<1>4. LiveOf(T) \subseteq LiveOf(instances) \cup {new}
  BY <1>1, <1>3, BesideFewer
<1> QED BY <1>2, <1>4 DEF NewInstance

(* A failed one adds the failed instance, and takes the mounted ones back. *)
LEMMA MountFailsAdds ==
    ASSUME IInv, NEW id, MountFails(id)
    PROVE  \E new : /\ NewInstance(id, new) /\ new.state = "failed"
                    /\ LiveOf(instances') \subseteq LiveOf(instances) \cup {new}
                    /\ \A x \in LiveOf(instances') : x.no \notin building.mounted
<1>1. PICK failed : failed = [no |-> mounts + 1, entry |-> id, state |-> "failed",
                              identity |-> NoIdentity,
                              revision |-> control.desired.entries[id].revision]
  OBVIOUS
<1>2. PICK top, n, insts : top = mounts /\ n = top + 1 /\ insts = Beside(id, failed)
  OBVIOUS
<1>3. PICK stay, T :
        /\ stay = [x \in DOMAIN insts |-> {i \in Range(insts[x]) : i.no \notin building.mounted}]
        /\ T = Thinned(insts, stay)
  OBVIOUS
<1>4. /\ instances' = T /\ Turn(id) /\ HasEntry(control.desired, id)
      /\ control.desired.entries[id].plugin \in Flaky
  BY <1>1, <1>2, <1>3 DEF MountFails, RolledBack
<1>5. /\ failed.no = top + 1 /\ failed.entry = id /\ failed.state \in {"active", "failed"}
      /\ top \in Nat /\ AllListed(instances, top)
  BY <1>1, <1>2 DEF IInv
<1>6. LiveOf(insts) \subseteq LiveOf(instances) \cup {failed}
  BY <1>2, <1>5, BesideFewer
<1>7. TookPlace(insts, id, failed, top + 1)
  BY <1>2, <1>5, BesideListed
<1>8. AllListed(insts, n)
  BY <1>2, <1>7 DEF TookPlace
<1>9. \A x \in DOMAIN T : \A y \in Range(T[x]) :
        x \in DOMAIN insts /\ y \in Range(insts[x]) \cap stay[x]
  BY <1>3, <1>8, ThinnedFewer
<1>10. LiveOf(T) \subseteq LiveOf(insts) /\ \A x \in LiveOf(T) : x.no \notin building.mounted
  BY <1>3, <1>9 DEF LiveOf
<1>11. NewInstance(id, failed)
  BY <1>1, <1>4 DEF NewInstance
<1> QED BY <1>1, <1>4, <1>6, <1>10, <1>11

(* A publication and a release only dispose.                               *)
LEMMA DisposalsAdd ==
    ASSUME IInv, Publish \/ Release
    PROVE  LiveOf(instances') \subseteq LiveOf(instances)
<1>1. PICK G, T : T = Reclaimed(instances, G) /\ instances' = T
  BY DEF Publish, Release
<1>2. PICK top : top = mounts
  OBVIOUS
<1>3. AllListed(instances, top)
  BY <1>2 DEF IInv
<1>4. LiveOf(T) \subseteq LiveOf(instances)
  BY <1>1, <1>3, ReclaimedFewer
<1> QED BY <1>1, <1>4

(* So does the rollback of a candidate, which takes the mounted ones back. *)
LEMMA RejectedAdds ==
    ASSUME IInv, Rejected
    PROVE  /\ LiveOf(instances') \subseteq LiveOf(instances)
           /\ \A x \in LiveOf(instances') : x.no \notin building.mounted
<1>1. PICK stay, T :
        /\ stay = [x \in DOMAIN instances |-> {i \in Range(instances[x]) : i.no \notin building.mounted}]
        /\ T = Thinned(instances, stay)
  OBVIOUS
<1>2. instances' = T
  BY <1>1 DEF Rejected, RolledBack
<1>3. \A x \in DOMAIN T : \A y \in Range(T[x]) :
        x \in DOMAIN instances /\ y \in Range(instances[x]) \cap stay[x]
  <2>1. PICK top : top = mounts /\ AllListed(instances, top)
    BY DEF IInv
  <2> QED BY <1>1, <2>1, ThinnedFewer
<1> QED BY <1>1, <1>2, <1>3 DEF LiveOf

(* The other steps mount and dispose nothing.                              *)
LEMMA OthersLeave ==
    ASSUME [Next]_vars, ~Publish, ~Rejected, ~Release, \A id : ~Mount(id) /\ ~MountFails(id)
    PROVE  /\ UNCHANGED <<instances, current>>
           /\ \/ UNCHANGED building
              \/ ReconcileBegin
              \/ \E id : PassOver(id) \/ CarryOver(id)
<1>1. ASSUME NEW next, NEW seen, Call(next, seen) PROVE UNCHANGED <<instances, current, building>>
  BY <1>1 DEF Call
<1>2. ASSUME \/ \E e \in UserEntries : Installs(e) \/ Uninstalls(e) \/ DeclaresScope(e)
             \/ \E s \in Selections : Prefers(s)
             \/ \E config \in Configs : Applies(config)
             \/ UNCHANGED vars
      PROVE  UNCHANGED <<instances, current, building>>
  BY <1>1, <1>2 DEF Installs, Uninstalls, DeclaresScope, Prefers, Applies, vars
<1>3. ASSUME NEW id, PassOver(id) \/ CarryOver(id) PROVE UNCHANGED <<instances, current>>
  BY <1>3 DEF PassOver, CarryOver
<1>4. ASSUME ReconcileBegin PROVE UNCHANGED <<instances, current>>
  BY <1>4 DEF ReconcileBegin
<1>5. ASSUME Lease PROVE UNCHANGED <<instances, current, building>>
  BY <1>5 DEF Lease
<1> QED BY <1>2, <1>3, <1>4, <1>5 DEF Next

(* All steps together.                                                     *)
LEMMA WhatStepsLeave ==
    ASSUME IInv, [Next]_vars
    PROVE  \/ LiveOf(instances') \subseteq LiveOf(instances)
           \/ \E id, new : /\ NewInstance(id, new) /\ UNCHANGED control
                           /\ LiveOf(instances') \subseteq LiveOf(instances) \cup {new}
<1>1. CASE Publish \/ Release
  BY <1>1, DisposalsAdd
<1>2. ASSUME NEW id, Mount(id)
      PROVE  \E new : /\ NewInstance(id, new) /\ UNCHANGED control
                      /\ LiveOf(instances') \subseteq LiveOf(instances) \cup {new}
  BY <1>2, MountAdds DEF Mount
<1>3. ASSUME NEW id, MountFails(id)
      PROVE  \E new : /\ NewInstance(id, new) /\ UNCHANGED control
                      /\ LiveOf(instances') \subseteq LiveOf(instances) \cup {new}
  BY <1>3, MountFailsAdds DEF MountFails
<1>4. CASE Rejected
  BY <1>4, RejectedAdds
<1>5. CASE ~Publish /\ ~Rejected /\ ~Release /\ \A id : ~Mount(id) /\ ~MountFails(id)
  BY <1>5, OthersLeave
<1> QED BY <1>1, <1>2, <1>3, <1>4, <1>5

(* Every step keeps the numbers of the live instances apart.               *)
LEMMA StepsKeepDistinct ==
    IInv /\ Distinct(instances) /\ [Next]_vars => Distinct(instances')
<1> SUFFICES ASSUME IInv, Distinct(instances), [Next]_vars PROVE Distinct(instances')
  OBVIOUS
<1>1. PICK top, T : top = mounts /\ T = instances'
  OBVIOUS
<1>2. top \in Nat /\ AllListed(instances, top)
  BY <1>1 DEF IInv
<1>3. CASE LiveOf(T) \subseteq LiveOf(instances)
  BY <1>1, <1>3 DEF Distinct
<1>4. ASSUME NEW id, NEW new, NewInstance(id, new),
             LiveOf(T) \subseteq LiveOf(instances) \cup {new}
      PROVE  Distinct(T)
  <2>1. new.no = top + 1
    BY <1>1, <1>4 DEF NewInstance
  <2> QED BY <1>2, <1>4, <2>1, DistinctAgain
<1> QED BY <1>1, <1>3, <1>4, WhatStepsLeave

(* Which step publishes, which returns a lease, and what the others leave. *)
LEMMA WhoActs ==
    ASSUME [Next]_vars
    PROVE  /\ Publishes => Publish
           /\ held # NoGeneration /\ held' = NoGeneration => Release
           /\ ~Publishes /\ ~(held # NoGeneration /\ held' = NoGeneration) =>
                current' = current /\ (held' = held \/ held = NoGeneration)
<1>1. ASSUME NEW next, NEW seen, Call(next, seen)
      PROVE  building' = building /\ current' = current /\ held' = held
  BY <1>1 DEF Call
<1>2. ASSUME (\E e \in UserEntries : Installs(e) \/ Uninstalls(e) \/ DeclaresScope(e))
               \/ (\E s \in Selections : Prefers(s)) \/ (\E config \in Configs : Applies(config))
               \/ UNCHANGED vars
      PROVE  building' = building /\ current' = current /\ held' = held
  BY <1>1, <1>2 DEF Installs, Uninstalls, DeclaresScope, Prefers, Applies, vars
<1>3. CASE ReconcileBegin
  BY <1>3 DEF ReconcileBegin, Publishes
<1>4. ASSUME NEW id, PassOver(id) \/ CarryOver(id) \/ Mount(id) \/ MountFails(id)
      PROVE  ~Publishes /\ current' = current /\ held' = held
  BY <1>4 DEF PassOver, CarryOver, Mount, MountFails, Turn, Publishes
<1>5. CASE Publish
  BY <1>5 DEF Publish, Publishes
<1>6. CASE Lease
  BY <1>6 DEF Lease, Publishes
<1>7. CASE Release
  BY <1>7 DEF Release, Publishes
<1>8. CASE Rejected
  BY <1>8 DEF Rejected, Publishes
<1> QED BY <1>2, <1>3, <1>4, <1>5, <1>6, <1>7, <1>8 DEF Next, Publishes

(* The report: an instance is reachable when a generation has it, nothing  *)
(* retains it when the leased one has not, and the leased one alone        *)
(* reaches it when the current one has not.                                *)
LEMMA PressureSays ==
    ASSUME NEW resources, resources = GenerationPressure.resources
    PROVE  /\ DOMAIN resources = InstanceIds(current) \cup InstanceIds(held)
           /\ \A no \in DOMAIN resources :
                /\ resources[no].retained = {} <=> no \notin InstanceIds(held)
                /\ no \notin InstanceIds(current) => resources[no].generations = {held.no}
<1>1. InstanceIds(NoGeneration) = {}
  <2>1. NoGeneration.members = <<>> /\ Range(<<>>) = {}
    BY DEF NoGeneration, Range
  <2> QED BY <2>1 DEF InstanceIds
<1>2. resources = [no \in UNION {InstanceIds(g) : g \in Generations} |-> Resource(no)]
  BY DEF GenerationPressure
<1>3. DOMAIN resources = InstanceIds(current) \cup InstanceIds(held)
  BY <1>1, <1>2 DEF Generations
<1>4. ASSUME NEW no \in DOMAIN resources, NEW reaching,
             reaching = {g.no : g \in {h \in Generations : no \in InstanceIds(h)}}
      PROVE  /\ resources[no].retained = {} <=> no \notin InstanceIds(held)
             /\ no \notin InstanceIds(current) => resources[no].generations = {held.no}
  <2>1. /\ resources[no].generations = reaching
        /\ resources[no].retained = {why \in {"sharing", "lease"} :
                                       \/ why = "sharing" /\ Cardinality(reaching) > 1
                                       \/ why = "lease" /\ no \in LeasedInstances}
    BY <1>2, <1>4 DEF Resource
  <2>2. no \in LeasedInstances <=> no \in InstanceIds(held)
    BY <1>1 DEF LeasedInstances, Leases, Generations
  <2>3. CASE no \in InstanceIds(held)
    <3>1. "lease" \in resources[no].retained
      BY <2>1, <2>2, <2>3
    <3>2. no \notin InstanceIds(current) => reaching = {held.no}
      BY <1>1, <1>4, <2>3 DEF Generations
    <3> QED BY <2>1, <2>3, <3>1, <3>2
  <2>4. CASE no \notin InstanceIds(held)
    <3>1. no \in InstanceIds(current)
      BY <1>3, <2>4
    <3>2. reaching = {current.no}
      BY <1>1, <1>4, <2>4, <3>1 DEF Generations
    <3>3. Cardinality(reaching) = 1
      BY <3>2, FS_Singleton
    <3> QED BY <2>1, <2>2, <2>4, <3>1, <3>3
  <2> QED BY <2>3, <2>4
<1> QED BY <1>3, <1>4

(* The numbers of what is live.                                            *)
LiveNumbers(insts) == {i.no : i \in LiveOf(insts)}

(* What a generation reaches is live.                                      *)
LEMMA ReachedIsLive ==
    IInv => \A g \in {current, held} : InstanceIds(g) \subseteq LiveNumbers(instances)
<1> SUFFICES ASSUME IInv, NEW g \in {current, held}, NEW no \in InstanceIds(g)
             PROVE  no \in LiveNumbers(instances)
  OBVIOUS
<1>1. PICK m \in Range(g.members) : m.no = no
  BY DEF InstanceIds
<1>2. m \in LiveOf(instances)
  BY <1>1 DEF IInv, Reached, LiveOf
<1> QED BY <1>1, <1>2 DEF LiveNumbers

(* A disposal leaves of what is reachable what one of G reaches.           *)
LEMMA DisposedUnreached ==
    ASSUME IInv, Distinct(instances), NEW G, NEW T, T = Reclaimed(instances, G),
           NEW no \in InstanceIds(current) \cup InstanceIds(held), no \in LiveNumbers(T)
    PROVE  \E g \in G : no \in InstanceIds(g)
<1>1. PICK g \in {current, held} : no \in InstanceIds(g)
  OBVIOUS
<1>2. PICK m \in Range(g.members) : m.no = no
  BY <1>1 DEF InstanceIds
<1>3. m \in LiveOf(instances) /\ m.state = "active"
  BY <1>2 DEF IInv, Reached, LiveOf
<1>4. PICK x \in LiveOf(T) : x.no = no
  BY DEF LiveNumbers
<1>5. PICK top : top = mounts
  OBVIOUS
<1>6. AllListed(instances, top)
  BY <1>5 DEF IInv
<1>7. /\ LiveOf(T) \subseteq LiveOf(instances)
      /\ \A y \in LiveOf(T) : y.state # "failed" => \E h \in G : y.no \in InstanceIds(h)
  BY <1>6, ReclaimedFewer
<1>8. x = m
  BY <1>2, <1>3, <1>4, <1>7 DEF Distinct
<1> QED BY <1>3, <1>4, <1>7, <1>8

(* A step disposes what the report said it would.                          *)
LEMMA StepsDisposeAsReported ==
    ASSUME IInv, IInv', Distinct(instances), [Next]_vars
    PROVE  DisposesAsReported
<1>1. PICK resources : resources = GenerationPressure.resources
  OBVIOUS
<1>2. /\ DOMAIN resources = InstanceIds(current) \cup InstanceIds(held)
      /\ \A no \in DOMAIN resources :
           /\ resources[no].retained = {} <=> no \notin InstanceIds(held)
           /\ no \notin InstanceIds(current) => resources[no].generations = {held.no}
  BY <1>1, PressureSays
<1>3. PICK live : live = LiveNumbers(instances')
  OBVIOUS
<1>4. \A g \in {current', held'} : InstanceIds(g) \subseteq live
  <2>1. (IInv => \A g \in {current, held} : InstanceIds(g) \subseteq LiveNumbers(instances))'
    BY ReachedIsLive, PTL
  <2>2. \A g : InstanceIds(g)' = InstanceIds(g)
    BY DEF InstanceIds
  <2> QED BY <1>3, <2>1, <2>2 DEF LiveNumbers, LiveOf
<1>5. live = {i.no : i \in UNION {Range(instances'[id]) : id \in DOMAIN instances'}}
  BY <1>3 DEF LiveNumbers, LiveOf
<1>6. InstanceIds(NoGeneration) = {}
  <2>1. NoGeneration.members = <<>> /\ Range(<<>>) = {}
    BY DEF NoGeneration, Range
  <2> QED BY <2>1 DEF InstanceIds
<1>7. ASSUME Publishes
      PROVE  DOMAIN resources \ live =
               {no \in DOMAIN resources \ InstanceIds(current') : resources[no].retained = {}}
  <2>1. held' = held /\ instances' = Reclaimed(instances, {current', held})
    BY <1>7, WhoActs DEF Publish
  <2>2. ASSUME NEW no \in DOMAIN resources, no \in live
        PROVE  no \in InstanceIds(current') \cup InstanceIds(held)
    <3>1. PICK G, T : G = {current', held} /\ T = Reclaimed(instances, G)
      OBVIOUS
    <3>2. no \in InstanceIds(current) \cup InstanceIds(held) /\ no \in LiveNumbers(T)
      BY <1>2, <1>3, <2>1, <2>2, <3>1
    <3>3. \E g \in G : no \in InstanceIds(g)
      BY <3>1, <3>2, DisposedUnreached
    <3> QED BY <3>1, <3>3
  <2>3. \A no \in InstanceIds(current') \cup InstanceIds(held) : no \in live
    BY <1>4, <2>1
  <2> QED BY <1>2, <2>2, <2>3
<1>8. ASSUME held # NoGeneration, held' = NoGeneration
      PROVE  DOMAIN resources \ live =
               {no \in DOMAIN resources \ InstanceIds(current) :
                  resources[no].generations = {held.no}}
  <2>1. current' = current /\ instances' = Reclaimed(instances, {current})
    BY <1>8, WhoActs DEF Release
  <2>2. ASSUME NEW no \in DOMAIN resources, no \in live
        PROVE  no \in InstanceIds(current)
    <3>1. PICK G, T : G = {current} /\ T = Reclaimed(instances, G)
      OBVIOUS
    <3>2. no \in InstanceIds(current) \cup InstanceIds(held) /\ no \in LiveNumbers(T)
      BY <1>2, <1>3, <2>1, <2>2, <3>1
    <3>3. \E g \in G : no \in InstanceIds(g)
      BY <3>1, <3>2, DisposedUnreached
    <3> QED BY <3>1, <3>3
  <2>3. \A no \in InstanceIds(current) : no \in live
    BY <1>4, <2>1
  <2> QED BY <1>2, <2>2, <2>3
<1>9. ASSUME ~Publishes, ~(held # NoGeneration /\ held' = NoGeneration)
      PROVE  DOMAIN resources \ live = {}
  <2>1. current' = current /\ (held' = held \/ held = NoGeneration)
    BY <1>9, WhoActs
  <2> QED BY <1>2, <1>4, <1>6, <2>1
<1> QED BY <1>1, <1>5, <1>7, <1>8, <1>9 DEF DisposesAsReported

(***************************************************************************)
(* What is mounted anew                                                    *)
(***************************************************************************)

(* What an identity says of its entry, and what it looks like.             *)
Content(i) == <<i.entry, i.plugin, i.config, i.scope>>
IsIdentity(i) ==
    /\ i = [entry |-> i.entry, plugin |-> i.plugin, config |-> i.config, scope |-> i.scope,
            bindings |-> i.bindings, prefs |-> i.prefs]
    /\ i.bindings = [cap \in DOMAIN i.bindings |->
                       [provider |-> i.bindings[cap].provider, status |-> i.bindings[cap].status,
                        instance |-> i.bindings[cap].instance, digest |-> i.bindings[cap].digest]]
    /\ \A cap \in DOMAIN i.bindings :
         i.bindings[cap].provider = None =>
           i.bindings[cap].instance = None /\ i.bindings[cap].digest = NoIdentity

(* What an instance tells of the revision of its entry: a desired entry of *)
(* that revision is what it runs, or what failed to set up.  The revisions *)
(* of an entry's instances ascend with their numbers.                      *)
Versions(insts, d) ==
    \A i \in LiveOf(insts) :
      /\ i.revision \in Nat /\ i.revision <= RevisionOf(d, i.entry)
      /\ i.state = "active" => IsIdentity(i.identity)
      /\ HasEntry(d, i.entry) /\ d.entries[i.entry].revision = i.revision =>
           LET e == d.entries[i.entry]
           IN IF i.state = "active" THEN Content(i.identity) = <<i.entry, e.plugin, e.config, e.scope>>
              ELSE e.plugin \in Flaky
      /\ \A j \in LiveOf(insts) : j.entry = i.entry /\ i.no < j.no => i.revision <= j.revision

(* An instance newer than the current generation's failed, or was mounted  *)
(* for the one to come.                                                    *)
Latest ==
    \A b \in Range(current.members) : \A x \in LiveOf(instances) :
      x.entry = b.entry /\ b.no < x.no =>
        x.state = "failed" \/ (building # NoBuild /\ x.no \in building.mounted)

(* Why m was mounted although b was there (harness.py _materialize).       *)
Called(b, m) ==
    \/ b.revision # m.revision
    \/ m.identity.plugin \in Flaky
    \/ Content(b.identity) = Content(m.identity) /\ ~Same(b.identity, m.identity)

(* A member's bindings are what the plan selected for its entry.           *)
WiredBy(m, selections) ==
    LET r == selections[m.entry]
        bindings == m.identity.bindings
    IN /\ DOMAIN bindings = DOMAIN r
       /\ \A cap \in DOMAIN r : /\ bindings[cap].provider = r[cap].provider
                                /\ bindings[cap].status = r[cap].status

(* A member so far: what was decided of it stands for it, its bindings have*)
(* the digests of the members they name, and it was mounted for a reason.  *)
Explained(m) ==
    /\ building.decided[m.entry] # NoIdentity
    /\ Digest(building.decided[m.entry]) = Digest(m.identity)
    /\ WiredBy(m, building.plan.resolution)
    /\ \A cap \in DOMAIN m.identity.bindings :
         LET b == m.identity.bindings[cap]
         IN \/ b.provider = None \/ b.provider \notin Joined
            \/ m.entry \in Knots(building.plan.resolution)
            \/ b.digest = Digest(InstanceOf(b.provider).identity)
    /\ m.no \in building.mounted => \A b \in Range(current.members) : b.entry = m.entry => Called(b, m)

(* The turns so far.                                                       *)
Walked ==
    building # NoBuild =>
      /\ building.mounted \subseteq {m.no : m \in Range(building.ordered)}
      /\ DOMAIN building.decided = Joined
      /\ \A m \in Range(building.ordered) : Explained(m)

(* The same of the bindings of a generation.                               *)
Digested(g) ==
    \A m \in Range(g.members) : \A cap \in DOMAIN m.identity.bindings :
      LET b == m.identity.bindings[cap]
      IN \/ b.provider = None
         \/ m.entry \in Tangled(g)
         \/ b.digest = Digest(MemberOf(g, b.provider).identity)

(* With IInv an invariant of its own: why a generation has new instances.  *)
RInv ==
    /\ Distinct(instances)
    /\ Versions(instances, control.desired)
    /\ Latest
    /\ Walked
    /\ Digested(current)
    /\ \A m \in Range(current.members) : WiredBy(m, current.tree.selections)

(* Equality of identities (core/identity.py) is equality of content and    *)
(* bindings.                                                               *)
LEMMA SameMeans ==
    ASSUME NEW i, NEW j, IsIdentity(j)
    PROVE  /\ j # NoIdentity
           /\ Same(i, j) => /\ Content(i) = Content(j) /\ i.bindings = j.bindings
                            /\ Digest(i) = Digest(j)
           /\ IsIdentity(i) /\ Content(i) = Content(j) /\ i.bindings = j.bindings => Same(i, j)
<1>1. ASSUME NEW k, IsIdentity(k) PROVE k # NoIdentity
  <2>1. "plugin" \in DOMAIN k
    BY <1>1 DEF IsIdentity
  <2>2. "plugin" \notin DOMAIN NoIdentity
    BY DEF NoIdentity
  <2> QED BY <2>1, <2>2
<1>2. ASSUME Same(i, j)
      PROVE  Content(i) = Content(j) /\ i.bindings = j.bindings /\ Digest(i) = Digest(j)
  <2>1. PICK e : e = [i EXCEPT !.prefs = j.prefs]
    OBVIOUS
  <2>2. e = j
    BY <1>2, <2>1 DEF Same
  <2>3. {"entry", "plugin", "config", "scope", "bindings"} \subseteq DOMAIN j
    BY DEF IsIdentity
  <2>4. i.entry = j.entry /\ i.plugin = j.plugin /\ i.config = j.config /\ i.scope = j.scope
           /\ i.bindings = j.bindings
    BY <2>1, <2>2, <2>3
  <2> QED BY <2>4 DEF Content, Digest, Dependencies
<1>3. ASSUME IsIdentity(i), Content(i) = Content(j), i.bindings = j.bindings PROVE Same(i, j)
  <2>1. i.entry = j.entry /\ i.plugin = j.plugin /\ i.config = j.config /\ i.scope = j.scope
    BY <1>3 DEF Content
  <2>2. PICK a, b, c, d, e, p, q :
          /\ i = [entry |-> a, plugin |-> b, config |-> c, scope |-> d, bindings |-> e, prefs |-> p]
          /\ j = [entry |-> a, plugin |-> b, config |-> c, scope |-> d, bindings |-> e, prefs |-> q]
    BY <1>3, <2>1 DEF IsIdentity
  <2>3. [i EXCEPT !.prefs = j.prefs] = j
    BY <2>2
  <2> QED BY <1>1, <1>3, <2>3 DEF Same
<1> QED BY <1>1, <1>2, <1>3

(* An identity of an entry e, its requirements resolved as r, of providers *)
(* with these numbers and digests (core/identity.py identity_for).         *)
Describes(i, id, e, r, number, digest) ==
    /\ IsIdentity(i) /\ Content(i) = <<id, e.plugin, e.config, e.scope>>
    /\ DOMAIN i.bindings = DOMAIN r
    /\ \A cap \in DOMAIN r :
         /\ i.bindings[cap].provider = r[cap].provider /\ i.bindings[cap].status = r[cap].status
         /\ r[cap].provider # None => /\ i.bindings[cap].instance = number[r[cap].provider]
                                      /\ i.bindings[cap].digest = digest[r[cap].provider]

(* What Identity makes is one.                                             *)
LEMMA IdentityDescribes ==
    ASSUME NEW id, NEW e, NEW r, NEW prefs, NEW number, NEW digest,
           NEW i, i = Identity(id, e, r, prefs, number, digest)
    PROVE  Describes(i, id, e, r, number, digest)
<1>1. PICK bindings : bindings =
        [cap \in DOMAIN r |->
           LET p == r[cap].provider
           IN [provider |-> p, status |-> r[cap].status,
               instance |-> IF p = None THEN None ELSE number[p],
               digest |-> IF p = None THEN NoIdentity ELSE digest[p]]]
  OBVIOUS
<1>2. PICK shown :
        i = [entry |-> id, plugin |-> e.plugin, config |-> e.config, scope |-> e.scope,
             bindings |-> bindings, prefs |-> shown]
  BY <1>1 DEF Identity
<1>3. DOMAIN bindings = DOMAIN r /\ i.bindings = bindings
  BY <1>1, <1>2
<1>4. ASSUME NEW cap \in DOMAIN r
      PROVE  /\ bindings[cap] = [provider |-> bindings[cap].provider, status |-> bindings[cap].status,
                                 instance |-> bindings[cap].instance, digest |-> bindings[cap].digest]
             /\ bindings[cap].provider = r[cap].provider /\ bindings[cap].status = r[cap].status
             /\ r[cap].provider = None =>
                  bindings[cap].instance = None /\ bindings[cap].digest = NoIdentity
             /\ r[cap].provider # None => /\ bindings[cap].instance = number[r[cap].provider]
                                          /\ bindings[cap].digest = digest[r[cap].provider]
  BY <1>1
<1>5. bindings = [cap \in DOMAIN bindings |->
                    [provider |-> bindings[cap].provider, status |-> bindings[cap].status,
                     instance |-> bindings[cap].instance, digest |-> bindings[cap].digest]]
  BY <1>1, <1>3, <1>4
<1>6. IsIdentity(i)
  BY <1>2, <1>3, <1>4, <1>5 DEF IsIdentity
<1>7. Content(i) = <<id, e.plugin, e.config, e.scope>>
  BY <1>2 DEF Content
<1> QED BY <1>3, <1>4, <1>6, <1>7 DEF Describes

(* The identity of an entry at its turn.                                   *)
LEMMA IdentityIs ==
    ASSUME NEW id, NEW r, r = building.plan.resolution[id], NEW e, e = control.desired.entries[id],
           NEW i, i = IdentityAtTurn(id)
    PROVE  /\ IsIdentity(i) /\ Content(i) = <<id, e.plugin, e.config, e.scope>>
           /\ DOMAIN i.bindings = DOMAIN r
           /\ \A cap \in DOMAIN r :
                /\ i.bindings[cap].provider = r[cap].provider
                /\ i.bindings[cap].status = r[cap].status
                /\ r[cap].provider # None =>
                     /\ i.bindings[cap].digest = DigestIn(building.decided, r[cap].provider)
                     /\ i.bindings[cap].instance = InstanceOf(r[cap].provider).no
<1> DEFINE P == Providers(r)
<1>1. PICK prefs, number, digest :
        /\ number = [p \in P |-> InstanceOf(p).no]
        /\ digest = [p \in P |-> DigestIn(building.decided, p)]
        /\ i = Identity(id, e, r, prefs, number, digest)
  BY DEF IdentityAtTurn
<1>2. Describes(i, id, e, r, number, digest)
  BY <1>1, IdentityDescribes
<1>3. ASSUME NEW cap \in DOMAIN r, NEW p, p = r[cap].provider, p # None
      PROVE  digest[p] = DigestIn(building.decided, p) /\ number[p] = InstanceOf(p).no
  <2>1. p \in P
    BY <1>3 DEF Providers
  <2> QED BY <1>1, <2>1
<1> QED BY <1>2, <1>3 DEF Describes

(* A later desired state and fewer instances tell no more.                 *)
LEMMA VersionsOn ==
    ASSUME NEW d, Desired(d), NEW e, Desired(e), Follows(d, e), NEW insts, Versions(insts, d),
           NEW T, LiveOf(T) \subseteq LiveOf(insts)
    PROVE  Versions(T, e)
<1> SUFFICES ASSUME NEW i \in LiveOf(T)
             PROVE  /\ i.revision \in Nat /\ i.revision <= RevisionOf(e, i.entry)
                    /\ i.state = "active" => IsIdentity(i.identity)
                    /\ HasEntry(e, i.entry) /\ e.entries[i.entry].revision = i.revision =>
                         LET f == e.entries[i.entry]
                         IN IF i.state = "active"
                            THEN Content(i.identity) = <<i.entry, f.plugin, f.config, f.scope>>
                            ELSE f.plugin \in Flaky
                    /\ \A j \in LiveOf(T) : j.entry = i.entry /\ i.no < j.no => i.revision <= j.revision
  BY DEF Versions
<1>1. i \in LiveOf(insts)
  OBVIOUS
<1>2. i.revision \in Nat /\ i.revision <= RevisionOf(d, i.entry)
  BY <1>1 DEF Versions
<1>3. /\ RevisionOf(d, i.entry) \in Nat /\ RevisionOf(e, i.entry) \in Nat
      /\ RevisionOf(d, i.entry) <= RevisionOf(e, i.entry)
  BY DEF Desired, Follows
<1>4. i.revision <= RevisionOf(e, i.entry)
  BY <1>2, <1>3
<1>5. HasEntry(e, i.entry) /\ e.entries[i.entry].revision = i.revision =>
        HasEntry(d, i.entry) /\ e.entries[i.entry] = d.entries[i.entry]
  <2> SUFFICES ASSUME i.entry \in DOMAIN e.entries, e.entries[i.entry].revision = i.revision
               PROVE  i.entry \in DOMAIN d.entries /\ e.entries[i.entry] = d.entries[i.entry]
    BY DEF HasEntry
  <2>1. ~(RevisionOf(d, i.entry) < i.revision)
    BY <1>2, <1>3
  <2> QED BY <2>1 DEF Follows
<1> QED BY <1>1, <1>2, <1>4, <1>5 DEF Versions

(* A new instance is of the newest revision.                               *)
LEMMA VersionsGrow ==
    ASSUME NEW d, Desired(d), NEW insts, NEW top \in Nat, AllListed(insts, top), Versions(insts, d),
           NEW id, HasEntry(d, id), NEW e, e = d.entries[id],
           NEW new, new.no = top + 1, new.entry = id, new.revision = e.revision,
           \/ /\ new.state = "active" /\ IsIdentity(new.identity)
              /\ Content(new.identity) = <<id, e.plugin, e.config, e.scope>>
           \/ new.state = "failed" /\ e.plugin \in Flaky,
           NEW T, LiveOf(T) \subseteq LiveOf(insts) \cup {new}
    PROVE  Versions(T, d)
<1>1. e.revision \in Nat /\ e.revision = RevisionOf(d, id)
  BY DEF Desired, HasEntry
<1>2. ASSUME NEW i \in LiveOf(insts)
      PROVE  i.no < new.no /\ (i.entry = id => i.revision <= new.revision)
  <2>1. i.no \in 1 .. top
    BY LiveListed
  <2>2. i.revision <= RevisionOf(d, i.entry)
    BY DEF Versions
  <2> QED BY <1>1, <2>1, <2>2
<1>3. ASSUME NEW i \in LiveOf(T), NEW j \in LiveOf(T), j.entry = i.entry, i.no < j.no
      PROVE  i.revision <= j.revision
  <2>1. CASE i \in LiveOf(insts) /\ j \in LiveOf(insts)
    BY <1>3, <2>1 DEF Versions
  <2>2. CASE i \in LiveOf(insts) /\ j = new
    BY <1>2, <1>3, <2>2
  <2>3. CASE i = new /\ j \in LiveOf(insts)
    <3>1. j.no \in 1 .. top
      BY <2>3, LiveListed
    <3> QED BY <1>3, <2>3, <3>1
  <2>4. CASE i = new /\ j = new
    BY <1>1, <2>4
  <2> QED BY <2>1, <2>2, <2>3, <2>4
<1>4. ASSUME NEW i \in LiveOf(T)
      PROVE  /\ i.revision \in Nat /\ i.revision <= RevisionOf(d, i.entry)
             /\ i.state = "active" => IsIdentity(i.identity)
             /\ HasEntry(d, i.entry) /\ d.entries[i.entry].revision = i.revision =>
                  LET f == d.entries[i.entry]
                  IN IF i.state = "active"
                     THEN Content(i.identity) = <<i.entry, f.plugin, f.config, f.scope>>
                     ELSE f.plugin \in Flaky
  <2>1. CASE i \in LiveOf(insts)
    BY <2>1 DEF Versions
  <2>2. CASE i = new
    <3>1. i.revision \in Nat /\ i.revision <= RevisionOf(d, i.entry)
      BY <1>1, <2>2
    <3> QED BY <2>2, <3>1
  <2> QED BY <2>1, <2>2
<1> QED BY <1>3, <1>4 DEF Versions

(* The desired state after a step.                                         *)
LEMMA DesiredFollows ==
    ASSUME IInv, [Next]_vars
    PROVE  Desired(control'.desired) /\ Follows(control.desired, control'.desired)
<1>1. Control(control) /\ Desired(control.desired)
  BY DEF IInv, Control
<1>2. ASSUME NEW c, Onward(control, c), control' = c
      PROVE  Desired(control'.desired) /\ Follows(control.desired, control'.desired)
  BY <1>2 DEF Onward, Control
<1>3. ASSUME NEW next, NEW seen, Call(next, seen) PROVE control' = next
  BY <1>3 DEF Call
<1>4. ASSUME NEW e \in UserEntries, Installs(e) PROVE Onward(control, control')
  <2>1. PICK next : next = [control EXCEPT !.desired = InstallEntry(@, e.id, e.plugin, e.config, e.scope)]
    OBVIOUS
  <2>2. Onward(control, next)
    BY <1>1, <2>1, CallsKeepControl
  <2>3. Call(next, {})
    BY <1>4, <2>1 DEF Installs
  <2>4. control' = next
    BY <1>3, <2>3
  <2> QED BY <2>2, <2>4
<1>5. ASSUME NEW e \in UserEntries, Uninstalls(e) PROVE Onward(control, control')
  <2>1. PICK next : next = [control EXCEPT !.desired = Uninstall(@, e.id)]
    OBVIOUS
  <2>2. Onward(control, next)
    BY <1>1, <2>1, CallsKeepControl
  <2>3. Call(next, {})
    BY <1>5, <2>1 DEF Uninstalls
  <2>4. control' = next
    BY <1>3, <2>3
  <2> QED BY <2>2, <2>4
<1>6. ASSUME NEW e \in UserEntries, DeclaresScope(e) PROVE Onward(control, control')
  <2>1. PICK next : next = [control EXCEPT !.desired = Ensure(@, e.scope)]
    OBVIOUS
  <2>2. Onward(control, next)
    BY <1>1, <2>1, CallsKeepControl
  <2>3. Call(next, {})
    BY <1>6, <2>1 DEF DeclaresScope
  <2>4. control' = next
    BY <1>3, <2>3
  <2> QED BY <2>2, <2>4
<1>7. ASSUME NEW s \in Selections, Prefers(s) PROVE Onward(control, control')
  <2>1. PICK next : next = Prefer(control, s[1], s[2])
    OBVIOUS
  <2>2. Onward(control, next)
    BY <1>1, <2>1, CallsKeepControl
  <2>3. Call(next, {})
    BY <1>7, <2>1 DEF Prefers
  <2>4. control' = next
    BY <1>3, <2>3
  <2> QED BY <2>2, <2>4
<1>8. ASSUME NEW config \in Configs, Applies(config) PROVE Onward(control, control')
  BY <1>1, <1>3, <1>8, CallsKeepControl DEF Applies
<1>9. CASE Publish
  BY <1>1, <1>2, <1>9, CallsKeepControl DEF Publish
<1>10. CASE UNCHANGED control
  BY <1>1, <1>10, LaterOn DEF Later
<1>11. ASSUME NEW id, PassOver(id) \/ CarryOver(id) \/ Mount(id) \/ MountFails(id)
      PROVE  UNCHANGED control
  BY <1>11 DEF PassOver, CarryOver, Mount, MountFails
<1>12. ASSUME ReconcileBegin \/ Rejected \/ Lease \/ Release \/ UNCHANGED vars
       PROVE  UNCHANGED control
  BY <1>12 DEF ReconcileBegin, Rejected, Lease, Release, vars
<1> QED BY <1>2, <1>4, <1>5, <1>6, <1>7, <1>8, <1>9, <1>10, <1>11, <1>12 DEF Next

(* So every step keeps what instances tell of revisions.                   *)
LEMMA StepsKeepVersions ==
    ASSUME IInv, Versions(instances, control.desired), [Next]_vars
    PROVE  Versions(instances', control'.desired)
<1>1. PICK d, e, T, top : d = control.desired /\ e = control'.desired /\ T = instances' /\ top = mounts
  OBVIOUS
<1>2. /\ Desired(d) /\ Desired(e) /\ Follows(d, e) /\ Versions(instances, d)
      /\ top \in Nat /\ AllListed(instances, top)
  BY <1>1, DesiredFollows DEF IInv, Control
<1>3. CASE LiveOf(T) \subseteq LiveOf(instances)
  <2>1. Versions(T, e)
    BY <1>2, <1>3, VersionsOn
  <2> QED BY <1>1, <2>1
<1>4. ASSUME NEW id, NEW new, NewInstance(id, new), UNCHANGED control,
             LiveOf(T) \subseteq LiveOf(instances) \cup {new}
      PROVE  Versions(T, d)
  <2>1. PICK entry, i : entry = d.entries[id] /\ i = IdentityAtTurn(id)
    OBVIOUS
  <2>2. IsIdentity(i) /\ Content(i) = <<id, entry.plugin, entry.config, entry.scope>>
    BY <1>1, <2>1, IdentityIs
  <2>3. /\ HasEntry(d, id) /\ new.no = top + 1 /\ new.entry = id /\ new.revision = entry.revision
        /\ \/ new.state = "active" /\ new.identity = i
           \/ new.state = "failed" /\ entry.plugin \in Flaky
    BY <1>1, <1>4, <2>1 DEF NewInstance
  <2>4. \/ /\ new.state = "active" /\ IsIdentity(new.identity)
           /\ Content(new.identity) = <<id, entry.plugin, entry.config, entry.scope>>
        \/ new.state = "failed" /\ entry.plugin \in Flaky
    BY <2>2, <2>3
  <2> QED BY <1>2, <1>4, <2>1, <2>3, <2>4, VersionsGrow
<1> QED BY <1>1, <1>3, <1>4, WhatStepsLeave

(* What a publication makes of the members so far (harness.py reconcile).  *)
LEMMA PublishMakes ==
    ASSUME IInv, Publish
    PROVE  /\ building # NoBuild /\ building' = NoBuild
           /\ building.ordered \in Seq(Range(building.ordered))
           /\ \A m \in Range(building.ordered) :
                m = InstanceOf(m.entry) /\ m.state = "active" /\ m.entry \in DOMAIN instances
           /\ \/ /\ current' = current
                 /\ \A m \in Range(building.ordered) : m.no \in {b.no : b \in Range(current.members)}
              \/ /\ current'.members = building.ordered
                 /\ current'.tree.selections = building.plan.resolution
                 /\ current'.raced = (previews = {})
<1>1. PICK ordered, plan : ordered = building.ordered /\ plan = building.plan
  OBVIOUS
<1>2. PICK tree, prefs :
        tree = TreeOf(building.scopes, building.cands, plan) /\ prefs = EffectivePreferences(control)
  OBVIOUS
<1>3. PICK new : new = [no |-> current.no + 1, members |-> ordered, tree |-> tree,
                        prefs |-> prefs, raced |-> previews = {}]
  OBVIOUS
<1>4. /\ building # NoBuild /\ building' = NoBuild
      /\ current' = IF SameComposition(current, ordered, tree, prefs) THEN current ELSE new
  BY <1>1, <1>2, <1>3 DEF Publish
<1>5. PICK k \in 0 .. Len(building.plan.order) : Progress(k)
  BY <1>4 DEF IInv
<1>6. /\ ordered \in Seq(Range(ordered))
      /\ \A m \in Range(ordered) :
           m = InstanceOf(m.entry) /\ m.state = "active" /\ m.entry \in DOMAIN instances
  BY <1>1, <1>5 DEF Progress, Settled, HasInstance
<1>7. new.members = ordered /\ new.tree.selections = plan.resolution /\ new.raced = (previews = {})
  BY <1>2, <1>3 DEF TreeOf
<1>8. ASSUME SameComposition(current, ordered, tree, prefs), NEW m \in Range(ordered)
      PROVE  m.no \in {b.no : b \in Range(current.members)}
  <2>1. PICK q : q = current.members
    OBVIOUS
  <2>2. PICK f, g : f = [i \in DOMAIN q |-> q[i].no] /\ g = [i \in DOMAIN ordered |-> ordered[i].no]
    OBVIOUS
  <2>3. f = g
    BY <1>8, <2>1, <2>2 DEF SameComposition
  <2>4. DOMAIN q = DOMAIN ordered
    <3>1. DOMAIN f = DOMAIN q /\ DOMAIN g = DOMAIN ordered
      BY <2>2
    <3> QED BY <2>3, <3>1
  <2>5. PICK i \in DOMAIN ordered : ordered[i] = m
    BY DEF Range
  <2>6. q[i].no = m.no
    <3>1. f[i] = q[i].no /\ g[i] = ordered[i].no
      BY <2>2, <2>4, <2>5
    <3> QED BY <2>3, <2>5, <3>1
  <2>7. q[i] \in Range(q)
    BY <2>4, <2>5 DEF Range
  <2> QED BY <2>1, <2>6, <2>7
<1> QED BY <1>1, <1>4, <1>6, <1>7, <1>8

(* A member so far is live and, of its entry, the newest.                  *)
LEMMA MembersAreNewest ==
    ASSUME IInv, NEW m, m = InstanceOf(m.entry), m.entry \in DOMAIN instances
    PROVE  /\ m \in LiveOf(instances)
           /\ \A x \in LiveOf(instances) : x.entry = m.entry => x.no \in Nat /\ m.no \in Nat /\ x.no <= m.no
<1>1. PICK top, id : top = mounts /\ id = m.entry
  OBVIOUS
<1>2. AllListed(instances, top) /\ id \in DOMAIN instances
  BY <1>1 DEF IInv
<1>3. m = Last(instances[id])
  BY <1>1 DEF InstanceOf, HasInstance, Newest
<1>4. PICK q : q = instances[id]
  OBVIOUS
<1>5. Listed(q, id, top)
  BY <1>2, <1>4 DEF AllListed
<1>6. q \in Seq(Range(q)) /\ q # <<>>
  BY <1>5 DEF Listed
<1>7. Len(q) \in 1 .. Len(q) /\ m = q[Len(q)]
  BY <1>3, <1>4, <1>6 DEF Last
<1>8. m \in Range(q)
  BY <1>6, <1>7, OwnElements
<1>9. m \in LiveOf(instances)
  BY <1>2, <1>4, <1>8 DEF LiveOf
<1>10. ASSUME NEW x \in LiveOf(instances), x.entry = id PROVE x.no \in Nat /\ m.no \in Nat /\ x.no <= m.no
  <2>1. x.no \in 1 .. top /\ x.no <= Last(instances[x.entry]).no
    BY <1>2, LiveListed
  <2>2. m.no \in 1 .. top
    BY <1>2, <1>9, LiveListed
  <2> QED BY <1>3, <1>10, <2>1, <2>2
<1> QED BY <1>1, <1>9, <1>10

(* What is newer than the current generation's after a step.               *)
LEMMA StepsKeepLatest ==
    ASSUME IInv, RInv, [Next]_vars
    PROVE  Latest'
<1> SUFFICES ASSUME NEW b \in Range(current'.members), NEW x \in LiveOf(instances'),
                    x.entry = b.entry, b.no < x.no
             PROVE  x.state = "failed" \/ (building' # NoBuild /\ x.no \in building'.mounted)
  BY DEF Latest, LiveOf
<1>1. ASSUME current' = current, x \in LiveOf(instances)
      PROVE  x.state = "failed" \/ (building # NoBuild /\ x.no \in building.mounted)
  BY <1>1 DEF RInv, Latest
<1>2. CASE Publish
  <2>1. x \in LiveOf(instances)
    BY <1>2, DisposalsAdd
  <2>2. CASE /\ current' = current
             /\ \A m \in Range(building.ordered) : m.no \in {c.no : c \in Range(current.members)}
    <3>1. building # NoBuild
      BY <1>2 DEF Publish
    <3>2. PICK k \in 0 .. Len(building.plan.order) : Progress(k)
      BY <3>1 DEF IInv
    <3>3. x.no \notin building.mounted
      <4> SUFFICES ASSUME x.no \in building.mounted PROVE FALSE
        OBVIOUS
      <4>1. PICK m \in Range(building.ordered) : m.no = x.no
        BY <3>1 DEF RInv, Walked
      <4>2. PICK c \in Range(current.members) : c.no = x.no
        BY <2>2, <4>1
      <4> QED BY <3>2, <4>2 DEF Progress
    <3> QED BY <1>1, <2>1, <2>2, <3>3
  <2>3. CASE current'.members = building.ordered
    <3>1. b = InstanceOf(b.entry) /\ b.entry \in DOMAIN instances
      BY <1>2, <2>3, PublishMakes
    <3>2. x.no \in Nat /\ b.no \in Nat /\ x.no <= b.no
      BY <2>1, <3>1, MembersAreNewest
    <3> QED BY <3>2
  <2> QED BY <1>2, <2>2, <2>3, PublishMakes
<1>3. CASE Release
  <2>1. x \in LiveOf(instances) /\ current' = current /\ building = NoBuild
    BY <1>3, DisposalsAdd DEF Release
  <2> QED BY <1>1, <2>1
<1>4. ASSUME NEW id, Mount(id)
      PROVE  x.state = "failed" \/ (building' # NoBuild /\ x.no \in building'.mounted)
  <2>1. PICK new : new = [no |-> mounts + 1, entry |-> id, state |-> "active",
                          revision |-> control.desired.entries[id].revision,
                          identity |-> IdentityAtTurn(id)]
    OBVIOUS
  <2>2. LiveOf(instances') \subseteq LiveOf(instances) \cup {new} /\ new.no = mounts + 1
    BY <1>4, <2>1, MountAdds
  <2>3. building'.mounted = building.mounted \cup {mounts + 1} /\ IsBuild(building')
    BY <1>4, <2>1, MountMoves
  <2>4. building' # NoBuild
    BY <2>3 DEF IsBuild, NoBuild
  <2>5. current' = current
    BY <1>4 DEF Mount
  <2> QED BY <1>1, <2>2, <2>3, <2>4, <2>5
<1>5. ASSUME NEW id, MountFails(id) PROVE x.state = "failed"
  <2>1. PICK new : /\ NewInstance(id, new) /\ new.state = "failed"
                   /\ LiveOf(instances') \subseteq LiveOf(instances) \cup {new}
                   /\ \A y \in LiveOf(instances') : y.no \notin building.mounted
    BY <1>5, MountFailsAdds
  <2>2. current' = current
    BY <1>5 DEF MountFails
  <2> QED BY <1>1, <2>1, <2>2
<1>6. CASE Rejected
  <2>1. x \in LiveOf(instances) /\ x.no \notin building.mounted /\ current' = current
    BY <1>6, RejectedAdds DEF Rejected
  <2> QED BY <1>1, <2>1
<1>7. CASE ~Publish /\ ~Rejected /\ ~Release /\ \A id : ~Mount(id) /\ ~MountFails(id)
  <2>1. x \in LiveOf(instances) /\ current' = current
    BY <1>7, OthersLeave
  <2>2. CASE UNCHANGED building
    BY <1>1, <2>1, <2>2
  <2>3. CASE ReconcileBegin
    BY <1>1, <2>1, <2>3 DEF ReconcileBegin
  <2>4. ASSUME NEW id, PassOver(id) PROVE building'.mounted = building.mounted /\ building' # NoBuild
    <3>1. building'.mounted = building.mounted /\ IsBuild(building')
      BY <2>4, PassOverMoves
    <3> QED BY <3>1 DEF IsBuild, NoBuild
  <2>5. ASSUME NEW id, CarryOver(id) PROVE building'.mounted = building.mounted /\ building' # NoBuild
    <3>1. building'.mounted = building.mounted /\ IsBuild(building')
      BY <2>5, CarryOverMoves
    <3> QED BY <3>1 DEF IsBuild, NoBuild
  <2> QED BY <1>1, <1>7, <2>1, <2>2, <2>3, <2>4, <2>5, OthersLeave
<1> QED BY <1>2, <1>3, <1>4, <1>5, <1>6, <1>7

(* One member more: what the walk knows of it, and of the others.          *)
LEMMA JoinKeepsWalked ==
    ASSUME NEW k \in Nat, Progress(k), NEW id, Turn(id), Walked, NEW new, new.entry = id,
           building'.plan = building.plan, building'.ordered = Append(building.ordered, new),
           building'.decided = Put(building.decided, id, IdentityAtTurn(id)),
           \A x \in Done(k) : InstanceOf(x)' = InstanceOf(x),
           new.identity = IdentityAtTurn(id) \/ Same(new.identity, IdentityAtTurn(id)),
           building'.mounted \subseteq building.mounted \cup {new.no},
           \A m \in Range(building.ordered) : m.no \in building'.mounted => m.no \in building.mounted,
           new.no \in building'.mounted =>
             \A b \in Range(current.members) : b.entry = id => Called(b, new),
           current' = current
    PROVE  Walked'
<1>1. PICK i, r : i = IdentityAtTurn(id) /\ r = building.plan.resolution[id]
  OBVIOUS
<1>2. /\ IsIdentity(i) /\ DOMAIN i.bindings = DOMAIN r
      /\ \A cap \in DOMAIN r :
           /\ i.bindings[cap].provider = r[cap].provider /\ i.bindings[cap].status = r[cap].status
           /\ r[cap].provider # None =>
                i.bindings[cap].digest = DigestIn(building.decided, r[cap].provider)
  <2>1. PICK e : e = control.desired.entries[id]
    OBVIOUS
  <2> QED BY <1>1, <2>1, IdentityIs
<1>3. i # NoIdentity /\ new.identity.bindings = i.bindings /\ Digest(new.identity) = Digest(i)
  <2>1. IsIdentity(i) /\ (new.identity = i \/ Same(new.identity, i))
    BY <1>1, <1>2
  <2> QED BY <2>1, SameMeans
<1>4. Range(building'.ordered) = Range(building.ordered) \cup {new}
  BY OneMore DEF Progress
<1>5. Joined' = Joined \cup {id}
  BY <1>4 DEF Joined
<1>6. \A m \in Range(building.ordered) :
        m.entry \in Done(k) /\ m = InstanceOf(m.entry)
  BY DEF Progress, Settled
<1>7. id \notin Done(k) /\ Joined \subseteq Done(k)
  <2>1. id \notin Done(k)
    BY AtTurn
  <2> QED BY <1>6, <2>1 DEF Joined
<1>8. building # NoBuild
  BY DEF Turn
<1>9. /\ building.mounted \subseteq {m.no : m \in Range(building.ordered)}
      /\ DOMAIN building.decided = Joined
      /\ \A m \in Range(building.ordered) : Explained(m)
  BY <1>8 DEF Walked
<1>10. PICK before, after : before = building.decided /\ after = building'.decided
  OBVIOUS
<1>11. /\ DOMAIN after = Joined' /\ after[id] = i
       /\ \A x \in Joined : after[x] = before[x]
  <2>1. after = Put(before, id, i) /\ DOMAIN before = Joined
    BY <1>1, <1>9, <1>10
  <2> QED BY <1>5, <1>7, <2>1 DEF Put
<1>12. ASSUME NEW m \in Range(building.ordered) PROVE Explained(m)'
  <2>1. m.entry \in Joined /\ Explained(m)
    BY <1>9 DEF Joined
  <2>2. after[m.entry] # NoIdentity /\ Digest(after[m.entry]) = Digest(m.identity)
    BY <1>10, <1>11, <2>1 DEF Explained
  <2>3. ASSUME NEW cap \in DOMAIN m.identity.bindings, NEW b, b = m.identity.bindings[cap]
        PROVE  \/ b.provider = None \/ b.provider \notin Joined'
               \/ m.entry \in Knots(building'.plan.resolution)
               \/ b.digest = Digest(InstanceOf(b.provider)'.identity)
    <3>1. \/ b.provider = None \/ b.provider \notin Joined
          \/ m.entry \in Knots(building.plan.resolution)
          \/ b.digest = Digest(InstanceOf(b.provider).identity)
      BY <2>1, <2>3 DEF Explained
    <3>2. b.provider = id => b.provider = None \/ m.entry \in Knots(building.plan.resolution)
      BY <1>7, <2>3 DEF Progress, Settled
    <3>3. b.provider \in Joined => InstanceOf(b.provider)' = InstanceOf(b.provider)
      BY <1>7
    <3> QED BY <1>5, <3>1, <3>2, <3>3
  <2>4. m.no \in building'.mounted =>
          \A b \in Range(current.members) : b.entry = m.entry => Called(b, m)
    BY <2>1 DEF Explained
  <2>5. WiredBy(m, building'.plan.resolution)
    BY <2>1 DEF Explained
  <2> QED BY <1>10, <2>2, <2>3, <2>4, <2>5 DEF Explained
<1>13. Explained(new)'
  <2>1. after[new.entry] # NoIdentity /\ Digest(after[new.entry]) = Digest(new.identity)
    BY <1>3, <1>11
  <2>2. ASSUME NEW cap \in DOMAIN new.identity.bindings, NEW b, b = new.identity.bindings[cap]
        PROVE  \/ b.provider = None \/ b.provider \notin Joined'
               \/ id \in Knots(building.plan.resolution)
               \/ b.digest = Digest(InstanceOf(b.provider)'.identity)
    <3>1. PICK p : p = b.provider
      OBVIOUS
    <3>2. cap \in DOMAIN r /\ p = r[cap].provider /\ (p # None => b.digest = DigestIn(before, p))
      BY <1>2, <1>3, <1>10, <2>2, <3>1
    <3>3. p = None \/ p \in Done(k) \/ id \in Knots(building.plan.resolution)
      <4>1. \A c \in DOMAIN building.plan.resolution[id] :
              LET q == building.plan.resolution[id][c].provider
              IN q = None \/ q \in Done(k) \/ id \in Knots(building.plan.resolution)
        BY AtTurn
      <4> QED BY <1>1, <3>2, <4>1
    <3>4. ASSUME p # None, p \in Done(k), p \in Joined'
          PROVE  b.digest = Digest(InstanceOf(p)'.identity)
      <4>1. p \in Joined
        BY <1>5, <1>7, <3>4
      <4>2. PICK m \in Range(building.ordered) : m.entry = p
        BY <4>1 DEF Joined
      <4>3. m = InstanceOf(p)' /\ Explained(m)
        BY <1>6, <1>9, <4>2
      <4>4. before[p] # NoIdentity /\ Digest(before[p]) = Digest(m.identity)
        BY <1>10, <4>2, <4>3 DEF Explained
      <4>5. DigestIn(before, p) = Digest(before[p])
        BY <1>9, <1>10, <4>1, <4>4 DEF DigestIn
      <4> QED BY <3>2, <3>4, <4>3, <4>4, <4>5
    <3> QED BY <3>1, <3>3, <3>4
  <2>3. WiredBy(new, building'.plan.resolution)
    BY <1>1, <1>2, <1>3 DEF WiredBy
  <2> QED BY <1>10, <2>1, <2>2, <2>3 DEF Explained
<1>14. building'.mounted \subseteq {m.no : m \in Range(building'.ordered)}
  BY <1>4, <1>9
<1> QED BY <1>4, <1>10, <1>11, <1>12, <1>13, <1>14 DEF Walked

(* Why an entry of the current generation is mounted again: its newest     *)
(* instance did not carry over (harness.py _materialize).                  *)
LEMMA MountIsCalled ==
    ASSUME IInv, RInv, NEW id, Mount(id), NEW new,
           new = [no |-> mounts + 1, entry |-> id, state |-> "active",
                  revision |-> control.desired.entries[id].revision,
                  identity |-> IdentityAtTurn(id)],
           NEW b \in Range(current.members), b.entry = id
    PROVE  Called(b, new)
<1>1. PICK d, e, i, n :
        /\ d = control.desired /\ e = d.entries[id] /\ i = IdentityAtTurn(id) /\ n = InstanceOf(id)
  OBVIOUS
<1>2. Turn(id) /\ building # NoBuild /\ HasEntry(d, id) /\ ~Carries(id, e, i)
  BY <1>1 DEF Mount, Turn, Carried
<1>3. PICK k \in 0 .. Len(building.plan.order) : Progress(k)
  BY <1>2 DEF IInv
<1>4. b \in LiveOf(instances) /\ b.state = "active" /\ id \in DOMAIN instances
  BY DEF IInv, Reached, LiveOf
<1>5. PICK top : top = mounts
  OBVIOUS
<1>6. AllListed(instances, top)
  BY <1>5 DEF IInv
<1>7. n \in LiveOf(instances) /\ n.entry = id /\ b.no <= n.no
  <2>1. n = Last(instances[id])
    BY <1>1, <1>4 DEF InstanceOf, HasInstance, Newest
  <2> QED BY <1>4, <1>6, <2>1, LiveListed
<1>8. b.no \in Nat /\ n.no \in Nat /\ n.state \in {"active", "failed"}
  <2>1. b.no \in 1 .. top /\ n.no \in 1 .. top /\ n.state \in {"active", "failed"}
    BY <1>4, <1>6, <1>7, LiveListed
  <2> QED BY <2>1
<1>9. Content(i) = <<id, e.plugin, e.config, e.scope>> /\ IsIdentity(i)
  <2>1. PICK r : r = building.plan.resolution[id]
    OBVIOUS
  <2> QED BY <1>1, <2>1, IdentityIs
<1>10. new.revision = e.revision /\ new.identity = i /\ i.plugin = e.plugin
  BY <1>1, <1>9 DEF Content
<1> SUFFICES ASSUME b.revision = e.revision, e.plugin \notin Flaky
             PROVE  Content(b.identity) = Content(i) /\ ~Same(b.identity, i)
  BY <1>10 DEF Called
<1>11. Content(b.identity) = Content(i)
  BY <1>1, <1>2, <1>4, <1>9 DEF RInv, Versions
<1>12. CASE n.no = b.no
  <2>1. n = b
    BY <1>4, <1>7, <1>12 DEF RInv, Distinct
  <2> QED BY <1>1, <1>2, <1>4, <1>11, <2>1 DEF Carries
<1>13. CASE n.no # b.no
  <2>1. b.no < n.no
    BY <1>7, <1>8, <1>13
  <2>2. n.revision = e.revision
    <3>1. b.revision <= n.revision /\ n.revision <= RevisionOf(d, id) /\ n.revision \in Nat
      BY <1>1, <1>4, <1>7, <2>1 DEF RInv, Versions
    <3>2. e.revision = RevisionOf(d, id) /\ RevisionOf(d, id) \in Nat
      BY <1>1, <1>2 DEF IInv, Control, Desired, HasEntry
    <3> QED BY <3>1, <3>2
  <2>3. n.state # "failed"
    BY <1>1, <1>2, <1>7, <2>2 DEF RInv, Versions
  <2>4. n.no \in building.mounted
    BY <1>7, <2>1, <2>3 DEF RInv, Latest
  <2>5. PICK m \in Range(building.ordered) : m.no = n.no
    BY <1>2, <2>4 DEF RInv, Walked
  <2>6. m.entry \in Done(k) /\ m = InstanceOf(m.entry) /\ m.entry \in DOMAIN instances
    BY <1>3 DEF Progress, Settled, HasInstance
  <2>7. m \in LiveOf(instances)
    BY <2>6, MembersAreNewest
  <2>8. m = n
    BY <1>7, <2>5, <2>7 DEF RInv, Distinct
  <2>9. k \in Nat /\ id \notin Done(k)
    <3>1. k \in Nat
      BY <1>3
    <3> QED BY <1>2, <1>3, <3>1, AtTurn
  <2> QED BY <1>7, <2>6, <2>8, <2>9
<1> QED BY <1>12, <1>13

(* What a step makes of the walk.                                          *)
LEMMA StepsKeepWalked ==
    ASSUME IInv, RInv, [Next]_vars
    PROVE  Walked'
<1>1. Walked
  BY DEF RInv
<1>2. CASE building' = NoBuild
  BY <1>2 DEF Walked
<1>3. ASSUME NEW id, CarryOver(id) PROVE Walked'
  <2>1. Turn(id) /\ building # NoBuild /\ Carried(id) /\ UNCHANGED <<instances, current>>
    BY <1>3 DEF CarryOver, Turn
  <2>2. PICK k \in 0 .. Len(building.plan.order) : Progress(k)
    BY <2>1 DEF IInv
  <2>3. PICK new : new = InstanceOf(id)
    OBVIOUS
  <2>4. new.state = "active" /\ Same(new.identity, IdentityAtTurn(id))
    BY <2>1, <2>3 DEF Carried, Carries
  <2>5. HasInstance(id) /\ new = Newest(id)
    BY <2>3, <2>4 DEF InstanceOf, NoInstance
  <2>6. PICK top : top = mounts
    OBVIOUS
  <2>7. AllListed(instances, top)
    BY <2>6 DEF IInv
  <2>8. new \in LiveOf(instances) /\ new.entry = id
    <3>1. PICK q : q = instances[id]
      OBVIOUS
    <3>2. Listed(q, id, top)
      BY <2>5, <2>7, <3>1 DEF AllListed, HasInstance
    <3>3. q \in Seq(Range(q)) /\ q # <<>> /\ \A n \in 1 .. Len(q) : q[n].entry = id
      BY <3>2 DEF Listed
    <3>4. Len(q) \in 1 .. Len(q) /\ new = q[Len(q)]
      BY <2>5, <3>1, <3>3 DEF Newest, Last
    <3>5. new \in Range(q)
      BY <3>3, <3>4, OwnElements
    <3> QED BY <2>5, <3>1, <3>3, <3>4, <3>5 DEF LiveOf, HasInstance
  <2>9. /\ building'.plan = building.plan /\ building'.ordered = Append(building.ordered, new)
        /\ building'.mounted = building.mounted
        /\ building'.decided = Put(building.decided, id, IdentityAtTurn(id))
    BY <1>3, <2>5, CarryOverMoves
  <2>10. new.no \notin building.mounted
    <3> SUFFICES ASSUME new.no \in building.mounted PROVE FALSE
      OBVIOUS
    <3>1. PICK m \in Range(building.ordered) : m.no = new.no
      BY <1>1, <2>1 DEF Walked
    <3>2. m.entry \in Done(k) /\ m = InstanceOf(m.entry) /\ m.entry \in DOMAIN instances
      BY <2>2 DEF Progress, Settled, HasInstance
    <3>3. m \in LiveOf(instances)
      BY <3>2, MembersAreNewest
    <3>4. m = new
      BY <2>8, <3>1, <3>3 DEF RInv, Distinct
    <3>5. k \in Nat
      BY <2>2
    <3> QED BY <2>1, <2>2, <2>8, <3>2, <3>4, <3>5, AtTurn
  <2>11. \A x : InstanceOf(x)' = InstanceOf(x)
    BY <2>1 DEF HasInstance, InstanceOf, Newest
  <2>12. k \in Nat /\ current' = current
    BY <2>1, <2>2
  <2> QED BY <1>1, <2>1, <2>2, <2>4, <2>8, <2>9, <2>10, <2>11, <2>12, JoinKeepsWalked
<1>4. ASSUME NEW id, Mount(id) PROVE Walked'
  <2>1. PICK new : new = [no |-> mounts + 1, entry |-> id, state |-> "active",
                          revision |-> control.desired.entries[id].revision,
                          identity |-> IdentityAtTurn(id)]
    OBVIOUS
  <2>2. /\ Turn(id) /\ building # NoBuild /\ current' = current
        /\ new.no = mounts + 1 /\ new.entry = id /\ new.identity = IdentityAtTurn(id)
        /\ new.state \in {"active", "failed"} /\ instances' = Beside(id, new)
    BY <1>4, <2>1 DEF Mount, Turn
  <2>3. PICK k \in 0 .. Len(building.plan.order) : Progress(k)
    BY <2>2 DEF IInv
  <2>4. k \in Nat /\ id \notin Done(k)
    <3>1. k \in Nat
      BY <2>3
    <3> QED BY <2>2, <2>3, <3>1, AtTurn
  <2>5. PICK top, T : top = mounts /\ T = Beside(id, new)
    OBVIOUS
  <2>6. top \in Nat /\ AllListed(instances, top) /\ new.no = top + 1
    BY <2>2, <2>5 DEF IInv
  <2>7. /\ DOMAIN T = DOMAIN instances \cup {id}
        /\ \A x \in DOMAIN instances \ {id} : T[x] = instances[x]
    <3>1. TookPlace(T, id, new, top + 1)
      BY <2>2, <2>5, <2>6, BesideListed
    <3> QED BY <3>1 DEF TookPlace
  <2>8. \A x \in Done(k) : InstanceOf(x)' = InstanceOf(x)
    BY <2>2, <2>4, <2>5, <2>7 DEF HasInstance, InstanceOf, Newest
  <2>9. /\ building'.plan = building.plan /\ building'.ordered = Append(building.ordered, new)
        /\ building'.mounted = building.mounted \cup {new.no}
        /\ building'.decided = Put(building.decided, id, IdentityAtTurn(id))
    BY <1>4, <2>1, <2>2, MountMoves
  <2>10. ASSUME NEW m \in Range(building.ordered) PROVE m.no # new.no
    <3>1. m = InstanceOf(m.entry) /\ m.entry \in DOMAIN instances
      BY <2>3 DEF Progress, Settled, HasInstance
    <3>2. m \in LiveOf(instances)
      BY <3>1, MembersAreNewest
    <3>3. m.no \in 1 .. top
      BY <2>6, <3>2, LiveListed
    <3> QED BY <2>6, <3>3
  <2>11. \A b \in Range(current.members) : b.entry = id => Called(b, new)
    BY <1>4, <2>1, MountIsCalled
  <2>12. building'.mounted \subseteq building.mounted \cup {new.no}
    BY <2>9
  <2>13. \A m \in Range(building.ordered) : m.no \in building'.mounted => m.no \in building.mounted
    BY <2>9, <2>10
  <2> QED BY <1>1, <2>2, <2>3, <2>4, <2>8, <2>9, <2>11, <2>12, <2>13, JoinKeepsWalked
<1>5. ASSUME NEW id, PassOver(id) PROVE Walked'
  <2>1. building # NoBuild /\ UNCHANGED <<instances, current>>
    BY <1>5 DEF PassOver, Turn
  <2>2. /\ building'.plan = building.plan /\ building'.ordered = building.ordered
        /\ building'.mounted = building.mounted /\ building'.decided = building.decided
    BY <1>5, PassOverMoves
  <2>3. Joined' = Joined /\ \A x : InstanceOf(x)' = InstanceOf(x)
    BY <2>1, <2>2 DEF Joined, HasInstance, InstanceOf, Newest
  <2>4. ASSUME NEW m, Explained(m) PROVE Explained(m)'
    BY <2>1, <2>2, <2>3, <2>4 DEF Explained
  <2> QED BY <1>1, <2>1, <2>2, <2>3, <2>4 DEF Walked
<1>6. CASE UNCHANGED <<instances, current, building>>
  <2>1. Joined' = Joined /\ \A x : InstanceOf(x)' = InstanceOf(x)
    BY <1>6 DEF Joined, HasInstance, InstanceOf, Newest
  <2>2. ASSUME NEW m, Explained(m) PROVE Explained(m)'
    BY <1>6, <2>1, <2>2 DEF Explained
  <2> QED BY <1>1, <1>6, <2>1, <2>2 DEF Walked
<1>7. CASE ReconcileBegin
  <2>1. building' = NoBuild \/
          (building'.ordered = <<>> /\ building'.mounted = {} /\ building'.decided = <<>>)
    BY <1>7 DEF ReconcileBegin
  <2>2. Range(<<>>) = {} /\ DOMAIN <<>> = {}
    BY DEF Range
  <2> QED BY <1>2, <2>1, <2>2 DEF Walked, Joined
<1>8. CASE Publish \/ Rejected \/ Release \/ \E id : MountFails(id)
  BY <1>2, <1>8 DEF Publish, Rejected, Release, MountFails
<1> QED BY <1>3, <1>4, <1>5, <1>6, <1>7, <1>8, OthersLeave

(* The bindings of the generation after a step.                            *)
LEMMA StepsKeepDigested ==
    ASSUME IInv, RInv, [Next]_vars
    PROVE  /\ Digested(current')
           /\ \A m \in Range(current'.members) : WiredBy(m, current'.tree.selections)
<1>1. CASE Publish
  <2>1. CASE current' = current
    BY <2>1 DEF RInv
  <2>2. CASE /\ current'.members = building.ordered
             /\ current'.tree.selections = building.plan.resolution
             /\ current'.raced = (previews = {})
    <3>1. PICK g : g = current'
      OBVIOUS
    <3>2. /\ building # NoBuild /\ g.members \in Seq(Range(g.members))
          /\ \A m \in Range(g.members) : m = InstanceOf(m.entry)
      BY <1>1, <2>2, <3>1, PublishMakes
    <3>3. Tangled(g) = Knots(building.plan.resolution) /\ MemberIds(g) = Joined
      BY <2>2, <3>1 DEF Tangled, PlannedEdges, Knots, MemberIds, Joined
    <3>4. ASSUME NEW p \in MemberIds(g) PROVE MemberOf(g, p) = InstanceOf(p)
      <4>1. MemberOf(g, p) \in Range(g.members) /\ MemberOf(g, p).entry = p
        BY <3>2, MemberOfIs
      <4> QED BY <3>2, <4>1
    <3>5. \A m \in Range(g.members) : Explained(m)
      BY <2>2, <3>1, <3>2 DEF RInv, Walked
    <3>6. Digested(g)
      <4>1. Bound(g)
        BY <1>1, <3>1, PublishKeeps DEF IInv
      <4>2. ASSUME NEW m \in Range(g.members), NEW cap \in DOMAIN m.identity.bindings,
                   NEW b, b = m.identity.bindings[cap], b.provider # None, m.entry \notin Tangled(g)
            PROVE  b.digest = Digest(MemberOf(g, b.provider).identity)
        <5>1. b.provider \in MemberIds(g)
          BY <4>1, <4>2 DEF Bound
        <5> QED BY <3>3, <3>4, <3>5, <4>2, <5>1 DEF Explained
      <4> QED BY <4>2 DEF Digested
    <3>7. \A m \in Range(g.members) : WiredBy(m, g.tree.selections)
      BY <2>2, <3>1, <3>5 DEF Explained
    <3> QED BY <3>1, <3>6, <3>7
  <2> QED BY <1>1, <2>1, <2>2, PublishMakes
<1>2. CASE ~Publish
  <2>1. current' = current
    BY <1>2, OthersLeave DEF Mount, MountFails, Rejected, Release
  <2> QED BY <2>1 DEF RInv
<1> QED BY <1>1, <1>2

(* The identities of two instances that are bound alike.                   *)
LEMMA BoundAlike ==
    ASSUME NEW i, IsIdentity(i), NEW j, IsIdentity(j), Selection(i) = Selection(j),
           \A cap \in DOMAIN j.bindings : j.bindings[cap].provider # None =>
             /\ i.bindings[cap].instance = j.bindings[cap].instance
             /\ i.bindings[cap].digest = j.bindings[cap].digest
    PROVE  i.bindings = j.bindings
<1>1. PICK f, g, s, t : f = i.bindings /\ g = j.bindings /\ s = Selection(i) /\ t = Selection(j)
  OBVIOUS
<1>2. /\ s = [cap \in DOMAIN f |-> <<f[cap].provider, f[cap].status>>]
      /\ t = [cap \in DOMAIN g |-> <<g[cap].provider, g[cap].status>>]
  BY <1>1 DEF Selection
<1>3. DOMAIN s = DOMAIN f /\ DOMAIN t = DOMAIN g
  BY <1>2
<1>4. s = t /\ DOMAIN f = DOMAIN g
  BY <1>1, <1>3
<1>5. /\ f = [cap \in DOMAIN f |-> [provider |-> f[cap].provider, status |-> f[cap].status,
                                    instance |-> f[cap].instance, digest |-> f[cap].digest]]
      /\ g = [cap \in DOMAIN g |-> [provider |-> g[cap].provider, status |-> g[cap].status,
                                    instance |-> g[cap].instance, digest |-> g[cap].digest]]
  BY <1>1 DEF IsIdentity
<1>6. ASSUME NEW cap \in DOMAIN g
      PROVE  /\ f[cap].provider = g[cap].provider /\ f[cap].status = g[cap].status
             /\ f[cap].instance = g[cap].instance /\ f[cap].digest = g[cap].digest
  <2>1. f[cap].provider = g[cap].provider /\ f[cap].status = g[cap].status
    <3>1. s[cap] = <<f[cap].provider, f[cap].status>> /\ t[cap] = <<g[cap].provider, g[cap].status>>
      BY <1>2, <1>4
    <3> QED BY <1>4, <3>1
  <2>2. CASE g[cap].provider = None
    BY <1>1, <1>4, <2>1, <2>2 DEF IsIdentity
  <2>3. CASE g[cap].provider # None
    BY <1>1, <2>1, <2>3
  <2> QED BY <2>1, <2>2, <2>3
<1>7. f = g
  <2>1. PICK r : r = [cap \in DOMAIN g |-> [provider |-> g[cap].provider, status |-> g[cap].status,
                                            instance |-> g[cap].instance, digest |-> g[cap].digest]]
    OBVIOUS
  <2>2. f = r
    BY <1>4, <1>5, <1>6, <2>1
  <2> QED BY <1>5, <2>1, <2>2
<1> QED BY <1>1, <1>7

(* What two instances of an entry have in common when nothing called for   *)
(* the second: their bindings.                                             *)
LEMMA NothingElseChanged ==
    ASSUME IInv, IInv', RInv, RInv', NEW new, new = current',
           NEW id \in MemberIds(current) \cap MemberIds(new),
           NEW before, before = MemberOf(current, id), NEW after, after = MemberOf(new, id),
           \A p \in MemberIds(new) : MemberOf(new, p) \in LiveOf(instances),
           Selection(before.identity) = Selection(after.identity),
           \A cap \in DOMAIN after.identity.bindings :
             LET p == after.identity.bindings[cap].provider
             IN p # None => MemberOf(current, p).no = MemberOf(new, p).no,
           id \notin Tangled(current) \cup Tangled(new)
    PROVE  before.identity.bindings = after.identity.bindings
<1>1. PICK i, j : i = before.identity /\ j = after.identity
  OBVIOUS
<1>2. /\ Bound(current) /\ Bound(new) /\ Digested(current) /\ Digested(new)
      /\ current.members \in Seq(Range(current.members)) /\ new.members \in Seq(Range(new.members))
      /\ \A m \in Range(current.members) : m \in LiveOf(instances)
  BY DEF IInv, RInv, Reached, LiveOf
<1>3. /\ before \in Range(current.members) /\ before.entry = id
      /\ after \in Range(new.members) /\ after.entry = id
  BY <1>2, MemberOfIs
<1>4. before.state = "active" /\ after.state = "active"
  BY <1>3 DEF IInv, Reached
<1>5. before \in LiveOf(instances) /\ after \in LiveOf(instances)
  BY <1>2, <1>3
<1>6. IsIdentity(i) /\ IsIdentity(j)
  BY <1>1, <1>4, <1>5 DEF RInv, Versions
<1>7. DOMAIN i.bindings = DOMAIN j.bindings
      /\ \A cap \in DOMAIN j.bindings : i.bindings[cap].provider = j.bindings[cap].provider
  <2>1. PICK f, g, s, t : f = i.bindings /\ g = j.bindings /\ s = Selection(i) /\ t = Selection(j)
    OBVIOUS
  <2>2. /\ s = [cap \in DOMAIN f |-> <<f[cap].provider, f[cap].status>>]
        /\ t = [cap \in DOMAIN g |-> <<g[cap].provider, g[cap].status>>] /\ s = t
    BY <1>1, <2>1 DEF Selection
  <2>3. DOMAIN s = DOMAIN f /\ DOMAIN t = DOMAIN g
    BY <2>2
  <2>4. DOMAIN f = DOMAIN g
    BY <2>2, <2>3
  <2>5. ASSUME NEW cap \in DOMAIN g PROVE f[cap].provider = g[cap].provider
    <3>1. s[cap] = <<f[cap].provider, f[cap].status>> /\ t[cap] = <<g[cap].provider, g[cap].status>>
      BY <2>2, <2>4
    <3> QED BY <2>2, <3>1
  <2> QED BY <2>1, <2>4, <2>5
<1>8. ASSUME NEW cap \in DOMAIN j.bindings, j.bindings[cap].provider # None
      PROVE  /\ i.bindings[cap].instance = j.bindings[cap].instance
             /\ i.bindings[cap].digest = j.bindings[cap].digest
  <2>1. PICK p : p = j.bindings[cap].provider
    OBVIOUS
  <2>2. p # None /\ p = i.bindings[cap].provider /\ cap \in DOMAIN i.bindings
    BY <1>7, <1>8, <2>1
  <2>3. MemberOf(current, p).no = MemberOf(new, p).no /\ p \in MemberIds(new)
    BY <1>1, <1>2, <1>3, <1>8, <2>1 DEF Bound
  <2>4. p \in MemberIds(current)
    <3> SUFFICES ASSUME p \notin MemberIds(current) PROVE FALSE
      OBVIOUS
    <3>1. MemberOf(new, p).no = None
      BY <1>2, <2>3, MemberOfIs DEF NoInstance
    <3>2. PICK top, x : top = mounts /\ x = MemberOf(new, p)
      OBVIOUS
    <3>3. AllListed(instances, top) /\ x \in LiveOf(instances)
      BY <2>3, <3>2 DEF IInv
    <3>4. x.no \in 1 .. top
      BY <3>3, LiveListed
    <3> QED BY <3>1, <3>2, <3>4 DEF None
  <2>5. MemberOf(current, p) = MemberOf(new, p)
    <3>1. MemberOf(current, p) \in LiveOf(instances)
      BY <1>2, <2>4, MemberOfIs
    <3> QED BY <2>3, <3>1 DEF RInv, Distinct
  <2>6. /\ j.bindings[cap].instance = MemberOf(new, p).no
        /\ j.bindings[cap].digest = Digest(MemberOf(new, p).identity)
    BY <1>1, <1>2, <1>3, <1>8, <2>1, <2>3 DEF Bound, Digested
  <2>7. /\ i.bindings[cap].instance = MemberOf(current, p).no
        /\ i.bindings[cap].digest = Digest(MemberOf(current, p).identity)
    BY <1>1, <1>2, <1>3, <2>2, <2>4 DEF Bound, Digested
  <2> QED BY <2>5, <2>6, <2>7
<1>9. Selection(i) = Selection(j)
  BY <1>1
<1>10. i.bindings = j.bindings
  BY <1>6, <1>8, <1>9, BoundAlike
<1> QED BY <1>1, <1>10

(* So a publication brings a new instance of an entry for a reason.        *)
LEMMA NewOnesHaveReasons ==
    ASSUME IInv, IInv', RInv, RInv', [Next]_vars, Publishes
    PROVE  NewForAReason
<1>1. Publish
  BY WhoActs
<1>2. PICK new : new = current'
  OBVIOUS
<1>3. CASE new = current
  BY <1>2, <1>3 DEF NewForAReason
<1>4. CASE new.members = building.ordered
  <2>1. /\ building # NoBuild /\ new.members \in Seq(Range(new.members))
        /\ \A m \in Range(new.members) :
             m = InstanceOf(m.entry) /\ m.state = "active" /\ m.entry \in DOMAIN instances
    BY <1>1, <1>4, PublishMakes
  <2>2. ASSUME NEW p \in MemberIds(new)
        PROVE  /\ MemberOf(new, p) \in Range(new.members) /\ MemberOf(new, p).entry = p
               /\ MemberOf(new, p) \in LiveOf(instances)
    <3>1. MemberOf(new, p) \in Range(new.members) /\ MemberOf(new, p).entry = p
      BY <2>1, MemberOfIs
    <3> QED BY <2>1, <3>1, MembersAreNewest
  <2> SUFFICES
        ASSUME NEW id \in MemberIds(current) \cap MemberIds(new),
               NEW before, before = MemberOf(current, id), NEW after, after = MemberOf(new, id),
               before.no # after.no, before.revision = after.revision,
               Selection(before.identity) = Selection(after.identity),
               \A cap \in DOMAIN after.identity.bindings :
                 LET p == after.identity.bindings[cap].provider
                 IN p # None => MemberOf(current, p).no = MemberOf(new, p).no,
               after.identity.plugin \notin Flaky,
               id \notin Tangled(current) \cup Tangled(new)
        PROVE  FALSE
    BY <1>2 DEF NewForAReason
  <2>3. current.members \in Seq(Range(current.members))
    BY DEF IInv, Reached
  <2>4. before \in Range(current.members) /\ before.entry = id
    BY <2>3, MemberOfIs
  <2>5. before \in LiveOf(instances)
    BY <2>4 DEF IInv, Reached, LiveOf
  <2>6. /\ after \in Range(building.ordered) /\ after.entry = id /\ after \in LiveOf(instances)
        /\ after = InstanceOf(after.entry) /\ after.entry \in DOMAIN instances /\ after.state = "active"
    BY <1>4, <2>1, <2>2
  <2>7. before.no < after.no
    <3>1. before.no \in Nat /\ after.no \in Nat /\ before.no <= after.no
      BY <2>4, <2>5, <2>6, MembersAreNewest
    <3> QED BY <3>1
  <2>8. after.no \in building.mounted
    BY <2>4, <2>6, <2>7 DEF RInv, Latest
  <2>9. Called(before, after)
    BY <2>1, <2>4, <2>6, <2>8 DEF RInv, Walked, Explained
  <2>10. Content(before.identity) = Content(after.identity) /\ ~Same(before.identity, after.identity)
    BY <2>9 DEF Called
  <2>11. before.identity.bindings = after.identity.bindings
    BY <1>2, <2>2, NothingElseChanged
  <2>12. IsIdentity(before.identity) /\ IsIdentity(after.identity)
    <3>1. before.state = "active"
      BY <2>4 DEF IInv, Reached
    <3> QED BY <2>5, <2>6, <3>1 DEF RInv, Versions
  <2> QED BY <2>10, <2>11, <2>12, SameMeans
<1> QED BY <1>1, <1>2, <1>3, <1>4, PublishMakes

(* The reasons hold from the start on.                                     *)
LEMMA StartsExplained == Init => RInv
<1> SUFFICES ASSUME Init PROVE RInv
  OBVIOUS
<1>1. LiveOf(instances) = {} /\ building = NoBuild /\ current = NoGeneration
  BY DEF Init, LiveOf
<1>2. NoGeneration.members = <<>> /\ Range(<<>>) = {}
  BY DEF NoGeneration, Range
<1> QED BY <1>1, <1>2 DEF RInv, Distinct, Versions, Latest, Walked, Digested

(* Every step keeps the reasons.                                           *)
LEMMA StepsKeepReasons == IInv /\ RInv /\ [Next]_vars => RInv'
<1> SUFFICES ASSUME IInv, RInv, [Next]_vars PROVE RInv'
  OBVIOUS
<1>1. Distinct(instances')
  BY StepsKeepDistinct DEF RInv
<1>2. Versions(instances', control'.desired)
  BY StepsKeepVersions DEF RInv
<1>3. /\ Distinct(instances)' /\ Versions(instances, control.desired)' /\ Digested(current)'
      /\ (\A m \in Range(current.members) : WiredBy(m, current.tree.selections))'
  BY <1>1, <1>2, StepsKeepDigested
<1> QED BY <1>3, StepsKeepLatest, StepsKeepWalked DEF RInv

(* The members of the generation before a publication and of the one after *)
(* are live before it.                                                     *)
LEMMA BothAreLive ==
    ASSUME IInv, Publish, NEW g \in {current, current'}, NEW p \in MemberIds(g)
    PROVE  /\ MemberOf(g, p) \in Range(g.members) /\ MemberOf(g, p).entry = p
           /\ MemberOf(g, p) \in LiveOf(instances) /\ MemberOf(g, p).state = "active"
<1>1. CASE g = current
  <2>1. g.members \in Seq(Range(g.members))
    BY <1>1 DEF IInv, Reached
  <2>2. MemberOf(g, p) \in Range(g.members) /\ MemberOf(g, p).entry = p
    BY <2>1, MemberOfIs
  <2> QED BY <1>1, <2>2 DEF IInv, Reached, LiveOf
<1>2. CASE g.members = building.ordered
  <2>1. /\ g.members \in Seq(Range(g.members))
        /\ \A m \in Range(g.members) :
             m = InstanceOf(m.entry) /\ m.state = "active" /\ m.entry \in DOMAIN instances
    BY <1>2, PublishMakes
  <2>2. MemberOf(g, p) \in Range(g.members) /\ MemberOf(g, p).entry = p
    BY <2>1, MemberOfIs
  <2> QED BY <2>1, <2>2, MembersAreNewest
<1> QED BY <1>1, <1>2, PublishMakes

(***************************************************************************)
(* What the reports make of it                                             *)
(***************************************************************************)

(* The verdict on a node of both generations (analysis.py _compare).       *)
LEMMA CompareSays ==
    ASSUME NEW before, NEW after, NEW v, v = Compare(before, after),
           NEW i, i = before.identity, NEW j, j = after.identity
    PROVE  /\ v.decision = "reused" <=> before.no = after.no /\ SemanticallyEqual(i, j)
           /\ ~SemanticallyEqual(i, j) => v.decision \in {"rewired", "rebuilt"}
           /\ v.decision = "rewired" => /\ Dependencies(i) # Dependencies(j)
                                        /\ v.causes = DependencyChanges(i, j)
<1>1. PICK inputs, changes : inputs = ChangedInputs(i, j) /\ changes = DependencyChanges(i, j)
  OBVIOUS
<1>2. CASE before.no = after.no /\ SemanticallyEqual(i, j)
  BY <1>2 DEF Compare
<1>3. CASE before.no # after.no /\ SemanticallyEqual(i, j)
  BY <1>3 DEF Compare
<1>4. CASE ~SemanticallyEqual(i, j)
  <2>1. v = [decision |-> IF inputs = {"dependencies"} THEN "rewired" ELSE "rebuilt", inputs |-> inputs,
             causes |-> IF "dependencies" \in inputs THEN changes ELSE {}]
    BY <1>1, <1>4 DEF Compare
  <2>2. "dependencies" \in inputs => Dependencies(i) # Dependencies(j)
    BY <1>1 DEF ChangedInputs
  <2> QED BY <1>1, <1>4, <2>1, <2>2
<1> QED BY <1>2, <1>3, <1>4

(* The verdicts of an impact analysis.                                     *)
LEMMA ImpactSays ==
    ASSUME NEW old, NEW new, NEW id \in MemberIds(new)
    PROVE  /\ id \in MemberIds(old) => Impact(old, new)[id] = Compare(MemberOf(old, id), MemberOf(new, id))
           /\ id \notin MemberIds(old) => Impact(old, new)[id].decision = "added"
BY DEF Impact

(* A node whose dependencies differ, though its requirements were resolved *)
(* the same, depends on a provider that means something else.              *)
LEMMA DependencyDiffers ==
    ASSUME NEW i, IsIdentity(i), NEW j, IsIdentity(j), Selection(i) = Selection(j),
           Dependencies(i) # Dependencies(j)
    PROVE  \E cap \in DOMAIN i.bindings \cap DOMAIN j.bindings :
             /\ i.bindings[cap].provider = j.bindings[cap].provider /\ j.bindings[cap].provider # None
             /\ i.bindings[cap].digest # j.bindings[cap].digest
             /\ j.bindings[cap].provider \in DependencyChanges(i, j)
<1>1. PICK f, g, s, t : f = i.bindings /\ g = j.bindings /\ s = Selection(i) /\ t = Selection(j)
  OBVIOUS
<1>2. /\ s = [cap \in DOMAIN f |-> <<f[cap].provider, f[cap].status>>]
      /\ t = [cap \in DOMAIN g |-> <<g[cap].provider, g[cap].status>>] /\ s = t
  BY <1>1 DEF Selection
<1>3. DOMAIN s = DOMAIN f /\ DOMAIN t = DOMAIN g
  BY <1>2
<1>4. DOMAIN f = DOMAIN g
  BY <1>2, <1>3
<1>5. ASSUME NEW cap \in DOMAIN g PROVE f[cap].provider = g[cap].provider /\ f[cap].status = g[cap].status
  <2>1. s[cap] = <<f[cap].provider, f[cap].status>> /\ t[cap] = <<g[cap].provider, g[cap].status>>
    BY <1>2, <1>4
  <2> QED BY <1>2, <2>1
<1>6. PICK cap \in DOMAIN g : f[cap].digest # g[cap].digest
  <2> SUFFICES ASSUME \A cap \in DOMAIN g : f[cap].digest = g[cap].digest PROVE FALSE
    OBVIOUS
  <2>1. Dependencies(i) = [cap \in DOMAIN f |-> SemanticBinding(f[cap])]
           /\ Dependencies(j) = [cap \in DOMAIN g |-> SemanticBinding(g[cap])]
    BY <1>1 DEF Dependencies
  <2>2. \A cap \in DOMAIN g : SemanticBinding(f[cap]) = SemanticBinding(g[cap])
    BY <1>5 DEF SemanticBinding
  <2> QED BY <1>4, <2>1, <2>2
<1>7. g[cap].provider # None
  BY <1>1, <1>4, <1>5, <1>6 DEF IsIdentity
<1>8. g[cap].provider \in DependencyChanges(i, j)
  <2> DEFINE Provider(k, c) == IF c \in DOMAIN k.bindings THEN k.bindings[c].provider ELSE None
             Kept(c) == c \in DOMAIN f \cap DOMAIN g /\ f[c] = g[c]
             Changed == {c \in DOMAIN f \cup DOMAIN g : ~Kept(c)}
             Both(c) == {Provider(i, c), Provider(j, c)}
  <2>1. DependencyChanges(i, j) = (UNION {Both(c) : c \in Changed}) \ {None}
    BY <1>1 DEF DependencyChanges
  <2>2. cap \in Changed
    BY <1>4, <1>6
  <2>3. g[cap].provider \in Both(cap)
    BY <1>1
  <2> HIDE DEF Both, Changed
  <2> QED BY <1>7, <2>1, <2>2, <2>3
<1> QED BY <1>1, <1>4, <1>5, <1>6, <1>7, <1>8

(* The impact analysis of a publication follows the bindings.              *)
LEMMA ImpactIsExplained ==
    ASSUME IInv, IInv', RInv, RInv', [Next]_vars, Publishes
    PROVE  ImpactExplained
<1>1. Publish
  BY WhoActs
<1>2. PICK old, new, impact : old = current /\ new = current' /\ impact = Impact(old, new)
  OBVIOUS
<1>3. Bound(old) /\ Bound(new) /\ Digested(old) /\ Digested(new)
  BY <1>2 DEF IInv, RInv
<1>4. ASSUME NEW g \in {old, new}, NEW p \in MemberIds(g)
      PROVE  /\ MemberOf(g, p) \in Range(g.members) /\ MemberOf(g, p).entry = p
             /\ MemberOf(g, p) \in LiveOf(instances) /\ IsIdentity(MemberOf(g, p).identity)
  <2>1. /\ MemberOf(g, p) \in Range(g.members) /\ MemberOf(g, p).entry = p
        /\ MemberOf(g, p) \in LiveOf(instances) /\ MemberOf(g, p).state = "active"
    BY <1>1, <1>2, BothAreLive
  <2> QED BY <2>1 DEF RInv, Versions
<1>5. ASSUME NEW g \in {old, new}, NEW id \in MemberIds(g) \ Tangled(g), NEW i, i = MemberOf(g, id).identity,
             NEW cap \in DOMAIN i.bindings, NEW p, p = i.bindings[cap].provider, p # None
      PROVE  /\ p \in MemberIds(g) /\ i.bindings[cap].instance = MemberOf(g, p).no
             /\ i.bindings[cap].digest = Digest(MemberOf(g, p).identity)
  <2>1. PICK m : m = MemberOf(g, id) /\ m \in Range(g.members) /\ m.entry = id
    BY <1>4
  <2>2. p \in MemberIds(g) /\ i.bindings[cap].digest = Digest(MemberOf(g, p).identity)
    BY <1>3, <1>5, <2>1 DEF Bound, Digested
  <2> QED BY <1>3, <1>5, <2>1, <2>2 DEF Bound
<1> SUFFICES
      ASSUME NEW id \in MemberIds(new) \ (Tangled(old) \cup Tangled(new))
      PROVE  LET i == MemberOf(old, id).identity
                 j == MemberOf(new, id).identity
                 bound == {j.bindings[cap].provider : cap \in DOMAIN j.bindings} \ {None}
             IN /\ impact[id].decision = "reused" => \A p \in bound : impact[p].decision = "reused"
                /\ impact[id].decision = "rewired" =>
                     \/ Selection(i) # Selection(j)
                     \/ \E p \in impact[id].causes : impact[p].decision \in {"rebuilt", "rewired"}
  BY <1>2 DEF ImpactExplained
<1>8. PICK i, j : i = MemberOf(old, id).identity /\ j = MemberOf(new, id).identity
  OBVIOUS
<1>6. CASE id \notin MemberIds(old)
  BY <1>2, <1>6, ImpactSays
<1>7. CASE id \in MemberIds(old)
  <2> DEFINE bound == {j.bindings[cap].provider : cap \in DOMAIN j.bindings} \ {None}
  <2>1. PICK before, after : before = MemberOf(old, id) /\ after = MemberOf(new, id)
    OBVIOUS
  <2>2. impact[id] = Compare(before, after)
    BY <1>2, <1>7, <2>1, ImpactSays
  <2>3. before \in LiveOf(instances) /\ after \in LiveOf(instances) /\ IsIdentity(i) /\ IsIdentity(j)
    BY <1>4, <1>7, <1>8, <2>1
  <2>4. ASSUME impact[id].decision = "reused", NEW p \in bound PROVE impact[p].decision = "reused"
    <3>1. before.no = after.no
      BY <2>1, <2>2, <2>4, CompareSays
    <3>2. i = j
      BY <1>8, <2>1, <2>3, <3>1 DEF RInv, Distinct
    <3>3. PICK cap \in DOMAIN j.bindings : p = j.bindings[cap].provider /\ p # None
      OBVIOUS
    <3>4. PICK x, y : x = MemberOf(old, p) /\ y = MemberOf(new, p)
      OBVIOUS
    <3>9. id \in MemberIds(old) \ Tangled(old) /\ id \in MemberIds(new) \ Tangled(new)
      BY <1>7
    <3>12. cap \in DOMAIN i.bindings /\ p = i.bindings[cap].provider
      BY <3>2, <3>3
    <3>10. p \in MemberIds(new) /\ j.bindings[cap].instance = y.no
      BY <1>5, <1>8, <3>3, <3>4, <3>9
    <3>11. p \in MemberIds(old) /\ i.bindings[cap].instance = x.no
      BY <1>5, <1>8, <3>3, <3>4, <3>9, <3>12
    <3>5. p \in MemberIds(old) /\ p \in MemberIds(new) /\ x.no = y.no
      BY <3>2, <3>10, <3>11
    <3>6. x = y
      BY <1>4, <3>4, <3>5 DEF RInv, Distinct
    <3>7. impact[p] = Compare(x, y)
      BY <1>2, <3>4, <3>5, ImpactSays
    <3> QED BY <3>5, <3>6, <3>7, CompareSays DEF SemanticallyEqual
  <2>5. ASSUME impact[id].decision = "rewired", Selection(i) = Selection(j)
        PROVE  \E p \in impact[id].causes : impact[p].decision \in {"rebuilt", "rewired"}
    <3>1. Dependencies(i) # Dependencies(j) /\ impact[id].causes = DependencyChanges(i, j)
      BY <1>8, <2>1, <2>2, <2>5, CompareSays
    <3>2. PICK cap \in DOMAIN i.bindings \cap DOMAIN j.bindings :
            /\ i.bindings[cap].provider = j.bindings[cap].provider /\ j.bindings[cap].provider # None
            /\ i.bindings[cap].digest # j.bindings[cap].digest
            /\ j.bindings[cap].provider \in DependencyChanges(i, j)
      BY <2>3, <2>5, <3>1, DependencyDiffers
    <3>3. PICK p, x, y : p = j.bindings[cap].provider /\ x = MemberOf(old, p) /\ y = MemberOf(new, p)
      OBVIOUS
    <3>9. /\ id \in MemberIds(old) \ Tangled(old) /\ id \in MemberIds(new) \ Tangled(new)
          /\ p = i.bindings[cap].provider /\ p # None
      BY <1>7, <3>2, <3>3
    <3>10. p \in MemberIds(old) /\ i.bindings[cap].digest = Digest(x.identity)
      BY <1>5, <1>8, <3>2, <3>3, <3>9
    <3>11. p \in MemberIds(new) /\ j.bindings[cap].digest = Digest(y.identity)
      BY <1>5, <1>8, <3>2, <3>3, <3>9
    <3>4. /\ p \in MemberIds(old) /\ i.bindings[cap].digest = Digest(x.identity)
          /\ p \in MemberIds(new) /\ j.bindings[cap].digest = Digest(y.identity)
      BY <3>10, <3>11
    <3>5. ~SemanticallyEqual(x.identity, y.identity)
      BY <3>2, <3>4 DEF SemanticallyEqual
    <3>6. impact[p] = Compare(x, y)
      BY <1>2, <3>3, <3>4, ImpactSays
    <3>7. impact[p].decision \in {"rebuilt", "rewired"}
      BY <3>5, <3>6, CompareSays
    <3> QED BY <3>1, <3>2, <3>3, <3>7
  <2> QED BY <1>8, <2>4, <2>5
<1> QED BY <1>6, <1>7

(* What the two generations select for an entry is what their members are  *)
(* bound to: a requirement rewired is a difference of identities.          *)
LEMMA RewiringDiffers ==
    ASSUME NEW before, NEW s, WiredBy(before, s), NEW after, NEW t, WiredBy(after, t),
           NEW i, i = before.identity, NEW j, j = after.identity,
           NEW id, before.entry = id, after.entry = id,
           NEW cap, cap \in DOMAIN s[id] \cap DOMAIN t[id],
           <<s[id][cap].provider, s[id][cap].status>> # <<t[id][cap].provider, t[id][cap].status>>
    PROVE  ~SemanticallyEqual(i, j)
<1>1. PICK f, g : f = i.bindings /\ g = j.bindings
  OBVIOUS
<1>2. /\ cap \in DOMAIN f /\ f[cap].provider = s[id][cap].provider /\ f[cap].status = s[id][cap].status
      /\ cap \in DOMAIN g /\ g[cap].provider = t[id][cap].provider /\ g[cap].status = t[id][cap].status
  BY <1>1 DEF WiredBy
<1>3. f[cap].provider # g[cap].provider \/ f[cap].status # g[cap].status
  BY <1>2
<1>4. SemanticBinding(f[cap]) # SemanticBinding(g[cap])
  <2>1. \A b : SemanticBinding(b).provider = b.provider /\ SemanticBinding(b).status = b.status
    BY DEF SemanticBinding
  <2> QED BY <1>3, <2>1
<1>5. Dependencies(i)[cap] # Dependencies(j)[cap]
  BY <1>1, <1>2, <1>4 DEF Dependencies
<1>6. Digest(i).dependencies = Dependencies(i) /\ Digest(j).dependencies = Dependencies(j)
  BY DEF Digest
<1> QED BY <1>5, <1>6 DEF SemanticallyEqual

(* Two generations resolved a requirement of an entry differently.         *)
RewiredAt(old, new, id, cap) ==
    LET s == old.tree.selections[id]
        t == new.tree.selections[id]
    IN /\ cap \in DOMAIN s \cap DOMAIN t
       /\ <<s[cap].provider, s[cap].status>> # <<t[cap].provider, t[cap].status>>

(* The requirements diff_generations calls changed.                        *)
LEMMA RequirementsDiffer ==
    ASSUME NEW old, NEW new, NEW key \in DiffGenerations(old, new).requirements.changed,
           NEW id, NEW cap, id = key[2], cap = key[3]
    PROVE  RewiredAt(old, new, id, cap)
<1>1. DiffGenerations(old, new).requirements = DiffRequirements(old, new)
  BY DEF DiffGenerations
<1>2. \A b, a, s : s \in Difference(b, a).changed <=> s \in DOMAIN b \cap DOMAIN a /\ b[s] # a[s]
  BY DEF Difference
<1> DEFINE Keys(g) == UNION {{<<g.tree.entries[x], x, c>> : c \in DOMAIN g.tree.selections[x]} :
                               x \in DOMAIN g.tree.selections}
           Selected(g, k) == g.tree.selections[k[2]][k[3]]
           Wiring(g) == [k \in Keys(g) |-> <<Selected(g, k).provider, Selected(g, k).status>>]
<1>3. DiffGenerations(old, new).requirements = Difference(Wiring(old), Wiring(new))
  BY <1>1 DEF DiffRequirements
<1>4. ASSUME NEW g, NEW k \in Keys(g) PROVE k[3] \in DOMAIN g.tree.selections[k[2]]
  <2>1. PICK x \in DOMAIN g.tree.selections :
          k \in {<<g.tree.entries[x], x, c>> : c \in DOMAIN g.tree.selections[x]}
    BY <1>4
  <2> QED BY <2>1
<1>5. ASSUME NEW g, NEW k \in DOMAIN Wiring(g)
      PROVE  /\ k[3] \in DOMAIN g.tree.selections[k[2]]
             /\ Wiring(g)[k] = <<Selected(g, k).provider, Selected(g, k).status>>
  BY <1>4, <1>5
<1> HIDE DEF Wiring
<1>6. key \in DOMAIN Wiring(old) /\ key \in DOMAIN Wiring(new) /\ Wiring(old)[key] # Wiring(new)[key]
  BY <1>2, <1>3
<1> QED BY <1>5, <1>6 DEF RewiredAt

(* What diff_generations says of the providers.                           *)
LEMMA DiffSays ==
    ASSUME NEW old, NEW new, NEW diff, diff = DiffGenerations(old, new),
           NEW id \in MemberIds(old) \cap MemberIds(new)
    PROVE  /\ diff.nodes[id] = Compare(MemberOf(old, id), MemberOf(new, id))
           /\ id \in diff.providers.changed <=>
                <<MemberOf(old, id).no, MemberOf(old, id).identity.plugin>>
                  # <<MemberOf(new, id).no, MemberOf(new, id).identity.plugin>>
<1>1. /\ diff.nodes = Impact(old, new) /\ diff.providers = DiffProviders(old, new)
  BY DEF DiffGenerations
<1>2. \A b, a, s : s \in Difference(b, a).changed <=> s \in DOMAIN b \cap DOMAIN a /\ b[s] # a[s]
  BY DEF Difference
<1>3. id \in diff.providers.changed <=>
        <<MemberOf(old, id).no, MemberOf(old, id).identity.plugin>>
          # <<MemberOf(new, id).no, MemberOf(new, id).identity.plugin>>
  <2> DEFINE Members(g) == [p \in MemberIds(g) |-> <<MemberOf(g, p).no, MemberOf(g, p).identity.plugin>>]
  <2>1. diff.providers = Difference(Members(old), Members(new))
    BY <1>1 DEF DiffProviders
  <2>2. /\ id \in DOMAIN Members(old) /\ id \in DOMAIN Members(new)
        /\ Members(old)[id] = <<MemberOf(old, id).no, MemberOf(old, id).identity.plugin>>
        /\ Members(new)[id] = <<MemberOf(new, id).no, MemberOf(new, id).identity.plugin>>
    OBVIOUS
  <2> HIDE DEF Members
  <2> QED BY <1>2, <2>1, <2>2
<1> QED BY <1>1, <1>3 DEF Impact

(* The diff of a publication agrees with its impact analysis.              *)
LEMMA DiffIsImpact ==
    ASSUME IInv, IInv', RInv, RInv', [Next]_vars, Publishes
    PROVE  DiffMatchesImpact
<1>1. Publish
  BY WhoActs
<1>2. PICK old, new, diff : old = current /\ new = current' /\ diff = DiffGenerations(old, new)
  OBVIOUS
<1>3. ASSUME NEW g \in {old, new}, NEW p \in MemberIds(g)
      PROVE  /\ MemberOf(g, p) \in Range(g.members) /\ MemberOf(g, p).entry = p
             /\ MemberOf(g, p) \in LiveOf(instances)
  BY <1>1, <1>2, BothAreLive
<1> SUFFICES
      ASSUME NEW id \in MemberIds(old) \cap MemberIds(new)
      PROVE  /\ diff.nodes[id].decision = "reused" <=> id \notin diff.providers.changed
             /\ (\E key \in diff.requirements.changed : key[2] = id) =>
                   diff.nodes[id].decision \in {"rewired", "rebuilt"}
  BY <1>2 DEF DiffMatchesImpact
<1>4. PICK before, after, i, j : /\ before = MemberOf(old, id) /\ after = MemberOf(new, id)
                                 /\ i = before.identity /\ j = after.identity
  OBVIOUS
<1>5. /\ before \in Range(old.members) /\ before.entry = id /\ before \in LiveOf(instances)
      /\ after \in Range(new.members) /\ after.entry = id /\ after \in LiveOf(instances)
  BY <1>3, <1>4
<1>6. before.no = after.no => before = after
  BY <1>5 DEF RInv, Distinct
<1>7. /\ diff.nodes[id] = Compare(before, after)
      /\ id \in diff.providers.changed <=> <<before.no, i.plugin>> # <<after.no, j.plugin>>
  BY <1>2, <1>4, DiffSays
<1>8. diff.nodes[id].decision = "reused" <=> id \notin diff.providers.changed
  <2>1. before.no = after.no => SemanticallyEqual(i, j) /\ i.plugin = j.plugin
    BY <1>4, <1>6 DEF SemanticallyEqual
  <2> QED BY <1>4, <1>7, <2>1, CompareSays
<1>9. ASSUME NEW key \in diff.requirements.changed, key[2] = id
      PROVE  diff.nodes[id].decision \in {"rewired", "rebuilt"}
  <2>1. PICK s, t : s = old.tree.selections /\ t = new.tree.selections
    OBVIOUS
  <2>2. WiredBy(before, s) /\ WiredBy(after, t)
    BY <1>2, <1>5, <2>1 DEF RInv
  <2>6. PICK cap : cap = key[3]
    OBVIOUS
  <2>3. RewiredAt(old, new, id, cap)
    BY <1>2, <1>9, <2>6, RequirementsDiffer
  <2>5. /\ cap \in DOMAIN s[id] \cap DOMAIN t[id]
        /\ <<s[id][cap].provider, s[id][cap].status>> # <<t[id][cap].provider, t[id][cap].status>>
    BY <2>1, <2>3 DEF RewiredAt
  <2>4. ~SemanticallyEqual(i, j)
    BY <1>4, <1>5, <2>2, <2>5, RewiringDiffers
  <2> QED BY <1>4, <1>7, <2>4, CompareSays
<1> QED BY <1>8, <1>9

(***************************************************************************)
(* A reconciliation repeated with nothing changed                          *)
(***************************************************************************)

(* What the resolver makes of candidates, whichever instances they have.   *)
ResolutionOf(cands, prefs) ==
    [c \in DOMAIN cands |->
       [cap \in Needs(cands[c]) |-> ResolveOne(cands, prefs, c, cap, EligibleOf(cands, prefs))]]
OrderIn(cands, prefs) ==
    LET S == EligibleOf(cands, prefs) \ OnLoop(DeclaredEdges(cands))
    IN OrderOf(S, SelectedEdges(ResolutionOf(cands, prefs), S))

(* What it makes of the desired state, as the manifests declare it.        *)
Declared(entries) == [id \in DOMAIN entries |-> Declaring(entries[id])]
ResolutionNow == ResolutionOf(Declared(control.desired.entries), EffectivePreferences(control))
OrderNow == OrderIn(Declared(control.desired.entries), EffectivePreferences(control))
TreeNow ==
    [scopes |-> control.desired.scopes,
     entries |-> [id \in DOMAIN control.desired.entries |-> control.desired.entries[id].scope],
     selections |-> ResolutionNow]

(* No desired entry may register more than its manifest declares.          *)
Plain == \A id \in DOMAIN control.desired.entries : ~RegistersMore(control.desired.entries[id].plugin)

(* A reconciliation with nothing called since it began.                    *)
UpToDate ==
    /\ TreeOf(building.scopes, building.cands, building.plan) = TreeNow
    /\ building.plan.order = OrderNow
    /\ Len(building.ordered) + Len(building.left) = Len(OrderNow)
    /\ \A i \in 1 .. Len(building.ordered) : building.ordered[i].entry = OrderNow[i]
    /\ \A m \in Range(building.ordered) : m.revision = control.desired.entries[m.entry].revision

(* The generation that the desired state has once reconciled: of loops, it *)
(* says nothing about the instances.                                       *)
Stable ==
    /\ current # NoGeneration /\ current.tree = TreeNow
    /\ current.prefs = EffectivePreferences(control)
    /\ Len(current.members) = Len(OrderNow)
    /\ \A i \in 1 .. Len(current.members) : current.members[i].entry = OrderNow[i]
    /\ Knots(ResolutionNow) = {} =>
         \A m \in Range(current.members) :
           m = InstanceOf(m.entry) /\ m.revision = control.desired.entries[m.entry].revision

(* With IInv and RInv an invariant: why a repetition makes no generation.  *)
SInv ==
    /\ building # NoBuild /\ standing # "changed" => previews # {}
    /\ building # NoBuild /\ previews # {} /\ Plain => UpToDate
    /\ standing # "changed" /\ Plain => Stable
    /\ RepeatIsNoOp

(* The parts of a plan.                                                    *)
LEMMA PlanParts ==
    ASSUME NEW cands, NEW prefs
    PROVE  /\ PlanOf(cands, prefs).resolution = ResolutionOf(cands, prefs)
           /\ PlanOf(cands, prefs).order = OrderIn(cands, prefs)
           /\ PlanOf(cands, prefs).cyclic = OnLoop(DeclaredEdges(cands))
<1>1. PICK pool, cyclic : pool = EligibleOf(cands, prefs) /\ cyclic = OnLoop(DeclaredEdges(cands))
  OBVIOUS
<1>2. PICK resolution :
        resolution = [c \in DOMAIN cands |->
                        [cap \in Needs(cands[c]) |-> ResolveOne(cands, prefs, c, cap, pool)]]
  OBVIOUS
<1>3. PICK order : order = OrderOf(pool \ cyclic, SelectedEdges(resolution, pool \ cyclic))
  OBVIOUS
<1>4. PICK numbers : numbers = [c \in DOMAIN cands |-> InstanceOf(c).no]
  OBVIOUS
<1>5. PlanOf(cands, prefs) = [resolution |-> resolution, cyclic |-> cyclic, instances |-> numbers,
                              order |-> order]
  BY <1>1, <1>2, <1>3, <1>4 DEF PlanOf
<1>6. resolution = ResolutionOf(cands, prefs)
  BY <1>1, <1>2 DEF ResolutionOf
<1>7. order = OrderIn(cands, prefs)
  BY <1>1, <1>3, <1>6 DEF OrderIn
<1> QED BY <1>1, <1>5, <1>6, <1>7

(* The desired state tells what is planned of it.                          *)
LEMMA NowStays ==
    ASSUME control'.desired.entries = control.desired.entries,
           control'.desired.scopes = control.desired.scopes,
           EffectivePreferences(control') = EffectivePreferences(control)
    PROVE  /\ ResolutionNow' = ResolutionNow /\ OrderNow' = OrderNow /\ TreeNow' = TreeNow
           /\ Plain' = Plain
<1>1. ResolutionNow' = ResolutionNow /\ OrderNow' = OrderNow
  BY DEF ResolutionNow, OrderNow
<1> QED BY <1>1 DEF TreeNow, Plain

(* While nothing changes but the course of a reconciliation, what is       *)
(* standing stands.                                                        *)
LEMMA StableStays ==
    ASSUME SInv, UNCHANGED <<control, current, standing>>,
           standing # "changed" /\ Plain /\ Knots(ResolutionNow) = {} =>
             \A m \in Range(current.members) : m = InstanceOf(m.entry) => m = InstanceOf(m.entry)'
    PROVE  (standing # "changed" /\ Plain => Stable)' /\ RepeatIsNoOp'
<1>1. /\ ResolutionNow' = ResolutionNow /\ OrderNow' = OrderNow /\ TreeNow' = TreeNow
      /\ Plain' = Plain
  BY NowStays
<1>2. RepeatIsNoOp'
  BY DEF SInv, RepeatIsNoOp
<1>3. ASSUME Stable, standing # "changed", Plain PROVE Stable'
  BY <1>1, <1>3 DEF Stable
<1> QED BY <1>1, <1>2, <1>3 DEF SInv

(* A call on the desired state (harness.py install and the others).        *)
LEMMA CallsKeepStanding ==
    ASSUME SInv, NEW next, NEW seen, building # NoBuild => seen = {}, Call(next, seen)
    PROVE  SInv'
BY DEF Call, SInv, RepeatIsNoOp

(* A reconciliation begins.                                                *)
LEMMA BeginKeepsStanding == ASSUME IInv, SInv, ReconcileBegin PROVE SInv'
<1>1. /\ UNCHANGED <<control, instances, current, standing>> /\ previews' # {}
  BY DEF ReconcileBegin
<1>2. /\ (standing # "changed" /\ Plain => Stable)' /\ RepeatIsNoOp'
  BY <1>1, StableStays DEF InstanceOf, HasInstance, Newest
<1>3. /\ ResolutionNow' = ResolutionNow /\ OrderNow' = OrderNow /\ TreeNow' = TreeNow
      /\ Plain' = Plain
  BY <1>1, NowStays
<1>4. ASSUME building' # NoBuild, Plain PROVE UpToDate'
  <2>1. PICK entries, cands, prefs :
          /\ entries = control.desired.entries /\ cands = Candidates(entries)
          /\ prefs = EffectivePreferences(control)
    OBVIOUS
  <2>2. PICK plan : plan = PlanOf(cands, prefs)
    OBVIOUS
  <2>3. building' = [step |-> "mounting", plan |-> plan, cands |-> cands,
                     scopes |-> control.desired.scopes, left |-> plan.order,
                     ordered |-> <<>>, mounted |-> {}, decided |-> <<>>]
    BY <1>4, <2>1, <2>2 DEF ReconcileBegin
  <2>4. cands = Declared(entries)
    <3>1. ASSUME NEW id \in DOMAIN entries PROVE CandidateOf(id, entries[id]) = Declaring(entries[id])
      <4>1. Manifest[entries[id].plugin].registers = Manifest[entries[id].plugin].provides
        BY <1>4, <2>1 DEF Plain, RegistersMore
      <4> QED BY <4>1 DEF CandidateOf, Declaring
    <3> QED BY <2>1, <3>1 DEF Candidates, Declared
  <2>5. plan.resolution = ResolutionNow /\ plan.order = OrderNow
    BY <2>1, <2>2, <2>4, PlanParts DEF ResolutionNow, OrderNow
  <2>6. DOMAIN cands = DOMAIN entries /\ \A id \in DOMAIN entries : cands[id].scope = entries[id].scope
    BY <2>4 DEF Declared, Declaring
  <2>7. TreeOf(control.desired.scopes, cands, plan) = TreeNow
    BY <2>1, <2>5, <2>6 DEF TreeOf, TreeNow
  <2>8. Len(OrderNow) \in Nat
    <3>1. Sound(plan)
      <4>1. plan.cyclic = {}
        BY <1>4, <2>1, <2>2 DEF ReconcileBegin
      <4>2. IsFiniteSet(DOMAIN cands) /\ DOMAIN cands \subseteq EntryIds
        BY <2>1, <2>6 DEF IInv, Control, Desired
      <4> QED BY <2>2, <4>1, <4>2, PlanIsSound
    <3> QED BY <2>5, <3>1 DEF Sound
  <2>9. /\ building'.scopes = control.desired.scopes /\ building'.cands = cands
        /\ building'.plan = plan /\ building'.left = OrderNow /\ building'.ordered = <<>>
    BY <2>3, <2>5
  <2>10. Len(<<>>) = 0 /\ Range(<<>>) = {}
    BY DEF Range
  <2> QED BY <1>3, <2>5, <2>7, <2>8, <2>9, <2>10 DEF UpToDate
<1> QED BY <1>1, <1>2, <1>3, <1>4 DEF SInv

(* An entry carried over or mounted: the next of the order, of its         *)
(* revision.                                                               *)
LEMMA JoinKeepsUpToDate ==
    ASSUME IInv, UpToDate, NEW id, Turn(id), NEW new, new.entry = id,
           new.revision = control.desired.entries[id].revision,
           building'.plan = building.plan, building'.left = Tail(building.left),
           building'.ordered = Append(building.ordered, new),
           building'.scopes = building.scopes, building'.cands = building.cands,
           control' = control
    PROVE  UpToDate'
<1>1. PICK k \in 0 .. Len(building.plan.order) : Progress(k)
  BY DEF IInv, Turn
<1>2. PICK order, left, q, r :
        order = building.plan.order /\ left = building.left /\ q = building.ordered /\ r = building'.ordered
  OBVIOUS
<1>3. /\ left \in Seq(Range(left)) /\ left # <<>> /\ id = Head(left) /\ q \in Seq(Range(q))
      /\ k + Len(left) = Len(order) /\ \A i \in 1 .. Len(left) : left[i] = order[k + i]
      /\ order \in Seq(DOMAIN building.plan.resolution)
  BY <1>1, <1>2 DEF Turn, Progress, Remaining, Sound
<1>4. /\ order = OrderNow /\ Len(q) + Len(left) = Len(order)
      /\ \A i \in 1 .. Len(q) : q[i].entry = order[i]
      /\ \A m \in Range(q) : m.revision = control.desired.entries[m.entry].revision
  BY <1>2 DEF UpToDate
<1>5. /\ ResolutionNow' = ResolutionNow /\ OrderNow' = OrderNow /\ TreeNow' = TreeNow
  BY NowStays
<1>6. r = Append(q, new) /\ Range(r) = Range(q) \cup {new}
  BY <1>2, <1>3, OneMore
<1>7. Len(q) \in Nat /\ Len(left) \in Nat /\ Len(left) >= 1 /\ Len(order) \in Nat /\ k \in Nat
  <2>1. Len(left) # 0
    BY <1>3
  <2> QED BY <1>1, <1>2, <1>3, <2>1
<1>8. k = Len(q) /\ id = order[Len(q) + 1]
  <2>1. PICK a, b, c : a = Len(q) /\ b = Len(left) /\ c = Len(order)
    OBVIOUS
  <2>2. k = a
    BY ONLY <1>3, <1>4, <1>7, <2>1
  <2>3. id = left[1] /\ left[1] = order[k + 1]
    BY <1>3, <1>7
  <2> QED BY <2>1, <2>2, <2>3
<1>9. Len(r) = Len(q) + 1 /\ r[Len(q) + 1] = new /\ \A i \in 1 .. Len(q) : r[i] = q[i]
  BY <1>3, <1>6
<1>10. \A i \in 1 .. Len(r) : r[i].entry = order[i]
  BY <1>4, <1>7, <1>8, <1>9
<1>11. Len(r) + Len(Tail(left)) = Len(order)
  <2>1. Len(Tail(left)) = Len(left) - 1
    BY <1>3
  <2>2. PICK a, b, c, d, e : a = Len(q) /\ b = Len(left) /\ c = Len(order) /\ d = Len(r) /\ e = Len(Tail(left))
    OBVIOUS
  <2>3. a \in Nat /\ b \in Nat /\ a + b = c /\ d = a + 1 /\ e = b - 1
    BY <1>4, <1>7, <1>9, <2>1, <2>2
  <2>4. d + e = c
    BY ONLY <2>3
  <2> QED BY <2>2, <2>4
<1>12. \A m \in Range(r) : m.revision = control.desired.entries[m.entry].revision
  BY <1>4, <1>6
<1>13. TreeOf(building'.scopes, building'.cands, building'.plan) = TreeNow
  BY DEF UpToDate
<1> QED BY <1>2, <1>4, <1>5, <1>10, <1>11, <1>12, <1>13 DEF UpToDate

(* A turn leaves the rest of the reconciliation's record.                  *)
LEMMA TurnSpares ==
    ASSUME NEW b, IsBuild(b), NEW l, NEW o, NEW m, NEW d
    PROVE  /\ CarriedOn(b, l, o, d).scopes = b.scopes /\ CarriedOn(b, l, o, d).cands = b.cands
           /\ MountedOn(b, l, o, m, d).scopes = b.scopes /\ MountedOn(b, l, o, m, d).cands = b.cands
<1>1. {"scopes", "cands"} \subseteq DOMAIN b
  BY DEF IsBuild
<1> QED BY <1>1 DEF CarriedOn, MountedOn

(* Nobody is passed over when nothing was called.                          *)
LEMMA PassOverKeepsStanding == ASSUME IInv, SInv, NEW id, PassOver(id) PROVE SInv'
<1>1. /\ Turn(id) /\ building # NoBuild /\ ~HasEntry(control.desired, id)
      /\ UNCHANGED <<control, instances, current, previews, standing>>
  BY DEF PassOver, Turn
<1>2. /\ (standing # "changed" /\ Plain => Stable)' /\ RepeatIsNoOp'
  BY <1>1, StableStays DEF InstanceOf, HasInstance, Newest
<1>3. previews = {}
  <2>1. PICK k \in 0 .. Len(building.plan.order) : Progress(k)
    BY <1>1 DEF IInv
  <2>2. k \in Nat
    BY <2>1
  <2>3. id \in Range(building.plan.order)
    BY <1>1, <2>1, <2>2, AtTurn
  <2> QED BY <1>1, <2>1, <2>3 DEF Progress
<1> QED BY <1>1, <1>2, <1>3 DEF SInv

(* An instance is carried over.                                            *)
LEMMA CarryOverKeepsStanding == ASSUME IInv, SInv, NEW id, CarryOver(id) PROVE SInv'
<1>1. /\ Turn(id) /\ building # NoBuild /\ Carried(id)
      /\ UNCHANGED <<control, instances, current, previews, standing>>
  BY DEF CarryOver, Turn
<1>2. /\ (standing # "changed" /\ Plain => Stable)' /\ RepeatIsNoOp'
  BY <1>1, StableStays DEF InstanceOf, HasInstance, Newest
<1>3. PICK new : new = Newest(id)
  OBVIOUS
<1>4. InstanceOf(id).state = "active" /\ InstanceOf(id).revision = control.desired.entries[id].revision
  BY <1>1 DEF Carried, Carries
<1>5. new = InstanceOf(id) /\ id \in DOMAIN instances
  BY <1>3, <1>4 DEF InstanceOf, HasInstance, NoInstance
<1>6. new.entry = id
  <2>1. PICK q, top : q = instances[id] /\ top = mounts
    OBVIOUS
  <2>2. Listed(q, id, top)
    BY <1>5, <2>1 DEF IInv, AllListed
  <2>3. q \in Seq(Range(q)) /\ q # <<>>
    BY <2>2 DEF Listed
  <2>4. Len(q) \in 1 .. Len(q) /\ new = q[Len(q)]
    BY <1>3, <2>1, <2>3 DEF Newest, Last
  <2> QED BY <2>2, <2>4 DEF Listed
<1>7. /\ building'.plan = building.plan /\ building'.left = Tail(building.left)
      /\ building'.ordered = Append(building.ordered, new)
  BY <1>3, CarryOverMoves
<1>8. building'.scopes = building.scopes /\ building'.cands = building.cands
  <2>1. PICK l, o, d :
          /\ l = Tail(building.left) /\ o = Append(building.ordered, Newest(id))
          /\ d = Put(building.decided, id, IdentityAtTurn(id))
    OBVIOUS
  <2>2. building' = CarriedOn(building, l, o, d)
    BY <1>1, <2>1 DEF CarryOver, CarriedOn
  <2>3. IsBuild(building)
    BY <1>1 DEF IInv, Progress
  <2> QED BY <2>2, <2>3, TurnSpares
<1>9. UpToDate => UpToDate'
  BY <1>1, <1>4, <1>5, <1>6, <1>7, <1>8, JoinKeepsUpToDate
<1>10. Plain' = Plain
  BY <1>1, NowStays
<1> QED BY <1>1, <1>2, <1>9, <1>10 DEF SInv

(* Whatever stands for a provider that had its turn, its digest is that of *)
(* its newest instance.                                                    *)
LEMMA DecidedIsNewest ==
    ASSUME RInv, building # NoBuild, NEW k \in Nat, Progress(k), NEW p \in Joined
    PROVE  DigestIn(building.decided, p) = Digest(InstanceOf(p).identity)
<1>1. PICK m \in Range(building.ordered) : m.entry = p
  BY DEF Joined
<1>2. m = InstanceOf(p)
  BY <1>1 DEF Progress, Settled
<1>3. /\ p \in DOMAIN building.decided /\ building.decided[p] # NoIdentity
      /\ Digest(building.decided[p]) = Digest(m.identity)
  BY <1>1 DEF RInv, Walked, Explained
<1> QED BY <1>2, <1>3 DEF DigestIn

(* With nothing changed and no loops, nothing is mounted.                  *)
LEMMA NothingToMount ==
    ASSUME IInv, RInv, SInv, standing # "changed", Plain, Knots(ResolutionNow) = {},
           NEW id, Turn(id), HasEntry(control.desired, id)
    PROVE  Carried(id)
<1>1. Stable /\ UpToDate /\ previews # {} /\ building # NoBuild
  BY DEF SInv, Turn
<1>2. PICK k \in 0 .. Len(building.plan.order) : Progress(k)
  BY <1>1 DEF IInv
<1>3. PICK order, selected, e, i :
        /\ order = building.plan.order /\ selected = building.plan.resolution
        /\ e = control.desired.entries[id] /\ i = IdentityAtTurn(id)
  OBVIOUS
<1>4. order = OrderNow /\ selected = ResolutionNow /\ current.tree.selections = selected
  <2>1. TreeOf(building.scopes, building.cands, building.plan).selections = selected
    BY <1>3 DEF TreeOf
  <2>2. TreeNow.selections = ResolutionNow
    BY DEF TreeNow
  <2> QED BY <1>1, <1>3, <2>1, <2>2 DEF UpToDate, Stable
<1>5. Knots(selected) = {} /\ Tangled(current) = {}
  BY <1>4 DEF Knots, Tangled, PlannedEdges
<1>6. PICK q : q = current.members
  OBVIOUS
<1>7. /\ q \in Seq(Range(q)) /\ Len(q) = Len(order) /\ \A n \in 1 .. Len(q) : q[n].entry = order[n]
      /\ order \in Seq(DOMAIN selected)
  BY <1>1, <1>2, <1>3, <1>4, <1>6 DEF Stable, IInv, Reached, Progress, Sound
<1>8. ASSUME NEW n \in 1 .. Len(order), NEW p, p = order[n]
      PROVE  /\ p \in MemberIds(current)
             /\ MemberOf(current, p) \in Range(q) /\ MemberOf(current, p) = InstanceOf(p)
             /\ InstanceOf(p).entry = p
  <2>1. q[n] \in Range(q) /\ q[n].entry = p
    BY <1>7, <1>8, OwnElements
  <2>2. p \in MemberIds(current)
    BY <1>6, <2>1 DEF MemberIds
  <2>3. MemberOf(current, p) \in Range(q) /\ MemberOf(current, p).entry = p
    BY <1>6, <1>7, <2>2, MemberOfIs
  <2> QED BY <1>1, <1>6, <2>2, <2>3 DEF Stable
<1>9. PICK at \in 1 .. Len(order) : order[at] = id
  <2>1. k \in Nat
    BY <1>2
  <2>2. id \in Range(order)
    BY <1>2, <1>3, <2>1, AtTurn
  <2> QED BY <1>7, <2>2, OwnElements
<1>10. PICK b : b = InstanceOf(id)
  OBVIOUS
<1>11. /\ b \in Range(q) /\ b.entry = id /\ b.state = "active" /\ b.revision = e.revision
       /\ b \in LiveOf(instances)
  <2>1. b \in Range(q) /\ b.entry = id
    BY <1>8, <1>9, <1>10
  <2> QED BY <1>1, <1>3, <1>6, <2>1 DEF Stable, IInv, Reached, LiveOf
<1>12. IsIdentity(b.identity) /\ Content(b.identity) = <<id, e.plugin, e.config, e.scope>>
  BY <1>3, <1>11 DEF RInv, Versions
<1>13. PICK r : r = selected[id]
  OBVIOUS
<1>14. /\ IsIdentity(i) /\ Content(i) = <<id, e.plugin, e.config, e.scope>>
       /\ DOMAIN i.bindings = DOMAIN r
       /\ \A cap \in DOMAIN r :
            /\ i.bindings[cap].provider = r[cap].provider
            /\ i.bindings[cap].status = r[cap].status
            /\ r[cap].provider # None =>
                 /\ i.bindings[cap].digest = DigestIn(building.decided, r[cap].provider)
                 /\ i.bindings[cap].instance = InstanceOf(r[cap].provider).no
  BY <1>3, <1>13, IdentityIs
<1>15. /\ DOMAIN b.identity.bindings = DOMAIN r
       /\ \A cap \in DOMAIN r : /\ b.identity.bindings[cap].provider = r[cap].provider
                                /\ b.identity.bindings[cap].status = r[cap].status
  BY <1>4, <1>6, <1>11, <1>13 DEF RInv, WiredBy
<1>16. ASSUME NEW cap \in DOMAIN r PROVE b.identity.bindings[cap] = i.bindings[cap]
  <2>1. PICK p, x, y : p = r[cap].provider /\ x = b.identity.bindings[cap] /\ y = i.bindings[cap]
    OBVIOUS
  <2>2. /\ x = [provider |-> x.provider, status |-> x.status, instance |-> x.instance, digest |-> x.digest]
        /\ y = [provider |-> y.provider, status |-> y.status, instance |-> y.instance, digest |-> y.digest]
        /\ x.provider = p /\ y.provider = p /\ x.status = y.status
    BY <1>12, <1>14, <1>15, <2>1 DEF IsIdentity
  <2>3. CASE p = None
    BY <1>12, <1>14, <1>15, <2>1, <2>2, <2>3 DEF IsIdentity
  <2>4. CASE p # None
    <3>1. p \in Done(k) /\ p \in Joined
      <4>1. p \in Done(k)
        <5>1. k \in Nat
          BY <1>2
        <5>2. \A c \in DOMAIN building.plan.resolution[id] :
                LET x1 == building.plan.resolution[id][c].provider
                IN x1 = None \/ x1 \in Done(k) \/ id \in Knots(building.plan.resolution)
          BY <1>2, <5>1, AtTurn
        <5> QED BY <1>3, <1>5, <1>13, <2>1, <2>4, <5>2
      <4> QED BY <1>1, <1>2, <4>1 DEF Progress
    <3>2. PICK n \in 1 .. Len(order) : order[n] = p
      <4>1. PICK n \in 1 .. k : order[n] = p
        BY <1>3, <3>1 DEF Done
      <4> QED BY <1>2, <1>3, <1>7, <4>1
    <3>3. p \in MemberIds(current) /\ MemberOf(current, p) = InstanceOf(p)
      BY <1>8, <3>2
    <3>4. x.instance = InstanceOf(p).no
      BY <1>5, <1>6, <1>11, <1>15, <2>1, <2>2, <2>4, <3>3 DEF IInv, Bound
    <3>5. x.digest = Digest(InstanceOf(p).identity)
      BY <1>5, <1>6, <1>11, <1>15, <2>1, <2>2, <2>4, <3>3 DEF RInv, Digested
    <3>6. y.instance = InstanceOf(p).no
      BY <1>14, <2>1, <2>4
    <3>7. y.digest = Digest(InstanceOf(p).identity)
      <4>1. y.digest = DigestIn(building.decided, p)
        BY <1>14, <2>1, <2>4
      <4>2. DigestIn(building.decided, p) = Digest(InstanceOf(p).identity)
        BY <1>1, <1>2, <3>1, DecidedIsNewest
      <4> QED BY <4>1, <4>2
    <3> QED BY <2>1, <2>2, <3>4, <3>5, <3>6, <3>7
  <2> QED BY <2>3, <2>4
<1>17. b.identity.bindings = i.bindings
  <2>1. PICK f, g : f = b.identity.bindings /\ g = i.bindings
    OBVIOUS
  <2>2. f = [cap \in DOMAIN f |-> [provider |-> f[cap].provider, status |-> f[cap].status,
                                   instance |-> f[cap].instance, digest |-> f[cap].digest]]
        /\ g = [cap \in DOMAIN g |-> [provider |-> g[cap].provider, status |-> g[cap].status,
                                      instance |-> g[cap].instance, digest |-> g[cap].digest]]
    BY <1>12, <1>14, <2>1 DEF IsIdentity
  <2>3. DOMAIN f = DOMAIN g /\ \A cap \in DOMAIN g : f[cap] = g[cap]
    BY <1>14, <1>15, <1>16, <2>1
  <2> QED BY <2>1, <2>2, <2>3
<1>18. Same(b.identity, i)
  BY <1>12, <1>14, <1>17, SameMeans
<1> QED BY <1>3, <1>10, <1>11, <1>18 DEF Carried, Carries

(* A mount changes what stands only where something changed or loops.      *)
LEMMA MountKeepsStanding == ASSUME IInv, RInv, SInv, NEW id, Mount(id) PROVE SInv'
<1>1. /\ Turn(id) /\ building # NoBuild /\ HasEntry(control.desired, id) /\ ~Carried(id)
      /\ UNCHANGED <<control, current, previews, standing>>
  BY DEF Mount, Turn
<1>2. ~(standing # "changed" /\ Plain /\ Knots(ResolutionNow) = {})
  BY <1>1, NothingToMount
<1>3. /\ (standing # "changed" /\ Plain => Stable)' /\ RepeatIsNoOp'
  BY <1>1, <1>2, StableStays
<1>4. PICK new : new = [no |-> mounts + 1, entry |-> id, state |-> "active",
                        revision |-> control.desired.entries[id].revision,
                        identity |-> IdentityAtTurn(id)]
  OBVIOUS
<1>5. new.entry = id /\ new.revision = control.desired.entries[id].revision
  BY <1>4
<1>6. /\ building'.plan = building.plan /\ building'.left = Tail(building.left)
      /\ building'.ordered = Append(building.ordered, new)
  BY <1>4, MountMoves
<1>7. building'.scopes = building.scopes /\ building'.cands = building.cands
  <2>1. PICK l, o, m, d :
          /\ l = Tail(building.left) /\ o = Append(building.ordered, new)
          /\ m = building.mounted \cup {new.no} /\ d = Put(building.decided, id, new.identity)
    OBVIOUS
  <2>2. building' = MountedOn(building, l, o, m, d)
    BY <1>4, <2>1 DEF Mount, MountedOn
  <2>3. IsBuild(building)
    BY <1>1 DEF IInv, Progress
  <2> QED BY <2>2, <2>3, TurnSpares
<1>8. UpToDate => UpToDate'
  BY <1>1, <1>5, <1>6, <1>7, JoinKeepsUpToDate
<1>9. Plain' = Plain
  BY <1>1, NowStays
<1> QED BY <1>1, <1>3, <1>8, <1>9 DEF SInv

(* What a generation reaches and is the newest stays the newest.           *)
LEMMA ReclaimedKeepsNewest ==
    ASSUME NEW top, AllListed(instances, top), Distinct(instances), NEW G, NEW g \in G, Reached(g),
           NEW T, T = Reclaimed(instances, G),
           NEW m \in Range(g.members), m = InstanceOf(m.entry)
    PROVE  m.entry \in DOMAIN T /\ Last(T[m.entry]) = m
<1>1. /\ AllListed(T, top) /\ m.entry \in DOMAIN T /\ m \in Range(T[m.entry])
  BY ReclaimedSparesReached
<1>2. LiveOf(T) \subseteq LiveOf(instances)
  BY ReclaimedFewer
<1>3. PICK x, id : id = m.entry /\ x = Last(T[id])
  OBVIOUS
<1>4. m \in LiveOf(T)
  BY <1>1 DEF LiveOf
<1>5. x \in LiveOf(T) /\ x.entry = id /\ m.no <= x.no /\ m.no \in 1 .. top
  BY <1>1, <1>3, <1>4, LiveListed
<1>6. x \in LiveOf(instances) /\ m \in LiveOf(instances)
  BY <1>2, <1>4, <1>5
<1>7. x.no <= Last(instances[id]).no /\ x.no \in 1 .. top /\ id \in DOMAIN instances
  BY <1>5, <1>6, LiveListed
<1>8. m = Last(instances[id])
  BY <1>3, <1>7 DEF InstanceOf, HasInstance, Newest
<1>9. x.no = m.no
  BY <1>5, <1>7, <1>8
<1>10. x = m
  BY <1>6, <1>9 DEF Distinct
<1> QED BY <1>1, <1>3, <1>10

(* A run returns its lease.                                                *)
LEMMA ReleaseKeepsStanding == ASSUME IInv, RInv, SInv, Release PROVE SInv'
<1>1. /\ building' = NoBuild /\ instances' = Reclaimed(instances, {current})
      /\ UNCHANGED <<control, current, standing>>
  BY DEF Release
<1>2. ASSUME NEW m \in Range(current.members), m = InstanceOf(m.entry) PROVE m = InstanceOf(m.entry)'
  <2>1. PICK top, G, T : top = mounts /\ G = {current} /\ T = Reclaimed(instances, G)
    OBVIOUS
  <2>2. AllListed(instances, top) /\ Distinct(instances) /\ current \in G /\ Reached(current)
    BY <2>1 DEF IInv, RInv
  <2>3. m.entry \in DOMAIN T /\ Last(T[m.entry]) = m
    BY <1>2, <2>1, <2>2, ReclaimedKeepsNewest
  <2> QED BY <1>1, <2>1, <2>3 DEF InstanceOf, HasInstance, Newest
<1>3. /\ (standing # "changed" /\ Plain => Stable)' /\ RepeatIsNoOp'
  BY <1>1, <1>2, StableStays
<1> QED BY <1>1, <1>3 DEF SInv

(* The members of a reconciliation with nothing called since it began are  *)
(* the entries of the order, each by its newest instance.                  *)
LEMMA UpToDateMembers ==
    ASSUME IInv, UpToDate, building # NoBuild, building.left = <<>>, NEW q, q = building.ordered
    PROVE  /\ q \in Seq(Range(q)) /\ Len(q) = Len(OrderNow)
           /\ \A i \in 1 .. Len(q) : q[i].entry = OrderNow[i]
           /\ \A m \in Range(q) : /\ m = InstanceOf(m.entry) /\ m \in LiveOf(instances)
                                  /\ m.revision = control.desired.entries[m.entry].revision
<1>1. PICK k \in 0 .. Len(building.plan.order) : Progress(k)
  BY DEF IInv
<1>2. q \in Seq(Range(q)) /\ \A m \in Range(q) : m = InstanceOf(m.entry) /\ m.entry \in DOMAIN instances
  BY <1>1 DEF Progress, Settled, HasInstance
<1>3. \A m \in Range(q) : m \in LiveOf(instances)
  BY <1>2, MembersAreNewest
<1>4. Len(q) = Len(OrderNow)
  <2>1. Len(q) \in Nat /\ Len(<<>>) = 0
    BY <1>2
  <2>2. Len(q) + Len(<<>>) = Len(OrderNow)
    BY DEF UpToDate
  <2> QED BY <2>1, <2>2
<1> QED BY <1>2, <1>3, <1>4 DEF UpToDate

(* The same instances in the same order.                                   *)
LEMMA SameMembers ==
    ASSUME Distinct(instances),
           NEW q, q \in Seq(Range(q)), Range(q) \subseteq LiveOf(instances),
           NEW r, r \in Seq(Range(r)), Range(r) \subseteq LiveOf(instances),
           [i \in DOMAIN q |-> q[i].no] = [i \in DOMAIN r |-> r[i].no]
    PROVE  q = r
<1>1. PICK f, g : f = [i \in DOMAIN q |-> q[i].no] /\ g = [i \in DOMAIN r |-> r[i].no]
  OBVIOUS
<1>2. f = g /\ DOMAIN f = DOMAIN q /\ DOMAIN g = DOMAIN r
  BY <1>1
<1>3. ASSUME NEW i \in DOMAIN q PROVE q[i] = r[i]
  <2>1. q[i].no = r[i].no
    <3>1. f[i] = q[i].no /\ g[i] = r[i].no
      BY <1>1, <1>2
    <3> QED BY <1>2, <3>1
  <2>2. q[i] \in Range(q) /\ r[i] \in Range(r)
    BY <1>2 DEF Range
  <2> QED BY <2>1, <2>2 DEF Distinct
<1>4. q = [i \in DOMAIN q |-> q[i]] /\ r = [i \in DOMAIN r |-> r[i]]
  OBVIOUS
<1> QED BY <1>2, <1>3, <1>4

(* A publication with nothing changed since what stands was published      *)
(* makes no generation.                                                    *)
LEMMA RepeatedIsSame ==
    ASSUME IInv, RInv, Stable, UpToDate, building # NoBuild, building.left = <<>>,
           Knots(ResolutionNow) = {},
           NEW tree, tree = TreeOf(building.scopes, building.cands, building.plan),
           NEW prefs, prefs = EffectivePreferences(control)
    PROVE  SameComposition(current, building.ordered, tree, prefs)
<1>1. PICK q, r : q = current.members /\ r = building.ordered
  OBVIOUS
<1>2. /\ r \in Seq(Range(r)) /\ Len(r) = Len(OrderNow) /\ \A i \in 1 .. Len(r) : r[i].entry = OrderNow[i]
      /\ \A m \in Range(r) : m = InstanceOf(m.entry)
  BY <1>1, UpToDateMembers
<1>3. /\ q \in Seq(Range(q)) /\ Len(q) = Len(OrderNow) /\ \A i \in 1 .. Len(q) : q[i].entry = OrderNow[i]
      /\ \A m \in Range(q) : m = InstanceOf(m.entry)
  BY <1>1 DEF Stable, IInv, Reached
<1>4. ASSUME NEW i \in 1 .. Len(q) PROVE q[i] = r[i]
  <2>1. q[i] \in Range(q) /\ r[i] \in Range(r)
    BY <1>2, <1>3, OwnElements
  <2>2. q[i] = InstanceOf(OrderNow[i]) /\ r[i] = InstanceOf(OrderNow[i])
    BY <1>2, <1>3, <2>1
  <2> QED BY <2>2
<1>5. q = r
  BY <1>2, <1>3, <1>4
<1> QED BY <1>1, <1>5 DEF SameComposition, Stable, UpToDate

(* The members are complete.                                               *)
LEMMA PublishKeepsStanding == ASSUME IInv, RInv, IInv', SInv, Publish PROVE SInv'
<1>1. /\ building # NoBuild /\ building.left = <<>> /\ building' = NoBuild
      /\ instances' = Reclaimed(instances, {current', held})
      /\ control' = [control EXCEPT !.desired.dirty = FALSE]
      /\ previews = {} => standing' = "changed"
      /\ standing' = "churned" => standing # "changed" /\ current' # current
  BY DEF Publish
<1>2. PICK ordered, tree, prefs :
        /\ ordered = building.ordered /\ prefs = EffectivePreferences(control)
        /\ tree = TreeOf(building.scopes, building.cands, building.plan)
  OBVIOUS
<1>3. PICK new : new = [no |-> current.no + 1, members |-> ordered, tree |-> tree,
                        prefs |-> prefs, raced |-> previews = {}]
  OBVIOUS
<1>4. current' = IF SameComposition(current, ordered, tree, prefs) THEN current ELSE new
  BY <1>2, <1>3 DEF Publish
<1>5. CASE previews = {}
  BY <1>1, <1>5 DEF SInv, RepeatIsNoOp
<1>6. CASE previews # {} /\ ~Plain
  <2>1. ~Plain'
    <3>1. control'.desired.entries = control.desired.entries
      BY <1>1 DEF IInv, Control, Desired
    <3> QED BY <1>6, <3>1 DEF Plain
  <2>2. RepeatIsNoOp'
    BY <2>1 DEF RepeatIsNoOp, Plain
  <2> QED BY <1>1, <2>1, <2>2 DEF SInv
<1>7. CASE previews # {} /\ Plain
  <2>1. UpToDate
    BY <1>1, <1>7 DEF SInv
  <2>2. /\ control'.desired.entries = control.desired.entries
        /\ control'.desired.scopes = control.desired.scopes
        /\ EffectivePreferences(control') = EffectivePreferences(control)
    <3>1. /\ control = [desired |-> control.desired, configPrefs |-> control.configPrefs,
                        programPrefs |-> control.programPrefs, config |-> control.config,
                        provisions |-> control.provisions]
      BY DEF IInv, Control
    <3>2. control'.configPrefs = control.configPrefs /\ control'.programPrefs = control.programPrefs
      BY <1>1, <3>1
    <3>3. control'.desired = [control.desired EXCEPT !.dirty = FALSE]
      BY <1>1, <3>1
    <3>4. {"entries", "scopes"} \subseteq DOMAIN control.desired
      BY DEF IInv, Control, Desired
    <3> QED BY <3>2, <3>3, <3>4 DEF EffectivePreferences
  <2>3. /\ ResolutionNow' = ResolutionNow /\ OrderNow' = OrderNow /\ TreeNow' = TreeNow
        /\ Plain' = Plain
    BY <2>2, NowStays
  <2>4. /\ ordered \in Seq(Range(ordered)) /\ Len(ordered) = Len(OrderNow)
        /\ \A i \in 1 .. Len(ordered) : ordered[i].entry = OrderNow[i]
        /\ \A m \in Range(ordered) : /\ m = InstanceOf(m.entry) /\ m \in LiveOf(instances)
                                     /\ m.revision = control.desired.entries[m.entry].revision
    BY <1>1, <1>2, <2>1, UpToDateMembers
  <2>5. tree = TreeNow /\ TreeNow.selections = ResolutionNow
    BY <1>2, <2>1 DEF UpToDate, TreeNow
  <2>6. current'.members = ordered /\ current'.tree = tree /\ current'.prefs = prefs
    <3>1. CASE SameComposition(current, ordered, tree, prefs)
      <4>1. PICK q : q = current.members
        OBVIOUS
      <4>2. q \in Seq(Range(q)) /\ Range(q) \subseteq LiveOf(instances)
        BY <4>1 DEF IInv, Reached, LiveOf
      <4>3. [i \in DOMAIN q |-> q[i].no] = [i \in DOMAIN ordered |-> ordered[i].no]
        BY <3>1, <4>1 DEF SameComposition
      <4>4. Range(ordered) \subseteq LiveOf(instances) /\ Distinct(instances)
        BY <2>4 DEF RInv
      <4>5. q = ordered
        BY <2>4, <4>2, <4>3, <4>4, SameMembers
      <4> QED BY <1>4, <3>1, <4>1, <4>5 DEF SameComposition
    <3>2. CASE ~SameComposition(current, ordered, tree, prefs)
      BY <1>3, <1>4, <3>2
    <3> QED BY <3>1, <3>2
  <2>7. current' # NoGeneration
    <3>1. CASE SameComposition(current, ordered, tree, prefs)
      BY <1>4, <3>1 DEF SameComposition
    <3>2. CASE ~SameComposition(current, ordered, tree, prefs)
      <4>1. "tree" \in DOMAIN new /\ "tree" \notin DOMAIN NoGeneration
        BY <1>3 DEF NoGeneration
      <4> QED BY <1>4, <3>2, <4>1
    <3> QED BY <3>1, <3>2
  <2>8. ASSUME NEW m \in Range(ordered) PROVE m = InstanceOf(m.entry)'
    <3>1. PICK top, g, G, T : top = mounts /\ g = current' /\ G = {g, held} /\ T = Reclaimed(instances, G)
      OBVIOUS
    <3>2. AllListed(instances, top) /\ Distinct(instances)
      BY <3>1 DEF IInv, RInv
    <3>3. Reached(g)
      <4>1. \A x \in Range(ordered) : x.state = "active" /\ x.entry \in DOMAIN instances
        BY <1>2, PublishMakes
      <4>2. \A x \in Range(ordered) : x \in Range(instances[x.entry])
        BY <2>4, <3>2, LiveListed
      <4> QED BY <2>4, <2>6, <3>1, <4>1, <4>2 DEF Reached
    <3>5. g \in G /\ m \in Range(g.members) /\ m = InstanceOf(m.entry)
      BY <2>4, <2>6, <3>1
    <3>4. m.entry \in DOMAIN T /\ Last(T[m.entry]) = m
      BY <3>1, <3>2, <3>3, <3>5, ReclaimedKeepsNewest
    <3> QED BY <1>1, <3>1, <3>4 DEF InstanceOf, HasInstance, Newest
  <2>9. Stable'
    BY <1>2, <2>2, <2>3, <2>4, <2>5, <2>6, <2>7, <2>8 DEF Stable
  <2>10. RepeatIsNoOp'
    <3> SUFFICES ASSUME standing' = "churned" PROVE Tangled(current') # {}
      BY DEF RepeatIsNoOp
    <3>1. standing # "changed" /\ ~SameComposition(current, ordered, tree, prefs)
      BY <1>1, <1>4
    <3>2. Stable
      BY <1>7, <3>1 DEF SInv
    <3>3. Knots(ResolutionNow) # {}
      BY <1>1, <1>2, <2>1, <3>1, <3>2, RepeatedIsSame
    <3> QED BY <2>5, <2>6, <3>3 DEF Tangled, PlannedEdges, Knots
  <2> QED BY <1>1, <2>9, <2>10 DEF SInv
<1> QED BY <1>5, <1>6, <1>7

(* Nothing stands at first.                                                *)
LEMMA StartsStanding == Init => SInv
BY DEF Init, SInv, RepeatIsNoOp

(* Every step keeps what stands.                                           *)
LEMMA StepsKeepStanding == IInv /\ IInv' /\ RInv /\ SInv /\ [Next]_vars => SInv'
<1> SUFFICES ASSUME IInv, IInv', RInv, SInv, [Next]_vars PROVE SInv'
  OBVIOUS
<1>1. ASSUME NEW next, Call(next, {}) PROVE SInv'
  <2>1. PICK seen : seen = {}
    OBVIOUS
  <2>2. Call(next, seen) /\ (building # NoBuild => seen = {})
    BY <1>1, <2>1
  <2> QED BY <2>2, CallsKeepStanding
<1>2. ASSUME NEW e \in UserEntries, Installs(e) \/ Uninstalls(e) \/ DeclaresScope(e) PROVE SInv'
  BY <1>1, <1>2 DEF Installs, Uninstalls, DeclaresScope
<1>3. ASSUME NEW s \in Selections, Prefers(s) PROVE SInv'
  BY <1>1, <1>3 DEF Prefers
<1>4. ASSUME NEW config \in Configs, Applies(config) PROVE SInv'
  <2>1. PICK next, seen : /\ next = Commit(control, config)
                          /\ seen = IF building = NoBuild THEN {[of |-> config, result |-> PreviewConfig(config)]}
                                    ELSE {}
    OBVIOUS
  <2>2. Call(next, seen)
    BY <1>4, <2>1 DEF Applies
  <2>3. building # NoBuild => seen = {}
    BY <2>1
  <2> QED BY <2>2, <2>3, CallsKeepStanding
<1>5. CASE ReconcileBegin
  BY <1>5, BeginKeepsStanding
<1>6. ASSUME NEW id, PassOver(id) PROVE SInv'
  BY <1>6, PassOverKeepsStanding
<1>7. ASSUME NEW id, CarryOver(id) PROVE SInv'
  BY <1>7, CarryOverKeepsStanding
<1>8. ASSUME NEW id, Mount(id) PROVE SInv'
  BY <1>8, MountKeepsStanding
<1>9. CASE Rejected \/ \E id : MountFails(id)
  <2>1. building' = NoBuild /\ standing' = "changed"
    BY <1>9 DEF Rejected, MountFails
  <2> QED BY <2>1 DEF SInv, RepeatIsNoOp
<1>10. CASE Publish
  BY <1>10, PublishKeepsStanding
<1>11. CASE Lease
  <2>1. building = NoBuild /\ UNCHANGED <<control, instances, current, building, standing>>
    BY <1>11 DEF Lease
  <2>2. /\ (standing # "changed" /\ Plain => Stable)' /\ RepeatIsNoOp'
    BY <2>1, StableStays DEF InstanceOf, HasInstance, Newest
  <2> QED BY <2>1, <2>2 DEF SInv
<1>12. CASE Release
  BY <1>12, ReleaseKeepsStanding
<1>13. CASE UNCHANGED vars
  <2>1. UNCHANGED <<control, instances, current, building, previews, standing>>
    BY <1>13 DEF vars
  <2>2. /\ (standing # "changed" /\ Plain => Stable)' /\ RepeatIsNoOp'
    BY <2>1, StableStays DEF InstanceOf, HasInstance, Newest
  <2>3. Plain' = Plain /\ OrderNow' = OrderNow /\ TreeNow' = TreeNow
    BY <2>1, NowStays
  <2>4. UpToDate => UpToDate'
    BY <2>1, <2>3 DEF UpToDate
  <2> QED BY <2>1, <2>2, <2>3, <2>4 DEF SInv
<1> QED BY <1>2, <1>3, <1>4, <1>5, <1>6, <1>7, <1>8, <1>9, <1>10, <1>11, <1>12, <1>13 DEF Next

(***************************************************************************)
(* What a preview foretells                                                *)
(***************************************************************************)

(* The entries of an order before the n-th.                                *)
PlacedBefore(order, n) == {order[j] : j \in 1 .. (n - 1)}

(* What the walk of a preview (harness.py _build_plan_result) says of one  *)
(* entry, once the entries before it are decided.                          *)
Numbers(w, before, P) ==
    [p \in P |-> IF p \in before /\ ~w.reused[p] THEN mounts + p ELSE InstanceOf(p).no]
Digests(w, before, P) ==
    [p \in P |-> LET known == IF p \in before THEN w.decided[p] ELSE InstanceOf(p).identity
                 IN IF known = NoIdentity THEN NoIdentity ELSE Digest(known)]
Decided(w, id, before, plan, entries, untouched, prefs) ==
    LET P == Providers(plan.resolution[id])
    IN /\ w.decided[id] = Identity(id, entries[id], plan.resolution[id], prefs,
                                   Numbers(w, before, P), Digests(w, before, P))
       /\ w.reused[id] = (id \in untouched /\ Carries(id, entries[id], w.decided[id]))

(* The walk after k entries.                                               *)
Walking(w, k, plan, entries, untouched, prefs) ==
    /\ w = [decided |-> w.decided, reused |-> w.reused]
    /\ DOMAIN w.decided = PlacedBefore(plan.order, k + 1)
    /\ DOMAIN w.reused = PlacedBefore(plan.order, k + 1)
    /\ \A j \in 1 .. k :
         Decided(w, plan.order[j], PlacedBefore(plan.order, j), plan, entries, untouched, prefs)

(* One more entry is decided.                                              *)
LEMMA WalkOn ==
    ASSUME NEW plan, NEW n \in Nat, \A i, j \in 1 .. n : plan.order[i] = plan.order[j] => i = j,
           NEW entries, NEW untouched, NEW prefs,
           NEW k \in 0 .. (n - 1), NEW w, Walking(w, k, plan, entries, untouched, prefs),
           NEW id, id = plan.order[k + 1], NEW v, v = Decide(w, id, plan, entries, untouched, prefs)
    PROVE  Walking(v, k + 1, plan, entries, untouched, prefs)
<1>1. PICK P : P = Providers(plan.resolution[id])
  OBVIOUS
<1>2. PICK before : before = PlacedBefore(plan.order, k + 1)
  OBVIOUS
<1>3. id \notin before /\ DOMAIN w.decided = before /\ DOMAIN w.reused = before
  BY <1>2 DEF Walking, PlacedBefore
<1>4. PICK i : i = Identity(id, entries[id], plan.resolution[id], prefs,
                            Numbers(w, before, P), Digests(w, before, P))
  OBVIOUS
<1>5. v = [decided |-> Put(w.decided, id, i),
           reused |-> Put(w.reused, id, id \in untouched /\ Carries(id, entries[id], i))]
  <2>1. Numbers(w, before, P) = [p \in P |-> PredictedInstance(w.reused, p)]
    BY <1>3 DEF Numbers, PredictedInstance
  <2>2. Digests(w, before, P) = [p \in P |-> DigestIn(w.decided, p)]
    BY <1>3 DEF Digests, DigestIn
  <2> QED BY <1>1, <1>4, <2>1, <2>2 DEF Decide
<1>6. /\ DOMAIN v.decided = before \cup {id} /\ DOMAIN v.reused = before \cup {id}
      /\ v.decided[id] = i /\ v.reused[id] = (id \in untouched /\ Carries(id, entries[id], i))
      /\ \A p \in before : v.decided[p] = w.decided[p] /\ v.reused[p] = w.reused[p]
  BY <1>3, <1>5 DEF Put
<1>7. PlacedBefore(plan.order, (k + 1) + 1) = before \cup {id}
  <2>1. 1 .. (((k + 1) + 1) - 1) = 1 .. ((k + 1) - 1) \cup {k + 1}
    OBVIOUS
  <2> QED BY <1>2, <2>1 DEF PlacedBefore
<1>8. ASSUME NEW S, S \subseteq before, NEW Q
      PROVE  Numbers(v, S, Q) = Numbers(w, S, Q) /\ Digests(v, S, Q) = Digests(w, S, Q)
  BY <1>6, <1>8 DEF Numbers, Digests
<1>9. ASSUME NEW j \in 1 .. (k + 1)
      PROVE  Decided(v, plan.order[j], PlacedBefore(plan.order, j), plan, entries, untouched, prefs)
  <2>1. CASE j = k + 1
    <3>1. Numbers(v, before, P) = Numbers(w, before, P) /\ Digests(v, before, P) = Digests(w, before, P)
      BY <1>8
    <3> QED BY <1>1, <1>2, <1>4, <1>6, <2>1, <3>1 DEF Decided
  <2>2. CASE j # k + 1
    <3>1. j \in 1 .. k
      BY <2>2
    <3>2. PICK x, S : x = plan.order[j] /\ S = PlacedBefore(plan.order, j)
      OBVIOUS
    <3>3. x \in before /\ S \subseteq before
      BY <1>2, <3>1, <3>2 DEF PlacedBefore
    <3>4. Decided(w, x, S, plan, entries, untouched, prefs)
      BY <3>1, <3>2 DEF Walking
    <3>5. v.decided[x] = w.decided[x] /\ v.reused[x] = w.reused[x]
      BY <1>6, <3>3
    <3>6. \A Q : Numbers(v, S, Q) = Numbers(w, S, Q) /\ Digests(v, S, Q) = Digests(w, S, Q)
      BY <1>8, <3>3
    <3> QED BY <3>2, <3>4, <3>5, <3>6 DEF Decided
  <2> QED BY <2>1, <2>2
<1>10. v = [decided |-> v.decided, reused |-> v.reused]
  BY <1>5
<1> QED BY <1>6, <1>7, <1>9, <1>10 DEF Walking

(* The walk as _build_plan_result takes it, entry by entry.                *)
WalkStep(f, i, plan, entries, untouched, prefs) ==
    IF i = 0 THEN [decided |-> <<>>, reused |-> <<>>]
    ELSE Decide(f[i - 1], plan.order[i], plan, entries, untouched, prefs)
IsWalk(f, n, plan, entries, untouched, prefs) ==
    f = [i \in 0 .. n |-> WalkStep(f, i, plan, entries, untouched, prefs)]

(* There is such a walk.                                                   *)
LEMMA WalkExists ==
    ASSUME NEW plan, NEW entries, NEW untouched, NEW prefs, NEW n \in Nat
    PROVE  \E f : IsWalk(f, n, plan, entries, untouched, prefs)
<1> DEFINE Is(f, m) == IsWalk(f, m, plan, entries, untouched, prefs)
           Step(f, i) == WalkStep(f, i, plan, entries, untouched, prefs)
           T == {m \in 0 .. n : \E f : Is(f, m)}
<1>1. 0 \in T
  <2>1. Is([i \in 0 .. 0 |-> [decided |-> <<>>, reused |-> <<>>]], 0)
    BY DEF IsWalk, WalkStep
  <2>2. 0 \in 0 .. n
    OBVIOUS
  <2> QED BY <2>1, <2>2
<1>2. ASSUME NEW m \in 0 .. (n - 1), m \in T PROVE m + 1 \in T
  <2>1. PICK f : Is(f, m)
    BY <1>2
  <2> DEFINE g == [i \in 0 .. (m + 1) |->
                     IF i = m + 1 THEN Decide(f[m], plan.order[m + 1], plan, entries, untouched, prefs)
                     ELSE f[i]]
  <2>2. \A i \in 0 .. m : g[i] = f[i] /\ f[i] = Step(f, i)
    BY <2>1 DEF IsWalk
  <2>3. /\ g[m + 1] = Decide(f[m], plan.order[m + 1], plan, entries, untouched, prefs)
        /\ g = [i \in 0 .. (m + 1) |-> g[i]]
    OBVIOUS
  <2> HIDE DEF g
  <2>4. ASSUME NEW i \in 0 .. (m + 1) PROVE g[i] = Step(g, i)
    <3>1. CASE i = m + 1
      <4>1. i - 1 = m /\ i # 0 /\ m \in 0 .. m
        BY <3>1
      <4> QED BY <2>2, <2>3, <3>1, <4>1 DEF WalkStep
    <3>2. CASE i = 0
      <4>1. 0 \in 0 .. m
        OBVIOUS
      <4> QED BY <2>2, <3>2, <4>1 DEF WalkStep
    <3>3. CASE i # m + 1 /\ i # 0
      <4>1. i \in 0 .. m /\ i - 1 \in 0 .. m
        BY <3>3
      <4> QED BY <2>2, <3>3, <4>1 DEF WalkStep
    <3> QED BY <3>1, <3>2, <3>3
  <2>5. Is(g, m + 1)
    BY <2>3, <2>4 DEF IsWalk
  <2>6. m + 1 \in 0 .. n
    OBVIOUS
  <2> QED BY <2>5, <2>6
<1>3. n \in T
  <2> HIDE DEF T
  <2> QED BY <1>1, <1>2, CountUp
<1> QED BY <1>3

(* What a preview decides of every entry of the order.                     *)
LEMMA WalkDecides ==
    ASSUME NEW plan, NEW n \in Nat, Len(plan.order) = n,
           \A i, j \in 1 .. n : plan.order[i] = plan.order[j] => i = j,
           NEW entries, NEW untouched, NEW prefs
    PROVE  Walking(Walk(plan, entries, untouched, prefs), n, plan, entries, untouched, prefs)
<1> DEFINE Is(f) == IsWalk(f, n, plan, entries, untouched, prefs)
           walk == CHOOSE f : Is(f)
<1>1. Walk(plan, entries, untouched, prefs) = walk[n]
  BY DEF Walk, IsWalk, WalkStep
<1>2. Is(walk)
  <2>1. \E f : Is(f)
    BY WalkExists
  <2> QED BY <2>1
<1> HIDE DEF walk
<1>3. \A i \in 0 .. n : walk[i] = WalkStep(walk, i, plan, entries, untouched, prefs)
  BY <1>2 DEF IsWalk
<1> DEFINE Good(w, k) == Walking(w, k, plan, entries, untouched, prefs)
           T == {k \in 0 .. n : Good(walk[k], k)}
<1>4. 0 \in T
  <2>1. 0 \in 0 .. n
    OBVIOUS
  <2>2. walk[0] = [decided |-> <<>>, reused |-> <<>>]
    BY <1>3, <2>1 DEF WalkStep
  <2>3. PlacedBefore(plan.order, 0 + 1) = {} /\ DOMAIN <<>> = {}
    BY DEF PlacedBefore
  <2>4. Good(walk[0], 0)
    BY <2>2, <2>3 DEF Walking
  <2> QED BY <2>1, <2>4
<1>5. ASSUME NEW k \in 0 .. (n - 1), k \in T PROVE k + 1 \in T
  <2>1. k + 1 \in 0 .. n /\ k + 1 # 0 /\ (k + 1) - 1 = k
    OBVIOUS
  <2>2. PICK v : v = Decide(walk[k], plan.order[k + 1], plan, entries, untouched, prefs)
    OBVIOUS
  <2>3. walk[k + 1] = v
    BY <1>3, <2>1, <2>2 DEF WalkStep
  <2>4. PICK w : w = walk[k]
    OBVIOUS
  <2>5. Good(w, k)
    BY <1>5, <2>4
  <2>6. Good(v, k + 1)
    BY <2>2, <2>4, <2>5, WalkOn
  <2> QED BY <2>1, <2>3, <2>6
<1>6. 0 .. n \subseteq T
  <2> HIDE DEF T
  <2> QED BY <1>4, <1>5, CountUp
<1>7. n \in 0 .. n
  OBVIOUS
<1>8. Good(walk[n], n)
  BY <1>6, <1>7
<1> QED BY <1>1, <1>8

(***************************************************************************)
(* What identities look like, and what a preview foresees of them          *)
(***************************************************************************)

(* Identities of the same entry with the same digests look alike; with the *)
(* same numbers as well, they are equal to the same others.                *)
LEMMA DescribedAlike ==
    ASSUME NEW id, NEW e, NEW r, NEW i, NEW j, NEW n1, NEW d1, NEW n2, NEW d2,
           Describes(i, id, e, r, n1, d1), Describes(j, id, e, r, n2, d2),
           \A p \in Providers(r) : d1[p] = d2[p]
    PROVE  /\ Digest(i) = Digest(j)
           /\ (\A p \in Providers(r) : n1[p] = n2[p]) =>
                \A x : IsIdentity(x) => (Same(x, i) <=> Same(x, j))
<1>1. IsIdentity(i) /\ IsIdentity(j) /\ Content(i) = Content(j)
  BY DEF Describes
<1>2. DOMAIN i.bindings = DOMAIN r /\ DOMAIN j.bindings = DOMAIN r
  BY DEF Describes
<1>3. ASSUME NEW cap \in DOMAIN r, r[cap].provider # None PROVE r[cap].provider \in Providers(r)
  BY <1>3 DEF Providers
<1>4. ASSUME NEW cap \in DOMAIN r
      PROVE  /\ i.bindings[cap].provider = j.bindings[cap].provider
             /\ i.bindings[cap].status = j.bindings[cap].status
             /\ i.bindings[cap].digest = j.bindings[cap].digest
             /\ (\A p \in Providers(r) : n1[p] = n2[p]) =>
                  i.bindings[cap].instance = j.bindings[cap].instance
  <2>1. CASE r[cap].provider = None
    BY <1>2, <2>1 DEF Describes, IsIdentity
  <2>2. CASE r[cap].provider # None
    BY <1>3, <2>2 DEF Describes
  <2> QED BY <2>1, <2>2
<1>5. Digest(i) = Digest(j)
  <2>1. i.plugin = j.plugin /\ i.config = j.config /\ i.scope = j.scope
    BY <1>1 DEF Content
  <2>2. \A cap \in DOMAIN r : SemanticBinding(i.bindings[cap]) = SemanticBinding(j.bindings[cap])
    BY <1>4 DEF SemanticBinding
  <2>3. Dependencies(i) = Dependencies(j)
    BY <1>2, <2>2 DEF Dependencies
  <2> QED BY <2>1, <2>3 DEF Digest
<1>6. ASSUME \A p \in Providers(r) : n1[p] = n2[p], NEW x, IsIdentity(x) PROVE Same(x, i) <=> Same(x, j)
  <2>1. \A cap \in DOMAIN r : i.bindings[cap] = j.bindings[cap]
    <3> SUFFICES ASSUME NEW cap \in DOMAIN r PROVE i.bindings[cap] = j.bindings[cap]
      OBVIOUS
    <3>1. PICK a, b : a = i.bindings[cap] /\ b = j.bindings[cap]
      OBVIOUS
    <3>2. /\ a = [provider |-> a.provider, status |-> a.status, instance |-> a.instance, digest |-> a.digest]
          /\ b = [provider |-> b.provider, status |-> b.status, instance |-> b.instance, digest |-> b.digest]
      BY <1>1, <1>2, <3>1 DEF IsIdentity
    <3>3. a.provider = b.provider /\ a.status = b.status /\ a.digest = b.digest /\ a.instance = b.instance
      BY <1>4, <1>6, <3>1
    <3> QED BY <3>1, <3>2, <3>3
  <2>2. i.bindings = j.bindings
    <3>1. i.bindings = [cap \in DOMAIN r |-> i.bindings[cap]] /\ j.bindings = [cap \in DOMAIN r |-> j.bindings[cap]]
      BY <1>1, <1>2 DEF IsIdentity
    <3> QED BY <2>1, <3>1
  <2> QED BY <1>1, <1>6, <2>2, SameMeans
<1> QED BY <1>5, <1>6

(* The numbers and the digests that a walk w expects of providers, when the*)
(* entries in before are placed, I are the instances at its begin and m is *)
(* the last number.                                                        *)
NumbersIn(w, before, P, I, m) ==
    [p \in P |-> IF p \in before /\ ~w.reused[p] THEN m + p ELSE I[p].no]
DigestsIn(w, before, P, I) ==
    [p \in P |-> LET known == IF p \in before THEN w.decided[p] ELSE I[p].identity
                 IN IF known = NoIdentity THEN NoIdentity ELSE Digest(known)]

(* What it foresees of the entries of an order.                            *)
Foreseen(w, order, selected, entries, I, m) ==
    \A n \in 1 .. Len(order) :
      LET id == order[n]
          before == PlacedBefore(order, n)
          P == Providers(selected[id])
      IN /\ P \subseteq DOMAIN I
         /\ Describes(w.decided[id], id, entries[id], selected[id],
                      NumbersIn(w, before, P, I, m), DigestsIn(w, before, P, I))
         /\ w.reused[id] = /\ I[id].state = "active" /\ I[id].revision = entries[id].revision
                           /\ Same(I[id].identity, w.decided[id])

(* The course of a reconciliation that such a walk foresaw.                *)
Course(w, I, m) ==
    LET order == building.plan.order
    IN /\ m \in Nat /\ m <= mounts /\ building.mounted \subseteq (m + 1) .. mounts
       /\ DOMAIN I = DOMAIN control.desired.entries
       /\ \A p \in DOMAIN I :
            /\ I[p].no \in 0 .. m
            /\ I[p].state = "active" =>
                 /\ IsIdentity(I[p].identity)
                 /\ \A cap \in DOMAIN I[p].identity.bindings :
                      I[p].identity.bindings[cap].instance \in 0 .. m
       /\ \A p \in DOMAIN I \ Joined : InstanceOf(p) = I[p]
       /\ \A p \in Joined :
            /\ Digest(building.decided[p]) = Digest(w.decided[p])
            /\ IF w.reused[p] THEN InstanceOf(p) = I[p] ELSE InstanceOf(p).no \in building.mounted
       /\ Len(building.ordered) + Len(building.left) = Len(order)
       /\ \A n \in 1 .. Len(building.ordered) : building.ordered[n].entry = order[n]

(* At its turn an entry meets what was foreseen (harness.py _materialize). *)
LEMMA TurnAsForeseen ==
    ASSUME IInv, RInv, previews # {}, NEW k \in Nat, Progress(k), NEW id, Turn(id),
           NEW w, NEW I, NEW m, Course(w, I, m),
           Foreseen(w, building.plan.order, building.plan.resolution, control.desired.entries, I, m)
    PROVE  /\ id \in DOMAIN I /\ id \notin Joined /\ InstanceOf(id) = I[id]
           /\ Carried(id) <=> w.reused[id]
           /\ Digest(IdentityAtTurn(id)) = Digest(w.decided[id])
<1>1. PICK order, selected, entries, n :
        /\ order = building.plan.order /\ selected = building.plan.resolution
        /\ entries = control.desired.entries /\ n = k + 1
  OBVIOUS
<1>2. PICK before, P, r, i, d, e :
        /\ before = PlacedBefore(order, n) /\ r = selected[id] /\ P = Providers(r)
        /\ i = IdentityAtTurn(id) /\ d = w.decided[id] /\ e = entries[id]
  OBVIOUS
<1>3. n \in 1 .. Len(order) /\ order[n] = id
  <2>1. PICK left : left = building.left
    OBVIOUS
  <2>2. /\ left \in Seq(Range(left)) /\ left # <<>> /\ id = Head(left)
        /\ k + Len(left) = Len(order) /\ \A j \in 1 .. Len(left) : left[j] = order[k + j]
    BY <1>1, <2>1 DEF Turn, Progress, Remaining
  <2>3. Len(left) \in Nat /\ Len(left) # 0 /\ order \in Seq(DOMAIN selected)
    BY <1>1, <2>2 DEF Progress, Sound
  <2>4. Len(order) \in Nat /\ 1 \in 1 .. Len(left)
    BY <2>3
  <2>5. id = left[1]
    BY <2>2, <2>3
  <2> QED BY <1>1, <2>2, <2>3, <2>4, <2>5
<1>4. before = Done(k) /\ before = Joined /\ id \notin Joined
  <2>1. (k + 1) - 1 = k
    OBVIOUS
  <2>2. before = Done(k)
    BY <1>1, <1>2, <2>1 DEF PlacedBefore, Done
  <2>3. Done(k) \subseteq Joined
    BY DEF Progress
  <2>4. Joined \subseteq Done(k)
    BY DEF Progress, Settled, Joined
  <2>5. id \notin Done(k)
    BY AtTurn
  <2> QED BY <2>2, <2>3, <2>4, <2>5
<1>5. /\ P \subseteq DOMAIN I
      /\ Describes(d, id, e, r, NumbersIn(w, before, P, I, m), DigestsIn(w, before, P, I))
      /\ w.reused[id] = /\ I[id].state = "active" /\ I[id].revision = e.revision
                        /\ Same(I[id].identity, d)
  BY <1>1, <1>2, <1>3 DEF Foreseen
<1>6. id \in DOMAIN I /\ DOMAIN I = DOMAIN entries
  <2>1. HasEntry(control.desired, id)
    <3>1. id \in Range(building.plan.order)
      BY AtTurn
    <3> QED BY <3>1 DEF Progress
  <2> QED BY <1>1, <2>1 DEF Course, HasEntry
<1>7. InstanceOf(id) = I[id]
  BY <1>4, <1>6 DEF Course
<1>8. PICK number, digest :
        /\ number = [p \in P |-> InstanceOf(p).no]
        /\ digest = [p \in P |-> DigestIn(building.decided, p)]
        /\ Describes(i, id, e, r, number, digest)
  <2>1. PICK prefs, number, digest :
          /\ number = [p \in P |-> InstanceOf(p).no]
          /\ digest = [p \in P |-> DigestIn(building.decided, p)]
          /\ i = Identity(id, e, r, prefs, number, digest)
    BY <1>1, <1>2 DEF IdentityAtTurn
  <2> QED BY <2>1, IdentityDescribes
<1>9. ASSUME NEW p \in P PROVE digest[p] = DigestsIn(w, before, P, I)[p]
  <2>1. digest[p] = DigestIn(building.decided, p) /\ p \in DOMAIN I
    BY <1>5, <1>8
  <2>2. DOMAIN building.decided = Joined
    BY DEF RInv, Walked, Turn
  <2>3. CASE p \in before
    <3>1. p \in Joined /\ Digest(building.decided[p]) = Digest(w.decided[p])
      BY <1>4, <2>3 DEF Course
    <3>2. building.decided[p] # NoIdentity
      <4>1. PICK x \in Range(building.ordered) : x.entry = p
        BY <3>1 DEF Joined
      <4> QED BY <4>1 DEF RInv, Walked, Explained, Turn
    <3>3. w.decided[p] # NoIdentity
      <4>1. PICK j \in 1 .. k : order[j] = p
        BY <1>1, <1>4, <2>3 DEF Done
      <4>2. j \in 1 .. Len(order)
        BY <1>1, <1>3, <4>1
      <4>3. IsIdentity(w.decided[p])
        BY <1>1, <4>1, <4>2 DEF Foreseen, Describes
      <4> QED BY <4>3, SameMeans
    <3> QED BY <2>1, <2>2, <2>3, <3>1, <3>2, <3>3 DEF DigestIn, DigestsIn
  <2>4. CASE p \notin before
    <3>1. InstanceOf(p) = I[p] /\ p \notin Joined
      BY <1>4, <2>1, <2>4 DEF Course
    <3> QED BY <2>1, <2>2, <2>4, <3>1 DEF DigestIn, DigestsIn
  <2> QED BY <2>3, <2>4
<1>10. Digest(i) = Digest(d)
  BY <1>2, <1>5, <1>8, <1>9, DescribedAlike
<1>11. CASE \A p \in P \cap before : w.reused[p]
  <2>1. ASSUME NEW p \in P PROVE number[p] = NumbersIn(w, before, P, I, m)[p]
    <3>1. InstanceOf(p) = I[p]
      BY <1>4, <1>5, <1>11 DEF Course
    <3> QED BY <1>8, <1>11, <3>1 DEF NumbersIn
  <2>2. \A x : IsIdentity(x) => (Same(x, i) <=> Same(x, d))
    BY <1>2, <1>5, <1>8, <1>9, <2>1, DescribedAlike
  <2>3. I[id].state = "active" => IsIdentity(I[id].identity)
    BY <1>6 DEF Course
  <2> QED BY <1>1, <1>2, <1>4, <1>5, <1>6, <1>7, <1>10, <2>2, <2>3 DEF Carried, Carries
<1>12. CASE ~ \A p \in P \cap before : w.reused[p]
  <2>1. PICK p \in P \cap before : ~w.reused[p]
    BY <1>12
  <2>2. PICK cap \in DOMAIN r : r[cap].provider = p /\ p # None
    BY <1>2, <2>1 DEF Providers
  <2>3. /\ i.bindings[cap].instance = number[p] /\ IsIdentity(i)
        /\ d.bindings[cap].instance = NumbersIn(w, before, P, I, m)[p] /\ IsIdentity(d)
        /\ DOMAIN i.bindings = DOMAIN r /\ DOMAIN d.bindings = DOMAIN r
    BY <1>5, <1>8, <2>2 DEF Describes
  <2>4. number[p] \notin 0 .. m
    <3>1. InstanceOf(p).no \in (m + 1) .. mounts /\ m \in Nat
      BY <1>4, <2>1 DEF Course
    <3>2. InstanceOf(p).no \notin 0 .. m
      BY <3>1 DEF IInv
    <3> QED BY <1>8, <2>1, <3>2
  <2>5. NumbersIn(w, before, P, I, m)[p] \notin 0 .. m
    <3>1. p \in EntryIds /\ m \in Nat
      BY <1>1, <1>5, <1>6, <2>1 DEF IInv, Control, Desired, Course
    <3>2. m + p \notin 0 .. m
      BY <3>1 DEF EntryIds
    <3> QED BY <2>1, <3>2 DEF NumbersIn
  <2>6. ASSUME I[id].state = "active", Same(I[id].identity, i) \/ Same(I[id].identity, d) PROVE FALSE
    <3>1. I[id].identity.bindings = i.bindings \/ I[id].identity.bindings = d.bindings
      BY <2>3, <2>6, SameMeans
    <3>2. cap \in DOMAIN I[id].identity.bindings /\ I[id].identity.bindings[cap].instance \notin 0 .. m
      BY <2>2, <2>3, <2>4, <2>5, <3>1
    <3> QED BY <1>6, <2>6, <3>2 DEF Course
  <2>7. ~Carried(id)
    BY <1>1, <1>2, <1>7, <2>6 DEF Carried, Carries
  <2>8. ~w.reused[id]
    BY <1>5, <2>6
  <2> QED BY <1>2, <1>4, <1>6, <1>7, <1>10, <2>7, <2>8
<1> QED BY <1>11, <1>12

(* What a preview's result r says, of the walk w over an order, of the     *)
(* instances I and the generation g it was made of: who is carried over,   *)
(* who is mounted, who stays out, and whether there will be a generation.  *)
Foretold(r, w, order, g, I, tree, prefs) ==
    LET acts == r.actions
        forced == \E id \in DOMAIN acts : acts[id].forcing
    IN /\ \A n \in 1 .. Len(order) :
            /\ order[n] \in DOMAIN acts
            /\ IF w.reused[order[n]]
               THEN acts[order[n]].kind = "reuse" /\ ~acts[order[n]].forcing
               ELSE acts[order[n]].kind \in {"add", "replace", "rebuild"} /\ acts[order[n]].forcing
       /\ \A id \in DOMAIN acts :
            (\E n \in 1 .. Len(order) : order[n] = id) \/ acts[id].kind \in {"remove", "reject"}
       /\ forced => r.publishes = TRUE
       /\ (\A n \in 1 .. Len(order) : w.reused[order[n]]) =>
            r.publishes = (forced \/ ~SameComposition(g, [n \in 1 .. Len(order) |-> I[order[n]]], tree, prefs))

(* What a plan makes of an entry of the order (harness.py _plan_action).   *)
LEMMA ActionSays ==
    ASSUME NEW id, NEW entry, NEW change \in {"unchanged", "add", "replace"}, NEW identity,
           NEW reused \in BOOLEAN, reused => change = "unchanged" /\ HasInstance(id),
           NEW act, act = PlanAction(id, entry, change, identity, reused)
    PROVE  IF reused THEN act.kind = "reuse" /\ ~act.forcing
           ELSE act.kind \in {"add", "replace", "rebuild"} /\ act.forcing
<1>1. CASE change = "add"
  BY <1>1 DEF PlanAction, Act
<1>2. CASE change = "replace"
  BY <1>2 DEF PlanAction, Act
<1>3. CASE change = "unchanged" /\ ~HasInstance(id)
  BY <1>3 DEF PlanAction, Act
<1>4. CASE change = "unchanged" /\ HasInstance(id) /\ reused
  BY <1>4 DEF PlanAction, Act
<1>5. CASE change = "unchanged" /\ HasInstance(id) /\ ~reused
  <2>1. act.kind = "rebuild" /\ act.forcing = TRUE
    BY <1>5 DEF PlanAction, Act
  <2> QED BY <1>5, <2>1
<1> QED BY <1>1, <1>2, <1>3, <1>4, <1>5

(* The entries of a preview are as they will be: N.                        *)
AsWillBe(entries, changes, N) ==
    /\ DOMAIN entries = DOMAIN N /\ DOMAIN N \subseteq DOMAIN changes
    /\ \A id \in DOMAIN N :
         /\ entries[id].plugin = N[id].plugin /\ entries[id].config = N[id].config
         /\ entries[id].scope = N[id].scope
         /\ IF changes[id] = "unchanged" THEN entries[id].revision = N[id].revision
            ELSE /\ changes[id] \in {"add", "replace"}
                 /\ InstanceOf(id).state = "active" => InstanceOf(id).revision # N[id].revision
    /\ \A id \in DOMAIN changes \ DOMAIN N : changes[id] = "remove"

(* The providers of a plan are entries.                                    *)
LEMMA ProvidersAreEntries ==
    ASSUME NEW cands, IsFiniteSet(DOMAIN cands), DOMAIN cands \subseteq EntryIds, NEW prefs,
           NEW id \in DOMAIN cands
    PROVE  Providers(PlanOf(cands, prefs).resolution[id]) \subseteq DOMAIN cands
<1>1. PICK pool, r : pool = EligibleOf(cands, prefs) /\ r = PlanOf(cands, prefs).resolution[id]
  OBVIOUS
<1>2. r = [cap \in Needs(cands[id]) |-> ResolveOne(cands, prefs, id, cap, pool)]
  <2>1. r = ResolutionOf(cands, prefs)[id]
    BY <1>1, PlanParts
  <2> QED BY <1>1, <2>1 DEF ResolutionOf
<1>3. pool \subseteq DOMAIN cands
  BY <1>1, EligibleAreEntries
<1>4. ASSUME NEW cap \in DOMAIN r PROVE r[cap].provider = None \/ r[cap].provider \in DOMAIN cands
  <2>1. r[cap] = ResolveOne(cands, prefs, id, cap, pool)
    BY <1>2
  <2> QED BY <1>3, <2>1, ResolvedInPool
<1> QED BY <1>1, <1>4 DEF Providers

(* The walk of a preview foresees what will be.                            *)
LEMMA WalkForesees ==
    ASSUME NEW cands, IsFiniteSet(DOMAIN cands), DOMAIN cands \subseteq EntryIds, NEW prefs,
           NEW plan, plan = PlanOf(cands, prefs), plan.cyclic = {},
           NEW entries, NEW changes, NEW N, DOMAIN N = DOMAIN cands, AsWillBe(entries, changes, N),
           NEW untouched, untouched = {id \in DOMAIN entries : changes[id] = "unchanged"},
           NEW I, I = [p \in DOMAIN N |-> InstanceOf(p)],
           NEW w, w = Walk(plan, entries, untouched, prefs)
    PROVE  /\ Foreseen(w, plan.order, plan.resolution, N, I, mounts)
           /\ plan.order \in Seq(DOMAIN N)
           /\ \A n \in 1 .. Len(plan.order) :
                LET id == plan.order[n]
                IN w.reused[id] \in BOOLEAN /\ (w.reused[id] => changes[id] = "unchanged" /\ HasInstance(id))
<1>1. PICK order, selected, len : order = plan.order /\ selected = plan.resolution /\ len = Len(order)
  OBVIOUS
<1>2. Sound(plan) /\ DOMAIN selected = DOMAIN cands
  BY <1>1, PlanIsSound
<1>3. /\ order \in Seq(DOMAIN N) /\ len \in Nat
      /\ \A i, j \in 1 .. len : order[i] = order[j] => i = j
  <2>1. order \in Seq(DOMAIN N) /\ \A i, j \in 1 .. len : order[i] = order[j] => i = j
    BY <1>1, <1>2 DEF Sound
  <2> QED BY <1>1, <2>1
<1>4. Walking(w, len, plan, entries, untouched, prefs)
  BY <1>1, <1>3, WalkDecides
<1>5. ASSUME NEW n \in 1 .. len
      PROVE  LET id == order[n]
                 before == PlacedBefore(order, n)
                 P == Providers(selected[id])
             IN /\ P \subseteq DOMAIN I
                /\ Describes(w.decided[id], id, N[id], selected[id],
                             NumbersIn(w, before, P, I, mounts), DigestsIn(w, before, P, I))
                /\ w.reused[id] = /\ I[id].state = "active" /\ I[id].revision = N[id].revision
                                  /\ Same(I[id].identity, w.decided[id])
                /\ w.reused[id] => changes[id] = "unchanged" /\ HasInstance(id)
  <2>1. PICK id, before, P, d, r : id = order[n] /\ before = PlacedBefore(order, n)
                                   /\ P = Providers(selected[id]) /\ d = w.decided[id] /\ r = selected[id]
    OBVIOUS
  <2>2. id \in DOMAIN N
    BY <1>1, <1>3, <2>1
  <2>3. P \subseteq DOMAIN I
    <3>1. P \subseteq DOMAIN cands
      BY <1>1, <2>1, <2>2, ProvidersAreEntries
    <3> QED BY <3>1
  <2>4. /\ d = Identity(id, entries[id], r, prefs, Numbers(w, before, P), Digests(w, before, P))
        /\ w.reused[id] = (id \in untouched /\ Carries(id, entries[id], d))
    BY <1>1, <1>4, <2>1 DEF Walking, Decided
  <2>5. Numbers(w, before, P) = NumbersIn(w, before, P, I, mounts)
    BY <2>3 DEF Numbers, NumbersIn
  <2>6. Digests(w, before, P) = DigestsIn(w, before, P, I)
    BY <2>3 DEF Digests, DigestsIn
  <2>7. Describes(d, id, entries[id], r, NumbersIn(w, before, P, I, mounts), DigestsIn(w, before, P, I))
    BY <2>4, <2>5, <2>6, IdentityDescribes
  <2>8. Describes(d, id, N[id], r, NumbersIn(w, before, P, I, mounts), DigestsIn(w, before, P, I))
    BY <2>2, <2>7 DEF Describes, AsWillBe
  <2>9. I[id] = InstanceOf(id)
    BY <2>2
  <2>10. w.reused[id] = /\ I[id].state = "active" /\ I[id].revision = N[id].revision
                        /\ Same(I[id].identity, d)
    <3>1. CASE changes[id] = "unchanged"
      BY <2>2, <2>4, <2>9, <3>1 DEF Carries, AsWillBe
    <3>2. CASE changes[id] # "unchanged"
      BY <2>2, <2>4, <2>9, <3>2 DEF Carries, AsWillBe
    <3> QED BY <3>1, <3>2
  <2>11. w.reused[id] => changes[id] = "unchanged" /\ HasInstance(id)
    BY <2>4 DEF Carries, InstanceOf, NoInstance
  <2> QED BY <2>1, <2>3, <2>8, <2>10, <2>11
<1>6. Foreseen(w, order, selected, N, I, mounts)
  <2>1. ASSUME NEW n \in 1 .. Len(order)
        PROVE  LET id == order[n]
                   before == PlacedBefore(order, n)
                   P == Providers(selected[id])
               IN /\ P \subseteq DOMAIN I
                  /\ Describes(w.decided[id], id, N[id], selected[id],
                               NumbersIn(w, before, P, I, mounts), DigestsIn(w, before, P, I))
                  /\ w.reused[id] = /\ I[id].state = "active" /\ I[id].revision = N[id].revision
                                    /\ Same(I[id].identity, w.decided[id])
    <3>1. n \in 1 .. len
      BY <1>1
    <3> QED BY <1>5, <3>1
  <2> QED BY <2>1 DEF Foreseen
<1>7. ASSUME NEW n \in 1 .. len
      PROVE  w.reused[order[n]] \in BOOLEAN
             /\ (w.reused[order[n]] => changes[order[n]] = "unchanged" /\ HasInstance(order[n]))
  BY <1>5
<1> QED BY <1>1, <1>3, <1>6, <1>7

(* A preview's result foretells what will be (harness.py preview,          *)
(* _build_plan_result).                                                    *)
LEMMA ResultForetells ==
    ASSUME NEW cands, IsFiniteSet(DOMAIN cands), DOMAIN cands \subseteq EntryIds, NEW prefs,
           NEW plan, plan = PlanOf(cands, prefs), plan.cyclic = {},
           NEW entries, NEW changes, NEW N, DOMAIN N = DOMAIN cands, AsWillBe(entries, changes, N),
           NEW I, I = [p \in DOMAIN N |-> InstanceOf(p)],
           NEW tree, tree = TreeOf(control.desired.scopes, cands, plan),
           NEW r, r = PlanResult(cands, entries, changes, prefs)
    PROVE  \E w : /\ Foreseen(w, plan.order, plan.resolution, N, I, mounts)
                  /\ Foretold(r, w, plan.order, current, I, tree, prefs)
<1>1. PICK order, len, untouched, removed :
        /\ order = plan.order /\ len = Len(order)
        /\ untouched = {id \in DOMAIN entries : changes[id] = "unchanged"}
        /\ removed = {id \in DOMAIN changes : changes[id] = "remove"}
  OBVIOUS
<1>2. PICK w : w = Walk(plan, entries, untouched, prefs)
  OBVIOUS
<1>3. /\ Foreseen(w, order, plan.resolution, N, I, mounts)
      /\ order \in Seq(DOMAIN N) /\ len \in Nat
      /\ \A n \in 1 .. len : /\ w.reused[order[n]] \in BOOLEAN
                             /\ w.reused[order[n]] => changes[order[n]] = "unchanged" /\ HasInstance(order[n])
  <2>1. /\ Foreseen(w, order, plan.resolution, N, I, mounts)
        /\ order \in Seq(DOMAIN N)
        /\ \A n \in 1 .. len : /\ w.reused[order[n]] \in BOOLEAN
                               /\ w.reused[order[n]] => changes[order[n]] = "unchanged" /\ HasInstance(order[n])
    <3>1. /\ Foreseen(w, plan.order, plan.resolution, N, I, mounts)
          /\ plan.order \in Seq(DOMAIN N)
          /\ \A n \in 1 .. Len(plan.order) :
               LET id == plan.order[n]
               IN w.reused[id] \in BOOLEAN /\ (w.reused[id] => changes[id] = "unchanged" /\ HasInstance(id))
      BY <1>1, <1>2, WalkForesees
    <3> QED BY <1>1, <3>1
  <2> QED BY <1>1, <2>1
<1>4. PICK acts : acts = [id \in DOMAIN changes |->
        CASE id \in removed -> RemoveAction(id)
          [] id \in Range(order) -> PlanAction(id, entries[id], changes[id], w.decided[id], w.reused[id])
          [] OTHER -> RejectAction(id, plan)]
  OBVIOUS
<1>5. PICK newest : newest = Filtered(order, DOMAIN instances)
  OBVIOUS
<1>6. PICK members : members = [i \in DOMAIN newest |-> Newest(newest[i])]
  OBVIOUS
<1>7. r.actions = acts
      /\ r.publishes = (\/ \E id \in DOMAIN acts : acts[id].forcing
                        \/ ~SameComposition(current, members, tree, prefs))
  BY <1>1, <1>2, <1>4, <1>5, <1>6 DEF PlanResult
<1>8. \A x : x \in Range(order) <=> \E n \in 1 .. len : order[n] = x
  BY <1>1, <1>3, OwnElements
<1>9. ASSUME NEW n \in 1 .. len
      PROVE  /\ order[n] \in DOMAIN acts
             /\ IF w.reused[order[n]]
                THEN acts[order[n]].kind = "reuse" /\ ~acts[order[n]].forcing
                ELSE acts[order[n]].kind \in {"add", "replace", "rebuild"} /\ acts[order[n]].forcing
  <2>1. PICK id : id = order[n]
    OBVIOUS
  <2>2. id \in DOMAIN N /\ id \in DOMAIN changes /\ id \in Range(order)
    <3>1. id \in DOMAIN N
      BY <1>1, <1>3, <2>1
    <3>2. id \in Range(order)
      BY <1>8, <2>1
    <3> QED BY <3>1, <3>2 DEF AsWillBe
  <2>3. changes[id] \in {"unchanged", "add", "replace"} /\ id \notin removed
    BY <1>1, <2>2 DEF AsWillBe
  <2>4. acts[id] = PlanAction(id, entries[id], changes[id], w.decided[id], w.reused[id])
    BY <1>4, <2>2, <2>3
  <2>5. w.reused[id] \in BOOLEAN /\ (w.reused[id] => changes[id] = "unchanged" /\ HasInstance(id))
    BY <1>3, <2>1
  <2>6. IF w.reused[id] THEN acts[id].kind = "reuse" /\ ~acts[id].forcing
        ELSE acts[id].kind \in {"add", "replace", "rebuild"} /\ acts[id].forcing
    BY <2>3, <2>4, <2>5, ActionSays
  <2> QED BY <1>4, <2>1, <2>2, <2>6
<1>10. ASSUME NEW id \in DOMAIN acts
       PROVE  (\E n \in 1 .. len : order[n] = id) \/ acts[id].kind \in {"remove", "reject"}
  <2>1. CASE id \in removed /\ id \notin Range(order)
    <3>1. acts[id] = RemoveAction(id)
      BY <1>4, <1>10, <2>1
    <3> QED BY <3>1 DEF RemoveAction, Act
  <2>2. CASE id \notin removed /\ id \notin Range(order)
    <3>1. acts[id] = RejectAction(id, plan)
      BY <1>4, <1>10, <2>2
    <3> QED BY <3>1 DEF RejectAction, Act
  <2> QED BY <1>8, <2>1, <2>2
<1>11. ASSUME \A n \in 1 .. len : w.reused[order[n]]
       PROVE  members = [n \in 1 .. len |-> I[order[n]]]
  <2>1. \A n \in 1 .. len : order[n] \in DOMAIN instances /\ order[n] \in DOMAIN N
    BY <1>1, <1>3, <1>11 DEF HasInstance
  <2>2. newest = order
    BY <1>1, <1>3, <1>5, <2>1, FilterAll
  <2>3. DOMAIN newest = 1 .. len
    BY <1>1, <1>3, <2>2
  <2>4. \A n \in 1 .. len : Newest(newest[n]) = I[order[n]]
    BY <2>1, <2>2 DEF InstanceOf, HasInstance
  <2> QED BY <1>6, <2>3, <2>4
<1>12. PICK forced : forced = \E id \in DOMAIN acts : acts[id].forcing
  OBVIOUS
<1>13. forced \in BOOLEAN /\ r.publishes = (forced \/ ~SameComposition(current, members, tree, prefs))
  BY <1>7, <1>12
<1>14. (\A n \in 1 .. len : w.reused[order[n]]) =>
         r.publishes = (forced \/ ~SameComposition(current, [n \in 1 .. len |-> I[order[n]]], tree, prefs))
  BY <1>11, <1>13
<1>15. forced => r.publishes = TRUE
  BY <1>13
<1>16. Foretold(r, w, order, current, I, tree, prefs)
  <2>1. r.actions = acts /\ forced = \E id \in DOMAIN r.actions : r.actions[id].forcing
    BY <1>7, <1>12
  <2>2. \A n \in 1 .. Len(order) :
          /\ order[n] \in DOMAIN acts
          /\ IF w.reused[order[n]]
             THEN acts[order[n]].kind = "reuse" /\ ~acts[order[n]].forcing
             ELSE acts[order[n]].kind \in {"add", "replace", "rebuild"} /\ acts[order[n]].forcing
    BY <1>1, <1>9
  <2>3. \A id \in DOMAIN acts :
          (\E n \in 1 .. Len(order) : order[n] = id) \/ acts[id].kind \in {"remove", "reject"}
    BY <1>1, <1>10
  <2>4. (\A n \in 1 .. Len(order) : w.reused[order[n]]) =>
          r.publishes = (forced \/ ~SameComposition(current, [n \in 1 .. Len(order) |-> I[order[n]]], tree, prefs))
    BY <1>1, <1>14
  <2> QED BY <1>15, <2>1, <2>2, <2>3, <2>4 DEF Foretold
<1> QED BY <1>1, <1>3, <1>16

(***************************************************************************)
(* What an application of a configuration makes                            *)
(***************************************************************************)

(* The newest instance of an entry is live.                                *)
LEMMA InstanceIsLive ==
    ASSUME IInv, NEW id, HasInstance(id)
    PROVE  /\ InstanceOf(id) \in LiveOf(instances) /\ InstanceOf(id).entry = id
           /\ InstanceOf(id).no \in 1 .. mounts
<1>1. PICK top, q : top = mounts /\ q = instances[id]
  OBVIOUS
<1>2. AllListed(instances, top)
  BY <1>1 DEF IInv
<1>3. Listed(q, id, top)
  BY <1>1, <1>2 DEF AllListed, HasInstance
<1>4. /\ q \in Seq(Range(q)) /\ q # <<>>
      /\ \A n \in 1 .. Len(q) : q[n].entry = id /\ q[n].no \in 1 .. top
  BY <1>3 DEF Listed
<1>5. Len(q) \in 1 .. Len(q) /\ InstanceOf(id) = q[Len(q)]
  BY <1>1, <1>4 DEF InstanceOf, Newest, Last
<1>6. InstanceOf(id) \in Range(q)
  BY <1>4, <1>5, OwnElements
<1> QED BY <1>1, <1>4, <1>5, <1>6 DEF LiveOf, HasInstance

(* One change makes or unmakes its entry and leaves the others.            *)
LEMMA ChangeMakes ==
    ASSUME NEW d, Desired(d), NEW change, NEW e, e = Apply(d, change)
    PROVE  /\ e.scopes = d.scopes
           /\ \A x : x # change.id =>
                /\ x \in DOMAIN e.entries <=> x \in DOMAIN d.entries
                /\ x \in DOMAIN d.entries => e.entries[x] = d.entries[x]
           /\ IF change.to = Gone THEN change.id \notin DOMAIN e.entries
              ELSE /\ change.id \in DOMAIN e.entries
                   /\ e.entries[change.id] =
                        [plugin |-> change.to.plugin, config |-> change.to.config,
                         scope |-> change.to.scope, revision |-> RevisionOf(d, change.id) + 1]
<1>1. CASE change.to = Gone
  <2>1. e = Uninstall(d, change.id)
    BY <1>1 DEF Apply
  <2>2. e = [scopes |-> d.scopes, entries |-> Drop(d.entries, {change.id}), revisions |-> d.revisions,
             dirty |-> e.dirty]
    BY <2>1 DEF Uninstall, UninstallAll, Desired
  <2>3. /\ DOMAIN e.entries = DOMAIN d.entries \ {change.id}
        /\ \A x \in DOMAIN e.entries : e.entries[x] = d.entries[x]
    BY <2>2 DEF Drop
  <2> QED BY <1>1, <2>2, <2>3
<1>2. CASE change.to # Gone
  <2>1. PICK id, entry, r :
          /\ id = change.id /\ r = RevisionOf(d, id) + 1
          /\ entry = [plugin |-> change.to.plugin, config |-> change.to.config,
                      scope |-> change.to.scope, revision |-> r]
    OBVIOUS
  <2>2. e = InstallEntry(d, id, change.to.plugin, change.to.config, change.to.scope)
    BY <1>2, <2>1 DEF Apply
  <2>3. e = [scopes |-> d.scopes, entries |-> Put(d.entries, id, entry),
             revisions |-> Put(d.revisions, id, r), dirty |-> TRUE]
    BY <2>1, <2>2 DEF InstallEntry, Desired
  <2>4. /\ DOMAIN e.entries = DOMAIN d.entries \cup {id} /\ e.entries[id] = entry
        /\ \A x \in DOMAIN d.entries \ {id} : e.entries[x] = d.entries[x]
    BY <2>3 DEF Put
  <2> QED BY <1>2, <2>1, <2>3, <2>4
<1> QED BY <1>1, <1>2

(* What the changes of the ids in S made of d so far; want[id] is what the *)
(* change of id asks for.                                                  *)
Made(d, e, S, want) ==
    /\ Later(d, e) /\ e.scopes = d.scopes
    /\ \A x : x \notin S => /\ x \in DOMAIN e.entries <=> x \in DOMAIN d.entries
                            /\ x \in DOMAIN d.entries => e.entries[x] = d.entries[x]
    /\ \A x \in S :
         IF want[x] = Gone THEN x \notin DOMAIN e.entries
         ELSE /\ x \in DOMAIN e.entries
              /\ e.entries[x].plugin = want[x].plugin /\ e.entries[x].config = want[x].config
              /\ e.entries[x].scope = want[x].scope /\ RevisionOf(d, x) < e.entries[x].revision

(* One change more.                                                        *)
LEMMA MadeOn ==
    ASSUME NEW d, Desired(d), NEW e, NEW S, NEW want, Made(d, e, S, want),
           NEW change, change.id \in EntryIds, change.id \notin S, change.to = want[change.id],
           NEW f, f = Apply(e, change)
    PROVE  Made(d, f, S \cup {change.id}, want)
<1>1. PICK id : id = change.id
  OBVIOUS
<1>2. Desired(e) /\ Later(d, e)
  BY DEF Made, Later
<1>3. Later(e, f)
  BY <1>2, ChangeKeepsDesired
<1>4. Later(d, f)
  BY <1>2, <1>3, LaterOn
<1>5. /\ f.scopes = e.scopes
      /\ \A x : x # id => /\ x \in DOMAIN f.entries <=> x \in DOMAIN e.entries
                          /\ x \in DOMAIN e.entries => f.entries[x] = e.entries[x]
      /\ IF want[id] = Gone THEN id \notin DOMAIN f.entries
         ELSE /\ id \in DOMAIN f.entries
              /\ f.entries[id] = [plugin |-> want[id].plugin, config |-> want[id].config,
                                  scope |-> want[id].scope, revision |-> RevisionOf(e, id) + 1]
  BY <1>1, <1>2, ChangeMakes
<1>6. RevisionOf(d, id) < RevisionOf(e, id) + 1
  <2>1. RevisionOf(d, id) \in Nat /\ RevisionOf(e, id) \in Nat /\ RevisionOf(d, id) <= RevisionOf(e, id)
    BY <1>2 DEF Desired, Later, Follows
  <2> QED BY <2>1
<1>7. ASSUME NEW x, x \notin S \cup {id}
      PROVE  /\ x \in DOMAIN f.entries <=> x \in DOMAIN d.entries
             /\ x \in DOMAIN d.entries => f.entries[x] = d.entries[x]
  BY <1>5, <1>7 DEF Made
<1>8. ASSUME NEW x \in S \cup {id}
      PROVE  IF want[x] = Gone THEN x \notin DOMAIN f.entries
             ELSE /\ x \in DOMAIN f.entries
                  /\ f.entries[x].plugin = want[x].plugin /\ f.entries[x].config = want[x].config
                  /\ f.entries[x].scope = want[x].scope /\ RevisionOf(d, x) < f.entries[x].revision
  <2>1. CASE x = id
    BY <1>5, <1>6, <2>1
  <2>2. CASE x # id
    <3>1. x \in S
      BY <2>2
    <3> QED BY <1>5, <2>2, <3>1 DEF Made
  <2> QED BY <2>1, <2>2
<1>9. f.scopes = d.scopes
  BY <1>5 DEF Made
<1> QED BY <1>1, <1>4, <1>7, <1>8, <1>9 DEF Made

(* A transaction none of whose changes fails makes all of them.            *)
LEMMA TransactionMakes ==
    ASSUME NEW d, Desired(d), NEW changes, Len(changes) \in Nat,
           DOMAIN changes = 1 .. Len(changes),
           \A i \in DOMAIN changes : changes[i].id \in EntryIds /\ ~Fails(changes[i]),
           \A i, j \in DOMAIN changes : changes[i].id = changes[j].id => i = j,
           NEW want, \A i \in DOMAIN changes : changes[i].to = want[changes[i].id]
    PROVE  Made(d, Transaction(d, changes).done, {changes[i].id : i \in DOMAIN changes}, want)
<1> DEFINE bad == {i \in DOMAIN changes : Fails(changes[i])}
           last == IF bad = {} THEN Len(changes) ELSE Min(bad) - 1
           forth == CHOOSE f : IsForth(f, d, changes, last)
<1>1. Transaction(d, changes).done = forth[last]
  BY DEF Transaction, IsForth, ForthStep
<1>2. last = Len(changes)
  OBVIOUS
<1> HIDE DEF bad, last
<1>3. last \in Nat /\ DOMAIN changes = 1 .. last
  BY <1>2
<1>4. IsForth(forth, d, changes, last)
  <2>1. \E f : IsForth(f, d, changes, last)
    BY <1>3, ForthExists
  <2> QED BY <2>1
<1> HIDE DEF forth
<1>5. \A i \in 0 .. last : forth[i] = ForthStep(forth, d, changes, i)
  BY <1>4 DEF IsForth
<1> DEFINE Named(i) == {changes[j].id : j \in 1 .. i}
           T == {i \in 0 .. last : Made(d, forth[i], Named(i), want)}
<1>6. 0 \in T
  <2>1. 0 \in 0 .. last
    BY <1>3
  <2>2. forth[0] = d /\ Named(0) = {}
    BY <1>5, <2>1 DEF ForthStep
  <2>3. Made(d, d, {}, want)
    BY LaterOn DEF Made
  <2> HIDE DEF Named
  <2> QED BY <2>1, <2>2, <2>3
<1>7. ASSUME NEW i \in 0 .. (last - 1), i \in T PROVE i + 1 \in T
  <2>1. i + 1 \in 0 .. last /\ i + 1 \in 1 .. last /\ i + 1 # 0 /\ (i + 1) - 1 = i
    BY <1>3
  <2>2. forth[i + 1] = Apply(forth[i], changes[i + 1])
    BY <1>5, <2>1 DEF ForthStep
  <2>3. PICK e, change, S : e = forth[i] /\ change = changes[i + 1] /\ S = Named(i)
    OBVIOUS
  <2>4. change.id \in EntryIds /\ change.to = want[change.id]
    BY <1>3, <2>1, <2>3
  <2>5. change.id \notin S
    <3> SUFFICES ASSUME NEW j \in 1 .. i, changes[j].id = changes[i + 1].id PROVE FALSE
      BY <2>3
    <3>1. j \in DOMAIN changes /\ i + 1 \in DOMAIN changes /\ j # i + 1
      BY <1>3, <2>1
    <3> QED BY <3>1
  <2>6. Named(i + 1) = S \cup {change.id}
    <3>1. 1 .. (i + 1) = 1 .. i \cup {i + 1}
      BY <2>1
    <3> QED BY <2>3, <3>1
  <2>7. Made(d, e, S, want)
    BY <1>7, <2>3
  <2> HIDE DEF Named
  <2>8. Made(d, Apply(e, change), S \cup {change.id}, want)
    BY <2>4, <2>5, <2>7, MadeOn
  <2> QED BY <2>1, <2>2, <2>3, <2>6, <2>8
<1>8. 0 .. last \subseteq T
  <2> HIDE DEF T
  <2> QED BY <1>3, <1>6, <1>7, CountUp
<1>9. Named(last) = {changes[i].id : i \in DOMAIN changes}
  BY <1>3
<1>10. Made(d, forth[last], Named(last), want)
  <2>1. last \in 0 .. last
    BY <1>3
  <2> HIDE DEF Named
  <2> QED BY <1>8, <2>1
<1> QED BY <1>1, <1>9, <1>10

(* What a configuration makes of the desired state (harness.py             *)
(* apply_config): its entries, those it leaves as they were and those it   *)
(* adds or replaces, of a new revision.                                    *)
LEMMA BatchMakes ==
    ASSUME NEW d, Desired(d), NEW config \in Configs, NEW e, e = Batch(config, d).done
    PROVE  /\ DOMAIN e.entries = DOMAIN config.entries /\ e.scopes = d.scopes
           /\ \A id \in DOMAIN config.entries :
                IF ActionFor(config, d, id) = "unchanged"
                THEN id \in DOMAIN d.entries /\ e.entries[id] = d.entries[id]
                ELSE /\ e.entries[id].plugin = Catalog[config.entries[id].plugin]
                     /\ e.entries[id].config = config.entries[id].config
                     /\ e.entries[id].scope = Root
                     /\ RevisionOf(d, id) < e.entries[id].revision
<1>1. PICK S : S = Changes(config, d)
  OBVIOUS
<1>2. S \subseteq EntryIds /\ IsFiniteSet(S)
  <2>1. S \in SUBSET (DOMAIN config.entries \cup DOMAIN d.entries)
    BY <1>1 DEF Changes
  <2>2. IsFiniteSet(DOMAIN config.entries \cup DOMAIN d.entries)
    BY IdsAssumption, FS_Union DEF Desired
  <2>3. DOMAIN config.entries \cup DOMAIN d.entries \subseteq EntryIds
    BY IdsAssumption DEF Desired
  <2> QED BY <2>1, <2>2, <2>3, FS_Subset
<1>3. PICK ids : ids = SetToSeq(S)
  OBVIOUS
<1>4. PICK n \in Nat : /\ ids \in [1 .. n -> S]
                       /\ \A i, j \in 1 .. n : ids[i] = ids[j] => i = j
                       /\ S = {ids[i] : i \in 1 .. n}
  <2>1. PICK n \in Nat : n = Cardinality(S)
    BY <1>2, FS_CardinalityType
  <2>2. ExistsBijection(1 .. n, S)
    BY <1>2, <2>1, FS_CardinalityType
  <2>3. \E f \in [1 .. n -> S] : IsInjective(f)
    BY <2>2 DEF ExistsBijection, Bijection, Injection
  <2>4. ids = CHOOSE f \in [1 .. n -> S] : IsInjective(f)
    BY <1>3, <2>1 DEF SetToSeq
  <2>5. ids \in [1 .. n -> S] /\ IsInjective(ids)
    BY <2>3, <2>4
  <2>6. \A i, j \in 1 .. n : ids[i] = ids[j] => i = j
    BY <2>5 DEF IsInjective
  <2>7. S = {ids[i] : i \in 1 .. n}
    <3>1. IsFiniteSet(1 .. n) /\ Cardinality(1 .. n) = n
      BY FS_Interval
    <3>2. ids \in Surjection(1 .. n, S)
      BY <1>2, <2>1, <2>5, <2>6, <3>1, FS_Injection DEF Injection
    <3> QED BY <2>5, <3>2 DEF Surjection
  <2> QED BY <2>5, <2>6, <2>7
<1>5. PICK changes : changes = [i \in DOMAIN ids |-> ChangeOf(config, d, ids[i])]
  OBVIOUS
<1>6. Batch(config, d) = Transaction(d, changes)
  BY <1>1, <1>3, <1>5 DEF Batch
<1>7. DOMAIN changes = 1 .. n /\ Len(changes) = n
  BY <1>4, <1>5
<1>8. PICK want : want = [id \in S |-> ChangeOf(config, d, id).to]
  OBVIOUS
<1>9. \A i \in 1 .. n : changes[i].id = ids[i] /\ changes[i].to = want[ids[i]] /\ ids[i] \in S
  BY <1>4, <1>5, <1>8 DEF ChangeOf
<1>10. ASSUME NEW id \in S
       PROVE  IF id \in DOMAIN config.entries
              THEN want[id] = [plugin |-> Catalog[config.entries[id].plugin],
                               config |-> config.entries[id].config, scope |-> Root]
              ELSE want[id] = Gone
  <2>1. ActionFor(config, d, id) = "remove" <=> id \notin DOMAIN config.entries
    <3>1. CASE id \notin DOMAIN config.entries
      BY <3>1 DEF ActionFor
    <3>2. CASE id \in DOMAIN config.entries /\ ~HasEntry(d, id)
      BY <3>2 DEF ActionFor
    <3>3. CASE id \in DOMAIN config.entries /\ HasEntry(d, id)
      BY <3>3 DEF ActionFor
    <3> QED BY <3>1, <3>2, <3>3
  <2> QED BY <1>8, <2>1 DEF ChangeOf
<1>11. \A a, b, c : [plugin |-> a, config |-> b, scope |-> c] # Gone
  <2> SUFFICES ASSUME NEW a, NEW b, NEW c, [plugin |-> a, config |-> b, scope |-> c] = Gone PROVE FALSE
    OBVIOUS
  <2>1. "config" \in DOMAIN [plugin |-> a, config |-> b, scope |-> c]
    OBVIOUS
  <2>2. "config" \notin DOMAIN Gone
    BY DEF Gone
  <2> QED BY <2>1, <2>2
<1>12. ASSUME NEW i \in 1 .. n PROVE changes[i].id \in EntryIds /\ ~Fails(changes[i])
  <2>1. PICK id : id = ids[i]
    OBVIOUS
  <2>2. id \in S /\ changes[i].id = id /\ changes[i].to = want[id]
    BY <1>9, <2>1
  <2>3. CASE id \in DOMAIN config.entries
    <3>1. config.entries[id].config # Bad
      BY <2>3, ConfigsAssumption
    <3>2. want[id].config = config.entries[id].config
      <4>1. want[id] = [plugin |-> Catalog[config.entries[id].plugin],
                        config |-> config.entries[id].config, scope |-> Root]
        BY <1>10, <2>2, <2>3
      <4> QED BY <4>1
    <3>3. want[id].config # Bad
      BY <3>1, <3>2
    <3> QED BY <1>2, <2>2, <3>3 DEF Fails
  <2>4. CASE id \notin DOMAIN config.entries
    BY <1>2, <1>10, <2>2, <2>4 DEF Fails
  <2> QED BY <2>3, <2>4
<1>13. Made(d, e, S, want)
  <2>1. \A i, j \in DOMAIN changes : changes[i].id = changes[j].id => i = j
    BY <1>4, <1>7, <1>9
  <2>2. S = {changes[i].id : i \in DOMAIN changes}
    BY <1>4, <1>7, <1>9
  <2>3. \A i \in DOMAIN changes : changes[i].to = want[changes[i].id]
    BY <1>7, <1>9
  <2>4. \A i \in DOMAIN changes : changes[i].id \in EntryIds /\ ~Fails(changes[i])
    BY <1>7, <1>12
  <2>5. Len(changes) \in Nat /\ DOMAIN changes = 1 .. Len(changes)
    BY <1>7
  <2>6. Made(d, Transaction(d, changes).done, {changes[i].id : i \in DOMAIN changes}, want)
    BY <2>1, <2>3, <2>4, <2>5, TransactionMakes
  <2>7. e = Transaction(d, changes).done
    BY <1>6
  <2> QED BY <2>2, <2>6, <2>7
<1>14. ASSUME NEW id PROVE id \in DOMAIN e.entries <=> id \in DOMAIN config.entries
  <2>1. CASE id \in S
    <3>1. IF want[id] = Gone THEN id \notin DOMAIN e.entries ELSE id \in DOMAIN e.entries
      BY <1>13, <2>1 DEF Made
    <3>2. want[id] = Gone <=> id \notin DOMAIN config.entries
      BY <1>10, <1>11, <2>1
    <3> QED BY <3>1, <3>2
  <2>2. CASE id \notin S
    <3>1. id \in DOMAIN e.entries <=> id \in DOMAIN d.entries
      BY <1>13, <2>2 DEF Made
    <3>2. id \in DOMAIN config.entries \cup DOMAIN d.entries => ActionFor(config, d, id) = "unchanged"
      BY <1>1, <2>2 DEF Changes
    <3>3. ActionFor(config, d, id) = "unchanged" => id \in DOMAIN config.entries /\ id \in DOMAIN d.entries
      BY DEF ActionFor, HasEntry
    <3> QED BY <3>1, <3>2, <3>3
  <2> QED BY <2>1, <2>2
<1>15. ASSUME NEW id \in DOMAIN config.entries
       PROVE  IF ActionFor(config, d, id) = "unchanged"
              THEN id \in DOMAIN d.entries /\ e.entries[id] = d.entries[id]
              ELSE /\ e.entries[id].plugin = Catalog[config.entries[id].plugin]
                   /\ e.entries[id].config = config.entries[id].config
                   /\ e.entries[id].scope = Root
                   /\ RevisionOf(d, id) < e.entries[id].revision
  <2>1. CASE ActionFor(config, d, id) = "unchanged"
    <3>1. id \notin S /\ id \in DOMAIN d.entries
      BY <1>1, <2>1 DEF Changes, ActionFor, HasEntry
    <3> QED BY <1>13, <2>1, <3>1 DEF Made
  <2>2. CASE ActionFor(config, d, id) # "unchanged"
    <3>1. id \in S
      BY <1>1, <2>2 DEF Changes
    <3>2. want[id] = [plugin |-> Catalog[config.entries[id].plugin],
                      config |-> config.entries[id].config, scope |-> Root]
      BY <1>10, <3>1
    <3> QED BY <1>11, <1>13, <2>2, <3>1, <3>2 DEF Made
  <2> QED BY <2>1, <2>2
<1>16. DOMAIN e.entries = DOMAIN config.entries /\ e.scopes = d.scopes
  BY <1>13, <1>14 DEF Made
<1> QED BY <1>15, <1>16

(***************************************************************************)
(* What a preview is faithful to                                           *)
(***************************************************************************)

(* A preview's result r is faithful to entries of these candidates, in     *)
(* these scopes and under these preferences, when a walk that foresees     *)
(* what will be of them tells it; g is the generation there is, I are the  *)
(* entries' instances, and m is the last number.                           *)
FaithfulTo(r, cands, entries, scopes, prefs, g, I, m) ==
    LET order == OrderIn(cands, prefs)
        selected == ResolutionOf(cands, prefs)
        tree == [scopes |-> scopes, entries |-> [id \in DOMAIN cands |-> cands[id].scope],
                 selections |-> selected]
    IN OnLoop(DeclaredEdges(cands)) = {} =>
         \E w : /\ Foreseen(w, order, selected, entries, I, m)
                /\ Foretold(r, w, order, g, I, tree, prefs)

(* A preview of entries as they will be is (harness.py preview).           *)
LEMMA PreviewIsFaithful ==
    ASSUME NEW cands, IsFiniteSet(DOMAIN cands), DOMAIN cands \subseteq EntryIds, NEW prefs,
           NEW entries, NEW changes, NEW N, DOMAIN N = DOMAIN cands, AsWillBe(entries, changes, N),
           NEW I, I = [p \in DOMAIN N |-> InstanceOf(p)],
           NEW r, r = PlanResult(cands, entries, changes, prefs)
    PROVE  FaithfulTo(r, cands, N, control.desired.scopes, prefs, current, I, mounts)
<1>1. PICK order, selected, tree :
        /\ order = OrderIn(cands, prefs) /\ selected = ResolutionOf(cands, prefs)
        /\ tree = [scopes |-> control.desired.scopes,
                   entries |-> [id \in DOMAIN cands |-> cands[id].scope], selections |-> selected]
  OBVIOUS
<1>2. PICK plan : plan = PlanOf(cands, prefs)
  OBVIOUS
<1>3. /\ plan.order = order /\ plan.resolution = selected
      /\ plan.cyclic = OnLoop(DeclaredEdges(cands))
  BY <1>1, <1>2, PlanParts
<1>4. tree = TreeOf(control.desired.scopes, cands, plan)
  BY <1>1, <1>3 DEF TreeOf
<1>5. ASSUME plan.cyclic = {}
      PROVE  \E w : /\ Foreseen(w, order, selected, N, I, mounts)
                    /\ Foretold(r, w, order, current, I, tree, prefs)
  BY <1>2, <1>3, <1>4, <1>5, ResultForetells
<1> QED BY <1>1, <1>3, <1>5 DEF FaithfulTo

(* The newest instance of every desired entry.                             *)
NewestNow == [p \in DOMAIN control.desired.entries |-> InstanceOf(p)]

(* A result that is faithful to the desired state as it is.                *)
Faithful(r) ==
    FaithfulTo(r, Candidates(control.desired.entries), control.desired.entries,
               control.desired.scopes, EffectivePreferences(control), current, NewestNow, mounts)

(* It stays so while the state does.                                       *)
LEMMA FaithfulStays ==
    ASSUME UNCHANGED <<control, instances, current, mounts>>, NEW r, Faithful(r)
    PROVE  Faithful(r)'
<1>1. \A x : InstanceOf(x)' = InstanceOf(x)
  BY DEF InstanceOf, HasInstance, Newest
<1>2. NewestNow' = NewestNow
  BY <1>1 DEF NewestNow
<1>3. PICK entries : entries = control.desired.entries
  OBVIOUS
<1>4. \A x, e : CandidateOf(x, e)' = CandidateOf(x, e)
  BY <1>1 DEF CandidateOf
<1>5. Candidates(entries)' = Candidates(entries)
  BY <1>4 DEF Candidates
<1> QED BY <1>2, <1>3, <1>5 DEF Faithful

(* The preview of the next reconciliation is faithful (harness.py          *)
(* preview).                                                               *)
LEMMA NextIsFaithful == ASSUME IInv PROVE Faithful(PreviewNow(control))
<1>1. PICK entries, cands, prefs, changes :
        /\ entries = control.desired.entries /\ cands = Candidates(entries)
        /\ prefs = EffectivePreferences(control)
        /\ changes = [id \in DOMAIN entries |-> "unchanged"]
  OBVIOUS
<1>2. PICK r : r = PlanResult(cands, entries, changes, prefs)
  OBVIOUS
<1>3. PreviewNow(control) = r
  BY <1>1, <1>2 DEF PreviewNow
<1>4. IsFiniteSet(DOMAIN entries) /\ DOMAIN entries \subseteq EntryIds
  BY <1>1 DEF IInv, Control, Desired
<1>5. DOMAIN cands = DOMAIN entries
  BY <1>1 DEF Candidates
<1>6. AsWillBe(entries, changes, entries)
  BY <1>1 DEF AsWillBe
<1>7. PICK I : I = [p \in DOMAIN entries |-> InstanceOf(p)]
  OBVIOUS
<1>8. FaithfulTo(r, cands, entries, control.desired.scopes, prefs, current, I, mounts)
  BY <1>2, <1>4, <1>5, <1>6, <1>7, PreviewIsFaithful
<1>9. I = NewestNow
  BY <1>1, <1>7 DEF NewestNow
<1> QED BY <1>1, <1>3, <1>8, <1>9 DEF Faithful

(* What an application of a configuration leaves.                          *)
LEMMA CommitMakes ==
    ASSUME NEW c, Control(c), NEW config \in Configs, NEW e, e = Commit(c, config)
    PROVE  /\ EffectivePreferences(e) = c.programPrefs @@ ConfigPreferences(config)
           /\ e.desired.entries = Batch(config, c.desired).done.entries
           /\ e.desired.scopes = Batch(config, c.desired).done.scopes
<1>1. PICK d : d = Batch(config, c.desired).done
  OBVIOUS
<1>2. PICK b : b = (d.dirty \/ ConfigPreferences(config) # c.configPrefs)
  OBVIOUS
<1>3. PICK f : f = [d EXCEPT !.dirty = b]
  OBVIOUS
<1>4. e = [desired |-> f, configPrefs |-> ConfigPreferences(config),
           programPrefs |-> c.programPrefs, config |-> config, provisions |-> c.provisions]
  BY <1>1, <1>2, <1>3 DEF Commit, Control
<1>5. Desired(d)
  BY <1>1, BatchKeepsDesired DEF Control, Later
<1>6. f.entries = d.entries /\ f.scopes = d.scopes
  BY <1>3, <1>5 DEF Desired
<1> QED BY <1>1, <1>4, <1>6 DEF EffectivePreferences

(* The preview of a configuration is faithful to what its application      *)
(* leaves, but for entries installed otherwise than it would (harness.py   *)
(* preview, _preview_entry, apply_config).                                 *)
LEMMA ConfigIsFaithful ==
    ASSUME IInv, Versions(instances, control.desired), NEW config \in Configs,
           NEW next, next = Commit(control, config), NEW N, N = next.desired.entries,
           \A id \in DOMAIN config.entries :
             HasEntry(next.desired, id) =>
               N[id].scope = Root /\ N[id].plugin = Catalog[config.entries[id].plugin],
           NEW I, I = [p \in DOMAIN N |-> InstanceOf(p)]
    PROVE  FaithfulTo(PreviewConfig(config), Candidates(N), N, next.desired.scopes,
                      EffectivePreferences(next), current, I, mounts)
<1>1. PICK d, changes, entries, cands, prefs :
        /\ d = control.desired
        /\ changes = [id \in DOMAIN config.entries \cup DOMAIN d.entries |-> ActionFor(config, d, id)]
        /\ entries = [id \in DOMAIN config.entries |-> PreviewEntry(config, id)]
        /\ cands = PreviewCandidates(entries, changes)
        /\ prefs = control.programPrefs @@ ConfigPreferences(config)
  OBVIOUS
<1>2. PICK r : r = PlanResult(cands, entries, changes, prefs)
  OBVIOUS
<1>3. PreviewConfig(config) = r
  BY <1>1, <1>2 DEF PreviewConfig
<1>4. Desired(d) /\ Control(control)
  BY <1>1 DEF IInv, Control
<1>5. EffectivePreferences(next) = prefs /\ next.desired.scopes = control.desired.scopes
  BY <1>1, <1>4, CommitMakes, BatchMakes
<1>6. /\ DOMAIN N = DOMAIN config.entries
      /\ \A id \in DOMAIN config.entries :
           IF ActionFor(config, d, id) = "unchanged"
           THEN id \in DOMAIN d.entries /\ N[id] = d.entries[id]
           ELSE /\ N[id].plugin = Catalog[config.entries[id].plugin]
                /\ N[id].config = config.entries[id].config
                /\ N[id].scope = Root
                /\ RevisionOf(d, id) < N[id].revision
  <2>1. PICK e : e = Batch(config, d).done
    OBVIOUS
  <2>2. N = e.entries
    BY <1>1, <1>4, <2>1, CommitMakes
  <2> QED BY <1>4, <2>1, <2>2, BatchMakes
<1>7. ASSUME NEW id \in DOMAIN N PROVE N[id].scope = Root /\ N[id].plugin = Catalog[config.entries[id].plugin]
  BY <1>6 DEF HasEntry
<1>8. ASSUME NEW id \in DOMAIN N
      PROVE  /\ changes[id] = ActionFor(config, d, id)
             /\ entries[id].plugin = N[id].plugin /\ entries[id].config = N[id].config
             /\ entries[id].scope = N[id].scope
             /\ IF changes[id] = "unchanged"
                THEN id \in DOMAIN d.entries /\ N[id] = d.entries[id] /\ entries[id].revision = N[id].revision
                ELSE changes[id] \in {"add", "replace"} /\ RevisionOf(d, id) < N[id].revision
  <2>1. id \in DOMAIN config.entries
    BY <1>6
  <2>2. changes[id] = ActionFor(config, d, id) /\ entries[id] = PreviewEntry(config, id)
    BY <1>1, <2>1
  <2>3. /\ entries[id].plugin = Catalog[config.entries[id].plugin]
        /\ entries[id].config = config.entries[id].config /\ entries[id].scope = Root
        /\ changes[id] = "unchanged" /\ HasEntry(d, id) => entries[id].revision = d.entries[id].revision
    <3>1. PICK a, v : a = changes[id] /\ v = IF HasEntry(d, id) THEN d.entries[id].revision ELSE 0
      OBVIOUS
    <3>2. PICK p, g : p = Catalog[config.entries[id].plugin] /\ g = config.entries[id].config
      OBVIOUS
    <3>3. entries[id] = [plugin |-> p, config |-> g, scope |-> Root,
                         revision |-> IF a = "unchanged" THEN v ELSE v + 1]
      BY <1>1, <2>2, <3>1, <3>2 DEF PreviewEntry
    <3>4. /\ entries[id].plugin = p /\ entries[id].config = g /\ entries[id].scope = Root
          /\ a = "unchanged" => entries[id].revision = v
      BY <3>3
    <3> QED BY <3>1, <3>2, <3>4
  <2>4. CASE changes[id] = "unchanged"
    <3>1. HasEntry(d, id) /\ config.entries[id].config = d.entries[id].config
      BY <2>1, <2>2, <2>4 DEF ActionFor
    <3>2. N[id] = d.entries[id]
      BY <1>6, <2>1, <2>2, <2>4
    <3> QED BY <1>7, <2>2, <2>3, <2>4, <3>1, <3>2 DEF HasEntry
  <2>5. CASE changes[id] # "unchanged"
    <3>1. changes[id] \in {"add", "replace"}
      BY <2>1, <2>2, <2>5 DEF ActionFor
    <3>2. N[id].config = config.entries[id].config /\ RevisionOf(d, id) < N[id].revision
      BY <1>6, <2>1, <2>2, <2>5
    <3> QED BY <1>7, <2>2, <2>3, <2>5, <3>1, <3>2
  <2> QED BY <2>4, <2>5
<1>9. ASSUME NEW id \in DOMAIN N, changes[id] # "unchanged", InstanceOf(id).state = "active"
      PROVE  InstanceOf(id).revision # N[id].revision
  <2>1. InstanceOf(id) \in LiveOf(instances) /\ InstanceOf(id).entry = id
    <3>1. HasInstance(id)
      BY <1>9 DEF InstanceOf, NoInstance
    <3> QED BY <3>1, InstanceIsLive
  <2>2. InstanceOf(id).revision \in Nat /\ InstanceOf(id).revision <= RevisionOf(d, id)
    BY <1>1, <2>1 DEF Versions
  <2>3. RevisionOf(d, id) \in Nat /\ RevisionOf(d, id) < N[id].revision
    BY <1>4, <1>8, <1>9 DEF Desired
  <2> QED BY <2>2, <2>3
<1>10. DOMAIN entries = DOMAIN N /\ DOMAIN N \subseteq DOMAIN changes
  BY <1>1, <1>6
<1>11. AsWillBe(entries, changes, N)
  <2>1. ASSUME NEW id \in DOMAIN changes \ DOMAIN N PROVE changes[id] = "remove"
    <3>1. id \notin DOMAIN config.entries /\ changes[id] = ActionFor(config, d, id)
      BY <1>1, <1>6, <2>1
    <3> QED BY <3>1 DEF ActionFor
  <2> QED BY <1>8, <1>9, <1>10, <2>1 DEF AsWillBe
<1>12. cands = Candidates(N)
  <2>1. ASSUME NEW id \in DOMAIN N PROVE cands[id] = CandidateOf(id, N[id])
    <3>1. cands[id] = IF changes[id] = "unchanged" THEN CandidateOf(id, d.entries[id])
                      ELSE Declaring(entries[id])
      BY <1>1, <1>10 DEF PreviewCandidates
    <3>2. CASE changes[id] = "unchanged"
      BY <1>8, <3>1, <3>2
    <3>3. CASE changes[id] # "unchanged"
      <4>1. Declaring(entries[id]) = Declaring(N[id])
        BY <1>8 DEF Declaring
      <4>2. CandidateOf(id, N[id]) = Declaring(N[id])
        BY <1>9, <3>3 DEF CandidateOf
      <4> QED BY <3>1, <3>3, <4>1, <4>2
    <3> QED BY <3>2, <3>3
  <2>2. cands = [id \in DOMAIN N |-> cands[id]]
    BY <1>1, <1>10 DEF PreviewCandidates
  <2> QED BY <2>1, <2>2 DEF Candidates
<1>13. DOMAIN cands = DOMAIN N /\ IsFiniteSet(DOMAIN N) /\ DOMAIN N \subseteq EntryIds
  BY <1>6, <1>12, IdsAssumption DEF Candidates
<1>14. FaithfulTo(r, cands, N, control.desired.scopes, prefs, current, I, mounts)
  BY <1>2, <1>11, <1>13, PreviewIsFaithful
<1> QED BY <1>3, <1>5, <1>12, <1>14

(***************************************************************************)
(* How a preview comes true                                                *)
(***************************************************************************)

(* A result that is faithful to a reconciliation under way.                *)
Pending(r) ==
    \E I, m, w :
      /\ Foreseen(w, building.plan.order, building.plan.resolution, control.desired.entries, I, m)
      /\ Foretold(r, w, building.plan.order, current, I,
                  TreeOf(building.scopes, building.cands, building.plan),
                  EffectivePreferences(control))
      /\ Course(w, I, m)

(* What a preview promises, before a reconciliation and during one.        *)
Promised(preview) ==
    preview.of = NoConfig \/ AsConfigured(preview.of) =>
      IF building = NoBuild THEN Faithful(preview.result) ELSE Pending(preview.result)

(* An identity names only instances mounted before.                        *)
Numbered ==
    \A i \in LiveOf(instances) : i.state = "active" =>
      \A cap \in DOMAIN i.identity.bindings : i.identity.bindings[cap].instance \in 0 .. mounts

(* With IInv and RInv an invariant: why previews come true.                *)
PInv == Numbered /\ \A preview \in previews : Promised(preview)

(* Numbers are given out upwards.                                          *)
LEMMA MountsGrow ==
    ASSUME IInv, [Next]_vars
    PROVE  mounts \in Nat /\ mounts' \in Nat /\ mounts <= mounts'
<1>1. mounts \in Nat
  BY DEF IInv
<1>2. ASSUME NEW next, NEW seen, Call(next, seen) PROVE UNCHANGED mounts
  BY <1>2 DEF Call
<1>3. ASSUME \/ \E e \in UserEntries : Installs(e) \/ Uninstalls(e) \/ DeclaresScope(e)
             \/ \E s \in Selections : Prefers(s)
             \/ \E config \in Configs : Applies(config)
             \/ UNCHANGED vars
      PROVE  UNCHANGED mounts
  BY <1>2, <1>3 DEF Installs, Uninstalls, DeclaresScope, Prefers, Applies, vars
<1>4. ASSUME NEW id, PassOver(id) \/ CarryOver(id) PROVE UNCHANGED mounts
  BY <1>4 DEF PassOver, CarryOver
<1>5. ASSUME NEW id, Mount(id) \/ MountFails(id) PROVE mounts' = mounts + 1
  BY <1>5 DEF Mount, MountFails
<1>6. ASSUME ReconcileBegin \/ Publish \/ Rejected \/ Lease \/ Release PROVE UNCHANGED mounts
  BY <1>6 DEF ReconcileBegin, Publish, Rejected, Lease, Release
<1>7. mounts' = mounts \/ mounts' = mounts + 1
  BY <1>3, <1>4, <1>5, <1>6 DEF Next
<1> QED BY <1>1, <1>7

(* What is mounted is bound to what was mounted before.                    *)
LEMMA StepsKeepNumbered ==
    ASSUME IInv, Numbered, [Next]_vars
    PROVE  Numbered'
<1> SUFFICES ASSUME NEW i \in LiveOf(instances'), i.state = "active",
                    NEW cap \in DOMAIN i.identity.bindings
             PROVE  i.identity.bindings[cap].instance \in 0 .. mounts'
  BY DEF Numbered, LiveOf
<1>1. mounts \in Nat /\ mounts' \in Nat /\ mounts <= mounts'
  BY MountsGrow
<1>2. CASE i \in LiveOf(instances)
  <2>1. i.identity.bindings[cap].instance \in 0 .. mounts
    BY <1>2 DEF Numbered
  <2> QED BY <1>1, <2>1
<1>3. ASSUME NEW id, NEW new, NewInstance(id, new), i = new
      PROVE  i.identity.bindings[cap].instance \in 0 .. mounts'
  <2>1. PICK r, e, j : /\ r = building.plan.resolution[id] /\ e = control.desired.entries[id]
                       /\ j = IdentityAtTurn(id)
    OBVIOUS
  <2>2. i.identity = j
    BY <1>3, <2>1 DEF NewInstance
  <2>3. /\ IsIdentity(j) /\ DOMAIN j.bindings = DOMAIN r
        /\ \A c \in DOMAIN r :
             /\ j.bindings[c].provider = r[c].provider
             /\ r[c].provider # None => j.bindings[c].instance = InstanceOf(r[c].provider).no
    BY <2>1, IdentityIs
  <2>4. PICK p : p = r[cap].provider
    OBVIOUS
  <2>5. CASE p = None
    <3>1. j.bindings[cap].instance = 0
      BY <2>2, <2>3, <2>4, <2>5 DEF IsIdentity, None
    <3> QED BY <1>1, <2>2, <3>1
  <2>6. CASE p # None
    <3>1. j.bindings[cap].instance = InstanceOf(p).no
      BY <2>2, <2>3, <2>4, <2>6
    <3>2. CASE HasInstance(p)
      <4>1. InstanceOf(p).no \in 1 .. mounts
        BY <3>2, InstanceIsLive
      <4> QED BY <1>1, <2>2, <3>1, <4>1
    <3>3. CASE ~HasInstance(p)
      <4>1. InstanceOf(p).no = 0
        BY <3>3 DEF InstanceOf, NoInstance, None
      <4> QED BY <1>1, <2>2, <3>1, <4>1
    <3> QED BY <3>2, <3>3
  <2> QED BY <2>5, <2>6
<1>4. \/ LiveOf(instances') \subseteq LiveOf(instances)
      \/ \E id, new : NewInstance(id, new) /\ LiveOf(instances') \subseteq LiveOf(instances) \cup {new}
  BY WhatStepsLeave
<1> QED BY <1>2, <1>3, <1>4

(* A reconciliation begins on what the previews say (harness.py            *)
(* reconcile).                                                             *)
LEMMA BeginKeepsPromises ==
    ASSUME IInv, RInv, PInv, ReconcileBegin, NEW preview \in previews'
    PROVE  Promised(preview)'
<1>1. PICK entries, cands, prefs, I, m, scopes, g :
        /\ entries = control.desired.entries /\ cands = Candidates(entries)
        /\ prefs = EffectivePreferences(control) /\ I = NewestNow /\ m = mounts
        /\ scopes = control.desired.scopes /\ g = current
  OBVIOUS
<1>2. PICK plan : plan = PlanOf(cands, prefs)
  OBVIOUS
<1>3. PICK build : build = [step |-> "mounting", plan |-> plan, cands |-> cands, scopes |-> scopes,
                            left |-> plan.order, ordered |-> <<>>, mounted |-> {}, decided |-> <<>>]
  OBVIOUS
<1>4. /\ building = NoBuild /\ UNCHANGED <<control, instances, current, mounts>>
      /\ previews' = previews \cup {[of |-> NoConfig, result |-> PreviewNow(control)]}
      /\ building' = IF plan.cyclic # {} THEN NoBuild ELSE build
  BY <1>1, <1>2, <1>3 DEF ReconcileBegin
<1>5. PICK r : r = preview.result
  OBVIOUS
<1> SUFFICES ASSUME preview.of = NoConfig \/ AsConfigured(preview.of)'
             PROVE  IF building' = NoBuild THEN Faithful(r)' ELSE Pending(r)'
  BY <1>5 DEF Promised
<1>6. preview.of = NoConfig \/ AsConfigured(preview.of)
  BY <1>4 DEF AsConfigured
<1>7. Faithful(r)
  <2>1. CASE preview \in previews
    BY <1>4, <1>5, <1>6, <2>1 DEF PInv, Promised
  <2>2. CASE preview = [of |-> NoConfig, result |-> PreviewNow(control)]
    <3>1. r = PreviewNow(control)
      BY <1>5, <2>2
    <3> QED BY <3>1, NextIsFaithful
  <2> QED BY <1>4, <2>1, <2>2
<1>8. CASE building' = NoBuild
  <2>1. Faithful(r)'
    BY <1>4, <1>7, FaithfulStays
  <2> QED BY <1>8, <2>1
<1>9. CASE building' # NoBuild
  <2>1. building' = build /\ plan.cyclic = {}
    BY <1>4, <1>9
  <2>2. PICK order, selected, tree :
          /\ order = plan.order /\ selected = plan.resolution /\ tree = TreeOf(scopes, cands, plan)
    OBVIOUS
  <2>3. /\ order = OrderIn(cands, prefs) /\ selected = ResolutionOf(cands, prefs)
        /\ OnLoop(DeclaredEdges(cands)) = {}
    BY <1>2, <2>1, <2>2, PlanParts
  <2>4. tree = [scopes |-> scopes, entries |-> [id \in DOMAIN cands |-> cands[id].scope],
                selections |-> selected]
    BY <2>2 DEF TreeOf
  <2>5. PICK w : Foreseen(w, order, selected, entries, I, m) /\ Foretold(r, w, order, g, I, tree, prefs)
    BY <1>1, <1>7, <2>3, <2>4 DEF Faithful, FaithfulTo
  <2>6. /\ building'.plan = plan /\ building'.cands = cands /\ building'.scopes = scopes
        /\ building'.left = order /\ building'.ordered = <<>> /\ building'.mounted = {}
    BY <1>3, <2>1, <2>2
  <2>7. Len(order) \in Nat
    <3>1. IsFiniteSet(DOMAIN cands) /\ DOMAIN cands \subseteq EntryIds
      BY <1>1 DEF Candidates, IInv, Control, Desired
    <3>2. Sound(plan)
      BY <1>2, <2>1, <3>1, PlanIsSound
    <3> QED BY <2>2, <3>2 DEF Sound
  <2>8. Joined' = {}
    <3>1. Range(<<>>) = {}
      BY DEF Range
    <3> QED BY <2>6, <3>1 DEF Joined
  <2>9. m \in Nat /\ m = mounts'
    BY <1>1, <1>4 DEF IInv
  <2>10. DOMAIN I = DOMAIN control'.desired.entries
    BY <1>1, <1>4 DEF NewestNow
  <2>11. ASSUME NEW p \in DOMAIN I
         PROVE  /\ InstanceOf(p)' = I[p] /\ I[p].no \in 0 .. m
                /\ I[p].state = "active" =>
                     /\ IsIdentity(I[p].identity)
                     /\ \A cap \in DOMAIN I[p].identity.bindings :
                          I[p].identity.bindings[cap].instance \in 0 .. m
    <3>1. I[p] = InstanceOf(p)
      BY <1>1 DEF NewestNow
    <3>2. InstanceOf(p)' = I[p]
      BY <1>4, <3>1 DEF InstanceOf, HasInstance, Newest
    <3>3. CASE HasInstance(p)
      <4>1. I[p] \in LiveOf(instances) /\ I[p].no \in 1 .. mounts
        BY <3>1, <3>3, InstanceIsLive
      <4>2. I[p].state = "active" =>
              /\ IsIdentity(I[p].identity)
              /\ \A cap \in DOMAIN I[p].identity.bindings :
                   I[p].identity.bindings[cap].instance \in 0 .. m
        BY <1>1, <4>1 DEF RInv, Versions, PInv, Numbered
      <4>3. I[p].no \in 0 .. m
        BY <1>1, <2>9, <4>1
      <4> QED BY <3>2, <4>2, <4>3
    <3>4. CASE ~HasInstance(p)
      <4>1. I[p].no = 0 /\ I[p].state = "none"
        BY <3>1, <3>4 DEF InstanceOf, NoInstance, None
      <4> QED BY <2>9, <3>2, <4>1
    <3> QED BY <3>3, <3>4
  <2>12. Len(<<>>) + Len(order) = Len(order) /\ \A n : n \notin 1 .. Len(<<>>)
    BY <2>7
  <2>13. Course(w, I, m)'
    BY <2>2, <2>6, <2>8, <2>9, <2>10, <2>11, <2>12 DEF Course
  <2>14. Foreseen(w, building'.plan.order, building'.plan.resolution, control'.desired.entries, I, m)
    BY <1>1, <1>4, <2>2, <2>5, <2>6
  <2>15. Foretold(r, w, building'.plan.order, current', I,
                  TreeOf(building'.scopes, building'.cands, building'.plan),
                  EffectivePreferences(control'))
    BY <1>1, <1>4, <2>2, <2>5, <2>6
  <2>16. Pending(r)'
    BY <2>13, <2>14, <2>15 DEF Pending
  <2> QED BY <1>9, <2>16
<1> QED BY <1>8, <1>9

(* One member more, as it was foreseen.                                    *)
LEMMA JoinKeepsCourse ==
    ASSUME NEW k \in Nat, Progress(k), NEW id, Turn(id), Walked,
           NEW w, NEW I, NEW m, Course(w, I, m), id \in DOMAIN I, mounts \in Nat, mounts' \in Nat,
           mounts <= mounts',
           NEW new, new.entry = id, NEW i, Digest(i) = Digest(w.decided[id]),
           building'.plan = building.plan, building'.left = Tail(building.left),
           building'.ordered = Append(building.ordered, new),
           building'.decided = Put(building.decided, id, i),
           building.mounted \subseteq building'.mounted,
           building'.mounted \subseteq building.mounted \cup (mounts + 1) .. mounts',
           control' = control, \A p : p # id => InstanceOf(p)' = InstanceOf(p),
           IF w.reused[id] THEN InstanceOf(id)' = I[id] ELSE InstanceOf(id)'.no \in building'.mounted
    PROVE  Course(w, I, m)'
<1>1. PICK order, left, q, t :
        order = building.plan.order /\ left = building.left /\ q = building.ordered /\ t = building'.ordered
  OBVIOUS
<1>2. /\ left \in Seq(Range(left)) /\ left # <<>> /\ id = Head(left) /\ q \in Seq(Range(q))
      /\ k + Len(left) = Len(order) /\ \A n \in 1 .. Len(left) : left[n] = order[k + n]
      /\ order \in Seq(DOMAIN building.plan.resolution)
  BY <1>1 DEF Turn, Progress, Remaining, Sound
<1>3. Len(q) + Len(left) = Len(order) /\ \A n \in 1 .. Len(q) : q[n].entry = order[n]
  BY <1>1 DEF Course
<1>4. t = Append(q, new) /\ Range(t) = Range(q) \cup {new}
  BY <1>1, <1>2, OneMore
<1>5. Len(q) \in Nat /\ Len(left) \in Nat /\ Len(left) >= 1 /\ Len(order) \in Nat
  <2>1. Len(left) # 0
    BY <1>2
  <2> QED BY <1>2, <2>1
<1>6. id = order[Len(q) + 1]
  <2>1. PICK a, b, c : a = Len(q) /\ b = Len(left) /\ c = Len(order)
    OBVIOUS
  <2>2. k = a
    BY ONLY k \in Nat, <1>2, <1>3, <1>5, <2>1
  <2>3. id = left[1] /\ left[1] = order[k + 1]
    BY <1>2, <1>5
  <2> QED BY <2>1, <2>2, <2>3
<1>7. Len(t) = Len(q) + 1 /\ t[Len(q) + 1] = new /\ \A n \in 1 .. Len(q) : t[n] = q[n]
  BY <1>2, <1>4
<1>8. ASSUME NEW n \in 1 .. Len(t) PROVE t[n].entry = order[n]
  <2>1. CASE n = Len(q) + 1
    BY <1>6, <1>7, <2>1
  <2>2. CASE n # Len(q) + 1
    <3>1. n \in 1 .. Len(q)
      BY <1>5, <1>7, <2>2
    <3> QED BY <1>3, <1>7, <3>1
  <2> QED BY <2>1, <2>2
<1>9. Len(t) + Len(Tail(left)) = Len(order)
  <2>1. Len(Tail(left)) = Len(left) - 1
    BY <1>2
  <2>2. PICK a, b, c, d, e : a = Len(q) /\ b = Len(left) /\ c = Len(order) /\ d = Len(t) /\ e = Len(Tail(left))
    OBVIOUS
  <2>3. a \in Nat /\ b \in Nat /\ a + b = c /\ d = a + 1 /\ e = b - 1
    BY <1>3, <1>5, <1>7, <2>1, <2>2
  <2>4. d + e = c
    BY ONLY <2>3
  <2> QED BY <2>2, <2>4
<1>10. Joined' = Joined \cup {id}
  BY <1>1, <1>4 DEF Joined
<1>11. /\ m \in Nat /\ m <= mounts /\ building.mounted \subseteq (m + 1) .. mounts
       /\ DOMAIN I = DOMAIN control.desired.entries
  BY DEF Course
<1>12. m <= mounts' /\ building'.mounted \subseteq (m + 1) .. mounts'
  BY <1>11
<1>13. DOMAIN building.decided = Joined
  BY DEF Walked, Turn
<1>14. id \notin Joined
  <2>1. id \notin Done(k)
    BY AtTurn
  <2>2. Joined \subseteq Done(k)
    BY DEF Progress, Settled, Joined
  <2> QED BY <2>1, <2>2
<1>15. building'.decided[id] = i /\ \A p \in Joined : building'.decided[p] = building.decided[p]
  BY <1>13, <1>14 DEF Put
<1>16. ASSUME NEW p \in Joined'
       PROVE  /\ Digest(building'.decided[p]) = Digest(w.decided[p])
              /\ IF w.reused[p] THEN InstanceOf(p)' = I[p] ELSE InstanceOf(p)'.no \in building'.mounted
  <2>1. CASE p = id
    BY <1>15, <2>1
  <2>2. CASE p # id
    <3>1. p \in Joined /\ InstanceOf(p)' = InstanceOf(p)
      BY <1>10, <2>2
    <3>2. /\ Digest(building.decided[p]) = Digest(w.decided[p])
          /\ IF w.reused[p] THEN InstanceOf(p) = I[p] ELSE InstanceOf(p).no \in building.mounted
      BY <3>1 DEF Course
    <3> QED BY <1>15, <3>1, <3>2
  <2> QED BY <2>1, <2>2
<1>17. ASSUME NEW p \in DOMAIN I \ Joined' PROVE InstanceOf(p)' = I[p]
  <2>1. p # id /\ p \in DOMAIN I \ Joined
    BY <1>10
  <2>2. InstanceOf(p) = I[p]
    BY <2>1 DEF Course
  <2> QED BY <2>1, <2>2
<1>18. ASSUME NEW p \in DOMAIN I
       PROVE  /\ I[p].no \in 0 .. m
              /\ I[p].state = "active" =>
                   /\ IsIdentity(I[p].identity)
                   /\ \A cap \in DOMAIN I[p].identity.bindings :
                        I[p].identity.bindings[cap].instance \in 0 .. m
  BY DEF Course
<1> QED BY <1>1, <1>8, <1>9, <1>11, <1>12, <1>16, <1>17, <1>18 DEF Course

(* A turn keeps the promises: who is carried over was foreseen to be, and  *)
(* nobody is passed over (harness.py _materialize).                        *)
LEMMA TurnKeepsPromises ==
    ASSUME IInv, IInv', RInv, PInv, [Next]_vars,
           NEW id, PassOver(id) \/ CarryOver(id) \/ Mount(id), NEW preview \in previews'
    PROVE  Promised(preview)'
<1>1. /\ Turn(id) /\ building # NoBuild /\ UNCHANGED <<control, current, previews>>
      /\ Turn(id) => building.left # <<>>
  BY DEF PassOver, CarryOver, Mount, Turn
<1>2. PICK r : r = preview.result
  OBVIOUS
<1> SUFFICES ASSUME preview.of = NoConfig \/ AsConfigured(preview.of)'
             PROVE  building' # NoBuild /\ Pending(r)'
  BY <1>2 DEF Promised
<1>3. preview.of = NoConfig \/ AsConfigured(preview.of)
  BY <1>1 DEF AsConfigured
<1>4. Pending(r) /\ previews # {}
  BY <1>1, <1>2, <1>3 DEF PInv, Promised
<1>5. PICK I, m, w :
        /\ Foreseen(w, building.plan.order, building.plan.resolution, control.desired.entries, I, m)
        /\ Foretold(r, w, building.plan.order, current, I,
                    TreeOf(building.scopes, building.cands, building.plan),
                    EffectivePreferences(control))
        /\ Course(w, I, m)
  BY <1>4 DEF Pending
<1>6. PICK k \in 0 .. Len(building.plan.order) : Progress(k)
  BY <1>1 DEF IInv
<1>7. k \in Nat
  BY <1>6
<1>8. PICK i : i = IdentityAtTurn(id)
  OBVIOUS
<1>9. /\ id \in DOMAIN I /\ id \notin Joined /\ InstanceOf(id) = I[id]
      /\ Carried(id) <=> w.reused[id]
      /\ Digest(i) = Digest(w.decided[id])
  BY <1>1, <1>4, <1>5, <1>6, <1>7, <1>8, TurnAsForeseen
<1>10. mounts \in Nat /\ mounts' \in Nat /\ mounts <= mounts'
  BY MountsGrow
<1>11. Walked
  BY DEF RInv
<1>12. ASSUME Course(w, I, m)', building'.plan = building.plan, IsBuild(building'),
              building'.scopes = building.scopes, building'.cands = building.cands
       PROVE  building' # NoBuild /\ Pending(r)'
  <2>1. building' # NoBuild
    BY <1>12 DEF IsBuild, NoBuild
  <2>2. Foreseen(w, building'.plan.order, building'.plan.resolution, control'.desired.entries, I, m)
    BY <1>1, <1>5, <1>12
  <2>3. Foretold(r, w, building'.plan.order, current', I,
                 TreeOf(building'.scopes, building'.cands, building'.plan),
                 EffectivePreferences(control'))
    BY <1>1, <1>5, <1>12
  <2> QED BY <1>12, <2>1, <2>2, <2>3 DEF Pending
<1>13. CASE PassOver(id)
  <2>1. id \notin DOMAIN control.desired.entries
    BY <1>13 DEF PassOver, HasEntry
  <2> QED BY <1>5, <1>9, <2>1 DEF Course
<1>14. CASE CarryOver(id)
  <2>1. Carried(id) /\ UNCHANGED instances
    BY <1>14 DEF CarryOver
  <2>2. PICK new : new = Newest(id)
    OBVIOUS
  <2>3. new = InstanceOf(id) /\ HasInstance(id)
    <3>1. InstanceOf(id).state = "active"
      BY <2>1 DEF Carried, Carries
    <3> QED BY <2>2, <3>1 DEF InstanceOf, NoInstance
  <2>4. new.entry = id
    BY <2>3, InstanceIsLive
  <2>5. /\ building'.plan = building.plan /\ building'.left = Tail(building.left)
        /\ building'.ordered = Append(building.ordered, new)
        /\ building'.mounted = building.mounted
        /\ building'.decided = Put(building.decided, id, i)
        /\ IsBuild(building')
    BY <1>8, <1>14, <2>2, CarryOverMoves
  <2>6. building'.scopes = building.scopes /\ building'.cands = building.cands
    <3>1. PICK l, o, d :
            /\ l = Tail(building.left) /\ o = Append(building.ordered, Newest(id))
            /\ d = Put(building.decided, id, IdentityAtTurn(id))
      OBVIOUS
    <3>2. building' = CarriedOn(building, l, o, d)
      BY <1>14, <3>1 DEF CarryOver, CarriedOn
    <3>3. IsBuild(building)
      BY <1>6 DEF Progress
    <3> QED BY <3>2, <3>3, TurnSpares
  <2>7. \A p : InstanceOf(p)' = InstanceOf(p)
    BY <2>1 DEF InstanceOf, HasInstance, Newest
  <2>8. w.reused[id] /\ InstanceOf(id)' = I[id]
    BY <1>9, <2>1, <2>7
  <2>9. Course(w, I, m)'
    BY <1>1, <1>5, <1>6, <1>7, <1>9, <1>10, <1>11, <2>4, <2>5, <2>7, <2>8, JoinKeepsCourse
  <2> QED BY <1>12, <2>5, <2>6, <2>9
<1>15. CASE Mount(id)
  <2>1. PICK new : new = [no |-> mounts + 1, entry |-> id, state |-> "active",
                          revision |-> control.desired.entries[id].revision,
                          identity |-> IdentityAtTurn(id)]
    OBVIOUS
  <2>2. /\ ~Carried(id) /\ instances' = Beside(id, new) /\ mounts' = mounts + 1
        /\ new.no = mounts + 1 /\ new.entry = id /\ new.state \in {"active", "failed"}
    BY <1>15, <2>1 DEF Mount
  <2>3. /\ building'.plan = building.plan /\ building'.left = Tail(building.left)
        /\ building'.ordered = Append(building.ordered, new)
        /\ building'.mounted = building.mounted \cup {mounts + 1}
        /\ building'.decided = Put(building.decided, id, i)
        /\ IsBuild(building')
    BY <1>8, <1>15, <2>1, MountMoves
  <2>4. building'.scopes = building.scopes /\ building'.cands = building.cands
    <3>1. PICK l, o, n, d :
            /\ l = Tail(building.left) /\ o = Append(building.ordered, new)
            /\ n = building.mounted \cup {new.no} /\ d = Put(building.decided, id, new.identity)
      OBVIOUS
    <3>2. building' = MountedOn(building, l, o, n, d)
      BY <1>15, <2>1, <3>1 DEF Mount, MountedOn
    <3>3. IsBuild(building)
      BY <1>6 DEF Progress
    <3> QED BY <3>2, <3>3, TurnSpares
  <2>5. PICK top, T : top = mounts /\ T = Beside(id, new)
    OBVIOUS
  <2>6. TookPlace(T, id, new, top + 1)
    <3>1. top \in Nat /\ AllListed(instances, top) /\ new.no = top + 1
      BY <2>2, <2>5 DEF IInv
    <3> QED BY <2>2, <2>5, <3>1, BesideListed
  <2>7. /\ DOMAIN T = DOMAIN instances \cup {id} /\ Last(T[id]) = new
        /\ \A x \in DOMAIN instances \ {id} : T[x] = instances[x]
    BY <2>6 DEF TookPlace
  <2>8. \A p : p # id => InstanceOf(p)' = InstanceOf(p)
    BY <2>2, <2>5, <2>7 DEF InstanceOf, HasInstance, Newest
  <2>9. InstanceOf(id)' = new
    BY <2>2, <2>5, <2>7 DEF InstanceOf, HasInstance, Newest
  <2>10. ~w.reused[id] /\ InstanceOf(id)'.no \in building'.mounted
    BY <1>9, <2>2, <2>3, <2>9
  <2>11. building'.mounted \subseteq building.mounted \cup (mounts + 1) .. mounts'
    BY <1>10, <2>2, <2>3
  <2>12. Course(w, I, m)'
    BY <1>1, <1>5, <1>6, <1>7, <1>9, <1>10, <1>11, <2>2, <2>3, <2>8, <2>10, <2>11, JoinKeepsCourse
  <2> QED BY <1>12, <2>3, <2>4, <2>12
<1> QED BY <1>13, <1>14, <1>15

(* A configuration is applied: what its preview says is faithful to the    *)
(* desired state that it leaves.                                           *)
LEMMA ApplyKeepsPromises ==
    ASSUME IInv, RInv, NEW config \in Configs, Applies(config), NEW preview \in previews'
    PROVE  Promised(preview)'
<1>1. PICK next, N, I :
        /\ next = Commit(control, config) /\ N = next.desired.entries
        /\ I = [p \in DOMAIN N |-> InstanceOf(p)]
  OBVIOUS
<1>2. /\ UNCHANGED <<instances, current, building, mounts>> /\ control' = next
      /\ building = NoBuild /\ preview = [of |-> config, result |-> PreviewConfig(config)]
  BY <1>1 DEF Applies, Call
<1>3. PICK r : r = PreviewConfig(config)
  OBVIOUS
<1>4. preview.of = config /\ preview.result = r /\ config # NoConfig
  BY <1>2, <1>3, ConfigsAssumption
<1> SUFFICES ASSUME AsConfigured(config)' PROVE Faithful(r)'
  BY <1>2, <1>4 DEF Promised
<1>5. \A id \in DOMAIN config.entries :
        HasEntry(next.desired, id) =>
          N[id].scope = Root /\ N[id].plugin = Catalog[config.entries[id].plugin]
  BY <1>1, <1>2 DEF AsConfigured
<1>6. Versions(instances, control.desired)
  BY DEF RInv
<1>7. FaithfulTo(r, Candidates(N), N, next.desired.scopes, EffectivePreferences(next), current, I, mounts)
  BY <1>1, <1>3, <1>5, <1>6, ConfigIsFaithful
<1>8. \A x : InstanceOf(x)' = InstanceOf(x)
  BY <1>2 DEF InstanceOf, HasInstance, Newest
<1>9. NewestNow' = I
  BY <1>1, <1>2, <1>8 DEF NewestNow
<1>10. \A x, e : CandidateOf(x, e)' = CandidateOf(x, e)
  BY <1>8 DEF CandidateOf
<1>11. Candidates(N)' = Candidates(N)
  BY <1>10 DEF Candidates
<1> QED BY <1>1, <1>2, <1>7, <1>9, <1>11 DEF Faithful

(* Every step keeps the promises.                                          *)
LEMMA StepsKeepPromises == IInv /\ IInv' /\ RInv /\ PInv /\ [Next]_vars => PInv'
<1> SUFFICES ASSUME IInv, IInv', RInv, PInv, [Next]_vars PROVE PInv'
  OBVIOUS
<1>1. Numbered'
  BY StepsKeepNumbered DEF PInv
<1> SUFFICES ASSUME NEW preview \in previews' PROVE Promised(preview)'
  BY <1>1 DEF PInv
<1>2. ASSUME NEW next, Call(next, {}) PROVE FALSE
  BY <1>2 DEF Call
<1>3. ASSUME NEW e \in UserEntries, Installs(e) \/ Uninstalls(e) \/ DeclaresScope(e) PROVE FALSE
  BY <1>2, <1>3 DEF Installs, Uninstalls, DeclaresScope
<1>4. ASSUME NEW s \in Selections, Prefers(s) PROVE FALSE
  BY <1>2, <1>4 DEF Prefers
<1>5. ASSUME NEW config \in Configs, Applies(config) PROVE Promised(preview)'
  BY <1>5, ApplyKeepsPromises
<1>6. CASE ReconcileBegin
  BY <1>6, BeginKeepsPromises
<1>7. ASSUME NEW id, PassOver(id) \/ CarryOver(id) \/ Mount(id) PROVE Promised(preview)'
  BY <1>7, TurnKeepsPromises
<1>8. ASSUME NEW id, MountFails(id) PROVE FALSE
  BY <1>8 DEF MountFails
<1>9. ASSUME Publish \/ Rejected \/ Release PROVE FALSE
  BY <1>9 DEF Publish, Rejected, Release
<1>10. CASE Lease \/ UNCHANGED vars
  <2>1. UNCHANGED <<control, instances, current, building, mounts, previews>>
    BY <1>10 DEF Lease, vars
  <2>2. Promised(preview)
    BY <2>1 DEF PInv
  <2>3. AsConfigured(preview.of)' => AsConfigured(preview.of)
    BY <2>1 DEF AsConfigured
  <2>4. Faithful(preview.result) => Faithful(preview.result)'
    BY <2>1, FaithfulStays
  <2>5. Pending(preview.result) => Pending(preview.result)'
    <3>1. PICK r : r = preview.result
      OBVIOUS
    <3> SUFFICES ASSUME Pending(r) PROVE Pending(r)'
      BY <3>1
    <3>2. PICK I, m, w :
            /\ Foreseen(w, building.plan.order, building.plan.resolution, control.desired.entries, I, m)
            /\ Foretold(r, w, building.plan.order, current, I,
                        TreeOf(building.scopes, building.cands, building.plan),
                        EffectivePreferences(control))
            /\ Course(w, I, m)
      BY DEF Pending
    <3>3. Joined' = Joined /\ \A x : InstanceOf(x)' = InstanceOf(x)
      BY <2>1 DEF Joined, InstanceOf, HasInstance, Newest
    <3>4. Course(w, I, m)'
      BY <2>1, <3>2, <3>3 DEF Course
    <3>5. Foreseen(w, building'.plan.order, building'.plan.resolution, control'.desired.entries, I, m)
      BY <2>1, <3>2
    <3>6. Foretold(r, w, building'.plan.order, current', I,
                   TreeOf(building'.scopes, building'.cands, building'.plan),
                   EffectivePreferences(control'))
      BY <2>1, <3>2
    <3> QED BY <3>4, <3>5, <3>6 DEF Pending
  <2> QED BY <2>1, <2>2, <2>3, <2>4, <2>5 DEF Promised
<1> QED BY <1>3, <1>4, <1>5, <1>6, <1>7, <1>8, <1>9, <1>10 DEF Next

(* A publication does what a preview promised (harness.py reconcile).      *)
LEMMA PublishAsPromised ==
    ASSUME IInv, RInv, Publish, NEW preview \in previews, Pending(preview.result)
    PROVE  Foretells(preview)
<1>1. PICK r, acts, order, len, ordered, mounted, tree, prefs :
        /\ r = preview.result /\ acts = r.actions
        /\ order = building.plan.order /\ len = Len(order)
        /\ ordered = building.ordered /\ mounted = building.mounted
        /\ tree = TreeOf(building.scopes, building.cands, building.plan)
        /\ prefs = EffectivePreferences(control)
  OBVIOUS
<1>2. PICK I, m, w : /\ Foreseen(w, order, building.plan.resolution, control.desired.entries, I, m)
                     /\ Foretold(r, w, order, current, I, tree, prefs)
                     /\ Course(w, I, m)
  BY <1>1 DEF Pending
<1>3. PICK new : new = [no |-> current.no + 1, members |-> ordered, tree |-> tree,
                        prefs |-> prefs, raced |-> previews = {}]
  OBVIOUS
<1>4. /\ building # NoBuild /\ building.left = <<>>
      /\ current' = IF SameComposition(current, ordered, tree, prefs) THEN current ELSE new
  BY <1>1, <1>3 DEF Publish
<1>5. PICK k \in 0 .. Len(building.plan.order) : Progress(k)
  BY <1>4 DEF IInv
<1>6. /\ ordered \in Seq(Range(ordered)) /\ len \in Nat /\ order \in Seq(DOMAIN building.plan.resolution)
      /\ \A x \in Range(ordered) : HasInstance(x.entry) /\ x = InstanceOf(x.entry)
  <2>1. order \in Seq(DOMAIN building.plan.resolution)
    BY <1>1, <1>5 DEF Progress, Sound
  <2>2. len \in Nat
    BY <1>1, <2>1
  <2> QED BY <1>1, <1>5, <2>1, <2>2 DEF Progress, Settled
<1>7. Len(ordered) = len /\ \A n \in 1 .. len : ordered[n].entry = order[n]
  <2>1. Len(ordered) + Len(<<>>) = len /\ \A n \in 1 .. Len(ordered) : ordered[n].entry = order[n]
    BY <1>1, <1>2, <1>4 DEF Course
  <2>2. Len(ordered) = len
    BY <1>6, <2>1
  <2> QED BY <2>1, <2>2
<1>8. \A x : x \in Range(ordered) <=> \E n \in 1 .. len : ordered[n] = x
  BY <1>6, <1>7, OwnElements
<1>9. ASSUME NEW n \in 1 .. len
      PROVE  /\ order[n] \in DOMAIN I /\ order[n] \in Joined /\ ordered[n] = InstanceOf(order[n])
             /\ HasInstance(order[n])
  <2>1. ordered[n] \in Range(ordered) /\ ordered[n].entry = order[n]
    BY <1>7, <1>8
  <2>2. order[n] \in Joined
    BY <1>1, <2>1 DEF Joined
  <2>3. order[n] \in Range(order)
    BY <1>1, <1>6, OwnElements
  <2>4. HasEntry(control.desired, order[n])
    BY <1>1, <1>5, <2>3 DEF Progress
  <2>5. order[n] \in DOMAIN I
    BY <1>2, <2>4 DEF Course, HasEntry
  <2> QED BY <1>6, <2>1, <2>2, <2>5
<1>10. ASSUME NEW n \in 1 .. len
       PROVE  /\ w.reused[order[n]] \in BOOLEAN
              /\ w.reused[order[n]] => ordered[n] = I[order[n]] /\ ordered[n].no \notin mounted
              /\ ~w.reused[order[n]] => ordered[n].no \in mounted
  <2>1. PICK p : p = order[n]
    OBVIOUS
  <2>2. p \in DOMAIN I /\ p \in Joined /\ ordered[n] = InstanceOf(p)
    BY <1>9, <2>1
  <2>3. w.reused[p] \in BOOLEAN
    BY <1>1, <1>2, <2>1 DEF Foreseen
  <2>4. /\ IF w.reused[p] THEN InstanceOf(p) = I[p] ELSE InstanceOf(p).no \in mounted
        /\ I[p].no \in 0 .. m /\ m \in Nat /\ mounted \subseteq (m + 1) .. mounts
    BY <1>1, <1>2, <2>2 DEF Course
  <2>5. I[p].no \notin mounted
    <3>1. I[p].no \notin (m + 1) .. mounts
      BY <2>4 DEF IInv
    <3> QED BY <2>4, <3>1
  <2> QED BY <2>1, <2>2, <2>3, <2>4, <2>5
<1>11. \A x : x \in Joined <=> \E n \in 1 .. len : order[n] = x
  <2>1. \A x : x \in Joined <=> \E b \in Range(ordered) : b.entry = x
    BY <1>1 DEF Joined
  <2> QED BY <1>7, <1>8, <2>1
<1>12. \A x : x \in Carriers <=> \E n \in 1 .. len : order[n] = x /\ w.reused[x]
  <2>1. \A x : x \in Carriers <=> \E b \in Range(ordered) : b.entry = x /\ b.no \notin mounted
    BY <1>1 DEF Carriers
  <2>2. ASSUME NEW x, x \in Carriers PROVE \E n \in 1 .. len : order[n] = x /\ w.reused[x]
    <3>1. PICK b \in Range(ordered) : b.entry = x /\ b.no \notin mounted
      BY <2>1, <2>2
    <3>2. PICK n \in 1 .. len : ordered[n] = b
      BY <1>8, <3>1
    <3> QED BY <1>7, <1>10, <3>1, <3>2
  <2>3. ASSUME NEW x, NEW n \in 1 .. len, order[n] = x, w.reused[x] PROVE x \in Carriers
    <3>1. ordered[n] \in Range(ordered) /\ ordered[n].entry = x /\ ordered[n].no \notin mounted
      BY <1>7, <1>8, <1>10, <2>3
    <3> QED BY <2>1, <3>1
  <2> QED BY <2>2, <2>3
<1>13. /\ \A n \in 1 .. len :
            /\ order[n] \in DOMAIN acts
            /\ IF w.reused[order[n]]
               THEN acts[order[n]].kind = "reuse" /\ ~acts[order[n]].forcing
               ELSE acts[order[n]].kind \in {"add", "replace", "rebuild"} /\ acts[order[n]].forcing
       /\ \A id \in DOMAIN acts :
            (\E n \in 1 .. len : order[n] = id) \/ acts[id].kind \in {"remove", "reject"}
  BY <1>1, <1>2 DEF Foretold
<1>14. {id \in DOMAIN acts : acts[id].kind \in {"reuse"}} = Carriers
  <2>1. ASSUME NEW id \in DOMAIN acts, acts[id].kind = "reuse" PROVE id \in Carriers
    <3>1. PICK n \in 1 .. len : order[n] = id
      BY <1>13, <2>1
    <3> QED BY <1>12, <1>13, <2>1, <3>1
  <2>2. ASSUME NEW id \in Carriers PROVE id \in DOMAIN acts /\ acts[id].kind = "reuse"
    <3>1. PICK n \in 1 .. len : order[n] = id /\ w.reused[id]
      BY <1>12
    <3> QED BY <1>13, <3>1
  <2> QED BY <2>1, <2>2
<1>15. {id \in DOMAIN acts : acts[id].kind \in {"add", "replace", "rebuild"}} = Joined \ Carriers
  <2>1. ASSUME NEW id \in DOMAIN acts, acts[id].kind \in {"add", "replace", "rebuild"}
        PROVE  id \in Joined /\ id \notin Carriers
    <3>1. PICK n \in 1 .. len : order[n] = id
      BY <1>13, <2>1
    <3>2. ~w.reused[id]
      BY <1>13, <2>1, <3>1
    <3> QED BY <1>11, <1>12, <3>1, <3>2
  <2>2. ASSUME NEW id \in Joined, id \notin Carriers
        PROVE  id \in DOMAIN acts /\ acts[id].kind \in {"add", "replace", "rebuild"}
    <3>1. PICK n \in 1 .. len : order[n] = id
      BY <1>11
    <3>2. ~w.reused[id]
      BY <1>12, <2>2, <3>1
    <3> QED BY <1>13, <3>1, <3>2
  <2> QED BY <2>1, <2>2
<1>16. (current' = current) <=> SameComposition(current, ordered, tree, prefs)
  <2> SUFFICES ASSUME new = current PROVE SameComposition(current, ordered, tree, prefs)
    BY <1>4
  <2>1. current # NoGeneration
    <3>1. "tree" \in DOMAIN new
      BY <1>3
    <3>2. "tree" \notin DOMAIN NoGeneration
      BY DEF NoGeneration
    <3> QED BY <3>1, <3>2
  <2>2. current.members = ordered /\ current.tree = tree /\ current.prefs = prefs
    BY <1>3
  <2> QED BY <2>1, <2>2 DEF SameComposition
<1>17. ASSUME SameComposition(current, ordered, tree, prefs)
       PROVE  /\ \A n \in 1 .. len : ordered[n].no \notin mounted
              /\ MemberIds(current) \subseteq Joined
  <2>1. PICK q : q = current.members
    OBVIOUS
  <2>2. PICK f, g : f = [i \in DOMAIN q |-> q[i].no] /\ g = [i \in DOMAIN ordered |-> ordered[i].no]
    OBVIOUS
  <2>3. f = g
    BY <1>17, <2>1, <2>2 DEF SameComposition
  <2>4. DOMAIN q = 1 .. len /\ DOMAIN ordered = 1 .. len
    <3>1. DOMAIN f = DOMAIN q /\ DOMAIN g = DOMAIN ordered
      BY <2>2
    <3> QED BY <1>6, <1>7, <2>3, <3>1
  <2>5. ASSUME NEW n \in 1 .. len PROVE q[n].no = ordered[n].no /\ q[n] \in Range(q)
    <3>1. f[n] = q[n].no /\ g[n] = ordered[n].no
      BY <2>2, <2>4
    <3> QED BY <2>3, <2>4, <3>1 DEF Range
  <2>6. \A b \in Range(q) : b \in LiveOf(instances) /\ b.no \notin mounted
    BY <1>1, <1>5, <2>1 DEF IInv, Reached, LiveOf, Progress
  <2>7. ASSUME NEW n \in 1 .. len PROVE ordered[n] = q[n]
    <3>1. ordered[n] \in LiveOf(instances)
      BY <1>9, InstanceIsLive
    <3> QED BY <2>5, <2>6, <3>1 DEF RInv, Distinct
  <2>8. ASSUME NEW id \in MemberIds(current) PROVE id \in Joined
    <3>1. PICK b \in Range(q) : b.entry = id
      BY <2>1 DEF MemberIds
    <3>2. PICK n \in 1 .. len : q[n] = b
      BY <2>4, <3>1 DEF Range
    <3> QED BY <1>7, <1>11, <2>7, <3>1, <3>2
  <2> QED BY <2>5, <2>6, <2>8
<1>18. PICK leftovers : leftovers =
         \E id \in {x \in DOMAIN acts : acts[x].kind \in {"remove", "reject"}} :
           acts[id].forcing /\ id \notin MemberIds(current)
  OBVIOUS
<1>19. r.publishes # (current' = current) \/ leftovers
  <2>1. CASE \E id \in DOMAIN acts : acts[id].forcing
    <3>1. PICK id \in DOMAIN acts : acts[id].forcing
      BY <2>1
    <3>2. r.publishes = TRUE
      BY <1>1, <1>2, <2>1 DEF Foretold
    <3>3. CASE \E n \in 1 .. len : order[n] = id
      <4>1. PICK n \in 1 .. len : order[n] = id
        BY <3>3
      <4>2. ordered[n].no \in mounted
        BY <1>10, <1>13, <3>1, <4>1
      <4>3. ~SameComposition(current, ordered, tree, prefs)
        BY <1>17, <4>2
      <4> QED BY <1>16, <3>2, <4>3
    <3>4. CASE ~ \E n \in 1 .. len : order[n] = id
      <4>1. acts[id].kind \in {"remove", "reject"}
        BY <1>13, <3>4
      <4>2. CASE id \notin MemberIds(current)
        BY <1>18, <3>1, <4>1, <4>2
      <4>3. CASE id \in MemberIds(current)
        <5>1. ~SameComposition(current, ordered, tree, prefs)
          BY <1>11, <1>17, <3>4, <4>3
        <5> QED BY <1>16, <3>2, <5>1
      <4> QED BY <4>2, <4>3
    <3> QED BY <3>3, <3>4
  <2>2. CASE ~ \E id \in DOMAIN acts : acts[id].forcing
    <3>1. PICK forced : forced = \E id \in DOMAIN acts : acts[id].forcing
      OBVIOUS
    <3>2. forced = FALSE
      BY <2>2, <3>1
    <3>3. \A n \in 1 .. len : w.reused[order[n]]
      BY <1>10, <1>13, <2>2
    <3>4. PICK expected : expected = [n \in 1 .. len |-> I[order[n]]]
      OBVIOUS
    <3>5. r.publishes = (forced \/ ~SameComposition(current, expected, tree, prefs))
      BY <1>1, <1>2, <3>1, <3>3, <3>4 DEF Foretold
    <3>6. expected = ordered
      <4>1. ordered = [n \in 1 .. len |-> ordered[n]]
        BY <1>6, <1>7
      <4>2. \A n \in 1 .. len : ordered[n] = I[order[n]]
        BY <1>10, <3>3
      <4> QED BY <3>4, <4>1, <4>2
    <3>7. r.publishes = ~SameComposition(current, ordered, tree, prefs)
      BY <3>2, <3>5, <3>6
    <3> QED BY <1>16, <3>7
  <2> QED BY <2>1, <2>2
<1> QED BY <1>1, <1>14, <1>15, <1>18, <1>19 DEF Foretells

(* Nothing is promised at the start.                                       *)
LEMMA StartsPromising == Init => PInv
BY DEF Init, PInv, Numbered, LiveOf

(***************************************************************************)
(* The theorems                                                            *)
(***************************************************************************)

(* Every step keeps the invariant.                                         *)
LEMMA StepsKeep == IInv /\ [Next]_vars => IInv'
<1> SUFFICES ASSUME IInv, [Next]_vars PROVE IInv'
  OBVIOUS
<1>1. Control(control)
  BY DEF IInv
<1>2. ASSUME NEW e \in UserEntries, Installs(e) PROVE IInv'
  <2>1. PICK next, seen :
          /\ next = [control EXCEPT !.desired = InstallEntry(@, e.id, e.plugin, e.config, e.scope)]
          /\ seen = {}
    OBVIOUS
  <2>2. Control(next)
    BY <1>1, <2>1, CallsKeepControl DEF Onward
  <2>3. Call(next, seen)
    BY <1>2, <2>1 DEF Installs
  <2> QED BY <2>1, <2>2, <2>3, CallsKeep
<1>3. ASSUME NEW e \in UserEntries, Uninstalls(e) PROVE IInv'
  <2>1. PICK next, seen : next = [control EXCEPT !.desired = Uninstall(@, e.id)] /\ seen = {}
    OBVIOUS
  <2>2. Control(next)
    BY <1>1, <2>1, CallsKeepControl DEF Onward
  <2>3. Call(next, seen)
    BY <1>3, <2>1 DEF Uninstalls
  <2> QED BY <2>1, <2>2, <2>3, CallsKeep
<1>4. ASSUME NEW e \in UserEntries, DeclaresScope(e) PROVE IInv'
  <2>1. PICK next, seen : next = [control EXCEPT !.desired = Ensure(@, e.scope)] /\ seen = {}
    OBVIOUS
  <2>2. Control(next)
    BY <1>1, <2>1, CallsKeepControl DEF Onward
  <2>3. Call(next, seen)
    BY <1>4, <2>1 DEF DeclaresScope
  <2> QED BY <2>1, <2>2, <2>3, CallsKeep
<1>5. ASSUME NEW s \in Selections, Prefers(s) PROVE IInv'
  <2>1. PICK next, seen : next = Prefer(control, s[1], s[2]) /\ seen = {}
    OBVIOUS
  <2>2. Control(next)
    BY <1>1, <2>1, CallsKeepControl DEF Onward
  <2>3. Call(next, seen)
    BY <1>5, <2>1 DEF Prefers
  <2> QED BY <2>1, <2>2, <2>3, CallsKeep
<1>6. ASSUME NEW config \in Configs, Applies(config) PROVE IInv'
  <2>1. PICK next, seen :
          /\ next = Commit(control, config)
          /\ seen = IF building = NoBuild
                    THEN {[of |-> config, result |-> PreviewConfig(config)]} ELSE {}
    OBVIOUS
  <2>2. Control(next)
    BY <1>1, <2>1, CallsKeepControl DEF Onward
  <2>3. Call(next, seen)
    BY <1>6, <2>1 DEF Applies
  <2>4. building # NoBuild => seen = {}
    BY <2>1
  <2> QED BY <2>2, <2>3, <2>4, CallsKeep
<1>7. CASE UNCHANGED vars
  <2>1. UNCHANGED <<control, instances, current, held, building, mounts, previews>>
    BY <1>7 DEF vars
  <2>2. Control(control)' /\ (mounts \in Nat /\ AllListed(instances, mounts))'
    BY <2>1 DEF IInv
  <2>3. ASSUME NEW g, Reached(g) PROVE Reached(g)'
    BY <2>1, <2>3 DEF Reached
  <2>4. (\A g \in {current, held} : Reached(g) /\ Bound(g))'
    BY <2>1, <2>3 DEF IInv
  <2>5. ASSUME NEW k, Progress(k) PROVE Progress(k)'
    <3>1. Done(k)' = Done(k) /\ Joined' = Joined /\ (Remaining(k)' <=> Remaining(k))
      BY <2>1 DEF Done, Joined, Remaining
    <3>2. ASSUME NEW m, Settled(m, k) PROVE Settled(m, k)'
      <4>1. \A id : HasInstance(id)' = HasInstance(id) /\ InstanceOf(id)' = InstanceOf(id)
        BY <2>1 DEF HasInstance, InstanceOf, Newest
      <4> QED BY <2>1, <3>1, <3>2, <4>1 DEF Settled
    <3> QED BY <2>1, <2>5, <3>1, <3>2 DEF Progress
  <2> QED BY <2>1, <2>2, <2>4, <2>5 DEF IInv
<1> QED BY <1>2, <1>3, <1>4, <1>5, <1>6, <1>7, BeginKeeps, PassOverKeeps, CarryOverKeeps,
           MountKeeps, MountFailsKeeps, PublishKeeps, RejectedKeeps, LeaseKeeps, ReleaseKeeps DEF Next

(* The invariant implies what the runs check.                              *)
LEMMA InvariantSuffices == IInv => TypeOK /\ BoundToMembers
<1> SUFFICES ASSUME IInv PROVE TypeOK /\ BoundToMembers
  OBVIOUS
<1>1. \A g \in Generations : g \in {current, held}
  BY DEF Generations
<1>2. ASSUME NEW id \in DOMAIN instances
      PROVE  /\ instances[id] # <<>>
             /\ \A i \in DOMAIN instances[id] :
                  /\ instances[id][i].entry = id
                  /\ instances[id][i].no \in 1 .. mounts
                  /\ i < Len(instances[id]) => /\ instances[id][i].no < instances[id][i + 1].no
                                               /\ instances[id][i].state = "active"
  <2>1. PICK q : q = instances[id]
    OBVIOUS
  <2>2. Listed(q, id, mounts)
    BY <2>1 DEF IInv, AllListed
  <2>3. q \in Seq(Range(q)) /\ q # <<>>
    BY <2>2 DEF Listed
  <2>4. DOMAIN q = 1 .. Len(q) /\ Len(q) \in Nat
    BY <2>3
  <2>5. ASSUME NEW i \in 1 .. Len(q), i < Len(q)
        PROVE  q[i].no < q[i + 1].no /\ q[i].state = "active"
    <3>1. i + 1 \in 1 .. Len(q) /\ i < i + 1
      BY <2>4, <2>5
    <3> QED BY <2>2, <3>1 DEF Listed
  <2>6. \A i \in 1 .. Len(q) : q[i].entry = id /\ q[i].no \in 1 .. mounts
    BY <2>2 DEF Listed
  <2> QED BY <2>1, <2>3, <2>4, <2>5, <2>6
<1>3. TypeOK
  BY <1>1, <1>2 DEF IInv, Reached, TypeOK
<1>4. BoundToMembers
  BY <1>1 DEF IInv, Bound, BoundToMembers
<1> QED BY <1>3, <1>4

(* An entry's instances are its own, in order, only the newest can have    *)
(* failed, and no disposal takes what a generation reaches: what rollback, *)
(* reclamation and the registry's mount leave (harness.py reconcile,       *)
(* _reclaim; plugins/registry.py), for every configuration and any calls.  *)
THEOREM InstancesStayReachable == Spec => []TypeOK
<1>1. Spec => []IInv
  BY StartsSound, StepsKeep, PTL DEF Spec
<1> QED BY <1>1, InvariantSuffices, PTL

(* The members of a generation are bound to each other: the walk of        *)
(* harness.py _materialize in the resolver's order, and the comparison of  *)
(* core/identity.py, never leave a member with a provider's old instance,  *)
(* and its _validate_publication none with a provider that is no member or *)
(* no longer registers what it was selected for, however calls on the      *)
(* desired state land between the turns.                                   *)
THEOREM GenerationsAreBound == Spec => []BoundToMembers
<1>1. Spec => []IInv
  BY StartsSound, StepsKeep, PTL DEF Spec
<1> QED BY <1>1, InvariantSuffices, PTL

(* The retention that generation_pressure (diagnostics.py) reports of an   *)
(* instance decides its disposal: a publication disposes exactly what is   *)
(* reported as retained by nothing and is not carried over, the last       *)
(* release exactly what is reported of its generation alone, and no other  *)
(* step disposes what any generation reaches (harness.py _reclaim).        *)
THEOREM RetentionReportsComeTrue == Spec => RetentionComesTrue
<1>1. Init => IInv /\ Distinct(instances)
  <2>1. Init => Distinct(instances)
    BY DEF Init, Distinct, LiveOf
  <2> QED BY <2>1, StartsSound
<1>2. IInv /\ Distinct(instances) /\ [Next]_vars => IInv' /\ Distinct(instances)'
  BY StepsKeep, StepsKeepDistinct
<1>3. IInv /\ IInv' /\ Distinct(instances) /\ [Next]_vars => DisposesAsReported
  BY StepsDisposeAsReported
<1> QED BY <1>1, <1>2, <1>3, PTL DEF Spec, RetentionComesTrue

(* A reconciliation mounts anew only what a change reached: a member of    *)
(* the old and of the new generation is another instance only when its     *)
(* entry was replaced, a requirement was resolved otherwise, a provider it *)
(* is bound to is another instance, its plugin may fail its setup, or a    *)
(* loop of bindings leads to it (harness.py _materialize with              *)
(* core/identity.py), whatever calls land between the turns, however many  *)
(* instances older generations keep, and across failed reconciliations.    *)
THEOREM ChangesStayLocal == Spec => OnlyTheAffected
<1>1. Init => IInv /\ RInv
  BY StartsSound, StartsExplained
<1>2. IInv /\ RInv /\ [Next]_vars => IInv' /\ RInv'
  BY StepsKeep, StepsKeepReasons
<1>3. IInv /\ IInv' /\ RInv /\ RInv' /\ [Next]_vars => (Publishes => NewForAReason)
  BY NewOnesHaveReasons
<1> QED BY <1>1, <1>2, <1>3, PTL DEF Spec, OnlyTheAffected

(* The impact analysis of a publication (core/identity.py analyse_impact)  *)
(* follows the bindings: outside loops of bindings, a node it calls reused *)
(* is bound to reused nodes only, and one it calls rewired had a           *)
(* requirement resolved otherwise or names a provider that changed.        *)
THEOREM ImpactAnalysisIsSound == Spec => ImpactFollowsBindings
<1>1. Init => IInv /\ RInv
  BY StartsSound, StartsExplained
<1>2. IInv /\ RInv /\ [Next]_vars => IInv' /\ RInv'
  BY StepsKeep, StepsKeepReasons
<1>3. IInv /\ IInv' /\ RInv /\ RInv' /\ [Next]_vars =>
        (Publishes /\ current # NoGeneration => ImpactExplained)
  BY ImpactIsExplained
<1> QED BY <1>1, <1>2, <1>3, PTL DEF Spec, ImpactFollowsBindings

(* The two halves of a diff agree, though one reads the published trees    *)
(* and the other the identities fixed at mount (diagnostics.py             *)
(* diff_generations): a node is reused exactly when its provider is        *)
(* unchanged, and one whose requirement was rewired was itself rewired or  *)
(* rebuilt.                                                                *)
THEOREM DiffsAgreeWithImpact == Spec => DiffAgreesWithImpact
<1>1. Init => IInv /\ RInv
  BY StartsSound, StartsExplained
<1>2. IInv /\ RInv /\ [Next]_vars => IInv' /\ RInv'
  BY StepsKeep, StepsKeepReasons
<1>3. IInv /\ IInv' /\ RInv /\ RInv' /\ [Next]_vars => (Publishes => DiffMatchesImpact)
  BY DiffIsImpact
<1> QED BY <1>1, <1>2, <1>3, PTL DEF Spec, DiffAgreesWithImpact

(* Reconciliation changes what has to change (harness.py reconcile): one   *)
(* repeated with nothing changed since carries every instance over and     *)
(* keeps the generation, unless bindings loop or a desired entry may       *)
(* register more than its manifest declares; any other mounts anew only    *)
(* what the change reached.                                                *)
THEOREM ReconciliationRebuildsAsNeeded == Spec => RebuildsAsNeeded
<1>1. Init => IInv /\ RInv /\ SInv
  BY StartsSound, StartsExplained, StartsStanding
<1>2. IInv /\ RInv /\ SInv /\ [Next]_vars => IInv' /\ RInv' /\ SInv'
  BY StepsKeep, StepsKeepReasons, StepsKeepStanding
<1>3. SInv => RepeatIsNoOp
  BY DEF SInv
<1>4. Spec => []RepeatIsNoOp
  BY <1>1, <1>2, <1>3, PTL DEF Spec
<1> QED BY <1>4, ChangesStayLocal DEF RebuildsAsNeeded

(* A preview's decisions match the apply and the reconciliation that       *)
(* follow (harness.py preview against apply_config and reconcile; guarantee*)
(* G26 of docs/design.md): for any entries, preferences, contract versions *)
(* and setups that fail, if nothing is called in between, the entries it   *)
(* calls reused are carried over, those it calls added, replaced or        *)
(* rebuilt are mounted, and a generation is published exactly when it says *)
(* so, but for the entries of a configuration that were installed          *)
(* otherwise and for what only an older generation reaches.                *)
THEOREM PreviewsComeTrue == Spec => PreviewMatches
<1>1. Init => IInv /\ RInv /\ PInv
  BY StartsSound, StartsExplained, StartsPromising
<1>2. IInv /\ RInv /\ PInv /\ [Next]_vars => IInv' /\ RInv' /\ PInv'
  BY StepsKeep, StepsKeepReasons, StepsKeepPromises
<1>3. ASSUME IInv, RInv, PInv, [Next]_vars, Publishes, NEW preview \in previews,
             preview.of = NoConfig \/ AsConfigured(preview.of)
      PROVE  Foretells(preview)
  <2>1. Publish
    BY <1>3, WhoActs
  <2>2. Pending(preview.result)
    BY <1>3 DEF PInv, Promised, Publishes
  <2> QED BY <1>3, <2>1, <2>2, PublishAsPromised
<1>4. IInv /\ RInv /\ PInv /\ [Next]_vars =>
        (Publishes => \A preview \in previews :
           preview.of = NoConfig \/ AsConfigured(preview.of) => Foretells(preview))
  BY <1>3
<1> QED BY <1>1, <1>2, <1>4, PTL DEF Spec, PreviewMatches
================================================================================
