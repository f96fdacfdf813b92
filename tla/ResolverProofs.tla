--------------------------- MODULE ResolverProofs ---------------------------
(***************************************************************************)
(* What the dependency resolver promises for every composition, not only   *)
(* for those of the checked instance: however many entries, scopes,        *)
(* offers and requirements.                                                *)
(***************************************************************************)
EXTENDS ScopeTree, FiniteLemmas, SequenceTheorems

(***************************************************************************)
(* What a resolution looks at                                              *)
(***************************************************************************)

(* The input of a state is one of the compositions the resolver accepts.   *)
InputTyped == input \in Inputs

(* Every offer of an entry comes from it and from its scope; there are     *)
(* finitely many.                                                          *)
LEMMA OptionsTyped ==
    ASSUME InputTyped
    PROVE  /\ IsFiniteSet(Options)
           /\ \A o \in Options : /\ o.entry \in Entries /\ o \in OptionsOf(o.entry)
                                 /\ o.scope = input.scope[o.entry]
                                 /\ o.cap \in Caps /\ o.version \in Nat
           /\ \A e \in Entries : \A o \in OptionsOf(e) : o \in Options /\ o.entry = e
<1>1. InputOK(input)
  BY InputsAreCompositions DEF InputTyped
<1>2. \A e \in Entries : \A o \in OptionsOf(e) :
        /\ o.entry = e /\ o.scope = input.scope[e] /\ o.cap \in Caps /\ o.version \in Nat
        /\ o \in Options
  <2> SUFFICES ASSUME NEW e \in Entries, NEW o \in OptionsOf(e)
               PROVE  /\ o.entry = e /\ o.scope = input.scope[e] /\ o.cap \in Caps
                      /\ o.version \in Nat /\ o \in Options
    OBVIOUS
  <2>1. o \in Options
    BY DEF Options
  <2>2. PICK c \in Caps \X Nat : o = Option(e, c)
    BY <1>1 DEF OptionsOf, DeclaredOptions, InputOK, Entries
  <2> QED BY <2>1, <2>2 DEF Option
<1>3. \A o \in Options : \E e \in Entries : o \in OptionsOf(e)
  BY DEF Options
<1>4. \A e \in Entries : IsFiniteSet(OptionsOf(e))
  <2> SUFFICES ASSUME NEW e \in Entries PROVE IsFiniteSet(OptionsOf(e))
    OBVIOUS
  <2> DEFINE S == IF e \in input.active THEN input.registered[e] ELSE input.offers[e]
             f == [c \in S |-> Option(e, c)]
  <2>1. IsFiniteSet(S)
    BY <1>1 DEF InputOK, Entries
  <2>2. OptionsOf(e) = {f[c] : c \in S}
    BY DEF OptionsOf, DeclaredOptions
  <2>3. f \in Surjection(S, OptionsOf(e))
    <3>1. f \in [S -> OptionsOf(e)]
      BY <2>2
    <3>2. \A t \in OptionsOf(e) : \E s \in S : f[s] = t
      BY <2>2
    <3> HIDE DEF f, S
    <3> QED BY <3>1, <3>2, Fun_IsSurj
  <2> HIDE DEF f, S
  <2> QED BY <2>1, <2>3, FS_Surjection
<1>5. IsFiniteSet(Options)
  <2> DEFINE From(U) == UNION {OptionsOf(e) : e \in U}
             F == {U \in SUBSET Entries : IsFiniteSet(From(U))}
  <2>1. {} \in F
    <3>1. From({}) = {}
      OBVIOUS
    <3> QED BY <3>1, FS_EmptySet
  <2>2. ASSUME NEW U \in SUBSET Entries, NEW e \in Entries \ U, U \in F
        PROVE  U \cup {e} \in F
    <3>1. From(U \cup {e}) = From(U) \cup OptionsOf(e)
      OBVIOUS
    <3>2. IsFiniteSet(From(U) \cup OptionsOf(e))
      <4> HIDE DEF From
      <4> QED BY <1>4, <2>2, FS_Union
    <3> HIDE DEF From
    <3> QED BY <3>1, <3>2
  <2>3. IsFiniteSet(Entries)
    BY NodesAreIds DEF Entries
  <2>4. Entries \in F
    <3> HIDE DEF F
    <3> QED BY <2>1, <2>2, <2>3, ElementByElement
  <2> QED BY <2>4 DEF Options
<1> QED BY <1>2, <1>3, <1>5

(* What matches is acceptable, visible, offered by another entry of the    *)
(* pool, and finite in number; a larger pool matches no less.              *)
LEMMA MatchingTyped ==
    ASSUME InputTyped, NEW r, NEW s, NEW exclude, NEW pool
    PROVE  LET matching == Matching(r, s, exclude, pool)
           IN /\ matching \subseteq Others(r, s, exclude) /\ matching \subseteq Options
              /\ IsFiniteSet(matching) /\ Cardinality(matching) \in Nat
              /\ Cardinality(matching) = 0 <=> matching = {}
              /\ \A o \in matching : /\ o.entry \in pool /\ o.entry # exclude
                                    /\ Accepts(r, o.cap, o.version)
<1>1. /\ Matching(r, s, exclude, pool) \subseteq Others(r, s, exclude)
      /\ Matching(r, s, exclude, pool) \subseteq Options
  BY DEF Matching, VisibleIn, Others
<1>2. IsFiniteSet(Matching(r, s, exclude, pool))
  BY <1>1, OptionsTyped, FS_Subset
<1>3. \A o \in Matching(r, s, exclude, pool) :
        o.entry \in pool /\ o.entry # exclude /\ Accepts(r, o.cap, o.version)
  BY DEF Matching, Others
<1> QED BY <1>1, <1>2, <1>3, FS_CardinalityType, FS_EmptySet

LEMMA MatchingGrows ==
    ASSUME NEW r, NEW s, NEW exclude, NEW pool, NEW larger, pool \subseteq larger
    PROVE  Matching(r, s, exclude, pool) \subseteq Matching(r, s, exclude, larger)
  BY DEF Matching

(* Among offers there is one of the lowest version.                        *)
LEMMA LowestVersion ==
    ASSUME InputTyped, NEW O, O \subseteq Options, O # {}
    PROVE  LET o == CHOOSE o \in O : \A q \in O : o.version <= q.version
           IN o \in O /\ \A q \in O : o.version <= q.version
<1> DEFINE V == {q.version : q \in O}
<1>1. V \in SUBSET Nat /\ V # {}
  BY OptionsTyped
<1>2. Min(V) \in V /\ \A v \in V : Min(V) <= v
  <2> HIDE DEF V
  <2> QED BY <1>1, LeastMember
<1>3. PICK o \in O : \A q \in O : o.version <= q.version
  BY <1>2
<1> QED BY <1>3

(* The status cascade, read backwards: what each status says of the        *)
(* providers that match and of the others.                                 *)
LEMMA StatusMeans ==
    ASSUME InputTyped, NEW r, NEW consumer, NEW s, NEW exclude, NEW pool,
           NEW result, result = Resolution(r, consumer, s, exclude, pool),
           NEW matching, matching = Matching(r, s, exclude, pool),
           NEW preferred, preferred = Preferred(r, consumer, s, exclude, pool),
           NEW others, others = Others(r, s, exclude)
    PROVE  /\ result.status = "resolved" <=>
                \/ Cardinality(matching) = 1
                \/ Cardinality(matching) > 1 /\ preferred # {}
           /\ result.status = "resolved" =>
                \E o \in matching : result.provider = o.entry /\ result.version = o.version
           /\ result.status = "ambiguous" => Cardinality(matching) > 1
           /\ result.status \notin {"resolved", "ambiguous"} => matching = {}
           /\ result.status = "version_mismatch" => others # {}
           /\ result.status = "provider_pending" =>
                /\ \E o \in others : Accepts(r, o.cap, o.version)
                /\ \A o \in others : o.entry \notin pool
           /\ result.status \in {"not_visible", "self_reference", "no_provider"} => others = {}
           /\ result.status \in {"self_reference", "no_provider"} =>
                \A o \in Options : o.cap = r.cap => o.entry = exclude
           /\ result.status # "resolved" => result.provider = None
           /\ result.status \in {"resolved", "ambiguous", "version_mismatch", "provider_pending",
                                 "not_visible", "self_reference", "no_provider"}
<1> DEFINE first(O) == CHOOSE o \in O : \A q \in O : o.version <= q.version
           selected(o) == [status |-> "resolved", provider |-> o.entry, version |-> o.version]
           unresolved(status) == [status |-> status, provider |-> None, version |-> None]
<1>1. /\ Cardinality(matching) \in Nat
      /\ Cardinality(matching) = 0 <=> matching = {}
      /\ matching \subseteq Options /\ preferred \subseteq matching
  BY MatchingTyped DEF Preferred
<1>2. result = CASE Cardinality(matching) = 1 -> selected(first(matching))
                 [] Cardinality(matching) > 1 /\ preferred # {} -> selected(first(preferred))
                 [] Cardinality(matching) > 1 /\ preferred = {} -> unresolved("ambiguous")
                 [] matching = {} /\ (\E o \in others : o.entry \in pool) ->
                      unresolved("version_mismatch")
                 [] OTHER -> unresolved(Unresolved(r, others, exclude))
  BY Zenon DEF Resolution, Cascade
<1> HIDE DEF first
<1>3. CASE Cardinality(matching) = 1
  <2>1. first(matching) \in matching
    <3>1. matching # {}
      BY <1>1, <1>3
    <3> QED BY <1>1, <3>1, LowestVersion DEF first
  <2>2. result = selected(first(matching))
    BY <1>2, <1>3, <1>1
  <2>3. /\ result.status = "resolved" /\ result.provider = first(matching).entry
        /\ result.version = first(matching).version
    BY <2>2
  <2> QED BY <1>3, <2>1, <2>3
<1>4. CASE Cardinality(matching) > 1 /\ preferred # {}
  <2>1. first(preferred) \in preferred
    BY <1>1, <1>4, LowestVersion DEF first
  <2>2. result = selected(first(preferred))
    BY <1>1, <1>2, <1>4
  <2>3. /\ result.status = "resolved" /\ result.provider = first(preferred).entry
        /\ result.version = first(preferred).version
    BY <2>2
  <2> QED BY <1>1, <1>4, <2>1, <2>3
<1>5. CASE Cardinality(matching) > 1 /\ preferred = {}
  <2>1. result.status = "ambiguous" /\ result.provider = None
    BY <1>1, <1>2, <1>5
  <2> QED BY <1>1, <1>5, <2>1
<1>6. CASE matching = {} /\ \E o \in others : o.entry \in pool
  <2>1. result.status = "version_mismatch" /\ result.provider = None
    BY <1>1, <1>2, <1>6
  <2> QED BY <1>1, <1>6, <2>1
<1>7. CASE matching = {} /\ \A o \in others : o.entry \notin pool
  <2>1. result.status = Unresolved(r, others, exclude) /\ result.provider = None
    BY <1>1, <1>2, <1>7
  <2>2. CASE \E o \in others : Accepts(r, o.cap, o.version)
    <3>1. Unresolved(r, others, exclude) = "provider_pending"
      BY <2>2 DEF Unresolved
    <3> QED BY <1>1, <1>7, <2>1, <2>2, <3>1
  <2>3. CASE others # {} /\ \A o \in others : ~Accepts(r, o.cap, o.version)
    <3>1. Unresolved(r, others, exclude) = "version_mismatch"
      BY <2>3 DEF Unresolved
    <3> QED BY <1>1, <1>7, <2>1, <2>3, <3>1
  <2>4. CASE others = {}
    <3> DEFINE elsewhere == \E o \in Options : o.cap = r.cap /\ o.entry # exclude
    <3>1. IF elsewhere THEN Unresolved(r, others, exclude) = "not_visible"
                       ELSE Unresolved(r, others, exclude) \in {"self_reference", "no_provider"}
      BY <2>4 DEF Unresolved
    <3> QED BY <1>1, <1>7, <2>1, <2>4, <3>1
  <2> QED BY <2>2, <2>3, <2>4
<1> QED BY <1>1, <1>3, <1>4, <1>5, <1>6, <1>7

(* The resolutions are a function of the input and of the pool: a step     *)
(* that leaves the input alone changes none of them.                       *)
LEMMA InputKept ==
    ASSUME UNCHANGED input
    PROVE  /\ Options' = Options
           /\ \A e : Requirements(e)' = Requirements(e)
           /\ \A e : HardRequirements(e)' = HardRequirements(e)
           /\ \A r, s, exclude, pool :
                Matching(r, s, exclude, pool)' = Matching(r, s, exclude, pool)
           /\ \A r, consumer, s, exclude, pool :
                Resolution(r, consumer, s, exclude, pool)' =
                  Resolution(r, consumer, s, exclude, pool)
           /\ \A e, pool : Fails(e, pool)' = Fails(e, pool)
           /\ \A p, c, pool : Selected(p, c, pool)' = Selected(p, c, pool)
<1>1. /\ Options' = Options
      /\ \A e : Requirements(e)' = Requirements(e)
      /\ \A e : HardRequirements(e)' = HardRequirements(e)
      /\ \A c, s, cap : Preference(c, s, cap)' = Preference(c, s, cap)
  BY DEF Options, OptionsOf, DeclaredOptions, Option, Requirements, HardRequirements, Preference
<1>2. \A s, cap : VisibleIn(s, cap)' = VisibleIn(s, cap)
  BY <1>1 DEF VisibleIn, Allowed
<1>3. /\ \A r, s, exclude : Others(r, s, exclude)' = Others(r, s, exclude)
      /\ \A r, s, exclude, pool :
           Matching(r, s, exclude, pool)' = Matching(r, s, exclude, pool)
      /\ \A r, consumer, s, exclude, pool :
           Preferred(r, consumer, s, exclude, pool)' = Preferred(r, consumer, s, exclude, pool)
  BY <1>1, <1>2 DEF Others, Matching, Preferred
<1>4. ASSUME NEW r, NEW exclude, NEW pool, NEW matching, NEW preferred, NEW others
      PROVE  Cascade(r, exclude, pool, matching, preferred, others)' =
               Cascade(r, exclude, pool, matching, preferred, others)
  <2>1. Unresolved(r, others, exclude)' = Unresolved(r, others, exclude)
    BY <1>1 DEF Unresolved
  <2> QED BY <2>1, Zenon DEF Cascade
<1>5. \A r, consumer, s, exclude, pool :
        Resolution(r, consumer, s, exclude, pool)' = Resolution(r, consumer, s, exclude, pool)
  BY <1>3, <1>4 DEF Resolution
<1>6. \A e, r, pool : EntryResolution(e, r, pool)' = EntryResolution(e, r, pool)
  BY <1>5 DEF EntryResolution
<1>7. \A e, pool : Fails(e, pool)' = Fails(e, pool)
  BY <1>1, <1>6 DEF Fails, Satisfied
<1>8. \A p, c, pool : Selected(p, c, pool)' = Selected(p, c, pool)
  BY <1>1, <1>6 DEF Selected
<1> QED BY <1>1, <1>3, <1>5, <1>7, <1>8

(***************************************************************************)
(* The inductive invariant                                                 *)
(***************************************************************************)

(* The fixpoint has been reached. *)
Settled == phase \in {"ordering", "planned"}

Typed ==
  /\ InputTyped
  /\ phase \in {"new", "cycles", "resolving", "ordering", "planned", "rejected"}
  /\ eligible \subseteq Entries
  /\ order \in Seq(Entries)

(* Every eligible entry holds its place. *)
NothingFails == Settled => \A e \in eligible : ~Fails(e, eligible)

(* A self-sufficient set loses none of its members to the passes. *)
KeptWhole ==
  Unambiguous => \A S \in SUBSET Entries : SelfSufficient(S) => S \subseteq eligible

(* The order starts empty, lists planned entries once each, and ends with  *)
(* all of them.                                                            *)
OrderLists ==
  /\ ~Settled => order = <<>>
  /\ Placed \subseteq Planned
  /\ phase = "planned" => Placed = Planned
  /\ \A i, j \in 1 .. Len(order) : order[i] = order[j] => i = j

(* Every planned provider of the entry at j comes before it. *)
Grounded(j) ==
  \A p \in Planned : <<p, order[j]>> \in Edges(eligible) =>
    \E i \in 1 .. (j - 1) : order[i] = p

(* The entry at j waits for one at k or later. *)
Waits(j, k) ==
  \E i \in k .. Len(order) : <<order[i], order[j]>> \in Edges(eligible)

(* The order is grounded up to where nothing was ready any more; from      *)
(* there on every entry waits for another.                                 *)
OrderGrounded ==
  /\ phase = "ordering" => \A j \in 1 .. Len(order) : Grounded(j)
  /\ phase = "planned" => \E k \in 1 .. Len(order) + 1 :
       /\ \A j \in 1 .. (k - 1) : Grounded(j)
       /\ \A j \in k .. Len(order) : Waits(j, k)

Inv == Typed /\ NothingFails /\ KeptWhole /\ OrderLists /\ OrderGrounded

(***************************************************************************)
(* The passes                                                              *)
(***************************************************************************)

(* When no two providers compete, a member of a self-sufficient set holds  *)
(* its place as long as the whole set does.                                *)
LEMMA MembersHold ==
    ASSUME InputTyped, Unambiguous, NEW pool, pool \subseteq Entries,
           NEW S, S \subseteq pool, SelfSufficient(S), NEW e \in S
    PROVE  ~Fails(e, pool)
<1> SUFFICES ASSUME NEW r \in HardRequirements(e) PROVE Satisfied(e, r, pool)
  BY DEF Fails
<1> DEFINE M(P) == Matching(r, input.scope[e], e, P)
<1>1. M(S) # {} /\ M(S) \subseteq M(pool) /\ M(pool) \subseteq M(Entries)
  BY MatchingGrows DEF SelfSufficient
<1>2. Cardinality(M(Entries)) <= 1
  BY DEF Unambiguous
<1>3. /\ IsFiniteSet(M(Entries)) /\ Cardinality(M(Entries)) \in Nat
      /\ Cardinality(M(pool)) \in Nat /\ Cardinality(M(pool)) # 0
  BY <1>1, MatchingTyped
<1>4. Cardinality(M(pool)) <= Cardinality(M(Entries))
  BY <1>1, <1>3, FS_Subset
<1>5. Cardinality(M(pool)) = 1
  BY <1>2, <1>3, <1>4
<1> QED BY <1>5, StatusMeans DEF Satisfied, EntryResolution

(* The entries that a pass keeps. *)
LEMMA PassKeeps ==
    ASSUME Typed, KeptWhole, UNCHANGED input,
           eligible' = eligible \ {e \in eligible : Fails(e, eligible)}
    PROVE  KeptWhole'
<1>1. Unambiguous' <=> Unambiguous
  BY InputKept DEF Unambiguous
<1>2. \A S : SelfSufficient(S)' <=> SelfSufficient(S)
  BY InputKept DEF SelfSufficient
<1>3. ASSUME Unambiguous, NEW S \in SUBSET Entries, SelfSufficient(S) PROVE S \subseteq eligible'
  <2>1. S \subseteq eligible /\ eligible \subseteq Entries /\ InputTyped
    BY <1>3 DEF KeptWhole, Typed
  <2>2. \A e \in S : ~Fails(e, eligible)
    BY <1>3, <2>1, MembersHold
  <2> QED BY <2>1, <2>2
<1> QED BY <1>1, <1>2, <1>3 DEF KeptWhole, Entries

(* A step before the order is begun: it may drop entries, and reaches the  *)
(* fixpoint only when nothing fails.                                       *)
LEMMA EarlyStep ==
    ASSUME Inv, ~Settled, UNCHANGED <<input, order>>,
           phase' \in {"new", "cycles", "resolving", "ordering", "rejected"},
           eligible' \subseteq eligible, KeptWhole', NothingFails'
    PROVE  Inv'
<1>1. order = <<>> /\ order' = <<>>
  BY DEF Inv, OrderLists
<1>2. Len(order') = 0 /\ Placed' = {}
  BY <1>1 DEF Placed, Range
<1>3. Typed'
  BY DEF Inv, Typed, InputTyped, Entries
<1>4. OrderLists'
  BY <1>1, <1>2 DEF OrderLists, Settled
<1>5. OrderGrounded'
  BY <1>2 DEF OrderGrounded
<1> QED BY <1>3, <1>4, <1>5 DEF Inv

(***************************************************************************)
(* The order                                                               *)
(***************************************************************************)

(* While the order is made nothing else changes. *)
LEMMA OrderStep ==
    ASSUME Inv, UNCHANGED <<tarjanVars, input, eligible>>, phase = "ordering",
           phase' \in {"ordering", "planned"}
    PROVE  /\ NothingFails' /\ KeptWhole' /\ Planned' = Planned
           /\ Edges(eligible)' = Edges(eligible)
<1>1. Planned' = Planned
  BY DEF Planned, CycleMembers, Cycles, tarjanVars
<1>2. NothingFails'
  BY InputKept DEF Inv, NothingFails, Settled
<1>3. KeptWhole'
  BY InputKept DEF Inv, KeptWhole, Unambiguous, SelfSufficient, Entries
<1>4. Edges(eligible)' = Edges(eligible)
  BY InputKept DEF Edges
<1> QED BY <1>1, <1>2, <1>3, <1>4

(* An order extended by planned entries it does not list yet. *)
LEMMA Extended ==
    ASSUME Inv, phase = "ordering", UNCHANGED <<tarjanVars, input, eligible>>,
           NEW more \in Seq(Planned \ Placed),
           \A i, j \in 1 .. Len(more) : more[i] = more[j] => i = j,
           order' = order \o more
    PROVE  /\ order' \in Seq(Entries)
           /\ Len(order') = Len(order) + Len(more) /\ Len(order) \in Nat /\ Len(more) \in Nat
           /\ \A i \in 1 .. Len(order) : order'[i] = order[i]
           /\ \A i \in 1 .. Len(more) : order'[Len(order) + i] = more[i]
           /\ Placed' = Placed \cup Range(more)
           /\ \A i, j \in 1 .. Len(order') : order'[i] = order'[j] => i = j
<1>1. order \in Seq(Entries) /\ Planned \subseteq Entries
  BY DEF Inv, Typed, Planned
<1>2. more \in Seq(Entries)
  BY <1>1, SeqMonotonic
<1>3. /\ order' \in Seq(Entries)
      /\ Len(order') = Len(order) + Len(more) /\ Len(order) \in Nat /\ Len(more) \in Nat
      /\ \A i \in 1 .. Len(order) + Len(more) :
           order'[i] = IF i <= Len(order) THEN order[i] ELSE more[i - Len(order)]
  BY <1>1, <1>2, ConcatProperties, LenProperties
<1>4. /\ \A i \in 1 .. Len(order) : order'[i] = order[i]
      /\ \A i \in 1 .. Len(more) : order'[Len(order) + i] = more[i]
  BY <1>3
<1>5. /\ Placed = {order[i] : i \in 1 .. Len(order)}
      /\ Range(more) = {more[i] : i \in 1 .. Len(more)}
      /\ Placed' = {order'[i] : i \in 1 .. Len(order')}
  <2>1. /\ DOMAIN order = 1 .. Len(order) /\ DOMAIN more = 1 .. Len(more)
        /\ DOMAIN order' = 1 .. Len(order')
    BY <1>1, <1>2, <1>3, LenProperties
  <2> QED BY <2>1 DEF Placed, Range
<1>6. Placed' = Placed \cup Range(more)
  <2>1. ASSUME NEW i \in 1 .. Len(order') PROVE order'[i] \in Placed \cup Range(more)
    <3>1. CASE i <= Len(order)
      BY <1>3, <1>5, <3>1
    <3>2. CASE ~ (i <= Len(order))
      <4>1. i - Len(order) \in 1 .. Len(more)
        BY <1>3, <3>2
      <4> QED BY <1>3, <1>5, <3>2, <4>1
    <3> QED BY <3>1, <3>2
  <2>2. ASSUME NEW i \in 1 .. Len(order) PROVE order[i] \in Placed'
    BY <1>3, <1>4, <1>5
  <2>3. ASSUME NEW i \in 1 .. Len(more) PROVE more[i] \in Placed'
    <3>1. Len(order) + i \in 1 .. Len(order')
      BY <1>3
    <3> QED BY <1>4, <1>5, <3>1
  <2>4. Placed' \subseteq Placed \cup Range(more)
    BY <1>5, <2>1
  <2>5. Placed \subseteq Placed'
    BY <1>5, <2>2
  <2>6. Range(more) \subseteq Placed'
    BY <1>5, <2>3
  <2> QED BY <2>4, <2>5, <2>6
<1>7. ASSUME NEW i \in 1 .. Len(order'), NEW j \in 1 .. Len(order'), order'[i] = order'[j]
      PROVE  i = j
  <2>1. \A m \in 1 .. Len(order) : \A k \in 1 .. Len(more) : order[m] # more[k]
    <3>1. \A k \in 1 .. Len(more) : more[k] \in Planned \ Placed
      BY ElementOfSeq
    <3> QED BY <3>1, <1>5
  <2>2. \A m, k \in 1 .. Len(order) : order[m] = order[k] => m = k
    BY DEF Inv, OrderLists
  <2>3. CASE i <= Len(order) /\ j <= Len(order)
    BY <1>3, <1>4, <1>7, <2>2, <2>3
  <2>4. CASE i <= Len(order) /\ ~ (j <= Len(order))
    <3>1. j - Len(order) \in 1 .. Len(more) /\ i \in 1 .. Len(order)
      BY <1>3, <2>4
    <3> QED BY <1>3, <1>7, <2>1, <2>4, <3>1
  <2>5. CASE ~ (i <= Len(order)) /\ j <= Len(order)
    <3>1. i - Len(order) \in 1 .. Len(more) /\ j \in 1 .. Len(order)
      BY <1>3, <2>5
    <3> QED BY <1>3, <1>7, <2>1, <2>5, <3>1
  <2>6. CASE ~ (i <= Len(order)) /\ ~ (j <= Len(order))
    <3>1. i - Len(order) \in 1 .. Len(more) /\ j - Len(order) \in 1 .. Len(more)
      BY <1>3, <2>6
    <3>2. more[i - Len(order)] = more[j - Len(order)]
      BY <1>3, <1>7, <2>6
    <3>3. i - Len(order) = j - Len(order)
      BY <3>1, <3>2
    <3> QED BY <1>3, <3>3
  <2> QED BY <2>3, <2>4, <2>5, <2>6
<1> QED BY <1>3, <1>4, <1>6, <1>7

(* What was grounded stays so when the order is extended. *)
LEMMA StaysGrounded ==
    ASSUME Inv, NEW j \in 1 .. Len(order), Grounded(j), Len(order) \in Nat,
           Planned' = Planned, Edges(eligible)' = Edges(eligible),
           \A i \in 1 .. Len(order) : order'[i] = order[i]
    PROVE  Grounded(j)'
<1> SUFFICES ASSUME NEW p \in Planned, <<p, order[j]>> \in Edges(eligible)
             PROVE  \E i \in 1 .. (j - 1) : order'[i] = p
  BY DEF Grounded
<1>1. PICK i \in 1 .. (j - 1) : order[i] = p
  BY DEF Grounded
<1>2. i \in 1 .. Len(order)
  OBVIOUS
<1> QED BY <1>1, <1>2

(* Kahn's step: the entry placed next waits for no planned entry that is   *)
(* not placed.                                                             *)
LEMMA PlaceStep == Inv /\ Place => Inv'
<1> SUFFICES ASSUME Inv, Place PROVE Inv'
  OBVIOUS
<1> DEFINE e == Min(Ready)
           more == << e >>
<1>1. /\ phase = "ordering" /\ Ready # {} /\ order' = Append(order, e)
      /\ UNCHANGED <<tarjanVars, input, phase, eligible>>
  BY DEF Place
<1>2. /\ NothingFails' /\ KeptWhole' /\ Planned' = Planned
      /\ Edges(eligible)' = Edges(eligible)
  BY <1>1, OrderStep
<1>3. Ready \subseteq Planned \ Placed /\ Planned \subseteq Entries /\ Entries \subseteq Nat
  BY NodesAreIds DEF Ready, Inv, Typed, Planned, Entries
<1>4. e \in Ready
  <2>1. Ready \in SUBSET Nat
    BY <1>3
  <2> QED BY <1>1, <2>1, LeastMember
<1>5. /\ more \in Seq(Planned \ Placed) /\ Len(more) = 1 /\ more[1] = e /\ Range(more) = {e}
      /\ \A i, j \in 1 .. Len(more) : more[i] = more[j] => i = j
      /\ order' = order \o more
  <2>1. e \in Planned \ Placed /\ e \in Entries /\ order \in Seq(Entries)
    BY <1>3, <1>4 DEF Inv, Typed
  <2> HIDE DEF e
  <2>2. more \in Seq(Planned \ Placed) /\ Len(more) = 1 /\ more[1] = e
    BY <2>1
  <2>3. Range(more) = {e}
    BY DEF Range
  <2>4. order' = order \o more
    BY <1>1, <2>1, AppendIsConcat
  <2> QED BY <2>2, <2>3, <2>4
<1> HIDE DEF e, more
<1>6. /\ order' \in Seq(Entries)
      /\ Len(order') = Len(order) + Len(more) /\ Len(order) \in Nat /\ Len(more) \in Nat
      /\ \A i \in 1 .. Len(order) : order'[i] = order[i]
      /\ \A i \in 1 .. Len(more) : order'[Len(order) + i] = more[i]
      /\ Placed' = Placed \cup Range(more)
      /\ \A i, j \in 1 .. Len(order') : order'[i] = order'[j] => i = j
  BY <1>1, <1>5, Extended
<1>7. Typed'
  BY <1>1, <1>6 DEF Inv, Typed, InputTyped, Entries
<1>8. OrderLists'
  <2>1. Placed' \subseteq Planned'
    BY <1>2, <1>3, <1>4, <1>5, <1>6 DEF Inv, OrderLists
  <2> QED BY <1>1, <1>6, <2>1 DEF OrderLists, Settled
<1>9. \A j \in 1 .. Len(order') : Grounded(j)'
  <2> SUFFICES ASSUME NEW j \in 1 .. Len(order') PROVE Grounded(j)'
    OBVIOUS
  <2>1. CASE j \in 1 .. Len(order)
    <3>1. Grounded(j)
      BY <1>1, <2>1 DEF Inv, OrderGrounded
    <3> QED BY <1>2, <1>6, <2>1, <3>1, StaysGrounded
  <2>2. CASE j = Len(order) + 1
    <3>1. order'[j] = e
      BY <1>5, <1>6, <2>2
    <3>2. \A p \in Planned : <<p, e>> \in Edges(eligible) => p \in Placed
      BY <1>4 DEF Ready
    <3>3. \A p \in Placed : \E i \in 1 .. Len(order) : order[i] = p
      BY LenProperties DEF Placed, Range, Inv, Typed
    <3> QED BY <1>2, <1>6, <2>2, <3>1, <3>2, <3>3 DEF Grounded
  <2>3. Len(order') = Len(order) + 1 /\ Len(order) \in Nat
    BY <1>5, <1>6
  <2> QED BY <2>1, <2>2, <2>3
<1>10. OrderGrounded'
  BY <1>1, <1>9 DEF OrderGrounded
<1> QED BY <1>2, <1>7, <1>8, <1>10 DEF Inv

(* The end of the order: nothing is ready, so each entry that is left      *)
(* waits for another one that is left, and all of them are added.          *)
LEMMA FinishStep == Inv /\ Finish => Inv'
<1> SUFFICES ASSUME Inv, Finish PROVE Inv'
  OBVIOUS
<1> DEFINE left == Planned \ Placed
           more == InIdOrder(left)
<1>1. /\ phase = "ordering" /\ Ready = {} /\ order' = order \o more /\ phase' = "planned"
      /\ UNCHANGED <<tarjanVars, input, eligible>>
  BY DEF Finish
<1>2. /\ NothingFails' /\ KeptWhole' /\ Planned' = Planned
      /\ Edges(eligible)' = Edges(eligible)
  BY <1>1, OrderStep
<1>3. left \in SUBSET Nat /\ IsFiniteSet(left)
  <2>1. left \in SUBSET Entries
    BY DEF Inv, Typed, Planned
  <2>2. Entries \subseteq Nat /\ IsFiniteSet(Entries)
    BY NodesAreIds DEF Entries
  <2> QED BY <2>1, <2>2, FS_Subset
<1>4. /\ more \in Seq(left) /\ Range(more) = left
      /\ \A i, j \in 1 .. Len(more) : more[i] = more[j] => i = j
  <2> HIDE DEF left
  <2> QED BY <1>3, InIdOrderListsAll
<1> HIDE DEF more
<1>5. /\ order' \in Seq(Entries)
      /\ Len(order') = Len(order) + Len(more) /\ Len(order) \in Nat /\ Len(more) \in Nat
      /\ \A i \in 1 .. Len(order) : order'[i] = order[i]
      /\ \A i \in 1 .. Len(more) : order'[Len(order) + i] = more[i]
      /\ Placed' = Placed \cup Range(more)
      /\ \A i, j \in 1 .. Len(order') : order'[i] = order'[j] => i = j
  BY <1>1, <1>4, Extended
<1>6. PICK k \in 1 .. Len(order') + 1 : k = Len(order) + 1
  BY <1>5
<1>7. Typed'
  BY <1>1, <1>5 DEF Inv, Typed, InputTyped, Entries
<1>8. OrderLists'
  <2>1. Placed' = Planned'
    BY <1>2, <1>4, <1>5 DEF Inv, OrderLists
  <2> QED BY <1>1, <1>5, <2>1 DEF OrderLists, Settled
<1>9. \A j \in 1 .. (k - 1) : Grounded(j)'
  <2> SUFFICES ASSUME NEW j \in 1 .. Len(order) PROVE Grounded(j)'
    BY <1>5, <1>6
  <2>1. Grounded(j)
    BY <1>1 DEF Inv, OrderGrounded
  <2> QED BY <1>2, <1>5, <2>1, StaysGrounded
<1>10. \A j \in k .. Len(order') : Waits(j, k)'
  <2> SUFFICES ASSUME NEW j \in k .. Len(order') PROVE Waits(j, k)'
    OBVIOUS
  <2>1. j - Len(order) \in 1 .. Len(more) /\ j = Len(order) + (j - Len(order))
    BY <1>5, <1>6
  <2>2. order'[j] = more[j - Len(order)]
    BY <1>5, <2>1
  <2>3. order'[j] \in left
    BY <1>4, <2>1, <2>2, ElementOfSeq
  <2>4. PICK p \in left : <<p, order'[j]>> \in Edges(eligible)
    BY <1>1, <2>3 DEF Ready
  <2>5. PICK i \in 1 .. Len(more) : more[i] = p
    BY <1>4, LenProperties DEF Range
  <2>6. Len(order) + i \in k .. Len(order') /\ order'[Len(order) + i] = p
    BY <1>5, <1>6, <2>5
  <2>7. \E h \in k .. Len(order') : <<order'[h], order'[j]>> \in Edges(eligible)'
    BY <1>2, <2>4, <2>6
  <2> QED BY <2>7 DEF Waits
<1>11. OrderGrounded'
  BY <1>1, <1>9, <1>10 DEF OrderGrounded
<1> QED BY <1>2, <1>7, <1>8, <1>11 DEF Inv

(***************************************************************************)
(* The invariant, and that a plan is closed                                *)
(***************************************************************************)

LEMMA InitInv == Init => Inv
<1> SUFFICES ASSUME Init PROVE Inv
  OBVIOUS
<1>1. /\ phase = "new" /\ eligible = Entries /\ order = <<>> /\ input \in Inputs
      /\ Len(order) = 0 /\ Placed = {}
  BY DEF Init, Placed, Range
<1>2. Typed
  BY <1>1 DEF Typed, InputTyped
<1>3. OrderLists /\ OrderGrounded
  BY <1>1 DEF OrderLists, OrderGrounded, Settled
<1>4. NothingFails /\ KeptWhole
  BY <1>1 DEF NothingFails, KeptWhole, Settled
<1> QED BY <1>2, <1>3, <1>4 DEF Inv

LEMMA NextInv == Inv /\ [Next]_vars => Inv'
<1> SUFFICES ASSUME Inv, [Next]_vars PROVE Inv'
  OBVIOUS
<1>1. ASSUME UNCHANGED <<input, eligible, order>>, ~Settled,
             phase' \in {"cycles", "resolving", "rejected"}
      PROVE  Inv'
  <2>1. KeptWhole'
    BY <1>1, InputKept DEF Inv, KeptWhole, Unambiguous, SelfSufficient, Entries
  <2>2. NothingFails'
    BY <1>1 DEF NothingFails, Settled
  <2> QED BY <1>1, <2>1, <2>2, EarlyStep
<1>2. CASE Validate
  BY <1>1, <1>2 DEF Validate, Settled
<1>3. CASE SearchCycles
  BY <1>1, <1>3 DEF SearchCycles, resolverVars, Settled
<1>4. CASE CyclesFound
  BY <1>1, <1>4 DEF CyclesFound, Settled
<1>5. CASE Pass
  <2> DEFINE failed == {e \in eligible : Fails(e, eligible)}
  <2>1. /\ phase = "resolving" /\ eligible' = eligible \ failed
        /\ phase' = IF failed = {} THEN "ordering" ELSE "resolving"
        /\ UNCHANGED <<tarjanVars, input, order>>
    BY <1>5 DEF Pass
  <2>2. KeptWhole'
    BY <2>1, PassKeeps DEF Inv
  <2>3. NothingFails'
    <3>1. CASE failed = {}
      <4>1. eligible' = eligible /\ \A e \in eligible : ~Fails(e, eligible)
        BY <2>1, <3>1
      <4> QED BY <2>1, <4>1, InputKept DEF NothingFails
    <3>2. CASE failed # {}
      BY <2>1, <3>2 DEF NothingFails, Settled
    <3> QED BY <3>1, <3>2
  <2>4. ~Settled /\ phase' \in {"new", "cycles", "resolving", "ordering", "rejected"}
    BY <2>1 DEF Settled
  <2> QED BY <2>1, <2>2, <2>3, <2>4, EarlyStep
<1>6. CASE Place
  BY <1>6, PlaceStep
<1>7. CASE Finish
  BY <1>7, FinishStep
<1>8. CASE UNCHANGED vars
  <2>1. UNCHANGED <<tarjanVars, input, phase, eligible, order>>
    BY <1>8 DEF vars, resolverVars
  <2>2. /\ Unambiguous' <=> Unambiguous
        /\ \A S : SelfSufficient(S)' <=> SelfSufficient(S)
        /\ Planned' = Planned /\ Placed' = Placed /\ Edges(eligible)' = Edges(eligible)
        /\ Settled' <=> Settled
    BY <2>1, InputKept DEF Unambiguous, SelfSufficient, Planned, CycleMembers, Cycles, Placed,
                           Edges, Settled, tarjanVars
  <2>3. /\ \A j : Grounded(j)' <=> Grounded(j)
        /\ \A j, k : Waits(j, k)' <=> Waits(j, k)
    BY <2>1, <2>2 DEF Grounded, Waits
  <2>4. Typed' /\ KeptWhole' /\ OrderLists'
    BY <2>1, <2>2 DEF Inv, Typed, InputTyped, KeptWhole, OrderLists, Entries
  <2>5. NothingFails'
    BY <2>1, <2>2, InputKept DEF Inv, NothingFails
  <2>6. OrderGrounded'
    BY <2>1, <2>3 DEF Inv, OrderGrounded
  <2> QED BY <2>4, <2>5, <2>6 DEF Inv
<1> QED BY <1>2, <1>3, <1>4, <1>5, <1>6, <1>7, <1>8 DEF Next

(* The fixpoint, the order and what they have in common hold in every      *)
(* state of every resolution.                                              *)
THEOREM ResolutionInvariant == Spec => []Inv
  BY InitInv, NextInv, PTL DEF Spec

(* A resolved hard requirement has its provider among the entries of the   *)
(* pool, in the consumer's lineage, visible and at an included version.    *)
LEMMA ResolvedByAnother ==
    ASSUME InputTyped, NEW c, NEW r, NEW pool, pool \subseteq Entries, Satisfied(c, r, pool)
    PROVE  \E p \in pool \ {c} :
             /\ input.scope[p] \in Lineage(input.scope[c])
             /\ \A a \in Lineage(input.scope[c]) : r.cap \in input.view[a]
             /\ \E o \in OptionsOf(p) : o.cap = r.cap /\ Includes(r.specifier, o.version)
<1> DEFINE s == input.scope[c]
<1>1. PICK o \in Matching(r, s, c, pool) : TRUE
  BY StatusMeans DEF Satisfied, EntryResolution
<1>2. /\ o \in VisibleIn(s, r.cap) /\ o.entry \in pool \ {c}
      /\ Accepts(r, o.cap, o.version)
  BY <1>1 DEF Matching, Others
<1>3. o \in Options /\ o.cap = r.cap /\ o.scope \in Lineage(s) /\ r.cap \in Allowed(s)
  BY <1>2 DEF VisibleIn
<1>4. o \in OptionsOf(o.entry) /\ o.scope = input.scope[o.entry]
  BY <1>3, OptionsTyped
<1>5. Includes(r.specifier, o.version)
  BY <1>2 DEF Accepts
<1>6. \A a \in Lineage(s) : r.cap \in input.view[a]
  BY <1>3 DEF Allowed
<1> QED BY <1>2, <1>3, <1>4, <1>5, <1>6

(* A plan that is accepted is closed, whatever the composition: every hard *)
(* requirement of a planned entry is met by another planned entry that its *)
(* scope can see.  (DependencyResolver.resolve: the fixpoint and           *)
(* _resolve_requirements.)                                                 *)
THEOREM PlansAreClosed == Spec => []PlanClosed
<1>1. Inv => PlanClosed
  <2> SUFFICES ASSUME Inv, Acyclic, NEW c \in Placed, NEW r \in HardRequirements(c)
               PROVE  \E p \in Placed \ {c} :
                        /\ input.scope[p] \in Lineage(input.scope[c])
                        /\ \A a \in Lineage(input.scope[c]) : r.cap \in input.view[a]
                        /\ \E o \in OptionsOf(p) :
                             o.cap = r.cap /\ Includes(r.specifier, o.version)
    BY DEF PlanClosed
  <2>1. phase = "planned" /\ CycleMembers = {}
    BY DEF Acyclic, Done, CycleMembers
  <2>2. Placed = eligible /\ eligible \subseteq Entries /\ InputTyped
    BY <2>1 DEF Inv, OrderLists, Planned, Typed
  <2>3. Satisfied(c, r, eligible)
    BY <2>1, <2>2 DEF Inv, NothingFails, Settled, Fails
  <2> QED BY <2>2, <2>3, ResolvedByAnother
<1> QED BY <1>1, ResolutionInvariant, PTL

(***************************************************************************)
(* The plan is the greatest one and in activation order                    *)
(***************************************************************************)

(* An order without repetition has as many places as entries. *)
LEMMA TypeCorrect == Inv => TypeOK
<1> SUFFICES ASSUME Inv PROVE TypeOK
  OBVIOUS
<1>1. order \in Seq(Entries) /\ Len(order) \in Nat /\ order \in [1 .. Len(order) -> Entries]
  BY LenProperties DEF Inv, Typed
<1>2. order \in [1 .. Len(order) -> Placed] /\ Placed \subseteq Entries
  BY <1>1 DEF Placed, Range
<1>3. order \in Bijection(1 .. Len(order), Placed)
  <2>1. \A i, j \in 1 .. Len(order) : order[i] = order[j] => i = j
    BY DEF Inv, OrderLists
  <2>2. \A e \in Placed : \E i \in 1 .. Len(order) : order[i] = e
    BY <1>1 DEF Placed, Range
  <2> QED BY <1>2, <2>1, <2>2, Fun_IsBij
<1>4. Cardinality(Placed) = Len(order)
  BY <1>1, <1>3, FS_CountingElements, Fun_ExistsBij
<1> QED BY <1>2, <1>4 DEF TypeOK, Inv, Typed, OrderLists

(* Where an entry is in the order. *)
LEMMA PositionOf ==
    ASSUME Inv, NEW i \in 1 .. Len(order)
    PROVE  Position(order[i]) = i
<1>1. DOMAIN order = 1 .. Len(order)
  BY LenProperties DEF Inv, Typed
<1>2. \A j \in DOMAIN order : order[j] = order[i] => j = i
  BY <1>1 DEF Inv, OrderLists
<1> QED BY <1>1, <1>2 DEF Position

(* Reachability is reflexive and transitive, and an edge reaches.          *)
LEMMA ReachesSteps ==
    ASSUME NEW edges
    PROVE  /\ \A a : Reaches(edges, a, a)
           /\ \A a, b, c : Reaches(edges, a, b) /\ Reaches(edges, b, c) => Reaches(edges, a, c)
           /\ \A a, b : <<a, b>> \in edges => Reaches(edges, a, b)
<1>1. \A a, b : <<a, b>> \in edges => Reaches(edges, a, b)
  <2> SUFFICES ASSUME NEW a, NEW b, <<a, b>> \in edges, NEW S \in SUBSET Nodes, a \in S,
                      \A e \in edges : e[1] \in S => e[2] \in S
               PROVE  b \in S
    BY DEF Reaches
  <2>1. <<a, b>>[1] = a /\ <<a, b>>[2] = b
    OBVIOUS
  <2> QED BY <2>1
<1>2. \A a : Reaches(edges, a, a)
  BY DEF Reaches
<1>3. \A a, b, c : Reaches(edges, a, b) /\ Reaches(edges, b, c) => Reaches(edges, a, c)
  BY DEF Reaches
<1> QED BY <1>1, <1>2, <1>3

(* In a finite set whose members all have a predecessor in it, every       *)
(* member is reached from a loop.                                          *)
LEMMA LoopUpstream ==
    ASSUME NEW L, IsFiniteSet(L), NEW edges,
           \A m \in L : \E q \in L : <<q, m>> \in edges, NEW p \in L
    PROVE  \E q, m \in L : /\ <<q, m>> \in edges /\ Reaches(edges, m, q)
                          /\ Reaches(edges, q, p)
<1> DEFINE Up(m) == {q \in L : Reaches(edges, q, m)}
           U == Up(p)
           F == {Up(m) : m \in U}
<1>1. p \in U
  BY ReachesSteps
<1>2. PICK W : SmallestIn(W, F)
  <2>1. F \subseteq SUBSET L /\ F # {}
    BY <1>1
  <2> HIDE DEF F
  <2> QED BY <2>1, SmallestSet
<1>3. PICK m \in U : W = Up(m)
  BY <1>2 DEF SmallestIn
<1>4. m \in L /\ Reaches(edges, m, p)
  BY <1>3
<1>5. PICK q \in L : <<q, m>> \in edges
  BY <1>4
<1>6. Reaches(edges, q, m) /\ Reaches(edges, q, p)
  BY <1>4, <1>5, ReachesSteps
<1>7. Up(q) \in F
  BY <1>6
<1>8. Up(q) \subseteq W
  BY <1>3, <1>6, ReachesSteps
<1>9. Up(q) = W
  BY <1>2, <1>7, <1>8 DEF SmallestIn
<1>10. m \in Up(q)
  BY <1>3, <1>4, <1>9, ReachesSteps
<1> QED BY <1>4, <1>5, <1>6, <1>10

(* Of a finished order: a selected edge goes forward, or a loop of         *)
(* selected edges lies upstream of it.                                     *)
LEMMA OrderIsActivationOrder == Inv => ProvidersFirst
<1> SUFFICES ASSUME Inv, Acyclic, NEW e \in Edges(eligible)
             PROVE  \/ Position(e[1]) < Position(e[2])
                    \/ \E n \in Placed : /\ OnLoop(Edges(eligible), n)
                                         /\ Reaches(Edges(eligible), n, e[1])
  BY DEF ProvidersFirst, Forward
<1> DEFINE edges == Edges(eligible)
<1>1. phase = "planned" /\ CycleMembers = {}
  BY DEF Acyclic, Done, CycleMembers
<1>2. /\ Placed = eligible /\ Planned = eligible /\ eligible \subseteq Entries
      /\ order \in Seq(Entries) /\ Len(order) \in Nat
      /\ Placed = {order[i] : i \in 1 .. Len(order)}
  <2>1. Planned = eligible
    BY <1>1 DEF Planned
  <2>2. order \in Seq(Entries) /\ DOMAIN order = 1 .. Len(order) /\ Len(order) \in Nat
    BY LenProperties DEF Inv, Typed
  <2> QED BY <1>1, <2>1, <2>2 DEF Inv, OrderLists, Typed, Placed, Range
<1>3. e \in eligible \X eligible /\ e = <<e[1], e[2]>>
  BY DEF Edges
<1>4. PICK a \in 1 .. Len(order) : order[a] = e[1]
  BY <1>2, <1>3
<1>5. PICK b \in 1 .. Len(order) : order[b] = e[2]
  BY <1>2, <1>3
<1>6. Position(e[1]) = a /\ Position(e[2]) = b
  BY <1>4, <1>5, PositionOf
<1>7. PICK k \in 1 .. Len(order) + 1 :
         /\ \A j \in 1 .. (k - 1) : Grounded(j)
         /\ \A j \in k .. Len(order) : Waits(j, k)
  BY <1>1 DEF Inv, OrderGrounded
<1>8. CASE b < k
  <2>1. \E i \in 1 .. (b - 1) : order[i] = order[a]
    <3>1. Grounded(b)
      BY <1>2, <1>7, <1>8
    <3>2. <<order[a], order[b]>> \in Edges(eligible) /\ order[a] \in Planned
      BY <1>2, <1>3, <1>4, <1>5
    <3> QED BY <3>1, <3>2 DEF Grounded
  <2>2. PICK i \in 1 .. (b - 1) : order[i] = order[a]
    BY <2>1
  <2>3. i = a
    BY <1>2, <2>2 DEF Inv, OrderLists
  <2> QED BY <1>2, <1>6, <2>2, <2>3
<1>9. CASE ~ (b < k) /\ a < k
  BY <1>2, <1>6, <1>9
<1>10. CASE ~ (b < k) /\ ~ (a < k)
  <2> DEFINE L == {order[i] : i \in k .. Len(order)}
  <2>1. L \subseteq Placed
    BY <1>2
  <2>2. IsFiniteSet(L)
    <3>1. L \in SUBSET Entries /\ IsFiniteSet(Entries)
      BY <1>2, <2>1, NodesAreIds DEF Entries
    <3> HIDE DEF L
    <3> QED BY <3>1, FS_Subset
  <2>3. \A m \in L : \E q \in L : <<q, m>> \in edges
    BY <1>7 DEF Waits
  <2>4. e[1] \in L
    BY <1>2, <1>4, <1>10
  <2>5. PICK q \in L, m \in L : <<q, m>> \in edges /\ Reaches(edges, m, q) /\ Reaches(edges, q, e[1])
    <3> HIDE DEF L, edges
    <3> QED BY <2>2, <2>3, <2>4, LoopUpstream
  <2>6. <<q, m>>[1] = q /\ <<q, m>>[2] = m
    OBVIOUS
  <2>7. OnLoop(edges, q)
    <3> HIDE DEF L, edges
    <3> QED BY <2>5, <2>6 DEF OnLoop
  <2> HIDE DEF L
  <2> QED BY <2>1, <2>5, <2>7
<1> QED BY <1>2, <1>7, <1>8, <1>9, <1>10

(* Whatever the composition, the plan is the greatest one when no two      *)
(* providers compete, lists each planned entry once, and mounts providers  *)
(* before the consumers they were selected for.                            *)
(* (DependencyResolver.resolve: the passes, _activation_order.)            *)
THEOREM PlansAreGreatest == Spec => []GreatestPlan
<1>1. Inv => GreatestClosedSet
  BY DEF Inv, KeptWhole, GreatestClosedSet
<1> QED BY <1>1, TypeCorrect, OrderIsActivationOrder, ResolutionInvariant, PTL DEF GreatestPlan

(***************************************************************************)
(* The generation a specifier pins                                         *)
(***************************************************************************)

(* The upper bounds of a specifier, and the lowest of them. *)
Uppers(specifier) == {c \in specifier : c.op \in {"<", "<="}}
Ceiling(specifier) ==
  CHOOSE c \in Uppers(specifier) : \A d \in Uppers(specifier) : c.version <= d.version

(* Majors are in the order of the versions, and the major a lower or an    *)
(* upper bound admits includes the bound's.                                *)
LEMMA Majors ==
    ASSUME NEW u \in Nat, NEW v \in Nat
    PROVE  /\ u <= v => Major(u) <= Major(v)
           /\ v < u /\ Minor(u) = 0 => Major(v) <= Major(u) - 1
           /\ Major(u) \in Nat
  BY DEF Major, Minor, Step

(* Pinning a specifier to its generation loses no version it contains:     *)
(* specifier_major proves a generation only where every contained version  *)
(* is of that major.                                                       *)
LEMMA PinIsSound ==
    ASSUME NEW spec, spec \subseteq [op : Operators, version : Nat], IsFiniteSet(spec),
           NEW v \in Nat, Includes(spec, v)
    PROVE  SpecifierMajor(spec) \in {Agnostic, Major(v)}
<1> DEFINE pinned == Bounds(spec, {"==", "~="})
           lower == Bounds(spec, {">=", ">"})
           upper == Uppers(spec)
<1>1. \A c \in spec : Admits(c, v) /\ c.op \in Operators /\ c.version \in Nat
  BY DEF Includes
<1>2. SpecifierMajor(spec) =
        CASE pinned # {} -> Major(Min(pinned))
          [] pinned = {} /\ (lower = {} \/ upper = {}) -> Agnostic
          [] OTHER -> IF Major(Max(lower)) = CeilingMajor(Ceiling(spec).op, Ceiling(spec).version)
                      THEN Major(Max(lower)) ELSE Agnostic
  BY Zenon DEF SpecifierMajor, Ceiling, Uppers
<1>3. pinned \in SUBSET Nat /\ lower \in SUBSET Nat /\ IsFiniteSet(lower)
  <2>1. pinned \in SUBSET Nat /\ lower \in SUBSET Nat
    BY <1>1 DEF Bounds
  <2>2. IsFiniteSet(lower)
    <3> DEFINE D == {c \in spec : c.op \in {">=", ">"}}
               f == [c \in D |-> c.version]
    <3>1. IsFiniteSet(D)
      BY FS_Subset
    <3>2. f \in [D -> lower] /\ \A t \in lower : \E c \in D : f[c] = t
      BY DEF Bounds
    <3> HIDE DEF f, D, lower
    <3> QED BY <3>1, <3>2, Fun_IsSurj, FS_Surjection
  <2> QED BY <2>1, <2>2
<1>4. \A u \in pinned : Major(v) = Major(u)
  BY <1>1 DEF Bounds, Admits
<1>5. \A u \in lower : u <= v
  BY <1>1 DEF Bounds, Admits
<1>6. \A c \in upper : /\ c.version \in Nat
                       /\ Major(v) <= CeilingMajor(c.op, c.version)
  <2> SUFFICES ASSUME NEW c \in upper
               PROVE  c.version \in Nat /\ Major(v) <= CeilingMajor(c.op, c.version)
    OBVIOUS
  <2>1. \/ c.op = "<" /\ v < c.version
        \/ c.op = "<=" /\ v <= c.version
    BY <1>1 DEF Uppers, Admits
  <2>2. c.version \in Nat /\ c.op \in {"<", "<="}
    BY <1>1 DEF Uppers
  <2>3. v <= c.version
    BY <2>1, <2>2
  <2> QED BY <2>1, <2>2, <2>3, Majors DEF CeilingMajor
<1>7. CASE pinned # {}
  <2>1. Min(pinned) \in pinned
    <3> HIDE DEF pinned
    <3> QED BY <1>3, <1>7, LeastMember
  <2> HIDE DEF pinned
  <2> QED BY <1>2, <1>4, <1>7, <2>1
<1>8. CASE pinned = {} /\ (lower = {} \/ upper = {})
  <2> HIDE DEF pinned, lower, upper
  <2> QED BY <1>2, <1>8
<1>9. CASE pinned = {} /\ lower # {} /\ upper # {}
  <2>1. Max(lower) \in lower
    <3> HIDE DEF lower
    <3> QED BY <1>3, <1>9, GreatestMember
  <2>2. Ceiling(spec) \in upper
    <3> DEFINE V == {c.version : c \in upper}
    <3>1. V \in SUBSET Nat /\ V # {}
      BY <1>6, <1>9
    <3>2. Min(V) \in V /\ \A u \in V : Min(V) <= u
      <4> HIDE DEF V
      <4> QED BY <3>1, LeastMember
    <3>3. \E c \in upper : \A d \in upper : c.version <= d.version
      BY <3>2
    <3> QED BY <3>3 DEF Ceiling
  <2>3. SpecifierMajor(spec) =
          IF Major(Max(lower)) = CeilingMajor(Ceiling(spec).op, Ceiling(spec).version)
          THEN Major(Max(lower)) ELSE Agnostic
    <3> HIDE DEF pinned, lower, upper
    <3> QED BY <1>2, <1>9
  <2>4. /\ Major(Max(lower)) <= Major(v) /\ Major(Max(lower)) \in Nat /\ Major(v) \in Nat
        /\ Major(v) <= CeilingMajor(Ceiling(spec).op, Ceiling(spec).version)
    <3>1. Max(lower) \in Nat /\ Max(lower) <= v
      BY <1>3, <1>5, <2>1
    <3> HIDE DEF lower, upper
    <3> QED BY <1>6, <2>2, <3>1, Majors
  <2> HIDE DEF pinned, lower, upper
  <2>5. CASE Major(Max(lower)) = CeilingMajor(Ceiling(spec).op, Ceiling(spec).version)
    <3>1. Major(Max(lower)) = Major(v)
      BY <2>4, <2>5
    <3> QED BY <2>3, <2>5, <3>1
  <2>6. CASE Major(Max(lower)) # CeilingMajor(Ceiling(spec).op, Ceiling(spec).version)
    BY <2>3, <2>6
  <2> QED BY <2>5, <2>6
<1> QED BY <1>7, <1>8, <1>9

LEMMA PinsAreHarmless == Inv => PinRejectsNothing
<1> SUFFICES ASSUME Inv, NEW e \in Entries, NEW r \in Requirements(e), NEW p \in Entries,
                    NEW o \in OptionsOf(p), o.cap = r.cap, Includes(r.specifier, o.version)
             PROVE  Accepts(r, o.cap, o.version)
  BY DEF PinRejectsNothing
<1>1. o.version \in Nat
  BY OptionsTyped DEF Inv, Typed
<1>2. WellFormed(r)
  BY InputsAreCompositions DEF Inv, Typed, InputTyped, InputOK, Requirements, Entries
<1>3. r.generation \in {Agnostic, Major(o.version)}
  BY <1>1, <1>2, PinIsSound DEF WellFormed
<1> QED BY <1>3 DEF Accepts

(***************************************************************************)
(* The two explanations of a requirement agree                             *)
(***************************************************************************)

(* The verdict on a provider, case by case. *)
LEMMA VerdictMeans ==
    ASSUME InputTyped, NEW r, NEW s, NEW e, NEW pool, NEW result,
           NEW o \in Options, o.cap = r.cap
    PROVE  LET verdict == Rejection(o, r, s, e, pool, result)
           IN /\ o \notin Others(r, s, e) =>
                   verdict \in {"self_reference", "capability_not_exposed", "not_visible"}
              /\ o \in Others(r, s, e) /\ o.entry \notin pool => verdict = "provider_pending"
              /\ o \in Others(r, s, e) /\ o.entry \in pool /\ ~Accepts(r, o.cap, o.version) =>
                   verdict = "mismatch"
              /\ o \in Matching(r, s, e, pool) =>
                   verdict = IF o.entry = result.provider /\ o.version = result.version
                             THEN "selected"
                             ELSE IF result.status = "ambiguous" THEN "ambiguous"
                             ELSE "not_selected"
<1>1. o \in VisibleIn(s, r.cap) <=> o.scope \in Lineage(s) /\ r.cap \in Allowed(s)
  BY DEF VisibleIn
<1>2. o \in Others(r, s, e) <=> o \in VisibleIn(s, r.cap) /\ o.entry # e
  BY DEF Others
<1>3. o \in Matching(r, s, e, pool) <=>
        o \in Others(r, s, e) /\ o.entry \in pool /\ Accepts(r, o.cap, o.version)
  BY DEF Matching
<1>4. CASE o.entry = e
  <2>1. Rejection(o, r, s, e, pool, result) = "self_reference"
    BY <1>4 DEF Rejection
  <2> QED BY <1>2, <1>3, <1>4, <2>1
<1>5. CASE o.entry # e /\ o \notin VisibleIn(s, r.cap)
  <2>1. Rejection(o, r, s, e, pool, result) \in {"capability_not_exposed", "not_visible"}
    BY <1>5 DEF Rejection
  <2> QED BY <1>2, <1>3, <1>5, <2>1
<1>6. CASE o.entry # e /\ o \in VisibleIn(s, r.cap) /\ o.entry \notin pool
  <2>1. Rejection(o, r, s, e, pool, result) = "provider_pending"
    BY <1>6 DEF Rejection
  <2> QED BY <1>2, <1>3, <1>6, <2>1
<1>7. CASE o.entry # e /\ o \in VisibleIn(s, r.cap) /\ o.entry \in pool
  <2>1. Rejection(o, r, s, e, pool, result) =
          IF ~Accepts(r, o.cap, o.version) THEN "mismatch"
          ELSE IF o.entry = result.provider /\ o.version = result.version THEN "selected"
          ELSE IF result.status = "ambiguous" THEN "ambiguous" ELSE "not_selected"
    BY <1>7 DEF Rejection
  <2> QED BY <1>2, <1>3, <1>7, <2>1
<1> QED BY <1>4, <1>5, <1>6, <1>7


LEMMA ExplanationsAgree == Inv => ProvenanceAgrees
<1> SUFFICES ASSUME Inv, NEW e \in Entries, NEW r \in Requirements(e)
             PROVE  LET resolution == EntryResolution(e, r, eligible)
                        verdicts == {<<o, Rejection(o, r, input.scope[e], e, eligible, resolution)>> :
                                       o \in {p \in Options : p.cap = r.cap}}
                    IN Agreement(resolution, verdicts)
  BY DEF ProvenanceAgrees
<1> DEFINE resolution == EntryResolution(e, r, eligible)
           offers == {p \in Options : p.cap = r.cap}
           verdict(o) == Rejection(o, r, input.scope[e], e, eligible, resolution)
           verdicts == {<<o, verdict(o)>> : o \in offers}
           matching == Matching(r, input.scope[e], e, eligible)
           others == Others(r, input.scope[e], e)
<1> SUFFICES Agreement(resolution, verdicts)
  OBVIOUS
<1>1. InputTyped /\ e # None
  BY NoneIsNoEntry DEF Inv, Typed, Entries
<1>2. /\ matching \subseteq others /\ others \subseteq offers /\ offers \subseteq Options
      /\ \A o \in matching : o.entry \in eligible /\ Accepts(r, o.cap, o.version)
      /\ \A o \in offers : o.entry # None
      /\ \A o \in others : o \notin matching =>
           o.entry \notin eligible \/ ~Accepts(r, o.cap, o.version)
  BY <1>1, OptionsTyped, NoneIsNoEntry DEF Matching, Others, VisibleIn, Entries
<1>3. /\ IsFiniteSet(matching) /\ Cardinality(matching) \in Nat
      /\ Cardinality(matching) = 0 <=> matching = {}
  BY <1>1, MatchingTyped
<1>4. /\ \A o \in offers : o \notin others =>
           verdict(o) \in {"self_reference", "capability_not_exposed", "not_visible"}
      /\ \A o \in others : o.entry \notin eligible => verdict(o) = "provider_pending"
      /\ \A o \in others : o.entry \in eligible /\ ~Accepts(r, o.cap, o.version) =>
           verdict(o) = "mismatch"
      /\ \A o \in matching :
           verdict(o) = IF o.entry = resolution.provider /\ o.version = resolution.version
                        THEN "selected"
                        ELSE IF resolution.status = "ambiguous" THEN "ambiguous"
                        ELSE "not_selected"
  <2> HIDE DEF resolution
  <2> QED BY <1>1, <1>2, VerdictMeans
<1>5. \A o \in offers : o.entry = e => verdict(o) = "self_reference"
  BY DEF Rejection
<1>6. \A x \in verdicts : x[1] \in offers /\ x[2] = verdict(x[1]) /\ x = <<x[1], verdict(x[1])>>
  OBVIOUS
<1>7. \A o \in offers : <<o, verdict(o)>> \in verdicts /\ <<o, verdict(o)>>[2] = verdict(o)
  OBVIOUS
<1> DEFINE says(v) == {x \in verdicts : x[2] = v}
           status == resolution.status
<1>8. /\ status = "resolved" =>
           \E o \in matching : resolution.provider = o.entry /\ resolution.version = o.version
      /\ status = "ambiguous" => Cardinality(matching) > 1
      /\ status \notin {"resolved", "ambiguous"} => matching = {}
      /\ status = "provider_pending" =>
           /\ \E o \in others : Accepts(r, o.cap, o.version)
           /\ \A o \in others : o.entry \notin eligible
      /\ status \in {"not_visible", "self_reference", "no_provider"} => others = {}
      /\ status \in {"self_reference", "no_provider"} =>
           \A o \in Options : o.cap = r.cap => o.entry = e
      /\ status # "resolved" => resolution.provider = None
      /\ status \in {"resolved", "ambiguous", "version_mismatch", "provider_pending",
                      "not_visible", "self_reference", "no_provider"}
  <2> HIDE DEF matching, others
  <2> QED BY <1>1, StatusMeans DEF EntryResolution, matching, others
<1> HIDE DEF verdict, verdicts, matching, others, offers, resolution
<1>9. Agreement(resolution, verdicts) <=>
        CASE status = "resolved" -> says("selected") # {} /\ says("ambiguous") = {}
          [] status = "ambiguous" -> Cardinality(says("ambiguous")) > 1 /\ says("selected") = {}
          [] status = "version_mismatch" ->
               \A x \in verdicts : x[2] \notin {"selected", "ambiguous", "not_selected"}
          [] status = "provider_pending" -> says("provider_pending") # {} /\ says("mismatch") = {}
          [] status = "not_visible" ->
               \A x \in verdicts : x[2] \in {"not_visible", "capability_not_exposed",
                                             "self_reference"}
          [] OTHER -> \A x \in verdicts : x[2] = "self_reference"
  BY Zenon DEF Agreement
<1>10. CASE status = "resolved"
  <2>1. says("selected") # {}
    <3>1. PICK o \in matching : resolution.provider = o.entry /\ resolution.version = o.version
      BY <1>8, <1>10
    <3>2. verdict(o) = "selected"
      BY <1>4, <3>1
    <3> QED BY <1>2, <1>7, <3>2
  <2>2. \A o \in offers : verdict(o) # "ambiguous"
    BY <1>2, <1>4, <1>10
  <2>3. says("ambiguous") = {}
    BY <1>6, <2>2
  <2> HIDE DEF says
  <2> QED BY <1>9, <1>10, <2>1, <2>3
<1>11. CASE status = "ambiguous"
  <2>1. \A o \in matching : verdict(o) = "ambiguous"
    BY <1>2, <1>4, <1>8, <1>11
  <2>2. \A o \in offers : verdict(o) # "selected"
    BY <1>2, <1>4, <2>1
  <2>3. says("selected") = {}
    BY <1>6, <2>2
  <2>4. Cardinality(says("ambiguous")) > 1
    <3> DEFINE f == [o \in matching |-> <<o, "ambiguous">>]
    <3>1. \A o \in matching : f[o] \in says("ambiguous")
      BY <1>2, <1>7, <2>1
    <3>2. IsFiniteSet(says("ambiguous"))
      <4>1. \A o \in offers : verdict(o) = "ambiguous" => o \in matching
        BY <1>2, <1>4
      <4>2. \A x \in says("ambiguous") : x[1] \in matching /\ f[x[1]] = x
        BY <1>6, <4>1
      <4>3. f \in Surjection(matching, says("ambiguous"))
        <5>1. f \in [matching -> says("ambiguous")]
          BY <3>1
        <5> HIDE DEF f, says
        <5> QED BY <4>2, <5>1, Fun_IsSurj
      <4> HIDE DEF f, says
      <4> QED BY <1>3, <4>3, FS_Surjection
    <3>3. f \in Injection(matching, says("ambiguous"))
      <4>1. f \in [matching -> says("ambiguous")]
        BY <3>1
      <4>2. \A a, b \in matching : f[a] = f[b] => a = b
        OBVIOUS
      <4> HIDE DEF f, says
      <4> QED BY <4>1, <4>2, Fun_IsInj
    <3> HIDE DEF f, says
    <3>4. Cardinality(matching) <= Cardinality(says("ambiguous"))
      BY <3>2, <3>3, FS_Injection
    <3> QED BY <1>3, <1>8, <1>11, <3>2, <3>4, FS_CardinalityType
  <2> HIDE DEF says
  <2> QED BY <1>9, <1>11, <2>3, <2>4
<1>12. CASE status = "version_mismatch"
  <2>1. \A o \in offers : verdict(o) \notin {"selected", "ambiguous", "not_selected"}
    BY <1>2, <1>4, <1>8, <1>12
  <2>2. \A x \in verdicts : x[2] \notin {"selected", "ambiguous", "not_selected"}
    BY <1>6, <2>1
  <2> HIDE DEF says
  <2> QED BY <1>9, <1>12, <2>2
<1>13. CASE status = "provider_pending"
  <2>1. /\ \E o \in others : Accepts(r, o.cap, o.version)
        /\ \A o \in others : o.entry \notin eligible
    BY <1>8, <1>13
  <2>2. says("provider_pending") # {}
    BY <1>2, <1>4, <1>7, <2>1
  <2>3. \A o \in offers : verdict(o) # "mismatch"
    BY <1>2, <1>4, <2>1
  <2>4. says("mismatch") = {}
    BY <1>6, <2>3
  <2> HIDE DEF says
  <2> QED BY <1>9, <1>13, <2>2, <2>4
<1>14. CASE status = "not_visible"
  <2>1. \A o \in offers : verdict(o) \in {"not_visible", "capability_not_exposed", "self_reference"}
    BY <1>4, <1>8, <1>14
  <2>2. \A x \in verdicts : x[2] \in {"not_visible", "capability_not_exposed", "self_reference"}
    BY <1>6, <2>1
  <2> HIDE DEF says
  <2> QED BY <1>9, <1>14, <2>2
<1>15. CASE status \in {"self_reference", "no_provider"}
  <2>1. \A o \in offers : o.entry = e
    BY <1>8, <1>15 DEF offers
  <2>2. \A x \in verdicts : x[2] = "self_reference"
    BY <1>5, <1>6, <2>1
  <2> HIDE DEF says
  <2> QED BY <1>9, <1>15, <2>2
<1> HIDE DEF status, says
<1> QED BY <1>8, <1>10, <1>11, <1>12, <1>13, <1>14, <1>15

(***************************************************************************)
(* Scopes are isolated                                                     *)
(***************************************************************************)

(* The entries of a set that hold their place when the set is all there    *)
(* is.                                                                     *)
Holding(S) == {e \in S : ~Fails(e, S)}

(* The entries that live in the lineage of a scope. *)
LineageOf(s) == {e \in Entries : input.scope[e] \in Lineage(s)}

(* A lineage contains the lineages of its members. *)
LEMMA LineageNests ==
    ASSUME NEW s \in Scopes, NEW u \in Scopes, u \in Lineage(s)
    PROVE  Lineage(u) \subseteq Lineage(s)
<1> SUFFICES ASSUME NEW t \in Lineage(u), NEW S \in SUBSET Scopes, s \in S,
                    \A v \in S : ParentOf[v] \in S \cup {NoParent}
             PROVE  t \in S
  BY DEF Lineage, Lineages
<1>1. u \in S
  BY DEF Lineage, Lineages
<1> QED BY <1>1 DEF Lineage, Lineages

(* Whether an entry of a lineage holds its place depends on the entries of *)
(* that lineage alone.                                                     *)
LEMMA OnlyTheLineageCounts ==
    ASSUME InputTyped, NEW s \in Scopes, NEW pool, NEW e \in LineageOf(s)
    PROVE  Fails(e, pool) <=> Fails(e, pool \cap LineageOf(s))
<1> DEFINE t == input.scope[e]
           M(r, P) == Matching(r, t, e, P)
<1>1. t \in Scopes /\ t \in Lineage(s) /\ e \in Entries
  BY InputsAreCompositions DEF InputTyped, InputOK, LineageOf, Entries
<1>2. \A r : \A o \in Others(r, t, e) : o.entry \in LineageOf(s)
  <2> SUFFICES ASSUME NEW r, NEW o \in Others(r, t, e) PROVE o.entry \in LineageOf(s)
    OBVIOUS
  <2>1. o \in Options /\ o.scope \in Lineage(t)
    BY DEF Others, VisibleIn
  <2>2. o.entry \in Entries /\ input.scope[o.entry] = o.scope
    BY <2>1, OptionsTyped
  <2> QED BY <1>1, <2>1, <2>2, LineageNests DEF LineageOf
<1>3. \A r : M(r, pool) = M(r, pool \cap LineageOf(s))
  BY <1>2 DEF Matching
<1>4. \A r : Preferred(r, e, t, e, pool) = Preferred(r, e, t, e, pool \cap LineageOf(s))
  BY <1>3 DEF Preferred
<1>5. \A r : Satisfied(e, r, pool) <=> Satisfied(e, r, pool \cap LineageOf(s))
  <2> SUFFICES ASSUME NEW r
               PROVE  Satisfied(e, r, pool) <=> Satisfied(e, r, pool \cap LineageOf(s))
    OBVIOUS
  <2> DEFINE Met(P) == \/ Cardinality(M(r, P)) = 1
                       \/ (Cardinality(M(r, P)) > 1 /\ Preferred(r, e, t, e, P) # {})
  <2>1. ASSUME NEW P PROVE Satisfied(e, r, P) <=> Met(P)
    BY StatusMeans DEF Satisfied, EntryResolution
  <2>2. Met(pool) <=> Met(pool \cap LineageOf(s))
    <3> HIDE DEF M
    <3> QED BY <1>3, <1>4
  <2> HIDE DEF Met
  <2> QED BY <2>1, <2>2
<1> QED BY <1>5 DEF Fails

(* The rounds of a set on its own: the function that AloneAfter takes the  *)
(* last value of exists, and goes on as defined.                           *)
LEMMA RoundsExist ==
    ASSUME NEW S, NEW n \in Nat
    PROVE  \E f : f = [k \in 0 .. n |-> IF k = 0 THEN S ELSE Holding(f[k - 1])]
<1> DEFINE Rounds(f, m) == f = [k \in 0 .. m |-> IF k = 0 THEN S ELSE Holding(f[k - 1])]
           T == {m \in 0 .. n : \E f : Rounds(f, m)}
<1>1. 0 \in T
  <2>1. Rounds([k \in 0 .. 0 |-> S], 0)
    OBVIOUS
  <2>2. 0 \in 0 .. n
    OBVIOUS
  <2> HIDE DEF Rounds
  <2> QED BY <2>1, <2>2
<1>2. ASSUME NEW m \in 0 .. (n - 1), m \in T PROVE m + 1 \in T
  <2>1. PICK f : Rounds(f, m)
    BY <1>2
  <2> DEFINE g == [k \in 0 .. (m + 1) |-> IF k = m + 1 THEN Holding(f[m]) ELSE f[k]]
  <2>2. \A k \in 0 .. m : g[k] = f[k] /\ f[k] = IF k = 0 THEN S ELSE Holding(f[k - 1])
    BY <2>1
  <2>3. \A k \in 0 .. (m + 1) : g[k] = IF k = 0 THEN S ELSE Holding(g[k - 1])
    <3> SUFFICES ASSUME NEW k \in 0 .. (m + 1)
                 PROVE  g[k] = IF k = 0 THEN S ELSE Holding(g[k - 1])
      OBVIOUS
    <3>1. CASE k = m + 1
      <4>1. g[k] = Holding(f[m]) /\ k - 1 = m /\ k # 0 /\ g[m] = f[m]
        BY <2>2, <3>1
      <4> HIDE DEF g
      <4> QED BY <4>1
    <3>2. CASE k = 0
      <4>1. 0 \in 0 .. m
        OBVIOUS
      <4>2. g[0] = f[0] /\ f[0] = S
        <5> HIDE DEF g
        <5> QED BY <2>2, <4>1
      <4> HIDE DEF g
      <4> QED BY <4>2, <3>2
    <3>3. CASE k # m + 1 /\ k # 0
      <4>1. k \in 0 .. m /\ k - 1 \in 0 .. m
        BY <3>3
      <4> HIDE DEF g
      <4> QED BY <2>2, <3>3, <4>1
    <3> QED BY <3>1, <3>2, <3>3
  <2>4. DOMAIN g = 0 .. (m + 1) /\ g = [k \in 0 .. (m + 1) |-> g[k]]
    OBVIOUS
  <2>5. Rounds(g, m + 1)
    <3> HIDE DEF g
    <3> QED BY <2>3, <2>4
  <2> HIDE DEF Rounds
  <2> QED BY <2>5
<1>3. n \in T
  <2> HIDE DEF T
  <2> QED BY <1>1, <1>2, CountUp
<1> QED BY <1>3

(* The set of the eligible entries of a lineage is in every family of sets *)
(* that holds the whole lineage and is closed under one pass.              *)
Closed(C, s) == LineageOf(s) \in C /\ \A U \in C : Holding(U) \in C
Isolated ==
    \A s \in Scopes, C \in SUBSET SUBSET Entries :
        Closed(C, s) => eligible \cap LineageOf(s) \in C

LEMMA IsolatedInit == Init => Isolated
<1> SUFFICES ASSUME Init, NEW s \in Scopes, NEW C \in SUBSET SUBSET Entries, Closed(C, s)
             PROVE  eligible \cap LineageOf(s) \in C
  BY DEF Isolated
<1>1. eligible \cap LineageOf(s) = LineageOf(s)
  BY DEF Init, LineageOf
<1> QED BY <1>1 DEF Closed

(* One pass takes from a lineage what the lineage alone would lose.        *)
LEMMA PassIsLocal ==
    ASSUME InputTyped, NEW s \in Scopes, eligible \subseteq Entries, Pass
    PROVE  eligible' \cap LineageOf(s) = Holding(eligible \cap LineageOf(s))
<1>1. eligible' = {e \in eligible : ~Fails(e, eligible)}
  BY DEF Pass
<1>2. \A e \in LineageOf(s) : Fails(e, eligible) <=> Fails(e, eligible \cap LineageOf(s))
  BY OnlyTheLineageCounts
<1> QED BY <1>1, <1>2 DEF Holding

LEMMA IsolatedNext ==
    ASSUME Inv, Isolated, [Next]_vars
    PROVE  Isolated'
<1>1. input' = input
  BY DEF Next, vars, resolverVars, Validate, SearchCycles, SearchStep, CyclesFound, Pass, Place,
         Finish
<1>2. \A s : (LineageOf(s) = LineageOf(s)') 
  BY <1>1 DEF LineageOf
<1>3. InputTyped /\ eligible \subseteq Entries
  BY DEF Inv, Typed
<1> SUFFICES ASSUME NEW s \in Scopes, NEW C \in SUBSET SUBSET Entries, Closed(C, s)'
             PROVE  (eligible \cap LineageOf(s) \in C)'
  BY DEF Isolated
<1>4. Closed(C, s)
  <2>1. \A U : Holding(U) = Holding(U)'
    BY <1>1, <1>3, InputKept DEF Holding
  <2> QED BY <1>2, <2>1 DEF Closed
<1>5. eligible \cap LineageOf(s) \in C
  BY <1>4 DEF Isolated
<1>6. eligible' \cap LineageOf(s) \in C
  <2>1. CASE Pass
    <3>1. eligible' \cap LineageOf(s) = Holding(eligible \cap LineageOf(s))
      BY <1>3, <2>1, PassIsLocal
    <3> QED BY <1>4, <1>5, <3>1 DEF Closed
  <2>2. CASE ~Pass
    <3>1. eligible' = eligible
      BY <2>2 DEF Next, vars, resolverVars, Validate, SearchCycles, CyclesFound, Place, Finish
    <3> QED BY <1>5, <3>1
  <2> QED BY <2>1, <2>2
<1> QED BY <1>2, <1>6

(* Once the passes are over, the eligible entries of a lineage are what    *)
(* the lineage alone would keep: the rounds of the lineage alone reach a   *)
(* set that keeps all its members, and stay there.                         *)
LEMMA LineageAlone ==
    ASSUME Inv, Settled, Isolated, NEW s \in Scopes
    PROVE  eligible \cap LineageOf(s) = AloneAfter(LineageOf(s))
<1> DEFINE N == Cardinality(Entries)
           L == LineageOf(s)
           X == eligible \cap L
<1>0. InputTyped /\ N \in Nat /\ IsFiniteSet(Entries) /\ L \subseteq Entries
  BY NodesAreIds, FS_CardinalityType DEF Inv, Typed, Entries, LineageOf
<1>1. PICK f : f = [k \in 0 .. N |-> IF k = 0 THEN L ELSE Holding(f[k - 1])]
               /\ AloneAfter(L) = f[N]
  <2> HIDE DEF L
  <2> DEFINE R(f) == f = [k \in 0 .. N |-> IF k = 0 THEN L ELSE Holding(f[k - 1])]
             g == CHOOSE f : R(f)
  <2>1. R(g)
    <3>1. \E f : R(f)
      <4> HIDE DEF N
      <4> QED BY <1>0, RoundsExist
    <3> HIDE DEF R
    <3> QED BY <3>1
  <2>2. AloneAfter(L) = g[N]
    BY DEF AloneAfter, Holding
  <2> HIDE DEF N, g
  <2> QED BY <2>1, <2>2
<1>2. f[0] = L /\ \A k \in 0 .. (N - 1) : f[k + 1] = Holding(f[k])
  <2>1. \A k \in 0 .. N : f[k] = IF k = 0 THEN L ELSE Holding(f[k - 1])
    <3> HIDE DEF N, L
    <3> QED BY <1>1
  <2>2. ASSUME NEW k \in 0 .. (N - 1) PROVE f[k + 1] = Holding(f[k])
    <3>1. k + 1 \in 0 .. N /\ (k + 1) - 1 = k /\ k + 1 # 0
      <4> HIDE DEF N
      <4> QED BY <1>0
    <3> HIDE DEF N, L
    <3> QED BY <2>1, <3>1
  <2>3. 0 \in 0 .. N
    <3> HIDE DEF N
    <3> QED BY <1>0
  <2> HIDE DEF N, L
  <2> QED BY <2>1, <2>2, <2>3
<1> HIDE DEF N, L
<1>3. \A k \in 0 .. N : f[k] \subseteq L
  <2> DEFINE T == {k \in 0 .. N : f[k] \subseteq L}
  <2>1. 0 \in T
    BY <1>0, <1>2
  <2>2. ASSUME NEW k \in 0 .. (N - 1), k \in T PROVE k + 1 \in T
    <3>1. k + 1 \in 0 .. N
      BY <1>0
    <3> QED BY <1>2, <2>2, <3>1 DEF Holding
  <2>3. 0 .. N \subseteq T
    <3> HIDE DEF T
    <3> QED BY <1>0, <2>1, <2>2, CountUp
  <2> QED BY <2>3
<1>4. Holding(f[N]) = f[N]
  <2> DEFINE T == {k \in 0 .. N : Holding(f[k]) = f[k] \/ Cardinality(f[k]) <= N - k}
  <2>0. \A k \in 0 .. N : IsFiniteSet(f[k]) /\ Cardinality(f[k]) \in Nat /\ Cardinality(f[k]) <= N
    <3> SUFFICES ASSUME NEW k \in 0 .. N
                 PROVE  IsFiniteSet(f[k]) /\ Cardinality(f[k]) \in Nat /\ Cardinality(f[k]) <= N
      OBVIOUS
    <3>1. f[k] \subseteq Entries
      BY <1>0, <1>3
    <3> QED BY <1>0, <3>1, FS_Subset, FS_CardinalityType DEF N
  <2>1. 0 \in T
    <3>1. 0 \in 0 .. N
      BY <1>0
    <3>2. Cardinality(f[0]) <= N - 0
      BY <1>0, <2>0, <3>1
    <3> QED BY <3>1, <3>2
  <2>2. ASSUME NEW k \in 0 .. (N - 1), k \in T PROVE k + 1 \in T
    <3>1. k \in 0 .. N /\ k + 1 \in 0 .. N /\ f[k + 1] = Holding(f[k])
      BY <1>0, <1>2
    <3>2. CASE Holding(f[k]) = f[k]
      BY <3>1, <3>2
    <3>3. CASE Holding(f[k]) # f[k]
      <4>1. Cardinality(f[k]) <= N - k
        BY <2>2, <3>3
      <4>2. f[k + 1] \subseteq f[k] /\ f[k + 1] # f[k]
        BY <3>1, <3>3 DEF Holding
      <4>3. Cardinality(f[k + 1]) < Cardinality(f[k])
        BY <2>0, <3>1, <4>2, FS_Subset
      <4>4. Cardinality(f[k + 1]) <= N - (k + 1)
        BY <1>0, <2>0, <3>1, <4>1, <4>3
      <4> QED BY <3>1, <4>4
    <3> QED BY <3>2, <3>3
  <2>3. N \in T
    <3>1. N \in 0 .. N
      BY <1>0
    <3>2. 0 .. N \subseteq T
      <4> HIDE DEF T
      <4> QED BY <1>0, <2>1, <2>2, CountUp
    <3> QED BY <3>1, <3>2
  <2>4. CASE Cardinality(f[N]) <= 0
    <3>1. Cardinality(f[N]) = 0 /\ IsFiniteSet(f[N])
      BY <1>0, <2>0, <2>4
    <3>2. f[N] = {}
      BY <3>1, FS_EmptySet
    <3> QED BY <3>2 DEF Holding
  <2> QED BY <1>0, <2>3, <2>4
<1>5. PICK m \in 0 .. N : X = f[m]
  <2> DEFINE C == {f[k] : k \in 0 .. N}
  <2>1. C \in SUBSET SUBSET Entries
    BY <1>0, <1>3
  <2>2. L \in C
    <3>1. 0 \in 0 .. N
      BY <1>0
    <3> QED BY <1>2, <3>1
  <2>3. ASSUME NEW U \in C PROVE Holding(U) \in C
    <3>1. PICK k \in 0 .. N : U = f[k]
      OBVIOUS
    <3>2. CASE k = N
      BY <1>4, <3>1, <3>2
    <3>3. CASE k # N
      <4>1. k \in 0 .. (N - 1) /\ k + 1 \in 0 .. N
        BY <1>0, <3>3
      <4>2. f[k + 1] \in C /\ f[k + 1] = Holding(U)
        BY <1>2, <3>1, <4>1
      <4> QED BY <4>2
    <3> QED BY <3>2, <3>3
  <2>4. X \in C
    <3> HIDE DEF C
    <3>1. Closed(C, s)
      BY <2>2, <2>3 DEF Closed, L
    <3> QED BY <2>1, <3>1 DEF Isolated, L
  <2> QED BY <2>4
<1>6. Holding(X) = X
  <2>1. \A e \in X : ~Fails(e, eligible)
    BY DEF Inv, NothingFails
  <2>2. \A e \in X : ~Fails(e, X)
    BY <1>0, <2>1, OnlyTheLineageCounts DEF L
  <2> QED BY <2>2 DEF Holding
<1> HIDE DEF X
<1>7. \A k \in 0 .. (N - m) : f[m + k] = X
  <2> DEFINE T == {k \in 0 .. (N - m) : f[m + k] = X}
  <2>1. 0 \in T
    BY <1>0, <1>5
  <2>2. ASSUME NEW k \in 0 .. ((N - m) - 1), k \in T PROVE k + 1 \in T
    <3>1. m + k \in 0 .. (N - 1) /\ m + (k + 1) = (m + k) + 1 /\ k + 1 \in 0 .. (N - m)
      BY <1>0
    <3>2. f[m + (k + 1)] = X
      BY <1>2, <1>6, <2>2, <3>1
    <3> QED BY <3>1, <3>2
  <2>3. 0 .. (N - m) \subseteq T
    <3>1. N - m \in Nat
      BY <1>0
    <3> HIDE DEF T
    <3> QED BY <2>1, <2>2, <3>1, CountUp
  <2> QED BY <2>3
<1>8. f[N] = X
  <2>1. N - m \in 0 .. (N - m) /\ m + (N - m) = N
    BY <1>0
  <2> QED BY <1>7, <2>1
<1> QED BY <1>1, <1>8 DEF X, L

(* The selection of a provider is sound: what is planned in a scope's      *)
(* lineage is what would be planned if no other entry existed (the passes  *)
(* of resolve look a requirement up in the lineage alone); the status of a *)
(* requirement and the verdicts on its providers agree; and the pin to a   *)
(* contract generation rejects nothing the specifier contains.             *)
THEOREM SelectionIsSound == Spec => []SelectionSound
<1>1. Spec => []Isolated
  <2>1. Init => Isolated
    BY IsolatedInit
  <2>2. Inv /\ Isolated /\ [Next]_vars => Isolated'
    BY IsolatedNext
  <2> QED BY <2>1, <2>2, ResolutionInvariant, PTL DEF Spec
<1>2. Inv /\ Isolated => SelectionSound
  <2> SUFFICES ASSUME Inv, Isolated PROVE SelectionSound
    OBVIOUS
  <2>1. SiblingsDoNotInterfere
    <3> SUFFICES ASSUME Done, NEW s \in input.declared
                 PROVE  eligible \cap LineageOf(s) = AloneAfter(LineageOf(s))
      BY DEF SiblingsDoNotInterfere, LineageOf
    <3>1. s \in Scopes
      BY InputsAreCompositions DEF Inv, Typed, InputTyped, InputOK
    <3>2. Settled
      BY DEF Done, Settled
    <3> QED BY <3>1, <3>2, LineageAlone
  <2>2. ProvenanceAgrees
    BY ExplanationsAgree
  <2>3. PinRejectsNothing
    BY PinsAreHarmless
  <2> QED BY <2>1, <2>2, <2>3 DEF SelectionSound
<1> QED BY <1>1, <1>2, ResolutionInvariant, PTL

(***************************************************************************)
(* The published tree, and what a run finds in it                          *)
(***************************************************************************)

(* A scope's lineage is the scope and its parent's lineage, which it is    *)
(* not in: no path is its own ancestor.                                    *)
LEMMA LineageByParent ==
    ASSUME NEW s \in Scopes
    PROVE  /\ s \in Lineage(s) /\ Lineage(s) \subseteq Scopes
           /\ s = Root => Lineage(s) = {s}
           /\ s # Root => /\ ParentOf[s] \in Scopes
                          /\ Lineage(s) = {s} \cup Lineage(ParentOf[s])
                          /\ s \notin Lineage(ParentOf[s])
<1> DEFINE Upward(S) == S \in SUBSET Scopes /\ \A v \in S : ParentOf[v] \in S \cup {NoParent}
<1>1. \A u \in Scopes : \A t : t \in Lineage(u) <=>
                             t \in Scopes /\ \A S : Upward(S) /\ u \in S => t \in S
  BY DEF Lineage, Lineages
<1>2. /\ NoParent \notin Scopes
      /\ \A u \in Scopes : ParentOf[u] = NoParent <=> u = Root
      /\ \A u \in Scopes : u # Root => ParentOf[u] \in Scopes
  BY Hierarchy
<1>3. \A u \in Scopes : u \in Lineage(u) /\ Lineage(u) \subseteq Scopes
  BY <1>1
<1>4. ASSUME NEW u \in Scopes PROVE Upward(Lineage(u))
  <2> SUFFICES ASSUME NEW v \in Lineage(u), v # Root PROVE ParentOf[v] \in Lineage(u)
    BY <1>2, <1>3
  <2>1. v \in Scopes /\ ParentOf[v] \in Scopes /\ ParentOf[v] # NoParent
    BY <1>2, <1>3
  <2>2. \A S : Upward(S) /\ u \in S => ParentOf[v] \in S
    BY <1>1, <2>1
  <2> HIDE DEF Upward
  <2> QED BY <1>1, <2>1, <2>2
<1>5. ASSUME NEW u \in Scopes, u # Root
      PROVE  Lineage(u) = {u} \cup Lineage(ParentOf[u])
  <2>1. Upward({u} \cup Lineage(ParentOf[u]))
    <3>1. /\ Lineage(ParentOf[u]) \subseteq Scopes /\ ParentOf[u] \in Lineage(ParentOf[u])
          /\ Upward(Lineage(ParentOf[u]))
      BY <1>2, <1>3, <1>4, <1>5
    <3> QED BY <3>1
  <2>2. Lineage(u) \subseteq {u} \cup Lineage(ParentOf[u])
    <3> HIDE DEF Upward
    <3> QED BY <1>1, <2>1
  <2>3. ParentOf[u] \in Lineage(u)
    BY <1>2, <1>3, <1>4, <1>5
  <2>4. Lineage(ParentOf[u]) \subseteq Lineage(u)
    BY <1>2, <1>5, <2>3, LineageNests
  <2> QED BY <1>3, <2>2, <2>4
<1>6. Lineage(Root) = {Root}
  <2>1. Upward({Root}) /\ Root \in Scopes
    BY Hierarchy
  <2> HIDE DEF Upward
  <2> QED BY <1>1, <1>3, <2>1
<1>7. ASSUME s # Root PROVE s \notin Lineage(ParentOf[s])
  <2> SUFFICES ASSUME s \in Lineage(ParentOf[s]) PROVE FALSE
    OBVIOUS
  <2> DEFINE Loop == {t \in Lineage(s) : s \in Lineage(t)}
  <2>1. Loop \in SUBSET Scopes /\ Loop # {}
    BY <1>3, <1>7
  <2>2. PICK t \in Loop : ParentOf[t] \notin Loop
    <3> HIDE DEF Loop
    <3> QED BY <2>1, Hierarchy
  <2>3. t \in Scopes /\ t \in Lineage(s) /\ s \in Lineage(t)
    BY <1>3
  <2>4. t # Root
    BY <1>6, <1>7, <2>3
  <2>5. ParentOf[t] \in Lineage(s)
    BY <1>2, <1>4, <2>3, <2>4
  <2>6. s \in Lineage(ParentOf[t])
    <3>1. CASE t = s
      BY <3>1
    <3>2. CASE t # s
      BY <1>5, <2>3, <2>4, <3>2
    <3> QED BY <3>1, <3>2
  <2> QED BY <2>2, <2>5, <2>6
<1> QED BY <1>2, <1>3, <1>5, <1>6, <1>7

(* The capabilities of a scope's view, found from parent to parent, are    *)
(* those that no scope of its lineage hides.                               *)
LEMMA ViewsIntersect ==
    ASSUME InputTyped, NEW s \in Scopes
    PROVE  EffectiveView(s) = Allowed(s)
<1> DEFINE Views(f) == f = [t \in Scopes |-> IF ParentOf[t] = NoParent THEN input.view[t]
                                             ELSE input.view[t] \cap f[ParentOf[t]]]
           allowed == [t \in Scopes |-> Allowed(t)]
           view == CHOOSE f : Views(f)
<1>1. \A t \in Scopes : input.view[t] \subseteq Caps
  BY InputsAreCompositions DEF InputTyped, InputOK
<1>2. \A t \in Scopes : /\ ParentOf[t] = NoParent <=> t = Root
                        /\ t # Root => ParentOf[t] \in Scopes
  BY Hierarchy
<1>3. ASSUME NEW t \in Scopes
      PROVE  allowed[t] = IF ParentOf[t] = NoParent THEN input.view[t]
                          ELSE input.view[t] \cap allowed[ParentOf[t]]
  <2>1. CASE t = Root
    <3>1. Lineage(t) = {t}
      BY <2>1, LineageByParent
    <3>2. Allowed(t) = input.view[t]
      BY <1>1, <3>1 DEF Allowed
    <3> QED BY <1>2, <2>1, <3>2
  <2>2. CASE t # Root
    <3>1. ParentOf[t] \in Scopes /\ Lineage(t) = {t} \cup Lineage(ParentOf[t])
      BY <2>2, LineageByParent
    <3>2. Allowed(t) = input.view[t] \cap Allowed(ParentOf[t])
      BY <1>1, <3>1 DEF Allowed
    <3> QED BY <1>2, <2>2, <3>1, <3>2
  <2> QED BY <2>1, <2>2
<1>4. Views(allowed)
  <2>1. allowed = [t \in Scopes |-> allowed[t]]
    OBVIOUS
  <2> HIDE DEF allowed
  <2> QED BY <1>3, <2>1
<1>5. Views(view)
  <2> HIDE DEF allowed, Views
  <2> QED BY <1>4
<1>6. EffectiveView(s) = view[s]
  BY DEF EffectiveView
<1> HIDE DEF allowed, view
<1>7. view[s] = allowed[s]
  <2> DEFINE Differ == {t \in Scopes : view[t] # allowed[t]}
  <2>1. Differ = {}
    <3> SUFFICES ASSUME Differ # {} PROVE FALSE
      OBVIOUS
    <3>1. PICK t \in Differ : ParentOf[t] \notin Differ
      <4>1. Differ \in SUBSET Scopes /\ Differ # {}
        OBVIOUS
      <4> HIDE DEF Differ
      <4> QED BY <4>1, Hierarchy
    <3>2. view[t] = IF ParentOf[t] = NoParent THEN input.view[t]
                    ELSE input.view[t] \cap view[ParentOf[t]]
      BY <1>5
    <3>3. allowed[t] = IF ParentOf[t] = NoParent THEN input.view[t]
                       ELSE input.view[t] \cap allowed[ParentOf[t]]
      BY <1>3
    <3>4. ParentOf[t] # NoParent => view[ParentOf[t]] = allowed[ParentOf[t]]
      BY <1>2, <3>1
    <3> QED BY <3>1, <3>2, <3>3, <3>4
  <2> QED BY <2>1
<1>8. allowed[s] = Allowed(s)
  BY DEF allowed
<1> QED BY <1>6, <1>7, <1>8

(* A plan without cycles places what the passes left eligible. *)
LEMMA WhatIsPlaced ==
    ASSUME Inv, Acyclic
    PROVE  /\ InputTyped /\ Placed = eligible /\ eligible \subseteq Entries
           /\ PendingEntries = Entries \ eligible
<1>1. phase = "planned" /\ CycleMembers = {}
  BY DEF Acyclic, Done, CycleMembers
<1> QED BY <1>1 DEF Inv, OrderLists, Planned, Typed, PendingEntries

(* The providers a scope publishes are the placed ones it can see: those   *)
(* of its own apart from those it inherits.                                *)
Seen(s, cap) == {o \in VisibleIn(s, cap) : o.entry \in Placed}
EntriesOf(O) == {o.entry : o \in O}

LEMMA WhatATreeShows ==
    ASSUME InputTyped, NEW s \in Scopes, NEW cap \in Caps
    PROVE  /\ TreeScope(s).providers[cap] = EntriesOf({o \in Seen(s, cap) : o.scope = s})
           /\ TreeScope(s).inherited[cap] = EntriesOf({o \in Seen(s, cap) : o.scope # s})
           /\ TreeScope(s).visible[cap] = EntriesOf(Seen(s, cap))
<1> DEFINE shown == cap \in EffectiveView(s)
           own == LocalProviders(s, cap)
           others == UNION {LocalProviders(a, cap) : a \in Ancestors(s)}
<1>1. /\ TreeScope(s).providers[cap] = IF shown THEN own ELSE {}
      /\ TreeScope(s).inherited[cap] = IF shown THEN others ELSE {}
      /\ TreeScope(s).visible[cap] = TreeScope(s).providers[cap] \cup TreeScope(s).inherited[cap]
  BY DEF TreeScope
<1>2. shown <=> cap \in Allowed(s)
  BY ViewsIntersect
<1>3. s \in Lineage(s)
  BY LineageByParent
<1> DEFINE Held == {o \in Options : o.entry \in Placed /\ o.cap = cap}
<1>4. \A t : LocalProviders(t, cap) = EntriesOf({o \in Held : o.scope = t})
  BY DEF LocalProviders, Registrations, EntriesOf
<1>5. own = EntriesOf({o \in Held : o.scope = s})
  BY <1>4
<1>6. others = EntriesOf({o \in Held : o.scope \in Lineage(s) /\ o.scope # s})
  BY <1>4 DEF Ancestors, EntriesOf
<1>7. Seen(s, cap) = IF cap \in Allowed(s) THEN {o \in Held : o.scope \in Lineage(s)} ELSE {}
  BY DEF Seen, VisibleIn
<1> HIDE DEF shown, own, others, Held
<1>8. CASE shown
  <2>1. {o \in Seen(s, cap) : o.scope = s} = {o \in Held : o.scope = s}
    BY <1>2, <1>3, <1>7, <1>8
  <2>2. {o \in Seen(s, cap) : o.scope # s} = {o \in Held : o.scope \in Lineage(s) /\ o.scope # s}
    BY <1>2, <1>7, <1>8
  <2>3. EntriesOf(Seen(s, cap)) = EntriesOf({o \in Seen(s, cap) : o.scope = s})
                                  \cup EntriesOf({o \in Seen(s, cap) : o.scope # s})
    BY DEF EntriesOf
  <2> QED BY <1>1, <1>5, <1>6, <1>8, <2>1, <2>2, <2>3
<1>9. CASE ~ shown
  BY <1>1, <1>2, <1>7, <1>9 DEF EntriesOf
<1> QED BY <1>8, <1>9

(* The providers in a scope's plan, the pending ones included.             *)
LEMMA WhatAPlanLists ==
    ASSUME NEW s, NEW cap \in Caps
    PROVE  /\ ScopePlan(s).providers[cap] =
                EntriesOf({o \in VisibleIn(s, cap) : o.scope = s})
           /\ ScopePlan(s).inherited[cap] =
                EntriesOf({o \in VisibleIn(s, cap) : o.scope # s})
           /\ ScopePlan(s).provenance = Provenance(s)
<1> DEFINE from(local) == [c \in Caps |->
             {o.entry : o \in {v \in VisibleIn(s, c) : (v.scope = s) = local}}]
<1>1. /\ ScopePlan(s).providers = from(TRUE)
      /\ ScopePlan(s).inherited = from(FALSE)
      /\ ScopePlan(s).provenance = Provenance(s)
  BY DEF ScopePlan
<1>2. /\ from(TRUE)[cap] = EntriesOf({o \in VisibleIn(s, cap) : o.scope = s})
      /\ from(FALSE)[cap] = EntriesOf({o \in VisibleIn(s, cap) : o.scope # s})
  BY DEF EntriesOf
<1> QED BY <1>1, <1>2

(* Every resolution of a scope's plan is one of a requirement, by the      *)
(* scope itself or by an entry it declares.                                *)
Excluded(s, consumer) == IF consumer = s THEN None ELSE consumer

LEMMA WhatIsResolved ==
    ASSUME InputTyped, NEW s \in Scopes, NEW p \in Provenance(s)
    PROVE  /\ p.result = Resolution(p.requirement, p.consumer, s, Excluded(s, p.consumer),
                                    eligible)
           /\ p.consumer \in Entries \cup {s}
<1>1. CASE p \in ScopeRequirements(s)
  <2>1. PICK r \in input.requires[s] :
          p = [consumer |-> s, requirement |-> r, result |-> Resolution(r, s, s, None, eligible)]
    BY <1>1 DEF ScopeRequirements
  <2> QED BY <2>1 DEF Excluded
<1>2. CASE p \notin ScopeRequirements(s)
  <2>1. PICK e \in EntriesIn(s), r \in UNION {Requirements(d) : d \in EntriesIn(s)} :
          p = [consumer |-> e, requirement |-> r, result |-> EntryResolution(e, r, eligible)]
    BY <1>2 DEF Provenance
  <2>2. e \in Entries /\ input.scope[e] = s /\ e # s
    BY ScopesAreNoEntries DEF EntriesIn, Entries
  <2> QED BY <2>1, <2>2 DEF Excluded, EntryResolution
<1> QED BY <1>1, <1>2

(* The provider of a resolved requirement is placed and seen from the      *)
(* scope.                                                                  *)
LEMMA ResolvedToASeenOne ==
    ASSUME Inv, Acyclic, NEW s \in Scopes, NEW p \in Provenance(s), p.result.status = "resolved"
    PROVE  \E o \in Matching(p.requirement, s, Excluded(s, p.consumer), eligible) :
             /\ o.entry = p.result.provider /\ o \in Seen(s, p.requirement.cap)
             /\ p.requirement.cap \in Caps
<1> DEFINE r == p.requirement
           x == Excluded(s, p.consumer)
           matching == Matching(r, s, x, eligible)
<1>1. InputTyped /\ Placed = eligible
  BY WhatIsPlaced
<1>2. p.result = Resolution(r, p.consumer, s, x, eligible)
  BY <1>1, WhatIsResolved
<1> HIDE DEF r, x
<1>3. PICK o \in matching : p.result.provider = o.entry
  BY <1>1, <1>2, StatusMeans
<1>4. o \in VisibleIn(s, r.cap) /\ o.entry \in eligible
  BY <1>3 DEF Matching, Others
<1>5. o \in Options /\ o.cap = r.cap
  BY <1>4 DEF VisibleIn
<1>6. r.cap \in Caps
  BY <1>1, <1>5, OptionsTyped
<1> QED BY <1>1, <1>3, <1>4, <1>6 DEF Seen, r, x

(* The published tree is that of the plan (build_scope_tree and            *)
(* _build_scope_plans work visibility out each on its own).                *)
LEMMA TreeIsThePlans == Inv => PublishedAsPlanned
<1> SUFFICES ASSUME Inv, Acyclic, NEW s \in input.declared
             PROVE  /\ \A cap \in Caps :
                         /\ TreeScope(s).providers[cap] = ScopePlan(s).providers[cap] \cap Placed
                         /\ TreeScope(s).inherited[cap] = ScopePlan(s).inherited[cap] \cap Placed
                    /\ \A p \in ScopePlan(s).provenance : p.result.status = "resolved" =>
                         p.result.provider \in TreeScope(s).visible[p.requirement.cap]
  BY DEF PublishedAsPlanned
<1>1. InputTyped /\ Placed = eligible /\ s \in Scopes
  BY WhatIsPlaced, InputsAreCompositions DEF InputTyped, InputOK
<1>2. ASSUME NEW cap \in Caps
      PROVE  /\ TreeScope(s).providers[cap] = ScopePlan(s).providers[cap] \cap Placed
             /\ TreeScope(s).inherited[cap] = ScopePlan(s).inherited[cap] \cap Placed
  <2>1. /\ EntriesOf({o \in Seen(s, cap) : o.scope = s}) =
             EntriesOf({o \in VisibleIn(s, cap) : o.scope = s}) \cap Placed
        /\ EntriesOf({o \in Seen(s, cap) : o.scope # s}) =
             EntriesOf({o \in VisibleIn(s, cap) : o.scope # s}) \cap Placed
    BY DEF Seen, EntriesOf
  <2>2. /\ TreeScope(s).providers[cap] = EntriesOf({o \in Seen(s, cap) : o.scope = s})
        /\ TreeScope(s).inherited[cap] = EntriesOf({o \in Seen(s, cap) : o.scope # s})
    BY <1>1, WhatATreeShows
  <2>3. /\ ScopePlan(s).providers[cap] = EntriesOf({o \in VisibleIn(s, cap) : o.scope = s})
        /\ ScopePlan(s).inherited[cap] = EntriesOf({o \in VisibleIn(s, cap) : o.scope # s})
    BY WhatAPlanLists
  <2> QED BY <2>1, <2>2, <2>3
<1>3. ASSUME NEW p \in ScopePlan(s).provenance, p.result.status = "resolved"
      PROVE  p.result.provider \in TreeScope(s).visible[p.requirement.cap]
  <2>1. p \in Provenance(s)
    BY DEF ScopePlan
  <2>2. PICK o : /\ o.entry = p.result.provider /\ o \in Seen(s, p.requirement.cap)
                 /\ p.requirement.cap \in Caps
    BY <1>1, <1>3, <2>1, ResolvedToASeenOne
  <2>3. TreeScope(s).visible[p.requirement.cap] = EntriesOf(Seen(s, p.requirement.cap))
    BY <1>1, <2>2, WhatATreeShows
  <2> QED BY <2>2, <2>3 DEF EntriesOf
<1> QED BY <1>2, <1>3

(* A scope inherits what its parent shows, as far as its own view goes     *)
(* (guarantee G15 of docs/design.md).                                      *)
LEMMA TreeInherits == Inv => InheritsFromTheParent
<1> SUFFICES ASSUME Inv, Acyclic, NEW s \in input.declared \ {Root}, NEW cap \in Caps
             PROVE  TreeScope(s).inherited[cap] =
                      IF cap \in EffectiveView(s) THEN TreeScope(ParentOf[s]).visible[cap] ELSE {}
  BY DEF InheritsFromTheParent
<1>1. InputTyped /\ s \in Scopes /\ s # Root
  BY WhatIsPlaced, InputsAreCompositions DEF InputTyped, InputOK
<1>2. PICK t \in Scopes : /\ t = ParentOf[s] /\ Lineage(s) = {s} \cup Lineage(t)
                          /\ s \notin Lineage(t)
  BY <1>1, LineageByParent
<1>3. /\ TreeScope(s).inherited[cap] = EntriesOf({o \in Seen(s, cap) : o.scope # s})
      /\ TreeScope(t).visible[cap] = EntriesOf(Seen(t, cap))
      /\ EffectiveView(s) = Allowed(s)
  BY <1>1, WhatATreeShows, ViewsIntersect
<1>4. Allowed(s) \subseteq Allowed(t)
  BY <1>2 DEF Allowed
<1>5. {o \in Seen(s, cap) : o.scope # s} = IF cap \in Allowed(s) THEN Seen(t, cap) ELSE {}
  BY <1>2, <1>4 DEF Seen, VisibleIn
<1> QED BY <1>2, <1>3, <1>5 DEF EntriesOf

(* The candidates a run's snapshot has for a requirement are those of its  *)
(* plan, the consumer itself among them if it offers one.                  *)
LEMMA WhatASnapshotHolds ==
    ASSUME Inv, Acyclic, NEW s \in Scopes, NEW cap \in Caps
    PROVE  {o \in Snapshot(s) : o.cap = cap} = Seen(s, cap)
<1>1. InputTyped /\ TreeScope(s).visible[cap] = EntriesOf(Seen(s, cap))
  BY WhatIsPlaced, WhatATreeShows
<1>2. ASSUME NEW o \in Snapshot(s), o.cap = cap PROVE o \in Seen(s, cap)
  <2>1. o \in Options /\ o.entry \in Placed /\ o.entry \in EntriesOf(Seen(s, cap))
    BY <1>1, <1>2 DEF Snapshot, Registrations
  <2>2. PICK q \in Seen(s, cap) : q.entry = o.entry
    BY <2>1 DEF EntriesOf
  <2>3. q \in Options /\ q.scope \in Lineage(s) /\ cap \in Allowed(s)
    BY DEF Seen, VisibleIn
  <2>4. o.scope = q.scope
    BY <1>1, <2>1, <2>2, <2>3, OptionsTyped
  <2> QED BY <1>2, <2>1, <2>3, <2>4 DEF Seen, VisibleIn
<1>3. ASSUME NEW o \in Seen(s, cap) PROVE o \in Snapshot(s) /\ o.cap = cap
  <2>1. o \in Options /\ o.cap = cap /\ o.entry \in Placed
    BY DEF Seen, VisibleIn
  <2>2. o.entry \in TreeScope(s).visible[o.cap]
    BY <1>1, <2>1 DEF EntriesOf
  <2> QED BY <2>1, <2>2 DEF Snapshot, Registrations
<1> QED BY <1>2, <1>3

(* What a lookup finds, by its candidates. *)
Candidates(snapshot, r) == {o \in snapshot : o.cap = r.cap /\ Accepts(r, o.cap, o.version)}

LEMMA WhatALookupFinds ==
    ASSUME InputTyped, NEW snapshot, snapshot \subseteq Options, NEW r,
           Candidates(snapshot, r) # {}, NEW prefer
    PROVE  /\ prefer = {} =>
                Lookup(snapshot, r, prefer).providers = EntriesOf(Candidates(snapshot, r))
           /\ \A p : prefer = {p} /\ p \in EntriesOf(Candidates(snapshot, r)) =>
                Lookup(snapshot, r, prefer) = [status |-> "resolved", providers |-> {p}]
<1> DEFINE candidates == Candidates(snapshot, r)
           preferred == {o \in candidates : o.entry \in prefer}
           found(status, options) == [status |-> status, providers |-> EntriesOf(options)]
           n == Cardinality(candidates)
<1>1. IsFiniteSet(candidates) /\ n \in Nat /\ n # 0
  <2>1. candidates \subseteq Options
    BY DEF Candidates
  <2> QED BY <2>1, OptionsTyped, FS_Subset, FS_CardinalityType, FS_EmptySet
<1>2. Lookup(snapshot, r, prefer) =
        CASE n = 1 -> found("resolved", candidates)
          [] n > 1 /\ preferred # {} -> found("resolved", preferred)
          [] OTHER -> found("ambiguous", candidates)
  <2> DEFINE named == {o \in snapshot : o.cap = r.cap}
             full == {o \in named : Accepts(r, o.cap, o.version)}
  <2>1. full = candidates
    BY DEF Candidates
  <2>2. Lookup(snapshot, r, prefer) =
          CASE full = {} -> found(IF named = {} THEN "no_provider" ELSE "version_mismatch", {})
            [] Cardinality(full) = 1 -> found("resolved", full)
            [] Cardinality(full) > 1 /\ {o \in full : o.entry \in prefer} # {} ->
                 found("resolved", {o \in full : o.entry \in prefer})
            [] OTHER -> found("ambiguous", full)
    BY Zenon DEF Lookup, EntriesOf
  <2> HIDE DEF found, named, full
  <2> QED BY <2>1, <2>2
<1>3. CASE n = 1
  <2>1. PICK o : candidates = {o}
    BY <1>1, <1>3, FS_Singleton
  <2>2. Lookup(snapshot, r, prefer) = found("resolved", candidates)
    BY <1>2, <1>3
  <2> QED BY <2>1, <2>2 DEF EntriesOf
<1>4. CASE n > 1
  <2>1. ASSUME prefer = {} PROVE Lookup(snapshot, r, prefer).providers = EntriesOf(candidates)
    BY <1>2, <1>4, <2>1
  <2>2. ASSUME NEW p, prefer = {p}, p \in EntriesOf(candidates)
        PROVE  Lookup(snapshot, r, prefer) = [status |-> "resolved", providers |-> {p}]
    <3>1. preferred # {} /\ EntriesOf(preferred) = {p}
      BY <2>2 DEF EntriesOf
    <3>2. Lookup(snapshot, r, prefer) = found("resolved", preferred)
      BY <1>2, <1>4, <3>1
    <3> QED BY <3>1, <3>2
  <2> QED BY <2>1, <2>2
<1> QED BY <1>1, <1>3, <1>4

(* What a plan resolved in a scope, a run there finds.                     *)
LEMMA RunsFindThePlans == Inv => ServesWhatIsResolved
<1> SUFFICES ASSUME Inv, Acyclic, NEW s \in input.declared, NEW p \in Provenance(s),
                    p.result.status = "resolved"
             PROVE  LET r == p.requirement
                        snapshot == Snapshot(s)
                        planned == Matching(r, s, IF p.consumer = s THEN None ELSE p.consumer,
                                            eligible)
                    IN /\ Lookup(snapshot, r, {}).providers \ {p.consumer} =
                            {o.entry : o \in planned}
                       /\ Lookup(snapshot, r, {p.result.provider}) =
                            [status |-> "resolved", providers |-> {p.result.provider}]
                       /\ Require(snapshot, r.cap) # "not_found"
  BY DEF ServesWhatIsResolved
<1>1. InputTyped /\ Placed = eligible /\ eligible \subseteq Entries /\ s \in Scopes
  BY WhatIsPlaced, InputsAreCompositions DEF InputTyped, InputOK
<1>2. PICK r : r = p.requirement
  OBVIOUS
<1>3. PICK x : x = Excluded(s, p.consumer)
  OBVIOUS
<1>4. PICK q \in Matching(r, s, x, eligible) :
        q.entry = p.result.provider /\ q \in Seen(s, r.cap) /\ r.cap \in Caps
  BY <1>1, <1>2, <1>3, ResolvedToASeenOne
<1>5. {o \in Snapshot(s) : o.cap = r.cap} = Seen(s, r.cap)
  BY <1>4, <1>1, WhatASnapshotHolds
<1>6. Candidates(Snapshot(s), r) = {o \in Seen(s, r.cap) : Accepts(r, o.cap, o.version)}
  BY <1>5 DEF Candidates
<1>7. Snapshot(s) \subseteq Options
  BY DEF Snapshot, Registrations
<1>8. Matching(r, s, x, eligible) = {o \in Candidates(Snapshot(s), r) : o.entry # x}
  BY <1>1, <1>6 DEF Matching, Others, Seen
<1>9. q \in Candidates(Snapshot(s), r) /\ Candidates(Snapshot(s), r) # {}
  BY <1>4, <1>8
<1>10. EntriesOf(Candidates(Snapshot(s), r)) \subseteq Entries
  BY <1>1, <1>6 DEF EntriesOf, Seen
<1>11. \A e \in Entries : e # x <=> e # p.consumer
  <2>1. p.consumer \in Entries \cup {s} /\ s \notin Entries /\ None \notin Entries
    BY <1>1, WhatIsResolved, ScopesAreNoEntries, NoneIsNoEntry DEF Entries
  <2> QED BY <1>3, <2>1 DEF Excluded
<1>12. /\ Lookup(Snapshot(s), r, {}).providers = EntriesOf(Candidates(Snapshot(s), r))
       /\ Lookup(Snapshot(s), r, {q.entry}) = [status |-> "resolved", providers |-> {q.entry}]
  <2>1. q.entry \in EntriesOf(Candidates(Snapshot(s), r))
    BY <1>9 DEF EntriesOf
  <2> QED BY <1>1, <1>7, <1>9, <2>1, WhatALookupFinds
<1>13. Lookup(Snapshot(s), r, {}).providers \ {p.consumer} =
         {o.entry : o \in Matching(r, s, x, eligible)}
  <2>1. EntriesOf(Candidates(Snapshot(s), r)) \ {p.consumer} =
          EntriesOf({o \in Candidates(Snapshot(s), r) : o.entry # x})
    BY <1>10, <1>11 DEF EntriesOf
  <2> QED BY <1>8, <1>12, <2>1 DEF EntriesOf
<1>14. Require(Snapshot(s), r.cap) # "not_found"
  <2>1. {o \in Snapshot(s) : o.cap = r.cap} # {}
    BY <1>4, <1>5
  <2> QED BY <2>1 DEF Require
<1> QED BY <1>2, <1>3, <1>4, <1>12, <1>13, <1>14 DEF Excluded

(* From the plan over the published tree to what a run looks up, one       *)
(* answer, for every hierarchy of scopes and whatever they hide: the       *)
(* resolver, the tree and the capability snapshot each work out what a     *)
(* scope can see, and agree.                                               *)
THEOREM TreesServeThePlan == Spec => []TreeServesThePlan
<1>1. Inv => TreeServesThePlan
  BY TreeIsThePlans, TreeInherits, RunsFindThePlans DEF TreeServesThePlan
<1> QED BY <1>1, ResolutionInvariant, PTL

(***************************************************************************)
(* The search for cycles                                                   *)
(***************************************************************************)

(* The search works on frames, nodes with what is left to explore of their *)
(* successors; the nodes of the frames are the path to the current node.   *)
Frames == [node : Nodes, todo : SUBSET Nodes]
Path == {work[i].node : i \in 1 .. Len(work)}

(* An edge of a visited node has been explored unless a frame has it left. *)
Explored(v, m) ==
  /\ <<v, m>> \in graph
  /\ \A i \in 1 .. Len(work) : work[i].node = v => m \notin work[i].todo

ClosedNodes == UNION components

SearchTyped ==
  /\ graph \subseteq Nodes \X Nodes
  /\ Visited \subseteq Nodes
  /\ indices \in [Visited -> Nat] /\ lowlink \in [Visited -> Nat]
  /\ \A n \in Visited : indices[n] < Cardinality(Visited)
  /\ stack \in Seq(Visited)
  /\ work \in Seq(Frames)
  /\ \A i \in 1 .. Len(work) : work[i].todo \subseteq Successors(work[i].node)

(* The stack and the path are in the order of the numbers; what was        *)
(* visited is on the stack or in one closed component.                     *)
StackOrdered ==
  /\ \A i, j \in 1 .. Len(stack) : i < j => indices[stack[i]] < indices[stack[j]]
  /\ \A i, j \in 1 .. Len(work) : i < j => indices[work[i].node] < indices[work[j].node]
  /\ Path \subseteq OnStack
  /\ Visited = OnStack \cup ClosedNodes
  /\ OnStack \cap ClosedNodes = {}

(* A node of the path reaches everything above it on the stack, and a node *)
(* of the stack reaches one of the path that is not above it.              *)
PathReaches ==
  /\ \A g \in Path, x \in OnStack : indices[g] <= indices[x] => Reaches(graph, g, x)
  /\ \A x \in OnStack : \E g \in Path : indices[g] <= indices[x] /\ Reaches(graph, x, g)

(* No explored edge leads to a node that was not visited. *)
NothingMissed == \A v \in Visited, m \in Nodes : Explored(v, m) => m \in Visited

(* A low link is the number of a node that is reached; the low link of a   *)
(* node of the path bounds the explored edges of the nodes above it, up to *)
(* the next one of the path.                                               *)
LowReached ==
  \A v \in OnStack :
    /\ lowlink[v] <= indices[v]
    /\ \E w \in OnStack : indices[w] = lowlink[v] /\ Reaches(graph, v, w)
LowBounds ==
  \A i \in 1 .. Len(work) : \A x, m \in OnStack :
    /\ indices[work[i].node] <= indices[x]
    /\ i < Len(work) => indices[x] < indices[work[i + 1].node]
    /\ Explored(x, m)
    => lowlink[work[i].node] <= indices[m]

(* What was closed is whole components, and no edge leaves it. *)
ClosedWhole ==
  /\ \A C \in components : C # {} /\ \A n \in C : C = ComponentOf(n)
  /\ ClosedNodes \subseteq Nodes
  /\ \A e \in graph : e[1] \in ClosedNodes => e[2] \in ClosedNodes

SearchInv ==
  /\ SearchTyped /\ StackOrdered /\ PathReaches /\ NothingMissed
  /\ LowReached /\ LowBounds /\ ClosedWhole

(* What the types say of the sequences.                                    *)
LEMMA SearchFacts ==
    ASSUME SearchTyped
    PROVE  /\ Len(work) \in Nat /\ Len(stack) \in Nat /\ Cardinality(Visited) \in Nat
           /\ \A i \in 1 .. Len(work) : /\ work[i].node \in Nodes /\ work[i].node \in Path
                                        /\ work[i].todo \subseteq Nodes
           /\ OnStack = {stack[i] : i \in 1 .. Len(stack)} /\ OnStack \subseteq Visited
           /\ \A n \in Visited : indices[n] \in Nat /\ lowlink[n] \in Nat
           /\ work = <<>> <=> Len(work) = 0
<1>1. Len(work) \in Nat /\ Len(stack) \in Nat /\ DOMAIN stack = 1 .. Len(stack)
  BY LenProperties DEF SearchTyped
<1>2. Cardinality(Visited) \in Nat
  BY NodesAreIds, FS_Subset, FS_CardinalityType DEF SearchTyped
<1>3. \A i \in 1 .. Len(work) : work[i] \in Frames
  BY ElementOfSeq DEF SearchTyped
<1>4. \A i \in 1 .. Len(stack) : stack[i] \in Visited
  BY ElementOfSeq DEF SearchTyped
<1>5. OnStack = {stack[i] : i \in 1 .. Len(stack)}
  BY <1>1 DEF OnStack, Range
<1>6. work = <<>> <=> Len(work) = 0
  BY EmptySeq DEF SearchTyped
<1>7. \A n \in Visited : indices[n] \in Nat /\ lowlink[n] \in Nat
  BY DEF SearchTyped
<1> QED BY <1>1, <1>2, <1>3, <1>4, <1>5, <1>6, <1>7 DEF Frames, Path

(* The last frame is that of the node of the path with the greatest        *)
(* number.                                                                 *)
LEMMA TopOfPath ==
    ASSUME SearchTyped, StackOrdered, NEW k, k = Len(work), k # 0
    PROVE  /\ k \in 1 .. Len(work) /\ work[k].node \in Path /\ work[k].node \in OnStack
           /\ \A g \in Path : indices[g] <= indices[work[k].node]
<1>1. k \in 1 .. Len(work) /\ work[k].node \in Path /\ work[k].node \in OnStack
  BY SearchFacts DEF StackOrdered
<1>2. ASSUME NEW i \in 1 .. k PROVE indices[work[i].node] <= indices[work[k].node]
  <2>1. work[i].node \in Visited /\ work[k].node \in Visited
    BY <1>1, SearchFacts DEF StackOrdered
  <2>2. indices[work[i].node] \in Nat /\ indices[work[k].node] \in Nat
    BY <2>1, SearchFacts
  <2>3. CASE i = k
    BY <2>2, <2>3
  <2>4. CASE i < k
    BY <1>1, <2>2, <2>4 DEF StackOrdered
  <2>5. k \in Nat
    BY SearchFacts
  <2> QED BY <2>3, <2>4, <2>5
<1> QED BY <1>1, <1>2 DEF Path

(* The frames with the current one advanced past m. *)
Advanced(below, m) ==
  /\ below \in Seq(Frames) /\ Len(below) = Len(work)
  /\ \A i \in 1 .. Len(work) : /\ below[i].node = work[i].node
                               /\ below[i].todo \subseteq work[i].todo
                               /\ work[i].todo \subseteq below[i].todo \cup {m}

(* A node is numbered, and pushed on the stack and on the path. *)
LEMMA NumberStep ==
    ASSUME SearchInv, NEW m \in Nodes \ Visited, NEW below, Advanced(below, m),
           \A i \in 1 .. Len(work) : i = Len(work) => <<work[i].node, m>> \in graph,
           Number(m, below), graph' = graph
    PROVE  SearchInv'
<1> DEFINE k == Len(work)
           c == Cardinality(Visited)
<1>1. /\ SearchTyped /\ StackOrdered /\ PathReaches /\ NothingMissed
      /\ LowReached /\ LowBounds /\ ClosedWhole
  BY DEF SearchInv
<1>2. /\ k \in Nat /\ Len(stack) \in Nat /\ c \in Nat
      /\ \A i \in 1 .. k : work[i].node \in Nodes /\ work[i].node \in Path
      /\ OnStack = {stack[i] : i \in 1 .. Len(stack)} /\ OnStack \subseteq Visited
      /\ \A n \in Visited : indices[n] \in Nat /\ lowlink[n] \in Nat /\ indices[n] < c
      /\ Path \subseteq OnStack
  BY <1>1, SearchFacts DEF SearchTyped, StackOrdered
<1>3. /\ FrameOf(m) \in Frames /\ FrameOf(m).node = m /\ FrameOf(m).todo = Successors(m)
  BY DEF FrameOf, Frames, Successors
<1>4. /\ work' \in Seq(Frames) /\ Len(work') = k + 1 /\ work'[k + 1] = FrameOf(m)
      /\ \A i \in 1 .. k : work'[i] = below[i]
  <2>1. work' = Append(below, FrameOf(m))
    BY DEF Number
  <2>2. below \in Seq(Frames) /\ Len(below) = k
    BY DEF Advanced
  <2> QED BY <1>3, <2>1, <2>2, AppendProperties
<1>5. /\ Visited' = Visited \cup {m}
      /\ indices' \in [Visited' -> Nat] /\ lowlink' \in [Visited' -> Nat]
      /\ indices'[m] = c /\ lowlink'[m] = c
      /\ \A n \in Visited : indices'[n] = indices[n] /\ lowlink'[n] = lowlink[n] /\ n # m
  <2>1. /\ indices' = [n \in Visited \cup {m} |-> IF n = m THEN c ELSE indices[n]]
        /\ lowlink' = [n \in Visited \cup {m} |-> IF n = m THEN c ELSE lowlink[n]]
    BY DEF Number, Numbered
  <2>2. Visited' = Visited \cup {m}
    BY <2>1 DEF Visited
  <2> HIDE DEF c
  <2> QED BY <1>2, <2>1, <2>2
<1>6. Cardinality(Visited') = c + 1
  <2>1. IsFiniteSet(Visited)
    BY <1>1, NodesAreIds, FS_Subset DEF SearchTyped
  <2> QED BY <1>5, <2>1, FS_AddElement
<1>7. /\ stack' \in Seq(Visited') /\ Len(stack') = Len(stack) + 1
      /\ stack'[Len(stack) + 1] = m /\ \A i \in 1 .. Len(stack) : stack'[i] = stack[i]
  <2>1. stack' = Append(stack, m)
    BY DEF Number
  <2>2. stack \in Seq(Visited')
    BY <1>1, <1>5, SeqMonotonic DEF SearchTyped
  <2> QED BY <1>5, <2>1, <2>2, AppendProperties
<1>8. OnStack' = OnStack \cup {m}
  <2>1. DOMAIN stack' = 1 .. Len(stack) + 1
    BY <1>7, LenProperties
  <2>2. OnStack' = {stack'[i] : i \in 1 .. Len(stack) + 1}
    BY <2>1 DEF OnStack, Range
  <2>3. 1 .. Len(stack) + 1 = 1 .. Len(stack) \cup {Len(stack) + 1}
    BY <1>2
  <2> QED BY <1>2, <1>7, <2>2, <2>3
<1>9. \A i \in 1 .. k : work'[i].node = work[i].node /\ work'[i].todo \subseteq work[i].todo
                        /\ work[i].todo \subseteq work'[i].todo \cup {m}
  BY <1>4 DEF Advanced
<1>10. Path' = Path \cup {m}
  <2>1. 1 .. Len(work') = 1 .. k \cup {k + 1}
    BY <1>2, <1>4
  <2> QED BY <1>3, <1>4, <1>9, <2>1 DEF Path
<1>11. UNCHANGED <<graph, components, ClosedNodes>>
  BY DEF Number, ClosedNodes
<1>12. \A v \in Visited, y \in Nodes : y # m /\ Explored(v, y)' => Explored(v, y)
  <2> SUFFICES ASSUME NEW v \in Visited, NEW y \in Nodes, y # m, Explored(v, y)',
                      NEW i \in 1 .. k, work[i].node = v
               PROVE  y \notin work[i].todo
    BY <1>11 DEF Explored
  <2>1. i \in 1 .. Len(work') /\ work'[i].node = v
    BY <1>2, <1>4, <1>9
  <2> QED BY <1>9, <2>1 DEF Explored
<1>13. \A y \in Nodes : ~Explored(m, y)'
  <2> SUFFICES ASSUME NEW y \in Nodes, Explored(m, y)' PROVE FALSE
    OBVIOUS
  <2>1. k + 1 \in 1 .. Len(work') /\ work'[k + 1].node = m /\ y \in work'[k + 1].todo
    BY <1>2, <1>3, <1>4, <1>11 DEF Explored, Successors
  <2> QED BY <2>1 DEF Explored
<1> HIDE DEF k, c
<1>14. SearchTyped'
  <2>1. \A n \in Visited' : indices'[n] < c + 1
    BY <1>2, <1>5
  <2>2. \A i \in 1 .. k : work'[i].todo \subseteq Successors(work'[i].node)
    BY <1>1, <1>9 DEF SearchTyped, k
  <2>3. \A i \in 1 .. Len(work') : work'[i].todo \subseteq Successors(work'[i].node)
    <3>1. 1 .. Len(work') = 1 .. k \cup {k + 1}
      BY <1>2, <1>4
    <3> QED BY <1>3, <1>4, <2>2, <3>1
  <2>4. \A n : Successors(n)' = Successors(n)
    BY <1>11 DEF Successors
  <2> QED BY <1>1, <1>4, <1>5, <1>6, <1>7, <1>11, <2>1, <2>3, <2>4 DEF SearchTyped
<1>15. StackOrdered'
  <2>1. ASSUME NEW i \in 1 .. Len(stack'), NEW j \in 1 .. Len(stack'), i < j
        PROVE  indices'[stack'[i]] < indices'[stack'[j]]
    <3>1. i \in 1 .. Len(stack) /\ stack[i] \in Visited
      BY <1>2, <1>7, <2>1
    <3>2. CASE j \in 1 .. Len(stack)
      <4>1. stack[j] \in Visited /\ stack'[i] = stack[i] /\ stack'[j] = stack[j]
        BY <1>2, <1>7, <3>1, <3>2
      <4>2. indices[stack[i]] < indices[stack[j]]
        BY <1>1, <2>1, <3>1, <3>2 DEF StackOrdered
      <4> QED BY <1>5, <3>1, <4>1, <4>2
    <3>3. CASE j = Len(stack) + 1
      BY <1>2, <1>5, <1>7, <3>1, <3>3
    <3> QED BY <1>2, <1>7, <3>2, <3>3
  <2>2. ASSUME NEW i \in 1 .. Len(work'), NEW j \in 1 .. Len(work'), i < j
        PROVE  indices'[work'[i].node] < indices'[work'[j].node]
    <3>1. i \in 1 .. k /\ work[i].node \in Visited /\ work'[i].node = work[i].node
      BY <1>2, <1>4, <1>9, <2>2
    <3>2. CASE j \in 1 .. k
      <4>1. work[j].node \in Visited /\ work'[j].node = work[j].node
        BY <1>2, <1>9, <3>2
      <4>2. indices[work[i].node] < indices[work[j].node]
        BY <1>1, <2>2, <3>1, <3>2 DEF StackOrdered, k
      <4> QED BY <1>5, <3>1, <4>1, <4>2
    <3>3. CASE j = k + 1
      <4>1. work'[j].node = m /\ indices'[m] = c
        BY <1>3, <1>4, <1>5, <3>3
      <4>2. indices[work[i].node] < c /\ indices'[work'[i].node] = indices[work[i].node]
        BY <1>2, <1>5, <3>1
      <4> QED BY <4>1, <4>2
    <3> QED BY <1>2, <1>4, <3>2, <3>3
  <2>3. m \notin ClosedNodes
    BY <1>1 DEF StackOrdered
  <2> QED BY <1>1, <1>5, <1>8, <1>10, <1>11, <2>1, <2>2, <2>3 DEF StackOrdered
<1>16. PathReaches'
  <2>1. \A g \in Path : Reaches(graph, g, m)
    <3> SUFFICES ASSUME NEW g \in Path PROVE Reaches(graph, g, m)
      OBVIOUS
    <3>1. k # 0
      BY <1>2 DEF Path, k
    <3>2. PICK t : t = work[k].node
      OBVIOUS
    <3>3. /\ t \in OnStack /\ indices[g] <= indices[t] /\ <<t, m>> \in graph
      BY <1>1, <3>1, <3>2, TopOfPath DEF k
    <3>4. Reaches(graph, g, t) /\ Reaches(graph, t, m)
      BY <1>1, <3>3, ReachesSteps DEF PathReaches
    <3> QED BY <3>4, ReachesSteps
  <2>2. Reaches(graph, m, m)
    BY ReachesSteps
  <2>3. ASSUME NEW g \in Path', NEW x \in OnStack', indices'[g] <= indices'[x]
        PROVE  Reaches(graph, g, x)
    <3>1. CASE x = m
      BY <1>10, <2>1, <2>2, <3>1
    <3>2. CASE x # m
      <4>1. x \in OnStack /\ x \in Visited /\ indices'[x] = indices[x] /\ indices[x] < c
        BY <1>2, <1>5, <1>8, <3>2
      <4>2. g # m
        BY <1>2, <1>5, <2>3, <4>1
      <4>3. g \in Path /\ g \in Visited
        BY <1>2, <1>10, <4>2
      <4> QED BY <1>1, <1>5, <2>3, <4>1, <4>3 DEF PathReaches
    <3> QED BY <3>1, <3>2
  <2>4. ASSUME NEW x \in OnStack'
        PROVE  \E g \in Path' : indices'[g] <= indices'[x] /\ Reaches(graph, x, g)
    <3>1. CASE x = m
      BY <1>2, <1>5, <1>10, <2>2, <3>1
    <3>2. CASE x # m
      <4>1. x \in OnStack /\ x \in Visited
        BY <1>2, <1>8, <3>2
      <4>2. PICK g \in Path : indices[g] <= indices[x] /\ Reaches(graph, x, g)
        BY <1>1, <4>1 DEF PathReaches
      <4> QED BY <1>2, <1>5, <1>10, <4>1, <4>2
    <3> QED BY <3>1, <3>2
  <2> QED BY <1>11, <2>3, <2>4 DEF PathReaches
<1>17. NothingMissed'
  <2> SUFFICES ASSUME NEW v \in Visited', NEW y \in Nodes, Explored(v, y)' PROVE y \in Visited'
    BY DEF NothingMissed
  <2> QED BY <1>1, <1>5, <1>12, <1>13 DEF NothingMissed
<1>18. LowReached'
  <2> SUFFICES ASSUME NEW v \in OnStack'
               PROVE  /\ lowlink'[v] <= indices'[v]
                      /\ \E w \in OnStack' : indices'[w] = lowlink'[v] /\ Reaches(graph, v, w)
    BY <1>11 DEF LowReached
  <2>1. CASE v = m
    BY <1>2, <1>5, <1>8, <2>1, ReachesSteps
  <2>2. CASE v # m
    <3>1. v \in OnStack /\ v \in Visited
      BY <1>2, <1>8, <2>2
    <3> QED BY <1>1, <1>2, <1>5, <1>8, <3>1 DEF LowReached
  <2> QED BY <2>1, <2>2
<1>19. LowBounds'
  <2> SUFFICES ASSUME NEW i \in 1 .. Len(work'), NEW x \in OnStack', NEW y \in OnStack',
                      indices'[work'[i].node] <= indices'[x],
                      i < Len(work') => indices'[x] < indices'[work'[i + 1].node],
                      Explored(x, y)'
               PROVE  lowlink'[work'[i].node] <= indices'[y]
    BY DEF LowBounds
  <2>1. x # m /\ x \in OnStack /\ x \in Visited
    <3>1. y \in Nodes
      BY <1>1, <1>2, <1>8 DEF SearchTyped
    <3> QED BY <1>2, <1>8, <1>13, <3>1
  <2>2. i \in 1 .. k
    <3>1. CASE i = k + 1
      BY <1>2, <1>3, <1>4, <1>5, <2>1, <3>1
    <3> QED BY <1>2, <1>4, <3>1
  <2>3. PICK g : g = work[i].node
    OBVIOUS
  <2>4. g \in Visited /\ g \in OnStack /\ work'[i].node = g /\ indices[g] <= indices[x]
        /\ lowlink'[g] = lowlink[g] /\ lowlink[g] <= indices[g]
    BY <1>1, <1>2, <1>5, <1>9, <2>1, <2>2, <2>3 DEF LowReached
  <2>5. CASE y = m
    BY <1>2, <1>5, <2>4, <2>5
  <2>6. CASE y # m
    <3>1. y \in OnStack /\ y \in Visited /\ y \in Nodes
      BY <1>1, <1>2, <1>8, <2>6 DEF SearchTyped
    <3>2. Explored(x, y)
      BY <1>12, <2>1, <2>6, <3>1
    <3>3. i < k => indices[x] < indices[work[i + 1].node]
      <4> SUFFICES ASSUME i < k PROVE indices[x] < indices[work[i + 1].node]
        OBVIOUS
      <4>1. i + 1 \in 1 .. k /\ i < Len(work')
        BY <1>2, <1>4, <2>2
      <4> QED BY <1>2, <1>5, <1>9, <2>1, <4>1
    <3>4. lowlink[g] <= indices[y]
      BY <1>1, <2>1, <2>2, <2>3, <2>4, <3>1, <3>2, <3>3 DEF LowBounds, k
    <3> QED BY <1>5, <2>4, <3>1, <3>4
  <2> QED BY <2>5, <2>6
<1>20. ClosedWhole'
  BY <1>1, <1>11 DEF ClosedWhole, ComponentOf
<1> QED BY <1>14, <1>15, <1>16, <1>17, <1>18, <1>19, <1>20 DEF SearchInv

(* The search goes on from the next root, or from the next successor of    *)
(* the current node.                                                       *)
LEMMA StartRootStep == SearchInv /\ StartRoot /\ graph' = graph => SearchInv'
<1> SUFFICES ASSUME SearchInv, StartRoot, graph' = graph PROVE SearchInv'
  OBVIOUS
<1>1. PICK m : m = Min(Nodes \ Visited)
  OBVIOUS
<1>2. m \in Nodes \ Visited
  <2>1. Nodes \ Visited \in SUBSET Nat /\ Nodes \ Visited # {}
    BY NodesAreIds DEF StartRoot, SearchInv, SearchTyped
  <2> QED BY <1>1, <2>1, LeastMember
<1>3. Number(m, <<>>) /\ work = <<>> /\ Len(work) = 0
  BY <1>1, SearchFacts DEF StartRoot, SearchInv
<1>4. Advanced(<<>>, m)
  BY <1>3 DEF Advanced
<1> QED BY <1>2, <1>3, <1>4, NumberStep

(* The frames, with the last one advanced past m. *)
OneLess(m) == Append(Below, [Frame EXCEPT !.todo = @ \ {m}])

LEMMA AdvancedFrames ==
    ASSUME SearchTyped, work # <<>>, Frame.todo # {},
           NEW m, m = Min(Frame.todo),
           NEW below, below = OneLess(m),
           NEW k, k = Len(work)
    PROVE  /\ k \in 1 .. Len(work) /\ Frame = work[k] /\ Frame \in Frames
           /\ m \in Frame.todo /\ m \in Nodes /\ <<Frame.node, m>> \in graph
           /\ Advanced(below, m)
           /\ \A i \in 1 .. k : i # k => below[i] = work[i]
           /\ below[k].node = Frame.node /\ below[k].todo = Frame.todo \ {m}
<1>1. k \in Nat /\ k # 0 /\ k \in 1 .. Len(work) /\ Frame = work[k] /\ Frame \in Frames
  <2>1. k \in Nat /\ k # 0
    BY SearchFacts
  <2>2. Frame = work[k] /\ k \in 1 .. Len(work)
    BY <2>1 DEF Frame
  <2> QED BY <2>1, <2>2, ElementOfSeq DEF SearchTyped
<1>2. m \in Frame.todo /\ m \in Nodes /\ <<Frame.node, m>> \in graph
  <2>1. Frame.todo \subseteq Nodes /\ Frame.todo \subseteq Successors(Frame.node)
    BY <1>1 DEF Frames, SearchTyped
  <2>2. Frame.todo \in SUBSET Nat
    BY <2>1, NodesAreIds
  <2>3. m \in Frame.todo
    BY <2>2, LeastMember
  <2> QED BY <2>1, <2>3 DEF Successors
<1>3. PICK f : f = [Frame EXCEPT !.todo = @ \ {m}]
  OBVIOUS
<1>4. f \in Frames /\ f.node = Frame.node /\ f.todo = Frame.todo \ {m}
  BY <1>1, <1>3 DEF Frames
<1>5. Below \in Seq(Frames) /\ Len(Below) = k - 1 /\ \A i \in 1 .. (k - 1) : Below[i] = work[i]
  <2>1. \A i \in 1 .. (k - 1) : work[i] \in Frames
    BY <1>1, ElementOfSeq DEF SearchTyped
  <2>2. Below = SubSeq(work, 1, k - 1)
    BY DEF Below
  <2> QED BY <1>1, <2>1, <2>2, SubSeqProperties
<1>6. /\ below \in Seq(Frames) /\ Len(below) = k /\ below[k] = f
      /\ \A i \in 1 .. (k - 1) : below[i] = work[i]
  <2>1. below = Append(Below, f)
    BY <1>3 DEF OneLess
  <2>2. PICK rest : rest = Below
    OBVIOUS
  <2>3. /\ rest \in Seq(Frames) /\ Len(rest) = k - 1 /\ below = Append(rest, f) /\ f \in Frames
        /\ \A i \in 1 .. (k - 1) : rest[i] = work[i]
    BY <1>4, <1>5, <2>1, <2>2
  <2>4. /\ below \in Seq(Frames) /\ Len(below) = Len(rest) + 1 /\ below[Len(rest) + 1] = f
        /\ \A i \in 1 .. Len(rest) : below[i] = rest[i]
    BY <2>3, AppendProperties
  <2> QED BY <1>1, <2>3, <2>4
<1>7. \A i \in 1 .. k : i # k => below[i] = work[i]
  BY <1>1, <1>6
<1>8. Advanced(below, m)
  <2> SUFFICES ASSUME NEW i \in 1 .. k
               PROVE  /\ below[i].node = work[i].node /\ below[i].todo \subseteq work[i].todo
                      /\ work[i].todo \subseteq below[i].todo \cup {m}
    BY <1>6 DEF Advanced
  <2>1. CASE i = k
    BY <1>1, <1>4, <1>6, <2>1
  <2>2. CASE i # k
    BY <1>7, <2>2
  <2> QED BY <2>1, <2>2
<1> QED BY <1>1, <1>2, <1>4, <1>6, <1>7, <1>8

LEMMA DescendStep == SearchInv /\ Descend /\ graph' = graph => SearchInv'
<1> SUFFICES ASSUME SearchInv, Descend, graph' = graph PROVE SearchInv'
  OBVIOUS
<1>1. PICK m : m = Min(Frame.todo)
  OBVIOUS
<1>2. PICK below : below = OneLess(m)
  OBVIOUS
<1>3. work # <<>> /\ Frame.todo # {} /\ m \notin Visited /\ Number(m, below) /\ SearchTyped
  BY <1>1, <1>2 DEF Descend, SearchInv, OneLess
<1>4. /\ Frame = work[Len(work)] /\ m \in Nodes /\ <<Frame.node, m>> \in graph
      /\ Advanced(below, m)
  BY <1>1, <1>2, <1>3, AdvancedFrames
<1> QED BY <1>3, <1>4, NumberStep

(* A visited successor is looked at: only one on the stack counts.         *)
LEMMA LookStep == SearchInv /\ Look /\ graph' = graph => SearchInv'
<1> SUFFICES ASSUME SearchInv, Look, graph' = graph PROVE SearchInv'
  OBVIOUS
<1>1. PICK m : m = Min(Frame.todo)
  OBVIOUS
<1>2. PICK below : below = OneLess(m)
  OBVIOUS
<1>3. PICK k : k = Len(work)
  OBVIOUS
<1>4. PICK n : n = Frame.node
  OBVIOUS
<1>5. /\ work # <<>> /\ Frame.todo # {} /\ m \in Visited /\ work' = below
      /\ lowlink' = [lowlink EXCEPT ![n] =
                       IF m \in OnStack THEN Min({lowlink[n], indices[m]}) ELSE lowlink[n]]
      /\ UNCHANGED <<indices, stack, components, graph>>
  BY <1>1, <1>2, <1>4 DEF Look, OneLess
<1>6. /\ SearchTyped /\ StackOrdered /\ PathReaches /\ NothingMissed
      /\ LowReached /\ LowBounds /\ ClosedWhole
  BY DEF SearchInv
<1>7. /\ k \in 1 .. Len(work) /\ Frame = work[k]
      /\ m \in Frame.todo /\ m \in Nodes /\ <<n, m>> \in graph
      /\ Advanced(below, m)
      /\ \A i \in 1 .. k : i # k => below[i] = work[i]
      /\ below[k].node = n /\ below[k].todo = Frame.todo \ {m}
  <2>1. /\ k \in 1 .. Len(work) /\ Frame = work[k] /\ Frame \in Frames
        /\ m \in Frame.todo /\ m \in Nodes /\ <<Frame.node, m>> \in graph
        /\ Advanced(below, m)
        /\ \A i \in 1 .. k : i # k => below[i] = work[i]
        /\ below[k].node = Frame.node /\ below[k].todo = Frame.todo \ {m}
    <3>1. work # <<>> /\ Frame.todo # {}
      BY <1>5
    <3>2. SearchTyped
      BY <1>6
    <3> QED BY ONLY <1>1, <1>2, <1>3, <3>1, <3>2, AdvancedFrames
  <2> QED BY <1>4, <2>1
<1>8. /\ k \in Nat /\ OnStack \subseteq Visited /\ Path \subseteq OnStack /\ n \in Path
      /\ \A v \in Visited : indices[v] \in Nat /\ lowlink[v] \in Nat
      /\ \A i \in 1 .. k : work[i].node \in Path
  BY <1>3, <1>4, <1>6, <1>7, SearchFacts DEF StackOrdered
<1>9. /\ work' \in Seq(Frames) /\ Len(work') = k
      /\ \A i \in 1 .. k : work'[i].node = work[i].node /\ work'[i].todo \subseteq work[i].todo
                           /\ work[i].todo \subseteq work'[i].todo \cup {m}
  BY <1>3, <1>5, <1>7 DEF Advanced
<1>10. Path' = Path
  BY <1>3, <1>9 DEF Path
<1>11. PICK low : low = IF m \in OnStack THEN Min({lowlink[n], indices[m]}) ELSE lowlink[n]
  OBVIOUS
<1>12. /\ low \in Nat /\ low <= lowlink[n] /\ low \in {lowlink[n], indices[m]}
       /\ m \in OnStack => low <= indices[m]
       /\ low # lowlink[n] => m \in OnStack
  <2>1. lowlink[n] \in Nat /\ indices[m] \in Nat
    BY <1>5, <1>8
  <2>2. CASE m \in OnStack
    <3>1. {lowlink[n], indices[m]} \in SUBSET Nat /\ {lowlink[n], indices[m]} # {}
      BY <2>1
    <3>2. low = Min({lowlink[n], indices[m]})
      BY <1>11, <2>2
    <3>3. low \in {lowlink[n], indices[m]} /\ \A v \in {lowlink[n], indices[m]} : low <= v
      BY <3>1, <3>2, LeastMember
    <3> QED BY <2>1, <2>2, <3>3
  <2>3. CASE m \notin OnStack
    BY <1>11, <2>1, <2>3
  <2> QED BY <2>2, <2>3
<1>13. /\ lowlink' \in [Visited -> Nat] /\ lowlink'[n] = low
       /\ \A v \in Visited : v # n => lowlink'[v] = lowlink[v]
       /\ \A v \in Visited : lowlink'[v] <= lowlink[v] /\ lowlink'[v] \in Nat
  <2>1. lowlink' = [lowlink EXCEPT ![n] = low]
    BY <1>5, <1>11
  <2>2. lowlink \in [Visited -> Nat] /\ n \in Visited
    BY <1>6, <1>8 DEF SearchTyped
  <2>3. /\ lowlink' \in [Visited -> Nat] /\ lowlink'[n] = low
        /\ \A v \in Visited : v # n => lowlink'[v] = lowlink[v]
    BY <1>12, <2>1, <2>2
  <2> QED BY <1>8, <1>12, <2>3
<1>14. UNCHANGED <<Visited, OnStack, ClosedNodes>>
  BY <1>5 DEF Visited, OnStack, ClosedNodes
<1>15. \A v, y : Explored(v, y)' => Explored(v, y) \/ (v = n /\ y = m)
  <2> SUFFICES ASSUME NEW v, NEW y, Explored(v, y)', ~ (v = n /\ y = m),
                      NEW i \in 1 .. k, work[i].node = v
               PROVE  y \notin work[i].todo
    BY <1>3, <1>5 DEF Explored
  <2>1. i \in 1 .. Len(work') /\ work'[i].node = v /\ y \notin work'[i].todo
    BY <1>9 DEF Explored
  <2>2. CASE i = k
    BY <1>4, <1>7, <1>9, <2>1, <2>2
  <2>3. CASE i # k
    BY <1>5, <1>7, <2>1, <2>3
  <2> QED BY <2>2, <2>3
<1>16. SearchTyped'
  <2>1. \A x : Successors(x)' = Successors(x)
    BY <1>5 DEF Successors
  <2>2. \A i \in 1 .. Len(work') : work'[i].todo \subseteq Successors(work'[i].node)
    BY <1>3, <1>6, <1>9 DEF SearchTyped
  <2> QED BY <1>5, <1>6, <1>9, <1>13, <1>14, <2>1, <2>2 DEF SearchTyped
<1>17. StackOrdered'
  BY <1>3, <1>5, <1>6, <1>9, <1>10, <1>14 DEF StackOrdered
<1>18. PathReaches'
  BY <1>5, <1>6, <1>10, <1>14 DEF PathReaches
<1>19. NothingMissed'
  BY <1>5, <1>6, <1>14, <1>15 DEF NothingMissed
<1>20. LowReached'
  <2> SUFFICES ASSUME NEW v \in OnStack
               PROVE  /\ lowlink'[v] <= indices[v]
                      /\ \E w \in OnStack : indices[w] = lowlink'[v] /\ Reaches(graph, v, w)
    BY <1>5, <1>14 DEF LowReached
  <2>1. v \in Visited /\ lowlink[v] <= indices[v]
    BY <1>6, <1>8 DEF LowReached
  <2>2. lowlink'[v] <= indices[v]
    BY <1>8, <1>13, <2>1
  <2>3. CASE lowlink'[v] = lowlink[v]
    BY <1>6, <2>2, <2>3 DEF LowReached
  <2>4. CASE lowlink'[v] # lowlink[v]
    <3>1. v = n /\ lowlink'[v] = indices[m] /\ m \in OnStack
      BY <1>12, <1>13, <2>1, <2>4
    <3>2. Reaches(graph, n, m)
      BY <1>7, ReachesSteps
    <3> QED BY <2>2, <3>1, <3>2
  <2> QED BY <2>3, <2>4
<1>21. LowBounds'
  <2> SUFFICES ASSUME NEW i \in 1 .. k, NEW x \in OnStack, NEW y \in OnStack,
                      indices[work[i].node] <= indices[x],
                      i < k => indices[x] < indices[work[i + 1].node],
                      Explored(x, y)'
               PROVE  lowlink'[work[i].node] <= indices[y]
    <3>1. \A i \in 1 .. k : i < k => i + 1 \in 1 .. k
      BY <1>8
    <3>2. ASSUME NEW i \in 1 .. k, NEW x \in OnStack, NEW y \in OnStack,
                 indices[work'[i].node] <= indices[x],
                 i < k => indices[x] < indices[work'[i + 1].node],
                 Explored(x, y)'
          PROVE  lowlink'[work'[i].node] <= indices[y]
      BY <1>9, <3>1, <3>2
    <3>3. UNCHANGED <<indices, OnStack>> /\ Len(work') = k
      BY <1>5, <1>9, <1>14
    <3> QED BY <3>2, <3>3 DEF LowBounds
  <2>1. PICK g : g = work[i].node
    OBVIOUS
  <2>2. g \in Visited /\ g \in OnStack /\ g \in Path /\ y \in Visited
    BY <1>8, <2>1
  <2>3. CASE Explored(x, y)
    <3>1. lowlink[g] <= indices[y]
      BY <1>3, <1>6, <2>1, <2>3 DEF LowBounds
    <3> QED BY <1>8, <1>13, <2>1, <2>2, <3>1
  <2>4. CASE x = n /\ y = m
    <3>1. i = k
      <4> SUFFICES ASSUME i # k PROVE FALSE
        OBVIOUS
      <4>1. i + 1 \in 1 .. k /\ i < k
        BY <1>8
      <4>2. /\ work[i + 1].node \in Path /\ indices[work[i + 1].node] <= indices[n]
        BY <1>3, <1>4, <1>6, <1>7, <1>8, <4>1, TopOfPath
      <4>3. indices[n] \in Nat /\ indices[work[i + 1].node] \in Nat
        BY <1>8, <4>2
      <4> QED BY <2>4, <4>1, <4>2, <4>3
    <3>2. g = n
      BY <1>4, <1>7, <2>1, <3>1
    <3> QED BY <1>12, <1>13, <2>1, <2>4, <3>2
  <2> QED BY <1>15, <2>3, <2>4
<1>22. ClosedWhole'
  BY <1>5, <1>6, <1>14 DEF ClosedWhole, ComponentOf
<1> QED BY <1>16, <1>17, <1>18, <1>19, <1>20, <1>21, <1>22 DEF SearchInv

(* What the return of the last frame, of node n, leaves: the path without  *)
(* n, all of whose edges are explored, and its low link in its parent's.   *)
LEMMA ReturnFacts ==
    ASSUME SearchInv, Return, graph' = graph, NEW k, k = Len(work), NEW n, n = Frame.node
    PROVE  /\ k \in Nat /\ k # 0 /\ work[k].node = n /\ n \in Path /\ n \in OnStack /\ n \in Visited
           /\ work' \in Seq(Frames) /\ Len(work') = k - 1
           /\ \A i \in 1 .. (k - 1) : work'[i] = work[i]
           /\ Path' = Path \ {n}
           /\ \A g \in Path : indices[g] <= indices[n]
           /\ \A v, y : Explored(v, y)' => Explored(v, y)
           /\ \A y : <<n, y>> \in graph => Explored(n, y)
           /\ lowlink' \in [Visited -> Nat]
           /\ \A v \in Visited : /\ lowlink'[v] <= lowlink[v]
                                 /\ lowlink'[v] # lowlink[v] =>
                                      k - 1 # 0 /\ v = work[k - 1].node /\ lowlink'[v] = lowlink[n]
           /\ k - 1 # 0 => lowlink'[work[k - 1].node] <= lowlink[n]
<1>1. SearchTyped /\ StackOrdered /\ work # <<>> /\ Frame.todo = {} /\ work' = Below
  BY DEF SearchInv, Return
<1>2. k \in Nat /\ k # 0 /\ Frame = work[k] /\ k \in 1 .. Len(work)
  <2>1. k \in Nat /\ k # 0
    BY <1>1, SearchFacts
  <2> QED BY <2>1 DEF Frame
<1>3. /\ n = work[k].node /\ n \in Path /\ n \in OnStack /\ n \in Visited
      /\ \A g \in Path : indices[g] <= indices[n]
  BY <1>1, <1>2, TopOfPath, SearchFacts
<1>4. /\ \A v \in Visited : indices[v] \in Nat /\ lowlink[v] \in Nat
      /\ \A i \in 1 .. k : work[i].node \in Path /\ work[i].node \in Visited
  BY <1>1, <1>2, SearchFacts DEF StackOrdered
<1>5. work' \in Seq(Frames) /\ Len(work') = k - 1 /\ \A i \in 1 .. (k - 1) : work'[i] = work[i]
  <2>1. \A i \in 1 .. (k - 1) : work[i] \in Frames
    BY <1>1, <1>2, ElementOfSeq DEF SearchTyped
  <2>2. work' = SubSeq(work, 1, k - 1)
    BY <1>1 DEF Below
  <2> QED BY <1>2, <2>1, <2>2, SubSeqProperties
<1>6. \A i \in 1 .. k : work[i].node = n <=> i = k
  <2> SUFFICES ASSUME NEW i \in 1 .. k, i # k PROVE work[i].node # n
    BY <1>3
  <2>1. i < k /\ i \in 1 .. Len(work)
    BY <1>2
  <2>2. indices[work[i].node] < indices[work[k].node]
    BY <1>1, <1>2, <2>1 DEF StackOrdered
  <2> QED BY <1>3, <1>4, <2>2
<1>7. Path' = Path \ {n}
  <2>1. Path' = {work[i].node : i \in 1 .. (k - 1)}
    BY <1>5 DEF Path
  <2>2. Path = {work[i].node : i \in 1 .. k}
    BY DEF Path
  <2>3. \A i : i \in 1 .. (k - 1) <=> i \in 1 .. k /\ i # k
    BY <1>2
  <2> QED BY <1>6, <2>1, <2>2, <2>3
<1>8. ASSUME NEW v, NEW y, Explored(v, y)' PROVE Explored(v, y)
  <2> SUFFICES ASSUME NEW i \in 1 .. k, work[i].node = v PROVE y \notin work[i].todo
    BY <1>8 DEF Explored
  <2>1. CASE i = k
    BY <1>1, <1>2, <2>1
  <2>2. CASE i # k
    <3>1. i \in 1 .. Len(work') /\ work'[i] = work[i]
      BY <1>2, <1>5, <2>2
    <3> QED BY <1>8, <3>1 DEF Explored
  <2> QED BY <2>1, <2>2
<1>9. \A y : <<n, y>> \in graph => Explored(n, y)
  BY <1>1, <1>2, <1>6 DEF Explored
<1>10. /\ lowlink' \in [Visited -> Nat]
       /\ \A v \in Visited : /\ lowlink'[v] <= lowlink[v]
                             /\ lowlink'[v] # lowlink[v] =>
                                  k - 1 # 0 /\ v = work[k - 1].node /\ lowlink'[v] = lowlink[n]
       /\ k - 1 # 0 => lowlink'[work[k - 1].node] <= lowlink[n]
  <2>0. lowlink \in [Visited -> Nat]
    BY <1>1 DEF SearchTyped
  <2>1. CASE k - 1 = 0
    <3>1. Below = <<>>
      BY <1>1, <1>5, <2>1, EmptySeq
    <3>2. lowlink' = lowlink
      BY <3>1 DEF Return
    <3>3. \A v \in Visited : lowlink'[v] = lowlink[v] /\ lowlink'[v] <= lowlink[v]
      BY <1>4, <3>2
    <3> QED BY <2>0, <2>1, <3>2, <3>3
  <2>2. CASE k - 1 # 0
    <3>1. Below # <<>> /\ Below[Len(Below)] = work[k - 1]
      BY <1>1, <1>2, <1>5, <2>2
    <3>2. PICK p : p = work[k - 1].node
      OBVIOUS
    <3>3. PICK low : low = Min({lowlink[p], lowlink[n]})
      OBVIOUS
    <3>4. p \in Visited /\ lowlink[p] \in Nat /\ lowlink[n] \in Nat
      <4>1. k - 1 \in 1 .. k
        BY <1>2, <2>2
      <4> QED BY <1>3, <1>4, <3>2, <4>1
    <3>5. /\ low \in {lowlink[p], lowlink[n]} /\ low <= lowlink[p] /\ low <= lowlink[n]
          /\ low \in Nat
      <4>1. {lowlink[p], lowlink[n]} \in SUBSET Nat /\ {lowlink[p], lowlink[n]} # {}
        BY <3>4
      <4>2. /\ low \in {lowlink[p], lowlink[n]}
            /\ \A v \in {lowlink[p], lowlink[n]} : low <= v
        BY <3>3, <4>1, LeastMember
      <4> QED BY <3>4, <4>2
    <3>6. lowlink' = [lowlink EXCEPT ![p] = low]
      BY <3>1, <3>2, <3>3 DEF Return
    <3>7. /\ lowlink' \in [Visited -> Nat] /\ lowlink'[p] = low
          /\ \A v \in Visited : v # p => lowlink'[v] = lowlink[v]
      BY <2>0, <3>4, <3>5, <3>6
    <3> QED BY <1>4, <2>2, <3>2, <3>5, <3>7
  <2> QED BY <2>1, <2>2
<1> QED BY <1>2, <1>3, <1>5, <1>7, <1>8, <1>9, <1>10

(* What a return keeps whether or not it closes a component.               *)
LEMMA ReturnTyped ==
    ASSUME SearchInv, Return, graph' = graph, stack' \in Seq(Visited)
    PROVE  /\ SearchTyped' /\ NothingMissed'
           /\ \A i, j \in 1 .. Len(work') : i < j => indices[work'[i].node] < indices[work'[j].node]
<1>1. PICK k : k = Len(work)
  OBVIOUS
<1>2. PICK n : n = Frame.node
  OBVIOUS
<1>3. /\ k \in Nat /\ work' \in Seq(Frames) /\ Len(work') = k - 1
      /\ \A i \in 1 .. (k - 1) : work'[i] = work[i] /\ i \in 1 .. Len(work)
      /\ \A v, y : Explored(v, y)' => Explored(v, y)
      /\ lowlink' \in [Visited -> Nat]
  <2>1. /\ k \in Nat /\ work' \in Seq(Frames) /\ Len(work') = k - 1
        /\ \A i \in 1 .. (k - 1) : work'[i] = work[i]
        /\ \A v, y : Explored(v, y)' => Explored(v, y)
        /\ lowlink' \in [Visited -> Nat]
    BY <1>1, <1>2, ReturnFacts
  <2> QED BY <1>1, <2>1
<1>4. /\ SearchTyped /\ StackOrdered /\ NothingMissed
      /\ indices' = indices /\ graph' = graph /\ Visited' = Visited
  BY DEF SearchInv, Return, Visited
<1>5. SearchTyped'
  <2>1. \A v : Successors(v)' = Successors(v)
    BY DEF Successors
  <2>2. \A i \in 1 .. Len(work') : work'[i].todo \subseteq Successors(work'[i].node)
    BY <1>3, <1>4 DEF SearchTyped
  <2> QED BY <1>3, <1>4, <2>1, <2>2 DEF SearchTyped
<1>6. NothingMissed'
  BY <1>3, <1>4 DEF NothingMissed
<1>7. \A i, j \in 1 .. Len(work') : i < j => indices[work'[i].node] < indices[work'[j].node]
  BY <1>3, <1>4 DEF StackOrdered
<1> QED BY <1>5, <1>6, <1>7

(* A node that reaches further down leaves the path but not the stack.     *)
LEMMA ReturnOpen ==
    ASSUME SearchInv, Return, graph' = graph, lowlink[Frame.node] # indices[Frame.node]
    PROVE  SearchInv'
<1>1. PICK k : k = Len(work)
  OBVIOUS
<1>2. PICK n : n = Frame.node
  OBVIOUS
<1>3. /\ SearchTyped /\ StackOrdered /\ PathReaches /\ NothingMissed
      /\ LowReached /\ LowBounds /\ ClosedWhole
  BY DEF SearchInv
<1>4. /\ k \in Nat /\ k # 0 /\ work[k].node = n /\ n \in Path /\ n \in OnStack /\ n \in Visited
      /\ Len(work') = k - 1
      /\ \A i \in 1 .. (k - 1) : work'[i] = work[i]
      /\ Path' = Path \ {n}
      /\ \A g \in Path : indices[g] <= indices[n]
      /\ \A v, y : Explored(v, y)' => Explored(v, y)
      /\ \A v \in Visited : /\ lowlink'[v] <= lowlink[v]
                            /\ lowlink'[v] # lowlink[v] =>
                                 k - 1 # 0 /\ v = work[k - 1].node /\ lowlink'[v] = lowlink[n]
      /\ k - 1 # 0 => lowlink'[work[k - 1].node] <= lowlink[n]
      /\ lowlink' \in [Visited -> Nat]
  BY <1>1, <1>2, ReturnFacts
<1>5. UNCHANGED <<indices, stack, components, graph, Visited, OnStack, ClosedNodes>>
  BY DEF Return, Visited, OnStack, ClosedNodes
<1>6. /\ OnStack \subseteq Visited /\ Path \subseteq OnStack
      /\ \A v \in Visited : indices[v] \in Nat /\ lowlink[v] \in Nat
  BY <1>3, SearchFacts DEF StackOrdered
<1>7. /\ SearchTyped' /\ NothingMissed'
      /\ \A i, j \in 1 .. Len(work') : i < j => indices[work'[i].node] < indices[work'[j].node]
  <2>1. stack' \in Seq(Visited)
    BY <1>3, <1>5 DEF SearchTyped
  <2> QED BY <2>1, ReturnTyped
<1>8. StackOrdered'
  <2>1. Path' \subseteq OnStack
    BY <1>4, <1>6
  <2>2. \A i, j \in 1 .. Len(stack) : i < j => indices[stack[i]] < indices[stack[j]]
    BY <1>3 DEF StackOrdered
  <2> QED BY <1>3, <1>5, <1>7, <2>1, <2>2 DEF StackOrdered
<1>9. PICK h \in Path : indices[h] < indices[n] /\ Reaches(graph, n, h)
  <2>1. PICK w \in OnStack : indices[w] = lowlink[n] /\ Reaches(graph, n, w)
    BY <1>3, <1>4 DEF LowReached
  <2>2. indices[w] < indices[n]
    <3>1. lowlink[n] <= indices[n] /\ lowlink[n] # indices[n]
      BY <1>2, <1>3, <1>4 DEF LowReached
    <3> QED BY <1>4, <1>6, <2>1, <3>1
  <2>3. PICK h \in Path : indices[h] <= indices[w] /\ Reaches(graph, w, h)
    BY <1>3 DEF PathReaches
  <2>4. Reaches(graph, n, h)
    BY <2>1, <2>3, ReachesSteps
  <2>5. indices[h] < indices[n]
    BY <1>4, <1>6, <2>2, <2>3
  <2> QED BY <2>4, <2>5
<1>10. h \in Path' /\ indices[h] \in Nat /\ indices[n] \in Nat
  BY <1>4, <1>6, <1>9
<1>11. PathReaches'
  <2>1. ASSUME NEW x \in OnStack
        PROVE  \E g \in Path' : indices[g] <= indices[x] /\ Reaches(graph, x, g)
    <3>1. PICK g \in Path : indices[g] <= indices[x] /\ Reaches(graph, x, g)
      BY <1>3 DEF PathReaches
    <3>2. CASE g = n
      <4>1. Reaches(graph, x, h)
        BY <1>9, <3>1, <3>2, ReachesSteps
      <4>2. indices[h] <= indices[x]
        BY <1>6, <1>9, <1>10, <3>1, <3>2
      <4> QED BY <1>10, <4>1, <4>2
    <3>3. CASE g # n
      BY <1>4, <3>1, <3>3
    <3> QED BY <3>2, <3>3
  <2>2. \A g \in Path', x \in OnStack : indices[g] <= indices[x] => Reaches(graph, g, x)
    BY <1>3, <1>4 DEF PathReaches
  <2> QED BY <1>5, <2>1, <2>2 DEF PathReaches
<1>12. LowReached'
  <2> SUFFICES ASSUME NEW v \in OnStack
               PROVE  /\ lowlink'[v] <= indices[v]
                      /\ \E w \in OnStack : indices[w] = lowlink'[v] /\ Reaches(graph, v, w)
    BY <1>5 DEF LowReached
  <2>1. v \in Visited /\ lowlink[v] <= indices[v] /\ lowlink'[v] \in Nat
    BY <1>3, <1>4, <1>6 DEF LowReached
  <2>2. lowlink'[v] <= indices[v]
    BY <1>4, <1>6, <2>1
  <2>3. CASE lowlink'[v] = lowlink[v]
    BY <1>3, <2>2, <2>3 DEF LowReached
  <2>4. CASE lowlink'[v] # lowlink[v]
    <3>1. k - 1 # 0 /\ v = work[k - 1].node /\ lowlink'[v] = lowlink[n]
      BY <1>4, <2>1, <2>4
    <3>2. PICK w \in OnStack : indices[w] = lowlink[n] /\ Reaches(graph, n, w)
      BY <1>3, <1>4 DEF LowReached
    <3>3. v \in Path
      BY <1>1, <1>3, <1>4, <3>1, SearchFacts
    <3>4. Reaches(graph, v, n)
      BY <1>3, <1>4, <3>3 DEF PathReaches
    <3>5. Reaches(graph, v, w)
      BY <3>2, <3>4, ReachesSteps
    <3> QED BY <2>2, <3>1, <3>2, <3>5
  <2> QED BY <2>3, <2>4
<1>13. LowBounds'
  <2>0. UNCHANGED <<indices, OnStack>> /\ Len(work') = k - 1
    BY <1>4, <1>5
  <2> SUFFICES ASSUME NEW i \in 1 .. (k - 1), NEW x \in OnStack, NEW y \in OnStack,
                      indices[work'[i].node] <= indices[x],
                      i < k - 1 => indices[x] < indices[work'[i + 1].node],
                      Explored(x, y)'
               PROVE  lowlink'[work'[i].node] <= indices[y]
    BY <2>0 DEF LowBounds
  <2>1. PICK g : g = work[i].node
    OBVIOUS
  <2>2. /\ i \in 1 .. Len(work) /\ work'[i].node = g /\ g \in Path /\ g \in Visited
        /\ indices[g] <= indices[x] /\ Explored(x, y)
        /\ x \in Visited /\ y \in Visited
    <3>1. i \in 1 .. Len(work)
      BY <1>1, <1>4
    <3> QED BY <1>3, <1>4, <1>6, <2>1, <3>1, SearchFacts
  <2>3. lowlink'[g] <= lowlink[g] /\ lowlink'[g] \in Nat
    BY <1>4, <2>2
  <2>4. CASE i < k /\ indices[x] < indices[work[i + 1].node]
    <3>1. lowlink[g] <= indices[y]
      BY <1>1, <1>3, <2>1, <2>2, <2>4 DEF LowBounds
    <3> QED BY <1>6, <2>2, <2>3, <3>1
  <2>5. CASE ~ (i < k /\ indices[x] < indices[work[i + 1].node])
    <3>1. i = k - 1
      <4> SUFFICES ASSUME i # k - 1 PROVE FALSE
        OBVIOUS
      <4>1. i < k - 1 /\ i + 1 \in 1 .. (k - 1)
        BY <1>4
      <4> QED BY <1>4, <2>5, <4>1
    <3>2. indices[n] <= indices[x]
      <4>1. ~ (indices[x] < indices[n])
        BY <1>4, <2>5, <3>1
      <4> QED BY <1>4, <1>6, <2>2, <4>1
    <3>3. lowlink[n] <= indices[y]
      <4>1. k \in 1 .. Len(work) /\ ~ (k < Len(work))
        BY <1>1, <1>4
      <4> QED BY <1>3, <1>4, <2>2, <3>2, <4>1 DEF LowBounds
    <3>4. lowlink'[g] <= lowlink[n]
      BY <1>4, <2>1, <3>1
    <3> QED BY <1>4, <1>6, <2>2, <2>3, <3>3, <3>4
  <2> QED BY <2>2, <2>4, <2>5
<1>14. ClosedWhole'
  BY <1>3, <1>5 DEF ClosedWhole, ComponentOf
<1> QED BY <1>7, <1>8, <1>11, <1>12, <1>13, <1>14 DEF SearchInv

(* The nodes on the stack from n up, which a return of n closes when its   *)
(* low link is its own number.                                             *)
Above(n) == {x \in OnStack : indices[n] <= indices[x]}

(* They are a component: each reaches n, which reaches all of them, and no *)
(* edge leads from them to anything but themselves and what was closed.    *)
LEMMA AboveIsAComponent ==
    ASSUME SearchInv, Return, graph' = graph, NEW n, n = Frame.node, lowlink[n] = indices[n]
    PROVE  /\ \A e \in graph : e[1] \in Above(n) => e[2] \in Above(n) \cup ClosedNodes
           /\ \A x \in Above(n) : Above(n) = ComponentOf(x)
           /\ n \in Above(n)
<1>1. PICK k : k = Len(work)
  OBVIOUS
<1>2. /\ SearchTyped /\ StackOrdered /\ PathReaches /\ NothingMissed
      /\ LowReached /\ LowBounds /\ ClosedWhole
  BY DEF SearchInv
<1>3. /\ k \in Nat /\ k # 0 /\ work[k].node = n /\ n \in Path /\ n \in OnStack /\ n \in Visited
      /\ \A g \in Path : indices[g] <= indices[n]
      /\ \A y : <<n, y>> \in graph => Explored(n, y)
  BY <1>1, ReturnFacts
<1>4. /\ OnStack \subseteq Visited /\ Path \subseteq OnStack /\ Visited \subseteq Nodes
      /\ graph \subseteq Nodes \X Nodes
      /\ \A v \in Visited : indices[v] \in Nat /\ lowlink[v] \in Nat
      /\ \A i \in 1 .. k : work[i].node \in Path
  BY <1>1, <1>2, SearchFacts DEF StackOrdered, SearchTyped
<1>5. n \in Above(n)
  BY <1>3, <1>4 DEF Above
<1>6. \A x \in Above(n) : \A y : <<x, y>> \in graph => Explored(x, y)
  <2> SUFFICES ASSUME NEW x \in Above(n), NEW y, <<x, y>> \in graph,
                      NEW i \in 1 .. k, work[i].node = x
               PROVE  y \notin work[i].todo
    BY <1>1 DEF Explored
  <2>1. x \in Path /\ indices[x] <= indices[n] /\ indices[n] <= indices[x]
    BY <1>3, <1>4 DEF Above
  <2>2. indices[x] = indices[n]
    BY <1>3, <1>4, <2>1
  <2>3. i = k
    <3> SUFFICES ASSUME i # k PROVE FALSE
      OBVIOUS
    <3>1. i \in 1 .. Len(work) /\ k \in 1 .. Len(work) /\ i < k
      BY <1>1, <1>3
    <3>2. indices[x] < indices[n]
      BY <1>2, <1>3, <3>1 DEF StackOrdered
    <3> QED BY <1>3, <1>4, <2>2, <3>2
  <2>4. x = n
    BY <1>3, <2>3
  <2> QED BY <1>1, <1>3, <2>3, <2>4 DEF Explored
<1>7. ASSUME NEW x \in Above(n), NEW y, <<x, y>> \in graph PROVE y \in Above(n) \cup ClosedNodes
  <2>1. Explored(x, y) /\ x \in OnStack /\ x \in Visited /\ indices[n] <= indices[x]
    BY <1>4, <1>6, <1>7 DEF Above
  <2>2. y \in Visited
    <3>1. y \in Nodes
      BY <1>4, <1>7
    <3> QED BY <1>2, <2>1, <3>1 DEF NothingMissed
  <2>3. CASE y \in OnStack
    <3>1. lowlink[n] <= indices[y]
      <4>1. k \in 1 .. Len(work) /\ ~ (k < Len(work))
        BY <1>1, <1>3
      <4> QED BY <1>2, <1>3, <2>1, <2>3, <4>1 DEF LowBounds
    <3> QED BY <2>3, <3>1 DEF Above
  <2>4. CASE y \notin OnStack
    BY <1>2, <2>2, <2>4 DEF StackOrdered
  <2> QED BY <2>3, <2>4
<1>8. \A e \in graph : e[1] \in Above(n) => e[2] \in Above(n) \cup ClosedNodes
  <2> SUFFICES ASSUME NEW e \in graph, e[1] \in Above(n) PROVE e[2] \in Above(n) \cup ClosedNodes
    OBVIOUS
  <2>1. e = <<e[1], e[2]>>
    BY <1>4
  <2> QED BY <1>7, <2>1
<1>9. ASSUME NEW x \in Above(n) PROVE Reaches(graph, n, x) /\ Reaches(graph, x, n)
  <2>1. x \in OnStack /\ indices[n] <= indices[x]
    BY DEF Above
  <2>2. Reaches(graph, n, x)
    BY <1>2, <1>3, <2>1 DEF PathReaches
  <2>3. PICK g \in Path : Reaches(graph, x, g)
    BY <1>2, <2>1 DEF PathReaches
  <2>4. Reaches(graph, g, n)
    BY <1>2, <1>3 DEF PathReaches
  <2>5. Reaches(graph, x, n)
    BY <2>3, <2>4, ReachesSteps
  <2> QED BY <2>2, <2>5
<1>10. ASSUME NEW x \in Above(n), NEW y \in Above(n) PROVE y \in ComponentOf(x)
  <2>1. Reaches(graph, x, y) /\ Reaches(graph, y, x)
    BY <1>9, ReachesSteps
  <2>2. y \in Nodes
    BY <1>4 DEF Above
  <2> QED BY <2>1, <2>2 DEF ComponentOf
<1>11. ASSUME NEW x \in Above(n), NEW y \in ComponentOf(x) PROVE y \in Above(n)
  <2>1. Reaches(graph, x, y) /\ Reaches(graph, y, x)
    BY DEF ComponentOf
  <2>2. /\ ClosedNodes \in SUBSET Nodes /\ Above(n) \cup ClosedNodes \in SUBSET Nodes
        /\ \A e \in graph : e[1] \in ClosedNodes => e[2] \in ClosedNodes
    BY <1>2, <1>4 DEF ClosedWhole, Above
  <2>3. y \in Above(n) \cup ClosedNodes
    <3>1. \A e \in graph : e[1] \in Above(n) \cup ClosedNodes => e[2] \in Above(n) \cup ClosedNodes
      BY <1>8, <2>2
    <3> QED BY <2>1, <2>2, <3>1 DEF Reaches
  <2>4. y \notin ClosedNodes
    <3> SUFFICES ASSUME y \in ClosedNodes PROVE FALSE
      OBVIOUS
    <3>1. x \in ClosedNodes
      BY <2>1, <2>2 DEF Reaches
    <3> QED BY <1>2, <3>1 DEF StackOrdered, Above
  <2> QED BY <2>3, <2>4
<1> QED BY <1>5, <1>8, <1>10, <1>11

(* A sequence cut before one of its places. *)
LEMMA CutBefore ==
    ASSUME NEW S, NEW s \in Seq(S), NEW a \in 1 .. Len(s)
    PROVE  /\ SubSeq(s, 1, a - 1) \in Seq(S) /\ Len(SubSeq(s, 1, a - 1)) = a - 1
           /\ \A i \in 1 .. (a - 1) : SubSeq(s, 1, a - 1)[i] = s[i]
           /\ SubSeq(s, a, Len(s)) \in Seq(S) /\ Len(SubSeq(s, a, Len(s))) = Len(s) - a + 1
           /\ \A i \in 1 .. (Len(s) - a + 1) : SubSeq(s, a, Len(s))[i] = s[a + i - 1]
<1>1. /\ Len(s) \in Nat /\ a \in Int /\ 1 \in Int /\ a - 1 \in Int /\ Len(s) \in Int
      /\ 1 <= a /\ a <= Len(s)
  BY LenProperties
<1>2. \A i \in 1 .. (a - 1) : s[i] \in S
  <2> SUFFICES ASSUME NEW i \in 1 .. (a - 1) PROVE s[i] \in S
    OBVIOUS
  <2>1. i \in 1 .. Len(s)
    BY <1>1
  <2> QED BY <2>1, ElementOfSeq
<1>3. \A i \in a .. Len(s) : s[i] \in S
  <2> SUFFICES ASSUME NEW i \in a .. Len(s) PROVE s[i] \in S
    OBVIOUS
  <2>1. i \in 1 .. Len(s)
    BY <1>1
  <2> QED BY <2>1, ElementOfSeq
<1>4. PICK m \in Int : m = a - 1
  BY <1>1
<1>5. /\ SubSeq(s, 1, m) \in Seq(S) /\ Len(SubSeq(s, 1, m)) = IF 1 <= m THEN m - 1 + 1 ELSE 0
      /\ \A i \in 1 .. m - 1 + 1 : SubSeq(s, 1, m)[i] = s[1 + i - 1]
  BY <1>1, <1>2, <1>4, SubSeqProperties
<1>6. PICK n \in Int : n = Len(s)
  BY <1>1
<1>7. /\ SubSeq(s, a, n) \in Seq(S) /\ Len(SubSeq(s, a, n)) = IF a <= n THEN n - a + 1 ELSE 0
      /\ \A i \in 1 .. n - a + 1 : SubSeq(s, a, n)[i] = s[a + i - 1]
  BY <1>1, <1>3, <1>6, SubSeqProperties
<1>8. /\ SubSeq(s, 1, a - 1) \in Seq(S) /\ Len(SubSeq(s, 1, a - 1)) = a - 1
      /\ \A i \in 1 .. (a - 1) : SubSeq(s, 1, a - 1)[i] = s[i]
  BY <1>1, <1>4, <1>5
<1> QED BY <1>1, <1>6, <1>7, <1>8

(* The stack is cut below n. *)
PlaceOf(n) == CHOOSE i \in DOMAIN stack : stack[i] = n

LEMMA CutBelow ==
    ASSUME SearchTyped, StackOrdered, NEW n \in OnStack, NEW at, at = PlaceOf(n)
    PROVE  /\ Range(SubSeq(stack, at, Len(stack))) = Above(n)
           /\ SubSeq(stack, 1, at - 1) \in Seq(Visited)
           /\ Len(SubSeq(stack, 1, at - 1)) = at - 1 /\ at \in 1 .. Len(stack)
           /\ \A i \in 1 .. (at - 1) : SubSeq(stack, 1, at - 1)[i] = stack[i]
           /\ Range(SubSeq(stack, 1, at - 1)) = OnStack \ Above(n)
<1>1. /\ Len(stack) \in Nat /\ DOMAIN stack = 1 .. Len(stack) /\ stack \in Seq(Visited)
      /\ OnStack = {stack[i] : i \in 1 .. Len(stack)} /\ OnStack \subseteq Visited
      /\ \A v \in Visited : indices[v] \in Nat
      /\ \A i \in 1 .. Len(stack) : stack[i] \in Visited
  BY SearchFacts, LenProperties, ElementOfSeq DEF SearchTyped
<1>2. at \in 1 .. Len(stack) /\ stack[at] = n
  <2>1. \E i \in DOMAIN stack : stack[i] = n
    BY <1>1
  <2> QED BY <1>1, <2>1 DEF PlaceOf
<1>3. \A i \in 1 .. Len(stack) : stack[i] \in Above(n) <=> at <= i
  <2> SUFFICES ASSUME NEW i \in 1 .. Len(stack)
               PROVE  indices[n] <= indices[stack[i]] <=> at <= i
    BY <1>1 DEF Above
  <2>1. indices[n] \in Nat /\ indices[stack[i]] \in Nat
    BY <1>1
  <2>2. CASE i < at
    BY <1>2, <2>1, <2>2 DEF StackOrdered
  <2>3. CASE i = at
    BY <1>2, <2>1, <2>3
  <2>4. CASE at < i
    BY <1>2, <2>1, <2>4 DEF StackOrdered
  <2> QED BY <1>2, <2>2, <2>3, <2>4
<1>4. PICK top : top = SubSeq(stack, at, Len(stack))
  OBVIOUS
<1>5. /\ top \in Seq(Visited) /\ Len(top) = Len(stack) - at + 1
      /\ \A i \in 1 .. Len(stack) - at + 1 : top[i] = stack[at + i - 1]
  <2>1. /\ SubSeq(stack, at, Len(stack)) \in Seq(Visited)
        /\ Len(SubSeq(stack, at, Len(stack))) = Len(stack) - at + 1
        /\ \A i \in 1 .. (Len(stack) - at + 1) :
             SubSeq(stack, at, Len(stack))[i] = stack[at + i - 1]
    BY <1>1, <1>2, CutBefore
  <2> QED BY <1>4, <2>1
<1>6. Range(top) = Above(n)
  <2>1. DOMAIN top = 1 .. Len(top)
    BY <1>5, LenProperties
  <2>2. Range(top) = {top[i] : i \in 1 .. (Len(stack) - at + 1)}
    BY <1>5, <2>1 DEF Range
  <2>3. ASSUME NEW i \in 1 .. (Len(stack) - at + 1) PROVE top[i] \in Above(n)
    <3>1. at + i - 1 \in 1 .. Len(stack) /\ at <= at + i - 1
      BY <1>1, <1>2
    <3> QED BY <1>3, <1>5, <3>1
  <2>4. ASSUME NEW x \in Above(n) PROVE x \in Range(top)
    <3>1. PICK j \in 1 .. Len(stack) : x = stack[j]
      BY <1>1 DEF Above
    <3>2. at <= j
      BY <1>3, <3>1
    <3>3. PICK i \in 1 .. (Len(stack) - at + 1) : at + i - 1 = j
      <4>1. j - at + 1 \in 1 .. (Len(stack) - at + 1) /\ at + (j - at + 1) - 1 = j
        BY <1>1, <1>2, <3>2
      <4> QED BY <4>1
    <3>4. top[i] = x
      BY <1>5, <3>1, <3>3
    <3> QED BY <2>2, <3>4
  <2> QED BY <2>2, <2>3, <2>4
<1>7. PICK rest : rest = SubSeq(stack, 1, at - 1)
  OBVIOUS
<1>8. /\ rest \in Seq(Visited) /\ Len(rest) = at - 1
      /\ \A i \in 1 .. (at - 1) : rest[i] = stack[i]
  <2>1. /\ SubSeq(stack, 1, at - 1) \in Seq(Visited)
        /\ Len(SubSeq(stack, 1, at - 1)) = at - 1
        /\ \A i \in 1 .. (at - 1) : SubSeq(stack, 1, at - 1)[i] = stack[i]
    BY <1>1, <1>2, CutBefore
  <2> QED BY <1>7, <2>1
<1>9. Range(rest) = OnStack \ Above(n)
  <2>1. DOMAIN rest = 1 .. (at - 1)
    BY <1>8, LenProperties
  <2>2. Range(rest) = {stack[i] : i \in 1 .. (at - 1)}
    BY <1>8, <2>1 DEF Range
  <2>3. \A i : i \in 1 .. (at - 1) <=> i \in 1 .. Len(stack) /\ ~ (at <= i)
    BY <1>1, <1>2
  <2> QED BY <1>1, <1>3, <2>2, <2>3
<1> QED BY <1>2, <1>4, <1>6, <1>7, <1>8, <1>9

(* A node that reaches no further down closes its component: the stack is  *)
(* cut, and what was known of the nodes below stays true.                  *)
LEMMA ReturnCloses ==
    ASSUME SearchInv, Return, graph' = graph, lowlink[Frame.node] = indices[Frame.node]
    PROVE  SearchInv'
<1>1. PICK k : k = Len(work)
  OBVIOUS
<1>2. PICK n : n = Frame.node
  OBVIOUS
<1>3. PICK at : at = PlaceOf(n)
  OBVIOUS
<1>4. /\ SearchTyped /\ StackOrdered /\ PathReaches /\ NothingMissed
      /\ LowReached /\ LowBounds /\ ClosedWhole
  BY DEF SearchInv
<1>5. /\ k \in Nat /\ k # 0 /\ work[k].node = n /\ n \in Path /\ n \in OnStack /\ n \in Visited
      /\ Len(work') = k - 1
      /\ \A i \in 1 .. (k - 1) : work'[i] = work[i]
      /\ Path' = Path \ {n}
      /\ \A g \in Path : indices[g] <= indices[n]
      /\ \A v, y : Explored(v, y)' => Explored(v, y)
      /\ \A v \in Visited : /\ lowlink'[v] <= lowlink[v]
                            /\ lowlink'[v] # lowlink[v] =>
                                 k - 1 # 0 /\ v = work[k - 1].node /\ lowlink'[v] = lowlink[n]
      /\ lowlink' \in [Visited -> Nat]
  BY <1>1, <1>2, ReturnFacts
<1>6. /\ components' = components \cup {Range(SubSeq(stack, at, Len(stack)))}
      /\ stack' = SubSeq(stack, 1, at - 1) /\ UNCHANGED <<indices, graph, Visited>>
  BY <1>2, <1>3 DEF Return, Visited, PlaceOf
<1>7. /\ components' = components \cup {Above(n)} /\ OnStack' = OnStack \ Above(n)
      /\ stack' \in Seq(Visited) /\ Len(stack') = at - 1 /\ at \in 1 .. Len(stack)
      /\ \A i \in 1 .. (at - 1) : stack'[i] = stack[i]
  <2>1. /\ Range(SubSeq(stack, at, Len(stack))) = Above(n)
        /\ SubSeq(stack, 1, at - 1) \in Seq(Visited)
        /\ Len(SubSeq(stack, 1, at - 1)) = at - 1 /\ at \in 1 .. Len(stack)
        /\ \A i \in 1 .. (at - 1) : SubSeq(stack, 1, at - 1)[i] = stack[i]
        /\ Range(SubSeq(stack, 1, at - 1)) = OnStack \ Above(n)
    BY <1>3, <1>4, <1>5, CutBelow
  <2> QED BY <1>6, <2>1 DEF OnStack
<1>8. /\ OnStack \subseteq Visited /\ Path \subseteq OnStack /\ Len(stack) \in Nat
      /\ Visited \subseteq Nodes
      /\ \A v \in Visited : indices[v] \in Nat /\ lowlink[v] \in Nat
  BY <1>4, SearchFacts DEF StackOrdered, SearchTyped
<1>9. /\ \A e \in graph : e[1] \in Above(n) => e[2] \in Above(n) \cup ClosedNodes
      /\ \A x \in Above(n) : Above(n) = ComponentOf(x)
      /\ n \in Above(n)
  BY <1>2, AboveIsAComponent
<1>10. ClosedNodes' = ClosedNodes \cup Above(n)
  BY <1>7 DEF ClosedNodes
<1>11. \A x \in OnStack : x \in OnStack' <=> indices[x] < indices[n]
  <2> SUFFICES ASSUME NEW x \in OnStack
               PROVE  ~ (indices[n] <= indices[x]) <=> indices[x] < indices[n]
    BY <1>7 DEF Above
  <2>1. indices[x] \in Nat /\ indices[n] \in Nat
    BY <1>5, <1>8
  <2> QED BY <2>1
<1>12. \A g \in Path : g # n => g \in OnStack' /\ g \in Path'
  <2> SUFFICES ASSUME NEW g \in Path, g # n PROVE indices[g] < indices[n]
    BY <1>5, <1>8, <1>11
  <2>1. PICK i \in 1 .. k : work[i].node = g
    BY <1>1 DEF Path
  <2>2. i < k /\ i \in 1 .. Len(work) /\ k \in 1 .. Len(work)
    BY <1>1, <1>5, <2>1
  <2> QED BY <1>4, <1>5, <2>1, <2>2 DEF StackOrdered
<1>13. /\ SearchTyped' /\ NothingMissed'
       /\ \A i, j \in 1 .. Len(work') : i < j => indices[work'[i].node] < indices[work'[j].node]
  BY <1>7, ReturnTyped
<1>14. StackOrdered'
  <2>1. Path' \subseteq OnStack'
    BY <1>5, <1>12
  <2>2. \A i, j \in 1 .. Len(stack') : i < j => indices[stack'[i]] < indices[stack'[j]]
    <3>1. \A i \in 1 .. Len(stack') : i \in 1 .. Len(stack)
      BY <1>7, <1>8
    <3>2. \A i \in 1 .. Len(stack') : stack'[i] = stack[i]
      BY <1>7
    <3> QED BY <1>4, <3>1, <3>2 DEF StackOrdered
  <2>3. Visited = OnStack' \cup ClosedNodes' /\ OnStack' \cap ClosedNodes' = {}
    BY <1>4, <1>7, <1>10 DEF StackOrdered, Above
  <2> QED BY <1>6, <1>13, <2>1, <2>2, <2>3 DEF StackOrdered
<1>15. PathReaches'
  <2>1. ASSUME NEW x \in OnStack'
        PROVE  \E g \in Path' : indices[g] <= indices[x] /\ Reaches(graph, x, g)
    <3>1. x \in OnStack /\ indices[x] < indices[n]
      BY <1>7, <1>11
    <3>2. PICK g \in Path : indices[g] <= indices[x] /\ Reaches(graph, x, g)
      BY <1>4, <3>1 DEF PathReaches
    <3>3. g # n
      <4>1. indices[x] \in Nat /\ indices[n] \in Nat
        BY <1>5, <1>8, <3>1
      <4> QED BY <3>1, <3>2, <4>1
    <3> QED BY <1>12, <3>2, <3>3
  <2>2. \A g \in Path', x \in OnStack' : indices[g] <= indices[x] => Reaches(graph, g, x)
    BY <1>4, <1>5, <1>7 DEF PathReaches
  <2> QED BY <1>6, <2>1, <2>2 DEF PathReaches
<1>16. \A v \in OnStack' : lowlink'[v] = lowlink[v]
  <2> SUFFICES ASSUME NEW v \in OnStack', lowlink'[v] # lowlink[v] PROVE FALSE
    OBVIOUS
  <2>1. v \in OnStack /\ v \in Visited /\ indices[v] < indices[n]
    BY <1>7, <1>8, <1>11
  <2>2. lowlink'[v] <= lowlink[v] /\ lowlink'[v] = indices[n] /\ lowlink[v] <= indices[v]
    BY <1>2, <1>4, <1>5, <2>1 DEF LowReached
  <2>3. indices[v] \in Nat /\ indices[n] \in Nat /\ lowlink[v] \in Nat
    BY <1>5, <1>8, <2>1
  <2> QED BY <2>1, <2>2, <2>3
<1>17. LowReached'
  <2> SUFFICES ASSUME NEW v \in OnStack'
               PROVE  /\ lowlink[v] <= indices[v]
                      /\ \E w \in OnStack' : indices[w] = lowlink[v] /\ Reaches(graph, v, w)
    BY <1>6, <1>16 DEF LowReached
  <2>1. v \in OnStack /\ indices[v] < indices[n] /\ lowlink[v] <= indices[v]
    BY <1>4, <1>7, <1>11 DEF LowReached
  <2>2. PICK w \in OnStack : indices[w] = lowlink[v] /\ Reaches(graph, v, w)
    BY <1>4, <2>1 DEF LowReached
  <2>3. w \in OnStack'
    <3>1. indices[v] \in Nat /\ indices[n] \in Nat /\ lowlink[v] \in Nat
      BY <1>5, <1>8, <2>1
    <3> QED BY <1>11, <2>1, <2>2, <3>1
  <2> QED BY <2>1, <2>2, <2>3
<1>18. LowBounds'
  <2> SUFFICES ASSUME NEW i \in 1 .. (k - 1), NEW x \in OnStack', NEW y \in OnStack',
                      indices[work'[i].node] <= indices[x],
                      i < k - 1 => indices[x] < indices[work'[i + 1].node],
                      Explored(x, y)'
               PROVE  lowlink'[work'[i].node] <= indices[y]
    <3>1. indices' = indices /\ Len(work') = k - 1
      BY <1>5, <1>6
    <3> QED BY <3>1 DEF LowBounds
  <2>1. PICK g : g = work[i].node
    OBVIOUS
  <2>2. i \in 1 .. Len(work) /\ i < k /\ work'[i].node = g /\ g \in Path
    <3>1. i \in 1 .. Len(work)
      BY <1>1, <1>5
    <3> QED BY <1>1, <1>4, <1>5, <2>1, <3>1, SearchFacts
  <2>3. g \in OnStack'
    <3>1. indices[work[i].node] < indices[work[k].node]
      <4>1. k \in 1 .. Len(work)
        BY <1>1, <1>5
      <4> QED BY <1>4, <2>2, <4>1 DEF StackOrdered
    <3> QED BY <1>5, <1>8, <1>11, <2>1, <2>2, <3>1
  <2>4. x \in OnStack /\ y \in OnStack /\ indices[x] < indices[n] /\ Explored(x, y)
    BY <1>5, <1>7, <1>11
  <2>5. indices[x] < indices[work[i + 1].node]
    <3>1. CASE i = k - 1
      <4>1. i + 1 = k
        BY <1>5, <3>1
      <4> QED BY <1>5, <2>4, <4>1
    <3>2. CASE i # k - 1
      <4>1. i + 1 \in 1 .. (k - 1) /\ i < k - 1
        BY <1>5, <3>2
      <4> QED BY <1>5, <4>1
    <3> QED BY <3>1, <3>2
  <2>6. lowlink[g] <= indices[y]
    BY <1>1, <1>4, <2>1, <2>2, <2>4, <2>5 DEF LowBounds
  <2> QED BY <1>16, <2>2, <2>3, <2>6
<1>19. ClosedWhole'
  <2>1. \A x : ComponentOf(x)' = ComponentOf(x)
    BY <1>6 DEF ComponentOf
  <2>2. \A C \in components' : C # {} /\ \A x \in C : C = ComponentOf(x)
    BY <1>4, <1>7, <1>9 DEF ClosedWhole
  <2>3. ClosedNodes' \subseteq Nodes
    BY <1>4, <1>8, <1>10 DEF ClosedWhole, Above
  <2>4. \A e \in graph : e[1] \in ClosedNodes' => e[2] \in ClosedNodes'
    BY <1>4, <1>9, <1>10 DEF ClosedWhole
  <2> QED BY <1>6, <2>1, <2>2, <2>3, <2>4 DEF ClosedWhole
<1> QED BY <1>13, <1>14, <1>15, <1>17, <1>18, <1>19 DEF SearchInv

(* Before the first root nothing is known of the graph but its edges.      *)
LEMMA SearchStarts ==
    ASSUME graph' \subseteq Nodes \X Nodes, NoSearch'
    PROVE  SearchInv'
<1>1. /\ indices' = <<>> /\ lowlink' = <<>> /\ stack' = <<>> /\ work' = <<>> /\ components' = {}
      /\ Len(work') = 0 /\ Len(stack') = 0
  BY DEF NoSearch
<1>2. Visited' = {} /\ OnStack' = {} /\ ClosedNodes' = {} /\ Path' = {}
  BY <1>1 DEF Visited, OnStack, ClosedNodes, Path, Range
<1>3. indices' \in [Visited' -> Nat] /\ lowlink' \in [Visited' -> Nat]
  BY <1>1, <1>2
<1>4. SearchTyped'
  BY <1>1, <1>2, <1>3 DEF SearchTyped
<1>5. StackOrdered' /\ PathReaches' /\ NothingMissed' /\ LowReached' /\ LowBounds' /\ ClosedWhole'
  BY <1>1, <1>2
  DEF StackOrdered, PathReaches, NothingMissed, LowReached, LowBounds, ClosedWhole
<1> QED BY <1>4, <1>5 DEF SearchInv

(* The search keeps its invariant, and has closed exactly the components   *)
(* when it is done.                                                        *)
LEMMA SearchKeeps == SearchInv /\ SearchStep /\ graph' = graph => SearchInv'
<1> SUFFICES ASSUME SearchInv, SearchStep, graph' = graph PROVE SearchInv'
  OBVIOUS
<1>1. CASE StartRoot
  BY <1>1, StartRootStep
<1>2. CASE Descend
  BY <1>2, DescendStep
<1>3. CASE Look
  BY <1>3, LookStep
<1>4. CASE Return
  BY <1>4, ReturnOpen, ReturnCloses
<1> QED BY <1>1, <1>2, <1>3, <1>4 DEF SearchStep

LEMMA SearchIsExact == SearchInv => ComponentsExact
<1> SUFFICES ASSUME SearchInv, SearchDone
             PROVE  components = {ComponentOf(n) : n \in Nodes}
  BY DEF ComponentsExact
<1>1. Path = {}
  BY DEF SearchDone, Path
<1>2. OnStack = {}
  BY <1>1 DEF SearchInv, PathReaches
<1>3. Nodes = ClosedNodes
  BY <1>2 DEF SearchInv, StackOrdered, SearchDone
<1>4. \A C \in components : C # {} /\ \A n \in C : C = ComponentOf(n)
  BY DEF SearchInv, ClosedWhole
<1> QED BY <1>3, <1>4 DEF ClosedNodes

(* From its start on, the search keeps its invariant. *)
SearchSound == IF phase = "new" THEN NoSearch /\ graph = {} ELSE SearchInv

(* The iterative search with its explicit call stack finds exactly the     *)
(* strongly connected components of the declared graph, however large:     *)
(* the dependency cycles of _detect_cycles are those of the graph.         *)
THEOREM CyclesAreFound == Spec => []ComponentsExact
<1>1. Init => SearchSound
  BY DEF Init, SearchSound
<1>2. SearchSound /\ [Next]_vars => SearchSound'
  <2> SUFFICES ASSUME SearchSound, [Next]_vars PROVE SearchSound'
    OBVIOUS
  <2>1. CASE Validate
    <3>1. NoSearch' /\ phase' # "new"
      BY <2>1 DEF Validate, SearchSound, NoSearch
    <3>2. graph' \subseteq Nodes \X Nodes
      BY <2>1 DEF Validate, SearchSound, DeclaredEdges, Entries
    <3> QED BY <3>1, <3>2, SearchStarts DEF SearchSound
  <2>2. CASE SearchCycles
    <3>1. SearchInv /\ SearchStep /\ graph' = graph /\ phase' # "new"
      BY <2>2 DEF SearchCycles, SearchSound, resolverVars
    <3> QED BY <3>1, SearchKeeps DEF SearchSound
  <2>3. CASE UNCHANGED tarjanVars /\ (phase' = "new" <=> phase = "new")
    <3>1. SearchInv' <=> SearchInv
      BY <2>3 DEF tarjanVars, SearchInv, SearchTyped, StackOrdered, PathReaches, NothingMissed,
                  LowReached, LowBounds, ClosedWhole, Visited, OnStack, ClosedNodes, Path, Explored,
                  Successors, ComponentOf
    <3>2. NoSearch' <=> NoSearch
      BY <2>3 DEF tarjanVars, NoSearch
    <3> QED BY <2>3, <3>1, <3>2 DEF SearchSound, tarjanVars
  <2>4. CASE CyclesFound \/ Pass \/ Place \/ Finish \/ UNCHANGED vars
    <3>1. UNCHANGED tarjanVars /\ (phase' = "new" <=> phase = "new")
      BY <2>4 DEF CyclesFound, Pass, Place, Finish, vars, resolverVars
    <3> QED BY <2>3, <3>1
  <2> QED BY <2>1, <2>2, <2>4 DEF Next
<1>3. SearchSound => ComponentsExact
  <2>1. CASE phase = "new"
    <3> SUFFICES ASSUME NoSearch, SearchDone PROVE components = {ComponentOf(n) : n \in Nodes}
      BY <2>1 DEF SearchSound, ComponentsExact
    <3>1. Nodes = {} /\ components = {}
      BY DEF NoSearch, SearchDone, Visited
    <3> QED BY <3>1
  <2> QED BY <2>1, SearchIsExact DEF SearchSound
<1> QED BY <1>1, <1>2, <1>3, PTL DEF Spec
================================================================================
