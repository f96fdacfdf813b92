------------------------------ MODULE Resolver ------------------------------
(***************************************************************************)
(* The dependency resolver (plugins/resolver.py): given the desired        *)
(* entries, the composition scopes they live in and the provider           *)
(* preferences, which entries may activate, in what order, and why the     *)
(* others are pending.  The code is one pure function; here it runs in     *)
(* phases (validation, cycle search, fixpoint passes, topological order)   *)
(* on an input chosen in Init.                                             *)
(***************************************************************************)
EXTENDS Tarjan, Contracts, SequencesExt, Listings

CONSTANTS Scopes, Root, Caps,
          ParentOf,     \* the hierarchy: scope -> its parent, NoParent for the root
          Inputs        \* the compositions to resolve, see InputOK

NoParent == "no parent"

\* The scope paths are a tree: a path but the root's has a parent, the path
\* without its last name, so whoever goes from parent to parent arrives.
ASSUME Hierarchy ==
  /\ Root \in Scopes /\ NoParent \notin Scopes
  /\ ParentOf \in [Scopes -> Scopes \cup {NoParent}]
  /\ \A s \in Scopes : ParentOf[s] = NoParent <=> s = Root
  /\ \A S \in SUBSET Scopes : S # {} => \E s \in S : ParentOf[s] \notin S

ASSUME ScopesAreNoEntries == Scopes \cap Nodes = {}

VARIABLES input,        \* the composition being resolved
          phase,        \* "new", "cycles", "resolving", "ordering", "planned", "rejected"
          eligible,     \* entries still eligible: the fixpoint shrinks it
          order         \* the activation order, a sequence of entries

resolverVars == <<input, phase, eligible, order>>
vars == <<tarjanVars, resolverVars>>

\* What a composition is: the entries (Nodes) with the scope they live in, what
\* they declare and, when active, what they registered; the declared scopes
\* with their parents, views and own requirements; the preferences, a function
\* from preference keys to entries.
InputOK(in) ==
  /\ in.declared \subseteq Scopes
  /\ in.view \in [Scopes -> SUBSET Caps]
  /\ in.scope \in [Nodes -> Scopes]
  /\ in.active \subseteq Nodes
  /\ in.offers \in [Nodes -> SUBSET (Caps \X Nat)]
  /\ in.registered \in [Nodes -> SUBSET (Caps \X Nat)]
  /\ \A e \in Nodes : IsFiniteSet(in.offers[e]) /\ IsFiniteSet(in.registered[e])
  /\ DOMAIN in.needs = Nodes /\ DOMAIN in.requires = Scopes
  /\ \A e \in Nodes : \A r \in in.needs[e] : WellFormed(r) /\ r.cap \in Caps

ASSUME InputsAreCompositions == \A in \in Inputs : InputOK(in)

-----------------------------------------------------------------------------
(* Scopes: _ScopeIndex *)

Entries == Nodes

\* The hierarchy is accepted: it has a root, every parent and every entry's
\* scope is declared.
Declared(in) ==
  /\ Root \in in.declared
  /\ \A s \in in.declared : ParentOf[s] \in in.declared \cup {NoParent}
  /\ \A e \in Entries : in.scope[e] \in in.declared

\* A scope and its ancestors: the scopes in every set that holds it and the
\* parents of its members.
Lineages ==
  [s \in Scopes |->
     {t \in Scopes : \A S \in SUBSET Scopes :
        (s \in S /\ \A u \in S : ParentOf[u] \in S \cup {NoParent}) => t \in S}]
Lineage(s) == Lineages[s]

\* The capabilities a scope may observe: its lineage's views, intersected.
Allowed(s) == {c \in Caps : \A a \in Lineage(s) : c \in input.view[a]}

-----------------------------------------------------------------------------
(* Providers *)

Option(e, contract) ==
  [entry |-> e, cap |-> contract[1], version |-> contract[2], scope |-> input.scope[e]]

DeclaredOptions(e) == {Option(e, c) : c \in input.offers[e]}

\* An active entry contributes what it registered, any other what it declares.
OptionsOf(e) ==
  IF e \in input.active THEN {Option(e, c) : c \in input.registered[e]}
                        ELSE DeclaredOptions(e)
Options == UNION {OptionsOf(e) : e \in Entries}

\* Mutant of VisibleIn: a scope also sees what its descendants provide.
VisibleInEitherWay(s, cap) ==
  {o \in Options : /\ o.cap = cap
                   /\ o.scope \in Lineage(s) \/ s \in Lineage(o.scope)
                   /\ cap \in Allowed(s)}

\* The providers of cap that scope s may use: the rule of _build_views.
VisibleIn(s, cap) ==
  {o \in Options : o.cap = cap /\ o.scope \in Lineage(s) /\ cap \in Allowed(s)}

Requirements(e) == input.needs[e]
HardRequirements(e) == {r \in Requirements(e) : ~r.optional}

\* The most specific preference for a consumer's capability: its own, its
\* scope's, the global one; None when there is none.
None == 0
ASSUME NoneIsNoEntry == None \notin Nodes

Preference(consumer, scope, cap) ==
  LET keys == << <<"consumer", consumer, cap>>, <<"scope", scope, cap>>, <<"any", cap>> >>
      set == {i \in 1..3 : keys[i] \in DOMAIN input.prefer}
  IN IF set = {} THEN None ELSE input.prefer[keys[Min(set)]]

\* One requirement of a consumer in scope s, resolved against the providers in
\* pool; exclude is the consumer's own entry, None for a scope's requirement.
Others(r, s, exclude) == {o \in VisibleIn(s, r.cap) : o.entry # exclude}
Matching(r, s, exclude, pool) ==
  {o \in Others(r, s, exclude) : o.entry \in pool /\ Accepts(r, o.cap, o.version)}
Preferred(r, consumer, s, exclude, pool) ==
  {o \in Matching(r, s, exclude, pool) : o.entry = Preference(consumer, s, r.cap)}

\* Why nothing in the pool matches, the others being what the consumer can see.
Unresolved(r, others, exclude) ==
  CASE \E o \in others : Accepts(r, o.cap, o.version) -> "provider_pending"
    [] others # {} /\ \A o \in others : ~Accepts(r, o.cap, o.version) -> "version_mismatch"
    [] others = {} /\ \E o \in Options : o.cap = r.cap /\ o.entry # exclude -> "not_visible"
    [] OTHER -> IF exclude # None /\ \E c \in input.offers[exclude] : c[1] = r.cap
                THEN "self_reference" ELSE "no_provider"

\* The status cascade of _resolve_one.
Cascade(r, exclude, pool, matching, preferred, others) ==
  LET first(options) == CHOOSE o \in options : \A q \in options : o.version <= q.version
      selected(o) == [status |-> "resolved", provider |-> o.entry, version |-> o.version]
      unresolved(status) == [status |-> status, provider |-> None, version |-> None]
  IN CASE Cardinality(matching) = 1 -> selected(first(matching))
       [] Cardinality(matching) > 1 /\ preferred # {} -> selected(first(preferred))
       [] Cardinality(matching) > 1 /\ preferred = {} -> unresolved("ambiguous")
       [] matching = {} /\ \E o \in others : o.entry \in pool -> unresolved("version_mismatch")
       [] OTHER -> unresolved(Unresolved(r, others, exclude))

Resolution(r, consumer, s, exclude, pool) ==
  Cascade(r, exclude, pool, Matching(r, s, exclude, pool),
          Preferred(r, consumer, s, exclude, pool), Others(r, s, exclude))

EntryResolution(e, r, pool) == Resolution(r, e, input.scope[e], e, pool)
Satisfied(e, r, pool) == EntryResolution(e, r, pool).status = "resolved"

\* An entry loses its place when a hard requirement is not resolved.
Fails(e, pool) == \E r \in HardRequirements(e) : ~Satisfied(e, r, pool)

-----------------------------------------------------------------------------
(* The declared graph and its cycles: _detect_cycles *)

\* Edges run from a provider to the consumer whose hard requirement it could
\* meet; only what the consumer can see makes an edge.
CouldProvide(p, c) ==
  \E o \in DeclaredOptions(p), r \in HardRequirements(c) :
    /\ o.scope \in Lineage(input.scope[c])
    /\ o.cap \in Allowed(input.scope[c])
    /\ Accepts(r, o.cap, o.version)
DeclaredEdges ==
  {e \in Entries \X Entries : e[1] # e[2] /\ CouldProvide(e[1], e[2])}

Cycles == {k \in components : Cardinality(k) > 1}
CycleMembers == UNION Cycles

-----------------------------------------------------------------------------
(* The plan *)

\* Edges of the plan, from each selected provider, optional ones included.
Selected(p, c, pool) == \E r \in Requirements(c) : EntryResolution(c, r, pool).provider = p
Edges(pool) == {e \in pool \X pool : e[1] # e[2] /\ Selected(e[1], e[2], pool)}

Planned == eligible \ CycleMembers      \* the nodes the order runs over
Placed == Range(order)
Ready ==
  LET left == Planned \ Placed
      edges == Edges(eligible)
  IN {e \in left : \A p \in left : <<p, e>> \notin edges}

PendingEntries == Entries \ Planned
Reasons(e) ==
  IF e \in CycleMembers THEN {"dependency cycle"}
  ELSE {EntryResolution(e, r, eligible).status :
          r \in {q \in HardRequirements(e) : ~Satisfied(e, q, eligible)}}

\* The recorded verdict on one provider for one requirement: _assessments.
Rejection(o, r, s, exclude, pool, resolution) ==
  CASE o.entry = exclude -> "self_reference"
    [] o \notin VisibleIn(s, r.cap) /\ o.entry # exclude ->
         IF o.scope \in Lineage(s) THEN "capability_not_exposed" ELSE "not_visible"
    [] o \in VisibleIn(s, r.cap) /\ o.entry # exclude /\ o.entry \notin pool -> "provider_pending"
    [] OTHER -> IF ~Accepts(r, o.cap, o.version) THEN "mismatch"
                ELSE IF o.entry = resolution.provider /\ o.version = resolution.version
                     THEN "selected"
                ELSE IF resolution.status = "ambiguous" THEN "ambiguous"
                ELSE "not_selected"

-----------------------------------------------------------------------------
(* The steps of resolve *)

Init ==
  /\ input \in Inputs
  /\ graph = {} /\ NoSearch
  /\ phase = "new"
  /\ eligible = Entries
  /\ order = <<>>

Validate ==
  /\ phase = "new"
  /\ IF Declared(input)
     THEN phase' = "cycles" /\ graph' = DeclaredEdges
     ELSE phase' = "rejected" /\ UNCHANGED graph
  /\ UNCHANGED <<indices, lowlink, stack, work, components, input, eligible, order>>

SearchCycles ==
  /\ phase = "cycles"
  /\ SearchStep
  /\ UNCHANGED <<graph, resolverVars>>

CyclesFound ==
  /\ phase = "cycles"
  /\ SearchDone
  /\ phase' = "resolving"
  /\ UNCHANGED <<tarjanVars, input, eligible, order>>

\* Mutant of Pass: one pass, no fixpoint.
PassOnce ==
  /\ phase = "resolving"
  /\ LET failed == {e \in eligible : Fails(e, eligible)}
     IN eligible' = eligible \ failed /\ phase' = "ordering"
  /\ UNCHANGED <<tarjanVars, input, order>>

\* One pass of the fixpoint: every entry is resolved against the views built
\* at the start of the pass, and the passes end when none is dropped.
Pass ==
  /\ phase = "resolving"
  /\ LET failed == {e \in eligible : Fails(e, eligible)}
     IN /\ eligible' = eligible \ failed
        /\ phase' = IF failed = {} THEN "ordering" ELSE "resolving"
  /\ UNCHANGED <<tarjanVars, input, order>>

\* Mutant of Place: the entries are taken in id order.
PlaceById ==
  /\ phase = "ordering"
  /\ Ready # {}
  /\ order' = Append(order, Min(Planned \ Placed))
  /\ UNCHANGED <<tarjanVars, input, phase, eligible>>

\* Kahn's algorithm: the smallest entry whose providers are all placed.
Place ==
  /\ phase = "ordering"
  /\ Ready # {}
  /\ order' = Append(order, Min(Ready))
  /\ UNCHANGED <<tarjanVars, input, phase, eligible>>

\* Nothing is ready: whatever is left follows in id order.
Finish ==
  /\ phase = "ordering"
  /\ Ready = {}
  /\ order' = order \o InIdOrder(Planned \ Placed)
  /\ phase' = "planned"
  /\ UNCHANGED <<tarjanVars, input, eligible>>

Next ==
  \/ Validate
  \/ SearchCycles
  \/ CyclesFound
  \/ Pass
  \/ Place
  \/ Finish

Spec == Init /\ [][Next]_vars
-----------------------------------------------------------------------------
(* Properties *)

Done == phase = "planned"
Acyclic == Done /\ Cycles = {}       \* reconcile refuses a plan with cycles
Position(e) == CHOOSE i \in DOMAIN order : order[i] = e

\* Type invariant: the eligible entries shrink within the input, the order
\* lists planned entries once each, and a finished order lists all of them.
TypeOK ==
  /\ phase \in {"new", "cycles", "resolving", "ordering", "planned", "rejected"}
  /\ eligible \subseteq Entries
  /\ Placed \subseteq Entries
  /\ Cardinality(Placed) = Len(order)
  /\ phase = "planned" => Placed = Planned

\* A plan that reconcile accepts is closed: each planned entry's hard
\* requirements are met by another planned entry that lives in the consumer's
\* lineage, through a capability no scope of that lineage hides, at a version
\* the specifier contains.
PlanClosed ==
  Acyclic => \A c \in Placed : \A r \in HardRequirements(c) :
    \E p \in Placed \ {c} :
      /\ input.scope[p] \in Lineage(input.scope[c])
      /\ \A a \in Lineage(input.scope[c]) : r.cap \in input.view[a]
      /\ \E o \in OptionsOf(p) : o.cap = r.cap /\ Includes(r.specifier, o.version)

\* S could run by itself: each of its members has, for each hard requirement,
\* an acceptable visible provider among the others.
SelfSufficient(S) ==
  \A e \in S : \A r \in HardRequirements(e) : Matching(r, input.scope[e], e, S) # {}

\* No two providers ever compete for a hard requirement.
Unambiguous ==
  \A e \in Entries : \A r \in HardRequirements(e) :
    Cardinality(Matching(r, input.scope[e], e, Entries)) <= 1

\* The fixpoint drops no entry that could have run: when no two providers
\* compete, every self-sufficient set of entries is planned whole.
GreatestClosedSet ==
  Done /\ Unambiguous => \A S \in SUBSET Entries : SelfSufficient(S) => S \subseteq eligible

\* n is on a loop of the edges.
OnLoop(edges, n) == \E e \in edges : e[1] = n /\ Reaches(edges, e[2], n)

\* Each edge goes forward in the order, or a loop lies upstream of it.
Forward(edges) ==
  \A e \in edges : \/ Position(e[1]) < Position(e[2])
                   \/ \E n \in Placed : OnLoop(edges, n) /\ Reaches(edges, n, e[1])

\* Providers are mounted before the consumers they were selected for, an
\* optional provider too, unless a loop of selected edges lies upstream (only
\* an optional edge can close one: the hard edges were searched for cycles).
ProvidersFirst == Acyclic => Forward(Edges(eligible))

\* The plan of resolve() is the greatest one and in activation order, whatever the
\* order of the passes.
GreatestPlan ==
  /\ TypeOK
  /\ GreatestClosedSet
  /\ ProvidersFirst

\* The eligible entries among S when S is all there is, as a function of the
\* number of passes.
AloneAfter(S) ==
  LET after[n \in 0..Cardinality(Entries)] ==
        IF n = 0 THEN S ELSE {e \in after[n - 1] : ~Fails(e, after[n - 1])}
  IN after[Cardinality(Entries)]

\* Composition scopes are isolated: what is planned in a scope's lineage is
\* what would be planned if the entries of every other scope, its siblings'
\* and its descendants' included, did not exist.
SiblingsDoNotInterfere ==
  Done => \A s \in input.declared :
    LET lineage == {e \in Entries : input.scope[e] \in Lineage(s)}
    IN eligible \cap lineage = AloneAfter(lineage)

\* A status and the verdicts, pairs of an offer and what was said of it, agree.
Agreement(resolution, verdicts) ==
  LET says(v) == {x \in verdicts : x[2] = v}
  IN CASE resolution.status = "resolved" -> says("selected") # {} /\ says("ambiguous") = {}
       [] resolution.status = "ambiguous" -> Cardinality(says("ambiguous")) > 1
                                              /\ says("selected") = {}
       [] resolution.status = "version_mismatch" ->
            \A x \in verdicts : x[2] \notin {"selected", "ambiguous", "not_selected"}
       [] resolution.status = "provider_pending" ->
            /\ says("provider_pending") # {}
            /\ says("mismatch") = {}
       [] resolution.status = "not_visible" ->
            \A x \in verdicts : x[2] \in {"not_visible", "capability_not_exposed",
                                          "self_reference"}
       [] OTHER -> \A x \in verdicts : x[2] = "self_reference"

\* The two explanations of a requirement agree: the status cascade of
\* _resolve_one and the per-provider verdicts of _assessments name one selected
\* provider or none, ambiguity only between acceptable providers, and a pending,
\* mismatched or invisible provider only where a verdict says so.
ProvenanceAgrees ==
  Done => \A e \in Entries : \A r \in Requirements(e) :
    LET resolution == EntryResolution(e, r, eligible)
    IN Agreement(resolution,
                 {<<o, Rejection(o, r, input.scope[e], e, eligible, resolution)>> :
                    o \in {p \in Options : p.cap = r.cap}})

\* Pinning a requirement to a contract generation rejects no version its
\* specifier contains (specifier_major: a range that crosses a major boundary
\* is not pinned).
PinRejectsNothing ==
  \A e \in Entries : \A r \in Requirements(e) : \A p \in Entries : \A o \in OptionsOf(p) :
    o.cap = r.cap /\ Includes(r.specifier, o.version) => Accepts(r, o.cap, o.version)

\* The selection of a provider depends on the scope's lineage alone, is explained
\* the same way twice, and loses no acceptable version.
SelectionSound ==
  /\ SiblingsDoNotInterfere
  /\ ProvenanceAgrees
  /\ PinRejectsNothing
=============================================================================
