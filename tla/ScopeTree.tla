------------------------------ MODULE ScopeTree ------------------------------
(***************************************************************************)
(* What a resolution makes of the composition scopes: the plan of each     *)
(* scope (resolver.py, _build_scope_plans), the tree that publication      *)
(* binds to the mounted instances (composition.py, build_scope_tree), and  *)
(* the capability snapshot a run in a scope looks providers up in          *)
(* (capabilities/snapshot.py).  The resolver and the tree work out         *)
(* visibility each on its own.                                             *)
(***************************************************************************)
EXTENDS Resolver

-----------------------------------------------------------------------------
(* The plan of one scope *)

EntriesIn(s) == {e \in Entries : input.scope[e] = s}

\* The resolutions made in a scope: its own requirements, and those of the
\* entries it declares.
ScopeRequirements(s) ==
  {[consumer |-> s, requirement |-> r, result |-> Resolution(r, s, s, None, eligible)] :
     r \in input.requires[s]}
Provenance(s) ==
  ScopeRequirements(s) \cup
  {[consumer |-> x[1], requirement |-> x[2], result |-> EntryResolution(x[1], x[2], eligible)] :
     x \in {y \in EntriesIn(s) \X UNION {Requirements(e) : e \in EntriesIn(s)} :
              y[2] \in Requirements(y[1])}}

\* A scope's own providers and those of its ancestors, pending ones included.
ScopePlan(s) ==
  LET from(local) == [cap \in Caps |->
        {o.entry : o \in {v \in VisibleIn(s, cap) : (v.scope = s) = local}}]
      providers == from(TRUE)
      inherited == from(FALSE)
  IN [order |-> SelectSeq(order, LAMBDA e : e \in EntriesIn(s)),
      pending |-> EntriesIn(s) \cap PendingEntries,
      providers |-> providers, inherited |-> inherited,
      visible |-> [cap \in Caps |-> providers[cap] \cup inherited[cap]],
      provenance |-> Provenance(s)]

-----------------------------------------------------------------------------
(* The tree that is published *)

\* What the mounted instance of an entry registers: what it did before, or what
\* its manifest declares.
Registrations == {o \in Options : o.entry \in Placed}

\* A scope's view after those of its ancestors, found parent by parent.
EffectiveView(s) ==
  LET view[t \in Scopes] == IF ParentOf[t] = NoParent THEN input.view[t]
                            ELSE input.view[t] \cap view[ParentOf[t]]
  IN view[s]

LocalProviders(s, cap) == {o.entry : o \in {r \in Registrations : r.scope = s /\ r.cap = cap}}

\* Mutant of Ancestors: the parent alone.
ParentOnly(s) == {ParentOf[s]} \ {NoParent}
Ancestors(s) == Lineage(s) \ {s}

\* The published scope: the providers a run in it can reach.
TreeScope(s) ==
  LET shown(providers) == [cap \in Caps |-> IF cap \in EffectiveView(s) THEN providers[cap] ELSE {}]
      providers == shown([cap \in Caps |-> LocalProviders(s, cap)])
      inherited == shown([cap \in Caps |-> UNION {LocalProviders(a, cap) : a \in Ancestors(s)}])
  IN [providers |-> providers, inherited |-> inherited,
      visible |-> [cap \in Caps |-> providers[cap] \cup inherited[cap]]]

-----------------------------------------------------------------------------
(* A run's capabilities *)

\* scoped_capabilities: the registrations of the providers its scope shows.
Snapshot(s) == {o \in Registrations : o.entry \in TreeScope(s).visible[o.cap]}

\* resolve: a requirement against a snapshot, with preferred providers.
Lookup(snapshot, r, prefer) ==
  LET named == {o \in snapshot : o.cap = r.cap}
      candidates == {o \in named : Accepts(r, o.cap, o.version)}
      preferred == {o \in candidates : o.entry \in prefer}
      found(status, options) == [status |-> status, providers |-> {o.entry : o \in options}]
  IN CASE candidates = {} -> found(IF named = {} THEN "no_provider" ELSE "version_mismatch", {})
       [] Cardinality(candidates) = 1 -> found("resolved", candidates)
       [] Cardinality(candidates) > 1 /\ preferred # {} -> found("resolved", preferred)
       [] OTHER -> found("ambiguous", candidates)

\* require: the one provider of a capability by name.
Require(snapshot, cap) ==
  LET named == {o \in snapshot : o.cap = cap}
  IN CASE named = {} -> "not_found"
       [] Cardinality(named) > 1 -> "ambiguous"
       [] OTHER -> "found"

-----------------------------------------------------------------------------
(* Properties *)

\* The tree shows what was planned: a scope's published providers, its own and
\* those it inherits, are those of its plan without the pending ones, and every
\* requirement resolved in it was resolved to one of them.
PublishedAsPlanned ==
  Acyclic => \A s \in input.declared :
    LET plan == ScopePlan(s)
        tree == TreeScope(s)
    IN /\ \A cap \in Caps : /\ tree.providers[cap] = plan.providers[cap] \cap Placed
                            /\ tree.inherited[cap] = plan.inherited[cap] \cap Placed
       /\ \A p \in plan.provenance : p.result.status = "resolved" =>
            p.result.provider \in tree.visible[p.requirement.cap]

\* Guarantee G15 of docs/design.md, between neighbours: a scope inherits, of the
\* capabilities it may observe, exactly what its parent shows.
InheritsFromTheParent ==
  Acyclic => \A s \in input.declared \ {Root} : \A cap \in Caps :
    TreeScope(s).inherited[cap] =
      IF cap \in EffectiveView(s) THEN TreeScope(ParentOf[s]).visible[cap] ELSE {}

\* What the plan resolved in a scope, a run there finds: its snapshot has the
\* candidates the plan had, save that an entry does not provide for itself, and
\* resolves to the planned provider when that one is preferred; the capability
\* is not missed by name.
ServesWhatIsResolved ==
  Acyclic => \A s \in input.declared : \A p \in Provenance(s) :
    p.result.status = "resolved" /\ p.consumer \notin PendingEntries =>
      LET r == p.requirement
          snapshot == Snapshot(s)
          planned == Matching(r, s, IF p.consumer = s THEN None ELSE p.consumer, eligible)
      IN /\ Lookup(snapshot, r, {}).providers \ {p.consumer} = {o.entry : o \in planned}
         /\ Lookup(snapshot, r, {p.result.provider}) =
              [status |-> "resolved", providers |-> {p.result.provider}]
         /\ Require(snapshot, r.cap) # "not_found"

\* From the plan over the published tree to what a run looks up in its scope, one
\* answer.
TreeServesThePlan ==
  /\ PublishedAsPlanned
  /\ InheritsFromTheParent
  /\ ServesWhatIsResolved
=============================================================================
