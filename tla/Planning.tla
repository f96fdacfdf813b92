------------------------------ MODULE Planning ------------------------------
(***************************************************************************)
(* What a change does to a composition, and what a preview says it will    *)
(* do.  A reconciliation resolves the desired entries, walks the plan in   *)
(* activation order and, entry by entry, carries the mounted instance over *)
(* or mounts a new one, as its semantic identity decides; a preview walks  *)
(* the same plan without mounting (harness.py preview, _materialize;       *)
(* core/identity.py; planning.py).  Entry ids are numbers here: the code   *)
(* orders them.  An identity stands for itself where the code hashes it.   *)
(***************************************************************************)
EXTENDS Configuration, Listings

CONSTANTS Manifest,     \* manifest name -> [provides, requires, optional, registers]
          Configs,      \* the configurations an application may apply
          UserEntries,  \* entries installed by hand: records [id, plugin, config, scope]
          Selections,   \* programmatic preferences: pairs <<key, entry>>
          Flaky,        \* manifests whose setup may fail
          MaxCalls,     \* bound on desired-state calls and reconciliations
          MaxReconciles \* bound on reconciliations

\* An entry id is a number, never None.
EntryIds == Nat \ {0}
ASSUME IdsAssumption ==
  /\ \A e \in UserEntries : e.id \in EntryIds
  /\ \A c \in Configs : DOMAIN c.entries \subseteq EntryIds /\ IsFiniteSet(DOMAIN c.entries)
\* A configuration is applied here, not refused: ControlPlane has those that fail.
ASSUME ConfigsAssumption ==
  /\ NoConfig \notin Configs
  /\ \A c \in Configs : \A id \in DOMAIN c.entries : c.entries[id].config # Bad

VARIABLES control,      \* the control state of Configuration
          instances,    \* entry -> its live instances, oldest first
          current,      \* the current generation, NoGeneration before the first
          held,         \* an older generation a run still leases, or NoGeneration
          building,     \* the reconciliation under way, NoBuild when none is
          mounts,       \* instances mounted so far: the next one's number
          calls,        \* calls so far
          tries,        \* reconciliations so far
          previews,     \* observation: what previews made just before would say
          standing      \* observation: "settled" when nothing changed since the last reconciliation,
                        \* "churned" when that one, repeated in vain, made a generation

vars == <<control, instances, current, held, building, mounts, calls, tries, previews, standing>>

None == 0
NoGeneration == [no |-> None, members |-> <<>>]
NoBuild == [step |-> "none"]
NoIdentity == [entry |-> None]

-----------------------------------------------------------------------------
(* Candidates and the plan: the resolver, without versions and views *)

\* The newest live instance of an entry; FAILED ones count.
HasInstance(id) == id \in DOMAIN instances
Newest(id) == Last(instances[id])

\* What stands for an instance where there is none.
NoInstance == [no |-> None, state |-> "none", revision |-> 0, identity |-> NoIdentity]
InstanceOf(id) == IF HasInstance(id) THEN Newest(id) ELSE NoInstance

\* An active instance of the entry's own revision contributes what it
\* registered; any other entry what its manifest declares.
Declaring(entry) ==
  [plugin |-> entry.plugin, scope |-> entry.scope, offers |-> Manifest[entry.plugin].provides]
CandidateOf(id, entry) ==
  IF InstanceOf(id).state = "active" /\ InstanceOf(id).revision = entry.revision
  THEN [Declaring(entry) EXCEPT !.offers = Manifest[entry.plugin].registers]
  ELSE Declaring(entry)
Candidates(entries) == [id \in DOMAIN entries |-> CandidateOf(id, entries[id])]

\* The preference that applies to a consumer's capability, the most specific.
PreferenceFor(prefs, consumer, cap, scope) ==
  LET keys == << EntryKey(consumer, cap), <<"scope", scope, cap>>, <<"any", cap>> >>
      given == {i \in DOMAIN keys : keys[i] \in DOMAIN prefs}
  IN IF given = {} THEN None ELSE prefs[keys[Min(given)]]

Needs(cand) == Manifest[cand.plugin].requires \cup Manifest[cand.plugin].optional
Visible(cands, c, cap) ==
  {p \in DOMAIN cands \ {c} :
     IsWithin(cands[c].scope, cands[p].scope) /\ cap \in cands[p].offers}

\* One requirement, resolved among the entries of pool.
ResolveOne(cands, prefs, c, cap, pool) ==
  LET visible == Visible(cands, c, cap)
      matching == visible \cap pool
      preferred == matching \cap {PreferenceFor(prefs, c, cap, cands[c].scope)}
      result(status, provider) == [status |-> status, provider |-> provider]
  IN CASE Cardinality(matching) = 1 -> result("resolved", Min(matching))
       [] Cardinality(matching) > 1 /\ preferred # {} -> result("resolved", Min(preferred))
       [] Cardinality(matching) > 1 /\ preferred = {} -> result("ambiguous", None)
       [] matching = {} /\ visible # {} -> result("provider_pending", None)
       [] OTHER -> result("no_provider", None)

\* The entries left when no more hard requirements fail.
EligibleOf(cands, prefs) ==
  LET pass(pool) == {c \in pool : \A cap \in Manifest[cands[c].plugin].requires :
                       ResolveOne(cands, prefs, c, cap, pool).status = "resolved"}
      after[n \in 0..Cardinality(DOMAIN cands)] ==
        IF n = 0 THEN DOMAIN cands ELSE pass(after[n - 1])
  IN after[Cardinality(DOMAIN cands)]

\* The edges lead from n to m, in one step or more: m is in every set that holds
\* the heads of the edges from n and of those from its own members.
Heads(edges) == {e[2] : e \in edges}
LeadsTo(edges, n, m) ==
  \A S \in SUBSET Heads(edges) :
    m \in S \/ \E e \in edges : e[1] \in S \cup {n} /\ e[2] \notin S
OnLoop(edges) == {n \in Heads(edges) : LeadsTo(edges, n, n)}

\* The hard requirements the manifests could meet, as provider-consumer edges.
DeclaredEdges(cands) ==
  LET declared == [id \in DOMAIN cands |->
                     [cands[id] EXCEPT !.offers = Manifest[cands[id].plugin].provides]]
      providers == [c \in DOMAIN cands |->
                      UNION {Visible(declared, c, cap) : cap \in Manifest[cands[c].plugin].requires}]
  IN {e \in (DOMAIN cands) \X (DOMAIN cands) : e[1] \in providers[e[2]]}

SelectedEdges(resolution, S) ==
  {e \in S \X S : \E cap \in DOMAIN resolution[e[2]] : resolution[e[2]][cap].provider = e[1]}

\* Kahn's algorithm, the smallest ready entry first; a loop of optional edges
\* leaves a rest, which follows in id order.
Unplaced(S, placed) == S \ Range(placed)
Ready(S, edges, placed) ==
  {e \in Unplaced(S, placed) : \A p \in Unplaced(S, placed) : <<p, e>> \notin edges}
PlaceNext(S, edges, placed) ==
  IF Ready(S, edges, placed) = {} THEN placed ELSE Append(placed, Min(Ready(S, edges, placed)))
OrderOf(S, edges) ==
  LET after[n \in 0..Cardinality(S)] ==
        IF n = 0 THEN <<>> ELSE PlaceNext(S, edges, after[n - 1])
      placed == after[Cardinality(S)]
  IN placed \o InIdOrder(Unplaced(S, placed))

PlanOf(cands, prefs) ==
  LET pool == EligibleOf(cands, prefs)
      cyclic == OnLoop(DeclaredEdges(cands))
      resolution == [c \in DOMAIN cands |->
                       [cap \in Needs(cands[c]) |-> ResolveOne(cands, prefs, c, cap, pool)]]
      edges == SelectedEdges(resolution, pool \ cyclic)
  IN [resolution |-> resolution, cyclic |-> cyclic,
      instances |-> [c \in DOMAIN cands |-> InstanceOf(c).no],
      order |-> OrderOf(pool \ cyclic, edges)]

-----------------------------------------------------------------------------
(* Semantic identity *)

Providers(resolution) == {resolution[cap].provider : cap \in DOMAIN resolution} \ {None}

\* What a node does, and which provider instances (their number and digest) it
\* does it with.  The preferences explain and are not compared.
Identity(id, entry, resolution, prefs, number, digest) ==
  [entry |-> id, plugin |-> entry.plugin, config |-> entry.config, scope |-> entry.scope,
   bindings |-> [cap \in DOMAIN resolution |->
     LET p == resolution[cap].provider
     IN [provider |-> p, status |-> resolution[cap].status,
         instance |-> IF p = None THEN None ELSE number[p],
         digest |-> IF p = None THEN NoIdentity ELSE digest[p]]],
   prefs |-> [cap \in DOMAIN resolution |-> PreferenceFor(prefs, id, cap, entry.scope)]]

SemanticBinding(b) == [provider |-> b.provider, status |-> b.status, digest |-> b.digest]
Dependencies(i) == [cap \in DOMAIN i.bindings |-> SemanticBinding(i.bindings[cap])]

\* identity_digest: the behaviour of a provider, its own dependencies included.
Digest(i) ==
  [plugin |-> i.plugin, config |-> i.config, scope |-> i.scope, dependencies |-> Dependencies(i)]

\* Mutant of Same: a preference that selects what was selected is a difference.
SameWithPreferences(i, j) == i = j
\* Equality of identities, which decides reuse: instances count, preferences do not.
Same(i, j) == i # NoIdentity /\ [i EXCEPT !.prefs = j.prefs] = j

SemanticallyEqual(i, j) == i.entry = j.entry /\ Digest(i) = Digest(j)

\* contract_fingerprint: what the manifest says, not what the plugin registers.
Contract(i) ==
  LET m == Manifest[i.plugin]
  IN [provides |-> m.provides, requires |-> m.requires, optional |-> m.optional]
ChangedInputs(i, j) ==
  {input \in {"implementation", "contracts", "config", "scope", "dependencies"} :
     CASE input = "implementation" -> i.plugin # j.plugin
       [] input = "contracts" -> Contract(i) # Contract(j)
       [] input = "config" -> <<i.plugin, i.config>> # <<j.plugin, j.config>>
       [] input = "scope" -> i.scope # j.scope
       [] OTHER -> Dependencies(i) # Dependencies(j)}

-----------------------------------------------------------------------------
(* Impact: two generations compared, node by node *)

MemberOf(g, id) == LET at == {i \in DOMAIN g.members : g.members[i].entry = id}
                   IN IF at = {} THEN NoInstance ELSE g.members[Min(at)]
MemberIds(g) == {m.entry : m \in Range(g.members)}

\* _binding_changes: the providers of every binding that differs.
DependencyChanges(i, j) ==
  LET provider(k, cap) == IF cap \in DOMAIN k.bindings THEN k.bindings[cap].provider ELSE None
      same(cap) == /\ cap \in DOMAIN i.bindings \cap DOMAIN j.bindings
                   /\ i.bindings[cap] = j.bindings[cap]
      differing == {cap \in DOMAIN i.bindings \cup DOMAIN j.bindings : ~same(cap)}
  IN (UNION {{provider(i, cap), provider(j, cap)} : cap \in differing}) \ {None}

\* _compare, for a node of both generations.
Compare(before, after) ==
  LET i == before.identity
      j == after.identity
      inputs == ChangedInputs(i, j)
      verdict(decision, changed, causes) ==
        [decision |-> decision, inputs |-> changed, causes |-> causes]
  IN CASE before.no = after.no /\ SemanticallyEqual(i, j) -> verdict("reused", {}, {})
       [] before.no # after.no /\ SemanticallyEqual(i, j) -> verdict("unchanged", {}, {})
       [] OTHER ->
            verdict(IF inputs = {"dependencies"} THEN "rewired" ELSE "rebuilt", inputs,
                    IF "dependencies" \in inputs THEN DependencyChanges(i, j) ELSE {})

Impact(old, new) ==
  [id \in MemberIds(old) \cup MemberIds(new) |->
     CASE id \notin MemberIds(old) -> [decision |-> "added", inputs |-> {}, causes |-> {}]
       [] id \notin MemberIds(new) -> [decision |-> "removed", inputs |-> {}, causes |-> {}]
       [] OTHER -> Compare(MemberOf(old, id), MemberOf(new, id))]

-----------------------------------------------------------------------------
(* Deciding one entry's fate, for a mount and for a preview *)

\* The decision rule: the newest instance is active, of the entry's revision
\* and of the identity the entry would have.
Carries(id, entry, identity) ==
  LET existing == InstanceOf(id)
  IN existing.state = "active" /\ existing.revision = entry.revision /\ Same(existing.identity, identity)

\* An entry decided in this walk answers for itself, any other by the newest
\* instance it has.
DigestIn(decided, p) ==
  LET known == IF p \in DOMAIN decided THEN decided[p] ELSE InstanceOf(p).identity
  IN IF known = NoIdentity THEN NoIdentity ELSE Digest(known)

\* What a published tree shows a run: the scopes, where every desired entry of
\* the plan is, and what each requirement selected.
TreeOf(scopes, cands, plan) ==
  [scopes |-> scopes, entries |-> [id \in DOMAIN cands |-> cands[id].scope],
   selections |-> plan.resolution]

\* _same_composition: nothing a run can observe differs.
SameComposition(g, members, tree, prefs) ==
  /\ g # NoGeneration
  /\ [i \in DOMAIN g.members |-> g.members[i].no] = [i \in DOMAIN members |-> members[i].no]
  /\ g.tree = tree
  /\ g.prefs = prefs

-----------------------------------------------------------------------------
(* Preview *)

\* Mutant of PredictedInstance: a provider about to be replaced still answers.
PredictedOutgoing(reused, p) == InstanceOf(p).no
\* The instance a provider will have: one yet to come when it is not reused.
PredictedInstance(reused, p) ==
  IF p \in DOMAIN reused /\ ~reused[p] THEN mounts + p ELSE InstanceOf(p).no

\* The walk over the plan, in order: who will have which identity, who is reused.
Decide(walk, id, plan, entries, untouched, prefs) ==
  LET providers == Providers(plan.resolution[id])
      identity == Identity(id, entries[id], plan.resolution[id], prefs,
                           [p \in providers |-> PredictedInstance(walk.reused, p)],
                           [p \in providers |-> DigestIn(walk.decided, p)])
  IN [decided |-> Put(walk.decided, id, identity),
      reused |-> Put(walk.reused, id, id \in untouched /\ Carries(id, entries[id], identity))]
Walk(plan, entries, untouched, prefs) ==
  LET after[n \in 0..Len(plan.order)] ==
        IF n = 0 THEN [decided |-> <<>>, reused |-> <<>>]
        ELSE Decide(after[n - 1], plan.order[n], plan, entries, untouched, prefs)
  IN after[Len(plan.order)]

Act(kind, reasons, forcing) == [kind |-> kind, reasons |-> reasons, forcing |-> forcing]

\* _plan_action: one entry of the order.
PlanAction(id, entry, change, identity, reused) ==
  LET existing == InstanceOf(id)
      moved == IF existing.identity = NoIdentity THEN {}
               ELSE ChangedInputs(existing.identity, identity)
  IN CASE change = "add" -> Act("add", {"entry_added"}, TRUE)
       [] change = "replace" -> Act("replace", {"replaced"}, TRUE)
       [] change = "unchanged" /\ ~HasInstance(id) -> Act("add", {"entry_added"}, TRUE)
       [] change = "unchanged" /\ HasInstance(id) /\ reused -> Act("reuse", {"unchanged"}, FALSE)
       [] OTHER -> Act("rebuild",
                       moved \cup {r \in {"revision_changed"} : existing.revision # entry.revision}
                             \cup {r \in {"instance_inactive"} : existing.state # "active"}, TRUE)

\* _reject_action: an entry of the plan that is not in its order.
RejectAction(id, plan) ==
  LET statuses == {plan.resolution[id][cap].status : cap \in DOMAIN plan.resolution[id]}
  IN Act("reject", (statuses \ {"resolved"}) \cup {r \in {"plugin_cycle"} : id \in plan.cyclic},
         InstanceOf(id).state = "active")

RemoveAction(id) == Act("remove", {"entry_removed"}, InstanceOf(id).state = "active")

\* _build_plan_result: an action per entry, and whether a generation would be
\* published.
PlanResult(cands, entries, changes, prefs) ==
  LET plan == PlanOf(cands, prefs)
      untouched == {id \in DOMAIN entries : changes[id] = "unchanged"}
      walk == Walk(plan, entries, untouched, prefs)
      removed == {id \in DOMAIN changes : changes[id] = "remove"}
      actions == [id \in DOMAIN changes |->
        CASE id \in removed -> RemoveAction(id)
          [] id \in Range(plan.order) ->
               PlanAction(id, entries[id], changes[id], walk.decided[id], walk.reused[id])
          [] OTHER -> RejectAction(id, plan)]
      newest == Filtered(plan.order, DOMAIN instances)
      members == [i \in DOMAIN newest |-> Newest(newest[i])]
  IN [actions |-> actions,
      publishes |-> \/ \E id \in DOMAIN actions : actions[id].forcing
                    \/ ~SameComposition(current, members,
                                        TreeOf(control.desired.scopes, cands, plan), prefs),
      cyclic |-> plan.cyclic]

\* preview of the current desired state: the next reconciliation.
PreviewNow(c) ==
  LET entries == c.desired.entries
  IN PlanResult(Candidates(entries), entries, [id \in DOMAIN entries |-> "unchanged"],
                EffectivePreferences(c))

\* _preview_entry: the entry as an application of the configuration would make
\* it, the root its scope.
PreviewEntry(config, id) ==
  LET d == control.desired
      change == ActionFor(config, d, id)
      revision == IF HasEntry(d, id) THEN d.entries[id].revision ELSE 0
  IN [plugin |-> Catalog[config.entries[id].plugin], config |-> config.entries[id].config,
      scope |-> Root, revision |-> IF change = "unchanged" THEN revision ELSE revision + 1]

\* _preview_candidates: what the configuration mutates is only declared, the
\* rest is as installed.
PreviewCandidates(entries, changes) ==
  [id \in DOMAIN entries |->
     IF changes[id] = "unchanged" THEN CandidateOf(id, control.desired.entries[id])
                                  ELSE Declaring(entries[id])]

\* preview of a configuration.
PreviewConfig(config) ==
  LET d == control.desired
      changes == [id \in DOMAIN config.entries \cup DOMAIN d.entries |-> ActionFor(config, d, id)]
      entries == [id \in DOMAIN config.entries |-> PreviewEntry(config, id)]
  IN PlanResult(PreviewCandidates(entries, changes), entries, changes,
                control.programPrefs @@ ConfigPreferences(config))
-----------------------------------------------------------------------------
(* Calls on the desired state; they may land at any step of a reconciliation *)

Init ==
  /\ control = [desired |-> NewDesired, configPrefs |-> <<>>, programPrefs |-> <<>>,
                config |-> NoConfig, provisions |-> {}]
  /\ instances = <<>>
  /\ current = NoGeneration /\ held = NoGeneration
  /\ building = NoBuild
  /\ mounts = 0 /\ calls = 0 /\ tries = 0
  /\ previews = {}
  /\ standing = "changed"

Call(next, seen) ==
  /\ calls < MaxCalls
  /\ calls' = calls + 1
  /\ control' = next
  /\ previews' = seen
  /\ standing' = "changed"
  /\ UNCHANGED <<instances, current, held, building, mounts, tries>>

Installs(e) ==
  /\ HasScope(control.desired, e.scope)
  /\ Call([control EXCEPT !.desired = InstallEntry(@, e.id, e.plugin, e.config, e.scope)], {})
Uninstalls(e) ==
  /\ HasEntry(control.desired, e.id)
  /\ Call([control EXCEPT !.desired = Uninstall(@, e.id)], {})
DeclaresScope(e) ==
  /\ ~HasScope(control.desired, e.scope)
  /\ Call([control EXCEPT !.desired = Ensure(@, e.scope)], {})
Prefers(s) == Call(Prefer(control, s[1], s[2]), {})

\* An application of a configuration, previewed just before.
Applies(config) ==
  Call(Commit(control, config),
       IF building = NoBuild THEN {[of |-> config, result |-> PreviewConfig(config)]} ELSE {})

-----------------------------------------------------------------------------
(* Reconciliation *)

\* The instances that stay, of every entry; an entry left without any is gone.
Thinned(insts, stay) ==
  LET left == [id \in DOMAIN insts |-> Filtered(insts[id], stay[id])]
  IN Drop(left, {id \in DOMAIN left : left[id] = <<>>})

\* _reclaim: what no generation reaches is disposed, and what failed for an
\* entry no longer desired.
Reclaimed(insts, generations) ==
  LET kept(i) == IF i.state = "failed" THEN HasEntry(control.desired, i.entry)
                 ELSE \E g \in generations : i.no \in {m.no : m \in Range(g.members)}
  IN Thinned(insts, [id \in DOMAIN insts |-> {i \in Range(insts[id]) : kept(i)}])

\* The plan is computed from this moment's desired state; a plan with cycles is
\* refused.
ReconcileBegin ==
  /\ building = NoBuild
  /\ tries < MaxReconciles
  /\ tries' = tries + 1
  /\ LET cands == Candidates(control.desired.entries)
         plan == PlanOf(cands, EffectivePreferences(control))
     IN building' = IF plan.cyclic # {} THEN NoBuild
                    ELSE [step |-> "mounting", plan |-> plan, cands |-> cands,
                          scopes |-> control.desired.scopes, left |-> plan.order,
                          ordered |-> <<>>, mounted |-> {}, decided |-> <<>>]
  /\ previews' = previews \cup {[of |-> NoConfig, result |-> PreviewNow(control)]}
  /\ UNCHANGED <<control, instances, current, held, mounts, calls, standing>>

Turn(id) == building # NoBuild /\ building.left # <<>> /\ id = Head(building.left)

\* The identity of an entry at its turn: its desired state and the preferences
\* as they are now, the requirements as the plan resolved them.
IdentityAtTurn(id) ==
  LET providers == Providers(building.plan.resolution[id])
  IN Identity(id, control.desired.entries[id], building.plan.resolution[id],
              EffectivePreferences(control), [p \in providers |-> InstanceOf(p).no],
              [p \in providers |-> DigestIn(building.decided, p)])

\* What _materialize decides at an entry's turn.
Carried(id) == Carries(id, control.desired.entries[id], IdentityAtTurn(id))

\* An entry uninstalled since the plan is passed over.
PassOver(id) ==
  /\ Turn(id)
  /\ ~HasEntry(control.desired, id)
  /\ building' = [building EXCEPT !.left = Tail(@)]
  /\ UNCHANGED <<control, instances, current, held, mounts, calls, tries, previews, standing>>

CarryOver(id) ==
  /\ Turn(id)
  /\ HasEntry(control.desired, id)
  /\ Carried(id)
  /\ building' = [building EXCEPT !.left = Tail(@), !.ordered = Append(@, Newest(id)),
                                  !.decided = Put(@, id, IdentityAtTurn(id))]
  /\ UNCHANGED <<control, instances, current, held, mounts, calls, tries, previews, standing>>

\* Mutant of Beside: a failed instance stays in the registry.
BesideFailed(id, new) ==
  Put(instances, id, Append(IF HasInstance(id) THEN instances[id] ELSE <<>>, new))
\* The entry's instances once a failed one made way for the new one.
Beside(id, new) ==
  LET old == IF HasInstance(id) THEN instances[id] ELSE <<>>
      kept == IF old # <<>> /\ Last(old).state = "failed" THEN Front(old) ELSE old
  IN Put(instances, id, Append(kept, new))

\* A new instance is set up beside the old one, which generations may still
\* reach; it has its identity once it is active.
Mount(id) ==
  /\ Turn(id)
  /\ HasEntry(control.desired, id)
  /\ ~Carried(id)
  /\ LET new == [no |-> mounts + 1, entry |-> id, state |-> "active",
                 revision |-> control.desired.entries[id].revision, identity |-> IdentityAtTurn(id)]
     IN /\ instances' = Beside(id, new)
        /\ building' = [building EXCEPT !.left = Tail(@), !.ordered = Append(@, new),
                                        !.mounted = @ \cup {new.no},
                                        !.decided = Put(@, id, new.identity)]
  /\ mounts' = mounts + 1
  /\ UNCHANGED <<control, current, held, calls, tries, previews, standing>>

\* The rollback of a candidate: every instance mounted for it is disposed.
RolledBack(insts) ==
  Thinned(insts, [id \in DOMAIN insts |-> {i \in Range(insts[id]) : i.no \notin building.mounted}])

\* A setup that fails leaves a failed instance; the candidate is rolled back and
\* the generation stays.
MountFails(id) ==
  /\ Turn(id)
  /\ HasEntry(control.desired, id)
  /\ ~Carried(id)
  /\ control.desired.entries[id].plugin \in Flaky
  /\ LET failed == [no |-> mounts + 1, entry |-> id, state |-> "failed", identity |-> NoIdentity,
                    revision |-> control.desired.entries[id].revision]
         insts == Beside(id, failed)
     IN instances' = RolledBack(insts)
  /\ mounts' = mounts + 1
  /\ building' = NoBuild
  /\ previews' = {}
  /\ standing' = "changed"
  /\ UNCHANGED <<control, current, held, calls, tries>>

\* What a member of the entry's registered, once mounted.
Registered(id) ==
  UNION {Manifest[m.identity.plugin].registers : m \in {n \in Range(building.ordered) : n.entry = id}}

\* Mutant of Validated: the members are published as they are.
ValidatedAlways == TRUE
\* _validate_publication: every member registered what its manifest promises, and
\* whatever a requirement of the plan selected is still among the members and
\* registered what is required, also for an entry passed over.
Validated ==
  /\ \A m \in Range(building.ordered) :
       Manifest[m.identity.plugin].provides \subseteq Manifest[m.identity.plugin].registers
  /\ \A id \in Range(building.plan.order) : \A cap \in DOMAIN building.plan.resolution[id] :
       LET provider == building.plan.resolution[id][cap].provider
       IN provider # None => cap \in Registered(provider)

\* A candidate that does not validate is rolled back, and the generation stays.
Rejected ==
  /\ building # NoBuild /\ building.left = <<>>
  /\ ~Validated
  /\ instances' = RolledBack(instances)
  /\ building' = NoBuild
  /\ previews' = {}
  /\ standing' = "changed"
  /\ UNCHANGED <<control, current, held, mounts, calls, tries>>

\* The members are complete: a new generation becomes current, unless it would
\* be the current one again; then what nothing reaches is reclaimed.
Publish ==
  /\ building # NoBuild /\ building.left = <<>>
  /\ Validated
  /\ LET tree == TreeOf(building.scopes, building.cands, building.plan)
         prefs == EffectivePreferences(control)
     IN current' = IF SameComposition(current, building.ordered, tree, prefs) THEN current
                   ELSE [no |-> current.no + 1, members |-> building.ordered, tree |-> tree,
                         prefs |-> prefs, raced |-> previews = {}]
  /\ instances' = Reclaimed(instances, {current', held})
  /\ control' = [control EXCEPT !.desired.dirty = FALSE]
  /\ building' = NoBuild
  /\ previews' = {}
  /\ standing' = IF previews = {} THEN "changed"
                 ELSE IF standing # "changed" /\ current' # current THEN "churned" ELSE "settled"
  /\ UNCHANGED <<held, mounts, calls, tries>>

\* A run leases the current generation: during a reconciliation that is the same
\* as just before it, and a release then waits for the composition lock.
Lease ==
  /\ held = NoGeneration /\ current # NoGeneration /\ building = NoBuild
  /\ held' = current
  /\ UNCHANGED <<control, instances, current, building, mounts, calls, tries, previews, standing>>

Release ==
  /\ held # NoGeneration /\ building = NoBuild
  /\ held' = NoGeneration
  /\ instances' = Reclaimed(instances, {current})
  /\ previews' = {}
  /\ UNCHANGED <<control, current, building, mounts, calls, tries, standing>>

Next ==
  \/ \E e \in UserEntries : Installs(e) \/ Uninstalls(e) \/ DeclaresScope(e)
  \/ \E s \in Selections : Prefers(s)
  \/ \E config \in Configs : Applies(config)
  \/ ReconcileBegin
  \/ \E id \in DOMAIN control.desired.revisions :
       PassOver(id) \/ CarryOver(id) \/ Mount(id) \/ MountFails(id)
  \/ Publish \/ Rejected
  \/ Lease \/ Release

Spec == Init /\ [][Next]_vars
-----------------------------------------------------------------------------
(* Properties *)

Generations == {g \in {current, held} : g # NoGeneration}

\* Type invariant: an entry's instances have ascending numbers and are its own,
\* only the newest can have failed, and what a generation reaches is live.
TypeOK ==
  /\ \A id \in DOMAIN instances :
       /\ instances[id] # <<>>
       /\ \A i \in DOMAIN instances[id] :
            /\ instances[id][i].entry = id
            /\ instances[id][i].no \in 1..mounts
            /\ i < Len(instances[id]) => /\ instances[id][i].no < instances[id][i + 1].no
                                         /\ instances[id][i].state = "active"
  /\ \A g \in Generations : \A m \in Range(g.members) :
       m.entry \in DOMAIN instances /\ m \in Range(instances[m.entry])

\* Whom the plan of a generation selected for whom, and the entries that a loop
\* of those edges leads to: the activation order has no place for a loop.
PlannedEdges(g) == SelectedEdges(g.tree.selections, DOMAIN g.tree.selections)
TangledBy(edges) ==
  LET loops == OnLoop(edges)
  IN {m \in Heads(edges) : \E n \in loops : LeadsTo(edges, n, m)}
Tangled(g) == TangledBy(PlannedEdges(g))

\* Whatever was reused, rebuilt, uninstalled or replaced by another plugin while
\* a generation was built, each member of it is bound to the provider instances
\* of that same generation, which register what it was given them for, never to
\* one on its way out.  Identity counts instances for that, and what it cannot
\* see, the validation before the publication refuses.
BoundToMembers ==
  \A g \in Generations :
    LET tangled == Tangled(g)
    IN \A m \in Range(g.members) : \A cap \in DOMAIN m.identity.bindings :
         LET b == m.identity.bindings[cap]
             provider == MemberOf(g, b.provider)
         IN b.provider # None =>
              /\ b.provider \in MemberIds(g)
              /\ cap \in Manifest[provider.identity.plugin].registers
              /\ b.instance = provider.no \/ m.entry \in tangled

Publishes == building # NoBuild /\ building.left = <<>> /\ Validated /\ building' = NoBuild
Joined == {m.entry : m \in Range(building.ordered)}
Carriers == {m.entry : m \in {n \in Range(building.ordered) : n.no \notin building.mounted}}

\* What a preview says: the entries carried over and mounted, who stays out, and
\* whether there will be a generation.  Two things it gets wrong of a configuration:
\* an entry it leaves as it was installed by hand, outside the root or with
\* another implementation than the catalog's, and that an instance which only an
\* older generation reaches will not be missed.
Foretells(preview) ==
  LET acts == preview.result.actions
      of(kinds) == {id \in DOMAIN acts : acts[id].kind \in kinds}
      leftovers == \E id \in of({"remove", "reject"}) : acts[id].forcing /\ id \notin MemberIds(current)
  IN /\ of({"reuse"}) = Carriers
     /\ of({"add", "replace", "rebuild"}) = Joined \ Carriers
     /\ preview.result.publishes # (current' = current) \/ leftovers
AsConfigured(config) ==
  \A id \in DOMAIN config.entries :
    HasEntry(control.desired, id) =>
      LET e == control.desired.entries[id]
      IN e.scope = Root /\ e.plugin = Catalog[config.entries[id].plugin]
\* A preview's decisions match the apply and the reconciliation that follow:
\* guarantee G26 of docs/design.md, for every entry and for the publication.
PreviewMatches ==
  [][Publishes => \A preview \in previews :
       preview.of = NoConfig \/ AsConfigured(preview.of) => Foretells(preview)]_vars

Selection(i) == [cap \in DOMAIN i.bindings |-> <<i.bindings[cap].provider, i.bindings[cap].status>>]
\* A member of the old and of the new generation is a new instance only when its
\* entry was replaced, a requirement of it was resolved otherwise, a provider it
\* is bound to is a new instance, its last mount failed, or a loop of bindings
\* leads or led to it.
NewForAReason ==
  \A id \in MemberIds(current) \cap MemberIds(current') :
    LET before == MemberOf(current, id)
        after == MemberOf(current', id)
        bound == {after.identity.bindings[cap].provider : cap \in DOMAIN after.identity.bindings}
    IN \/ before.no = after.no
       \/ before.revision # after.revision
       \/ Selection(before.identity) # Selection(after.identity)
       \/ \E p \in bound \ {None} : MemberOf(current, p).no # MemberOf(current', p).no
       \/ after.identity.plugin \in Flaky
       \/ id \in Tangled(current) \cup Tangled(current')
\* A change rebuilds nothing it does not reach.
OnlyTheAffected == [][Publishes => NewForAReason]_vars

\* Of the nodes that no loop of bindings leads or led to, one reported reused is
\* bound to reused nodes only, and a rewired one had a requirement resolved
\* otherwise, or names among its causes a provider that was itself rebuilt or
\* rewired.
ImpactExplained ==
  LET impact == Impact(current, current')
  IN \A id \in MemberIds(current') \ (Tangled(current) \cup Tangled(current')) :
       LET i == MemberOf(current, id).identity
           j == MemberOf(current', id).identity
           bound == {j.bindings[cap].provider : cap \in DOMAIN j.bindings} \ {None}
       IN /\ impact[id].decision = "reused" => \A p \in bound : impact[p].decision = "reused"
          /\ impact[id].decision = "rewired" =>
               \/ Selection(i) # Selection(j)
               \/ \E p \in impact[id].causes : impact[p].decision \in {"rebuilt", "rewired"}
\* The impact analysis follows the bindings.
ImpactFollowsBindings ==
  [][Publishes /\ current # NoGeneration => ImpactExplained]_vars

\* A reconciliation repeated with nothing changed since keeps the generation,
\* unless bindings loop or a desired entry may register more than its manifest
\* declares.
RegistersMore(p) == Manifest[p].registers # Manifest[p].provides
RepeatIsNoOp ==
  standing = "churned" =>
    \/ Tangled(current) # {}
    \/ \E id \in DOMAIN control.desired.entries : RegistersMore(control.desired.entries[id].plugin)

\* Reconciliation changes what has to change: nothing when repeated, and otherwise
\* what the change reaches.
RebuildsAsNeeded ==
  /\ []RepeatIsNoOp
  /\ OnlyTheAffected

\* docs/lifecycle.md says of an unchanged composition that reconciliation
\* "reuses the current generation instead of churning one, so repeated
\* reconciliation is a no-op".
RepeatedReconciliationIsANoOp == standing # "churned"
=============================================================================
