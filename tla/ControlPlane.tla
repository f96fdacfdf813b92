---------------------------- MODULE ControlPlane ----------------------------
(***************************************************************************)
(* The control plane of a harness in motion: applications install entries, *)
(* apply configurations, provide capabilities, publish and retire agents,  *)
(* while reconciliations publish generations and runs start.  The desired- *)
(* state calls are synchronous, hence one step each; a reconciliation      *)
(* suspends between its plan and its publication (harness.py reconcile),   *)
(* and any call may land in between.                                       *)
(***************************************************************************)
EXTENDS Agents

CONSTANTS Documents,    \* the configuration documents an application may apply
          Specs,        \* the agent specs it may publish
          Agents,       \* the agent names
          Runtimes,     \* the registered runtimes
          UserEntries,  \* entries installed by hand: records [id, plugin, config, scope]
          UserScopes,   \* scope paths an application creates and removes itself
          Provisions,   \* capabilities it may provide
          Runs,
          MaxCalls      \* bound on desired-state calls and reconciliations

\* Paths are sequences of names; the markers of an untagged scope are not names;
\* an agent has finitely many plugins, a document lists its entries; and nobody
\* but the agents gives an entry an agent's id.
ASSUME ControlAssumption ==
  /\ MaxCalls \in Nat
  /\ \A path \in UserScopes : path \in Seq(Range(path))
  /\ \A s \in Specs : /\ s.scope \in Seq(Range(s.scope))
                      /\ s.name # NoAgent /\ s.revision # NoRevision
                      /\ IsFiniteSet(DOMAIN s.plugins)
  /\ \A e \in UserEntries : e.id[1] # "agent"
  /\ \A document \in Documents :
       /\ document.plugins \in Seq(Range(document.plugins))
       /\ \A entry \in Range(document.plugins) : entry.id[1] # "agent"

VARIABLES control,      \* the control state of Agents: desired state, preferences, agents
          building,     \* the plan a reconciliation works on, NoPlan when none does
          published,    \* the current generation: its [scopes, entries, prefs]
          runs,         \* run -> its record
          last,         \* the last call: [call, of, result], the result "ok", "noop",
                        \* "refused" or "failed"
          calls,        \* calls so far
          contents,     \* observation: every entry a generation held, <<id, entry>>
          overtaken     \* observation: a call landed while the current generation was built

vars == <<control, building, published, runs, last, calls, contents, overtaken>>

NoPlan == [by |-> "nobody"]
Operator == "operator"          \* who reconciles, when it is no run

NewControl ==
  [desired |-> NewDesired, configPrefs |-> <<>>, programPrefs |-> <<>>, config |-> NoConfig,
   provisions |-> {}, history |-> <<>>, active |-> <<>>, retired |-> {}, owned |-> {}]

\* What a reconciliation resolves and publishes.
Composed == [scopes |-> control.desired.scopes, entries |-> control.desired.entries,
             prefs |-> EffectivePreferences(control)]

Idle == [pc |-> "idle"]

Init ==
  /\ control = NewControl
  /\ building = NoPlan
  /\ published = Composed
  /\ runs = [r \in Runs |-> Idle]
  /\ last = [call |-> "none", of |-> NoAgent, result |-> "ok"]
  /\ calls = 0
  /\ contents = {}
  /\ overtaken = FALSE

-----------------------------------------------------------------------------
(* Calls on the desired state *)

\* What a look at the desired entry of an id finds.
Found(c, id) == IF HasEntry(c.desired, id) THEN c.desired.entries[id] ELSE Gone

Call(call, of, next, result) ==
  /\ calls < MaxCalls
  /\ calls' = calls + 1
  /\ control' = next
  /\ last' = [call |-> call, of |-> of, result |-> result]
  /\ building' = IF building = NoPlan THEN NoPlan
                 ELSE [building EXCEPT !.landed = TRUE,
                                       !.read = [id \in DOMAIN @ |-> @[id] \cup {Found(next, id)}]]
  /\ UNCHANGED <<published, runs, contents, overtaken>>

Installs(entry) ==
  IF HasScope(control.desired, entry.scope)
  THEN Call("install", entry, [control EXCEPT !.desired =
               InstallEntry(@, entry.id, entry.plugin, entry.config, entry.scope)], "ok")
  ELSE Call("install", entry, control, "refused")

Uninstalls(entry) ==
  /\ HasEntry(control.desired, entry.id)
  /\ Call("uninstall", entry, [control EXCEPT !.desired = Uninstall(@, entry.id)], "ok")

\* The scopes an application creates bare, gives terms (an agent's too, which
\* then keeps its metadata), and removes.
Declares(path) ==
  LET there == Ensure(control.desired, path)
  IN Call("declare", path, [control EXCEPT !.desired =
            SetScope(there, path, [there.scopes[path] EXCEPT !.terms = "narrowed"])], "ok")
Removes(path) ==
  /\ path # Root /\ HasScope(control.desired, path)
  /\ Call("remove", path, [control EXCEPT !.desired = RemoveScope(@, path)], "ok")

Applies(document) ==
  LET config == ParseConfig(document)
  IN IF ~IsValid(document) \/ ~Stages(config) THEN Call("apply", document, control, "refused")
     ELSE IF Batch(config, control.desired).ok
          THEN Call("apply", document, Commit(control, config), "ok")
          ELSE Call("apply", document, Abandon(control, config), "failed")

Provides(cap) == Call("provide", cap, Provide(control, cap), "ok")
Withdraws(cap) == cap \in control.provisions /\ Call("withdraw", cap, Withdraw(control, cap), "ok")
Prefers(cap, entry) == Call("prefer", entry, Prefer(control, <<"any", cap>>, entry.id), "ok")

\* install, with its refusals in the order of the code.
Publishes(spec, replace) ==
  LET known == Remembered(control, spec.name)
      ends(next, result) == Call("publish", spec, next, result)
  IN IF Refuses(known, spec, replace) THEN ends(known, "refused")
     ELSE IF IsCurrent(known, spec) THEN ends(known, "noop")
     ELSE IF ~Stageable(known, spec) THEN ends(known, "refused")
     ELSE IF Materializes(known, spec) THEN ends(Materialize(known, spec), "ok")
     ELSE ends(Unmaterialize(known, spec), "failed")

Retires(name) == Knows(control, name) /\ Call("retire", name, Retire(control, name), "ok")

-----------------------------------------------------------------------------
(* Reconciliation and runs *)

\* The plan is computed from the desired state of this moment.
Plan(who) ==
  /\ building = NoPlan
  /\ building' = [by |-> who, composed |-> Composed, landed |-> FALSE,
                  read |-> [id \in DOMAIN control.desired.entries |-> {Found(control, id)}]]

ReconcileBegin ==
  /\ calls < MaxCalls
  /\ calls' = calls + 1
  /\ Plan(Operator)
  /\ UNCHANGED <<control, published, runs, last, contents, overtaken>>

\* A run that finds changes pending reconciles first.
RunReconciles(r, name) ==
  /\ runs[r].pc = "idle"
  /\ control.desired.dirty
  /\ Plan(r)
  /\ runs' = [runs EXCEPT ![r] = [pc |-> "waiting", agent |-> name]]
  /\ UNCHANGED <<control, published, last, calls, contents, overtaken>>

\* The run selects runtime and revision, leases the generation and pins its
\* revision to it, without suspending: refused when there is no such runtime,
\* the agent is retired, or the generation lacks the revision's scope.
Started(c, name, generation, raced) ==
  LET pinned == Pin(c, name, generation.scopes)
  IN IF \/ IsRefusedAsRetired(c, name)
        \/ RuntimeFor(c, name) \notin Runtimes
        \/ pinned # NoSpec /\ pinned.scope \notin DOMAIN generation.scopes
     THEN [pc |-> "refused"]
     ELSE [pc |-> "running", agent |-> name, selected |-> Selected(c, name), spec |-> pinned,
           runtime |-> RuntimeFor(c, name), scopes |-> generation.scopes,
           raced |-> raced]

RunStarts(r, name) ==
  /\ runs[r].pc = "idle"
  /\ ~control.desired.dirty
  /\ runs' = [runs EXCEPT ![r] = Started(control, name, published, overtaken)]
  /\ UNCHANGED <<control, building, published, last, calls, contents, overtaken>>

\* What the mounting made of a plan: each planned entry as it was when its turn
\* came, at the plan or after some later call, without those gone by then; the
\* plan's scopes; the preferences of the moment of publication.
Mounted(plan) ==
  LET read == plan.read
      picks == {f \in [DOMAIN read -> UNION Range(read)] : \A id \in DOMAIN read : f[id] \in read[id]}
  IN {[scopes |-> plan.composed.scopes,
       entries |-> Drop(f, {id \in DOMAIN f : f[id] = Gone}),
       prefs |-> EffectivePreferences(control)] : f \in picks}

\* The publication: the composition that was mounted becomes current and the
\* pending flag is cleared, whatever happened since the plan.
ReconcileEnd ==
  /\ building # NoPlan
  /\ published' \in Mounted(building)
  /\ contents' = contents \cup {<<id, published'.entries[id]>> : id \in DOMAIN published'.entries}
  /\ control' = [control EXCEPT !.desired.dirty = FALSE]
  /\ building' = NoPlan
  /\ runs' = IF building.by = Operator THEN runs
             ELSE [runs EXCEPT ![building.by] =
                     Started(control, @.agent, published', building.landed)]
  /\ overtaken' = building.landed
  /\ UNCHANGED <<last, calls>>

\* A plan that cannot be resolved or mounted publishes nothing.
ReconcileFails ==
  /\ building # NoPlan
  /\ building' = NoPlan
  /\ runs' = IF building.by = Operator THEN runs
             ELSE [runs EXCEPT ![building.by] = [pc |-> "refused"]]
  /\ UNCHANGED <<control, published, last, calls, contents, overtaken>>

RunEnds(r) ==
  /\ runs[r].pc \in {"running", "refused"}
  /\ runs' = [runs EXCEPT ![r] = Idle]
  /\ UNCHANGED <<control, building, published, last, calls, contents, overtaken>>

Next ==
  \/ \E e \in UserEntries : Installs(e) \/ Uninstalls(e)
  \/ \E path \in UserScopes : Declares(path) \/ Removes(path)
  \/ \E document \in Documents : Applies(document)
  \/ \E cap \in Provisions : Provides(cap) \/ Withdraws(cap)
  \/ \E cap \in Provisions, e \in UserEntries : Prefers(cap, e)
  \/ \E spec \in Specs, replace \in BOOLEAN : Publishes(spec, replace)
  \/ \E name \in Agents : Retires(name)
  \/ \E r \in Runs, name \in Agents : RunReconciles(r, name) \/ RunStarts(r, name)
  \/ ReconcileBegin \/ ReconcileEnd \/ ReconcileFails
  \/ \E r \in Runs : RunEnds(r)

Spec == Init /\ [][Next]_vars
-----------------------------------------------------------------------------
(* Properties *)

d == control.desired

\* Type invariant: every scope but the root hangs under a scope, entries carry
\* the counter of their id, an active revision was published, a retired agent
\* has none, and what the agents own was theirs.
TypeOK ==
  /\ Root \in DOMAIN d.scopes
  /\ \A p \in DOMAIN d.scopes : Lineage(p) \subseteq DOMAIN d.scopes
  /\ \A id \in DOMAIN d.entries : d.entries[id].revision = d.revisions[id]
  /\ \A n \in DOMAIN control.active : control.active[n] \in DOMAIN control.history[n]
  /\ control.retired \cap DOMAIN control.active = {}
  /\ last.result \in {"ok", "noop", "refused", "failed"}
  /\ calls \in 0..MaxCalls

\* Every desired entry lives in a scope of the tree: the resolver refuses the
\* whole composition otherwise, and no reconciliation could ever succeed.
EntriesHaveScopes == \A id \in DOMAIN d.entries : HasScope(d, d.entries[id].scope)

\* A revision names one content for ever: an entry that was mounted is never
\* desired again with other content under the same id and revision, whatever
\* was uninstalled, replaced, rolled back or reinstalled since.  Mounted
\* instances are reused by revision.
RevisionNamesContent ==
  \A seen \in contents :
    seen[1] \in DOMAIN d.entries /\ d.entries[seen[1]].revision = seen[2].revision
      => d.entries[seen[1]] = seen[2]

\* No change is forgotten: with nothing pending and no reconciliation under
\* way, the current generation is the desired composition, unless a call landed
\* while that generation was being built.
NothingForgotten ==
  ~d.dirty /\ building = NoPlan /\ ~overtaken => published = Composed

\* A call that fails or is refused restores what it found: entries, revision
\* counters, preferences, configuration, provisions, the active agents, and
\* every scope there was with its owner; it can only leave new, bare scopes.
FailureRestores ==
  [][last'.result \in {"failed", "refused"} /\ control' # control =>
       /\ d'.entries = d.entries
       /\ d'.revisions = d.revisions
       /\ \A p \in DOMAIN d.scopes : p \in DOMAIN d'.scopes /\ d'.scopes[p] = d.scopes[p]
       /\ \A p \in DOMAIN d'.scopes \ DOMAIN d.scopes : d'.scopes[p] = Bare
       /\ \A f \in {"configPrefs", "programPrefs", "config", "provisions", "active",
                    "retired"} : control'[f] = control[f]
       /\ control'.owned \cap DOMAIN d.scopes = control.owned \cap DOMAIN d.scopes]_vars

\* No contribution outlives its revision: an entry under an agent's id belongs
\* to the agent's active revision, so what the next generation holds of a
\* retired agent, or of a replaced revision, is nothing.
NoOrphanContribution ==
  \A n \in Agents : \A id \in DOMAIN d.entries :
    (id[1] = "agent" /\ id[2] = n) =>
      HasActive(control, n) /\ id \in ActiveOf(control, n).entries

\* The desired state that configurations, agents and direct calls share stays one a
\* reconciliation can use: nothing dangles, nothing is reused in another's name,
\* nothing pending is overlooked.
DesiredStateSound ==
  /\ TypeOK
  /\ EntriesHaveScopes
  /\ RevisionNamesContent
  /\ NothingForgotten
  /\ NoOrphanContribution

Applied(document) == last' = [call |-> "apply", of |-> document, result |-> "ok"]
NamesItsManifests(config) ==
  \A id \in DOMAIN config.entries : Catalog[config.entries[id].plugin] = config.entries[id].plugin
\* An applied configuration is exact, whatever was installed before it: the
\* desired entries are its enabled ones, as configured, and applying it again
\* would change nothing, provided each catalog name is the name its implementation declares.
ConfigurationConverges ==
  [][\A document \in Documents :
       LET config == ParseConfig(document)
           enabled == {i \in DOMAIN document.plugins : document.plugins[i].enabled}
       IN Applied(document) /\ last' # last /\ NamesItsManifests(config) =>
            /\ Changes(config, d') = {}
            /\ DOMAIN d'.entries = {document.plugins[i].id : i \in enabled}
            /\ \A i \in enabled :
                 LET entry == d'.entries[document.plugins[i].id]
                 IN /\ entry.plugin = document.plugins[i].plugin
                    /\ entry.config = document.plugins[i].config]_vars

\* The paths an agent's operations may touch: its scopes, old and new.
Reach(n) == {s.scope : s \in {t \in Specs : t.name = n}}

ActsOn(n) ==
  /\ last' # last
  /\ \/ last'.call = "retire" /\ last'.of = n
     \/ last'.call = "publish" /\ last'.of.name = n
\* Publishing or retiring an agent leaves alone every scope outside the paths
\* its own specs name, and every entry in those scopes: other agents' and the
\* application's.
OnlyItsOwn ==
  [][\A n \in Agents : ActsOn(n) =>
       LET mine(p) == \E q \in Reach(n) : IsWithin(p, q)
       IN /\ \A p \in DOMAIN d.scopes :
               mine(p) \/ (p \in DOMAIN d'.scopes /\ d'.scopes[p] = d.scopes[p])
          /\ \A id \in DOMAIN d.entries :
               mine(d.entries[id].scope)
                 \/ (id \in DOMAIN d'.entries /\ d'.entries[id] = d.entries[id])]_vars

\* What the desired state holds of a spec that is in place: its scope, named
\* for the revision, and each of its contributions in that scope.
InPlaceIn(desired, s) ==
  /\ HasScope(desired, s.scope)
  /\ desired.scopes[s.scope] = [terms |-> s.terms, agent |-> s.name, revision |-> s.revision]
  /\ \A id \in EntriesOf(s) :
       HasEntry(desired, id) /\ desired.entries[id].scope = s.scope

Installed(s) ==
  last' # last /\ last' = [call |-> "publish", of |-> s, result |-> "ok"]

\* A move whose withdrawal of the old revision reaches into the new one: the old
\* scope is gone or no longer the agents', so that its entries are uninstalled by
\* id, or the new scope lies within the old one.
MovesOverItself(s) ==
  LET old == ActiveOf(control, s.name).spec.scope
  IN Moves(control, s) /\ (~HasScope(d, old) \/ old \notin control.owned \/ IsWithin(s.scope, old))

\* A revision that installs successfully is in the desired state entirely,
\* whatever the agent's previous revision was and whatever became of it, unless
\* it moves over itself.
InstallMaterializes ==
  [][\A s \in Specs : Installed(s) /\ ~MovesOverItself(s) => InPlaceIn(d', s)]_vars

\* Publishing and retiring agent revisions changes the agent's own part of the
\* composition, all of it and no other.
AgentsKeepToTheirOwn ==
  /\ OnlyItsOwn
  /\ InstallMaterializes

\* The generation holds another agent's revision in the scope of the revision
\* that the run selected: _pin_revision takes that revision's name for one of
\* the run's own agent.
TakenOver(run) ==
  /\ run.selected.scope \in DOMAIN run.scopes
  /\ run.scopes[run.selected.scope].agent \notin {NoAgent, run.agent}

\* The generation wins: a run is attributed to the revision that the generation
\* it leased materialized, even when another was published meanwhile.
GenerationWins ==
  \A r \in Runs :
    runs[r].pc = "running" /\ runs[r].spec # NoSpec =>
      /\ runs[r].spec.scope \in DOMAIN runs[r].scopes
      /\ runs[r].scopes[runs[r].spec.scope].agent = runs[r].agent =>
           \/ runs[r].scopes[runs[r].spec.scope].revision = runs[r].spec.revision
           \/ TakenOver(runs[r])

\* A run executes the runtime its revision references, unless another revision
\* was published while the run's reconciliation was under way: the runtime is
\* then the later revision's.
RuntimeOfRevision ==
  \A r \in Runs :
    runs[r].pc = "running" /\ runs[r].spec # NoSpec =>
      runs[r].runtime = runs[r].spec.runtime \/ runs[r].raced \/ TakenOver(runs[r])

\* The revision a run reports is the one of its generation, and its runtime is that
\* revision's.
RunsKeepTheirRevision ==
  /\ GenerationWins
  /\ RuntimeOfRevision
=============================================================================
