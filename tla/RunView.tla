------------------------------ MODULE RunView ------------------------------
(***************************************************************************)
(* What a run sees: the generation it leases fixes which instances it may  *)
(* use; its tools, hooks, capabilities and system services are selected    *)
(* from the registries by owner (harness.py run_environment), narrowed to  *)
(* its composition scope.  The run then passes the hook chain of           *)
(* before_agent_run, takes a compiled graph from the cache or builds one   *)
(* (langgraph/), and calls tools by name through the tool boundary.        *)
(***************************************************************************)
EXTENDS Registries, GraphCache

CONSTANTS
  Place,          \* instance -> the composition scope its entry lives in
  Lineage,        \* composition scope -> itself and its ancestors
  ToolView,       \* composition scope -> the tool names its view names
  CapView,        \* composition scope -> the capabilities its view names
  System,         \* a system capability, as POLICY and SECRETS are
  BuildCaps,      \* the capabilities an agent definition is built against
  Runs,
  MaxEntries      \* the capacity of the graph cache

\* The case, setting, says besides which instances may be composed (compositions),
\* with which preferences, in which scopes runs execute (callers), which runs
\* there are, and how many generations are published.
VARIABLES generations,  \* the published generations, the last one current
          runs,         \* run -> its record
          cache,        \* the compiled graphs
          used,         \* observation: every key asked for and not invalidated since, by last use
          late          \* observation: registrations made after a generation had their owner

viewVars == <<generations, runs, cache, used, late>>
vars == <<registryVars, viewVars>>

Everywhere == "everywhere"
NoOne == "no one"
Idle == [pc |-> "idle"]
Scopes == DOMAIN Lineage

ASSUME ViewAssumption ==
  /\ Everywhere \notin Scopes /\ NoOne \notin Instances /\ MaxEntries \in Nat
  /\ \A case \in Settings : /\ case.compositions \subseteq SUBSET Instances
                            /\ case.callers \subseteq Scopes \cup {Everywhere}
                            /\ case.runs \subseteq Runs
Current == generations[Len(generations)]
Working == {r \in Runs : runs[r].pc # "idle"}
LiveGenerations ==
  {generations[runs[r].generation] : r \in Working}
    \cup IF generations = <<>> THEN {} ELSE {Current}
Reachable == UNION {g.instances : g \in LiveGenerations}

Init ==
  /\ RegistriesInit
  /\ generations = <<>>
  /\ runs = [r \in Runs |-> Idle]
  /\ cache = <<>>
  /\ used = <<>>
  /\ late = {}

-----------------------------------------------------------------------------
(* The registries, in the hands of the plugins *)

Mounts(i) == Mount(i) /\ UNCHANGED viewVars
Registers(i) ==
  /\ Register(i)
  /\ late' = IF i \in Reachable THEN late \cup {Last(made')} ELSE late
  /\ UNCHANGED <<generations, runs, cache, used>>
Unregisters(i, key) == UnregisterOwn(i, key) /\ UNCHANGED viewVars
UnregistersNewest(key) == UnregisterNewest(key) /\ UNCHANGED viewVars
UnregistersHook(reg) == UnregisterHook(reg) /\ UNCHANGED viewVars
Rewires(reg, p) == Rewire(reg, p) /\ UNCHANGED viewVars

\* Only what no live generation reaches is disposed.
Disposes(i) == i \notin Reachable /\ CloseBegin(i) /\ UNCHANGED viewVars
Unwinds(i) == CloseStep(i) /\ UNCHANGED viewVars

-----------------------------------------------------------------------------
(* Publication *)

Exposed(view, s, what) == \A a \in Lineage[s] : what \in view[a]

\* build_scope_tree: by scope, the tool names and the providers its lineage
\* declares and every view along it names.
TreeTools(S) ==
  [s \in Scopes |-> {reg.item.name : reg \in
     {t \in ToolsOf(S) : Place[t.owner] \in Lineage[s] /\ Exposed(ToolView, s, t.item.name)}}]
TreeProviders(S) ==
  [s \in Scopes |-> {<<reg.item.cap, reg.owner>> : reg \in
     {p \in CapsOf(S) : Place[p.owner] \in Lineage[s] /\ Exposed(CapView, s, p.item.cap)}}]

\* _validate_publication: what every manifest promised is registered, and no
\* two tools have one name.
Kept(S) ==
  \A i \in S : \A p \in plugin(i).promises :
    \E reg \in CapsOf({i}) : <<reg.item.cap, reg.item.version>> = p
Distinct(S) == \A t, u \in ToolsOf(S) : t.item.name = u.item.name => t = u

\* The scan for duplicate names snapshots one instance's tools after another
\* and stops at the first instance that brings a duplicate.
Scanned(S) ==
  IF Distinct(S) THEN {S}
  ELSE {T \in SUBSET S : ~Distinct(T) /\ \E i \in T : Distinct(T \ {i})}

Composition(S, prefs) ==
  [instances |-> S, caps |-> CapsOf(S), tools |-> TreeTools(S),
   visible |-> TreeProviders(S), prefs |-> prefs]

\* A candidate over mounted instances is validated and published, or refused.
\* An unchanged composition is not published again.
Publishes(S, prefs) ==
  /\ \A i \in S : scope[i] = "open"
  /\ Len(generations) < setting.generations
  /\ Kept(S)
  /\ \E T \in Scanned(S) : frozen' = Captured(ToolsOf(T))
  /\ generations' = IF Distinct(S) /\ (generations = <<>> \/ Current # Composition(S, prefs))
                    THEN Append(generations, Composition(S, prefs)) ELSE generations
  /\ UNCHANGED <<storesVars, runs, cache, used, late>>

-----------------------------------------------------------------------------
(* Views of a generation *)

\* tool_snapshot: the live tools of the generation's instances, narrowed by name.
ToolsSeen(g, s) ==
  {t \in ToolsOf(g.instances) : s = Everywhere \/ t.item.name \in g.tools[s]}

\* scoped_capabilities: from the snapshot taken at publication.
CapsSeen(g, s) ==
  {p \in g.caps : s = Everywhere \/ <<p.item.cap, p.owner>> \in g.visible[s]}

\* Hooks by priority and then in registration order: each comes after those
\* that go before it.
GoesBefore(a, b) == \/ a.item.priority < b.item.priority
                    \/ a.item.priority = b.item.priority /\ MadeAt(a) < MadeAt(b)
Precursors(hooks, h) == {a \in hooks : GoesBefore(a, h)}
InOrder(hooks) ==
  [n \in 1..Cardinality(hooks) |->
     CHOOSE h \in hooks : Cardinality(Precursors(hooks, h)) = n - 1]

\* Mutant of HooksSeen: the live registry's handlers.
HooksSeenLive(g) == InOrder(OfKind("hook"))

\* hook_snapshot: all hooks of the generation's instances; a composition scope
\* does not narrow them.
HooksSeen(g) == InOrder(HooksOf(g.instances))

Default == [from |-> "default"]
Denied == [from |-> "denied"]
Provided(reg) == [from |-> "provider", reg |-> reg]

\* _preferred_provider: the scope's preference before the global one.
Preferred(g, s) ==
  IF <<s, System>> \in DOMAIN g.prefs THEN g.prefs[<<s, System>>]
  ELSE IF <<"any", System>> \in DOMAIN g.prefs THEN g.prefs[<<"any", System>>] ELSE NoOne

\* Mutant of SystemService: a scope that sees no provider gets the default.
SystemServiceOpen(g, s) ==
  LET registered == {p \in CapsSeen(g, s) : p.item.cap = System}
      eligible == {p \in registered : p.item.version = 1 /\ p.item.conforms}
  IN IF registered = {} THEN {Default}
     ELSE IF Cardinality(eligible) = 1 THEN {Provided(p) : p \in eligible} ELSE {Denied}

\* _system_requirement: the harness default only when the generation has no
\* provider at all; otherwise one eligible visible provider, or the preferred
\* one of several, or a stand-in that denies.
SystemService(g, s) ==
  LET eligible == {p \in CapsSeen(g, s) : p.item.cap = System /\ p.item.version = 1
                                            /\ p.item.conforms}
      preferred == {p \in eligible : p.owner = Preferred(g, s)}
  IN CASE \A p \in g.caps : p.item.cap # System -> {Default}
       [] Cardinality(eligible) = 1 -> {Provided(p) : p \in eligible}
       [] Cardinality(eligible) > 1 /\ preferred # {} -> {Provided(p) : p \in preferred}
       [] OTHER -> {Denied}

-----------------------------------------------------------------------------
(* A run *)

\* The runtime is the newest registration of the name; the generation is the
\* current one; the environment follows from the two, in one step.
Starts(r, runtime, s) ==
  LET key == <<"runtime", runtime>>
      g == Current
      seen == ToolsSeen(g, s)
  IN /\ runs[r].pc = "idle"
     /\ generations # <<>>
     /\ Indexed(names, key) # <<>>
     /\ frozen' = Captured(ToolsOf(g.instances))
     \* the snapshot's entry for a name is its first in registration-id order,
     \* which is random
     /\ \E pick \in [{t.item.name : t \in seen} -> seen], service \in SystemService(g, s) :
          /\ \A n \in DOMAIN pick : pick[n].item.name = n
          /\ runs' = [runs EXCEPT ![r] =
               [pc |-> "hooks", generation |-> Len(generations), scope |-> s,
                runtime |-> Last(names[key]), tools |-> seen, pick |-> pick,
                policies |-> [t \in seen |-> frozen'[t]], caps |-> CapsSeen(g, s),
                service |-> service, chain |-> HooksSeen(g), heard |-> <<>>,
                payload |-> <<>>, graph |-> <<>>, called |-> {}]]
     /\ UNCHANGED <<storesVars, generations, cache, used, late>>

\* What a handler may do: return nothing, a mapping, another true value, raise.
Outcomes == {"nothing", "mapping", "other", "raises"}
HandlerFails(hook, outcome) ==
  outcome = "raises" \/ (hook.item.mode = "transform" /\ outcome = "other")
Stops(hook, outcome) ==
  \/ HandlerFails(hook, outcome) /\ hook.item.errors = "raise"
  \/ hook.item.mode = "bail" /\ outcome \in {"mapping", "other"}

\* Mutant of Handles: an observer's mapping replaces the payload.
HandlesAnyMapping(r, outcome) ==
  LET hook == Head(runs[r].chain)
  IN /\ runs[r].pc = "hooks" /\ runs[r].chain # <<>>
     /\ runs' = [runs EXCEPT
          ![r].chain = Tail(@),
          ![r].heard = Append(@, <<hook, outcome>>),
          ![r].payload = IF outcome = "mapping" THEN <<hook>> ELSE @,
          ![r].pc = IF Stops(hook, outcome) THEN "refused" ELSE @]
     /\ UNCHANGED <<registryVars, generations, cache, used, late>>

\* The next handler of before_agent_run ends: a recorded failure is passed
\* over, a raised one or a bail ends the run.
Handles(r, outcome) ==
  LET hook == Head(runs[r].chain)
  IN /\ runs[r].pc = "hooks" /\ runs[r].chain # <<>>
     /\ runs' = [runs EXCEPT
          ![r].chain = Tail(@),
          ![r].heard = Append(@, <<hook, outcome>>),
          ![r].payload = IF hook.item.mode = "transform" /\ outcome = "mapping" THEN <<hook>> ELSE @,
          ![r].pc = IF Stops(hook, outcome) THEN "refused" ELSE @]
     /\ UNCHANGED <<registryVars, generations, cache, used, late>>

\* The contracts a graph is compiled against and the versions it is built with.
SchemaHash(tools) == {<<t.item.name, t.item.contract>> : t \in tools}
Contracts(run) == SchemaHash(run.tools)
Versions(run) ==
  [c \in BuildCaps |->
     [v \in {p.item.version : p \in {q \in run.caps : q.item.cap = c}} |->
        Cardinality({q \in run.caps : q.item.cap = c /\ q.item.version = v})]]

\* Mutant of GraphKey: the build-time capability versions are not part of it.
GraphKeyWithoutVersions(run) ==
  [agent |-> run.runtime.item.name, contracts |-> Contracts(run), versions |-> <<>>]

GraphKey(run) ==
  [agent |-> run.runtime.item.name, contracts |-> Contracts(run), versions |-> Versions(run)]

AskedNow(key) == Append(Filtered(used, Range(used) \ {key}), key)
Forgotten(agent) == Filtered(used, {key \in Range(used) : key.agent # agent})

\* graph: a hit, or a build that is put into the cache; nothing suspends.
Compiles(r) ==
  LET key == GraphKey(runs[r])
      built == [contracts |-> Contracts(runs[r]), versions |-> Versions(runs[r]),
                tools |-> runs[r].pick]
      hit == key \in KeysOf(cache)
  IN /\ runs[r].pc = "hooks" /\ runs[r].chain = <<>>
     /\ cache' = IF hit THEN Touched(cache, key) ELSE Put(cache, key, built, MaxEntries)
     /\ runs' = [runs EXCEPT ![r].pc = "running",
                             ![r].graph = IF hit THEN Lookup(cache, key).graph ELSE built]
     /\ used' = AskedNow(key)
     /\ UNCHANGED <<registryVars, generations, late>>

\* A tool call of the graph: the boundary looks the name up in the run's own
\* snapshot, whatever tools the graph was compiled with.
Calls(r, name) ==
  /\ runs[r].pc = "running"
  /\ name \in DOMAIN runs[r].graph.tools
  /\ name \in DOMAIN runs[r].pick
  /\ runs' = [runs EXCEPT ![r].called = @ \cup {runs[r].pick[name]}]
  /\ UNCHANGED <<registryVars, generations, cache, used, late>>

Ends(r) ==
  /\ runs[r].pc \in {"running", "refused"}
  /\ runs' = [runs EXCEPT ![r] = Idle]
  /\ UNCHANGED <<registryVars, generations, cache, used, late>>

Invalidates(agent) ==
  /\ cache' = Invalidated(cache, agent)
  /\ cache' # cache
  /\ used' = Forgotten(agent)
  /\ UNCHANGED <<registryVars, generations, runs, late>>

IndexKeys == {IndexKey(reg) : reg \in {q \in Range(made) : IsNamed(q)}}
Next ==
  \/ \E i \in Instances : Mounts(i) \/ Disposes(i) \/ Unwinds(i)
  \/ \E i \in Instances : Registers(i)
  \/ \E i \in Instances, key \in IndexKeys : Unregisters(i, key)
  \/ \E key \in IndexKeys : UnregistersNewest(key)
  \/ \E reg \in live : UnregistersHook(reg) \/ \E p \in Policies : Rewires(reg, p)
  \/ \E S \in setting.compositions, prefs \in setting.preferences : Publishes(S, prefs)
  \/ \E r \in setting.runs, s \in setting.callers, key \in DOMAIN names :
       key[1] = "runtime" /\ Starts(r, key[2], s)
  \/ \E r \in setting.runs, outcome \in Outcomes : Handles(r, outcome)
  \/ \E r \in setting.runs : Compiles(r) \/ Ends(r)
  \/ \E r \in Working : \E t \in runs[r].tools : Calls(r, t.item.name)
  \/ \E key \in DOMAIN names : key[1] = "runtime" /\ Invalidates(key[2])

Spec == Init /\ [][Next]_vars
-----------------------------------------------------------------------------
(* Properties *)

G(r) == generations[runs[r].generation]
Seen(r) == runs[r].tools \cup runs[r].caps \cup Range(runs[r].chain)
             \cup {h[1] : h \in Range(runs[r].heard)}

\* Type invariant, with the exactness of the name indexes: a name's entry lists
\* its live registrations in the order they were made, and an unused name has none.
TypeOK ==
  /\ live \subseteq Range(made)
  /\ \A key \in DOMAIN names : names[key] # <<>>
  /\ \A key \in DOMAIN names \cup IndexKeys :
       Indexed(names, key) =
         Filtered(made, {reg \in live : IsNamed(reg) /\ IndexKey(reg) = key})
  /\ DOMAIN frozen \subseteq DOMAIN policy
  /\ Len(cache) <= MaxEntries

\* A registration lives from its making until its owner withdraws it or the
\* unwind of its owner's scope reaches it: the cleanup of an old instance never
\* takes the same-named registration of its successor, and none is left behind.
LivesWithItsOwner ==
  live = {reg \in Range(made) : reg \notin withdrawn /\ reg \in Range(effects[reg.owner])}

\* The registries of tools, capabilities, hooks and runtimes hold what their owners
\* registered and no more, and find it by name.
RegistriesConsistent ==
  /\ TypeOK
  /\ LivesWithItsOwner

\* A run is served by its generation alone: its tools, hooks and capabilities
\* belong to instances of the generation it leased, and those are open as long
\* as it runs.
ServedByItsGeneration ==
  \A r \in Working : \A reg \in Seen(r) :
    reg.owner \in G(r).instances /\ scope[reg.owner] = "open"

\* In a run one name means one tool, unless a plugin registers another after
\* the publication that checked the names.
OneToolPerName ==
  \A r \in Working : \A t, u \in runs[r].tools \ late : t.item.name = u.item.name => t = u

\* What a run sees in a composition scope was declared in that scope or above it
\* and is named by every view in between: no sibling's tool or capability, except
\* a tool registered after the publication under a name the scope can see.
WithinTheScope ==
  \A r \in Working : runs[r].scope # Everywhere =>
    /\ \A t \in runs[r].tools \ late :
         Place[t.owner] \in Lineage[runs[r].scope]
           /\ Exposed(ToolView, runs[r].scope, t.item.name)
    /\ \A p \in runs[r].caps :
         Place[p.owner] \in Lineage[runs[r].scope]
           /\ Exposed(CapView, runs[r].scope, p.item.cap)

\* Runs agree on a tool's policy: whatever becomes of the live registration, any
\* two runs that see it, in whatever generations, see the same published policy.
OnePublishedPolicy ==
  \A r, q \in Working : \A t \in runs[r].tools \cap runs[q].tools :
    runs[r].policies[t] = runs[q].policies[t]

\* System services fail closed: the harness default serves a run only when its
\* whole generation provides none; a provider that serves it conforms, is
\* visible to its scope, and has no visible conforming rival unless the
\* preferences published with the generation chose it.
FailsClosed ==
  \A r \in Working :
    LET service == runs[r].service
        rivals == {p \in runs[r].caps : p.item.cap = System /\ p.item.conforms /\ p.item.version = 1}
    IN /\ service = Default => \A p \in G(r).caps : p.item.cap # System
       /\ service.from = "provider" =>
            /\ service.reg \in rivals
            /\ rivals = {service.reg} \/ \E key \in DOMAIN G(r).prefs :
                                         G(r).prefs[key] = service.reg.owner

\* Narrowing never widens: what a run's scope does not show, neither its tools nor
\* its system services fall back to.
NarrowedFailClosed ==
  /\ WithinTheScope
  /\ FailsClosed

\* A promise holds in every run: what an instance's manifest provides is in the
\* snapshot of each generation it belongs to, at the promised version.
PromisesKept ==
  \A n \in DOMAIN generations : \A i \in generations[n].instances :
    \A p \in plugin(i).promises :
      \E reg \in generations[n].caps :
        reg.owner = i /\ <<reg.item.cap, reg.item.version>> = p

Refusal(hook, outcome) ==
  \/ hook.item.mode = "bail" /\ outcome \notin {"nothing", "raises"}
  \/ hook.item.errors = "raise" /\ \/ outcome = "raises"
                                   \/ hook.item.mode = "transform" /\ outcome = "other"

\* The hook chain: handlers run by priority, then by registration, each at most
\* once; a run goes on only past a handler that did not refuse it; only what a
\* transform returned replaces the payload, and the last one does.
HooksInOrder ==
  \A r \in Working :
    LET heard == runs[r].heard
        chain == [n \in DOMAIN heard |-> heard[n][1]] \o runs[r].chain
        given == {n \in DOMAIN heard :
                    heard[n][1].item.mode = "transform" /\ heard[n][2] = "mapping"}
    IN /\ \A m, n \in DOMAIN chain : m < n => GoesBefore(chain[m], chain[n])
       /\ \A n \in DOMAIN heard :
            Refusal(heard[n][1], heard[n][2]) <=> n = Len(heard) /\ runs[r].pc = "refused"
       /\ runs[r].payload = IF given = {} THEN <<>> ELSE <<heard[Max(given)][1]>>

\* The cache is least recently used: each key it let go was last asked for
\* before every key it still has, in whatever order runs, evictions and
\* invalidations came.
EvictsLeastRecent ==
  LET at(key) == CHOOSE n \in DOMAIN used : used[n] = key
  IN /\ KeysOf(cache) \subseteq Range(used)
     /\ \A m, n \in DOMAIN cache : m < n => at(cache[m].key) < at(cache[n].key)
     /\ \A key \in Range(used) \ KeysOf(cache), n \in DOMAIN cache :
          at(key) < at(cache[n].key)

\* A cached graph is never stale: a run executes a graph built for exactly the
\* tool contracts it sees and the versions of its build-time capabilities,
\* whichever run of whichever generation built it.
GraphFitsTheRun ==
  \A r \in Working : runs[r].pc = "running" =>
    /\ runs[r].graph.contracts = Contracts(runs[r])
    /\ runs[r].graph.versions = Versions(runs[r])

\* The graph cache serves no run a graph of another's shape and lets go of the
\* least recently used one.
GraphsFit ==
  /\ EvictsLeastRecent
  /\ GraphFitsTheRun

\* A tool called from a cached graph is the run's own, not that of the run that
\* compiled the graph, whose instance may be disposed by now.
CallsItsOwnTools ==
  \A r \in Working : \A t \in runs[r].called :
    t \in runs[r].tools /\ scope[t.owner] = "open"

\* A run works with what its generation published: instances, names, promises and
\* policies, also through a graph another run compiled.
ServedAsPublished ==
  /\ ServedByItsGeneration
  /\ OneToolPerName
  /\ PromisesKept
  /\ OnePublishedPolicy
  /\ CallsItsOwnTools
=============================================================================
