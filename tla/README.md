# A TLA+ verification of Chassis

Chassis (`src/src/chassis`) is a runtime composition layer for agents: plugins
are installed as *desired state*, a reconciliation turns desired state into an
immutable *runtime generation*, and every run is pinned to the generation it
acquired while later ones are published, drained and retired around it. It is a
single-threaded asyncio program: its difficulty lies in what other tasks do
while one is suspended, in plugin code that fails half-way, in cancellation, in
one desired state that four kinds of callers write, and in the many places that
work out the same thing (who provides what) each on its own.

This directory holds TLA+ modules for that machinery, TLC configurations that
check them on small instances, and TLAPS proofs, for every value of the
constants, about all of it: the generation manager, the harness, the scopes, the resolver,
the control plane, what runs are served, planning and its reports, the budgets,
the tool executor and replay.

## 1. Inventory

| Component (source) | State | Operations | Interacts with | What makes it correct |
|---|---|---|---|---|
| Generation manager (`core/generations.py`, `core/generation.py`) | current pointer, draining dictionary, bounded history, per-generation lease accounting and idle event | build, publish, retire, discard, acquire and release a lease, drain, begin_shutdown | called by the harness; releases wake a suspended drain | a leased generation stays live; counts, index and wake-ups agree; a generation's life has one direction |
| Harness lifecycle (`harness.py`) | lifecycle state, pending flag, composition lock, plan | install, uninstall, start, reconcile, ensure_ready, acquire, stop | drives registry, resolver, generation manager; hooks run in the middle | what a run holds is undisturbed; failed composition leaves nothing behind; stop is terminal and ends |
| Plugin registry and lifecycle (`plugins/registry.py`, `plugins/lifecycle.py`) | entries with revisions, instances per entry, instance states, generation references | install, uninstall, capture and restore, mount, rollback, dispose, forget | scopes; called under the composition lock | no instance a live generation reaches is disposed; a failed one is retried from scratch; a revision names one content |
| Dependency resolver (`plugins/resolver.py`, `capabilities/keys.py`) | none (pure) | resolve | called by reconcile and preview | the plan is closed, the greatest such, in activation order; a scope's providers depend on its lineage alone |
| Composition tree (`composition.py`) | scopes with views, selections, requirements; the published tree | ensure, remove, restore, build_scope_tree | agents and configuration write it; resolver and runs read it | entries have scopes; what is published is what was planned |
| Configuration (`config/`, `harness.py`) | applied configuration, two preference layers, provisions | apply_config, provide, withdraw, prefer_provider, and their undo | the desired state, also of agents | all or nothing; an applied configuration is exact |
| Agents (`agents.py`, `agent_spec.py`) | specifications with revision history, owned scopes, runtimes | install, replace, move, remove, invoke | desired state; acquires generations | installation is transactional; an agent touches its own part only; a run keeps its revision |
| Scope (`core/scope.py`, `tasks/manager.py`) | exit stack, effect records, owned tasks, failures, close task | cleanup, enter contexts, child, create_task, aclose | every plugin instance owns one; children close with their parents | reverse order, nothing held is forgotten, failures surface, close ends |
| Registries: tools, capabilities, hooks, runtimes (`tools/registry.py`, `capabilities/`, `hooks/registry.py`, `agents.py`) | registrations by identity and owner, name index | register, re-register, withdraw, unwind, freeze | instances write them, runs read them by generation | a registration lives as long as its owner; an unwind never takes a successor's |
| Run environment and hooks (`harness.py`, `hooks/dispatcher.py`) | the run's frozen views | run_environment, dispatch | registries, generations, composition tree | a run is served by its generation, scope and publication; narrowing fails closed |
| LangGraph integration (`langgraph/`) | LRU cache of compiled graphs | key, get, put, invalidate, compile | runs, tool boundary | a graph serves runs of its shape only, and calls the run's own tools |
| Planning and identity (`core/identity.py`, `harness.py` preview) | previews taken | identity, preview, impact | resolver, registry | a preview comes true; only what is affected is rebuilt, and all of it |
| Diagnostics, persistence (`diagnostics.py`, `persistence/snapshots.py`) | none; documents of older releases | diff, pressure, digest, to and from a document | generations | all reports tell one story; a stored record is read back whole or refused |
| Budget (`budget/`) | consumption per budget, parent chain, clock | check, consume, record, child, remaining | charged by tools and models | no budget of the chain exceeds its limit; refusals charge nothing |
| Tool executor (`tools/executor.py`) | in-flight calls | execute | hooks, policy, approval, budget, replay | fixed order of gates; a refused call never runs |
| Replay (`replay/`) | recorded log, per-key cursors | record, look up, verify | tool executor, models | a replayed call gets the answer of its recorded counterpart |
| Policy, permissions, secrets; telemetry; testing and evaluation helpers | none, or output only | – | – | decisions, output and test support: not modelled on their own |

The hard behaviours are listed, each with its line, in `PROJECT.json` under
`hazards`: desired state, acquisitions and releases interleave with every await
of a reconciliation; setups fail in the middle of a composition; a
reconciliation, a run or a close is cancelled at an await; the last release of a
draining generation needs the lock that a shutdown waiting for it may hold;
background tasks and context managers outlast the close of their scope;
providers drop out of a plan in cascades, cycles close through optional edges,
scopes hide what their ancestors show; configurations, agents and direct calls
overwrite one another's entries and scopes and undo half-done work; instances of
one plugin re-register each other's names while runs read them; a cached graph
outlives the instance that compiled it; previews, diffs and digests are worked
out apart from what they describe.

## 2. Modules

| Module | Models |
|---|---|
| `GenerationContract` | Abstract: what the life of a generation promises to whoever holds it. |
| `Generations` | `GenerationManager` with `GenerationAccounting`. |
| `Harness` | `Harness` in motion: lock, reconcile, rollback, reclaim, stop, cancellation; the instances' lives; dependencies fixed per instance. |
| `HarnessProofs` | The theorems about `Harness`. |
| `Scope` | `Scope`: a tree of scopes with effects, tasks and the close protocol. |
| `LifetimeProofs` | The theorems about `Generations` and about `Scope`. |
| `Tarjan` | The iterative search for strongly connected components. |
| `Contracts` | Capability versions, specifiers, the contract generation a requirement pins. |
| `Resolver` (extends both) | `resolve()`: validation, cycles, the pruning passes to the fixpoint, Kahn's order, reasons. |
| `ResolverProofs` | The theorems about `Tarjan`, `Resolver` and `ScopeTree`. |
| `ScopeTree` (extends `Resolver`) | Scope plans, the published tree, what a run's snapshot looks up in it. |
| `Composition` | The desired state: scope tree, entries, revision counters, pending flag, as operators from state to state. |
| `Configuration` (extends `Composition`) | Documents, staging, `apply_config`, provisions and preferences with their undo. |
| `Agents` (extends `Configuration`) | Agent revisions: materialize, replace, move, remove, and the undo of each. |
| `ControlPlane` (extends `Agents`) | All of those as calls that interleave with a reconciliation and with starting runs. |
| `ControlPlaneProofs` | The theorems about `ControlPlane`, and about the operators of the three modules below it. |
| `Registries` | The four live registries, owned by instances that set up, fail, withdraw and unwind. |
| `GraphCache` | The LRU cache of compiled graphs. |
| `RunView` (extends both) | Publication with its frozen views, and runs: environment, narrowing, hook dispatch, graph, tool calls. |
| `RunViewProofs` | The theorems about `RunView`. |
| `Planning` (extends `Configuration`) | Semantic identities and reuse keys, `_materialize`, `preview()`. |
| `Diagnostics` (extends `Planning`) | Structural diff, impact, pressure, digests, stored snapshots and their migration. |
| `PlanningProofs` | The theorems about `Planning` and `Diagnostics`. |
| `Budget` | `BudgetGovernor`: a tree of allocations. |
| `Replay` | `ReplaySession`: the records, the cursors, the capture of live fallbacks. |
| `ToolExecutor`, `ToolExecutorProofs` | `ToolExecutor.execute` and `ReplayChatModel` as concurrent calls; composes `Budget` and `Replay`; the theorems about all three. |
| `Listings`, `FiniteLemmas` | What a comprehension and a sort by id make of a sequence and a set; facts about them, and about finite sets, numbers and orders, that several proofs need. |
| `MC*` | Instances for TLC. |

One abstract specification, each implementation checked and proved:
`GenerationContract`, implemented by `Generations` and by `Harness`. `Resolver` is
checked against a definition of what it should compute (`GreatestClosedSet`), and the
usage of the budgets against a history of the reports that were granted
(`ReportsExact`), not against a second algorithm.

Definitions named *seeded fault* sit next to the definition they corrupt. They
are not part of any specification: each one is a plausible bug (a dropped guard,
a missing await, an order swapped) that the property named with it in
`PROJECT.json` (`mutants`) has been seen to catch.

### From code to actions

*One action is the code between two awaits.* asyncio switches tasks only at
awaits that suspend, so a synchronous method is one action and a coroutine is one
action per stretch between suspension points. A call that refuses its arguments
changes nothing, so a refusal is the negation of a guard, except where a refusal
is itself a step of a caller (`AcquireRefused`, `ReconcileRefused`).

*Generations.* One action per method. `drain()` suspends: `DrainBegin` starts
one wait per generation, `Release` wakes it, `DrainDone` and `DrainTimeout` end
it. `Discard` has the guard of the code; `DiscardCandidate` adds the contract of
its docstring (only candidates that will not be published), which every caller
keeps. `dropped` is an observation variable, needed to state what the history
should contain.

*Harness.* `owner`, `queue` and `phase` are the composition lock, its FIFO of
waiters, and the await at which its owner is suspended; `pc` and `hold` are the
client tasks. `reconcile()` is `Reconcile`, `Resolve`, then for each entry
`Mount`, `SetupOk` or `SetupFail`, `MountedHook`, then `PublishedHooks`, the
disposals and `ReclaimEnd`; errors and cancellation go through the rollback
(`DisposeBegin`, `DisposeEnd`, `RollbackEnd`). `Proceed` is the part of
`_materialize` that does not suspend: it reads the registry's entry *of the
moment*, skips entries uninstalled meanwhile, and reuses unchanged instances.
`Conclude` is the tail: validation, the unchanged-composition test, publication.
Its nondeterministic refusal stands for registrations and tools that a plugin's
setup got wrong. `generation_refs` is a stored field, refreshed only where the
code refreshes it (`Refreshed`), because a stale count is one of the hazards.
A semantic identity is abstracted to the provider instances it was computed
from; `Planning` has the identity in full.

*Scope.* `stack` is the `AsyncExitStack`, `effects` the records, `close` the
progress of the close task. User code (disposers, `__aenter__`, `__aexit__`,
background tasks) ends in a step of its own, with or without an error.
A task's end and its done callback are two steps, as in asyncio. Failures are a
set of what failed; messages are left out. `pushed` and `interrupted` are
observation variables: the order in which things came under a scope, and the
scopes whose close task somebody cancelled.

*Resolver.* The function runs in phases on an input chosen in `Init`:
`_strongly_connected_components` step by step with its explicit stack (`Tarjan`),
one step per pruning pass, one per entry placed by Kahn's algorithm. An
entry id is a number, because the code breaks ties by sorted id. A version is a
number whose quotient by `Step` is its major; a specifier is a set of clauses.
`ScopeTree` adds, as operators on the finished plan, what three other places work
out from it: the scope plans, the tree built at publication, a snapshot's lookup.

*Control plane.* Desired-state calls are synchronous, hence one step each, the
undo of a failed one included: `Composition`, `Configuration` and `Agents` are
operators from a control state to the next, composed in the order of the code,
and a call that fails half-way returns the state that its undo leaves. A
configuration and an agent's contributions go through the same `Transaction`: changes
of one entry each, a restorer captured before each, run in reverse when one fails. A
reconciliation is `Plan` and `Publish` (or a failure) with any call in between.
A run looks its revision up before it acquires its generation and its runtime
after, as `invoke` does. `overtaken` remembers that a call landed during a
reconciliation, the known defect of finding 1.

*Run view.* `Registries` keeps the registrations in order with their owners; an
instance registers its items one by one (other instances in between), may fail,
may withdraw one early, and unwinds one effect per step when it closes.
`Publishes` freezes tools, hooks, capabilities and preferences; `Starts` selects
by owner and narrows by scope; the hook chain, in the order of priority and
registration, is dispatched one await at a time, with every outcome a hook may
have; then a graph is taken from the cache or
compiled, and tools are called through it. `setting` is a case chosen in `Init`:
what the plugins register and which compositions may be published.

*Planning.* The steps of `_materialize` are modelled entry by entry with the
failures of setups; a member records the identity, the reuse key and the bindings
it was mounted with. When all had their turn, the candidate is validated as
`_validate_publication` does (`Validated`: every member registered what it promises,
and every requirement the plan resolved is answered by a member that registers it)
and published (`Publish`), or refused, its mounted instances disposed and the
generation kept (`Rejected`). An instance registers the capabilities its manifest
entry `registers` names, which need not be those it `provides`; tool names, the third
thing that is validated, are in `RunView`. A digest is abstracted to what it is
computed of. `previews` holds the previews taken since desired state last changed, which the publication
is compared with.

*Budget and Replay.* The methods of the governor and of the session are
synchronous, so each is one step. `chain[g]` is an allocation with those that
enclose it; a walk along `_parent` is a quantifier over it. Amounts are natural
numbers: the code refuses negative and fractional counts, and the estimated cost
is counted in units. A record keeps its key, whether the result was a failure,
and (observation) the call that made it; `loaded` says how many came from a file.
Keys stand for `boundary_key`, which covers kind, name and canonical arguments.

*ToolExecutor.* One `pc` per call, with a value for each await: the BEFORE hook,
the authorization (policy engine, decision hooks and approval gate, which all
either let the call pass or refuse it), the tool, the TOOL_ERROR hook, the AFTER
hook. From the end of the authorization to the start of the tool there is no
await, so charge, clock check and look-up are one step with five outcomes:
`OverBudget`, `OutOfTime`, `Mismatch`, `Replayed`, `Invoke`. A timeout of the tool
is a failure like any other (`ToolFails`). Whether a failure is raised or returned
(`raise_on_error`) is chosen where it matters.

Where a model is coarser than the code it only allows more: taking a free lock
and the first step under it are two steps (the code does not suspend there);
`_teardown_order` in `Harness` is any order that puts consumers before providers
(the code picks one); an instance's `dispose` is a begin and an end step,
whatever awaits are in between.

## 3. Runs

| Run | Instance | States | Checks |
|---|---|---|---|
| `generations` | 3 generations, 2 leases each, history of 1 | 183 172 | `TypeOK`, `HeldStaysLive`, `BookkeepingExact`, `ImplementsContract` |
| `harness` | provider and consumer, 2 tasks, 2 changes, waits for the lock cancelled at will | 1 000 881 | `PinnedRunsUndisturbed`, `GenerationsWhole`, `ProvidersOutliveConsumers`, `NothingLeftBehind`, `ImplementsContract` |
| `harness_cancel` | chain of three plugins, 1 task, 1 change, 1 cancellation of the lock's owner at any await | 2 408 399 | `CancellationSafe` |
| `harness_live` | one plugin, 2 tasks, 2 changes, fairness | 50 484 | `EveryCallReturns`, `IdleGenerationsRetire` |
| `scope` | scope and child, 2 resources, 1 task, each close task cancelled at most once, fairness | 198 627 | `ReverseOrder`, `CloseIsHonest`, `CloseTerminates` |
| `resolver` | 3 entries in 1 or 4 scopes, 4 families of inputs | 134 298 | `ComponentsExact`, `PlanClosed`, `GreatestPlan`, `SelectionSound`, `TreeServesThePlan` |
| `control_plane` | 2 agents with 10 specs, 6 documents, 2 hand-installed entries, 2 scopes, 1 provision, 1 run, 3 calls | 238 939 | `DesiredStateSound`, `RunsKeepTheirRevision`, `FailureRestores`, `ConfigurationConverges`, `AgentsKeepToTheirOwn` |
| `run_view` | 3 instances in 2 of 3 scopes, 5 families of cases, up to 2 runs and 2 generations, cache of 2 | 746 940 | `RegistriesConsistent`, `ServedAsPublished`, `NarrowedFailClosed`, `HooksInOrder`, `GraphsFit` |
| `planning` | 3 entries of 6 manifests, 5 configurations, 3 calls, 3 reconciliations | 432 171 | `TypeOK`, `BoundToMembers`, `PreviewMatches`, `RebuildsAsNeeded`, `ReportsAgree` |
| `tools` | 3 nested budgets, 2 calls, a tool key and a model key, recordings of up to 2 | 469 552 | `WithinLimits`, `CallsAccounted`, `RemainingIsGranted`, `ReplayExact`, `ReportsExact` |
| `harness_pending`, `planning_repeat` | see section 4 | | one documented statement each, violated |

A property that the table names once is often a conjunction of named parts; the
parts are stated, with their comments, where they are defined:

* `BookkeepingExact`: `IndexExact`, `LeaseCountExact`, `WakeupsExact`, `HistoryExact`.
* `GenerationsWhole`: `TypeOK`, `BoundsSuffice`, `LiveInstancesActive`, `GenerationsClosed`;
  `NothingLeftBehind`: `NoOrphans`, `NoBuriedFailure`, `StoppedIsClean`;
  `CancellationSafe`: `PinnedRunsUndisturbed`, `GenerationsClosed`, `StoppedIsClean`;
  `EveryCallReturns`: `StopTerminates`, `CallsReturn`.
* `CloseIsHonest`: `ScopeTypeOK`, `HeldIsAccounted`, `CleanCloseIsClean`, `SurvivorsAreStragglers`.
* `GreatestPlan`: `TypeOK`, `GreatestClosedSet`, `ProvidersFirst`;
  `SelectionSound`: `SiblingsDoNotInterfere`, `ProvenanceAgrees`, `PinRejectsNothing`;
  `TreeServesThePlan`: `PublishedAsPlanned`, `InheritsFromTheParent`, `ServesWhatIsResolved`.
* `DesiredStateSound`: `TypeOK`, `EntriesHaveScopes`, `RevisionNamesContent`,
  `NothingForgotten`, `NoOrphanContribution`;
  `AgentsKeepToTheirOwn`: `OnlyItsOwn`, `InstallMaterializes`;
  `RunsKeepTheirRevision`: `GenerationWins`, `RuntimeOfRevision`.
* `RegistriesConsistent`: `TypeOK`, `LivesWithItsOwner`; `ServedAsPublished`:
  `ServedByItsGeneration`, `OneToolPerName`, `PromisesKept`, `OnePublishedPolicy`,
  `CallsItsOwnTools`; `NarrowedFailClosed`: `WithinTheScope`, `FailsClosed`;
  `GraphsFit`: `EvictsLeastRecent`, `GraphFitsTheRun`.
* `RebuildsAsNeeded`: `RepeatIsNoOp`, `OnlyTheAffected`; `ReportsAgree`:
  `ImpactFollowsBindings`, `RetentionComesTrue`, `DiffOmitsNothing`,
  `DiffAgreesWithImpact`, `DigestsTellTheChange`, `RecordsSurvive`.
* `CallsAccounted`: `TypeOK`, `ChargesExact`; `ReplayExact`: `ReplayInOrder`, `RecordingExact`.

What they show.

`generations`: in every order of leases, publications, retirements, drains and
shutdown, the generation a run holds stays live until the terminal shutdown,
releases can be repeated or reordered without skewing a count, and no drain is
woken early or left asleep.

`harness`: a run keeps the composition it acquired, complete and active, while
reconciliations succeed, fail and are retried around it; a provider is never let
go under an active consumer; whatever a failed attempt mounted is gone when the
lock is free; a stopped harness has no instance and no live generation left.
`harness_cancel` has a chain of three because with two plugins a change that
lands in the middle of `_materialize` cannot upset the rest of the plan; with
three it can, and `_validate_publication` is what keeps the broken candidate out.
It leaves `NoOrphans` out, which cancellation does violate (section 4).

`scope`: the unwind is in reverse order across scopes even when several callers
close the child, a task that outlives its scope is listed, no resource is dropped
without a trace, and no error of a child is lost on the way to the root. A scope
whose close task was cancelled is exempt from the order, the straggler and the
termination properties (it is closed without an unwind), not from the accounting
of its resources.

`resolver`: the search with its explicit stack returns exactly the strongly
connected components; an accepted plan is closed, and where no two providers
compete it contains every set of entries that can run by itself, whatever the
passes drop on the way; every edge of the order is respected unless its consumer can be reached
from a loop, which only optional requirements can close; what a sibling scope
declares changes nothing; pinning a requirement to a contract generation rejects
no version its specifier accepts; and the scope plans, the published tree and the
snapshot that a run looks providers up in agree with the resolution, though each
works visibility out on its own.

`control_plane`: whatever configurations, agents and direct calls do to one
another, and wherever they land in a reconciliation, entries keep a scope, a
revision names one content for ever, nothing pending is overlooked outside the
window of finding 1, and an agent's entries exist only while that agent is
active; a refused or failed call restores everything it touched; an applied
configuration is exact; a run is attributed to the revision of the generation it
leased.

`run_view`: what a run is given comes from instances of its generation, open as
long as it runs; registrations go with their owner and never with another one's
unwinding; in a run one name is one tool, except for tools registered after the
publication that checked the names; narrowing never falls back
to what the scope hides; hooks run in priority order and a refusal stops the run;
a cached graph fits the run that gets it and calls that run's tools.

`planning`: the preview taken before a change names the action of every entry and
whether a generation is published; a reconciliation rebuilds an entry only when
its own definition, a provider it is bound to or a last failure asks for it, and
a repeated one changes nothing; no member is bound to an instance that is on its
way out, to an entry uninstalled meanwhile or to one that no longer registers what it
was selected for: such a candidate is refused and its instances go; diff, impact
report, retention report and digests say the same of the same change, and
a stored record of any release is read back as far as that release wrote it, or
refused.

`tools`: whatever is refused, fails, times out or is cancelled, no budget of the
tree is exceeded, every level is charged exactly the calls and the runs below it
(a call refused by the clock or by the recording stays charged, other refusals
cost nothing), `remaining()` and `check()` agree, the records of a key answer in
order and once each while captured results answer nobody, and a recording holds
exactly the calls that came back with a result. Failures raised because of
`raise_on_error` are not in it. A report of usage is granted as a whole or leaves no
trace: what an allocation has used is, in each dimension, what the reports granted to
it and to those inside it sum up to, also when an enclosing allocation refused one
dimension of a report whose others fit.

### Bounds

`MaxGenerations` and `MaxInstances` never stop a step: `BoundsSuffice` of
`Harness` asserts that a free instance and a generation are always left. `MaxChanges`
bounds the installs and uninstalls: two are enough to have an instance in the
current generation, another revision of its entry in a draining one, and a third
under construction. `Changing` keeps the chain's first plugin as it is: what
matters there is a change behind a mount. Two tasks are enough for a run on a draining generation
beside a reconciliation, with the shutdown task as the third party. Cancelling a
task that waits for the lock undoes nothing and is not bounded. One cancellation
of the lock's owner reaches every await of it once; a second one, of a task that
is already unwinding, is not explored. A history of 1 with three
generations makes eviction happen; limits of any size, including 0, are covered
by the proof. In `Scope`, two resources and a child give every relative order of
a pair and of a nested pair, and one task is enough for each way a task can meet
the close; `MaxCancels` = 2 lets the close of the scope, of the child or of both
be cancelled.

In `resolver`, three entries are the least with a cascade of two drops, a loop
with a tail, and three competing providers; four scopes are the least with a
grandchild and a sibling; the versions 10, 11, 19, 20 and 21 lie on and around a
major boundary. In `control_plane`, three calls make a conflict, its repair and
the reuse of what was freed; the specs differ from each other in one thing each
(scope, terms, plugins, a configuration that is refused, a missing catalog name).
In `run_view`, the families separate what does not interact (names and
successors, sharing a provider, system services, hook chains, graphs), because
one product of all would only multiply them; a cache of two evicts on the third
key. In `planning`, three entries are a chain; the configurations change a
provider, what it registers, a preference, and close an optional loop, and one
installs a plugin that does not register what it promises; `Flaky` lets one setup fail; three calls let one land before, during and after a
reconciliation that is repeated. In `tools` two calls suffice for one to run live
while the other looks its key up, or to take the last unit of an enclosing
budget; three levels are the least in which a level between the charged one and
the outermost can be missed; an outer limit on tokens, and one on model calls inside it,
let a report of both be refused for either; `MaxNow` = 1 with wall-clock limits of 1 and 2
seconds has calls in time and late. `run_view` uses the symmetry of its two runs,
which no property tells apart and whose names are only passed on.

`CHECK_DEADLOCK FALSE` is set where the system may stop: a stopped harness and a
closed scope have nothing left to do, a resolution ends, and bounded calls run
out. `generations` has it on.

### Fairness

`FairSpec` of `Harness` asks that the lock's owner and the shutdown task keep
taking steps: the event loop runs every ready task, timers fire (the shutdown
grace), and the plugins' own coroutines return. It asks nothing of clients: a
run may hold its generation for ever, a task may never call anything again. In
`Scope` the close steps are fair (the loop, the task timeout, and disposers that
return); background tasks and context entries owe nothing. The other modules
state safety only: their handlers are synchronous or end when the caller says so.

## 4. Findings and observations

Two documented statements are refuted by a run, with the counterexample as
evidence:

1. `harness_pending`: `reconcile()` ends with `_dirty = False`, also when
   something was installed while it was suspended. `has_pending_changes` is then
   false although desired state is not published, and `ensure_ready()` skips it.
2. `planning_repeat`: when an entry optionally requires what its own consumer
   provides, each repeated `reconcile()` rebuilds both and publishes a new
   generation, which docs/lifecycle.md:243 excludes.

The models contain the following behaviours of the code, which a maintainer may
want to know of. Where one needs an exemption in a property, the exemption is
named; the others are consistent with everything that is checked.

*Lifecycle.*
- A reconciliation cancelled at the `PLUGIN_MOUNTED` hook (harness.py:1283) has
  mounted an instance that is not yet on the list its rollback goes through; it
  stays active in no generation until a later reclaim (`NoOrphans` is not part of
  `CancellationSafe`).
- The last run of a draining generation, cancelled while it waits for the lock in
  `_reclaim_after_drain` (harness.py:1604), leaves the idle generation and its
  plugins alive until the next `reconcile()` or `stop()`.
- A context manager whose entry outlasts the close is exited outside the
  bookkeeping (scope.py:361): when that exit raises, `fully_disposed` is true.
- A task that ended with an error, but whose done callback is still scheduled
  when `_stop_tasks` looks (scope.py:459), is neither awaited nor counted:
  `aclose()` returns and the failure is recorded afterwards.
- `budget_scope()` binds a context variable inside the async generator of
  `stream()` (governor.py:55): two streams interleaved in one task make one run a
  child of the other and may leave a finished run's allocation current, which
  its docstring (governor.py:47) excludes.

*Resolution.*
- Optional edges can close a cycle among eligible entries, which the comment at
  resolver.py:1165 says cannot occur; `ProvidersFirst` exempts what is downstream.
- Members of a cycle stay in `eligible`; a pending entry may carry no reason; a
  ceiling such as `<2.0.0.1` is pinned one generation too low.
- The visible providers of a scope plan include pending ones.

*Control plane.*
- `agents.py:243` looks a runtime up by name among the live ones, so a run on a
  generation without the plugin executes the newest runtime of that name
  (docs/lifecycle.md:123,139), and a run raced by a publication executes the newer
  revision's runtime while it is attributed to the pinned one (`raced`).
- A failed first installation leaves an empty history, and the plain runtime of
  that name is refused as retired from then on; it also leaves the pending flag
  and new ancestor scopes.
- A revision that moves an agent's scope over itself loses its scope and its
  contributions (docs/agent-composition.md:141; `MovesOverItself`); a move with a
  plugin name in common is refused as long as the old contributions are there. When
  the old scope is gone, or was taken from the agents by the retirement of another
  agent that shared it, `_withdraw` uninstalls the old revision by entry id
  (agents.py:584) and with it the contributions of the new one that have the same id.
- `_pin_revision` compares revision names only (agents.py:629), and an install asks
  of a scope only that it belongs to some agent (agents.py:448). When the generation
  holds another agent's revision in the scope of the one the run selected, the run is
  attributed to its own agent's revision of that name, which that generation does not
  contain, and keeps the runtime of the other (agents.py:619,
  docs/agent-composition.md:179; `TakenOver`).
- A stale `_owned_scope_paths` entry lets an agent take over, and later remove, a
  scope an application created.
- A catalog name other than the implementation's own makes every `apply_config`
  replace the entry (docs/configuration.md:145; `NamesItsManifests`). An entry of
  the same id, plugin and configuration that was installed in another scope stays
  there. `apply_config` removes the application's and the agents' entries.

*What runs are served.*
- Preferences are published as they are at publication, not as they were when
  the plan was made (harness.py:1065).
- A tool registered after a publication enters new runs unvalidated (`late`), and
  a publication that is refused has already frozen its candidates' tools.
- `ScopedHooks.unregister` does not check the owner; hooks are not narrowed by
  the composition scope.

*Planning and reports.*
- The preview of a configuration sees an unchanged entry as the catalog and the
  root would have it (harness.py:2065-2098). One that was installed by hand in
  another scope is predicted to be rebuilt, although docs/design.md:50 says
  decisions match, and one of another implementation than the catalog's is
  previewed with the catalog's manifest (`AsConfigured`). It predicts a publication for a removed
  or rejected entry whose active instance only an older, leased generation
  reaches (`leftovers`).
- The consumer of a provider that is reinstalled identically is `rebuild` without
  a reason in the preview and `unchanged` in the impact report.
- Registrations that the manifest does not declare make the second
  reconciliation publish again, and so does an entry that is rejected while its
  active instance registers more than it declares, though it is no member
  (plugins/registry.py:221; the second exemption of `RepeatIsNoOp`).
- When an optional loop of bindings is dissolved, an entry downstream of it keeps
  an identity computed on the loop: the impact report may call it reused although
  its provider is rebuilt, or rewired by a provider it calls unchanged
  (`ImpactFollowsBindings` and `OnlyTheAffected` exempt the loops of either
  generation).
- An entry uninstalled while a generation is built is passed over. If one of its
  consumers had its turn or will have it, the candidate does not validate and is
  rolled back, as guarantee G3 of docs/design.md says; if it had none, the generation
  is published with a tree that lists it and no member for it (`raced`, which
  `DiffOmitsNothing` exempts).
- `from_dict` rebuilds the record except its creation time and the order of
  `plugin_entries`; a current document that lost nothing but its `format_version`
  is read as one of 0.8.1 and loses its provider maps.

## 5. Proofs

The first part of `LifetimeProofs` proves, for every number of generations and leases
and every history limit (the assumption `GenerationsAssumption` says only that they are
natural numbers), that each invariant of the run `generations` holds in every
reachable state, that a generation's life is one-way, and that the manager
implements `GenerationContract`.

None of the invariants is inductive alone, so they are proved together. `Inv`
adds three facts to the checked ones: `IdsHandedOut` (an outstanding lease id is
below the next one, so a new id is really new and the count grows by one),
`Numbered` (exactly the first `counter` generations exist, so `Build` touches a
fresh one) and `DroppedRetired` (discarded candidates are retired, so they are
subtracted from the history exactly once). `InitInv` is the base; the step is
split by what a conjunct is about (`TypeStep`, `LeaseStep`, `IndexStep`,
`HeldStep`, `WakeStep`, `HistoryStep`), each with one case per action that can
disturb it, and `StepInv` puts them together. `FiniteIds` and `CountIds` are the
counting lemmas (the sets of ids are finite, so their cardinalities behave);
`Trim` says what trimming the history does to its length and elements for any
limit. `BookkeepingHolds` collects the four records in one theorem. `Moves` lists
how a step can change a generation's state, and `LifeIsOneWay` and the refinement
follow from it: `ContractStep` maps every step of the manager to a step or a
stutter of the contract.

`ToolExecutorProofs` proves, for every tree of allocations, every limit and every report
of usage (`BudgetAssumption`: limits and amounts are natural numbers or absent),
that no allocation exceeds a limit (`LimitsHold`) and that an enclosing allocation
accounts for what is inside it (`CoverHolds`). The second needs the shape of the
tree: `ChainsClosed` (the chain of an allocation contains the chains of its
members, so whoever is charged, those above are too) and `FreshUnused` (a new
allocation starts at zero). `ChargeKeeps` is the core, for any amounts that were
checked; `SteadyStep` and `ChildStep` apply it. Every step of the executor is an
operation of a governor or leaves the budgets alone (`UsesGovernors`), so
`CallsWithinLimits` holds for any number of calls.

`ReportsAreExact` is about the usage that is reported. `granted` is a history of the
reports, in which a step adds one only when every allocation of the chain has room for
it in every dimension. The invariant (`ReportsInv`) says of every allocation that what
it used is the number of units brought by the granted reports of those whose chain it
is on, dimension by dimension, and that reports are granted to existing allocations only
(`Granters`), whose chains no longer change. Units are counted as pairs of a report and an index, so
that the units of a new report are new and the count grows by what was reported, at the
members of the chain and nowhere else: a report that was recorded up to the allocation
that refused it would leave a difference below it.

The exact counts need the history of the calls (`ExecutorInv`): `CallsTyped` and
`Phases` say what a call can hold at each await, `ChargesInv` that
a level's count is the number of payers below it, `SessionInv` that the cursor of
a key has passed exactly the records that answered, and that a call has a record
of its own exactly if it came back under a recording. `CallsAreAccounted`,
`ReplaysAreExact` and `RemainingHolds` follow; the last by `RemainingMeans`, that
`remaining()` names exactly what `check()` would grant, for every chain. The
assumptions are that the allocations and the calls are finite in number and that
calls, keys and the markers `None` and `Loaded` are different things.

`ResolverProofs` is about every composition: any finite number of entries, any
scopes, offers, requirements, views and preferences (`InputsAreCompositions` asks
that inputs have the shape of a composition, with versions in `Nat`;
`NodesAreIds` and `NoneIsNoEntry` type the rest). `Hierarchy` says that the scope
paths are a tree, however deep: the parent of a path is the path without its last
name, so every non-empty set of scopes has one whose parent is outside it.
`ScopesAreNoEntries` keeps the two kinds of consumer apart, which the code has as
two types. `Inv` says that once
the passes are settled no eligible entry fails its test (`NothingFails`), that no
pass has dropped a member of a self-sufficient set (`KeptWhole`, by `MembersHold`:
without competition a set that can run by itself protects each of its members,
whatever else is dropped), that the order lists planned entries once and
ends with all of them (`OrderLists`), and that it is grounded up to the place where
nothing was ready any more, from where each entry waits for a later one
(`OrderGrounded`). `PlansAreClosed`, `PlansAreGreatest` and `SelectionIsSound` follow.
The last needs what the recursive `AloneAfter` computes; induction over the number
of passes is done on the set of numbers that qualify (`CountUp` of `FiniteLemmas`).

`TreesServeThePlan` compares three computations of what a scope may use: the
resolver's views, the published tree and a run's snapshot of it. The first walks up
the hierarchy, the second goes down it and inherits from the parent. `LineageByParent`
(a lineage is the scope and its parent's lineage) and `ViewsIntersect` (what the tree
passes on from parent to parent is what no view of the lineage hides) make them agree,
`WhatAPlanLists`, `WhatATreeShows` and `WhatASnapshotHolds` say what each of them
shows, and `RunsFindThePlans` that a planned requirement finds its provider.

`CyclesAreFound` is the correctness of the iterative search for cycles, on any graph.
`SearchInv` holds between any two steps of its loop: stack and path are in the order
of the numbers and what was visited is on the stack or closed (`StackOrdered`), a node
of the path reaches what lies above it and a node of the stack reaches one of the path
at or below it (`PathReaches`), a low link is the number of a node that is reached
(`LowReached`) and bounds the edges explored so far (`LowBounds`), and what was closed
is whole components that no edge leaves (`ClosedWhole`). The step that matters is the
return from a node whose low link is its own number: `CutBelow` shows that nothing
above it on the stack leads below it, so that the node and what is above it are a
component (`AboveIsAComponent`). TLC checked `SearchInv` on every graph over four
nodes before it was proved.

`HarnessProofs` is about any number of entries, instances, generations, tasks,
changes and cancellations; `HarnessAssumption` says that the activation order
lists every entry once and providers first, which is what the resolver's
theorems are about. `Inv` holds at every await: the registry lists each instance once
(`Listed`) wired to what it was resolved to (`Wired`), only what a live generation
reaches is counted (`Counted`), live generations are whole (`Whole`), and mounting
and disposing happen under the lock (`Locked`). Its core is `Candidate`: what
`_materialize` has gathered so far is the newest instance of its entry, resolved as
it would be *now*. That is why a change that lands during an await cannot publish a
half-built generation: `Conclude` validates against the entries of the moment.
`Disposing` says that nothing a live generation reaches is ever on its way out.
From it follow `RunsKeepTheirGeneration`, `GenerationsStayWhole` and
`CancellationIsSafe` with any number of cancellations. `Waiting` (the queue of the
lock) and `Announced` make the refinement step by step
(`HarnessImplementsContract`). `ConsumersNeverOutliveProviders` and
`NothingStaysBehind` need `Accounted` (whatever is mounted is on the list of a
rollback, of a reclaim or of a generation), which a cancellation at the
`PLUGIN_MOUNTED` hook breaks (section 4): they are stated for `MaxCancels = 0`, and
a cancellation while waiting for the lock is not counted as one. `GenerationsWhole` also asserts that the bounds
of the checked instance are never reached (`BoundsSuffice`), which is about that
instance; `GenerationsStayWhole` proves the other three parts without it.

The second part of `LifetimeProofs` is about any tree of scopes, any resources and tasks, and any number
of cancelled closes. `Stacked` relates what is left on a stack to all that was
ever pushed: it is a prefix, and the unwind has reached the rest. `Owned` says that
an item is on one stack, and on the record of its scope while it is there;
`Disposal`, that the disposer at work is that of the item popped last; `Unwound`,
that what was popped is finished, unless its own close or the scope's was
cancelled, and that what went wrong with it is on record; `Watched`, that no task
escapes. `DisposersKeepTheOrder` and `ClosesTellTheTruth` follow from them.

`RunViewProofs` is about any plugins, scopes, views, preferences, runs and
generations (`ItemsAssumption`: what a plugin registers is a sequence without
repeats, with integer priorities; `ViewAssumption` types the cases and asks that the
capacity of the cache is a natural number, which `GraphCache.__init__` enforces). The registries
are live while runs execute, so the proof abstracts a step of them to what matters
for others (`RegistryMove`: registrations are only appended to the log, scopes move
forward, and instances that a live generation reaches stay open). `Served` is what
remains true of a generation while somebody may use it, `Published` what was
written down at the publication and never changes, and `Held` relates the record of a
run to its generation alone; the three together (`ViewInv`) are inductive.
`HooksRunInOrder` rests on `HooksListed`: the chain is sorted by priority, then
registration, by `RanksOfOrder` (in a finite strict order, the number of smaller
members is a rank), without reference to a sorting algorithm.

`RegistriesStayConsistent` and `CachedGraphsFit` need what filters do to sequences of
any length. `Filtered` is a recursive function, so its values are not given to the
provers: `StepByStep` of `FiniteLemmas` shows that it exists, `AppendByAppend` is
induction on sequences for the set of those that qualify, and `FilterAppend`,
`FilterPlaces`, `FilterSame` and `FilterTwice` are what the proofs cite.
`RegistryInv` says that the entry of a name is the log of registrations filtered by
what is live under the name (`Indexes`), that what an instance holds is its own, each
once (`Owned`), and that a tool has a policy (`Policed`). A release filters the entry
again, which is the log filtered by what is left; that the newest registration of a
name, the one the application unregisters, is the last of its entry (`LastIsNewest`)
follows from the places its elements have in the log. `CacheInv` relates the cache to
the list of all keys ever asked for, by last use: the keys of the cache are its last
ones (`Recent`), entry by entry, which hits, builds, evictions and invalidations
preserve (`RecentFilter`: dropping the same keys from both); `EvictsLeastRecent`
follows from it. TLC checked it on the run `run_view` before it was proved.

`ControlPlaneProofs` is about any documents, specs, agents, entries, scopes and
runs, and any number of calls; all five properties of the run `control_plane` are
theorems. `ControlAssumption` asks that paths are sequences, that a spec has finitely
many plugins and a document lists its entries, that the markers of a bare scope are
not names, and that nobody but the agents installs an entry under an agent's id. The
first half says what each operator makes of a sound desired state (`Desired`: the
tree is closed under ancestors, every entry has its scope and carries its counter):
it stays sound and *follows* the one before (`Follows`: an entry is the same or a later
revision, no counter goes back, and what changed is pending). `TransactionSound` says
that a transaction does so after any number of its changes, and that its undo list
leads back from any of them to where it began; the states it passes are a recursive
function, whose existence is shown with `CountUp`. The second half is about control
states (`Controlled`): the history names what was published, a scope that names a
revision names the active one of an agent that declares and owns it (`TagsHold`), and
an entry under an agent's id is a contribution of its active revision, in that
revision's scope (`ContributionsHold`). `DesiredStateSound` is not inductive without
these, nor without what they have left in time: whatever a generation ever mounted is
what its revision still names (`Seen`), a generation's scopes name revisions the
history still holds (`Held`), and a reconciliation on which no call landed has read
the desired state as it is (`Reading`). Each call is one lemma (`InstallsKeeps` to
`RetiresKeeps`), each step of a reconciliation and of a run another. Proving
`RunsKeepTheirRevision` showed that it needs `TakenOver`, and proving
`AgentsKeepToTheirOwn` that `MovesOverItself` has a second case: both are behaviours
of the code (section 4) that three calls do not reach with one agent.

`PlanningProofs` is about any entries, manifests, scopes, configurations and contract
versions, any setups that fail, and calls that land between any two turns of a
reconciliation. It assumes `IdsAssumption` (ids, which the code sorts, are numbers, and
a configuration lists finitely many) and, where it is about previews,
`ConfigsAssumption` (the configurations are those that can be applied; `ControlPlane`
has the others). It is in four layers.

`IInv` follows `_materialize` turn by turn. An entry's instances are its own and in
order (`AllListed`), what a generation reaches is listed and wired to members
(`Reached`, `Bound`), and of a build under way a number `k` of entries of the order
have been walked (`Progress`): each of them is settled, that is the newest instance of
its entry, carried over unchanged or mounted on the inputs it has now, and bound to
entries walked before it. For that the order has to put providers first, which is
proved of the operators (`OrderIsForward`, `PlanIsSound`) except for entries on or
after a loop of optional edges: what Kahn's algorithm cannot place is reached from a
loop (`StuckIsTangled`, about any finite graph). That a provider walked before is still
there at the end, and registers what it was selected for, is not in the walk's power:
calls may uninstall it or replace it by another plugin between two turns. A settled
member has the providers the plan selected for it (`SelectedBy`), so the validation
before the publication, which goes by the plan, covers every binding (`PublishKeeps`);
a candidate it refuses takes only what it mounted itself with it (`RejectedKeeps`).
`InstancesStayReachable` and `GenerationsAreBound` follow, and with `Distinct` (no two instances have one number)
`RetentionReportsComeTrue`.

`RInv` keeps the reasons. What an identity was computed from is what its instance was
given (`Versions`), a member is the newest instance of its entry (`Latest`, which makes
a failed setup visible later as the reason for a rebuild), and whatever the walk did
not carry over it mounted for one of the reasons of `NewForAReason` (`Walked`).
`Digested` says that away from loops a digest tells what is below it, and `WiredBy`
that a member's bindings are the published tree's selections, though the code takes
the one from the registry and computes the other again. `ChangesStayLocal`,
`ImpactAnalysisIsSound` and `DiffsAgreeWithImpact` follow.

`SInv` is about repetition. A reconciliation during which nothing is called follows the
plan of the desired state (`UpToDate`); what stands after one on which no call landed
is that plan, each entry by its newest instance of its own revision (`Stable`); such a
plan leaves nothing to mount and the same composition, so it is not published again
(`RepeatIsNoOp`, in `ReconciliationRebuildsAsNeeded`).

`PInv` keeps the promises of the previews. `_build_plan_result` walks the order in a
loop of its own, with numbers and digests as it supposes they will be, where
`_materialize` mounts and asks; the loop is a function over the order's positions
(`WalkExists`), and `Foreseen` says of it what a reconciliation has to find true at
each turn: an identity describes its entry and the providers before it, and an entry
is reused when its instance has that identity. Before the reconciliation this is said
of the newest instances and of the desired state as it is (`Faithful`; for the preview
of a configuration, of the state `Commit` leaves, by way of `BatchMakes`: what a batch
none of whose changes fails makes of the entries). During it, it is said of the
instances there were at its begin (`Pending`), and `Course` says how far the turns have
borne it out: what was foreseen to be reused is still that instance, what was not is
of a higher number than any there was. Identities are compared with digests in them,
so at each turn two identities have to be the same exactly when the preview found them
the same (`TurnAsForeseen`, with `Numbered`: no identity names a number not yet given
out). `PublishAsPromised` reads off the verdicts: reused, added, replaced or rebuilt,
removed or rejected, and whether there is a new generation.

TLC checked the parts of `IInv`, `RInv` and
`SInv` on the instance of the run `planning` before they were proved (those of `SInv` on
most of its states).

The proofs, and one attempt at a proof (the last), corrected five properties, all beyond the bounds of that run, and each time
TLC then showed the counterexample on a smaller instance made for it. `BoundToMembers` exempted
the loops of bindings, but the loops that matter are those of the plan's selections.
`OnlyTheAffected` left out the loop of the generation before; `ImpactFollowsBindings` held the report of an entry behind a dissolved loop to
what it cannot know; `RepeatIsNoOp` exempted only members that register more than they
declare, not entries that are rejected; `DiffOmitsNothing` overlooked an entry uninstalled
while a generation is built, which the published tree lists although nothing was mounted
for it: the next generation, published only because the entry left the tree, has an empty
diff. One became stronger: `DiffAgreesWithImpact` was stated
for undisturbed generations and holds for all.

A note for whoever edits these modules: the prover reads `UNION A \ B` as
`UNION (A \ B)`, TLC and SANY as `(UNION A) \ B`; parenthesise it.

What stays with TLC, and why:

* The liveness properties `EveryCallReturns`, `IdleGenerationsRetire` and
  `CloseTerminates`: fairness and `ENABLED` are out of the prover's reach.
* Of `ReportsAgree`, `DiffOmitsNothing`, `DigestsTellTheChange` and `RecordsSurvive`: they
  compare one function of the data with another (diffs, digests, documents of older
  releases), on every pair of generations that can be published.

## 6. Not modelled, and the plan

Left out on purpose: telemetry and text rendering (output that changes no state);
in the reports, redaction, lease ages, `generation_refs` and the `explain_*`
functions; reading YAML, TOML and recording files; policy, permission and secret
decisions (choices in `ToolExecutor`; which service decides is in `RunView`);
argument validation and result rendering of tools; requests, messages,
interrupts, checkpointers and streaming of agents and LangGraph (data, or a
library outside the repository; the interleaving of two streams that section 4
describes is the one behaviour among them with state); testing and evaluation
helpers, compatibility shims and the scripts. `Planning` has no scope
requirements and no views in its trees: `ScopeTree` has.
