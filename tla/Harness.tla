-------------------------------- MODULE Harness --------------------------------
(***************************************************************************)
(* chassis.harness.Harness: concurrent asyncio tasks that change desired   *)
(* state, reconcile it, run on a generation, and stop the harness; with    *)
(* the mount and disposal protocol of chassis.plugins.registry and the     *)
(* generation operations of chassis.core.generations.                      *)
(*                                                                         *)
(* asyncio is single-threaded: code between two awaits is one action. The  *)
(* composition lock (_compose_lock) serialises reconciliation, reclaim and *)
(* shutdown; changing desired state, acquiring and releasing never take    *)
(* it, so they interleave with every await of the lock's owner.            *)
(***************************************************************************)
EXTENDS Naturals, Sequences, FiniteSets, SequencesExt

CONSTANTS
    Entries,          \* the entry ids a user may install
    Requires,         \* Requires[e]: the entries whose capability e requires
    ActivationOrder,  \* every entry once, providers before their consumers
    Preinstalled,     \* the entries installed before any task runs
    Tasks,            \* the client tasks
    MaxInstances,     \* bound: how many plugin instances exist at a time
    Changing,         \* bound: the entries whose desired state changes
    MaxChanges,       \* bound: how many desired-state changes are made
    MaxGenerations,   \* bound: how many generations are ever built
    CancelAt,         \* the awaits at which a client task may be cancelled
    MaxCancels        \* bound: how many cancellations of the lock's owner happen

Slot == 1 .. MaxInstances     \* plugin instances
Gen == 1 .. MaxGenerations    \* generations, by sequence number
None == 0                     \* Python's None
Nobody == "nobody"            \* the lock is free
Shutdown == "shutdown"        \* the one task created by stop()

ASSUME HarnessAssumption ==
    /\ Requires \in [Entries -> SUBSET Entries]
    /\ Preinstalled \subseteq Entries /\ Changing \subseteq Entries
    /\ ActivationOrder \in Seq(Entries)
    /\ \A i, j \in DOMAIN ActivationOrder : ActivationOrder[i] = ActivationOrder[j] => i = j
    /\ \A e \in Entries : \E i \in DOMAIN ActivationOrder :
          /\ ActivationOrder[i] = e
          /\ \A r \in Requires[e] : \E j \in 1 .. i - 1 : ActivationOrder[j] = r
    /\ IsFiniteSet(Tasks) /\ Tasks \cap {Nobody, Shutdown} = {}
    /\ MaxInstances \in Nat /\ MaxChanges \in Nat /\ MaxGenerations \in Nat
    /\ MaxCancels \in Nat
    /\ CancelAt \subseteq {"queue", "mounting", "mounted", "published", "unmount"}

VARIABLES
    hstate,     \* _state
    stopping,   \* whether stop() created the shutdown task, until it runs
    desired,    \* _plugin_registry._entries: the revision of each entry, or None
    revision,   \* _plugin_registry._revisions
    changes,    \* how many desired-state changes were made (bounded)
    dirty,      \* _dirty
    planned,    \* whether _plan is set
    owner,      \* who holds _compose_lock
    queue,      \* who waits for it, in FIFO order
    phase,      \* the await the owner is suspended at
    plan,       \* the entries the resolver found eligible
    at,         \* the place in plan.activation_order _materialize has come to
    entryRev,   \* the revision of the entry object _materialize holds
    ordered,    \* the instances of the candidate so far
    mounted,    \* those of them this attempt mounted, oldest first
    work,       \* instances still to dispose in a reclaim or a shutdown
    victim,     \* the instance whose disposal is under way, or None
    inst,       \* the plugin instances
    byEntry,    \* _plugin_registry._by_entry: instances per entry, newest last
    gstate,     \* the state of each generation
    contents,   \* the instances of each generation
    current,    \* the current generation, or None
    built,      \* how many generations were built
    terminal,   \* GenerationManager._shutting_down
    cancels,    \* how many of them happened (bounded)
    pc,         \* what each client task is doing
    hold        \* the generation each client task has leased, or None

desiredVars == <<desired, revision, changes>>
lockVars == <<owner, queue>>
candidateVars == <<plan, at, entryRev, ordered, mounted>>
disposalVars == <<work, victim>>
instVars == <<inst, byEntry>>
genVars == <<gstate, contents, current, built, terminal>>
taskVars == <<pc, hold>>
vars == <<hstate, stopping, desired, revision, changes, dirty, planned, owner, queue, phase,
          plan, at, entryRev, ordered, mounted, work, victim, inst, byEntry,
          gstate, contents, current, built, terminal, cancels, pc, hold>>

FreeInstance == [entry |-> None, rev |-> 0, st |-> "free", ident |-> {}, deps |-> {}, refs |-> 0]

Init ==
    /\ hstate = "created" /\ stopping = FALSE
    /\ revision = [e \in Entries |-> IF e \in Preinstalled THEN 1 ELSE 0]
    /\ desired = revision
    /\ changes = 0
    /\ dirty = (Preinstalled # {}) /\ planned = FALSE
    /\ owner = Nobody /\ queue = <<>> /\ phase = "free"
    /\ plan = {} /\ at = 0 /\ entryRev = 0 /\ ordered = {} /\ mounted = <<>>
    /\ work = {} /\ victim = None
    /\ inst = [i \in Slot |-> FreeInstance]
    /\ byEntry = [e \in Entries |-> <<>>]
    /\ gstate = [g \in Gen |-> "unbuilt"]
    /\ contents = [g \in Gen |-> {}]
    /\ current = None /\ built = 0 /\ terminal = FALSE
    /\ cancels = 0
    /\ pc = [t \in Tasks |-> "idle"]
    /\ hold = [t \in Tasks |-> None]

(***************************************************************************)
(* What the code computes from the state                                   *)
(***************************************************************************)

Stopped == hstate \in {"stopping", "stopped"}

(* list.remove(x): without its first x. *)
Dropped(list, x) == RemoveAt(list, CHOOSE k \in DOMAIN list : list[k] = x)

(* The registry's newest instance of an entry, which may be a failed one.  *)
Newest(e) == IF byEntry[e] = <<>> THEN None ELSE Last(byEntry[e])

(* The entry the loop of _materialize has come to. *)
Entry == ActivationOrder[at]

(* The greatest set of installed entries closed under requirements.        *)
Eligible == UNION {S \in SUBSET {e \in Entries : desired[e] # None} :
                      \A e \in S : Requires[e] \subseteq S}

(* _semantic_identity: the provider instances an entry would be bound to.  *)
Identity(e) == {Newest(r) : r \in Requires[e]}

(* _resolutions_for: only an instance that registered something binds.     *)
Resolved(e) == {i \in Identity(e) : i # None /\ inst[i].st = "active"}

(* Seeded fault: an instance is reused though its provider was replaced. *)
ReusableByRevision(e) ==
    /\ Newest(e) # None
    /\ inst[Newest(e)].st = "active"
    /\ inst[Newest(e)].rev = desired[e]

(* _materialize: whether every semantic input of the entry's instance is   *)
(* unchanged.                                                              *)
Reusable(e) ==
    /\ Newest(e) # None
    /\ inst[Newest(e)].st = "active"
    /\ inst[Newest(e)].rev = desired[e]
    /\ inst[Newest(e)].ident = Identity(e)

Leases(g) == Cardinality({t \in Tasks : hold[t] = g})
Draining == {g \in Gen : gstate[g] = "draining"}

(* live(): the current and the draining generations. *)
LiveIn(gs) == {g \in Gen : gs[g] \in {"active", "draining"}}
Live == LiveIn(gstate)
ReachableIn(gs) == UNION {contents[g] : g \in LiveIn(gs)}
Registered == {i \in Slot : inst[i].st # "free"}

(* refresh_references: how many live generations reach each instance.      *)
Refreshed(gs) ==
    [i \in Slot |-> IF inst[i].st = "free" THEN inst[i] ELSE
        [inst[i] EXCEPT !.refs = Cardinality({g \in LiveIn(gs) : i \in contents[g]})]]

(* An instance id is never reused while anything still refers to it.       *)
Unused == {i \in Slot : inst[i].st = "free" /\ \A j \in Registered : i \notin inst[j].ident}

(***************************************************************************)
(* Desired state: synchronous, and open at any time                        *)
(***************************************************************************)

(* install(..., replace=True): a new revision of the entry. *)
Install(e) ==
    /\ changes < MaxChanges
    /\ changes' = changes + 1
    /\ revision' = [revision EXCEPT ![e] = @ + 1]
    /\ desired' = [desired EXCEPT ![e] = revision[e] + 1]
    /\ dirty' = TRUE
    /\ UNCHANGED <<cancels, hstate, stopping, planned, lockVars, phase, candidateVars, disposalVars,
                   instVars, genVars, taskVars>>

(* uninstall(): the mounted instance is not touched. *)
Uninstall(e) ==
    /\ changes < MaxChanges
    /\ desired[e] # None
    /\ changes' = changes + 1
    /\ desired' = [desired EXCEPT ![e] = None]
    /\ dirty' = TRUE
    /\ UNCHANGED <<cancels, hstate, stopping, revision, planned, lockVars, phase, candidateVars,
                   disposalVars, instVars, genVars, taskVars>>

(***************************************************************************)
(* The composition lock: a free lock is taken without suspending, a held   *)
(* one is handed to its first waiter.                                      *)
(***************************************************************************)

Enqueue(x) ==
    IF owner = Nobody
    THEN owner' = x /\ phase' = "locked" /\ UNCHANGED queue
    ELSE queue' = Append(queue, x) /\ UNCHANGED <<owner, phase>>

Unlock ==
    /\ IF queue = <<>> THEN owner' = Nobody /\ phase' = "free" /\ UNCHANGED queue
                       ELSE owner' = Head(queue) /\ phase' = "locked" /\ queue' = Tail(queue)
    /\ plan' = {} /\ at' = 0 /\ entryRev' = 0 /\ ordered' = {} /\ mounted' = <<>>
    /\ work' = {} /\ victim' = None

(* The owner is a client task that is composing, or any owner at all. *)
Composing(t) == t = owner /\ t \in Tasks /\ pc[t] \in {"reconcile", "ensure"}
Owning(x) == x = owner

(* A reconcile() or a reclaim ends with an exception: its caller is done.  *)
Abort(t) == Unlock /\ pc' = [pc EXCEPT ![t] = "idle"] /\ UNCHANGED hold

(***************************************************************************)
(* Client tasks                                                            *)
(***************************************************************************)

(* start(): refused once stop() was called; a second start reconciles only *)
(* what is pending.                                                        *)
Start(t) ==
    /\ pc[t] = "idle" /\ ~Stopped
    /\ hstate' = "running"
    /\ IF dirty \/ ~planned
       THEN pc' = [pc EXCEPT ![t] = "reconcile"] /\ Enqueue(t)
       ELSE UNCHANGED <<pc, lockVars, phase>>
    /\ UNCHANGED <<cancels, stopping, desiredVars, dirty, planned, candidateVars, disposalVars,
                   instVars, genVars, hold>>

(* reconcile(): the first _require_composable, then the lock. *)
Reconcile(t) ==
    /\ pc[t] = "idle" /\ ~Stopped
    /\ pc' = [pc EXCEPT ![t] = "reconcile"]
    /\ Enqueue(t)
    /\ UNCHANGED <<cancels, hstate, stopping, desiredVars, dirty, planned, candidateVars,
                   disposalVars, instVars, genVars, hold>>

(* ensure_ready() before a run: reconcile only when something is pending. *)
EnsureReady(t) ==
    /\ pc[t] = "idle"
    /\ IF dirty THEN /\ ~Stopped
                     /\ pc' = [pc EXCEPT ![t] = "ensure"]
                     /\ Enqueue(t)
                ELSE /\ pc' = [pc EXCEPT ![t] = "ready"]
                     /\ UNCHANGED <<lockVars, phase>>
    /\ UNCHANGED <<cancels, hstate, stopping, desiredVars, dirty, planned, candidateVars,
                   disposalVars, instVars, genVars, hold>>

(* Seeded fault: a task runs on a generation it looked up earlier. *)
AcquireDraining(t) ==
    /\ pc[t] \in {"idle", "ready"}
    /\ ~Stopped
    /\ \E g \in Live : hold' = [hold EXCEPT ![t] = g]
    /\ pc' = [pc EXCEPT ![t] = "run"]
    /\ UNCHANGED <<cancels, hstate, stopping, desiredVars, dirty, planned, lockVars, phase,
                   candidateVars, disposalVars, instVars, genVars>>

(* acquire(): _require_acquirable and acquire_lease, without suspending. *)
Acquire(t) ==
    /\ pc[t] \in {"idle", "ready"}
    /\ ~Stopped
    /\ current # None /\ gstate[current] = "active"
    /\ hold' = [hold EXCEPT ![t] = current]
    /\ pc' = [pc EXCEPT ![t] = "run"]
    /\ UNCHANGED <<cancels, hstate, stopping, desiredVars, dirty, planned, lockVars, phase,
                   candidateVars, disposalVars, instVars, genVars>>

(* acquire() raises HarnessStateError: stopping, or nothing is published. *)
AcquireRefused(t) ==
    /\ pc[t] = "ready"
    /\ Stopped \/ current = None
    /\ pc' = [pc EXCEPT ![t] = "idle"]
    /\ UNCHANGED <<cancels, hstate, stopping, desiredVars, dirty, planned, lockVars, phase,
                   candidateVars, disposalVars, instVars, genVars, hold>>

(* Seeded fault: the last run leaves the reclaim to the next reconcile(). *)
ReleaseOnly(t) ==
    /\ pc[t] = "run"
    /\ hold' = [hold EXCEPT ![t] = None]
    /\ pc' = [pc EXCEPT ![t] = "idle"]
    /\ UNCHANGED <<cancels, hstate, stopping, desiredVars, dirty, planned, lockVars, phase,
                   candidateVars, disposalVars, instVars, genVars>>

(* The end of acquire(): release_lease, and when this was the last lease   *)
(* of a draining generation, _reclaim_after_drain, which shutdown owns     *)
(* once stop() was called.                                                 *)
Release(t) ==
    /\ pc[t] = "run"
    /\ hold' = [hold EXCEPT ![t] = None]
    /\ IF Leases(hold[t]) = 1 /\ gstate[hold[t]] = "draining" /\ ~Stopped
       THEN pc' = [pc EXCEPT ![t] = "reclaim"] /\ Enqueue(t)
       ELSE pc' = [pc EXCEPT ![t] = "idle"] /\ UNCHANGED <<lockVars, phase>>
    /\ UNCHANGED <<cancels, hstate, stopping, desiredVars, dirty, planned, candidateVars,
                   disposalVars, instVars, genVars>>

CountCancel == cancels < MaxCancels /\ cancels' = cancels + 1

(* A task cancelled while it waits for the lock leaves the queue; nothing  *)
(* has to be undone, so MaxCancels does not count it.                      *)
CancelQueued(t) ==
    /\ "queue" \in CancelAt
    /\ t \in Range(queue)
    /\ queue' = Dropped(queue, t)
    /\ pc' = [pc EXCEPT ![t] = "idle"]
    /\ UNCHANGED <<cancels, hstate, stopping, desiredVars, dirty, planned, owner, phase, candidateVars,
                   disposalVars, instVars, genVars, hold>>

(***************************************************************************)
(* _reclaim and the disposal of instances                                  *)
(***************************************************************************)

(* Seeded fault: leased generations retire too. *)
IdleOrLeased(gs) == {g \in Gen : gs[g] = "draining"}

(* Which generations _reclaim retires. *)
Idle(gs) == {g \in Gen : gs[g] = "draining" /\ Leases(g) = 0}

(* The synchronous head of _reclaim, from generation states gs: retire     *)
(* what is idle, refresh the references, and pick what nothing reaches.    *)
StartReclaim(gs) ==
    LET idle == Idle(gs)
        left == [g \in Gen |-> IF g \in idle THEN "retired" ELSE gs[g]]
        doomed == {i \in Registered :
                     \/ inst[i].st = "active" /\ i \notin ReachableIn(left)
                     \/ inst[i].st = "failed" /\ desired[inst[i].entry] = None}
    IN  /\ gstate' = left
        /\ contents' = [g \in Gen |-> IF g \in idle THEN {} ELSE contents[g]]
        /\ inst' = Refreshed(left)
        /\ work' = doomed
        /\ phase' = "reclaim"

(* _reclaim_after_drain got the lock. *)
ReclaimLocked(t) ==
    /\ Owning(t) /\ t \in Tasks /\ pc[t] = "reclaim" /\ phase = "locked"
    /\ StartReclaim(gstate)
    /\ UNCHANGED <<cancels, hstate, stopping, desiredVars, dirty, planned, lockVars, candidateVars,
                   victim, byEntry, current, built, terminal, taskVars>>

(* Seeded fault: a teardown in no particular order. *)
DisposableAnyOrder ==
    CASE phase = "rollback" -> IF mounted = <<>> THEN {} ELSE {Last(mounted)}
      [] phase = "retry" -> {Newest(Entry)}
      [] phase \in {"reclaim", "teardown"} -> work
      [] OTHER -> {}

(* _teardown_order: an instance goes only after its remaining consumers;   *)
(* a rollback goes through what it mounted backwards.                      *)
Disposable ==
    CASE phase = "rollback" -> IF mounted = <<>> THEN {} ELSE {Last(mounted)}
      [] phase = "retry" -> {Newest(Entry)}
      [] phase \in {"reclaim", "teardown"} ->
           LET ready == {i \in work : \A j \in work : i \notin inst[j].deps}
           IN  IF ready = {} THEN work ELSE ready
      [] OTHER -> {}

(* The instance was handled; the loop goes on with the others. After the   *)
(* failed instance of a retry is gone, its entry is mounted.               *)
Handled(i) ==
    /\ victim' = None
    /\ work' = work \ {i}
    /\ mounted' = IF phase = "rollback" THEN Front(mounted) ELSE mounted
    /\ phase' = IF phase = "retry" THEN "mounting" ELSE phase

(* _forget: the registry drops a disposed instance. *)
Forget(i) ==
    /\ inst' = [inst EXCEPT ![i] = FreeInstance]
    /\ byEntry' = [byEntry EXCEPT ![inst[i].entry] = Dropped(@, i)]

(* registry.dispose up to its awaits: an instance some live generation     *)
(* reaches is refused (and the failure recorded), an active one starts     *)
(* unloading, a failed one goes straight to closing its scope again.       *)
DisposeBegin(x) ==
    /\ Owning(x) /\ victim = None
    /\ \E i \in Disposable :
         IF inst[i].refs > 0
         THEN Handled(i) /\ UNCHANGED inst
         ELSE /\ victim' = i
              /\ inst' = [inst EXCEPT ![i].st = IF @ = "active" THEN "unloading" ELSE @]
              /\ UNCHANGED <<work, mounted, phase>>
    /\ UNCHANGED <<cancels, hstate, stopping, desiredVars, dirty, planned, lockVars, plan, at, entryRev,
                   ordered, byEntry, genVars, taskVars>>

(* teardown and the scope's close returned or raised: either way the       *)
(* instance is disposed and forgotten.                                     *)
DisposeEnd(x) ==
    /\ Owning(x) /\ victim # None
    /\ Forget(victim)
    /\ Handled(victim)
    /\ UNCHANGED <<cancels, hstate, stopping, desiredVars, dirty, planned, lockVars, plan, at, entryRev,
                   ordered, genVars, taskVars>>

(* A client task cancelled at a PLUGIN_UNMOUNTING hook drops the rest of   *)
(* its loop; during a retry the candidate is rolled back.                  *)
CancelUnmount(t) ==
    /\ CountCancel
    /\ "unmount" \in CancelAt
    /\ Owning(t) /\ t \in Tasks /\ victim = None /\ Disposable # {}
    /\ IF phase = "retry"
       THEN phase' = "rollback" /\ UNCHANGED <<lockVars, candidateVars, disposalVars, taskVars>>
       ELSE Abort(t)
    /\ UNCHANGED <<hstate, stopping, desiredVars, dirty, planned, instVars, genVars>>

(* Cancelled at the PLUGIN_UNMOUNTED hook instead: the instance is gone,   *)
(* the rest of the loop is dropped as above.                               *)
CancelUnmounted(t) ==
    /\ CountCancel
    /\ "unmount" \in CancelAt
    /\ Owning(t) /\ t \in Tasks /\ victim # None
    /\ Forget(victim)
    /\ IF phase = "retry"
       THEN /\ phase' = "rollback" /\ victim' = None
            /\ UNCHANGED <<lockVars, candidateVars, work, taskVars>>
       ELSE Abort(t)
    /\ UNCHANGED <<hstate, stopping, desiredVars, dirty, planned, genVars>>

(* The end of _reclaim; a reconcile() then records its plan and clears the *)
(* pending flag, whatever was installed meanwhile.                         *)
ReclaimEnd(t) ==
    /\ Owning(t) /\ t \in Tasks
    /\ phase = "reclaim" /\ work = {} /\ victim = None
    /\ inst' = Refreshed(gstate)
    /\ IF pc[t] = "reclaim" THEN UNCHANGED <<dirty, planned>>
                            ELSE dirty' = FALSE /\ planned' = TRUE
    /\ pc' = [pc EXCEPT ![t] = IF @ = "ensure" THEN "ready" ELSE "idle"]
    /\ Unlock
    /\ UNCHANGED <<cancels, hstate, stopping, desiredVars, byEntry, genVars, hold>>

(***************************************************************************)
(* reconcile(), under the lock                                             *)
(***************************************************************************)

(* The second _require_composable refuses when stop() came first. *)
ReconcileRefused(t) ==
    /\ Composing(t) /\ phase = "locked" /\ Stopped
    /\ Abort(t)
    /\ UNCHANGED <<cancels, hstate, stopping, desiredVars, dirty, planned, instVars, genVars>>

(* Seeded fault: the candidate is published as it is. *)
ValidatedAlways(p, cand) == TRUE

(* The candidate's instances answer every requirement the plan satisfied   *)
(* (the part of _validate_publication that another task can upset).        *)
Validated(p, cand) ==
    \A e \in p : \A r \in Requires[e] : \E i \in cand : inst[i].entry = r

(* _same_composition: the candidate is what is already published. *)
SameComposition(cand) == current # None /\ contents[current] = cand

(* The candidate is complete. Refused (a requirement nobody in it answers, *)
(* or a registration or tool that a plugin's own setup got wrong), it is   *)
(* rolled back; unchanged, it is dropped and _reclaim follows at once;     *)
(* otherwise build and publish make it current and the old one drains.     *)
Conclude(p, cand) ==
    \/ /\ cand # {} \/ ~Validated(p, cand)
       /\ phase' = "rollback"
       /\ UNCHANGED <<work, inst, gstate, contents, current, built>>
    \/ /\ Validated(p, cand) /\ SameComposition(cand)
       /\ StartReclaim(gstate)
       /\ UNCHANGED <<current, built>>
    \/ /\ Validated(p, cand) /\ ~SameComposition(cand)
       /\ built < MaxGenerations
       /\ built' = built + 1
       /\ gstate' = [g \in Gen |-> IF g = built + 1 THEN "active"
                                   ELSE IF g = current THEN "draining" ELSE gstate[g]]
       /\ contents' = [contents EXCEPT ![built + 1] = cand]
       /\ current' = built + 1
       /\ phase' = "published"
       /\ UNCHANGED <<work, inst>>

(* What _materialize awaits first for an entry it cannot reuse: the        *)
(* disposal of the failed instance, or the mount.                          *)
MountAwait(e) ==
    IF Newest(e) # None /\ inst[Newest(e)].st = "failed" THEN "retry" ELSE "mounting"

(* _materialize from one await to the next: p is the plan, from the place  *)
(* its loop goes on at, cand the instances so far. It reads the registry's *)
(* entry of the moment, not the one the plan was made from: an entry that  *)
(* was uninstalled meanwhile is skipped, one that was replaced is mounted  *)
(* as replaced. An unchanged instance is reused, a failed one is disposed  *)
(* before its entry is mounted again.                                      *)
Proceed(p, from, cand) ==
    LET taken == {k \in from .. Len(ActivationOrder) :
                    ActivationOrder[k] \in p /\ desired[ActivationOrder[k]] # None}
        stops == {k \in taken : ~Reusable(ActivationOrder[k])}
        next == IF stops = {} THEN Len(ActivationOrder) + 1 ELSE Min(stops)
        reused == {Newest(ActivationOrder[k]) : k \in {j \in taken : j < next}}
    IN  /\ plan' = p
        /\ ordered' = cand \cup reused
        /\ at' = next
        /\ IF stops = {}
           THEN entryRev' = 0 /\ Conclude(p, cand \cup reused)
           ELSE LET e == ActivationOrder[next] IN
                /\ entryRev' = desired[e]
                /\ phase' = MountAwait(e)
                /\ UNCHANGED <<work, inst, gstate, contents, current, built>>

(* resolver.resolve: the plan is computed once, from what is installed now; *)
(* its activation order is ActivationOrder without the entries not planned. *)
Resolve(t) ==
    /\ Composing(t) /\ phase = "locked" /\ ~Stopped
    /\ Proceed(Eligible, 1, {})
    /\ UNCHANGED <<cancels, hstate, stopping, desiredVars, dirty, planned, lockVars, mounted,
                   victim, byEntry, terminal, taskVars>>

(* registry.mount up to the await of the plugin's setup. *)
Mount(t) ==
    LET e == Entry IN
    /\ Composing(t) /\ phase = "mounting"
    /\ Unused # {}
    /\ LET i == CHOOSE i \in Unused : \A j \in Unused : i <= j
       IN  /\ inst' = [inst EXCEPT ![i] = [entry |-> e, rev |-> entryRev, st |-> "loading",
                                           ident |-> Identity(e), deps |-> Resolved(e), refs |-> 0]]
           /\ byEntry' = [byEntry EXCEPT ![e] = Append(@, i)]
    /\ phase' = "setup"
    /\ UNCHANGED <<cancels, hstate, stopping, desiredVars, dirty, planned, lockVars, candidateVars,
                   disposalVars, genVars, taskVars>>

SetupOk(t) ==
    /\ Composing(t) /\ phase = "setup"
    /\ inst' = [inst EXCEPT ![Newest(Entry)].st = "active"]
    /\ phase' = "mounted"
    /\ UNCHANGED <<cancels, hstate, stopping, desiredVars, dirty, planned, lockVars, candidateVars,
                   disposalVars, byEntry, genVars, taskVars>>

(* setup raised (or was cancelled): registry._rollback closes the scope    *)
(* and keeps the instance as failed; reconcile() rolls back the others.    *)
SetupFail(t) ==
    /\ Composing(t) /\ phase = "setup"
    /\ inst' = [inst EXCEPT ![Newest(Entry)].st = "failed"]
    /\ phase' = "rollback"
    /\ UNCHANGED <<cancels, hstate, stopping, desiredVars, dirty, planned, lockVars, candidateVars,
                   disposalVars, byEntry, genVars, taskVars>>

(* Seeded fault: the instance is not on the list a rollback goes through. *)
MountedHookUnlisted(t) ==
    LET i == Newest(Entry) IN
    /\ Composing(t) /\ phase = "mounted"
    /\ Proceed(plan, at + 1, ordered \cup {i})
    /\ UNCHANGED <<cancels, hstate, stopping, desiredVars, dirty, planned, lockVars, mounted,
                   victim, byEntry, terminal, taskVars>>

(* The PLUGIN_MOUNTED hook returned: only now is the instance on the lists. *)
MountedHook(t) ==
    LET i == Newest(Entry) IN
    /\ Composing(t) /\ phase = "mounted"
    /\ mounted' = Append(mounted, i)
    /\ Proceed(plan, at + 1, ordered \cup {i})
    /\ UNCHANGED <<cancels, hstate, stopping, desiredVars, dirty, planned, lockVars,
                   victim, byEntry, terminal, taskVars>>

(* Cancelled at the PLUGIN_MOUNTING or the PLUGIN_MOUNTED hook. *)
CancelMount(t) ==
    /\ CountCancel
    /\ Composing(t) /\ phase \in {"mounting", "mounted"} \cap CancelAt
    /\ phase' = "rollback"
    /\ UNCHANGED <<hstate, stopping, desiredVars, dirty, planned, lockVars, candidateVars,
                   disposalVars, instVars, genVars, taskVars>>

(* The GENERATION_DRAINING and GENERATION_PUBLISHED hooks returned. *)
PublishedHooks(t) ==
    /\ Composing(t) /\ phase = "published"
    /\ StartReclaim(gstate)
    /\ UNCHANGED <<cancels, hstate, stopping, desiredVars, dirty, planned, lockVars, candidateVars,
                   victim, byEntry, current, built, terminal, taskVars>>

(* Cancelled at one of them: the generation stays published, nothing is    *)
(* reclaimed, the pending flag stays set.                                  *)
CancelPublished(t) ==
    /\ CountCancel
    /\ "published" \in CancelAt
    /\ Composing(t) /\ phase = "published"
    /\ Abort(t)
    /\ UNCHANGED <<hstate, stopping, desiredVars, dirty, planned, instVars, genVars>>

(* Seeded fault: the error leaves without the lock being released. *)
RollbackEndLocked(t) ==
    /\ Composing(t) /\ phase = "rollback" /\ mounted = <<>> /\ victim = None
    /\ pc' = [pc EXCEPT ![t] = "idle"]
    /\ UNCHANGED <<cancels, hstate, stopping, desiredVars, dirty, planned, lockVars, phase,
                   candidateVars, disposalVars, instVars, genVars, hold>>

(* Every mounted instance was rolled back; the error reaches the caller. *)
RollbackEnd(t) ==
    /\ Composing(t) /\ phase = "rollback" /\ mounted = <<>> /\ victim = None
    /\ Abort(t)
    /\ UNCHANGED <<cancels, hstate, stopping, desiredVars, dirty, planned, instVars, genVars>>

(***************************************************************************)
(* stop(): the state flips at once, the shutdown runs in a task of its own *)
(***************************************************************************)

Stop ==
    /\ ~Stopped
    /\ hstate' = "stopping" /\ stopping' = TRUE
    /\ UNCHANGED <<cancels, desiredVars, dirty, planned, lockVars, phase, candidateVars, disposalVars,
                   instVars, genVars, taskVars>>

(* The task starts and asks for the lock. *)
ShutdownTask ==
    /\ stopping
    /\ stopping' = FALSE
    /\ Enqueue(Shutdown)
    /\ UNCHANGED <<cancels, hstate, desiredVars, dirty, planned, candidateVars, disposalVars,
                   instVars, genVars, taskVars>>

(* The GENERATION_DRAINING hook returned: begin_shutdown, then drain(). *)
BeginShutdown ==
    /\ Owning(Shutdown) /\ phase = "locked"
    /\ terminal' = TRUE
    /\ gstate' = [g \in Gen |-> IF g = current THEN "draining" ELSE gstate[g]]
    /\ current' = None
    /\ phase' = "drain"
    /\ UNCHANGED <<cancels, hstate, stopping, desiredVars, dirty, planned, lockVars, candidateVars,
                   disposalVars, instVars, contents, built, taskVars>>

(* drain() ended: idle and busy generations retire, in this order, the     *)
(* references are refreshed, and every instance is up for disposal.        *)
RetireAll ==
    LET left == [g \in Gen |-> IF gstate[g] = "draining" THEN "retired" ELSE gstate[g]]
    IN  /\ gstate' = left
        /\ contents' = [g \in Gen |-> IF gstate[g] = "draining" THEN {} ELSE contents[g]]
        /\ inst' = Refreshed(left)
        /\ work' = Registered
        /\ phase' = "teardown"

(* Every lease was released before the grace ran out. *)
Drained ==
    /\ Owning(Shutdown) /\ phase = "drain"
    /\ \A g \in Draining : Leases(g) = 0
    /\ RetireAll
    /\ UNCHANGED <<cancels, hstate, stopping, desiredVars, dirty, planned, lockVars, candidateVars,
                   victim, byEntry, current, built, terminal, taskVars>>

(* shutdown_grace_seconds ran out under runs that are still active. *)
GraceExpired ==
    /\ Owning(Shutdown) /\ phase = "drain"
    /\ \E g \in Draining : Leases(g) > 0
    /\ RetireAll
    /\ UNCHANGED <<cancels, hstate, stopping, desiredVars, dirty, planned, lockVars, candidateVars,
                   victim, byEntry, current, built, terminal, taskVars>>

(* Everything is disposed: the terminal state. *)
ShutdownEnd ==
    /\ Owning(Shutdown) /\ phase = "teardown" /\ work = {} /\ victim = None
    /\ hstate' = "stopped"
    /\ Unlock
    /\ UNCHANGED <<cancels, stopping, desiredVars, dirty, planned, instVars, genVars, taskVars>>

(***************************************************************************)
(* The specification                                                       *)
(***************************************************************************)

Change == \E e \in Changing : Install(e) \/ Uninstall(e)

Client(t) == \/ Start(t) \/ Reconcile(t) \/ EnsureReady(t)
             \/ Acquire(t) \/ AcquireRefused(t) \/ Release(t)

Cancel(t) == \/ CancelQueued(t) \/ CancelMount(t) \/ CancelPublished(t)
             \/ CancelUnmount(t) \/ CancelUnmounted(t)

(* The steps the owner of the lock takes by itself. *)
TaskStep(t) == \/ ReconcileRefused(t) \/ Resolve(t) \/ Mount(t)
               \/ SetupOk(t) \/ SetupFail(t) \/ MountedHook(t)
               \/ PublishedHooks(t) \/ RollbackEnd(t) \/ ReclaimLocked(t) \/ ReclaimEnd(t)
               \/ DisposeBegin(t) \/ DisposeEnd(t)

ShutdownStep == \/ BeginShutdown \/ Drained \/ GraceExpired \/ ShutdownEnd
                \/ DisposeBegin(Shutdown) \/ DisposeEnd(Shutdown)

Next ==
    \/ Change
    \/ \E t \in Tasks : Client(t) \/ Cancel(t) \/ TaskStep(t)
    \/ Stop \/ ShutdownTask \/ ShutdownStep

Spec == Init /\ [][Next]_vars

(* The event loop runs every ready task and fires every timer, and the     *)
(* plugins' own coroutines return; clients owe nothing: a run may hold its *)
(* generation for ever.                                                    *)
Fairness == WF_vars((\E t \in Tasks : TaskStep(t)) \/ ShutdownStep) /\ WF_vars(ShutdownTask)

FairSpec == Spec /\ Fairness

(***************************************************************************)
(* Properties                                                              *)
(***************************************************************************)

InstanceStates == {"free", "loading", "active", "unloading", "failed"}
Phases == {"free", "locked", "mounting", "retry", "setup", "mounted",
           "rollback", "published", "reclaim", "drain", "teardown"}

(* Every variable holds a value the attribute it stands for can hold.      *)
TypeOK ==
    /\ hstate \in {"created", "running", "stopping", "stopped"}
    /\ stopping \in BOOLEAN /\ dirty \in BOOLEAN /\ planned \in BOOLEAN
    /\ desired \in [Entries -> Nat] /\ revision \in [Entries -> Nat]
    /\ changes \in 0 .. MaxChanges /\ cancels \in 0 .. MaxCancels
    /\ owner \in Tasks \cup {Nobody, Shutdown}
    /\ queue \in Seq(Tasks \cup {Shutdown})
    /\ phase \in Phases
    /\ plan \subseteq Entries /\ at \in 0 .. Len(ActivationOrder) + 1 /\ entryRev \in Nat
    /\ ordered \subseteq Slot /\ mounted \in Seq(Slot)
    /\ work \subseteq Slot /\ victim \in Slot \cup {None}
    /\ inst \in [Slot -> [entry : Entries \cup {None}, rev : Nat, st : InstanceStates,
                          ident : SUBSET (Slot \cup {None}), deps : SUBSET Slot, refs : Nat]]
    /\ byEntry \in [Entries -> Seq(Slot)]
    /\ gstate \in [Gen -> {"unbuilt", "active", "draining", "retired"}]
    /\ contents \in [Gen -> SUBSET Slot]
    /\ current \in Gen \cup {None} /\ built \in 0 .. MaxGenerations
    /\ terminal \in BOOLEAN
    /\ pc \in [Tasks -> {"idle", "reconcile", "ensure", "ready", "run", "reclaim"}]
    /\ hold \in [Tasks -> Gen \cup {None}]

(* The bounds on instances and generations are never what stops a mount or *)
(* a publication.                                                          *)
BoundsSuffice == Unused # {} /\ built < MaxGenerations

(* Invariant I6 of the harness ("a plugin scope may be physically disposed *)
(* only when no live runtime generation can reach it"): whatever runs,     *)
(* reconciliations, rollbacks and reclaims interleave, every instance of   *)
(* the current and of every draining generation is active.                 *)
LiveInstancesActive ==
    \A g \in Gen : gstate[g] \in {"active", "draining"} =>
        \A i \in contents[g] : inst[i].st = "active"

(* A run keeps what it acquired: until the terminal shutdown gives up      *)
(* waiting, the generation a task holds is live and is the composition it  *)
(* was published with, one active instance for each requirement of each of *)
(* its instances.                                                          *)
PinnedRunsUndisturbed ==
    \A t \in Tasks : hold[t] # None =>
        \/ terminal
        \/ /\ gstate[hold[t]] \in {"active", "draining"}
           /\ \A i \in contents[hold[t]] :
                /\ inst[i].st = "active"
                /\ inst[i].deps \subseteq contents[hold[t]]
                /\ {inst[d].entry : d \in inst[i].deps} = Requires[inst[i].entry]

(* A generation holds at most one instance of an entry, and only instances *)
(* wired to providers of the same generation: an uninstall or a replace    *)
(* that lands between two awaits of _materialize never gets a half-changed *)
(* composition past _validate_publication.                                 *)
GenerationsClosed ==
    \A g \in Live :
        /\ \A i, j \in contents[g] : inst[i].entry = inst[j].entry => i = j
        /\ \A i \in contents[g] : inst[i].deps \subseteq contents[g]

(* What _materialize publishes is whole and stays so while it is live:     *)
(* active instances, one of an entry, wired among themselves.              *)
GenerationsWhole ==
    /\ TypeOK
    /\ BoundsSuffice
    /\ LiveInstancesActive
    /\ GenerationsClosed

(* Consumers go before the providers they reach: no active instance is     *)
(* ever left with a provider that is unloading or gone, in a reclaim, in a *)
(* rollback and in the final teardown.                                     *)
ProvidersOutliveConsumers ==
    \A j \in Slot : inst[j].st = "active" => \A i \in inst[j].deps : inst[i].st = "active"

(* When nobody composes, every active instance belongs to some live        *)
(* generation: a failed, refused or cancelled reconciliation leaves no     *)
(* instance behind that it mounted.                                        *)
NoOrphans ==
    owner = Nobody => \A i \in Slot : inst[i].st = "active" => i \in ReachableIn(gstate)

(* A failed instance is released before its entry is mounted again, so     *)
(* retries never pile failed instances up behind the newest.               *)
NoBuriedFailure ==
    \A e \in Entries : \A k \in 1 .. Len(byEntry[e]) - 1 : inst[byEntry[e][k]].st # "failed"

(* stop() is terminal and complete: in the final state no instance is      *)
(* registered, no generation is live, whatever was queued for the lock     *)
(* when the shutdown ran.                                                  *)
StoppedIsClean ==
    hstate = "stopped" => Registered = {} /\ Live = {} /\ terminal

(* Failed, refused and repeated reconciliations and stop() itself leave no *)
(* instance that nothing will ever dispose.                                *)
NothingLeftBehind ==
    /\ NoOrphans
    /\ NoBuriedFailure
    /\ StoppedIsClean

(* What cancelling a task at any await of reconcile() or of the reclaim    *)
(* must not break: runs keep what they acquired, only whole generations    *)
(* are published, and the final teardown still collects everything. (An    *)
(* instance may be left behind until then, NoOrphans does not hold.)       *)
CancellationSafe ==
    /\ PinnedRunsUndisturbed
    /\ GenerationsClosed
    /\ StoppedIsClean

(* has_pending_changes says "whether desired state changed since the last  *)
(* successful reconcile": when it is false, what is published is what the  *)
(* desired state asks for.                                                 *)
PendingChangesKnown ==
    planned /\ ~dirty /\ ~Stopped =>
        {<<inst[i].entry, inst[i].rev>> : i \in contents[current]}
           = {<<e, desired[e]>> : e \in Eligible}

(* The harness implements the contract of generations: a run holds one     *)
(* published generation, which stays alive until it is released.           *)
Contract == INSTANCE GenerationContract WITH
    phase <- gstate, holds <- [g \in Gen |-> Leases(g)], terminal <- terminal

ImplementsContract == Contract!Spec

(* stop() always reaches its end: no run, reconciliation, failing plugin   *)
(* or waiter for the lock can wedge the harness in STOPPING.               *)
StopTerminates == hstate = "stopping" ~> hstate = "stopped"

(* Nobody waits for ever on the composition lock: every reconcile(),       *)
(* ensure_ready() and release of a run returns.                            *)
CallsReturn ==
    \A t \in Tasks : pc[t] \in {"reconcile", "ensure", "reclaim"} ~> pc[t] \in {"idle", "ready"}

(* No caller of the harness waits for ever, whoever else fails, stops or   *)
(* holds a run.                                                            *)
EveryCallReturns ==
    /\ StopTerminates
    /\ CallsReturn

(* A draining generation whose last run has finished is retired, and so    *)
(* its plugins are let go, without any further call.                       *)
IdleGenerationsRetire ==
    \A g \in Gen : gstate[g] = "draining" /\ Leases(g) = 0 ~> gstate[g] = "retired"
================================================================================
