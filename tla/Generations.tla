------------------------------ MODULE Generations ------------------------------
(***************************************************************************)
(* chassis.core.generations.GenerationManager with the lease accounting of *)
(* chassis.core.generation.GenerationAccounting.                           *)
(*                                                                         *)
(* Every method but drain() is synchronous, so one method call is one      *)
(* action. drain() suspends its caller: it is a begin action, the wake-ups *)
(* that releases cause, and an end action. A method that refuses its       *)
(* arguments (GenerationConflictError, HarnessStateError,                  *)
(* UnknownLeaseError) changes nothing, so its refusals are the negations   *)
(* of the guards.                                                          *)
(***************************************************************************)
EXTENDS Naturals, Sequences, FiniteSets

CONSTANTS
    MaxGenerations,   \* bound: how many generations are ever built
    MaxLeases,        \* bound: how many lease ids one generation hands out
    HistoryLimit      \* generation_history_limit, any natural number

ASSUME GenerationsAssumption ==
    /\ MaxGenerations \in Nat
    /\ MaxLeases \in Nat
    /\ HistoryLimit \in Nat

Gen == 1 .. MaxGenerations          \* a generation is named by its sequence
LeaseId == 0 .. MaxLeases           \* ids are handed out from 0
NoGen == 0                          \* Python's None for _current

VARIABLES
    counter,       \* how many generations build() has numbered
    state,         \* GenerationAccounting.state, "unbuilt" before build()
    leases,        \* GenerationAccounting.leases
    starts,        \* the keys of GenerationAccounting._starts
    nextLease,     \* GenerationAccounting._next_lease
    zero,          \* whether the GenerationAccounting.zero event is set
    current,       \* _current
    draining,      \* the generations in the _draining dictionary
    retired,       \* the _retired list, oldest first
    evicted,       \* _evicted
    shuttingDown,  \* _shutting_down
    drainSet,      \* the generations a drain() in progress waits for
    blocked,       \* those whose wait_idle() is suspended on the zero event
    dropped        \* observation only: the candidates discard() dropped

accounting == <<leases, starts, nextLease, zero>>
history == <<retired, evicted>>
waits == <<drainSet, blocked>>
vars == <<counter, state, leases, starts, nextLease, zero, current, draining,
          retired, evicted, shuttingDown, drainSet, blocked, dropped>>

Init ==
    /\ counter = 0
    /\ state = [g \in Gen |-> "unbuilt"]
    /\ leases = [g \in Gen |-> 0]
    /\ starts = [g \in Gen |-> {}]
    /\ nextLease = [g \in Gen |-> 0]
    /\ zero = [g \in Gen |-> FALSE]
    /\ current = NoGen
    /\ draining = {}
    /\ retired = <<>>
    /\ evicted = 0
    /\ shuttingDown = FALSE
    /\ drainSet = {}
    /\ blocked = {}
    /\ dropped = {}

(* live(): what a run can still reach. *)
Live == draining \cup (IF current = NoGen THEN {} ELSE {current})

(***************************************************************************)
(* Control plane                                                           *)
(***************************************************************************)

(* build(): number a candidate; it is referenced by nothing yet. *)
Build ==
    /\ counter < MaxGenerations
    /\ counter' = counter + 1
    /\ state' = [state EXCEPT ![counter + 1] = "building"]
    /\ UNCHANGED <<accounting, current, draining, history, shuttingDown, waits, dropped>>

(* Seeded fault: the outgoing generation is not listed as draining. *)
PublishUnlisted(g) ==
    /\ state[g] = "building"
    /\ state' = [h \in Gen |-> IF h = g THEN "active"
                               ELSE IF h = current THEN "draining"
                               ELSE state[h]]
    /\ current' = g
    /\ UNCHANGED <<counter, accounting, draining, history, shuttingDown, waits, dropped>>

(* publish(): the outgoing generation drains before the pointer moves. *)
Publish(g) ==
    /\ state[g] = "building"
    /\ state' = [h \in Gen |-> IF h = g THEN "active"
                               ELSE IF h = current THEN "draining"
                               ELSE state[h]]
    /\ draining' = draining \cup ({current} \ {NoGen})
    /\ current' = g
    /\ UNCHANGED <<counter, accounting, history, shuttingDown, waits, dropped>>

(* How many of the retained generations no longer fit once one more is kept. *)
Overflow == IF Len(retired) + 1 > HistoryLimit THEN Len(retired) + 1 - HistoryLimit ELSE 0

(* Seeded fault: leases are not looked at. *)
RetireLeased(g) ==
    /\ state[g] \in {"building", "draining"}
    /\ state' = [state EXCEPT ![g] = "retired"]
    /\ draining' = draining \ {g}
    /\ retired' = SubSeq(Append(retired, g), Overflow + 1, Len(retired) + 1)
    /\ evicted' = evicted + Overflow
    /\ UNCHANGED <<counter, accounting, current, shuttingDown, waits, dropped>>

(* retire(): refused for the active generation and, before the terminal    *)
(* shutdown, for one that is still leased. The oldest of the retained      *)
(* history gives way.                                                      *)
Retire(g) ==
    /\ state[g] \in {"building", "draining"}
    /\ leases[g] = 0 \/ shuttingDown
    /\ state' = [state EXCEPT ![g] = "retired"]
    /\ draining' = draining \ {g}
    /\ retired' = SubSeq(Append(retired, g), Overflow + 1, Len(retired) + 1)
    /\ evicted' = evicted + Overflow
    /\ UNCHANGED <<counter, accounting, current, shuttingDown, waits, dropped>>

(* discard(): drop a generation without recording it in the history; only  *)
(* the active one is refused.                                              *)
Discard(g) ==
    /\ state[g] \notin {"unbuilt", "active"}
    /\ state' = [state EXCEPT ![g] = "retired"]
    /\ dropped' = dropped \cup {g}
    /\ UNCHANGED <<counter, accounting, current, draining, history, shuttingDown, waits>>

(* begin_shutdown(): the only way a leased generation may ever retire. *)
BeginShutdown ==
    /\ shuttingDown' = TRUE
    /\ state' = [g \in Gen |-> IF g = current THEN "draining" ELSE state[g]]
    /\ draining' = draining \cup ({current} \ {NoGen})
    /\ current' = NoGen
    /\ UNCHANGED <<counter, accounting, history, waits, dropped>>

(***************************************************************************)
(* Data plane: acquire_lease() and release_lease() never suspend.          *)
(***************************************************************************)

(* Seeded fault: a generation that is already draining is leased. *)
AcquireDraining(g) ==
    /\ g \in Live
    /\ nextLease[g] < MaxLeases
    /\ zero' = [zero EXCEPT ![g] = IF leases[g] = 0 THEN FALSE ELSE @]
    /\ starts' = [starts EXCEPT ![g] = @ \cup {nextLease[g]}]
    /\ nextLease' = [nextLease EXCEPT ![g] = @ + 1]
    /\ leases' = [leases EXCEPT ![g] = @ + 1]
    /\ UNCHANGED <<counter, state, current, draining, history, shuttingDown, waits, dropped>>

(* acquire_lease(): the zero event is cleared on the 0 -> 1 transition. *)
Acquire(g) ==
    /\ g = current
    /\ state[g] = "active"
    /\ nextLease[g] < MaxLeases
    /\ zero' = [zero EXCEPT ![g] = IF leases[g] = 0 THEN FALSE ELSE @]
    /\ starts' = [starts EXCEPT ![g] = @ \cup {nextLease[g]}]
    /\ nextLease' = [nextLease EXCEPT ![g] = @ + 1]
    /\ leases' = [leases EXCEPT ![g] = @ + 1]
    /\ UNCHANGED <<counter, state, current, draining, history, shuttingDown, waits, dropped>>

(* release_lease(): an id that is not outstanding is refused. The last     *)
(* release sets the zero event, which wakes the suspended wait_idle().     *)
Release(g, id) ==
    /\ id \in starts[g]
    /\ starts' = [starts EXCEPT ![g] = @ \ {id}]
    /\ leases' = [leases EXCEPT ![g] = @ - 1]
    /\ zero' = [zero EXCEPT ![g] = @ \/ leases'[g] = 0]
    /\ blocked' = IF leases'[g] = 0 THEN blocked \ {g} ELSE blocked
    /\ UNCHANGED <<counter, state, nextLease, current, draining, history, shuttingDown,
                   drainSet, dropped>>

(***************************************************************************)
(* drain()                                                                 *)
(***************************************************************************)

(* Start one wait_idle() per generation. A wait returns at once when there *)
(* is no lease or when the zero event is already set.                      *)
DrainBegin(S) ==
    /\ drainSet = {} /\ S # {} /\ S \subseteq Live
    /\ drainSet' = S
    /\ blocked' = {g \in S : leases[g] # 0 /\ ~zero[g]}
    /\ UNCHANGED <<counter, state, accounting, current, draining, history, shuttingDown, dropped>>

(* Every wait returned. *)
DrainDone ==
    /\ drainSet # {} /\ blocked = {}
    /\ drainSet' = {}
    /\ UNCHANGED <<counter, state, accounting, current, draining, history, shuttingDown,
                   blocked, dropped>>

(* Seeded fault: the pending waits are left behind. *)
DrainTimeoutLeak ==
    /\ blocked # {}
    /\ drainSet' = {}
    /\ UNCHANGED <<counter, state, accounting, current, draining, history, shuttingDown,
                   blocked, dropped>>

(* The one deadline for the whole wait passed: the pending waits are       *)
(* cancelled, and the caller learns which generations are still busy.      *)
DrainTimeout ==
    /\ blocked # {}
    /\ drainSet' = {} /\ blocked' = {}
    /\ UNCHANGED <<counter, state, accounting, current, draining, history, shuttingDown, dropped>>

(* discard() is documented for candidates that will never be published:    *)
(* its callers pass nothing else.                                          *)
DiscardCandidate(g) == state[g] = "building" /\ Discard(g)

Next ==
    \/ Build
    \/ \E g \in Gen : Publish(g) \/ Retire(g) \/ DiscardCandidate(g) \/ Acquire(g)
    \/ \E g \in Gen, id \in LeaseId : Release(g, id)
    \/ \E S \in SUBSET Gen : DrainBegin(S)
    \/ BeginShutdown \/ DrainDone \/ DrainTimeout

Spec == Init /\ [][Next]_vars

(***************************************************************************)
(* Properties                                                              *)
(***************************************************************************)

(* Every variable holds a value the Python attributes can hold. *)
TypeOK ==
    /\ counter \in 0 .. MaxGenerations
    /\ state \in [Gen -> {"unbuilt", "building", "active", "draining", "retired"}]
    /\ leases \in [Gen -> Nat]
    /\ starts \in [Gen -> SUBSET LeaseId]
    /\ nextLease \in [Gen -> 0 .. MaxLeases]
    /\ zero \in [Gen -> BOOLEAN]
    /\ current \in Gen \cup {NoGen}
    /\ draining \subseteq Gen
    /\ retired \in Seq(Gen)
    /\ evicted \in Nat
    /\ shuttingDown \in BOOLEAN
    /\ drainSet \subseteq Gen /\ blocked \subseteq drainSet
    /\ dropped \subseteq Gen

(* The state every generation carries agrees with the two places the       *)
(* manager looks it up in: publish(), retire(), discard() and              *)
(* begin_shutdown() never leave a generation active but not current, or    *)
(* draining but unlisted (which no reclaim would ever retire).             *)
IndexExact ==
    /\ \A g \in Gen : state[g] = "active" <=> g = current
    /\ \A g \in Gen : state[g] = "draining" <=> g \in draining

(* A run never loses the generation it holds: an outstanding lease keeps   *)
(* its generation live, whatever publishes, drains and retirements happen, *)
(* until the terminal shutdown (retire()'s "a run must never lose the      *)
(* generation it holds").                                                  *)
HeldStaysLive ==
    \A g \in Gen : starts[g] # {} => g \in Live \/ shuttingDown

(* The lease count is the number of outstanding ids, on retired            *)
(* generations too: duplicate and out-of-order releases cannot skew it.    *)
LeaseCountExact ==
    \A g \in Gen : leases[g] = Cardinality(starts[g])

(* No stale wake-up and no lost one: the zero event is never set while a   *)
(* lease is out, and whoever is suspended in wait_idle() has a lease left  *)
(* whose release will wake it.                                             *)
WakeupsExact ==
    /\ \A g \in Gen : zero[g] => starts[g] = {}
    /\ \A g \in blocked : starts[g] # {} /\ ~zero[g]

(* The diagnostics buffer: at most HistoryLimit generations, none of them  *)
(* live, each retired one is either retained or counted as evicted, and    *)
(* nothing is evicted before the buffer is full.                           *)
HistoryExact ==
    /\ Len(retired) <= HistoryLimit
    /\ \A i \in 1 .. Len(retired) : state[retired[i]] = "retired"
    /\ Len(retired) + evicted = Cardinality({g \in Gen : state[g] = "retired"} \ dropped)
    /\ evicted > 0 => Len(retired) = HistoryLimit

(* The manager's redundant records agree under every order of leases,      *)
(* publications, drains and retirements: states with the indexes, counts   *)
(* with the outstanding leases, idle events with the counts, the history   *)
(* with what was retired.                                                  *)
BookkeepingExact ==
    /\ IndexExact
    /\ LeaseCountExact
    /\ WakeupsExact
    /\ HistoryExact

(* The life of a generation has one direction: no method ever moves a      *)
(* generation back, so a retired one is never published or leased again.   *)
Rank(s) == CASE s = "unbuilt" -> 0 [] s = "building" -> 1 [] s = "active" -> 2
             [] s = "draining" -> 3 [] s = "retired" -> 4
OneWay == [][\A g \in Gen : Rank(state[g]) <= Rank(state'[g])]_vars

(* The manager implements the contract its callers rely on. *)
Contract == INSTANCE GenerationContract WITH
    phase <- state, holds <- leases, terminal <- shuttingDown

ImplementsContract == Contract!Spec
================================================================================
