--------------------------------- MODULE Budget ---------------------------------
(***************************************************************************)
(* chassis.budget.governor.BudgetGovernor: allocations of a budget in a    *)
(* tree. What a run consumes counts against its own allocation and every   *)
(* enclosing one. The methods are synchronous, so each is one step.        *)
(***************************************************************************)
EXTENDS Integers, Sequences, FiniteSetsExt

CONSTANTS
    Governors,   \* the allocations that may exist
    Root,        \* the allocation of the outermost run
    Parent,      \* Parent[h]: the allocation of the run that starts h's run
    Limit,       \* Limit[g][d]: the configured limit of a dimension
    WallLimit,   \* WallLimit[g]: the limit of wall_clock_seconds
    NoLimit,     \* a dimension that is not limited (None)
    Reports,     \* the reports of usage that an integration may make
    MaxNow       \* bound: the last second of the clock

(* Usage that integrations report after the fact, and usage charged at a   *)
(* boundary that the harness mediates.                                     *)
Reported == {"model_calls", "tokens", "estimated_cost"}
Dimensions == Reported \cup {"tool_calls", "child_runs"}

ASSUME BudgetAssumption ==
    /\ Root \in Governors /\ IsFiniteSet(Governors)
    /\ Parent \in [Governors \ {Root} -> Governors]
    /\ NoLimit \notin Nat
    /\ Limit \in [Governors -> [Dimensions -> Nat \cup {NoLimit}]]
    /\ WallLimit \in [Governors -> Nat \cup {NoLimit}]
    /\ Reports \subseteq [Reported -> Nat]
    /\ MaxNow \in Nat

VARIABLES
    used,      \* _usage of each allocation
    chain,     \* the allocation and those that enclose it, {} before it exists
    started,   \* started_at
    now,       \* the clock
    granted    \* history: the reports whose record() returned, and to whom

budgetVars == <<used, chain, started, now, granted>>

Amounts == [Dimensions -> Nat]
Nothing == [d \in Dimensions |-> 0]
Only(d, n) == [Nothing EXCEPT ![d] = n]

BudgetInit ==
    /\ used = [g \in Governors |-> Nothing]
    /\ chain = [g \in Governors |-> IF g = Root THEN {Root} ELSE {}]
    /\ started = [g \in Governors |-> 0]
    /\ now = 0
    /\ granted = <<>>

Exists(g) == chain[g] # {}

(* Seeded fault: the enclosing allocations are not asked. *)
CheckOwn(g, d, n) == Limit[g][d] # NoLimit => used[g][d] + n <= Limit[g][d]

(* check(): no allocation of the chain would be exceeded. *)
Check(g, d, n) ==
    \A a \in chain[g] : Limit[a][d] # NoLimit => used[a][d] + n <= Limit[a][d]

(* check(WALL_CLOCK_SECONDS): the default amount asks for one more second. *)
CheckClock(g) ==
    \A a \in chain[g] : WallLimit[a] # NoLimit => now - started[a] + 1 <= WallLimit[a]

(* _usage.add and the _record of the enclosing allocations. *)
Add(g, amount) ==
    used' = [a \in Governors |->
               IF a \in chain[g]
               THEN [d \in Dimensions |-> used[a][d] + amount[d]] ELSE used[a]]

Consume(g, d, n) == Check(g, d, n) /\ Add(g, Only(d, n))

(* child(): a nested run counts against its parent and gets an allocation  *)
(* of its own, with limits that may be above or below the parent's.        *)
Child(h) ==
    /\ Exists(Parent[h]) /\ ~Exists(h)
    /\ Consume(Parent[h], "child_runs", 1)
    /\ chain' = [chain EXCEPT ![h] = chain[Parent[h]] \cup {h}]
    /\ started' = [started EXCEPT ![h] = now]
    /\ UNCHANGED <<now, granted>>

(* Every amount of a report is within every limit of the chain. *)
Fits(g, report) == \A d \in Reported : report[d] # 0 => Check(g, d, report[d])

AddReport(g, report) ==
    Add(g, [d \in Dimensions |-> IF d \in Reported THEN report[d] ELSE 0])
Grant(g, report) == granted' = Append(granted, [by |-> g, usage |-> report])

(* Seeded fault: the amounts of a report are checked and added in turn, as *)
(* consume() would, so that those before a refused one have been added.    *)
RecordUsageInTurn(g, report) ==
    LET turns  == <<"model_calls", "tokens", "estimated_cost">>
        Alone(i) == [d \in Reported |-> IF d = turns[i] THEN report[d] ELSE 0]
        passed == {i \in 1..3 : \A j \in 1..i : Fits(g, Alone(j))}
    IN  /\ Exists(g)
        /\ AddReport(g, [d \in Reported |-> IF \E i \in passed : turns[i] = d THEN report[d] ELSE 0])
        /\ IF passed = 1..3 THEN Grant(g, report) ELSE UNCHANGED granted
        /\ UNCHANGED <<chain, started, now>>

(* record(): every amount of a report is checked before any is added; one  *)
(* that an allocation of the chain has no room for refuses the report.     *)
RecordUsage(g, report) ==
    /\ Exists(g)
    /\ \/ Fits(g, report) /\ AddReport(g, report) /\ Grant(g, report)
       \/ ~Fits(g, report) /\ UNCHANGED <<used, granted>>
    /\ UNCHANGED <<chain, started, now>>

(* A boundary that the harness mediates charges one unit. *)
Charge(g, d) ==
    /\ Exists(g)
    /\ Consume(g, d, 1)
    /\ UNCHANGED <<chain, started, now, granted>>

Tick ==
    /\ now < MaxNow
    /\ now' = now + 1
    /\ UNCHANGED <<used, chain, started, granted>>

(* Seeded fault: the enclosing allocations are left out. *)
RemainingOwn(g, d) == IF Limit[g][d] = NoLimit THEN NoLimit ELSE Limit[g][d] - used[g][d]

(* remaining(): the least of what the allocations of the chain have left. *)
Remaining(g, d) ==
    LET limited == {a \in chain[g] : Limit[a][d] # NoLimit}
    IN  IF limited = {} THEN NoLimit
        ELSE Max({0, Min({Limit[a][d] - used[a][d] : a \in limited})})

BudgetNext ==
    \/ \E h \in Governors \ {Root} : Child(h)
    \/ \E g \in Governors, report \in Reports : RecordUsage(g, report)
    \/ \E g \in Governors : Charge(g, "tool_calls")
    \/ Tick

(* The governors by themselves, used in any order. *)
BudgetSpec == BudgetInit /\ [][BudgetNext]_budgetVars

(* The counters of BudgetUsage stay natural numbers, and reports are granted *)
(* to allocations.                                                          *)
BudgetTypeOK ==
    /\ used \in [Governors -> Amounts]
    /\ chain \in [Governors -> SUBSET Governors]
    /\ started \in [Governors -> 0..MaxNow]
    /\ now \in 0..MaxNow
    /\ granted \in Seq([by : Governors, usage : Reports])

(* No allocation is ever above a limit it was given, whatever its nested   *)
(* runs were granted: check() walks up the chain before consume() and      *)
(* record() add to it.                                                     *)
WithinLimits ==
    \A g \in Governors, d \in Dimensions :
        Limit[g][d] # NoLimit => used[g][d] <= Limit[g][d]

(* An enclosing allocation has consumed at least what each run inside it   *)
(* has: _record reaches every level above the one that is charged.         *)
AncestorsCover ==
    \A g \in Governors : \A a \in chain[g], d \in Dimensions : used[g][d] <= used[a][d]

(* The units of a dimension that the granted reports of a run, and of the  *)
(* runs nested in it, have brought.                                        *)
Brought(g, d) ==
    UNION {{i} \X (1..granted[i].usage[d]) :
             i \in {j \in DOMAIN granted : g \in chain[granted[j].by]}}

(* A report of usage counts whole or not at all, and then at every level:  *)
(* the reported usage of an allocation is exactly what record() granted to *)
(* it and to the runs nested in it. A report that some enclosing           *)
(* allocation refuses for one of its amounts leaves nothing behind at any  *)
(* level, and a granted one is forgotten at none.                          *)
ReportsExact ==
    \A g \in {h \in Governors : Exists(h)}, d \in Reported :
        used[g][d] = Cardinality(Brought(g, d))
================================================================================
