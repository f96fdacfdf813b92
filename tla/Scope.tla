--------------------------------- MODULE Scope ---------------------------------
(***************************************************************************)
(* chassis.core.scope.Scope: a tree of scopes that own effects (cleanup    *)
(* callbacks and entered context managers), child scopes and background    *)
(* tasks, and close exactly once.                                          *)
(*                                                                         *)
(* Code between two awaits is one action. The close of a scope runs in a   *)
(* task of its own; the disposers, the tasks and the __aenter__ and        *)
(* __aexit__ of context managers are the users' code, which may take any   *)
(* time and may raise.                                                     *)
(***************************************************************************)
EXTENDS Naturals, Sequences, FiniteSets, SequencesExt

CONSTANTS
    Scopes,          \* the scopes that may exist
    Root,            \* the scope that exists from the start
    Parent,          \* Parent[c]: the scope in which child() creates c
    Effects,         \* the resources that may be put under a scope
    Tasks,           \* the background tasks that may be started
    MaxCancels       \* bound: how many scopes' close tasks are cancelled

None == "none"                     \* nothing
Unwind == "effect unwind"          \* the failure recorded for a BaseException
Items == Effects \cup (Scopes \ {Root})     \* what an exit stack holds

(* Scopes, effects and tasks are objects of three kinds. *)
ASSUME ScopeAssumption ==
    /\ Root \in Scopes
    /\ Parent \in [Scopes \ {Root} -> Scopes]
    /\ MaxCancels \in Nat
    /\ Effects \cap Scopes = {} /\ Effects \cap Tasks = {} /\ Scopes \cap Tasks = {}
    /\ {None, Unwind} \cap (Effects \cup Scopes \cup Tasks) = {}

VARIABLES
    sstate,      \* _state, "absent" for a child that does not exist yet
    stack,       \* _stack: the disposers still to run, newest last
    effects,     \* the keys of _effects
    tasks,       \* _tasks
    stragglers,  \* _stragglers
    failures,    \* _failures, by what failed
    close,       \* where the _close_task is
    waited,      \* the tasks _stop_tasks waits for
    disposing,   \* the item whose disposer is awaited, or None
    unwindErr,   \* whether an error escaped a disposer (unwind_error)
    res,         \* the resource behind each effect
    home,        \* the scope each effect or task was put under, or None
    run,         \* what each background task is doing
    pushed,      \* observation only: everything ever pushed on the stack
    interrupted  \* observation only: the scopes whose close task was cancelled

(* What the scopes know of themselves, and that with the user's code. *)
recordVars == <<sstate, stack, effects, tasks, stragglers, failures, close, waited,
                disposing, unwindErr, pushed, interrupted>>
scopeVars == <<sstate, stack, effects, tasks, stragglers, failures, close, waited,
               disposing, unwindErr, pushed, interrupted, res, home, run>>

ScopeInit ==
    /\ sstate = [s \in Scopes |-> IF s = Root THEN "open" ELSE "absent"]
    /\ stack = [s \in Scopes |-> <<>>]
    /\ pushed = stack
    /\ effects = [s \in Scopes |-> {}]
    /\ tasks = [s \in Scopes |-> {}]
    /\ stragglers = tasks /\ failures = tasks /\ waited = tasks
    /\ close = [s \in Scopes |-> "none"]
    /\ disposing = [s \in Scopes |-> None]
    /\ unwindErr = [s \in Scopes |-> FALSE]
    /\ res = [e \in Effects |-> "unused"]
    /\ home = [x \in Effects \cup Tasks |-> None]
    /\ run = [t \in Tasks |-> "unused"]
    /\ interrupted = {}

Push(s, x) ==
    /\ stack' = [stack EXCEPT ![s] = Append(@, x)]
    /\ pushed' = [pushed EXCEPT ![s] = Append(@, x)]
Own(s, x) == effects' = [effects EXCEPT ![s] = @ \cup {x}]
Disown(s, x) == effects' = [effects EXCEPT ![s] = @ \ {x}]

Running(s) == {t \in tasks[s] : run[t] \in {"running", "cancelling"}}

(* fully_disposed: what the scope claims about itself. *)
FullyDisposed(s) ==
    sstate[s] = "closed" /\ stragglers[s] = {} /\ effects[s] = {} /\ failures[s] = {}

(***************************************************************************)
(* Taking ownership: every operation is refused unless the scope is open   *)
(***************************************************************************)

(* cleanup(), and enter_context(), whose __enter__ does not suspend. *)
Cleanup(s, e) ==
    /\ sstate[s] = "open" /\ res[e] = "unused"
    /\ res' = [res EXCEPT ![e] = "held"]
    /\ home' = [home EXCEPT ![e] = s]
    /\ Own(s, e) /\ Push(s, e)
    /\ UNCHANGED <<interrupted, sstate, tasks, stragglers, failures, close, waited, disposing,
                   unwindErr, run>>

(* enter_async_context(): the effect is recorded, then __aenter__ awaited. *)
EnterBegin(s, e) ==
    /\ sstate[s] = "open" /\ res[e] = "unused"
    /\ res' = [res EXCEPT ![e] = "entering"]
    /\ home' = [home EXCEPT ![e] = s]
    /\ Own(s, e)
    /\ UNCHANGED <<interrupted, sstate, stack, pushed, tasks, stragglers, failures, close, waited,
                   disposing, unwindErr, run>>

(* Seeded fault: the disposer is pushed whatever happened meanwhile. *)
EnterEndAnyway(e) ==
    /\ res[e] = "entering"
    /\ res' = [res EXCEPT ![e] = "held"]
    /\ Push(home[e], e)
    /\ UNCHANGED <<interrupted, sstate, effects, tasks, stragglers, failures, close, waited,
                   disposing, unwindErr, home, run>>

(* __aenter__ returned: its disposer is pushed; in a scope that closed     *)
(* meanwhile the record is dropped and the manager is exited at once.      *)
EnterEnd(e) ==
    /\ res[e] = "entering"
    /\ IF sstate[home[e]] = "open"
       THEN res' = [res EXCEPT ![e] = "held"] /\ Push(home[e], e) /\ UNCHANGED effects
       ELSE res' = [res EXCEPT ![e] = "late"] /\ Disown(home[e], e) /\ UNCHANGED <<stack, pushed>>
    /\ UNCHANGED <<interrupted, sstate, tasks, stragglers, failures, close, waited, disposing,
                   unwindErr, home, run>>

(* __aenter__ raised: the scope owns nothing. *)
EnterFail(e) ==
    /\ res[e] = "entering"
    /\ res' = [res EXCEPT ![e] = "released"]
    /\ Disown(home[e], e)
    /\ UNCHANGED <<interrupted, sstate, stack, pushed, tasks, stragglers, failures, close, waited,
                   disposing, unwindErr, home, run>>

(* The late __aexit__ returned, or raised to the caller of                 *)
(* enter_async_context; the scope hears of neither.                        *)
LateExit(e) ==
    /\ res[e] = "late"
    /\ \E r \in {"released", "stuck"} : res' = [res EXCEPT ![e] = r]
    /\ UNCHANGED <<recordVars, home, run>>

(* child(): the child's aclose is an effect of its parent. *)
Child(c) ==
    /\ sstate[c] = "absent" /\ sstate[Parent[c]] = "open"
    /\ sstate' = [sstate EXCEPT ![c] = "open"]
    /\ Own(Parent[c], c) /\ Push(Parent[c], c)
    /\ UNCHANGED <<interrupted, tasks, stragglers, failures, close, waited, disposing, unwindErr,
                   res, home, run>>

(***************************************************************************)
(* Background tasks                                                        *)
(***************************************************************************)

(* create_task() *)
CreateTask(s, t) ==
    /\ sstate[s] = "open" /\ run[t] = "unused"
    /\ run' = [run EXCEPT ![t] = "running"]
    /\ tasks' = [tasks EXCEPT ![s] = @ \cup {t}]
    /\ home' = [home EXCEPT ![t] = s]
    /\ UNCHANGED <<interrupted, sstate, stack, pushed, effects, stragglers, failures, close,
                   waited, disposing, unwindErr, res>>

(* The task finishes, with an exception or without one (a cancelled task   *)
(* may do either); its done callback is scheduled behind what is ready.    *)
TaskEnd(t) ==
    /\ run[t] \in {"running", "cancelling"}
    /\ \E r \in {"ended", "raised"} : run' = [run EXCEPT ![t] = r]
    /\ UNCHANGED <<recordVars, res, home>>

(* _on_task_done *)
OnTaskDone(t) ==
    /\ run[t] \in {"ended", "raised"}
    /\ run' = [run EXCEPT ![t] = "done"]
    /\ tasks' = [tasks EXCEPT ![home[t]] = @ \ {t}]
    /\ failures' = [failures EXCEPT ![home[t]] = IF run[t] = "raised" THEN @ \cup {t} ELSE @]
    /\ UNCHANGED <<interrupted, sstate, stack, pushed, effects, stragglers, close, waited,
                   disposing, unwindErr, res, home>>

(***************************************************************************)
(* Closing                                                                 *)
(***************************************************************************)

(* aclose(): the first caller creates the close task, the others share it. *)
Aclose(s) ==
    /\ sstate[s] # "absent" /\ close[s] = "none"
    /\ close' = [close EXCEPT ![s] = "scheduled"]
    /\ UNCHANGED <<interrupted, sstate, stack, pushed, effects, tasks, stragglers, failures,
                   waited, disposing, unwindErr, res, home, run>>

(* _close starts: no new work, cancel the owned tasks and wait for them. *)
CloseBegin(s) ==
    /\ close[s] = "scheduled"
    /\ sstate' = [sstate EXCEPT ![s] = "closing"]
    /\ waited' = [waited EXCEPT ![s] = Running(s)]
    /\ run' = [t \in Tasks |-> IF t \in Running(s) THEN "cancelling" ELSE run[t]]
    /\ close' = [close EXCEPT ![s] = IF Running(s) = {} THEN "unwinding" ELSE "stopping"]
    /\ UNCHANGED <<interrupted, stack, pushed, effects, tasks, stragglers, failures, disposing,
                   unwindErr, res, home>>

(* asyncio.wait returns once every task is done (and, their callbacks      *)
(* being older than its own, called back), or at task_shutdown_timeout:    *)
(* the tasks still running are the stragglers, each one a failure.         *)
TasksStopped(s) ==
    /\ close[s] = "stopping"
    /\ \A t \in waited[s] : run[t] = "done"
    /\ close' = [close EXCEPT ![s] = "unwinding"]
    /\ UNCHANGED <<interrupted, sstate, stack, pushed, effects, tasks, stragglers, failures,
                   waited, disposing, unwindErr, res, home, run>>

(* Seeded fault: the owned tasks are awaited without a timeout. *)
StopTimeoutNever(s) == FALSE /\ UNCHANGED scopeVars

StopTimeout(s) ==
    /\ close[s] = "stopping"
    /\ \E t \in waited[s] : run[t] # "done"
    /\ stragglers' = [stragglers EXCEPT ![s] = waited[s] \cap Running(s)]
    /\ failures' = [failures EXCEPT ![s] = @ \cup (waited[s] \cap Running(s))]
    /\ close' = [close EXCEPT ![s] = "unwinding"]
    /\ UNCHANGED <<interrupted, sstate, stack, pushed, effects, tasks, waited, disposing,
                   unwindErr, res, home, run>>

(* The exit stack pops its newest entry; the wrapper drops the record and  *)
(* calls the disposer, which for a child is the child's aclose.            *)
DisposeBegin(s) ==
    LET x == Last(stack[s]) IN
    /\ close[s] = "unwinding" /\ disposing[s] = None /\ stack[s] # <<>>
    /\ stack' = [stack EXCEPT ![s] = Front(@)]
    /\ Disown(s, x)
    /\ disposing' = [disposing EXCEPT ![s] = x]
    /\ close' = IF x \in Scopes /\ close[x] = "none" THEN [close EXCEPT ![x] = "scheduled"]
                                                     ELSE close
    /\ UNCHANGED <<interrupted, sstate, pushed, tasks, stragglers, failures, waited, unwindErr,
                   res, home, run>>

(* Seeded fault: a child's aclose is started and not awaited. *)
OutcomesUnawaited(x) ==
    IF x \in Effects THEN {"returned", "raised", "cancelled"} ELSE {"returned"}

(* How a disposer ends: it returns, raises an Exception, which is recorded *)
(* against the item, or a BaseException, which the exit stack carries to   *)
(* the end of the unwind. An effect's own disposer may end in any way, a   *)
(* child's in the way the child's close task ended.                        *)
Outcomes(x) ==
    IF x \in Effects THEN {"returned", "raised", "cancelled"}
    ELSE {close[x]} \cap {"returned", "raised", "cancelled"}

DisposeEnd(s) ==
    LET x == disposing[s] IN
    /\ x # None
    /\ \E o \in Outcomes(x) :
         /\ failures' = [failures EXCEPT ![s] = IF o = "raised" THEN @ \cup {x} ELSE @]
         /\ unwindErr' = [unwindErr EXCEPT ![s] = @ \/ o = "cancelled"]
         /\ res' = IF x \in Scopes THEN res
                   ELSE [res EXCEPT ![x] = IF o = "returned" THEN "released" ELSE "stuck"]
    /\ disposing' = [disposing EXCEPT ![s] = None]
    /\ UNCHANGED <<interrupted, sstate, stack, pushed, effects, tasks, stragglers, close, waited,
                   home, run>>

(* The stack is empty: the scope is closed, and the close raises one error *)
(* for whatever was recorded so far.                                       *)
CloseEnd(s) ==
    LET found == failures[s] \cup (IF unwindErr[s] THEN {Unwind} ELSE {}) IN
    /\ close[s] = "unwinding" /\ disposing[s] = None /\ stack[s] = <<>>
    /\ sstate' = [sstate EXCEPT ![s] = "closed"]
    /\ failures' = [failures EXCEPT ![s] = found]
    /\ close' = [close EXCEPT ![s] = IF found = {} THEN "returned" ELSE "raised"]
    /\ UNCHANGED <<interrupted, stack, pushed, effects, tasks, stragglers, waited, disposing,
                   unwindErr, res, home, run>>

CountCancel(s) == Cardinality(interrupted) < MaxCancels /\ interrupted' = interrupted \cup {s}

(* A close task cancelled before it ran does nothing at all; one cancelled *)
(* while it waits for the tasks skips the unwind and still says closed.    *)
CancelClose(s) ==
    /\ CountCancel(s)
    /\ close[s] \in {"scheduled", "stopping"}
    /\ sstate' = [sstate EXCEPT ![s] = IF close[s] = "stopping" THEN "closed" ELSE @]
    /\ close' = [close EXCEPT ![s] = "cancelled"]
    /\ UNCHANGED <<stack, pushed, effects, tasks, stragglers, failures, waited, disposing,
                   unwindErr, res, home, run>>

(* Cancelled while it awaits a child's close: the child's close task is    *)
(* shielded and goes on by itself, the unwind continues without it.        *)
CancelUnwind(s) ==
    /\ CountCancel(s)
    /\ disposing[s] \in Scopes
    /\ unwindErr' = [unwindErr EXCEPT ![s] = TRUE]
    /\ disposing' = [disposing EXCEPT ![s] = None]
    /\ UNCHANGED <<sstate, stack, pushed, effects, tasks, stragglers, failures, close, waited, res,
                   home, run>>

(***************************************************************************)
(* The specification                                                       *)
(***************************************************************************)

Use(s) ==
    \/ \E e \in Effects : Cleanup(s, e) \/ EnterBegin(s, e)
    \/ \E t \in Tasks : CreateTask(s, t)
    \/ s # Root /\ Child(s)
    \/ Aclose(s)

CloseStep(s) ==
    \/ CloseBegin(s) \/ TasksStopped(s) \/ StopTimeout(s)
    \/ DisposeBegin(s) \/ DisposeEnd(s) \/ CloseEnd(s)

ScopeNext ==
    \/ \E s \in Scopes : Use(s) \/ CloseStep(s) \/ CancelClose(s) \/ CancelUnwind(s)
    \/ \E e \in Effects : EnterEnd(e) \/ EnterFail(e) \/ LateExit(e)
    \/ \E t \in Tasks : TaskEnd(t) \/ OnTaskDone(t)

ScopeSpec == ScopeInit /\ [][ScopeNext]_scopeVars

(* The event loop runs every ready task and fires the shutdown timeout, and *)
(* disposers return; the background tasks owe nothing, they may never stop. *)
FairSpec == ScopeSpec /\ \A s \in Scopes : WF_scopeVars(CloseStep(s))

(***************************************************************************)
(* Properties                                                              *)
(***************************************************************************)

(* Every variable holds a value the attribute it stands for can hold, and  *)
(* a disposer is awaited only by the close that started it.                *)
ScopeTypeOK ==
    /\ sstate \in [Scopes -> {"absent", "open", "closing", "closed"}]
    /\ stack \in [Scopes -> Seq(Items)] /\ pushed \in [Scopes -> Seq(Items)]
    /\ effects \in [Scopes -> SUBSET Items]
    /\ tasks \in [Scopes -> SUBSET Tasks]
    /\ stragglers \in [Scopes -> SUBSET Tasks] /\ waited \in [Scopes -> SUBSET Tasks]
    /\ failures \in [Scopes -> SUBSET (Items \cup Tasks \cup {Unwind})]
    /\ close \in [Scopes -> {"none", "scheduled", "stopping", "unwinding",
                             "returned", "raised", "cancelled"}]
    /\ disposing \in [Scopes -> Items \cup {None}]
    /\ \A s \in Scopes : disposing[s] # None => close[s] = "unwinding"
    /\ unwindErr \in [Scopes -> BOOLEAN] /\ interrupted \subseteq Scopes
    /\ res \in [Effects -> {"unused", "entering", "held", "late", "released", "stuck"}]
    /\ home \in [Effects \cup Tasks -> Scopes \cup {None}]
    /\ run \in [Tasks -> {"unused", "running", "cancelling", "ended", "raised", "done"}]

(* An effect is finished when nothing of it will run any more, a child     *)
(* scope when it is closed.                                                *)
Finished(x) == IF x \in Effects THEN res[x] \in {"released", "stuck"} ELSE sstate[x] = "closed"

(* "Unwinds effects in reverse registration order": the disposer of an     *)
(* item starts only when everything its scope took on later has finished,  *)
(* a child scope with all of its own effects included, whoever closes the  *)
(* child and whichever disposers fail, as long as no close of the two is   *)
(* cancelled.                                                              *)
ReverseOrder ==
    \A s \in Scopes \ interrupted : \A j \in DOMAIN pushed[s] : \A i \in 1 .. j - 1 :
        (close[s] # "none" /\ pushed[s][i] \notin Range(stack[s]))
            => Finished(pushed[s][j]) \/ pushed[s][j] \in interrupted

(* Nothing falls between two stools: every resource that is still held     *)
(* under a closed scope is one whose failure is on record, or, when the    *)
(* close itself was cancelled, one the scope still lists as its effect; no *)
(* disposer sits on a stack that was already unwound.                      *)
HeldIsAccounted ==
    \A e \in Effects :
        (res[e] \in {"held", "stuck"} /\ sstate[home[e]] = "closed" /\ e \in Range(pushed[home[e]]))
            => \/ close[home[e]] = "cancelled" /\ e \in effects[home[e]]
               \/ failures[home[e]] \cap {e, Unwind} # {}

(* A failure inside a child never disappears on the way up: a close that   *)
(* returned without an error has no child whose close did otherwise, and   *)
(* left no straggler and no stuck effect of its own.                       *)
CleanCloseIsClean ==
    \A s \in Scopes : close[s] = "returned" =>
        /\ stragglers[s] = {}
        /\ \A x \in Range(pushed[s]) :
              IF x \in Effects THEN res[x] = "released" ELSE close[x] = "returned"

(* Owned work cannot outlive its scope unnoticed: a task still running     *)
(* under a closed scope is listed as a straggler, unless the close itself  *)
(* was cancelled while it waited for the task.                             *)
SurvivorsAreStragglers ==
    \A s \in Scopes \ interrupted : sstate[s] = "closed" => Running(s) \subseteq stragglers[s]

(* A close tells the truth: what is still held, failed or running below a  *)
(* closed scope is on its record, and a close without an error left        *)
(* nothing.                                                                *)
CloseIsHonest ==
    /\ ScopeTypeOK
    /\ HeldIsAccounted
    /\ CleanCloseIsClean
    /\ SurvivorsAreStragglers

(* aclose() always ends, whatever the disposers do and even when an owned  *)
(* task never stops or the close of a child is cancelled half-way.         *)
CloseTerminates ==
    \A s \in Scopes : close[s] = "scheduled" ~> (sstate[s] = "closed" \/ s \in interrupted)
================================================================================
