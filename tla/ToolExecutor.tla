------------------------------ MODULE ToolExecutor ------------------------------
(***************************************************************************)
(* chassis.tools.executor.ToolExecutor.execute and the ReplayChatModel     *)
(* around a model, as concurrent calls that share a tree of budgets        *)
(* (Budget) and a record and replay session (Replay).                      *)
(*                                                                         *)
(* A call suspends at the hooks, while it is authorized and while the tool *)
(* or the model works; pc says at which. Hooks,                            *)
(* policy providers, approvers, tools and models are the users' code and   *)
(* may answer anything, raise or be cancelled.                             *)
(***************************************************************************)
EXTENDS Budget, Replay

None == "none"

CONSTANTS
    Calls,       \* the calls that may be made
    BudgetsOf    \* the budgets a call may be given, None for no budget

ASSUME ExecutorAssumption ==
    /\ IsFiniteSet(Calls)
    /\ BudgetsOf \in [Calls -> SUBSET (Governors \cup {None})]
    /\ None \notin Governors /\ None \notin Keys
    /\ Loaded \notin Calls

VARIABLES
    pc,          \* where each call is suspended
    gov,         \* the budget a call was given, or None
    key,         \* its boundary key, None until its arguments are final
    hit,         \* the position of the record that answered it, or 0
    outcome      \* how it ended

callVars == <<pc, gov, key, hit, outcome>>
vars == <<budgetVars, replayVars, callVars>>

Init ==
    /\ BudgetInit /\ ReplayInit
    /\ pc = [c \in Calls |-> "idle"]
    /\ gov = [c \in Calls |-> None]
    /\ key = [c \in Calls |-> None]
    /\ hit = [c \in Calls |-> 0]
    /\ outcome = [c \in Calls |-> None]

Goto(c, where) == pc' = [pc EXCEPT ![c] = where] /\ UNCHANGED outcome
End(c, how) ==
    pc' = [pc EXCEPT ![c] = "done"] /\ outcome' = [outcome EXCEPT ![c] = how]

(***************************************************************************)
(* The gates: a refusal at any of them ends the call before it is charged  *)
(***************************************************************************)

(* Authorizing stands for the policy engine, the POLICY_DECISION hooks and *)
(* the approval gate, which all either let the call pass or refuse it.     *)
Gates == {"before", "authorizing"}

(* execute() up to the BEFORE_TOOL_EXECUTE hook. *)
Begin(c, g) ==
    /\ pc[c] = "idle"
    /\ g # None => Exists(g)
    /\ gov' = [gov EXCEPT ![c] = g]
    /\ Goto(c, "before")
    /\ UNCHANGED <<budgetVars, replayVars, key, hit>>

(* The hook may have replaced the arguments, so only now is the key known. *)
BeforeHook(c, k) ==
    /\ pc[c] = "before"
    /\ key' = [key EXCEPT ![c] = k]
    /\ Goto(c, "authorizing")
    /\ UNCHANGED <<budgetVars, replayVars, gov, hit>>

(* A hook stops the call or raises, a permission is denied or the policy   *)
(* provider fails, approval is not granted.                                *)
Refuse(c) ==
    /\ pc[c] \in Gates
    /\ End(c, "refused")
    /\ UNCHANGED <<budgetVars, replayVars, gov, key, hit>>

(***************************************************************************)
(* The charge and the look-up in the recording, without an await between   *)
(***************************************************************************)

Authorized(c) == pc[c] = "authorizing"
InTime(c) == gov[c] # None => CheckClock(gov[c])

(* Seeded fault: the clock is asked before the call is charged. *)
ChargedInTime(c) ==
    IF gov[c] # None /\ InTime(c) THEN Charge(gov[c], "tool_calls")
    ELSE UNCHANGED budgetVars

(* _charge(): consume(), whose effect stays even if the clock check that   *)
(* follows it refuses the call.                                            *)
Charged(c) ==
    IF gov[c] = None THEN UNCHANGED budgetVars ELSE Charge(gov[c], "tool_calls")

OverBudget(c) ==
    /\ Authorized(c) /\ gov[c] # None
    /\ ~Check(gov[c], "tool_calls", 1)
    /\ End(c, "over budget")
    /\ UNCHANGED <<budgetVars, replayVars, gov, key, hit>>

OutOfTime(c) ==
    /\ Authorized(c) /\ Charged(c) /\ ~InTime(c)
    /\ End(c, "out of time")
    /\ UNCHANGED <<replayVars, gov, key, hit>>

(* ReplayMismatch: nothing is left for the key and no fallback is allowed. *)
Mismatch(c) ==
    /\ Authorized(c) /\ Charged(c) /\ InTime(c)
    /\ ~RunsLive(key[c]) /\ ~HasRemaining(key[c])
    /\ End(c, "mismatch")
    /\ UNCHANGED <<replayVars, gov, key, hit>>

(* The recording answers; a recorded failure takes the path of a live one. *)
Replayed(c) ==
    /\ Authorized(c) /\ Charged(c) /\ InTime(c)
    /\ mode = "replay" /\ Take(key[c])
    /\ hit' = [hit EXCEPT ![c] = NextRecord(key[c])]
    /\ Goto(c, IF records[NextRecord(key[c])].result = "ok" THEN "after" ELSE "erring")
    /\ UNCHANGED <<gov, key>>

Invoke(c) ==
    /\ Authorized(c) /\ Charged(c) /\ InTime(c)
    /\ RunsLive(key[c])
    /\ Goto(c, "invoking")
    /\ UNCHANGED <<replayVars, gov, key, hit>>

(***************************************************************************)
(* The tool answers                                                        *)
(***************************************************************************)

(* The result is recorded at once, then AFTER_TOOL_EXECUTE is dispatched. *)
ToolReturns(c) ==
    /\ pc[c] = "invoking"
    /\ Capture(c, key[c], "ok")
    /\ Goto(c, "after")
    /\ UNCHANGED <<budgetVars, gov, key, hit>>

(* The tool raised or its timeout fired: first the TOOL_ERROR hook. *)
ToolFails(c) ==
    /\ pc[c] = "invoking"
    /\ Goto(c, "erring")
    /\ UNCHANGED <<budgetVars, replayVars, gov, key, hit>>

(* After the hook a failure is raised (raise_on_error), or recorded and   *)
(* returned.                                                               *)
ErrorHook(c, raising) ==
    /\ pc[c] = "erring"
    /\ End(c, IF raising THEN "raised" ELSE "returned")
    /\ IF raising \/ hit[c] # 0 THEN UNCHANGED replayVars
       ELSE Capture(c, key[c], "failed")
    /\ UNCHANGED <<budgetVars, gov, key, hit>>

AfterHook(c) ==
    /\ pc[c] = "after"
    /\ End(c, "returned")
    /\ UNCHANGED <<budgetVars, replayVars, gov, key, hit>>

(* A hook whose errors are raised fails: the answer is lost to the caller. *)
HookRaises(c) ==
    /\ pc[c] \in {"erring", "after"}
    /\ End(c, IF pc[c] = "after" THEN "lost" ELSE "raised")
    /\ UNCHANGED <<budgetVars, replayVars, gov, key, hit>>

(* The task of the call is cancelled at the await it is suspended in. *)
Cancel(c) ==
    /\ pc[c] \notin {"idle", "done"}
    /\ End(c, IF pc[c] \in Gates THEN "withdrawn"
              ELSE IF pc[c] = "after" THEN "lost" ELSE "cancelled")
    /\ UNCHANGED <<budgetVars, replayVars, gov, key, hit>>

(***************************************************************************)
(* ReplayChatModel: no gates and no charge, the same session               *)
(***************************************************************************)

ModelCalled(c, k) == pc[c] = "idle" /\ key' = [key EXCEPT ![c] = k]

ModelInvoke(c, k) ==
    /\ ModelCalled(c, k) /\ RunsLive(k)
    /\ Goto(c, "model")
    /\ UNCHANGED <<budgetVars, replayVars, gov, hit>>

ModelReplayed(c, k) ==
    /\ ModelCalled(c, k)
    /\ mode = "replay" /\ Take(k)
    /\ hit' = [hit EXCEPT ![c] = NextRecord(k)]
    /\ End(c, "returned")
    /\ UNCHANGED <<budgetVars, gov>>

ModelMismatch(c, k) ==
    /\ ModelCalled(c, k)
    /\ ~RunsLive(k) /\ ~HasRemaining(k)
    /\ End(c, "mismatch")
    /\ UNCHANGED <<budgetVars, replayVars, gov, hit>>

ModelReturns(c) ==
    /\ pc[c] = "model"
    /\ Capture(c, key[c], "ok")
    /\ End(c, "returned")
    /\ UNCHANGED <<budgetVars, gov, key, hit>>

(* The model raised, or there is none to call. *)
ModelFails(c) ==
    /\ pc[c] = "model"
    /\ End(c, "raised")
    /\ UNCHANGED <<budgetVars, replayVars, gov, key, hit>>

(***************************************************************************)
(* The specification                                                       *)
(***************************************************************************)

ToolCall(c) ==
    \/ \E g \in BudgetsOf[c] : Begin(c, g)
    \/ \E k \in Keys \ ModelKeys : BeforeHook(c, k)
    \/ Refuse(c)
    \/ OverBudget(c) \/ OutOfTime(c) \/ Mismatch(c) \/ Replayed(c) \/ Invoke(c)
    \/ ToolReturns(c) \/ ToolFails(c)
    \/ (\E raising \in BOOLEAN : ErrorHook(c, raising)) \/ AfterHook(c) \/ HookRaises(c)
    \/ Cancel(c)

ModelCall(c) ==
    \/ \E k \in ModelKeys : ModelInvoke(c, k) \/ ModelReplayed(c, k) \/ ModelMismatch(c, k)
    \/ ModelReturns(c) \/ ModelFails(c)

UsageReported == \E g \in Governors, report \in Reports : RecordUsage(g, report)

(* Nested runs, reports of usage and time, beside the calls. *)
Runs ==
    \/ \E h \in Governors \ {Root} : Child(h)
    \/ UsageReported
    \/ Tick

Next ==
    \/ \E c \in Calls : ToolCall(c) \/ ModelCall(c)
    \/ Runs /\ UNCHANGED <<replayVars, callVars>>

Spec == Init /\ [][Next]_vars

(***************************************************************************)
(* Properties                                                              *)
(***************************************************************************)

(* A call is given an allocated budget or none, has its key once its       *)
(* arguments are final, and has an outcome exactly when it is done.        *)
TypeOK ==
    /\ BudgetTypeOK
    /\ cursor \in [Keys -> Nat]
    /\ records \in Seq([key : Keys, result : Results, by : Calls \cup {Loaded}])
    /\ pc \in [Calls -> {"idle", "before", "authorizing", "invoking", "erring", "after",
                         "model", "done"}]
    /\ gov \in [Calls -> Governors \cup {None}]
    /\ key \in [Calls -> Keys \cup {None}]
    /\ hit \in [Calls -> Nat]
    /\ outcome \in [Calls -> {None, "refused", "over budget", "out of time", "mismatch",
                              "raised", "returned", "lost", "withdrawn", "cancelled"}]
    /\ \A c \in Calls :
         /\ gov[c] # None => Exists(gov[c])
         /\ pc[c] \in {"authorizing", "invoking", "erring", "after", "model"} =>
                key[c] \in Keys
         /\ (pc[c] = "done") <=> (outcome[c] # None)

(* Tool calls that were charged. *)
Paid(c) ==
    \/ pc[c] \in {"invoking", "erring", "after"}
    \/ outcome[c] \in {"out of time", "mismatch", "raised", "cancelled", "lost", "returned"}

(* Every allocation has been charged exactly the calls that passed the     *)
(* gates, and exactly the runs that were started, in it and in the runs    *)
(* nested below it: refusals by hooks, policy, approval or the limit cost  *)
(* nothing, and a refusal by the clock or by the recording does.           *)
ChargesExact ==
    \A g \in {h \in Governors : Exists(h)} :
        /\ used[g]["tool_calls"] =
             Quantify(Calls, LAMBDA c : gov[c] # None /\ g \in chain[gov[c]] /\ Paid(c))
        /\ used[g]["child_runs"] = Quantify(Governors \ {g}, LAMBDA h : g \in chain[h])

(* Every call is paid for once, whatever refused, failed, timed out or     *)
(* cancelled it: budgets and calls tell the same story.                    *)
CallsAccounted ==
    /\ TypeOK
    /\ ChargesExact

(* What remaining() promises is what check() grants, no more and no less,  *)
(* at every level of the tree.                                             *)
RemainingIsGranted ==
    \A g \in {h \in Governors : Exists(h)}, d \in Dimensions :
        LET left == Remaining(g, d)
        IN  \A n \in 0..3 : Check(g, d, n) <=> (left = NoLimit \/ n <= left)

(* The records of a key that the recording brought answer in its order,    *)
(* each one call; a result captured meanwhile answers none; and a tool or  *)
(* model runs only when nothing recorded is left to answer in its place,   *)
(* however many calls with the key are under way.                          *)
ReplayInOrder ==
    mode = "replay" => \A k \in Keys :
        LET callers == {c \in Calls : key[c] = k /\ hit[c] # 0}
            served  == {i \in Matches(k) : i <= loaded /\ Rank(k, i) < cursor[k]}
        IN  /\ {hit[c] : c \in callers} = served
            /\ Cardinality(callers) = Cardinality(served)
            /\ (\E c \in Calls : key[c] = k /\ pc[c] \in {"invoking", "model"}) =>
                   ~HasRemaining(k)

(* A recording session, or one that replays with the live fallback, holds  *)
(* one record of each call that ran and came back with a result, also when *)
(* the caller was cancelled or a hook raised after that; and none of calls *)
(* that were refused, answered from the recording, cancelled while they    *)
(* ran, or whose failure was raised to the caller.                         *)
RecordingExact ==
    \A c \in Calls :
        Cardinality({i \in DOMAIN records : records[i].by = c}) =
            IF /\ mode = "record" \/ (mode = "replay" /\ fallback = "live")
               /\ hit[c] = 0
               /\ pc[c] = "after" \/ outcome[c] \in {"returned", "lost"}
            THEN 1 ELSE 0

(* A recording holds what happened and answers in that order, to           *)
(* concurrent, failing and cancelled calls as well.                        *)
ReplayExact ==
    /\ ReplayInOrder
    /\ RecordingExact
================================================================================
