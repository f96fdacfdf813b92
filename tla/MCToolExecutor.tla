----------------------------- MODULE MCToolExecutor -----------------------------
(* Model checking of ToolExecutor: a run, a run nested in it and one       *)
(* nested in that; two calls; one tool key and one model key.              *)
EXTENDS ToolExecutor, TLC

CONSTANTS outer, inner, innermost, toolKey, modelKey, c1, c2

MCGovernors == {outer, inner, innermost}
MCParent == (inner :> outer) @@ (innermost :> inner)
MCCalls == {c1, c2}
MCBudgetsOf == (c1 :> {None, outer}) @@ (c2 :> {innermost})
MCKeys == {toolKey, modelKey}

MCLimits(tools, models, tokens, children) ==
    [d \in Dimensions |-> CASE d = "tool_calls" -> tools
                            [] d = "model_calls" -> models
                            [] d = "tokens" -> tokens
                            [] d = "child_runs" -> children
                            [] OTHER -> NoLimit]
(* The nested run has more tool calls than the run around it has left, and *)
(* the innermost one is limited only by those around it.                   *)
MCLimit == (outer :> MCLimits(1, NoLimit, 2, 2))
           @@ (inner :> MCLimits(2, 1, NoLimit, NoLimit))
           @@ (innermost :> MCLimits(NoLimit, NoLimit, NoLimit, 0))
MCWallLimit == (outer :> 2) @@ (inner :> 1) @@ (innermost :> NoLimit)

(* A report of a model call with its tokens. *)
MCReport(n, t) == [d \in Reported |-> CASE d = "model_calls" -> n [] d = "tokens" -> t
                                        [] OTHER -> 0]
MCReports == {MCReport(1, 1), MCReport(1, 2)}

================================================================================
