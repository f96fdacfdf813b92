-------------------------- MODULE GenerationContract --------------------------
(***************************************************************************)
(* What chassis promises about runtime generations, and nothing more:      *)
(* a run holds one published generation, and the generation it holds stays *)
(* alive until the run lets go of it, or until the terminal shutdown.      *)
(* Both the GenerationManager (Generations) and the whole harness with its *)
(* concurrent reconciliations, runs and shutdown (Harness) implement it.   *)
(***************************************************************************)
EXTENDS Naturals

CONSTANT Gen      \* the identities of generations

VARIABLES
    phase,        \* where each generation is in its life
    holds,        \* how many runs hold each generation
    terminal      \* whether the terminal shutdown has begun

vars == <<phase, holds, terminal>>

Init ==
    /\ phase = [g \in Gen |-> "unbuilt"]
    /\ holds = [g \in Gen |-> 0]
    /\ terminal = FALSE

(* A candidate exists but no run can see it. *)
Create(g) ==
    /\ phase[g] = "unbuilt"
    /\ phase' = [phase EXCEPT ![g] = "building"]
    /\ UNCHANGED <<holds, terminal>>

(* One atomic switch: the candidate becomes the active generation and the  *)
(* one it replaces starts draining. At no moment are two active.           *)
Publish(g) ==
    /\ phase[g] \in {"unbuilt", "building"}
    /\ phase' = [h \in Gen |-> IF h = g THEN "active"
                               ELSE IF phase[h] = "active" THEN "draining"
                               ELSE phase[h]]
    /\ UNCHANGED <<holds, terminal>>

(* Only the active generation can be picked up by a new run. *)
Acquire(g) ==
    /\ phase[g] = "active"
    /\ holds' = [holds EXCEPT ![g] = @ + 1]
    /\ UNCHANGED <<phase, terminal>>

Release(g) ==
    /\ holds[g] > 0
    /\ holds' = [holds EXCEPT ![g] = @ - 1]
    /\ UNCHANGED <<phase, terminal>>

(* Some generations that no run holds end together; under the terminal     *)
(* shutdown also generations that are still held. The active generation    *)
(* never ends this way.                                                    *)
Retire(S) ==
    /\ S # {}
    /\ \A g \in S : /\ phase[g] \in {"building", "draining"}
                    /\ terminal \/ holds[g] = 0
    /\ phase' = [g \in Gen |-> IF g \in S THEN "retired" ELSE phase[g]]
    /\ UNCHANGED <<holds, terminal>>

Shutdown ==
    /\ terminal' = TRUE
    /\ phase' = [g \in Gen |-> IF phase[g] = "active" THEN "draining" ELSE phase[g]]
    /\ UNCHANGED holds

Next ==
    \/ \E g \in Gen : Create(g) \/ Publish(g) \/ Acquire(g) \/ Release(g)
    \/ \E S \in SUBSET Gen : Retire(S)
    \/ Shutdown

Spec == Init /\ [][Next]_vars
===============================================================================
