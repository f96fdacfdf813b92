------------------------------- MODULE MCHarness -------------------------------
(* Model checking of Harness: a provider and its consumer, and two client  *)
(* tasks, so that a run can hold an old generation while the other task    *)
(* reconciles, fails, retries or is cancelled.                             *)
EXTENDS Harness, TLC

CONSTANTS base, provider, consumer

MCEntries == {provider, consumer}
MCRequires == (provider :> {}) @@ (consumer :> {provider})
MCActivationOrder == <<provider, consumer>>
(* The liveness runs: one plugin is enough to mount, fail, retry, replace  *)
(* and reclaim.                                                            *)
MCSoleEntries == {provider}
MCSoleRequires == provider :> {}
MCSoleOrder == <<provider>>

(* A chain of three: only behind a first mount can another task upset the  *)
(* plan for what follows.                                                  *)
MCChainEntries == {base, provider, consumer}
MCChainRequires == (base :> {}) @@ (provider :> {base}) @@ (consumer :> {provider})
MCChainOrder == <<base, provider, consumer>>

MCSymmetry == Permutations(Tasks)
================================================================================
