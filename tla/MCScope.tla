-------------------------------- MODULE MCScope --------------------------------
(* Model checking of Scope: a plugin scope with one child scope, resources *)
(* that go under either of them, and a background task.                    *)
EXTENDS Scope, TLC

CONSTANTS plugin, child

MCParent == child :> plugin
MCSymmetry == Permutations(Effects)
================================================================================
