----------------------------- MODULE MCGenerations -----------------------------
(* Model checking of Generations: three generations so that one can be     *)
(* current while two drain, two lease ids so that two runs can share a    *)
(* generation, or one can follow another after the count went back to 0.   *)
EXTENDS Generations
================================================================================
