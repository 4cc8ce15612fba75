------------------------------- MODULE MCPool -------------------------------
(* Instances of ThreadPool for TLC. *)
EXTENDS PoolSafety

CONSTANTS w1, w2

TwoWorkers == <<w1, w2>>
=============================================================================
