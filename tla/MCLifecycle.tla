------------------------------ MODULE MCLifecycle ------------------------------
(* An instance of Lifecycle for TLC. *)
EXTENDS Lifecycle

CONSTANTS u1, u2, u3, workers
===============================================================================
