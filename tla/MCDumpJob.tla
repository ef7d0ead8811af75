------------------------------- MODULE MCDumpJob -------------------------------
(* An instance of DumpJob for TLC: the runs are interchangeable. *)
EXTENDS DumpJob, TLC

Symmetry == Permutations(Runs)
===============================================================================
