----------------------------- MODULE MCUserFilter ------------------------------
(* Instances of Muting, and with it of UserFilter, for TLC.                 *)
EXTENDS Muting, TLC

CONSTANTS u1, u2, u3, u4

Interchangeable == Permutations(Updates)
===============================================================================
