----------------------------- MODULE MCBroadcast ------------------------------
(* Instances of Broadcast for TLC. *)
EXTENDS Broadcast, TLC

CONSTANTS b1, b2

MCChats2 == {1, 2}
MCChats3 == {1, 3, 4}   \* ids with a gap: the cursor is an id, not an offset
Interchangeable == Permutations(Batches)
===============================================================================
