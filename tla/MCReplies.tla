------------------------------- MODULE MCReplies -------------------------------
(* An instance of Replies for TLC. *)
EXTENDS Replies

CONSTANTS u1, u2
===============================================================================
