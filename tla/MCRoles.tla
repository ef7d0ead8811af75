-------------------------------- MODULE MCRoles --------------------------------
(* An instance of Roles for TLC: every promotion and demotion among the     *)
(* users, and one command of each of the other classes.                     *)
EXTENDS Roles, TLC

CONSTANTS x, y, z, h1, h2

MCAsks ==
    [cmd : {"promote", "demote"}, by : Users, to : Users \cup {Nobody}]
        \cup [cmd : {"restart", "analyze", "help"}, by : Users, to : {Nobody}]
Interchangeable == Permutations(Users) \cup Permutations(Handlers)
===============================================================================
