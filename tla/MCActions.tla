------------------------------- MODULE MCActions -------------------------------
(* An instance of Actions for TLC: two users who act on each other, on a    *)
(* stranger and on themselves, and play.                                    *)
EXTENDS Actions

CONSTANTS x, y, u1, u2, u3

Ask(kind, by, to) == [kind |-> kind, by |-> by, to |-> to]
MCCommands == {Ask("pair", x, y), Ask("pair", y, x), Ask("pair", x, x), Ask("pair", x, Stranger),
               Ask("solo", x, y), Ask("grow", x, Stranger), Ask("game", y, Stranger),
               Ask("perform", y, Stranger), Ask("random", x, Stranger)}
MCAmounts == {2, -3}
===============================================================================
