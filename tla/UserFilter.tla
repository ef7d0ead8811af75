------------------------------ MODULE UserFilter -------------------------------
(***************************************************************************)
(* The rate limit of UserFilterWrapper for one user in one chat: a counter *)
(* in Redis that every command of the user reads and then sets one higher, *)
(* in two calls, with a time to live.  Updates run concurrently, calls     *)
(* fail, go-redis repeats a SET whose answer was lost, and a SET given up  *)
(* may still reach Redis later.                                            *)
(***************************************************************************)
EXTENDS Naturals, FiniteSets

CONSTANTS Updates,        \* commands of the user in this chat
          MuteCooldown,   \* life of a count, 5 s in example.env
          SpamCooldown    \* life of a mute, 60 s in example.env

ASSUME CooldownAssumption == MuteCooldown \in Nat \ {0} /\ SpamCooldown \in Nat \ {0}

VARIABLES
    state,       \* the user's state in Redis; UNDEFINED when there is no key
    ttl,         \* time left to the key
    at,          \* at[u]: where the goroutine of update u stands
    seen,        \* seen[u]: the state it read
    wire,        \* SETs given up by their update that may still reach Redis
    muted,       \* updates for which TryMuteSpammer was started
    applied,     \* history: updates whose SET reached Redis
    overlap,     \* history: an update read while another was about to set
    passed       \* history: updates admitted since the key last expired

vars == <<state, ttl, at, seen, wire, muted, applied, overlap, passed>>

UNDEFINED == 0
QUIET == 1
LOUD == 2
MUTED == 3
States == {UNDEFINED, QUIET, LOUD, MUTED}

Init ==
    /\ state = UNDEFINED
    /\ ttl = 0
    /\ at = [u \in Updates |-> "new"]
    /\ seen = [u \in Updates |-> UNDEFINED]
    /\ wire = {}
    /\ muted = {}
    /\ applied = {}
    /\ overlap = FALSE
    /\ passed = 0

InFlight == {u \in Updates : at[u] = "set"} \cup wire
Goto(u, place) == at' = [at EXCEPT ![u] = place]

-------------------------------------------------------------------------------
GetOverwritesMute(u) ==                                            \* mutant
    /\ at[u] = "new"
    /\ seen' = [seen EXCEPT ![u] = IF state = MUTED THEN QUIET ELSE state]
    /\ Goto(u, "set")
    /\ overlap' = (overlap \/ InFlight # {})
    /\ UNCHANGED <<state, ttl, wire, muted, applied, passed>>

(* GET.  A MUTED user is denied and nothing is set.                         *)
Get(u) ==
    /\ at[u] = "new"
    /\ seen' = [seen EXCEPT ![u] = state]
    /\ Goto(u, IF state = MUTED THEN "denied" ELSE "set")
    /\ overlap' = (overlap \/ (state # MUTED /\ InFlight # {}))
    /\ UNCHANGED <<state, ttl, wire, muted, applied, passed>>

GetFails(u) ==
    /\ at[u] = "new"
    /\ Goto(u, "denied")
    /\ UNCHANGED <<state, ttl, seen, wire, muted, applied, overlap, passed>>

-------------------------------------------------------------------------------
(* SET of tryIncrUserState, from the state the update saw.                  *)
Write(u) ==
    /\ state' = seen[u] + 1
    /\ ttl' = IF seen[u] = LOUD THEN SpamCooldown ELSE MuteCooldown
    /\ applied' = applied \cup {u}

AdmitLoud(u) ==                                                    \* mutant
    Goto(u, "admitted") /\ muted' = muted \cup {u} /\ passed' = passed + 1

(* The third command is denied, whatever became of its SET, and mutes.      *)
DenyAndMute(u) == Goto(u, "denied") /\ muted' = muted \cup {u} /\ UNCHANGED passed

SetSucceeds(u) ==
    /\ at[u] = "set"
    /\ Write(u)
    /\ IF seen[u] = LOUD
         THEN DenyAndMute(u)
         ELSE Goto(u, "admitted") /\ passed' = passed + 1 /\ UNCHANGED muted
    /\ UNCHANGED <<seen, wire, overlap>>

(* Redis has set the key but its answer is lost: go-redis tries again. *)
SetUnanswered(u) ==
    /\ at[u] = "set"
    /\ Write(u)
    /\ UNCHANGED <<at, seen, wire, muted, overlap, passed>>

MuteOnFailure(u) ==                                                \* mutant
    /\ at[u] = "set"
    /\ DenyAndMute(u)
    /\ wire' = wire \cup {u}
    /\ UNCHANGED <<state, ttl, seen, applied, overlap>>

(* The update is told of an error; its request may still be under way. *)
SetFails(u) ==
    /\ at[u] = "set"
    /\ wire' = wire \cup {u}
    /\ IF seen[u] = LOUD
         THEN DenyAndMute(u)
         ELSE Goto(u, "denied") /\ UNCHANGED <<muted, passed>>
    /\ UNCHANGED <<state, ttl, seen, applied, overlap>>

LateSet(u) ==
    /\ u \in wire
    /\ wire' = wire \ {u}
    /\ Write(u)
    /\ UNCHANGED <<at, seen, muted, overlap, passed>>

SetVanishes(u) ==
    /\ u \in wire
    /\ wire' = wire \ {u}
    /\ UNCHANGED <<state, ttl, at, seen, muted, applied, overlap, passed>>

-------------------------------------------------------------------------------
(* The key's time to live; it expires with its last unit.                   *)
Tick ==
    /\ ttl > 0
    /\ ttl' = ttl - 1
    /\ IF ttl = 1
         THEN state' = UNDEFINED /\ passed' = 0
         ELSE UNCHANGED <<state, passed>>
    /\ UNCHANGED <<at, seen, wire, muted, applied, overlap>>

-------------------------------------------------------------------------------
Next ==
    \/ \E u \in Updates :
         \/ Get(u) \/ GetFails(u)
         \/ SetSucceeds(u) \/ SetUnanswered(u) \/ SetFails(u)
         \/ LateSet(u) \/ SetVanishes(u)
    \/ Tick

Spec == Init /\ [][Next]_vars

-------------------------------------------------------------------------------
(* Properties.                                                              *)

TypeOK ==
    /\ state \in States
    /\ ttl \in Nat /\ (ttl = 0 <=> state = UNDEFINED)
    /\ at \in [Updates -> {"new", "set", "admitted", "denied"}]
    /\ seen \in [Updates -> States]
    /\ wire \subseteq Updates /\ muted \subseteq Updates /\ applied \subseteq Updates
    /\ overlap \in BOOLEAN
    /\ passed \in Nat

(* Nobody is muted for fewer than three commands: two others were counted   *)
(* before, whatever calls failed, were repeated or overtook each other.     *)
MuteIsEarned ==
    \A u \in muted : \E v, w \in applied : v # w /\ u \notin {v, w}

(* Commands handled one at a time, none read while the SET of another is    *)
(* under way: two are admitted, the third is not,                           *)
(* until the key expires.                                                   *)
BurstBound == ~overlap => passed <= 2

(* ... and a mute is not lifted before its time.                            *)
MuteHolds ==
    [][~overlap /\ state = MUTED => state' = MUTED \/ (ttl = 1 /\ ttl' = 0)]_vars
===============================================================================
