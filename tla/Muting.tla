--------------------------------- MODULE Muting ---------------------------------
(***************************************************************************)
(* The rate limit of UserFilter together with TryMuteSpammer, which a      *)
(* denied third command starts in a goroutine of its own: it waits for the *)
(* rate limiter and asks Telegram four times, and at last has the user     *)
(* restricted until the date of the message plus the cooldown.  Telegram   *)
(* takes a date too near for no date at all, and then the user is          *)
(* restricted for ever.                                                    *)
(***************************************************************************)
EXTENDS UserFilter

CONSTANTS MinMute,      \* Telegram's shortest restriction, 30 s
          MaxDelay      \* bound of the time a message takes to its handler

ASSUME MuteAssumption == MinMute \in Nat \ {0} /\ MaxDelay \in Nat

VARIABLES
    age,        \* age[u]: time since a message that mutes was sent, capped
    step,       \* step[u]: where the goroutine of TryMuteSpammer stands
    allowed,    \* allowed[u]: the bot may restrict members
    until,      \* time left to the restriction of the user
    by,         \* history: the updates that have restricted the user, the last one
    late        \* history: a restriction was asked for less than MinMute before its end

muteVars == <<step, allowed, until, by, late>>
allVars == <<vars, age, muteVars>>

Forever == SpamCooldown + 1

MuteInit ==
    /\ Init
    /\ age = [u \in Updates |-> 0]
    /\ step = [u \in Updates |-> "me"]
    /\ allowed = [u \in Updates |-> FALSE]
    /\ until = 0
    /\ by = {}
    /\ late = FALSE

-------------------------------------------------------------------------------
(* The rate limit.  A message may be some time under way to its handler.    *)

Filter ==
    /\ \E u \in Updates :
         \/ /\ Get(u)
            /\ \E d \in 0..MaxDelay : age' = [age EXCEPT ![u] = IF state = LOUD THEN d ELSE 0]
         \/ /\ GetFails(u) \/ SetSucceeds(u) \/ SetUnanswered(u) \/ SetFails(u)
               \/ LateSet(u) \/ SetVanishes(u)
            /\ UNCHANGED age
    /\ UNCHANGED muteVars

-------------------------------------------------------------------------------
(* TryMuteSpammer.                                                          *)

At(u, place) == u \in muted /\ step[u] = place
Step(u, place) == step' = [step EXCEPT ![u] = place]

GetMe(u) ==
    /\ At(u, "me")
    /\ Step(u, "bot")
    /\ UNCHANGED <<vars, age, allowed, until, by, late>>

(* GetChatMember of the bot: it is an owner, or an administrator who may. *)
GetBotMember(u) ==
    /\ At(u, "bot")
    /\ \E may \in BOOLEAN : allowed' = [allowed EXCEPT ![u] = may]
    /\ Step(u, "user")
    /\ UNCHANGED <<vars, age, until, by, late>>

(* GetChatMember of the user is no owner and no administrator, or fails,    *)
(* which is only logged.                                                    *)
GetUserMember(u) ==
    /\ At(u, "user")
    /\ Step(u, IF allowed[u] THEN "restrict" ELSE "done")
    /\ UNCHANGED <<vars, age, allowed, until, by, late>>

(* A call fails, the user is an administrator, or the chat no supergroup. *)
GiveUp(u) ==
    /\ u \in muted /\ step[u] # "done"
    /\ Step(u, "done")
    /\ UNCHANGED <<vars, age, allowed, until, by, late>>

LeftFromNow(u) == SpamCooldown                                     \* mutant
Left(u) == SpamCooldown - age[u]

(* muteSpammer *)
Restrict(u) ==
    /\ At(u, "restrict")
    /\ until' = IF Left(u) < MinMute THEN Forever ELSE Left(u)
    /\ late' = (late \/ Left(u) < MinMute)
    /\ by' = {u}
    /\ Step(u, "done")
    /\ UNCHANGED <<vars, age, allowed>>

-------------------------------------------------------------------------------
(* Time passes for the key, for the messages and for the restriction.       *)
Pass ==
    /\ Tick \/ (ttl = 0 /\ UNCHANGED vars)
    /\ age' = [u \in Updates |->
                 IF seen[u] = LOUD /\ step[u] # "done" /\ age[u] < SpamCooldown THEN age[u] + 1 ELSE age[u]]
    /\ until' = IF until \in {0, Forever} THEN until ELSE until - 1
    /\ UNCHANGED <<step, allowed, by, late>>

MuteNext ==
    \/ Filter
    \/ \E u \in Updates :
         GetMe(u) \/ GetBotMember(u) \/ GetUserMember(u) \/ GiveUp(u) \/ Restrict(u)
    \/ Pass

MuteSpec == MuteInit /\ [][MuteNext]_allVars

-------------------------------------------------------------------------------
(* Properties.                                                              *)

MuteTypeOK ==
    /\ TypeOK
    /\ age \in [Updates -> Nat]
    /\ step \in [Updates -> {"me", "bot", "user", "restrict", "done"}]
    /\ allowed \in [Updates -> BOOLEAN]
    /\ until \in Nat
    /\ by \subseteq Updates
    /\ late \in BOOLEAN

(* A user whom Telegram keeps silent is MUTED for the bot for at least as   *)
(* long, and so is heard again by both or only by Telegram, when commands   *)
(* do not overlap, the SET of the mute reached Redis, and the bot asked for *)
(* the restriction no less than MinMute before its end.                     *)
MutesAgree ==
    ~overlap /\ ~late /\ by \subseteq applied /\ until > 0 => state = MUTED /\ until <= ttl
===============================================================================
