--------------------------------- MODULE Roles ---------------------------------
(***************************************************************************)
(* The roles of users.  A command registers the author of the message it   *)
(* replies to and its own author, reads the role of its author once, and   *)
(* is run much later: /promote and /demote then set the role of the other  *)
(* without a look at any role.  Commands run concurrently.                 *)
(*                                                                         *)
(* Owners are made by hand in the database; no command makes one.          *)
(***************************************************************************)
CONSTANTS Users,
          Handlers,     \* goroutines that handle an update
          Asks,         \* commands users may send: cmd, by, to
          Nobody        \* to: no message, or one by a bot or a channel

OwnerCommands == {"restart", "promote", "demote", "echo", "send"}
StaffCommands == {"admin_stats", "analyze"}
PublicCommands ==
    {"start", "help", "user_stats", "my_stats", "up", "s", "m", "f", "action",
     "random_action", "global_stats", "chat_stats", "play"}
Commands == OwnerCommands \cup StaffCommands \cup PublicCommands

ASSUME UsersAssumption == Nobody \notin Users
ASSUME AsksAssumption == Asks \subseteq [cmd : Commands, by : Users, to : Users \cup {Nobody}]

VARIABLES
    role,       \* users.user_role; None without a row
    at,         \* at[h]: where handler h stands
    ask,        \* ask[h]: the command it handles
    held,       \* history: roles its author had since the command arrived
    stale       \* history: a role was set for somebody no longer an owner

vars == <<role, at, ask, held, stale>>

ADMIN == "ADMIN"
OWNER == "OWNER"
USER == "USER"
None == "none"
Roles == {ADMIN, OWNER, USER}

By(h) == ask[h].by
To(h) == ask[h].to
Owners == {x \in Users : role[x] = OWNER}

Init ==
    /\ role \in [Users -> Roles \cup {None}]
    /\ Owners # {}
    /\ at = [h \in Handlers |-> "idle"]
    /\ ask \in [Handlers -> Asks]
    /\ held = [h \in Handlers |-> {}]
    /\ stale = FALSE

Goto(h, place) == at' = [at EXCEPT ![h] = place]

(* The role of x becomes r, which the history of every handler notes. *)
Becomes(x, r) ==
    /\ role' = [role EXCEPT ![x] = r]
    /\ held' = [h \in Handlers |-> IF By(h) = x THEN held[h] \cup {r} ELSE held[h]]

-------------------------------------------------------------------------------
(* PreprocessUser and CheckRoleAccess.                                      *)

Arrive(h) ==
    /\ at[h] = "idle"
    /\ \E a \in Asks :
         /\ ask' = [ask EXCEPT ![h] = a]
         /\ held' = [held EXCEPT ![h] = {role[a.by]}]
         /\ Goto(h, IF a.to = Nobody THEN "self" ELSE "other")
    /\ UNCHANGED <<role, stale>>

(* init_chat_user_data gives a new row the default role and leaves the role *)
(* of an old one alone.                                                     *)
RegisterResets(x) == Becomes(x, USER)                              \* mutant
Register(x) == IF role[x] = None THEN Becomes(x, USER) ELSE UNCHANGED <<role, held>>

RegisterOther(h) ==
    /\ at[h] = "other"
    /\ Register(To(h))
    /\ Goto(h, "self")
    /\ UNCHANGED <<ask, stale>>

RegisterSelf(h) ==
    /\ at[h] = "self"
    /\ Register(By(h))
    /\ Goto(h, "read")
    /\ UNCHANGED <<ask, stale>>

Allowed(cmd) ==
    {r \in Roles : \/ r = OWNER
                   \/ r = ADMIN /\ cmd \notin OwnerCommands
                   \/ r = USER /\ cmd \in PublicCommands}

RejectKnownUsers(h) ==                                             \* mutant
    /\ at[h] = "read"
    /\ Goto(h, IF role[By(h)] = USER /\ USER \notin Allowed(ask[h].cmd) THEN "idle" ELSE "run")
    /\ UNCHANGED <<role, ask, held, stale>>

(* GetUserByTgId and CheckRoleAccess: the last look at the author's role. *)
CheckRoleAccess(h) ==
    /\ at[h] = "read"
    /\ Goto(h, IF role[By(h)] \in Allowed(ask[h].cmd) THEN "run" ELSE "idle")
    /\ UNCHANGED <<role, ask, held, stale>>

(* A query fails: the update ends without an answer. *)
PreprocessFails(h) ==
    /\ at[h] \in {"other", "self", "read"}
    /\ Goto(h, "idle")
    /\ UNCHANGED <<role, ask, held, stale>>

-------------------------------------------------------------------------------
(* The commands.                                                            *)

Sets == [promote |-> ADMIN, demote |-> USER]
SetsRole(h) == ask[h].cmd \in DOMAIN Sets

ValidTargetOrSelf(h) == To(h) # Nobody                             \* mutant
ValidTarget(h) == To(h) # Nobody /\ To(h) # By(h)

(* SetUserRoleByTgId; an UPDATE of a row that does not exist does nothing. *)
SetUserRole(h) ==
    /\ IF role[To(h)] = None
         THEN UNCHANGED <<role, held>>
         ELSE Becomes(To(h), Sets[ask[h].cmd])
    /\ stale' = (stale \/ role[By(h)] # OWNER)

(* Promote and Demote *)
ChangeRole(h) ==
    /\ at[h] = "run" /\ SetsRole(h) /\ ValidTarget(h)
    /\ SetUserRole(h)
    /\ Goto(h, "answer")
    /\ UNCHANGED ask

(* The database fails, or its answer is lost after it has set the role. *)
ChangeRoleFails(h) ==
    /\ at[h] = "run" /\ SetsRole(h) /\ ValidTarget(h)
    /\ SetUserRole(h) \/ UNCHANGED <<role, held, stale>>
    /\ Goto(h, "idle")
    /\ UNCHANGED ask

NoTarget(h) ==
    /\ at[h] = "run" /\ SetsRole(h) /\ ~ValidTarget(h)
    /\ Goto(h, "idle")
    /\ UNCHANGED <<role, ask, held, stale>>

Answer(h) ==
    /\ at[h] = "answer"
    /\ Goto(h, "idle")
    /\ UNCHANGED <<role, ask, held, stale>>

(* Every other command leaves the roles alone. *)
Serve(h) ==
    /\ at[h] = "run" /\ ~SetsRole(h)
    /\ Goto(h, "idle")
    /\ UNCHANGED <<role, ask, held, stale>>

-------------------------------------------------------------------------------
Next ==
    \E h \in Handlers :
        \/ Arrive(h) \/ RegisterOther(h) \/ RegisterSelf(h)
        \/ CheckRoleAccess(h) \/ PreprocessFails(h)
        \/ ChangeRole(h) \/ ChangeRoleFails(h) \/ NoTarget(h) \/ Answer(h) \/ Serve(h)

Spec == Init /\ [][Next]_vars

-------------------------------------------------------------------------------
(* Properties.                                                              *)

TypeOK ==
    /\ role \in [Users -> Roles \cup {None}]
    /\ at \in [Handlers -> {"idle", "other", "self", "read", "run", "answer"}]
    /\ ask \in [Handlers -> Asks]
    /\ held \in [Handlers -> SUBSET (Roles \cup {None})]
    /\ stale \in BOOLEAN

(* A command is run only for an author who had a role it is allowed to at   *)
(* some moment since it arrived, whatever became of that role since.        *)
AuthorityWasHeld ==
    \A h \in Handlers : at[h] = "run" => held[h] \cap Allowed(ask[h].cmd) # {}

(* No sequence of promotions and demotions leaves the bot without an owner, *)
(* unless one of them was run for somebody who had stopped being an owner   *)
(* after the check: two owners who demote each other at the same time.      *)
OwnerRemains == Owners = {} => stale

(* A role changes only by a command of another user who was an owner since  *)
(* the command arrived, and never to OWNER; a row appears as USER, and      *)
(* registering again changes nothing.                                       *)
RolesComeFromOwners ==
    [][\A x \in Users :
        \/ role'[x] = role[x]
        \/ role[x] = None /\ role'[x] = USER
        \/ \E h \in Handlers :
             /\ at[h] = "run" /\ To(h) = x /\ By(h) # x /\ OWNER \in held[h]
             /\ role[x] # None /\ role'[x] \in {ADMIN, USER}]_vars
===============================================================================
