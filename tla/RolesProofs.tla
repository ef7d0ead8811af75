------------------------------ MODULE RolesProofs ------------------------------
(***************************************************************************)
(* Proofs about Roles, for any number of users and concurrent commands.    *)
(***************************************************************************)
EXTENDS Roles, TLAPS

(* While a command is under way the history has its author's role. *)
HeldNow == \A h \in Handlers : at[h] # "idle" => role[By(h)] \in held[h]

IInv == TypeOK /\ HeldNow /\ AuthorityWasHeld /\ OwnerRemains

-------------------------------------------------------------------------------
(* What the actions are built from.                                         *)

(* A command asked for names a command, its author and a target. *)
LEMMA AskShape ==
    ASSUME TypeOK, NEW h \in Handlers
    PROVE  /\ ask[h] \in Asks /\ By(h) \in Users /\ To(h) \in Users \cup {Nobody}
           /\ ask[h].cmd \in Commands
BY AsksAssumption DEF TypeOK, By, To

(* Only owners may promote and demote. *)
LEMMA SettersAreOwners ==
    ASSUME NEW h \in Handlers, SetsRole(h)
    PROVE  Allowed(ask[h].cmd) = {OWNER}
BY DEF SetsRole, Sets, Allowed, Roles, OwnerCommands, StaffCommands, PublicCommands,
       ADMIN, OWNER, USER

(* A role that changes is noted for every command of its user, and only     *)
(* added to what was noted.                                                 *)
LEMMA BecomesKeeps ==
    ASSUME TypeOK, HeldNow, ask' = ask, NEW x \in Users, NEW r \in Roles, Becomes(x, r)
    PROVE  /\ role' \in [Users -> Roles \cup {None}]
           /\ held' \in [Handlers -> SUBSET (Roles \cup {None})]
           /\ \A h \in Handlers : held[h] \subseteq held'[h]
           /\ \A h \in Handlers : at[h] # "idle" => role'[By(h)] \in held'[h]
           /\ \A y \in Users : role'[y] = IF y = x THEN r ELSE role[y]
<1>1. /\ role' \in [Users -> Roles \cup {None}]
      /\ \A y \in Users : role'[y] = IF y = x THEN r ELSE role[y]
  BY DEF TypeOK, Becomes
<1>2. \A h \in Handlers : held'[h] = IF By(h) = x THEN held[h] \cup {r} ELSE held[h]
  BY DEF Becomes
<1>3. held' \in [Handlers -> SUBSET (Roles \cup {None})]
  BY DEF TypeOK, Becomes
<1>4. ASSUME NEW h \in Handlers, at[h] # "idle" PROVE role'[By(h)] \in held'[h]
  <2>1. role[By(h)] \in held[h] /\ By(h) \in Users
    BY <1>4, AskShape DEF HeldNow
  <2>. QED BY <2>1, <1>1, <1>2
<1>. QED BY <1>1, <1>2, <1>3, <1>4

(* What the rest of a step has to keep: places go on, roles and history as  *)
(* in BecomesKeeps, nobody new stands before the command's effect, and an   *)
(* owner is left unless the step is of somebody no longer one.              *)
LEMMA StepKeeps ==
    ASSUME IInv, NEW h \in Handlers, ask' = ask,
           at' \in [Handlers -> {"idle", "other", "self", "read", "run", "answer"}],
           \A g \in Handlers \ {h} : at'[g] = at[g],
           at[h] # "idle",
           at'[h] = "run" => held'[h] \cap Allowed(ask[h].cmd) # {},
           role' \in [Users -> Roles \cup {None}],
           held' \in [Handlers -> SUBSET (Roles \cup {None})],
           \A g \in Handlers : held[g] \subseteq held'[g],
           \A g \in Handlers : at[g] # "idle" => role'[By(g)] \in held'[g],
           stale' \in BOOLEAN, OwnerRemains'
    PROVE  IInv'
<1>1. TypeOK'
  BY DEF IInv, TypeOK
<1>2. HeldNow'
  <2>. SUFFICES ASSUME NEW g \in Handlers, at'[g] # "idle"
                PROVE  role'[By(g)'] \in held'[g]
    BY DEF HeldNow
  <2>1. By(g)' = By(g)
    BY DEF By
  <2>2. at[g] # "idle"
    BY DEF IInv
  <2>. QED BY <2>1, <2>2
<1>3. AuthorityWasHeld'
  <2>. SUFFICES ASSUME NEW g \in Handlers, at'[g] = "run"
                PROVE  held'[g] \cap Allowed(ask'[g].cmd) # {}
    BY DEF AuthorityWasHeld, Allowed, Roles
  <2>1. CASE g = h
    BY <2>1
  <2>2. CASE g # h
    <3>1. held[g] \cap Allowed(ask[g].cmd) # {}
      BY <2>2 DEF IInv, AuthorityWasHeld
    <3>. QED BY <3>1
  <2>. QED BY <2>1, <2>2
<1>. QED BY <1>1, <1>2, <1>3 DEF IInv

(* The same for a step that leaves roles and history alone. *)
LEMMA LocalStepKeeps ==
    ASSUME IInv, NEW h \in Handlers, UNCHANGED <<role, ask, held, stale>>,
           NEW place \in {"idle", "self", "read", "run", "answer"}, Goto(h, place),
           at[h] # "idle",
           place = "run" => role[By(h)] \in Allowed(ask[h].cmd)
    PROVE  IInv'
<1>1. /\ at' \in [Handlers -> {"idle", "other", "self", "read", "run", "answer"}]
      /\ \A g \in Handlers \ {h} : at'[g] = at[g]
      /\ at'[h] = place
  BY DEF IInv, TypeOK, Goto
<1>2. role[By(h)] \in held[h]
  BY DEF IInv, HeldNow
<1>3. at'[h] = "run" => held'[h] \cap Allowed(ask[h].cmd) # {}
  BY <1>1, <1>2
<1>4. OwnerRemains'
  BY DEF IInv, OwnerRemains, Owners
<1>5. \A g \in Handlers : at[g] # "idle" => role'[By(g)] \in held'[g]
  BY DEF IInv, HeldNow
<1>6. role' = role /\ held' = held /\ stale' = stale /\ ask' = ask
  OBVIOUS
<1>7. /\ role' \in [Users -> Roles \cup {None}]
      /\ held' \in [Handlers -> SUBSET (Roles \cup {None})]
      /\ stale' \in BOOLEAN
  BY <1>6 DEF IInv, TypeOK
<1>. QED BY <1>1, <1>3, <1>4, <1>5, <1>6, <1>7, StepKeeps

-------------------------------------------------------------------------------
(* Every step preserves the invariant.                                      *)

LEMMA ArriveKeeps ==
    ASSUME IInv, NEW h \in Handlers, Arrive(h)
    PROVE  IInv'
<1>1. PICK a \in Asks :
        /\ ask' = [ask EXCEPT ![h] = a]
        /\ held' = [held EXCEPT ![h] = {role[a.by]}]
        /\ Goto(h, IF a.to = Nobody THEN "self" ELSE "other")
  BY DEF Arrive
<1>2. role' = role /\ stale' = stale /\ a.by \in Users
  BY AsksAssumption DEF Arrive
<1>3. TypeOK'
  <2>1. role[a.by] \in Roles \cup {None}
    BY <1>2 DEF IInv, TypeOK
  <2>2. /\ ask' \in [Handlers -> Asks]
        /\ held' \in [Handlers -> SUBSET (Roles \cup {None})]
    BY <1>1, <2>1 DEF IInv, TypeOK
  <2>3. at' \in [Handlers -> {"idle", "other", "self", "read", "run", "answer"}]
    BY <1>1 DEF IInv, TypeOK, Goto
  <2>. QED BY <1>2, <2>2, <2>3 DEF IInv, TypeOK
<1>4. \A g \in Handlers \ {h} : at'[g] = at[g] /\ ask'[g] = ask[g] /\ held'[g] = held[g]
  BY <1>1 DEF IInv, TypeOK, Goto
<1>5. at'[h] # "run" /\ ask'[h] = a /\ held'[h] = {role[a.by]}
  BY <1>1 DEF IInv, TypeOK, Goto
<1>6. HeldNow'
  <2>. SUFFICES ASSUME NEW g \in Handlers, at'[g] # "idle"
                PROVE  role'[ask'[g].by] \in held'[g]
    BY DEF HeldNow, By
  <2>. QED BY <1>2, <1>4, <1>5 DEF IInv, HeldNow, By
<1>7. AuthorityWasHeld'
  <2>. SUFFICES ASSUME NEW g \in Handlers, at'[g] = "run"
                PROVE  held'[g] \cap Allowed(ask'[g].cmd) # {}
    BY DEF AuthorityWasHeld, Allowed, Roles
  <2>. QED BY <1>4, <1>5 DEF IInv, AuthorityWasHeld
<1>8. OwnerRemains'
  BY <1>2 DEF IInv, OwnerRemains, Owners
<1>. QED BY <1>3, <1>6, <1>7, <1>8 DEF IInv

(* Registration adds a user and takes no owner. *)
LEMMA RegisterKeeps ==
    ASSUME IInv, NEW h \in Handlers, NEW x \in Users, Register(x), ask' = ask, stale' = stale,
           NEW place \in {"self", "read"}, Goto(h, place), at[h] # "idle"
    PROVE  IInv'
<1>1. CASE role[x] # None
  <2>1. UNCHANGED <<role, held>>
    BY <1>1 DEF Register
  <2>. QED BY <2>1, LocalStepKeeps
<1>2. CASE role[x] = None
  <2>1. Becomes(x, USER)
    BY <1>2 DEF Register
  <2>2. USER \in Roles /\ USER # OWNER /\ None # OWNER
    BY DEF Roles, USER, OWNER, None
  <2>3. /\ role' \in [Users -> Roles \cup {None}]
        /\ held' \in [Handlers -> SUBSET (Roles \cup {None})]
        /\ \A g \in Handlers : held[g] \subseteq held'[g]
        /\ \A g \in Handlers : at[g] # "idle" => role'[By(g)] \in held'[g]
        /\ \A y \in Users : role'[y] = IF y = x THEN USER ELSE role[y]
    BY <2>1, <2>2, BecomesKeeps DEF IInv
  <2>4. OwnerRemains'
    <3>1. Owners' = Owners
      BY <1>2, <2>2, <2>3 DEF Owners
    <3>. QED BY <3>1 DEF IInv, OwnerRemains
  <2>5. /\ at' \in [Handlers -> {"idle", "other", "self", "read", "run", "answer"}]
        /\ \A g \in Handlers \ {h} : at'[g] = at[g]
        /\ at'[h] # "run"
    BY DEF IInv, TypeOK, Goto
  <2>6. stale' \in BOOLEAN
    BY DEF IInv, TypeOK
  <2>. QED BY <2>3, <2>4, <2>5, <2>6, StepKeeps
<1>. QED BY <1>1, <1>2

(* A role set for an owner leaves that owner; one set for somebody else is  *)
(* noted as stale.                                                          *)
LEMMA SetUserRoleKeeps ==
    ASSUME IInv, NEW h \in Handlers, at[h] = "run", SetsRole(h), ValidTarget(h),
           SetUserRole(h), ask' = ask,
           NEW place \in {"idle", "answer"}, Goto(h, place)
    PROVE  IInv'
<1>1. /\ at' \in [Handlers -> {"idle", "other", "self", "read", "run", "answer"}]
      /\ \A g \in Handlers \ {h} : at'[g] = at[g]
      /\ at'[h] # "run"
      /\ at[h] # "idle"
  BY DEF IInv, TypeOK, Goto
<1>2. stale' = (stale \/ role[By(h)] # OWNER) /\ stale' \in BOOLEAN
  BY DEF SetUserRole, IInv, TypeOK
<1>3. To(h) \in Users /\ To(h) # By(h) /\ By(h) \in Users
  BY AskShape DEF ValidTarget, IInv
<1>4. Sets[ask[h].cmd] \in Roles
  BY DEF SetsRole, Sets, Roles
<1>5. CASE role[To(h)] = None
  <2>1. UNCHANGED <<role, held>>
    BY <1>5 DEF SetUserRole
  <2>2. role' = role /\ held' = held
    BY <2>1
  <2>3. OwnerRemains'
    BY <2>2, <1>2 DEF IInv, OwnerRemains, Owners
  <2>4. /\ role' \in [Users -> Roles \cup {None}]
        /\ held' \in [Handlers -> SUBSET (Roles \cup {None})]
        /\ \A g \in Handlers : held[g] \subseteq held'[g]
        /\ \A g \in Handlers : at[g] # "idle" => role'[By(g)] \in held'[g]
    BY <2>2 DEF IInv, TypeOK, HeldNow
  <2>. QED BY <1>1, <1>2, <2>3, <2>4, StepKeeps
<1>6. CASE role[To(h)] # None
  <2>1. Becomes(To(h), Sets[ask[h].cmd])
    BY <1>6 DEF SetUserRole
  <2>2. /\ role' \in [Users -> Roles \cup {None}]
        /\ held' \in [Handlers -> SUBSET (Roles \cup {None})]
        /\ \A g \in Handlers : held[g] \subseteq held'[g]
        /\ \A g \in Handlers : at[g] # "idle" => role'[By(g)] \in held'[g]
        /\ \A y \in Users : role'[y] = IF y = To(h) THEN Sets[ask[h].cmd] ELSE role[y]
    BY <2>1, <1>3, <1>4, BecomesKeeps DEF IInv
  <2>3. OwnerRemains'
    <3>1. CASE role[By(h)] = OWNER
      <4>1. role'[By(h)] = OWNER
        BY <3>1, <2>2, <1>3
      <4>. QED BY <4>1, <1>3 DEF OwnerRemains, Owners
    <3>2. CASE role[By(h)] # OWNER
      BY <3>2, <1>2 DEF OwnerRemains
    <3>. QED BY <3>1, <3>2
  <2>. QED BY <1>1, <1>2, <2>2, <2>3, StepKeeps
<1>. QED BY <1>5, <1>6

LEMMA ChangeRoleKeeps ==
    ASSUME IInv, NEW h \in Handlers, ChangeRole(h) \/ ChangeRoleFails(h)
    PROVE  IInv'
<1>1. CASE ChangeRole(h)
  BY <1>1, SetUserRoleKeeps DEF ChangeRole
<1>2. CASE ChangeRoleFails(h) /\ SetUserRole(h)
  BY <1>2, SetUserRoleKeeps DEF ChangeRoleFails
<1>3. CASE ChangeRoleFails(h) /\ UNCHANGED <<role, held, stale>>
  <2>1. UNCHANGED <<role, ask, held, stale>> /\ Goto(h, "idle") /\ at[h] # "idle"
    BY <1>3 DEF ChangeRoleFails
  <2>. QED BY <2>1, LocalStepKeeps
<1>. QED BY <1>1, <1>2, <1>3 DEF ChangeRoleFails

-------------------------------------------------------------------------------
LEMMA Initial == Init => IInv
<1>. SUFFICES ASSUME Init PROVE IInv
  OBVIOUS
<1>. QED BY DEF Init, IInv, TypeOK, HeldNow, AuthorityWasHeld, OwnerRemains

LEMMA Step == IInv /\ [Next]_vars => IInv'
<1>. SUFFICES ASSUME IInv, [Next]_vars PROVE IInv'
  OBVIOUS
<1>1. ASSUME NEW h \in Handlers, Arrive(h) PROVE IInv'
  BY <1>1, ArriveKeeps
<1>2. ASSUME NEW h \in Handlers, RegisterOther(h) PROVE IInv'
  <2>1. CASE To(h) \in Users
    BY <1>2, <2>1, RegisterKeeps DEF RegisterOther
  <2>2. CASE To(h) = Nobody
    <3>1. Becomes(Nobody, USER) => role' = role /\ held' = held
      BY UsersAssumption, AskShape DEF IInv, TypeOK, Becomes
    <3>2. UNCHANGED <<role, ask, held, stale>> /\ Goto(h, "self") /\ at[h] # "idle"
      BY <1>2, <2>2, <3>1 DEF RegisterOther, Register
    <3>. QED BY <3>2, LocalStepKeeps
  <2>. QED BY <2>1, <2>2, AskShape DEF IInv
<1>3. ASSUME NEW h \in Handlers, RegisterSelf(h) PROVE IInv'
  <2>1. By(h) \in Users
    BY AskShape DEF IInv
  <2>. QED BY <1>3, <2>1, RegisterKeeps DEF RegisterSelf
<1>4. ASSUME NEW h \in Handlers, CheckRoleAccess(h) PROVE IInv'
  <2>1. CASE role[By(h)] \in Allowed(ask[h].cmd)
    BY <1>4, <2>1, LocalStepKeeps DEF CheckRoleAccess
  <2>2. CASE role[By(h)] \notin Allowed(ask[h].cmd)
    BY <1>4, <2>2, LocalStepKeeps DEF CheckRoleAccess
  <2>. QED BY <2>1, <2>2
<1>5. ASSUME NEW h \in Handlers, PreprocessFails(h) PROVE IInv'
  BY <1>5, LocalStepKeeps DEF PreprocessFails
<1>6. ASSUME NEW h \in Handlers, ChangeRole(h) \/ ChangeRoleFails(h) PROVE IInv'
  BY <1>6, ChangeRoleKeeps
<1>7. ASSUME NEW h \in Handlers, NoTarget(h) \/ Serve(h) PROVE IInv'
  <2>1. UNCHANGED <<role, ask, held, stale>> /\ Goto(h, "idle") /\ at[h] # "idle"
    BY <1>7 DEF NoTarget, Serve
  <2>. QED BY <2>1, LocalStepKeeps
<1>8. ASSUME NEW h \in Handlers, Answer(h) PROVE IInv'
  <2>1. UNCHANGED <<role, ask, held, stale>> /\ Goto(h, "idle") /\ at[h] # "idle"
    BY <1>8 DEF Answer
  <2>. QED BY <2>1, LocalStepKeeps
<1>9. CASE UNCHANGED vars
  <2>1. role' = role /\ at' = at /\ ask' = ask /\ held' = held /\ stale' = stale
    BY <1>9 DEF vars
  <2>. QED BY <2>1 DEF IInv, TypeOK, HeldNow, By, AuthorityWasHeld, Allowed, OwnerRemains, Owners
<1>. QED BY <1>1, <1>2, <1>3, <1>4, <1>5, <1>6, <1>7, <1>8, <1>9 DEF Next

LEMMA Invariant == Spec => []IInv
BY Initial, Step, PTL DEF Spec

-------------------------------------------------------------------------------
(* Every variable keeps its type. *)
THEOREM TypeCorrect == Spec => []TypeOK
<1>1. IInv => TypeOK
  BY DEF IInv
<1>. QED BY <1>1, Invariant, PTL

(* Whoever has a command run for them held a role it is allowed to at some  *)
(* moment since it arrived, however many commands change roles meanwhile.   *)
THEOREM Authority == Spec => []AuthorityWasHeld
<1>1. IInv => AuthorityWasHeld
  BY DEF IInv
<1>. QED BY <1>1, Invariant, PTL

(* An owner is left as long as no role is set for somebody who has stopped  *)
(* being an owner.                                                          *)
THEOREM AnOwnerRemains == Spec => []OwnerRemains
<1>1. IInv => OwnerRemains
  BY DEF IInv
<1>. QED BY <1>1, Invariant, PTL

LEMMA ChangesComeFromOwners ==
    ASSUME IInv, [Next]_vars, NEW x \in Users, role'[x] # role[x]
    PROVE  \/ role[x] = None /\ role'[x] = USER
           \/ \E h \in Handlers :
                /\ at[h] = "run" /\ To(h) = x /\ By(h) # x /\ OWNER \in held[h]
                /\ role[x] # None /\ role'[x] \in {ADMIN, USER}
<1>0. role \in [Users -> Roles \cup {None}]
  BY DEF IInv, TypeOK
<1>1. CASE role' = role
  BY <1>1
<1>2. ASSUME NEW y, Register(y), role' # role PROVE role[x] = None /\ role'[x] = USER
  <2>1. role' = [role EXCEPT ![y] = USER] /\ role[y] = None
    BY <1>2 DEF Register, Becomes
  <2>. QED BY <2>1, <1>0
<1>3. ASSUME NEW h \in Handlers, at[h] = "run", SetsRole(h), ValidTarget(h), SetUserRole(h)
      PROVE  \E g \in Handlers :
                /\ at[g] = "run" /\ To(g) = x /\ By(g) # x /\ OWNER \in held[g]
                /\ role[x] # None /\ role'[x] \in {ADMIN, USER}
  <2>1. role[To(h)] # None /\ role' = [role EXCEPT ![To(h)] = Sets[ask[h].cmd]]
    BY <1>3 DEF SetUserRole, Becomes
  <2>2. x = To(h) /\ role'[x] = Sets[ask[h].cmd]
    BY <2>1, <1>0
  <2>3. Sets[ask[h].cmd] \in {ADMIN, USER}
    BY <1>3 DEF SetsRole, Sets
  <2>4. OWNER \in held[h]
    BY <1>3, SettersAreOwners DEF IInv, AuthorityWasHeld
  <2>. QED BY <1>3, <2>1, <2>2, <2>3, <2>4 DEF ValidTarget
<1>4. ASSUME NEW h \in Handlers, RegisterOther(h) \/ RegisterSelf(h)
      PROVE  \/ role' = role
             \/ role[x] = None /\ role'[x] = USER
  BY <1>2, <1>4 DEF RegisterOther, RegisterSelf
<1>5. ASSUME NEW h \in Handlers, ChangeRole(h) \/ ChangeRoleFails(h)
      PROVE  \/ role' = role
             \/ SetUserRole(h) /\ at[h] = "run" /\ SetsRole(h) /\ ValidTarget(h)
  BY <1>5 DEF ChangeRole, ChangeRoleFails
<1>6. ASSUME NEW h \in Handlers,
             \/ Arrive(h) \/ CheckRoleAccess(h) \/ PreprocessFails(h)
             \/ NoTarget(h) \/ Answer(h) \/ Serve(h)
      PROVE  role' = role
  BY <1>6 DEF Arrive, CheckRoleAccess, PreprocessFails, NoTarget, Answer, Serve
<1>7. UNCHANGED vars => role' = role
  BY DEF vars
<1>. QED BY <1>1, <1>3, <1>4, <1>5, <1>6, <1>7 DEF Next

(* Roles change only by commands of other users who were owners since the   *)
(* command arrived, and nobody is made an owner.                            *)
THEOREM FromOwners == Spec => RolesComeFromOwners
<1>1. IInv /\ [Next]_vars =>
        [\A x \in Users :
            \/ role'[x] = role[x]
            \/ role[x] = None /\ role'[x] = USER
            \/ \E h \in Handlers :
                 /\ at[h] = "run" /\ To(h) = x /\ By(h) # x /\ OWNER \in held[h]
                 /\ role[x] # None /\ role'[x] \in {ADMIN, USER}]_vars
  BY ChangesComeFromOwners
<1>. QED BY <1>1, Invariant, PTL DEF Spec, RolesComeFromOwners
===============================================================================
