---------------------------- MODULE UserFilterProofs ----------------------------
(***************************************************************************)
(* Proofs about UserFilter and Muting for any number of commands and any   *)
(* cooldowns: a mute is always earned, commands that do not overlap are    *)
(* limited, the mutes of Muting are those of the rate limit, and           *)
(* Telegram's restriction of a user agrees with the state the bot keeps.   *)
(***************************************************************************)
EXTENDS Integers, Muting, TLAPS

USE DEF UNDEFINED, QUIET, LOUD, MUTED, States

-------------------------------------------------------------------------------
(* Types.                                                                   *)

FilterType ==
    /\ TypeOK
    /\ \A u \in InFlight : seen[u] # MUTED
    /\ \A u \in wire : at[u] = "denied"
    /\ \A u \in Updates : at[u] = "new" => u \notin applied \cup muted

LEMMA TypeInit == Init => FilterType
<1> SUFFICES ASSUME Init PROVE FilterType
  OBVIOUS
<1>1. TypeOK
  BY DEF Init, TypeOK
<1>2. InFlight = {}
  BY DEF Init, InFlight
<1> QED BY <1>1, <1>2 DEF Init, FilterType

LEMMA TypeNext == FilterType /\ [Next]_vars => FilterType'
<1> SUFFICES ASSUME FilterType, [Next]_vars
             PROVE  FilterType'
  OBVIOUS
<1> USE CooldownAssumption DEF FilterType, TypeOK, InFlight, Goto
<1>1. ASSUME NEW u \in Updates, Get(u)
      PROVE  FilterType'
  BY <1>1 DEF Get
<1>2. ASSUME NEW u \in Updates, GetFails(u)
      PROVE  FilterType'
  BY <1>2 DEF GetFails
<1>3. ASSUME NEW u \in InFlight, Write(u)
      PROVE  state' \in States /\ ttl' \in Nat /\ ttl' # 0 /\ state' # UNDEFINED
  BY <1>3 DEF Write
<1>4. ASSUME NEW u \in Updates, SetSucceeds(u)
      PROVE  FilterType'
  <2>1. Write(u) /\ u \in InFlight
    BY <1>4 DEF SetSucceeds
  <2>2. state' \in States /\ ttl' \in Nat /\ ttl' # 0 /\ state' # UNDEFINED /\ applied' = applied \cup {u}
    BY <1>3, <2>1 DEF Write
  <2> QED BY <1>4, <2>2 DEF SetSucceeds, DenyAndMute
<1>5. ASSUME NEW u \in Updates, SetUnanswered(u) \/ LateSet(u)
      PROVE  FilterType'
  <2>1. Write(u) /\ u \in InFlight
    BY <1>5 DEF SetUnanswered, LateSet
  <2>2. state' \in States /\ ttl' \in Nat /\ ttl' # 0 /\ state' # UNDEFINED /\ applied' = applied \cup {u}
    BY <1>3, <2>1 DEF Write
  <2>3. UNCHANGED <<at, seen, muted, overlap, passed>> /\ wire' \subseteq wire
    BY <1>5 DEF SetUnanswered, LateSet
  <2> QED BY <2>1, <2>2, <2>3
<1>6. ASSUME NEW u \in Updates, SetFails(u)
      PROVE  FilterType'
  BY <1>6 DEF SetFails, DenyAndMute
<1>7. ASSUME NEW u \in Updates, SetVanishes(u)
      PROVE  FilterType'
  BY <1>7 DEF SetVanishes
<1>8. CASE Tick
  BY <1>8 DEF Tick
<1>9. CASE UNCHANGED vars
  BY <1>9 DEF vars
<1> QED BY <1>1, <1>2, <1>4, <1>5, <1>6, <1>7, <1>8, <1>9 DEF Next

-------------------------------------------------------------------------------
(* A state was reached through the lower ones: for each of them there is a  *)
(* command that saw it and was counted.                                     *)

Counted(k) == \E w \in applied : seen[w] = k
Below(s) == (s >= QUIET => Counted(UNDEFINED)) /\ (s >= LOUD => Counted(QUIET))

CountInv ==
    /\ Below(state)
    /\ \A u \in Updates : Below(seen[u])
    /\ \A u \in muted : seen[u] = LOUD

LEMMA CountInit == Init => CountInv
BY DEF Init, CountInv, Below

LEMMA CountNext == FilterType /\ CountInv /\ [Next]_vars => CountInv'
<1> SUFFICES ASSUME FilterType, CountInv, [Next]_vars
             PROVE  CountInv'
  OBVIOUS
<1>0. /\ state \in States /\ seen \in [Updates -> States] /\ at \in [Updates -> {"new", "set", "admitted", "denied"}]
      /\ applied \subseteq Updates /\ muted \subseteq Updates /\ wire \subseteq Updates
      /\ \A u \in Updates : (at[u] = "set" \/ u \in wire) => seen[u] # MUTED
      /\ \A u \in Updates : at[u] = "new" => u \notin applied /\ u \notin muted
      /\ Below(state) /\ \A u \in Updates : Below(seen[u])
      /\ \A u \in muted : seen[u] = LOUD
  BY DEF FilterType, TypeOK, InFlight, CountInv
<1>1. ASSUME NEW u \in Updates, Get(u)
      PROVE  CountInv'
  <2>1. /\ at[u] = "new" /\ seen' = [seen EXCEPT ![u] = state]
        /\ UNCHANGED <<state, applied, muted>>
    BY <1>1 DEF Get
  <2>2. \A k : Counted(k) => Counted(k)'
    BY <1>0, <2>1 DEF Counted
  <2>3. \A w \in Updates : Below(seen[w])'
    BY <1>0, <2>1, <2>2 DEF Below
  <2> QED BY <1>0, <2>1, <2>2, <2>3 DEF CountInv, Below
<1>2. ASSUME NEW u \in Updates, at[u] = "set" \/ u \in wire, Write(u), UNCHANGED seen
      PROVE  Below(state)' /\ \A w \in Updates : Below(seen[w])'
  <2>1. state' = seen[u] + 1 /\ applied' = applied \cup {u} /\ seen[u] \in {0, 1, 2}
    BY <1>0, <1>2 DEF Write
  <2>2. \A k : Counted(k) => Counted(k)'
    BY <1>2, <2>1 DEF Counted
  <2>3. Counted(seen[u])'
    BY <1>2, <2>1 DEF Counted
  <2>4. Below(seen[u])'
    BY <1>0, <1>2, <2>2 DEF Below
  <2>5. Below(state)'
    BY <2>1, <2>3, <2>4, <1>2 DEF Below
  <2>6. \A w \in Updates : Below(seen[w])'
    BY <1>0, <1>2, <2>2 DEF Below
  <2> QED BY <2>5, <2>6
<1>3. ASSUME NEW u \in Updates, SetSucceeds(u)
      PROVE  CountInv'
  <2>1. at[u] = "set" /\ Write(u) /\ UNCHANGED seen
    BY <1>3 DEF SetSucceeds
  <2>2. \A w \in muted' : seen'[w] = LOUD
    BY <1>0, <1>3 DEF SetSucceeds, DenyAndMute
  <2> QED BY <1>2, <2>1, <2>2 DEF CountInv
<1>4. ASSUME NEW u \in Updates, SetUnanswered(u) \/ LateSet(u)
      PROVE  CountInv'
  <2>1. at[u] = "set" \/ u \in wire
    BY <1>4 DEF SetUnanswered, LateSet
  <2>2. Write(u) /\ UNCHANGED <<seen, muted>>
    BY <1>4 DEF SetUnanswered, LateSet
  <2> QED BY <1>0, <1>2, <2>1, <2>2 DEF CountInv
<1>5. ASSUME UNCHANGED <<seen, applied>>, UNCHANGED state \/ state' = UNDEFINED,
             \A w \in muted' : seen[w] = LOUD
      PROVE  CountInv'
  <2>1. \A k : Counted(k) <=> Counted(k)'
    BY <1>5 DEF Counted
  <2> QED BY <1>0, <1>5, <2>1 DEF CountInv, Below
<1>6. ASSUME NEW u \in Updates, SetFails(u)
      PROVE  CountInv'
  BY <1>0, <1>5, <1>6 DEF SetFails, DenyAndMute
<1>7. ASSUME NEW u \in Updates, GetFails(u) \/ SetVanishes(u)
      PROVE  CountInv'
  BY <1>0, <1>5, <1>7 DEF GetFails, SetVanishes
<1>8. CASE Tick
  BY <1>0, <1>5, <1>8 DEF Tick
<1>9. CASE UNCHANGED vars
  BY <1>0, <1>5, <1>9 DEF vars
<1> QED BY <1>1, <1>3, <1>4, <1>6, <1>7, <1>8, <1>9 DEF Next

-------------------------------------------------------------------------------
(* Without overlap there is one command in flight, and the key holds what   *)
(* it saw or what it set, unless the key has expired.                       *)

Alone ==
    ~overlap =>
        /\ \A u, v \in InFlight : u = v
        /\ \A u \in InFlight : state \in {UNDEFINED, seen[u], seen[u] + 1} /\ passed <= seen[u]
        /\ passed <= 2 /\ passed <= state

FilterInv == FilterType /\ CountInv /\ Alone

LEMMA AloneInit == Init => Alone
BY DEF Init, Alone, InFlight

LEMMA AloneNext == FilterType /\ Alone /\ [Next]_vars => Alone'
<1> SUFFICES ASSUME FilterType, Alone, [Next]_vars, ~overlap'
             PROVE  Alone'
  BY DEF Alone
<1>a. ~overlap
  BY DEF Next, Get, GetFails, SetSucceeds, SetUnanswered, SetFails, LateSet, SetVanishes, Tick,
         vars, FilterType, TypeOK
<1>0. /\ state \in States /\ seen \in [Updates -> States] /\ passed \in Nat
      /\ at \in [Updates -> {"new", "set", "admitted", "denied"}] /\ wire \subseteq Updates
      /\ \A u \in InFlight : seen[u] # MUTED /\ u \in Updates
      /\ \A u, v \in InFlight : u = v
      /\ \A u \in InFlight : state \in {UNDEFINED, seen[u], seen[u] + 1} /\ passed <= seen[u]
      /\ passed <= 2 /\ passed <= state
  BY <1>a DEF FilterType, TypeOK, Alone, InFlight
<1>1. ASSUME NEW u \in Updates, Get(u)
      PROVE  Alone'
  <2>1. CASE state = MUTED
    <3>1. InFlight' \subseteq InFlight /\ u \notin InFlight'
      BY <1>0, <1>1, <2>1 DEF Get, Goto, InFlight, FilterType
    <3>2. \A v \in InFlight' : seen'[v] = seen[v]
      BY <1>0, <1>1, <3>1 DEF Get
    <3> QED BY <1>0, <1>1, <2>1, <3>1, <3>2 DEF Alone, Get
  <2>2. CASE state # MUTED
    <3>1. InFlight = {}
      BY <1>1, <2>2 DEF Get
    <3>2. InFlight' = {u} /\ seen'[u] = state /\ UNCHANGED <<state, passed>>
      BY <1>0, <1>1, <2>2, <3>1 DEF Get, Goto, InFlight
    <3> QED BY <1>0, <3>2 DEF Alone
  <2> QED BY <2>1, <2>2
<1>2. ASSUME NEW u \in InFlight, Write(u), UNCHANGED seen, InFlight' \subseteq InFlight,
             \/ UNCHANGED passed
             \/ passed' = passed + 1 /\ seen[u] # LOUD /\ u \notin InFlight'
      PROVE  Alone'
  <2>1. state' = seen[u] + 1 /\ seen[u] \in {0, 1, 2} /\ passed <= seen[u] /\ InFlight' \subseteq {u}
    BY <1>0, <1>2 DEF Write
  <2>2. CASE UNCHANGED passed
    BY <1>0, <1>2, <2>1, <2>2 DEF Alone
  <2>3. CASE passed' = passed + 1 /\ seen[u] # LOUD /\ u \notin InFlight'
    BY <1>0, <1>2, <2>1, <2>3 DEF Alone
  <2> QED BY <1>2, <2>2, <2>3
<1>3. ASSUME NEW u \in Updates, SetSucceeds(u)
      PROVE  Alone'
  <2>1. u \in InFlight /\ Write(u) /\ UNCHANGED seen
    BY <1>3 DEF SetSucceeds, InFlight
  <2>2. InFlight' \subseteq InFlight
    BY <1>0, <1>3 DEF SetSucceeds, DenyAndMute, Goto, InFlight
  <2>3. \/ UNCHANGED passed
        \/ passed' = passed + 1 /\ seen[u] # LOUD /\ u \notin InFlight'
    BY <1>0, <1>3 DEF SetSucceeds, DenyAndMute, Goto, InFlight, FilterType
  <2> QED BY <1>2, <2>1, <2>2, <2>3
<1>4. ASSUME NEW u \in Updates, SetUnanswered(u) \/ LateSet(u)
      PROVE  Alone'
  <2>1. u \in InFlight /\ InFlight' \subseteq InFlight
    BY <1>4 DEF SetUnanswered, LateSet, InFlight
  <2>2. Write(u) /\ UNCHANGED <<seen, passed>>
    BY <1>4 DEF SetUnanswered, LateSet
  <2> QED BY <1>2, <2>1, <2>2
<1>5. ASSUME InFlight' \subseteq InFlight, seen' = seen,
             \/ state' = state /\ passed' = passed
             \/ state' = UNDEFINED /\ passed' = 0
      PROVE  Alone'
  BY <1>0, <1>5 DEF Alone
<1>6. ASSUME NEW u \in Updates, GetFails(u) \/ SetFails(u) \/ SetVanishes(u)
      PROVE  Alone'
  <2>1. InFlight' \subseteq InFlight
    BY <1>0, <1>6 DEF GetFails, SetFails, SetVanishes, DenyAndMute, Goto, InFlight
  <2>2. seen' = seen /\ state' = state /\ passed' = passed
    BY <1>6 DEF GetFails, SetFails, SetVanishes, DenyAndMute
  <2> QED BY <1>5, <2>1, <2>2
<1>7. CASE Tick
  <2>1. InFlight' \subseteq InFlight /\ seen' = seen
    BY <1>7 DEF Tick, InFlight
  <2>2. \/ state' = state /\ passed' = passed
        \/ state' = UNDEFINED /\ passed' = 0
    BY <1>7 DEF Tick
  <2> QED BY <1>5, <2>1, <2>2
<1>8. CASE UNCHANGED vars
  <2>1. InFlight' \subseteq InFlight /\ seen' = seen /\ state' = state /\ passed' = passed
    BY <1>8 DEF vars, InFlight
  <2> QED BY <1>5, <2>1
<1> QED BY <1>1, <1>3, <1>4, <1>6, <1>7, <1>8 DEF Next

-------------------------------------------------------------------------------
LEMMA FilterInvariant == Spec => []FilterInv
<1>1. Init => FilterInv
  BY TypeInit, CountInit, AloneInit DEF FilterInv
<1>2. FilterInv /\ [Next]_vars => FilterInv'
  BY TypeNext, CountNext, AloneNext DEF FilterInv
<1> QED BY <1>1, <1>2, PTL DEF Spec

(* Every variable keeps its type; the key has a life exactly while it       *)
(* exists, so no count and no mute lasts for ever.                          *)
THEOREM TypeCorrect == Spec => []TypeOK
<1>1. FilterInv => TypeOK
  BY DEF FilterInv, FilterType
<1> QED BY FilterInvariant, <1>1, PTL

(* Two other commands were counted before a mute.                           *)
THEOREM Earned == Spec => []MuteIsEarned
<1>1. FilterInv => MuteIsEarned
  <2> SUFFICES ASSUME FilterInv, NEW u \in muted
               PROVE  \E v, w \in applied : v # w /\ u \notin {v, w}
    BY DEF MuteIsEarned
  <2>1. u \in Updates /\ seen[u] = LOUD
    BY DEF FilterInv, FilterType, TypeOK, CountInv
  <2>2. Counted(UNDEFINED) /\ Counted(QUIET)
    BY <2>1 DEF FilterInv, CountInv, Below
  <2>3. PICK v \in applied : seen[v] = UNDEFINED
    BY <2>2 DEF Counted
  <2>4. PICK w \in applied : seen[w] = QUIET
    BY <2>2 DEF Counted
  <2> QED BY <2>1, <2>3, <2>4
<1> QED BY FilterInvariant, <1>1, PTL

(* Of commands that do not overlap two are admitted until the key expires.  *)
THEOREM Bounded == Spec => []BurstBound
<1>1. FilterInv => BurstBound
  BY DEF FilterInv, Alone, BurstBound
<1> QED BY FilterInvariant, <1>1, PTL

(* And a mute is not lifted before its time.                                *)
THEOREM Holds == Spec => MuteHolds
<1>1. FilterInv /\ [Next]_vars
        => [~overlap /\ state = MUTED => state' = MUTED \/ (ttl = 1 /\ ttl' = 0)]_vars
  <2> SUFFICES ASSUME FilterInv, Next, ~overlap, state = MUTED, state' # MUTED
               PROVE  ttl = 1 /\ ttl' = 0
    OBVIOUS
  <2>1. \A u \in InFlight : seen[u] + 1 = MUTED
    BY DEF FilterInv, Alone, FilterType, TypeOK, InFlight
  <2>2. \A u \in Updates : ~(SetSucceeds(u) \/ SetUnanswered(u) \/ LateSet(u))
    BY <2>1 DEF SetSucceeds, SetUnanswered, LateSet, Write, InFlight
  <2>3. \A u \in Updates : ~(Get(u) \/ GetFails(u) \/ SetFails(u) \/ SetVanishes(u))
    BY DEF Get, GetFails, SetFails, SetVanishes
  <2>4. Tick
    BY <2>2, <2>3 DEF Next
  <2> QED BY <2>4 DEF Tick, FilterInv, FilterType, TypeOK
<1> QED BY FilterInvariant, <1>1, PTL DEF Spec, MuteHolds

-------------------------------------------------------------------------------
(* Muting.                                                                  *)

(* TryMuteSpammer leaves the rate limit alone.                              *)

LEMMA StepOfFilter == MuteNext => [Next]_vars
<1> SUFFICES ASSUME MuteNext PROVE [Next]_vars
  OBVIOUS
<1>1. CASE Filter
  BY <1>1 DEF Filter, Next
<1>2. CASE \E u \in Updates :
             GetMe(u) \/ GetBotMember(u) \/ GetUserMember(u) \/ GiveUp(u) \/ Restrict(u)
  BY <1>2 DEF GetMe, GetBotMember, GetUserMember, GiveUp, Restrict
<1>3. CASE Pass
  BY <1>3 DEF Pass, Next
<1> QED BY <1>1, <1>2, <1>3 DEF MuteNext

(* What a run of Muting does to the counter is a run of UserFilter: what is *)
(* proved of the rate limit holds with the mutes as well.                   *)
THEOREM ImplementsFilter == MuteSpec => Spec
<1>1. MuteInit => Init
  BY DEF MuteInit
<1>2. [MuteNext]_allVars => [Next]_vars
  BY StepOfFilter DEF allVars
<1> QED BY <1>1, <1>2, PTL DEF MuteSpec, Spec

-------------------------------------------------------------------------------
(* Types.                                                                   *)

StepType ==
    /\ age \in [Updates -> Nat]
    /\ step \in [Updates -> {"me", "bot", "user", "restrict", "done"}]
    /\ allowed \in [Updates -> BOOLEAN]
    /\ until \in Nat
    /\ by \subseteq Updates
    /\ late \in BOOLEAN

LEMMA StepTypeNext == StepType /\ [MuteNext]_allVars => StepType'
<1> SUFFICES ASSUME StepType, [MuteNext]_allVars PROVE StepType'
  OBVIOUS
<1> USE MuteAssumption, CooldownAssumption DEF StepType, Step
<1>1. CASE Filter
  BY <1>1 DEF Filter, muteVars
<1>2. ASSUME NEW u \in Updates, GetMe(u) \/ GetUserMember(u) \/ GiveUp(u)
      PROVE  StepType'
  BY <1>2 DEF GetMe, GetUserMember, GiveUp
<1>3. ASSUME NEW u \in Updates, GetBotMember(u)
      PROVE  StepType'
  BY <1>3 DEF GetBotMember
<1>4. ASSUME NEW u \in Updates, Restrict(u)
      PROVE  StepType'
  <2>1. age[u] \in Nat /\ Left(u) \in Int
    BY DEF Left
  <2>2. until' \in Nat
    BY <1>4, <2>1 DEF Restrict, Forever
  <2> QED BY <1>4, <2>2 DEF Restrict
<1>5. CASE Pass
  <2>1. age' \in [Updates -> Nat]
    BY <1>5 DEF Pass
  <2>2. until' \in Nat
    BY <1>5 DEF Pass
  <2> QED BY <1>5, <2>1, <2>2 DEF Pass
<1>6. CASE UNCHANGED allVars
  BY <1>6 DEF allVars, muteVars
<1> QED BY <1>1, <1>2, <1>3, <1>4, <1>5, <1>6 DEF MuteNext

-------------------------------------------------------------------------------
(* A mute that is still to come: its message was counted, and until its     *)
(* date plus the cooldown the user is MUTED and no other command in flight. *)

Coming(u) == u \in applied /\ seen[u] = LOUD /\ step[u] # "done" /\ age[u] < SpamCooldown
Restricted == ~late /\ by \subseteq applied /\ until > 0

AgreeInv ==
    /\ ~overlap => \A u \in Updates : Coming(u) =>
           state = MUTED /\ SpamCooldown - age[u] <= ttl /\ InFlight \subseteq {u}
    /\ ~overlap => (Restricted => state = MUTED /\ until <= ttl /\ InFlight \subseteq by)
    /\ ~late => until <= SpamCooldown
    /\ \A v, w \in by : v = w
    /\ \A w \in by : seen[w] = LOUD /\ at[w] # "new"

MuteInv == FilterInv /\ StepType /\ AgreeInv

LEMMA AgreeInit == MuteInit => AgreeInv
BY CooldownAssumption DEF MuteInit, Init, AgreeInv, Coming, Restricted

(* What the steps of the rate limit do to the commands in flight.           *)

LEMMA Overlaps == FilterInv /\ [Next]_vars /\ ~overlap' => ~overlap
BY DEF Next, Get, GetFails, SetSucceeds, SetUnanswered, SetFails, LateSet, SetVanishes, Tick,
       vars, FilterInv, FilterType, TypeOK

SomeSet(u) ==
    /\ u \in InFlight
    /\ Write(u)
    /\ InFlight' \subseteq InFlight
    /\ UNCHANGED <<seen, overlap>>
    /\ \A w \in Updates : at[w] # "new" => at'[w] # "new"

NoSet ==
    /\ InFlight' \subseteq InFlight
    /\ UNCHANGED <<state, ttl, seen, applied, overlap>>
    /\ \A w \in Updates : at[w] # "new" => at'[w] # "new"

LEMMA FilterSteps ==
    ASSUME FilterInv, NEW u \in Updates
    PROVE  /\ SetSucceeds(u) \/ SetUnanswered(u) \/ LateSet(u) => SomeSet(u)
           /\ GetFails(u) \/ SetFails(u) \/ SetVanishes(u) => NoSet
<1>0. /\ at \in [Updates -> {"new", "set", "admitted", "denied"}]
      /\ wire \subseteq Updates
  BY DEF FilterInv, FilterType, TypeOK
<1>1. SetSucceeds(u) => SomeSet(u)
  BY <1>0 DEF SetSucceeds, SomeSet, DenyAndMute, Goto, InFlight
<1>2. SetUnanswered(u) \/ LateSet(u) => SomeSet(u)
  BY <1>0 DEF SetUnanswered, LateSet, SomeSet, InFlight
<1>3. GetFails(u) \/ SetFails(u) \/ SetVanishes(u) => NoSet
  BY <1>0 DEF GetFails, SetFails, SetVanishes, NoSet, DenyAndMute, Goto, InFlight
<1> QED BY <1>1, <1>2, <1>3

-------------------------------------------------------------------------------
(* Each kind of step keeps the mutes to come and the restriction in force   *)
(* within the mute of the key.                                              *)

LEMMA AgreeSet ==
    ASSUME FilterInv, StepType, AgreeInv, NEW u \in Updates, SomeSet(u),
           UNCHANGED <<age, muteVars>>
    PROVE  AgreeInv'
<1>0. /\ state \in States /\ ttl \in Nat /\ seen \in [Updates -> States]
      /\ applied \subseteq Updates /\ by \subseteq Updates
      /\ age \in [Updates -> Nat] /\ until \in Nat /\ seen[u] \in {0, 1, 2}
  BY DEF FilterInv, FilterType, TypeOK, StepType, SomeSet, InFlight
<1>1. /\ u \in InFlight /\ InFlight' \subseteq InFlight
      /\ state' = seen[u] + 1 /\ applied' = applied \cup {u}
      /\ ttl' = IF seen[u] = LOUD THEN SpamCooldown ELSE MuteCooldown
      /\ seen' = seen /\ overlap' = overlap
      /\ age' = age /\ step' = step /\ until' = until /\ by' = by /\ late' = late
  BY DEF SomeSet, Write, muteVars
<1>2. ~overlap => \A w \in InFlight : w = u
  BY <1>1 DEF FilterInv, Alone
<1>3. seen[u] = LOUD => state' = MUTED /\ ttl' = SpamCooldown
  BY <1>1
<1>4. ASSUME ~overlap, NEW w \in Updates, Coming(w)'
      PROVE  state' = MUTED /\ SpamCooldown - age'[w] <= ttl' /\ InFlight' \subseteq {w}
  <2>1. CASE w = u
    BY <1>0, <1>1, <1>2, <1>3, <1>4, <2>1, CooldownAssumption DEF Coming
  <2>2. CASE w # u
    <3>1. Coming(w)
      BY <1>1, <1>4, <2>2 DEF Coming
    <3> QED BY <1>1, <1>4, <2>2, <3>1 DEF AgreeInv
  <2> QED BY <2>1, <2>2
<1>5. ASSUME ~overlap, Restricted'
      PROVE  state' = MUTED /\ until' <= ttl' /\ InFlight' \subseteq by'
  <2>1. CASE u \in by
    <3>1. seen[u] = LOUD /\ until <= SpamCooldown
      BY <1>1, <1>5, <2>1 DEF AgreeInv, Restricted
    <3> QED BY <1>1, <1>2, <1>3, <1>5, <2>1, <3>1
  <2>2. CASE u \notin by
    <3>1. Restricted
      BY <1>1, <1>5, <2>2 DEF Restricted
    <3> QED BY <1>1, <1>5, <2>2, <3>1 DEF AgreeInv
  <2> QED BY <2>1, <2>2
<1>6. \A w \in by' : seen'[w] = LOUD /\ at'[w] # "new"
  BY <1>0, <1>1 DEF AgreeInv, SomeSet
<1> QED BY <1>1, <1>4, <1>5, <1>6 DEF AgreeInv

LEMMA AgreeNoSet ==
    ASSUME FilterInv, StepType, AgreeInv, NoSet, UNCHANGED <<age, muteVars>>
    PROVE  AgreeInv'
<1>1. /\ InFlight' \subseteq InFlight /\ state' = state /\ ttl' = ttl /\ seen' = seen
      /\ applied' = applied /\ overlap' = overlap
      /\ age' = age /\ step' = step /\ until' = until /\ by' = by /\ late' = late
  BY DEF NoSet, muteVars
<1>2. \A w \in Updates : Coming(w)' = Coming(w)
  BY <1>1 DEF Coming
<1>3. Restricted' = Restricted
  BY <1>1 DEF Restricted
<1>4. \A w \in by' : seen'[w] = LOUD /\ at'[w] # "new"
  BY <1>1 DEF AgreeInv, NoSet, StepType
<1> QED BY <1>1, <1>2, <1>3, <1>4 DEF AgreeInv

LEMMA AgreeGet ==
    ASSUME FilterInv, StepType, AgreeInv, NEW u \in Updates, Get(u), ~overlap' => ~overlap,
           NEW d \in Nat, age' = [age EXCEPT ![u] = d], UNCHANGED muteVars
    PROVE  AgreeInv'
<1>0. /\ at \in [Updates -> {"new", "set", "admitted", "denied"}]
      /\ state \in States /\ ttl \in Nat /\ seen \in [Updates -> States]
      /\ wire \subseteq Updates /\ applied \subseteq Updates /\ by \subseteq Updates
      /\ age \in [Updates -> Nat] /\ until \in Nat
      /\ u \notin applied
  BY DEF FilterInv, FilterType, TypeOK, StepType, Get
<1>1. /\ at[u] = "new" /\ seen' = [seen EXCEPT ![u] = state]
      /\ at' = [at EXCEPT ![u] = IF state = MUTED THEN "denied" ELSE "set"]
      /\ overlap' = (overlap \/ (state # MUTED /\ InFlight # {}))
      /\ state' = state /\ ttl' = ttl /\ wire' = wire /\ applied' = applied
      /\ step' = step /\ until' = until /\ by' = by /\ late' = late
  BY DEF Get, Goto, muteVars
<1>2. state = MUTED => InFlight' = InFlight
  BY <1>0, <1>1 DEF InFlight
<1>3. \A w \in Updates : Coming(w)' => w # u /\ Coming(w)
  BY <1>0, <1>1 DEF Coming
<1>4. ASSUME ~overlap', NEW w \in Updates, Coming(w)'
      PROVE  state' = MUTED /\ SpamCooldown - age'[w] <= ttl' /\ InFlight' \subseteq {w}
  <2>1. w # u /\ Coming(w) /\ age'[w] = age[w] /\ ~overlap
    BY <1>0, <1>3, <1>4
  <2> QED BY <1>1, <1>2, <2>1 DEF AgreeInv
<1>5. ASSUME ~overlap', Restricted'
      PROVE  state' = MUTED /\ until' <= ttl' /\ InFlight' \subseteq by'
  <2>1. Restricted /\ ~overlap
    BY <1>1, <1>5 DEF Restricted
  <2> QED BY <1>1, <1>2, <2>1 DEF AgreeInv
<1>6. \A w \in by' : seen'[w] = LOUD /\ at'[w] # "new"
  <2> SUFFICES ASSUME NEW w \in by PROVE seen'[w] = LOUD /\ at'[w] # "new"
    BY <1>1
  <2>1. w \in Updates /\ w # u /\ seen[w] = LOUD /\ at[w] # "new"
    BY <1>0, <1>1 DEF AgreeInv
  <2> QED BY <1>0, <1>1, <2>1
<1> QED BY <1>1, <1>4, <1>5, <1>6 DEF AgreeInv

LEMMA AgreeRestrict ==
    ASSUME FilterInv, StepType, AgreeInv, NEW u \in Updates, Restrict(u)
    PROVE  AgreeInv'
<1>0. /\ ttl \in Nat /\ applied \subseteq Updates /\ muted \subseteq Updates
      /\ age \in [Updates -> Nat] /\ age[u] \in Nat /\ Left(u) \in Int /\ Left(u) <= SpamCooldown
      /\ step \in [Updates -> {"me", "bot", "user", "restrict", "done"}]
  BY CooldownAssumption DEF FilterInv, FilterType, TypeOK, StepType, Left
<1>1. /\ u \in muted /\ step[u] = "restrict" /\ step' = [step EXCEPT ![u] = "done"]
      /\ until' = IF Left(u) < MinMute THEN Forever ELSE Left(u)
      /\ late' = (late \/ Left(u) < MinMute) /\ by' = {u}
      /\ UNCHANGED <<vars, age>>
  BY DEF Restrict, At, Step
<1>2. seen[u] = LOUD /\ at[u] # "new"
  BY <1>1 DEF FilterInv, FilterType, CountInv
<1>3. /\ state' = state /\ ttl' = ttl /\ at' = at /\ seen' = seen /\ wire' = wire
      /\ applied' = applied /\ overlap' = overlap /\ age' = age
  BY <1>1 DEF vars
<1>4. InFlight' = InFlight
  BY <1>3 DEF InFlight
<1>5. \A w \in Updates : Coming(w)' => Coming(w)
  BY <1>0, <1>1, <1>3 DEF Coming
<1>6. ASSUME ~overlap, Restricted'
      PROVE  state' = MUTED /\ until' <= ttl' /\ InFlight' \subseteq by'
  <2>1. ~(Left(u) < MinMute) /\ until' = Left(u) /\ u \in applied
    BY <1>1, <1>3, <1>6 DEF Restricted
  <2>2. age[u] < SpamCooldown
    BY <1>0, <2>1, MuteAssumption, CooldownAssumption DEF Left
  <2>3. Coming(u)
    BY <1>1, <1>2, <2>1, <2>2 DEF Coming
  <2> QED BY <1>1, <1>3, <1>4, <1>6, <2>1, <2>3 DEF AgreeInv, Left
<1>7. ~late' => until' <= SpamCooldown
  BY <1>0, <1>1
<1>8. ASSUME ~overlap, NEW w \in Updates, Coming(w)'
      PROVE  state' = MUTED /\ SpamCooldown - age'[w] <= ttl' /\ InFlight' \subseteq {w}
  BY <1>3, <1>4, <1>5, <1>8 DEF AgreeInv
<1>9. \A w \in by' : w = u
  BY <1>1
<1> QED BY <1>2, <1>3, <1>6, <1>7, <1>8, <1>9 DEF AgreeInv

LEMMA AgreePass ==
    ASSUME FilterInv, StepType, AgreeInv, Pass
    PROVE  AgreeInv'
<1>0. /\ state \in States /\ ttl \in Nat /\ (ttl = 0 <=> state = UNDEFINED)
      /\ age \in [Updates -> Nat] /\ until \in Nat /\ applied \subseteq Updates
  BY DEF FilterInv, FilterType, TypeOK, StepType
<1>1. /\ at' = at /\ seen' = seen /\ wire' = wire /\ applied' = applied /\ overlap' = overlap
      /\ step' = step /\ by' = by /\ late' = late
  BY DEF Pass, Tick, vars
<1>2. InFlight' = InFlight
  BY <1>1 DEF InFlight
<1>3. /\ ttl > 0 => ttl' = ttl - 1
      /\ ttl > 1 => state' = state
  BY <1>0 DEF Pass, Tick, vars
<1>4. until' \in Nat /\ until' <= until /\ (until' > 0 /\ until <= SpamCooldown => until' = until - 1)
  BY <1>0, CooldownAssumption DEF Pass, Forever
<1>5. ASSUME NEW w \in Updates, Coming(w)'
      PROVE  Coming(w) /\ age'[w] = age[w] + 1
  <2>1. age'[w] = IF seen[w] = LOUD /\ step[w] # "done" /\ age[w] < SpamCooldown THEN age[w] + 1 ELSE age[w]
    BY <1>0 DEF Pass
  <2>2. seen[w] = LOUD /\ step[w] # "done" /\ age'[w] < SpamCooldown /\ w \in applied
    BY <1>1, <1>5 DEF Coming
  <2>3. age[w] < SpamCooldown
    BY <1>0, <2>1, <2>2, CooldownAssumption
  <2> QED BY <2>1, <2>2, <2>3 DEF Coming
<1>6. ASSUME ~overlap, NEW w \in Updates, Coming(w)'
      PROVE  state' = MUTED /\ SpamCooldown - age'[w] <= ttl' /\ InFlight' \subseteq {w}
  <2>1. Coming(w) /\ age'[w] = age[w] + 1 /\ age'[w] < SpamCooldown
    BY <1>5, <1>6 DEF Coming
  <2>2. state = MUTED /\ SpamCooldown - age[w] <= ttl /\ InFlight \subseteq {w}
    BY <1>6, <2>1 DEF AgreeInv
  <2>3. ttl > 1
    BY <1>0, <2>1, <2>2, CooldownAssumption
  <2> QED BY <1>0, <1>2, <1>3, <2>1, <2>2, <2>3, CooldownAssumption
<1>7. ASSUME ~overlap, Restricted'
      PROVE  state' = MUTED /\ until' <= ttl' /\ InFlight' \subseteq by'
  <2>1. until' > 0 /\ until > 0 /\ Restricted /\ until <= SpamCooldown
    BY <1>0, <1>1, <1>4, <1>7 DEF Restricted, AgreeInv
  <2>2. state = MUTED /\ until <= ttl /\ InFlight \subseteq by
    BY <1>7, <2>1 DEF AgreeInv
  <2>3. ttl > 1 /\ until' = until - 1
    BY <1>0, <1>4, <2>1, <2>2
  <2> QED BY <1>0, <1>1, <1>2, <1>3, <2>2, <2>3
<1>8. ~late' => until' <= SpamCooldown
  BY <1>0, <1>1, <1>4, CooldownAssumption DEF AgreeInv
<1> QED BY <1>1, <1>6, <1>7, <1>8 DEF AgreeInv

-------------------------------------------------------------------------------
LEMMA AgreeNext == MuteInv /\ [MuteNext]_allVars => AgreeInv'
<1> SUFFICES ASSUME FilterInv, StepType, AgreeInv, [MuteNext]_allVars PROVE AgreeInv'
  BY DEF MuteInv
<1>1. CASE Filter
  <2>1. [Next]_vars
    BY <1>1, StepOfFilter DEF MuteNext
  <2>2. UNCHANGED muteVars
    BY <1>1 DEF Filter
  <2>3. ASSUME NEW u \in Updates, Get(u), NEW d \in 0..MaxDelay,
               age' = [age EXCEPT ![u] = IF state = LOUD THEN d ELSE 0]
        PROVE  AgreeInv'
    <3> DEFINE e == IF state = LOUD THEN d ELSE 0
    <3>1. e \in Nat
      BY MuteAssumption
    <3>2. age' = [age EXCEPT ![u] = e]
      BY <2>3
    <3> HIDE DEF e
    <3> QED BY <2>1, <2>2, <2>3, <3>1, <3>2, Overlaps, AgreeGet
  <2>4. ASSUME NEW u \in Updates, SetSucceeds(u) \/ SetUnanswered(u) \/ LateSet(u), UNCHANGED age
        PROVE  AgreeInv'
    BY <2>2, <2>4, FilterSteps, AgreeSet
  <2>5. ASSUME NEW u \in Updates, GetFails(u) \/ SetFails(u) \/ SetVanishes(u), UNCHANGED age
        PROVE  AgreeInv'
    BY <2>2, <2>5, FilterSteps, AgreeNoSet
  <2> QED BY <1>1, <2>3, <2>4, <2>5 DEF Filter
<1>2. ASSUME NEW u \in Updates, GetMe(u) \/ GetBotMember(u) \/ GetUserMember(u) \/ GiveUp(u)
      PROVE  AgreeInv'
  <2>1. UNCHANGED <<vars, age, until, by, late>> /\ \E place : step' = [step EXCEPT ![u] = place]
    BY <1>2 DEF GetMe, GetBotMember, GetUserMember, GiveUp, Step
  <2>2. /\ state' = state /\ ttl' = ttl /\ at' = at /\ seen' = seen /\ applied' = applied
        /\ overlap' = overlap /\ age' = age /\ until' = until /\ by' = by /\ late' = late
        /\ InFlight' = InFlight
    BY <2>1 DEF vars, InFlight
  <2>3. \A w \in Updates : step'[w] # "done" => step[w] # "done"
    BY <1>2 DEF GetMe, GetBotMember, GetUserMember, GiveUp, Step, At, StepType
  <2>4. \A w \in Updates : Coming(w)' => Coming(w)
    BY <2>2, <2>3 DEF Coming
  <2>5. Restricted' = Restricted
    BY <2>2 DEF Restricted
  <2> QED BY <2>2, <2>4, <2>5 DEF AgreeInv
<1>3. ASSUME NEW u \in Updates, Restrict(u)
      PROVE  AgreeInv'
  BY <1>3, AgreeRestrict
<1>4. CASE Pass
  BY <1>4, AgreePass
<1>5. CASE UNCHANGED allVars
  BY <1>5 DEF allVars, vars, muteVars, AgreeInv, Coming, Restricted, InFlight
<1> QED BY <1>1, <1>2, <1>3, <1>4, <1>5 DEF MuteNext

LEMMA MuteInvariant == MuteSpec => []MuteInv
<1>1. MuteInit => FilterInv /\ StepType
  <2>1. MuteInit => StepType
    <3> SUFFICES ASSUME MuteInit PROVE StepType
      OBVIOUS
    <3>1. age \in [Updates -> Nat] /\ until \in Nat /\ by \subseteq Updates
      BY DEF MuteInit
    <3>2. step \in [Updates -> {"me", "bot", "user", "restrict", "done"}]
      BY DEF MuteInit
    <3>3. allowed \in [Updates -> BOOLEAN] /\ late \in BOOLEAN
      BY Zenon DEF MuteInit
    <3> QED BY <3>1, <3>2, <3>3 DEF StepType
  <2> QED BY <2>1, TypeInit, CountInit, AloneInit DEF MuteInit, FilterInv
<1>2. MuteInv /\ [MuteNext]_allVars => FilterInv'
  <2>1. [MuteNext]_allVars => [Next]_vars
    BY StepOfFilter DEF allVars
  <2> QED BY <2>1, TypeNext, CountNext, AloneNext DEF MuteInv, FilterInv
<1>3. MuteInv /\ [MuteNext]_allVars => MuteInv'
  BY <1>2, StepTypeNext, AgreeNext DEF MuteInv
<1>4. MuteInit => MuteInv
  BY <1>1, AgreeInit DEF MuteInv
<1> QED BY <1>3, <1>4, PTL DEF MuteSpec

(* Every variable keeps its type, the ones of the mutes included.           *)
THEOREM MuteTypeCorrect == MuteSpec => []MuteTypeOK
<1>1. MuteInv => MuteTypeOK
  BY DEF MuteInv, FilterInv, FilterType, StepType, MuteTypeOK
<1> QED BY MuteInvariant, <1>1, PTL

(* A user whom Telegram keeps silent is MUTED for the bot as long, unless   *)
(* commands overlapped, the SET never arrived or the request came too late. *)
THEOREM Agree == MuteSpec => []MutesAgree
<1>1. MuteInv => MutesAgree
  BY DEF MuteInv, AgreeInv, Restricted, MutesAgree
<1> QED BY MuteInvariant, <1>1, PTL

(* And what is proved of the rate limit alone holds with the mutes.         *)
THEOREM FilterHolds == MuteSpec => []MuteIsEarned /\ []BurstBound /\ MuteHolds
BY ImplementsFilter, Earned, Bounded, Holds, PTL
===============================================================================
