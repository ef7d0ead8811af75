-------------------------------- MODULE Actions --------------------------------
(***************************************************************************)
(* The commands under a cooldown, in one chat: pair actions (FAction;      *)
(* SAction is the same on other columns), solo actions (MAction), Up,      *)
(* which changes a length by a random amount, and games (Play); and the    *)
(* two that count nothing, an action with a text of the user's own         *)
(* (Perform) or of somebody's (Random).  Each update first registers the   *)
(* author of the message it replies to and its own author.                 *)
(*                                                                         *)
(* A statement locks the rows it writes until its transaction ends.  A     *)
(* pair action runs under RepeatableRead and a game under Serializable:    *)
(* both fail on a row that was changed since their first statement.  The   *)
(* rest is single statements that commit by themselves.  A trigger also    *)
(* writes the row of the chat, after the row of the user; the registration *)
(* and the game lock the chat first, and so does the trigger on a text.    *)
(***************************************************************************)
EXTENDS Integers, Sequences, FiniteSets

CONSTANTS Users,        \* members a chat can have
          Updates,      \* commands sent in the chat
          Commands,     \* what an update may ask: kind, by, to
          Stranger,     \* to: nobody with a row of their own
          Amounts,      \* what Up may add, in tenths: -100..100 in the code
          Cooldown,     \* the cooldown of every command
          MaxTime,      \* bound of the clock
          MinPlayers,   \* fewest members for a game, 3 in the code
          MaxPlayers,   \* most players of a game, 10 in the code
          Chat, None    \* the row of the chat; no row, no update

ASSUME UsersAssumption ==
    /\ IsFiniteSet(Users) /\ IsFiniteSet(Updates)
    /\ Chat \notin Users /\ Stranger \notin Users /\ None \notin Users \cup Updates \cup {Chat}
ASSUME CommandsAssumption ==
    Commands \subseteq [kind : {"pair", "solo", "grow", "game", "perform", "random"},
                  by : Users, to : Users \cup {Stranger}]
ASSUME NumbersAssumption ==
    /\ Cooldown \in Nat /\ MaxTime \in Nat /\ Amounts \subseteq Int
    /\ MinPlayers \in Nat \ {0} /\ MaxPlayers \in Nat \ {0} /\ MinPlayers <= MaxPlayers

VARIABLES
    clock,      \* the database's time; 0 stands for a NULL timestamp
    members,    \* users with a row in the chat
    row,        \* row[x]: the committed chat_users row of x
    chatGame,   \* last_c_game_at of the chat, committed
    owner,      \* owner[r]: the update whose transaction holds row r
    cmd,        \* cmd[u]: what update u asks for
    at,         \* at[u]: where its goroutine stands
    left,       \* left[u]: users still to be registered
    began,      \* began[u]: NOW() of its transaction
    stale,      \* stale[u]: rows changed since its transaction's snapshot
    draft,      \* draft[u]: the rows its transaction has written
    players,    \* players[u]: the players of its game
    loser,      \* loser[u]: the last of them
    todo,       \* todo[u]: players its game has not counted yet
    next,       \* next[u]: the player it counts next
    amount,     \* amount[u]: what its Up adds
    count,      \* count[u]: the number it will announce
    result,     \* result[u]: how the update ended
    \* history:
    counted,    \* updates whose transaction was committed
    failed      \* updates one of whose calls to the database failed

dbVars   == <<members, row, chatGame>>
txVars   == <<began, stale, draft>>
drawn    == <<players, loser, todo, next, amount>>
vars == <<clock, dbVars, owner, cmd, at, left, txVars, drawn, count, result, counted, failed>>

Rows == Users \cup {Chat}
Fields == [pair : Nat, from : Nat, pairAt : Nat, solo : Nat, soloAt : Nat,
           length : Nat, growAt : Nat, games : Nat, loses : Nat]
NewRow == [pair |-> 0, from |-> 0, pairAt |-> 0, solo |-> 0, soloAt |-> 0,
           length |-> 0, growAt |-> 0, games |-> 0, loses |-> 0]
Drafts == UNION {[D -> Fields] : D \in SUBSET Users}
NoDraft == [x \in {} |-> NewRow]

By(u) == cmd[u].by
To(u) == cmd[u].to
Kind(u) == cmd[u].kind
Single(u) == Kind(u) \in {"solo", "grow"}

Registering == {"reg", "regRow"}
Texts == {"textChat", "textRow", "touchRow", "touchChat"}
Waiting == Registering \cup Texts \cup {"byRow", "byChat", "toRow", "gameChat", "loser", "player"}
InSnapshot == {"byRow", "byChat", "toRow", "commit", "hot", "refuse",
               "gameChat", "size", "few", "loser", "player"}

Init ==
    /\ clock = 1
    /\ members \in SUBSET Users
    /\ row = [x \in Users |-> NewRow]
    /\ chatGame = 0
    /\ owner = [r \in Rows |-> None]
    /\ cmd \in [Updates -> Commands]
    /\ at = [u \in Updates |-> "new"]
    /\ left = [u \in Updates |-> <<>>]
    /\ began = [u \in Updates |-> 0]
    /\ stale = [u \in Updates |-> {}]
    /\ draft = [u \in Updates |-> NoDraft]
    /\ players = [u \in Updates |-> {}]
    /\ loser = [u \in Updates |-> None]
    /\ todo = [u \in Updates |-> {}]
    /\ next = [u \in Updates |-> None]
    /\ amount = [u \in Updates |-> 0]
    /\ count = [u \in Updates |-> 0]
    /\ result = [u \in Updates |-> "none"]
    /\ counted = {}
    /\ failed = {}

-------------------------------------------------------------------------------
(* Rows and transactions.                                                   *)

Goto(u, place) == at' = [at EXCEPT ![u] = place]
Free(u, r) == owner[r] \in {None, u}
Lock(u, r) == owner' = [owner EXCEPT ![r] = u]
Released(u) == [r \in Rows |-> IF owner[r] = u THEN None ELSE owner[r]]

(* What the transaction of u reads in the row of x. *)
Seen(u, x) == IF x \in DOMAIN draft[u] THEN draft[u][x] ELSE row[x]
Extend(d, x, new) == [y \in DOMAIN d \cup {x} |-> IF y = x THEN new ELSE d[y]]
Write(u, x, new) == draft' = [draft EXCEPT ![u] = Extend(@, x, new)]

(* RepeatableRead and Serializable refuse to write a row that another       *)
(* transaction has changed since the snapshot.                              *)
Conflict(u, r) == Kind(u) \in {"pair", "game"} /\ r \in stale[u]

(* Others see the rows in R change: their snapshots do not. *)
Changed(u, R) == [v \in Updates |-> IF v # u /\ at[v] \in InSnapshot THEN stale[v] \cup R ELSE {}]

(* The row another transaction holds and u waits for. *)
Wanted(u) == CASE at[u] \in {"reg", "byChat", "gameChat", "textChat", "touchChat"} -> Chat
               [] at[u] = "regRow" -> Head(left[u])
               [] at[u] \in {"byRow", "textRow", "touchRow"} -> By(u)
               [] at[u] = "toRow" -> To(u)
               [] at[u] = "loser" -> loser[u]
               [] OTHER -> next[u]
Blocked(u) == at[u] \in Waiting /\ ~Free(u, Wanted(u)) /\ ~Conflict(u, Wanted(u))
Blocker(u) == owner[Wanted(u)]

(* The update ends; its transaction, if it has one, is rolled back. *)
End(u, how) ==
    /\ Goto(u, "end")
    /\ result' = [result EXCEPT ![u] = how]
    /\ owner' = Released(u)
    /\ draft' = [draft EXCEPT ![u] = NoDraft]

(* The error of a statement ends the handler without a reply. *)
Drop(u) ==
    /\ End(u, "dropped")
    /\ UNCHANGED <<clock, dbVars, cmd, left, began, stale, drawn, count, counted>>

-------------------------------------------------------------------------------
(* PreprocessUser.                                                          *)

Arrive(u) ==
    /\ at[u] = "new"
    /\ Goto(u, "reg")
    /\ left' = [left EXCEPT ![u] = IF To(u) = Stranger THEN <<By(u)>> ELSE <<To(u), By(u)>>]
    /\ UNCHANGED <<clock, dbVars, owner, cmd, txVars, drawn, count, result, counted, failed>>

(* init_chat_user_data writes the chat and then the row of the user. *)
RegisterChat(u) ==
    /\ at[u] = "reg" /\ Free(u, Chat)
    /\ Lock(u, Chat)
    /\ Goto(u, "regRow")
    /\ UNCHANGED <<clock, dbVars, cmd, left, txVars, drawn, count, result, counted, failed>>

RegisterUser(u) ==
    /\ at[u] = "regRow" /\ Free(u, Head(left[u]))
    /\ members' = members \cup {Head(left[u])}
    /\ owner' = Released(u)
    /\ stale' = Changed(u, {Chat, Head(left[u])})
    /\ left' = [left EXCEPT ![u] = Tail(@)]
    /\ Goto(u, IF Len(left[u]) = 1 THEN "user" ELSE "reg")
    /\ UNCHANGED <<clock, row, chatGame, cmd, began, draft, drawn, count, result, counted, failed>>

GetUser(u) ==
    /\ at[u] = "user"
    /\ Goto(u, CASE Kind(u) = "perform" -> "textChat"
                 [] Kind(u) = "random" -> "pick"
                 [] OTHER -> "begin")
    /\ UNCHANGED <<clock, dbVars, owner, cmd, left, txVars, drawn, count, result, counted, failed>>

-------------------------------------------------------------------------------
(* The action.                                                              *)

(* Up draws its amount first. *)
Begin(u) ==
    /\ at[u] = "begin"
    /\ began' = [began EXCEPT ![u] = clock]
    /\ IF Kind(u) = "grow"
         THEN \E a \in Amounts : amount' = [amount EXCEPT ![u] = a]
         ELSE UNCHANGED amount
    /\ Goto(u, "first")
    /\ UNCHANGED <<clock, dbVars, owner, cmd, left, stale, draft, players, loser, todo, next, count,
                   result, counted, failed>>

ReadyWithoutNull(u, last) == last # 0 /\ last + Cooldown < began[u]   \* mutant
Ready(u, last) == last = 0 \/ last + Cooldown < began[u]

(* The last time of the column that the command of u has its cooldown on. *)
LastAt(u) == CASE Kind(u) = "pair" -> row[By(u)].pairAt
               [] Kind(u) = "solo" -> row[By(u)].soloAt
               [] Kind(u) = "grow" -> row[By(u)].growAt
               [] OTHER -> chatGame

(* The first statement takes the snapshot; its WHERE is looked at first in  *)
(* that snapshot.                                                           *)
Try(u) ==
    /\ at[u] = "first"
    /\ stale' = [stale EXCEPT ![u] = {}]
    /\ Goto(u, IF ~Ready(u, LastAt(u)) THEN "hot"
               ELSE IF Kind(u) = "game" THEN "gameChat" ELSE "byRow")
    /\ UNCHANGED <<clock, dbVars, owner, cmd, left, began, draft, drawn, count, result, counted, failed>>

(* GREATEST(d_length + $1, 0) *)
Grown(length, a) == IF length + a > 0 THEN length + a ELSE 0

CountBy(u) ==
    LET r == Seen(u, By(u)) IN
    CASE Kind(u) = "pair" -> [r EXCEPT !.pair = @ + 1, !.pairAt = began[u]]
      [] Kind(u) = "grow" -> [r EXCEPT !.length = Grown(@, amount[u]), !.growAt = began[u]]
      [] OTHER -> [r EXCEPT !.solo = @ + 1, !.soloAt = began[u]]

NumberIn(u, r) == CASE Kind(u) = "pair" -> r.pair
                    [] Kind(u) = "grow" -> r.length
                    [] OTHER -> r.solo
NumberBefore(u) == NumberIn(u, row[By(u)])                         \* mutant
Number(u) == NumberIn(u, CountBy(u))

UpdateByUnlocked(u) ==                                             \* mutant
    /\ at[u] = "byRow"
    /\ Write(u, By(u), CountBy(u))
    /\ count' = [count EXCEPT ![u] = Number(u)]
    /\ Goto(u, "byChat")
    /\ UNCHANGED <<clock, dbVars, owner, cmd, left, began, stale, drawn, result, counted, failed>>

UpdateByBlind(u) ==                                                \* mutant
    /\ at[u] = "byRow" /\ Free(u, By(u))
    /\ Lock(u, By(u))
    /\ Write(u, By(u), CountBy(u))
    /\ count' = [count EXCEPT ![u] = Number(u)]
    /\ Goto(u, "byChat")
    /\ UNCHANGED <<clock, dbVars, cmd, left, began, stale, drawn, result, counted, failed>>

(* TryPerform: a single statement looks at its WHERE again in the row it    *)
(* has waited for.                                                          *)
UpdateBy(u) ==
    /\ at[u] = "byRow" /\ Free(u, By(u)) /\ ~Conflict(u, By(u))
    /\ IF Ready(u, LastAt(u))
         THEN /\ Lock(u, By(u))
              /\ Write(u, By(u), CountBy(u))
              /\ count' = [count EXCEPT ![u] = Number(u)]
              /\ Goto(u, "byChat")
         ELSE Goto(u, "hot") /\ UNCHANGED <<owner, draft, count>>
    /\ UNCHANGED <<clock, dbVars, cmd, left, began, stale, drawn, result, counted, failed>>

(* Its trigger writes the chat.  A single statement is then done; its       *)
(* commit is part of it.                                                    *)
TriggerChat(u) ==
    /\ at[u] = "byChat" /\ Free(u, Chat) /\ ~Conflict(u, Chat)
    /\ Lock(u, Chat)
    /\ Goto(u, IF Kind(u) = "pair" /\ To(u) # Stranger THEN "toRow" ELSE "commit")
    /\ UNCHANGED <<clock, dbVars, cmd, left, txVars, drawn, count, result, counted, failed>>

(* Confirm *)
UpdateTo(u) ==
    /\ at[u] = "toRow" /\ Free(u, To(u))
    /\ owner[To(u)] = u \/ ~Conflict(u, To(u))
    /\ Lock(u, To(u))
    /\ Write(u, To(u), [Seen(u, To(u)) EXCEPT !.from = @ + 1])
    /\ Goto(u, "commit")
    /\ UNCHANGED <<clock, dbVars, cmd, left, began, stale, drawn, count, result, counted, failed>>

-------------------------------------------------------------------------------
(* The game.                                                                *)

StartGame(u) ==
    /\ at[u] = "gameChat" /\ Free(u, Chat) /\ ~Conflict(u, Chat)
    /\ Lock(u, Chat)
    /\ Goto(u, "size")
    /\ UNCHANGED <<clock, dbVars, cmd, left, txVars, drawn, count, result, counted, failed>>

Enough == Cardinality(members) >= MinPlayers

(* The most recent members play, in the order a shuffle gives them; the     *)
(* last one loses and is written first.                                     *)
PickPlayers(u) ==
    /\ at[u] = "size"
    /\ Enough
    /\ \E P \in SUBSET members :
         /\ Cardinality(P) = IF Cardinality(members) < MaxPlayers
                               THEN Cardinality(members) ELSE MaxPlayers
         /\ players' = [players EXCEPT ![u] = P]
         /\ todo' = [todo EXCEPT ![u] = P]
         /\ \E x \in P : /\ loser' = [loser EXCEPT ![u] = x]
                         /\ count' = [count EXCEPT ![u] = row[x].loses + 1]
    /\ Goto(u, "loser")
    /\ UNCHANGED <<clock, dbVars, owner, cmd, left, txVars, next, amount, result, counted, failed>>

(* Nobody to play with: the reply is enqueued before the transaction ends. *)
TooFew(u) ==
    /\ at[u] = "size"
    /\ ~Enough
    /\ Goto(u, "few")
    /\ UNCHANGED <<clock, dbVars, owner, cmd, left, txVars, drawn, count, result, counted, failed>>

(* The error of the query for a page of players is ignored: as good as      *)
(* nobody to play with.                                                     *)
PageFails(u) ==
    /\ at[u] = "size"
    /\ Goto(u, "few")
    /\ failed' = failed \cup {u}
    /\ UNCHANGED <<clock, dbVars, owner, cmd, left, txVars, drawn, count, result, counted>>

(* RecordGameLose and RecordGame on a row. *)
Lost(r) == [r EXCEPT !.loses = @ + 1]
Played(r) == [r EXCEPT !.games = @ + 1]

RecordLose(u) ==
    /\ at[u] = "loser" /\ Free(u, loser[u]) /\ ~Conflict(u, loser[u])
    /\ Lock(u, loser[u])
    /\ Write(u, loser[u], Lost(row[loser[u]]))
    /\ \E x \in todo[u] : next' = [next EXCEPT ![u] = x]
    /\ Goto(u, "player")
    /\ UNCHANGED <<clock, dbVars, cmd, left, began, stale, players, loser, todo, amount, count,
                   result, counted, failed>>

(* Row by row in an order the database chooses. *)
RecordPlayer(u) ==
    /\ at[u] = "player" /\ Free(u, next[u])
    /\ owner[next[u]] = u \/ ~Conflict(u, next[u])
    /\ Lock(u, next[u])
    /\ Write(u, next[u], Played(Seen(u, next[u])))
    /\ todo' = [todo EXCEPT ![u] = @ \ {next[u]}]
    /\ IF todo[u] = {next[u]}
         THEN Goto(u, "commit") /\ next' = [next EXCEPT ![u] = None]
         ELSE UNCHANGED at /\ \E x \in todo[u] \ {next[u]} : next' = [next EXCEPT ![u] = x]
    /\ UNCHANGED <<clock, dbVars, cmd, left, began, stale, players, loser, amount, count,
                   result, counted, failed>>

-------------------------------------------------------------------------------
(* Texts.  Both end by writing the time of the last message.                *)

(* InsertNewAction; a command without a text is told so and goes on.  The   *)
(* trigger writes the chat and then the row of the user.                    *)
InsertText(u) ==
    /\ at[u] = "textChat" /\ Free(u, Chat)
    /\ Lock(u, Chat)
    /\ Goto(u, "textRow")
    /\ UNCHANGED <<clock, dbVars, cmd, left, txVars, drawn, count, result, counted, failed>>

(* A statement of its own has written the chat and the row of the author. *)
StatementEnds(u, place) ==
    /\ Goto(u, place)
    /\ owner' = Released(u)
    /\ stale' = Changed(u, {Chat, By(u)})
    /\ UNCHANGED <<clock, dbVars, cmd, left, began, draft, drawn, count, result, counted, failed>>

TextInserted(u) == at[u] = "textRow" /\ Free(u, By(u)) /\ StatementEnds(u, "touchRow")

(* GetRandomActionFromNewest *)
PickText(u) ==
    /\ at[u] = "pick"
    /\ Goto(u, "touchRow")
    /\ UNCHANGED <<clock, dbVars, owner, cmd, left, txVars, drawn, count, result, counted, failed>>

NoTextYet(u) == at[u] = "pick" /\ Drop(u) /\ UNCHANGED failed

(* UpdateLastMessageAt: the row of the user, and the chat by its trigger. *)
Touch(u) ==
    /\ at[u] = "touchRow" /\ Free(u, By(u))
    /\ Lock(u, By(u))
    /\ Goto(u, "touchChat")
    /\ UNCHANGED <<clock, dbVars, cmd, left, txVars, drawn, count, result, counted, failed>>

Touched(u) == at[u] = "touchChat" /\ Free(u, Chat) /\ StatementEnds(u, "reply")

-------------------------------------------------------------------------------
(* The end of the transaction.                                              *)

Install(u) ==
    /\ row' = [x \in Users |-> Seen(u, x)]
    /\ chatGame' = IF Kind(u) = "game" THEN began[u] ELSE chatGame
    /\ stale' = Changed(u, DOMAIN draft[u] \cup {Chat})
    /\ counted' = counted \cup {u}

Commit(u) ==
    /\ at[u] = "commit"
    /\ Install(u)
    /\ owner' = Released(u)
    /\ draft' = [draft EXCEPT ![u] = NoDraft]
    /\ Goto(u, "reply")
    /\ UNCHANGED <<clock, members, cmd, left, began, drawn, count, result, failed>>

(* CommitTx logs the error of a commit and returns: the handler goes on.    *)
(* The error of a single statement ends the handler.  In both cases the     *)
(* database may have committed before its answer was lost.                  *)
CommitFails(u) ==
    /\ at[u] = "commit"
    /\ failed' = failed \cup {u}
    /\ Install(u) \/ UNCHANGED <<row, chatGame, stale, counted>>
    /\ owner' = Released(u)
    /\ draft' = [draft EXCEPT ![u] = NoDraft]
    /\ IF Single(u)
         THEN Goto(u, "end") /\ result' = [result EXCEPT ![u] = "dropped"]
         ELSE Goto(u, "reply") /\ UNCHANGED result
    /\ UNCHANGED <<clock, members, cmd, left, began, drawn, count>>

(* A concurrent change, which RepeatableRead does not wait out. *)
SerializationFails(u) ==
    /\ at[u] \in Waiting
    /\ owner[Wanted(u)] # u /\ Conflict(u, Wanted(u))
    /\ Drop(u)
    /\ UNCHANGED failed

(* PostgreSQL ends a circle of transactions that wait for each other by     *)
(* failing the statement of one of them.                                    *)
InCircle(u) ==
    \E D \in SUBSET Updates :
        /\ u \in D
        /\ \A v \in D : Blocked(v) /\ Blocker(v) \in D
        /\ \A v \in D : \E w \in D : Blocker(w) = v
DeadlockFails(u) ==
    /\ InCircle(u)
    /\ Drop(u)
    /\ UNCHANGED failed

StatementFails(u) ==
    /\ at[u] \in Waiting \cup {"user", "first", "size", "pick"} \/ (at[u] = "begin" /\ Single(u))
    /\ Drop(u)
    /\ failed' = failed \cup {u}

(* NewTx returns a transaction that could not begin, the first use of which *)
(* panics; a last time that could not be read is dereferenced too.  The     *)
(* deferred RollbackTx runs all the same.                                   *)
Panic(u) ==
    /\ at[u] = "hot" \/ (at[u] = "begin" /\ Kind(u) \in {"pair", "game"})
    /\ End(u, "panicked")
    /\ failed' = failed \cup {u}
    /\ UNCHANGED <<clock, dbVars, cmd, left, began, stale, drawn, count, counted>>

(* GetLastTime, for the text that says how long to wait, dereferenced: a    *)
(* NULL panics.  A pair action and a game read it in their snapshot, where  *)
(* the WHERE has been looked at; no time goes back to NULL, so it is not    *)
(* NULL there if and only if it is not NULL in the row as committed now.    *)
ReadLastTime(u) ==
    /\ at[u] = "hot"
    /\ IF LastAt(u) = 0
         THEN End(u, "panicked")
         ELSE Goto(u, "refuse") /\ UNCHANGED <<owner, draft, result>>
    /\ UNCHANGED <<clock, dbVars, cmd, left, began, stale, drawn, count, counted, failed>>

RefuseWithoutRollback(u) ==                                        \* mutant
    /\ at[u] \in {"refuse", "few"}
    /\ Goto(u, "end")
    /\ result' = [result EXCEPT ![u] = "refused"]
    /\ UNCHANGED <<clock, dbVars, owner, cmd, left, txVars, drawn, count, counted, failed>>

(* The reply is in the queue, or was dropped there; the deferred RollbackTx *)
(* follows.                                                                 *)
Refuse(u) ==
    /\ at[u] \in {"refuse", "few"}
    /\ End(u, "refused")
    /\ UNCHANGED <<clock, dbVars, cmd, left, began, stale, drawn, count, counted, failed>>

Announce(u) ==
    /\ at[u] = "reply"
    /\ End(u, "announced")
    /\ UNCHANGED <<clock, dbVars, cmd, left, began, stale, drawn, count, counted, failed>>

Tick ==
    /\ clock < MaxTime
    /\ clock' = clock + 1
    /\ UNCHANGED <<dbVars, owner, cmd, at, left, txVars, drawn, count, result, counted, failed>>

-------------------------------------------------------------------------------
Handle(u) ==
    \/ RegisterChat(u) \/ RegisterUser(u) \/ GetUser(u)
    \/ Begin(u) \/ Try(u) \/ UpdateBy(u) \/ TriggerChat(u) \/ UpdateTo(u)
    \/ StartGame(u) \/ PickPlayers(u) \/ TooFew(u) \/ RecordLose(u) \/ RecordPlayer(u)
    \/ InsertText(u) \/ TextInserted(u) \/ PickText(u) \/ Touch(u) \/ Touched(u)
    \/ Commit(u) \/ SerializationFails(u)
    \/ ReadLastTime(u) \/ Refuse(u) \/ Announce(u)

Next ==
    \/ \E u \in Updates :
         \/ Arrive(u) \/ Handle(u) \/ NoTextYet(u) \/ DeadlockFails(u)
         \/ CommitFails(u) \/ StatementFails(u) \/ PageFails(u) \/ Panic(u)
    \/ Tick

Spec == Init /\ [][Next]_vars

(* A handler goes on, a row that is released again and again is granted at  *)
(* last, and the deadlock detector finds every circle.                      *)
FairSpec == Spec /\ \A u \in Updates : WF_vars(Handle(u)) /\ WF_vars(DeadlockFails(u))

-------------------------------------------------------------------------------
(* Properties.                                                              *)

Places == Waiting \cup InSnapshot \cup {"new", "user", "begin", "first", "pick", "reply", "end"}
TypeOK ==
    /\ clock \in 1..(MaxTime + 1)
    /\ members \subseteq Users
    /\ row \in [Users -> Fields]
    /\ chatGame \in Nat
    /\ owner \in [Rows -> Updates \cup {None}]
    /\ cmd \in [Updates -> Commands]
    /\ at \in [Updates -> Places]
    /\ left \in [Updates -> Seq(Users)]
    /\ began \in [Updates -> Nat]
    /\ stale \in [Updates -> SUBSET Rows]
    /\ draft \in [Updates -> Drafts]
    /\ players \in [Updates -> SUBSET Users]
    /\ loser \in [Updates -> Users \cup {None}]
    /\ \A u \in Updates : Cardinality(players[u]) \in {0} \cup MinPlayers..MaxPlayers
    /\ todo \in [Updates -> SUBSET Users]
    /\ next \in [Updates -> Users \cup {None}]
    /\ amount \in [Updates -> Int]
    /\ count \in [Updates -> Nat]
    /\ result \in [Updates -> {"none", "announced", "refused", "dropped", "panicked"}]
    /\ counted \subseteq Updates
    /\ failed \subseteq Updates

(* Every committed command is in the counters of everybody it concerns,     *)
(* exactly once, and no other is: no update of a row is lost, and no pair   *)
(* action or game is done by half.                                          *)
PairsBy(x) == {u \in counted : Kind(u) = "pair" /\ By(u) = x}
PairsTo(x) == {u \in counted : Kind(u) = "pair" /\ To(u) = x}
SolosBy(x) == {u \in counted : Kind(u) = "solo" /\ By(u) = x}
GamesOf(x) == {u \in counted : Kind(u) = "game" /\ x \in players[u]}
LosesOf(x) == {u \in counted : Kind(u) = "game" /\ loser[u] = x}
CountersAddUp ==
    \A x \in Users :
        /\ row[x].pair = Cardinality(PairsBy(x)) /\ row[x].from = Cardinality(PairsTo(x))
        /\ row[x].solo = Cardinality(SolosBy(x))
        /\ row[x].games = Cardinality(GamesOf(x)) /\ row[x].loses = Cardinality(LosesOf(x))

(* The numbers users are told are the values the counter went through: no   *)
(* two committed actions of a user announce the same one, and no two games  *)
(* the same number of loses.                                                *)
NumbersAreUnique ==
    \A x \in Users :
        /\ {count[u] : u \in PairsBy(x)} = 1..row[x].pair
        /\ {count[u] : u \in SolosBy(x)} = 1..row[x].solo
        /\ {count[u] : u \in LosesOf(x)} = 1..row[x].loses

(* A length changes by the committed Ups of its user and by nothing else,   *)
(* by the whole amount of each though never below zero, and the user is     *)
(* told the length that comes of it.                                        *)
AddsUp(old, a, new) == new = old + a \/ (new = 0 /\ old + a < 0)
GrowthStep ==
    \A x \in Users :
        LET Ups == {u \in counted' \ counted : Kind(u) = "grow" /\ By(u) = x} IN
        /\ row'[x].length # row[x].length => Ups # {}
        /\ \A u \in Ups : /\ AddsUp(row[x].length, amount[u], row'[x].length)
                          /\ count[u] = row'[x].length
LengthsAddUp == [][GrowthStep]_vars

(* A command counts again only after its cooldown, reckoned between the     *)
(* beginnings of the two transactions, whatever order they commit in.       *)
Spaced(old, new) == new = old \/ old = 0 \/ new > old + Cooldown
SpacedStep ==
    /\ Spaced(chatGame, chatGame')
    /\ \A x \in Users : /\ Spaced(row[x].pairAt, row'[x].pairAt)
                        /\ Spaced(row[x].soloAt, row'[x].soloAt)
                        /\ Spaced(row[x].growAt, row'[x].growAt)
CooldownKept == [][SpacedStep]_vars

(* A handler, and with it the whole bot, panics only after a call to the    *)
(* database failed: whatever changed since it was refused, a refused        *)
(* command finds a last time that is not NULL.                              *)
PanicNeedsFailure == \A u \in Updates : result[u] = "panicked" => u \in failed

(* No row stays locked when an update has ended, and none while it waits    *)
(* for the reply queue, but the chat of a game that found too few players.  *)
RowsAreFreed ==
    \A r \in Rows, u \in Updates :
        owner[r] = u /\ at[u] \in {"refuse", "few", "reply", "end"} => r = Chat /\ at[u] = "few"

(* Registration, actions and games lock the same rows in opposite orders,   *)
(* yet every update ends.                                                   *)
UpdateEnds == \A u \in Updates : at[u] = "reg" ~> at[u] = "end"
===============================================================================
