----------------------------- MODULE ActionsProofs -----------------------------
(***************************************************************************)
(* Proofs about Actions, for any number of users and of commands, on any   *)
(* targets, and for every cooldown and size of a game; and that updates    *)
(* run out of steps and stand still only in a circle of locks.             *)
(***************************************************************************)
EXTENDS Actions, SequenceTheorems, FiniteSetTheorems, TLAPS

-------------------------------------------------------------------------------
(* The inductive invariant.  But for the sums over the committed commands,  *)
(* it says something of each update by itself.                              *)

GamePlaces == {"gameChat", "size", "few", "loser", "player"}
Drafting == {"byChat", "toRow", "player", "commit"}
Holding == Drafting \cup {"regRow", "textRow", "touchChat", "size", "few", "loser"}

InPair(u) == Kind(u) = "pair" /\ at[u] \in {"byChat", "toRow", "commit"}
InSolo(u) == Kind(u) = "solo" /\ at[u] \in {"byChat", "commit"}
InGrow(u) == Kind(u) = "grow" /\ at[u] \in {"byChat", "commit"}
InGame(u) == Kind(u) = "game" /\ at[u] \in {"player", "commit"}

(* The place tells the kind of the command and what a game has left to do;  *)
(* a refused command has a last time, so a panic was a failed call's; what  *)
(* is counted is over.                                                      *)
Shape(u) ==
    /\ at[u] \in Registering => left[u] # <<>>
    /\ at[u] \in {"byRow", "byChat"} => Kind(u) \in {"pair", "solo", "grow"}
    /\ at[u] = "toRow" => Kind(u) = "pair" /\ To(u) # Stranger
    /\ at[u] \in GamePlaces => Kind(u) = "game"
    /\ at[u] \in {"begin", "first", "commit"} => Kind(u) \in {"pair", "solo", "grow", "game"}
    /\ at[u] = "hot" => LastAt(u) # 0
    /\ at[u] = "loser" => loser[u] \in players[u] /\ todo[u] = players[u]
    /\ at[u] = "player" => next[u] \in todo[u] /\ todo[u] \subseteq players[u]
    /\ at[u] = "commit" /\ Kind(u) = "game" => todo[u] = {}
    /\ u \in counted => at[u] \in {"reply", "end"}
    /\ result[u] = "panicked" => u \in failed

(* Rows are locked at some places only; what is drafted is locked. *)
Held(u) ==
    /\ \A r \in Rows : owner[r] = u =>
         at[u] \in Holding /\ (at[u] \in {"size", "few"} => r = Chat)
    /\ at[u] \notin Drafting => draft[u] = NoDraft
    /\ \A y \in DOMAIN draft[u] : owner[y] = u
    /\ InGrow(u) => By(u) \in DOMAIN draft[u]
    /\ at[u] \in {"size", "loser"} \/ InGame(u) => owner[Chat] = u

(* A draft is the committed row with the command counted as far as it has   *)
(* come.                                                                    *)
One(b) == IF b THEN 1 ELSE 0
DraftedPair(u, x) ==
    /\ Seen(u, x).pair = row[x].pair + One(InPair(u) /\ By(u) = x)
    /\ Seen(u, x).from = row[x].from + One(Kind(u) = "pair" /\ at[u] = "commit" /\ To(u) = x)
DraftedRest(u, x) ==
    /\ Seen(u, x).solo = row[x].solo + One(InSolo(u) /\ By(u) = x)
    /\ Seen(u, x).games = row[x].games + One(InGame(u) /\ x \in players[u] \ todo[u])
    /\ Seen(u, x).loses = row[x].loses + One(InGame(u) /\ loser[u] = x)
DraftedLength(u, x) ==
    Seen(u, x).length = IF InGrow(u) /\ By(u) = x THEN Grown(row[x].length, amount[u])
                                                  ELSE row[x].length
Drafted(u) == \A x \in Users : DraftedPair(u, x) /\ DraftedRest(u, x) /\ DraftedLength(u, x)

(* A cooldown that was over stays over: its row is locked, or a change of   *)
(* it is in stale, or it is looked at once more.                            *)
TimedRow(u, x) ==
    /\ \/ Seen(u, x).pairAt = row[x].pairAt
       \/ Seen(u, x).pairAt = began[u] /\ Ready(u, row[x].pairAt)
    /\ \/ Seen(u, x).soloAt = row[x].soloAt
       \/ Seen(u, x).soloAt = began[u] /\ Ready(u, row[x].soloAt)
    /\ \/ Seen(u, x).growAt = row[x].growAt
       \/ Seen(u, x).growAt = began[u] /\ Ready(u, row[x].growAt)
Timed(u) ==
    /\ \A x \in Users : TimedRow(u, x)
    /\ at[u] = "gameChat" => Chat \in stale[u] \/ Ready(u, chatGame)
    /\ at[u] \in {"size", "loser"} \/ InGame(u) => Ready(u, chatGame)

(* The number to announce is the next of its counter, or the new length. *)
Numbered(u) ==
    /\ InPair(u) => count[u] = row[By(u)].pair + 1
    /\ InSolo(u) => count[u] = row[By(u)].solo + 1
    /\ InGrow(u) => count[u] = Grown(row[By(u)].length, amount[u])
    /\ InGame(u) => \A x \in Users : loser[u] = x => count[u] = row[x].loses + 1
    /\ at[u] = "loser" => loser[u] \in stale[u] \/ count[u] = row[loser[u]].loses + 1

Proper(u) == Shape(u) /\ Held(u) /\ Drafted(u) /\ Timed(u) /\ Numbered(u)

IInv == TypeOK /\ (\A u \in Updates : Proper(u)) /\ CountersAddUp /\ NumbersAreUnique

-------------------------------------------------------------------------------
(* Steps of one update.                                                     *)

Step(u) ==
    \/ Arrive(u) \/ Handle(u) \/ NoTextYet(u) \/ DeadlockFails(u)
    \/ CommitFails(u) \/ StatementFails(u) \/ PageFails(u) \/ Panic(u)

(* What a step of u leaves to the other updates. *)
Untouched(v) ==
    /\ at'[v] = at[v] /\ left'[v] = left[v] /\ began'[v] = began[v] /\ draft'[v] = draft[v]
    /\ players'[v] = players[v] /\ loser'[v] = loser[v] /\ todo'[v] = todo[v] /\ next'[v] = next[v]
    /\ amount'[v] = amount[v] /\ count'[v] = count[v] /\ result'[v] = result[v]
    /\ at[v] \in InSnapshot => stale[v] \subseteq stale'[v]
    /\ v \in counted' => v \in counted
    /\ v \in failed => v \in failed'
LockStep(u) ==
    \/ owner' = owner
    \/ owner' = Released(u)
    \/ \E r \in Rows \cup {None, Stranger} : Free(u, r) /\ Lock(u, r)
Local(u) == cmd' = cmd /\ LockStep(u) /\ \A v \in Updates \ {u} : Untouched(v)

(* The committed rows change as a whole, by the update that has drafted. *)
SameData == row' = row /\ chatGame' = chatGame /\ counted' = counted
DataStep(u) == SameData \/ (at[u] = "commit" /\ Install(u))

(* An update that ends. *)
Ends(u, how) ==
    /\ End(u, how)
    /\ failed' \in {failed, failed \cup {u}}
    /\ how = "panicked" => u \in failed'
    /\ UNCHANGED <<clock, dbVars, cmd, left, began, stale, drawn, count, counted>>
Ending(u) == \E how \in {"announced", "refused", "dropped", "panicked"} : Ends(u, how)

LEMMA EndingSteps ==
    ASSUME NEW u \in Updates,
           \/ NoTextYet(u) \/ SerializationFails(u) \/ DeadlockFails(u) \/ StatementFails(u)
           \/ Panic(u) \/ Refuse(u) \/ Announce(u)
    PROVE  Ending(u)
<1>1. CASE NoTextYet(u) \/ SerializationFails(u) \/ DeadlockFails(u) \/ StatementFails(u)
  <2>1. Ends(u, "dropped")
    BY <1>1 DEF NoTextYet, SerializationFails, DeadlockFails, StatementFails, Drop, Ends
  <2> QED BY <2>1 DEF Ending
<1>2. CASE Panic(u)
  <2>1. Ends(u, "panicked")
    BY <1>2 DEF Panic, Ends
  <2> QED BY <2>1 DEF Ending
<1>3. CASE Refuse(u)
  <2>1. Ends(u, "refused")
    BY <1>3 DEF Refuse, Ends
  <2> QED BY <2>1 DEF Ending
<1>4. CASE Announce(u)
  <2>1. Ends(u, "announced")
    BY <1>4 DEF Announce, Ends
  <2> QED BY <2>1 DEF Ending
<1> QED BY <1>1, <1>2, <1>3, <1>4

(* What an update asks for. *)
LEMMA Asked ==
    ASSUME TypeOK, NEW u \in Updates
    PROVE  /\ By(u) \in Users /\ To(u) \in Users \cup {Stranger}
           /\ Kind(u) \in {"pair", "solo", "grow", "game", "perform", "random"}
           /\ u # None
BY CommandsAssumption, UsersAssumption DEF TypeOK, By, To, Kind

(* Drafts. *)
LEMMA EmptyDraft == NoDraft \in Drafts /\ DOMAIN NoDraft = {}
BY DEF NoDraft, Drafts, Fields, NewRow

LEMMA Extended ==
    ASSUME NEW d \in Drafts, NEW y \in Users, NEW new \in Fields
    PROVE  /\ Extend(d, y, new) \in Drafts
           /\ DOMAIN Extend(d, y, new) = DOMAIN d \cup {y}
           /\ Extend(d, y, new)[y] = new
           /\ \A z \in DOMAIN d : z # y => Extend(d, y, new)[z] = d[z]
<1>1. PICK D \in SUBSET Users : d \in [D -> Fields]
  BY DEF Drafts
<1>2. Extend(d, y, new) \in [D \cup {y} -> Fields]
  BY <1>1 DEF Extend
<1>3. D \cup {y} \in SUBSET Users
  OBVIOUS
<1>4. Extend(d, y, new) \in Drafts
  BY <1>2, <1>3 DEF Drafts
<1> QED BY <1>1, <1>4 DEF Extend

LEMMA DraftShape ==
    ASSUME TypeOK, NEW u \in Updates
    PROVE  /\ draft[u] \in Drafts /\ DOMAIN draft[u] \subseteq Users
           /\ \A y \in DOMAIN draft[u] : draft[u][y] \in Fields
           /\ \A y \in Users : Seen(u, y) \in Fields
<1>1. draft[u] \in Drafts
  BY DEF TypeOK
<1>2. PICK D \in SUBSET Users : draft[u] \in [D -> Fields]
  BY <1>1 DEF Drafts
<1> QED BY <1>1, <1>2 DEF TypeOK, Seen

(* A step leaves the other updates alone, and their locks with them. *)
LEMMA LocalStep ==
    ASSUME TypeOK, NEW u \in Updates, Step(u)
    PROVE  Local(u) /\ DataStep(u)
<1> USE DEF TypeOK, Local, Untouched, LockStep, DataStep, SameData, Goto, Changed, Install,
            dbVars, txVars, drawn
<1>0. By(u) \in Rows /\ To(u) \in Rows \cup {Stranger} /\ Chat \in Rows /\ Users \subseteq Rows
  BY Asked DEF Rows
<1>1. CASE Arrive(u)
  BY <1>0, <1>1 DEF Arrive
<1>2. CASE RegisterChat(u)
  BY <1>0, <1>2 DEF RegisterChat
<1>3. CASE RegisterUser(u)
  BY <1>0, <1>3 DEF RegisterUser
<1>4. CASE GetUser(u)
  BY <1>0, <1>4 DEF GetUser
<1>5. CASE Begin(u)
  BY <1>0, <1>5 DEF Begin
<1>6. CASE Try(u)
  BY <1>0, <1>6 DEF Try
<1>7. CASE UpdateBy(u)
  BY <1>0, <1>7 DEF UpdateBy, Write
<1>8. CASE TriggerChat(u)
  BY <1>0, <1>8 DEF TriggerChat
<1>9. CASE UpdateTo(u)
  BY <1>0, <1>9 DEF UpdateTo, Write
<1>10. CASE StartGame(u)
  BY <1>0, <1>10 DEF StartGame
<1>11. CASE PickPlayers(u)
  BY <1>0, <1>11 DEF PickPlayers
<1>12. CASE TooFew(u)
  BY <1>0, <1>12 DEF TooFew
<1>13. CASE PageFails(u)
  BY <1>0, <1>13 DEF PageFails
<1>14. CASE RecordLose(u)
  BY <1>0, <1>14 DEF RecordLose, Write
<1>15. CASE RecordPlayer(u)
  BY <1>0, <1>15 DEF RecordPlayer, Write
<1>16. CASE InsertText(u)
  BY <1>0, <1>16 DEF InsertText
<1>17. CASE TextInserted(u)
  BY <1>0, <1>17 DEF TextInserted, StatementEnds
<1>18. CASE PickText(u)
  BY <1>0, <1>18 DEF PickText
<1>19. CASE Touch(u)
  BY <1>0, <1>19 DEF Touch
<1>20. CASE Touched(u)
  BY <1>0, <1>20 DEF Touched, StatementEnds
<1>21. CASE Commit(u)
  BY <1>0, <1>21 DEF Commit
<1>22. CASE CommitFails(u)
  BY <1>0, <1>22 DEF CommitFails
<1>23. CASE ReadLastTime(u)
  BY <1>0, <1>23 DEF ReadLastTime, End
<1>24. CASE Ending(u)
  BY <1>0, <1>24 DEF Ending, Ends, End
<1> QED BY <1>1, <1>2, <1>3, <1>4, <1>5, <1>6, <1>7, <1>8, <1>9, <1>10, <1>11, <1>12, <1>13, <1>14, <1>15, <1>16, <1>17, <1>18, <1>19, <1>20, <1>21, <1>22, <1>23, <1>24, EndingSteps DEF Step, Handle

(* Nobody takes a row that another holds. *)
LEMMA Locks ==
    ASSUME TypeOK, NEW u \in Updates, NEW v \in Updates, v # u, LockStep(u), NEW r \in Rows
    PROVE  owner'[r] = v <=> owner[r] = v
<1> USE DEF TypeOK
<1>0. v # None
  BY UsersAssumption
<1>1. CASE owner' = owner
  BY <1>1
<1>2. CASE owner' = Released(u)
  BY <1>0, <1>2 DEF Released
<1>3. ASSUME NEW q, Free(u, q), Lock(u, q) PROVE owner'[r] = v <=> owner[r] = v
  <2>1. owner' = [owner EXCEPT ![q] = u]
    BY <1>3 DEF Lock
  <2>2. CASE q = r
    BY <1>0, <1>3, <2>1, <2>2 DEF Free
  <2>3. CASE q # r
    BY <2>1, <2>3
  <2> QED BY <2>2, <2>3
<1> QED BY <1>1, <1>2, <1>3 DEF LockStep

(* A row with one pair action, one solo action or one Up more. *)
PlusPair(r, b) == [r EXCEPT !.pair = @ + 1, !.pairAt = b]
PlusSolo(r, b) == [r EXCEPT !.solo = @ + 1, !.soloAt = b]
PlusGrow(r, a, b) == [r EXCEPT !.length = Grown(@, a), !.growAt = b]

LEMMA CountedPair ==
    ASSUME NEW r \in Fields, NEW b \in Nat, NEW c, c = PlusPair(r, b)
    PROVE  /\ c \in Fields /\ c.pair = r.pair + 1 /\ c.pairAt = b
           /\ c.from = r.from /\ c.solo = r.solo /\ c.soloAt = r.soloAt
           /\ c.length = r.length /\ c.growAt = r.growAt
           /\ c.games = r.games /\ c.loses = r.loses
<1>1. [r EXCEPT !.pair = @ + 1] \in Fields
  BY DEF Fields
<1>2. c = [[r EXCEPT !.pair = @ + 1] EXCEPT !.pairAt = b]
  BY DEF PlusPair
<1> QED BY <1>1, <1>2 DEF Fields

LEMMA CountedSolo ==
    ASSUME NEW r \in Fields, NEW b \in Nat, NEW c, c = PlusSolo(r, b)
    PROVE  /\ c \in Fields /\ c.solo = r.solo + 1 /\ c.soloAt = b
           /\ c.pair = r.pair /\ c.from = r.from /\ c.pairAt = r.pairAt
           /\ c.length = r.length /\ c.growAt = r.growAt
           /\ c.games = r.games /\ c.loses = r.loses
<1>1. [r EXCEPT !.solo = @ + 1] \in Fields
  BY DEF Fields
<1>2. c = [[r EXCEPT !.solo = @ + 1] EXCEPT !.soloAt = b]
  BY DEF PlusSolo
<1> QED BY <1>1, <1>2 DEF Fields

LEMMA GrownLength ==
    ASSUME NEW n \in Nat, NEW a \in Int
    PROVE  Grown(n, a) \in Nat /\ AddsUp(n, a, Grown(n, a))
BY DEF Grown, AddsUp

LEMMA CountedGrow ==
    ASSUME NEW r \in Fields, NEW a \in Int, NEW b \in Nat, NEW c, c = PlusGrow(r, a, b)
    PROVE  /\ c \in Fields /\ c.length = Grown(r.length, a) /\ c.growAt = b
           /\ c.pair = r.pair /\ c.from = r.from /\ c.pairAt = r.pairAt
           /\ c.solo = r.solo /\ c.soloAt = r.soloAt
           /\ c.games = r.games /\ c.loses = r.loses
<1>1. PICK l \in Nat : l = Grown(r.length, a)
  <2>1. r.length \in Nat
    BY DEF Fields
  <2> QED BY <2>1, GrownLength
<1>2. [r EXCEPT !.length = l] \in Fields
  BY DEF Fields
<1>3. c = [[r EXCEPT !.length = l] EXCEPT !.growAt = b]
  BY <1>1 DEF PlusGrow
<1> QED BY <1>1, <1>2, <1>3 DEF Fields

(* The rows an action writes. *)
LEMMA Written ==
    ASSUME TypeOK, NEW u \in Updates, NEW y \in Users
    PROVE  /\ CountBy(u) \in Fields /\ Lost(row[y]) \in Fields /\ Played(Seen(u, y)) \in Fields
           /\ [Seen(u, y) EXCEPT !.from = @ + 1] \in Fields
           /\ Number(u) \in Nat
<1>1. /\ Seen(u, y) \in Fields /\ Seen(u, By(u)) \in Fields /\ row[y] \in Fields
      /\ began[u] \in Nat /\ amount[u] \in Int
  BY DraftShape, Asked DEF TypeOK
<1>2. CountBy(u) \in Fields
  <2>1. PICK r \in Fields : r = Seen(u, By(u))
    BY <1>1
  <2>2. PICK b \in Nat : b = began[u]
    BY <1>1
  <2>3. PICK a \in Int : a = amount[u]
    BY <1>1
  <2>4. PlusPair(r, b) \in Fields /\ PlusSolo(r, b) \in Fields /\ PlusGrow(r, a, b) \in Fields
    BY CountedPair, CountedSolo, CountedGrow
  <2>5. CountBy(u) \in {PlusPair(r, b), PlusSolo(r, b), PlusGrow(r, a, b)}
    BY <2>1, <2>2, <2>3 DEF CountBy, PlusPair, PlusSolo, PlusGrow
  <2> QED BY <2>4, <2>5
<1>3. Lost(row[y]) \in Fields /\ Played(Seen(u, y)) \in Fields
  BY <1>1 DEF Lost, Played, Fields
<1>4. [Seen(u, y) EXCEPT !.from = @ + 1] \in Fields
  BY <1>1 DEF Fields
<1>5. Number(u) \in Nat
  BY <1>2 DEF Number, NumberIn, Fields
<1> QED BY <1>2, <1>3, <1>4, <1>5

LEMMA Drafting1 ==
    ASSUME TypeOK, NEW u \in Updates, NEW y \in Users, NEW new \in Fields, Write(u, y, new)
    PROVE  draft' \in [Updates -> Drafts]
<1>1. Extend(draft[u], y, new) \in Drafts
  BY DraftShape, Extended
<1> QED BY <1>1 DEF TypeOK, Write

LEMMA TypeStep ==
    ASSUME TypeOK, NEW u \in Updates, Shape(u), Step(u)
    PROVE  TypeOK'
<1> USE DEF TypeOK, Places, Waiting, InSnapshot, Registering, Texts, Goto, Lock, Changed,
            dbVars, txVars, drawn
<1>a. By(u) \in Rows /\ Chat \in Rows /\ Users \subseteq Rows
  BY Asked DEF Rows
<1>b. NoDraft \in Drafts
  BY EmptyDraft
<1>c. Released(u) \in [Rows -> Updates \cup {None}]
  BY DEF Released
<1>d. \A x \in Users : Seen(u, x) \in Fields
  BY DraftShape
<1>1. CASE Arrive(u)
  <2>1. left'[u] \in Seq(Users) /\ left' = [left EXCEPT ![u] = left'[u]]
    BY <1>1, Asked DEF Arrive
  <2> QED BY <1>1, <2>1 DEF Arrive
<1>2. CASE RegisterChat(u)
  BY <1>a, <1>b, <1>c, <1>d, <1>2 DEF RegisterChat
<1>3. CASE RegisterUser(u)
  <2>1. left[u] \in Seq(Users) /\ left[u] # <<>>
    BY <1>3 DEF RegisterUser, Shape
  <2>2. Head(left[u]) \in Users /\ Tail(left[u]) \in Seq(Users)
    BY <2>1
  <2> QED BY <1>3, <1>a, <1>c, <2>2 DEF RegisterUser
<1>4. CASE GetUser(u)
  BY <1>a, <1>b, <1>c, <1>d, <1>4 DEF GetUser
<1>5. CASE Begin(u)
  <2>1. amount' \in [Updates -> Int]
    BY <1>5, NumbersAssumption DEF Begin
  <2>2. /\ began' = [began EXCEPT ![u] = clock] /\ at' = [at EXCEPT ![u] = "first"]
        /\ UNCHANGED <<clock, dbVars, owner, cmd, left, stale, draft, players, loser, todo, next,
                       count, result, counted, failed>>
    BY <1>5 DEF Begin
  <2>3. began' \in [Updates -> Nat] /\ at' \in [Updates -> Places]
    <3>1. clock \in Nat
      BY NumbersAssumption
    <3> QED BY <2>2, <3>1
  <2> QED BY <2>1, <2>2, <2>3
<1>6. CASE Try(u)
  BY <1>a, <1>b, <1>c, <1>d, <1>6 DEF Try
<1>7. CASE UpdateBy(u)
  <2>1. CASE Ready(u, LastAt(u))
    <3>1. draft' \in [Updates -> Drafts]
      BY <1>7, <2>1, Asked, Written, Drafting1 DEF UpdateBy
    <3>2. Number(u) \in Nat
      BY Written, Asked
    <3>3. /\ owner' = [owner EXCEPT ![By(u)] = u]
          /\ count' = [count EXCEPT ![u] = Number(u)]
          /\ at' = [at EXCEPT ![u] = "byChat"]
          /\ UNCHANGED <<clock, dbVars, cmd, left, began, stale, drawn, result, counted, failed>>
      BY <1>7, <2>1 DEF UpdateBy
    <3> QED BY <1>a, <3>1, <3>2, <3>3
  <2>2. CASE ~Ready(u, LastAt(u))
    BY <1>7, <2>2 DEF UpdateBy
  <2> QED BY <2>1, <2>2
<1>8. CASE TriggerChat(u)
  BY <1>a, <1>b, <1>c, <1>d, <1>8 DEF TriggerChat
<1>9. CASE UpdateTo(u)
  <2>1. To(u) \in Users
    BY <1>9, Asked DEF UpdateTo, Shape
  <2>2. draft' \in [Updates -> Drafts]
    BY <1>9, <2>1, Written, Drafting1 DEF UpdateTo
  <2> QED BY <1>9, <1>a, <2>1, <2>2 DEF UpdateTo
<1>10. CASE StartGame(u)
  BY <1>a, <1>b, <1>c, <1>d, <1>10 DEF StartGame
<1>11. CASE PickPlayers(u)
  <2>1. IsFiniteSet(members) /\ Cardinality(members) \in Nat /\ Cardinality(members) >= MinPlayers
    BY <1>11, FS_Subset, FS_CardinalityType, UsersAssumption DEF PickPlayers, Enough
  <2>2. PICK P \in SUBSET members :
          /\ Cardinality(P) = IF Cardinality(members) < MaxPlayers
                               THEN Cardinality(members) ELSE MaxPlayers
          /\ players' = [players EXCEPT ![u] = P]
          /\ todo' = [todo EXCEPT ![u] = P]
          /\ \E x \in P : /\ loser' = [loser EXCEPT ![u] = x]
                          /\ count' = [count EXCEPT ![u] = row[x].loses + 1]
    BY <1>11 DEF PickPlayers
  <2>3. PICK x \in P : /\ loser' = [loser EXCEPT ![u] = x]
                      /\ count' = [count EXCEPT ![u] = row[x].loses + 1]
    BY <2>2
  <2>4. x \in Users /\ P \subseteq Users
    BY <2>2, <2>3
  <2>5. Cardinality(P) \in MinPlayers..MaxPlayers
    BY <2>1, <2>2, NumbersAssumption
  <2>6. row[x].loses + 1 \in Nat
    BY <2>4 DEF Fields
  <2>7. /\ players' \in [Updates -> SUBSET Users] /\ todo' \in [Updates -> SUBSET Users]
        /\ loser' \in [Updates -> Users \cup {None}] /\ count' \in [Updates -> Nat]
    BY <2>2, <2>3, <2>4, <2>6
  <2>8. \A v \in Updates : Cardinality(players'[v]) \in {0} \cup MinPlayers..MaxPlayers
    BY <2>2, <2>5
  <2> QED BY <1>11, <2>7, <2>8 DEF PickPlayers
<1>12. CASE TooFew(u)
  BY <1>a, <1>b, <1>c, <1>d, <1>12 DEF TooFew
<1>13. CASE PageFails(u)
  BY <1>a, <1>b, <1>c, <1>d, <1>13 DEF PageFails
<1>14. CASE RecordLose(u)
  <2>1. loser[u] \in Users
    BY <1>14 DEF RecordLose, Shape
  <2>2. draft' \in [Updates -> Drafts]
    BY <1>14, <2>1, Written, Drafting1 DEF RecordLose
  <2>3. PICK x \in todo[u] : next' = [next EXCEPT ![u] = x]
    BY <1>14 DEF RecordLose
  <2>4. /\ owner' = [owner EXCEPT ![loser[u]] = u]
        /\ at' = [at EXCEPT ![u] = "player"]
        /\ UNCHANGED <<clock, dbVars, cmd, left, began, stale, players, loser, todo, amount, count,
                       result, counted, failed>>
    BY <1>14 DEF RecordLose
  <2>5. next' \in [Updates -> Users \cup {None}]
    BY <2>3
  <2>6. owner' \in [Rows -> Updates \cup {None}]
    BY <1>a, <2>1, <2>4
  <2> QED BY <2>2, <2>4, <2>5, <2>6
<1>15. CASE RecordPlayer(u)
  <2>1. next[u] \in Users
    BY <1>15 DEF RecordPlayer, Shape
  <2>2. draft' \in [Updates -> Drafts]
    BY <1>15, <2>1, Written, Drafting1 DEF RecordPlayer
  <2> QED BY <1>15, <1>a, <2>1, <2>2 DEF RecordPlayer
<1>16. CASE InsertText(u)
  BY <1>a, <1>b, <1>c, <1>d, <1>16 DEF InsertText
<1>17. CASE TextInserted(u)
  BY <1>a, <1>b, <1>c, <1>d, <1>17 DEF TextInserted, StatementEnds
<1>18. CASE PickText(u)
  BY <1>a, <1>b, <1>c, <1>d, <1>18 DEF PickText
<1>19. CASE Touch(u)
  BY <1>a, <1>b, <1>c, <1>d, <1>19 DEF Touch
<1>20. CASE Touched(u)
  BY <1>a, <1>b, <1>c, <1>d, <1>20 DEF Touched, StatementEnds
<1>21. CASE Commit(u)
  BY <1>21, <1>a, <1>b, <1>c, <1>d, DraftShape DEF Commit, Install
<1>22. CASE CommitFails(u)
  <2>1. CASE Install(u)
    <3>1. /\ at' \in [Updates -> Places]
          /\ result' \in [Updates -> {"none", "announced", "refused", "dropped", "panicked"}]
      BY <1>22 DEF CommitFails
    <3>2. /\ row' \in [Users -> Fields] /\ chatGame' \in Nat /\ counted' \subseteq Updates
          /\ stale' \in [Updates -> SUBSET Rows]
      BY <2>1, <1>a, <1>d, DraftShape DEF Install
    <3>3. owner' = Released(u) /\ draft' = [draft EXCEPT ![u] = NoDraft] /\ failed' = failed \cup {u}
          /\ UNCHANGED <<clock, members, cmd, left, began, drawn, count>>
      BY <1>22 DEF CommitFails
    <3> QED BY <1>b, <1>c, <3>1, <3>2, <3>3
  <2>2. CASE UNCHANGED <<row, chatGame, stale, counted>>
    BY <1>22, <2>2, <1>b, <1>c DEF CommitFails
  <2> QED BY <1>22, <2>1, <2>2 DEF CommitFails
<1>23. CASE ReadLastTime(u)
  <2>1. UNCHANGED <<clock, dbVars, cmd, left, began, stale, drawn, count, counted, failed>>
    BY <1>23 DEF ReadLastTime
  <2>2. CASE End(u, "panicked")
    BY <2>1, <2>2, <1>b, <1>c DEF End
  <2>3. CASE Goto(u, "refuse") /\ UNCHANGED <<owner, draft, result>>
    BY <2>1, <2>3
  <2> QED BY <1>23, <2>2, <2>3 DEF ReadLastTime
<1>24. CASE Ending(u)
  BY <1>a, <1>b, <1>c, <1>24 DEF Ending, Ends, End
<1> QED BY <1>1, <1>2, <1>3, <1>4, <1>5, <1>6, <1>7, <1>8, <1>9, <1>10, <1>11, <1>12, <1>13, <1>14, <1>15, <1>16, <1>17, <1>18, <1>19, <1>20, <1>21, <1>22, <1>23, <1>24, EndingSteps DEF Step, Handle

-------------------------------------------------------------------------------
(* A step of u preserves what the invariant says of another update v.       *)

(* Rows that v has drafted do not change, and rows it has read for its      *)
(* snapshot change only with a trace in stale.                              *)
LEMMA DataKept ==
    ASSUME TypeOK, NEW u \in Updates, NEW v \in Updates, v # u, Held(u), Held(v),
           Local(u), DataStep(u)
    PROVE  /\ \A y \in DOMAIN draft[v] : row'[y] = row[y]
           /\ owner[Chat] = v => chatGame' = chatGame
           /\ at[v] \in InSnapshot =>
                /\ \A y \in Users : y \in stale'[v] \/ row'[y] = row[y]
                /\ Chat \in stale'[v] \/ chatGame' = chatGame
<1>1. CASE SameData
  BY <1>1 DEF SameData
<1>2. CASE at[u] = "commit" /\ Install(u)
  <2>1. /\ row' = [y \in Users |-> Seen(u, y)]
        /\ chatGame' = IF Kind(u) = "game" THEN began[u] ELSE chatGame
        /\ stale' = Changed(u, DOMAIN draft[u] \cup {Chat})
    BY <1>2 DEF Install
  <2>2. \A y \in Users : y \notin DOMAIN draft[u] => row'[y] = row[y]
    BY <2>1 DEF Seen
  <2>3. \A y \in DOMAIN draft[v] : y \in Users /\ y \notin DOMAIN draft[u]
    BY DraftShape DEF Held
  <2>4. owner[Chat] = v => chatGame' = chatGame
    BY <1>2, <2>1 DEF Held, InGame
  <2>5. at[v] \in InSnapshot => DOMAIN draft[u] \cup {Chat} \subseteq stale'[v]
    BY <2>1 DEF Changed
  <2> QED BY <2>2, <2>3, <2>4, <2>5
<1> QED BY <1>1, <1>2 DEF DataStep

(* A row that v has not drafted counts nothing of v. *)
LEMMA NothingDrafted ==
    ASSUME TypeOK, NEW v \in Updates, NEW y \in Users, y \notin DOMAIN draft[v],
           DraftedPair(v, y), DraftedRest(v, y)
    PROVE  /\ ~(InPair(v) /\ By(v) = y) /\ ~(Kind(v) = "pair" /\ at[v] = "commit" /\ To(v) = y)
           /\ ~(InSolo(v) /\ By(v) = y) /\ ~(InGame(v) /\ y \in players[v] \ todo[v])
           /\ ~(InGame(v) /\ loser[v] = y)
<1>1. Seen(v, y) = row[y] /\ row[y] \in Fields
  BY DEF Seen, TypeOK
<1> QED BY <1>1 DEF DraftedPair, DraftedRest, One, Fields

(* A last time does not go back to NULL. *)
LEMMA LastKept ==
    ASSUME TypeOK, NEW u \in Updates, NEW v \in Updates, Timed(u), DataStep(u), cmd' = cmd,
           LastAt(v) # 0
    PROVE  LastAt(v)' # 0
<1>0. Kind(v)' = Kind(v) /\ By(v)' = By(v) /\ By(v) \in Users
  BY Asked DEF Kind, By
<1>1. CASE SameData
  BY <1>0, <1>1 DEF SameData, LastAt
<1>2. CASE at[u] = "commit" /\ Install(u)
  <2>1. /\ row'[By(v)] = Seen(u, By(v)) /\ TimedRow(u, By(v))
        /\ chatGame' = IF Kind(u) = "game" THEN began[u] ELSE chatGame
        /\ Kind(u) = "game" => Ready(u, chatGame)
    BY <1>0, <1>2 DEF Install, Timed, InGame
  <2>2. /\ row[By(v)].pairAt \in Nat /\ row[By(v)].soloAt \in Nat /\ row[By(v)].growAt \in Nat
        /\ chatGame \in Nat /\ began[u] \in Nat
    BY <1>0 DEF TypeOK, Fields
  <2>3. \A last \in Nat \ {0} : Ready(u, last) => began[u] # 0
    BY <2>2, NumbersAssumption DEF Ready
  <2> QED BY <1>0, <2>1, <2>2, <2>3 DEF LastAt, TimedRow
<1> QED BY <1>1, <1>2 DEF DataStep

LEMMA OthersStay ==
    ASSUME TypeOK, TypeOK', NEW u \in Updates, NEW v \in Updates, v # u, Proper(u), Proper(v),
           Local(u), DataStep(u)
    PROVE  Proper(v)'
<1>1. Untouched(v) /\ cmd' = cmd
  BY DEF Local
<1>2. \A r \in Rows : owner'[r] = v <=> owner[r] = v
  BY Locks DEF Local
<1>3. /\ \A y \in DOMAIN draft[v] : row'[y] = row[y]
      /\ owner[Chat] = v => chatGame' = chatGame
      /\ at[v] \in InSnapshot =>
           /\ \A y \in Users : y \in stale'[v] \/ row'[y] = row[y]
           /\ Chat \in stale'[v] \/ chatGame' = chatGame
  BY DataKept DEF Proper
<1>4. /\ By(v)' = By(v) /\ To(v)' = To(v) /\ Kind(v)' = Kind(v)
      /\ InPair(v)' <=> InPair(v)
      /\ InSolo(v)' <=> InSolo(v)
      /\ InGrow(v)' <=> InGrow(v)
      /\ InGame(v)' <=> InGame(v)
  BY <1>1 DEF By, To, Kind, InPair, InSolo, InGrow, InGame, Untouched
<1>5. Shape(v)'
  <2>1. LastAt(v) # 0 => LastAt(v)' # 0
    BY <1>1, LastKept DEF Proper
  <2> QED BY <1>1, <1>4, <2>1 DEF Proper, Shape, Untouched
<1>6. Held(v)'
  <2>1. DOMAIN draft[v] \subseteq Rows /\ Chat \in Rows
    BY DraftShape DEF Rows
  <2> QED BY <1>1, <1>2, <1>4, <2>1 DEF Proper, Held, Untouched
<1>7. ASSUME NEW y \in Users
      PROVE  (DraftedPair(v, y) /\ DraftedRest(v, y) /\ DraftedLength(v, y) /\ TimedRow(v, y))'
  <2>0. /\ DraftedPair(v, y) /\ DraftedRest(v, y) /\ DraftedLength(v, y) /\ TimedRow(v, y)
        /\ row[y] \in Fields /\ row'[y] \in Fields
    BY DEF Proper, Drafted, Timed, TypeOK
  <2>1. CASE y \in DOMAIN draft[v]
    <3>1. row'[y] = row[y] /\ Seen(v, y)' = Seen(v, y)
      BY <1>1, <1>3, <2>1 DEF Seen, Untouched
    <3> QED BY <1>1, <1>4, <2>0, <3>1
            DEF DraftedPair, DraftedRest, DraftedLength, TimedRow, Ready, Untouched
  <2>2. CASE y \notin DOMAIN draft[v]
    <3>1. Seen(v, y) = row[y] /\ Seen(v, y)' = row'[y]
      BY <1>1, <2>2 DEF Seen, Untouched
    <3>2. /\ ~(InPair(v) /\ By(v) = y) /\ ~(Kind(v) = "pair" /\ at[v] = "commit" /\ To(v) = y)
          /\ ~(InSolo(v) /\ By(v) = y) /\ ~(InGame(v) /\ y \in players[v] \ todo[v])
          /\ ~(InGame(v) /\ loser[v] = y)
      BY <2>0, <2>2, NothingDrafted
    <3>3. ~(InGrow(v) /\ By(v) = y)
      BY <2>2 DEF Proper, Held
    <3>4. DraftedPair(v, y)' /\ DraftedRest(v, y)' /\ TimedRow(v, y)'
      BY <1>1, <1>4, <2>0, <3>1, <3>2
         DEF DraftedPair, DraftedRest, TimedRow, One, Fields, Untouched
    <3>5. DraftedLength(v, y)'
      BY <1>4, <3>1, <3>3 DEF DraftedLength
    <3> QED BY <3>4, <3>5
  <2> QED BY <2>1, <2>2
<1>8. Drafted(v)'
  BY <1>7 DEF Drafted
<1>9. Timed(v)'
  <2>1. /\ at[v] = "gameChat" => Chat \in stale[v] \/ Ready(v, chatGame)
        /\ at[v] \in {"size", "loser"} \/ InGame(v) => Ready(v, chatGame) /\ owner[Chat] = v
    BY DEF Proper, Timed, Held
  <2>2. at[v] = "gameChat" => (Chat \in stale[v] \/ Ready(v, chatGame))'
    BY <1>1, <1>3, <2>1 DEF Untouched, Ready, InSnapshot
  <2>3. at[v] \in {"size", "loser"} \/ InGame(v) => Ready(v, chatGame)'
    BY <1>1, <1>3, <2>1 DEF Untouched, Ready
  <2> QED BY <1>1, <1>4, <1>7, <2>2, <2>3 DEF Timed, Untouched
<1>10. Numbered(v)'
  <2>1. \A y \in Users : y \notin DOMAIN draft[v] =>
          /\ ~(InPair(v) /\ By(v) = y) /\ ~(InSolo(v) /\ By(v) = y) /\ ~(InGame(v) /\ loser[v] = y)
    BY NothingDrafted DEF Proper, Drafted
  <2>2. /\ InPair(v) => By(v) \in DOMAIN draft[v]
        /\ InSolo(v) => By(v) \in DOMAIN draft[v]
        /\ InGrow(v) => By(v) \in DOMAIN draft[v]
        /\ InGame(v) => \A y \in Users : loser[v] = y => y \in DOMAIN draft[v]
    BY Asked, <2>1 DEF Proper, Held
  <2>3. at[v] = "loser" => loser[v] \in Users
    BY DEF Proper, Shape, TypeOK
  <2> QED BY <1>1, <1>3, <1>4, <2>2, <2>3 DEF Proper, Numbered, Untouched, InSnapshot
<1> QED BY <1>5, <1>6, <1>8, <1>9, <1>10 DEF Proper

-------------------------------------------------------------------------------
(* A step of u preserves what the invariant says of u itself.  First the    *)
(* steps at whose end u has drafted nothing.                                *)

Quiet(u) == draft'[u] = NoDraft /\ at'[u] \notin Drafting
LocksFit(u) ==
    \A r \in Rows : owner[r] = u => at[u] \in Holding /\ (at[u] \in {"size", "few"} => r = Chat)
GameFits(u) ==
    /\ at[u] \in {"size", "loser"} => owner[Chat] = u /\ Ready(u, chatGame)
    /\ at[u] = "gameChat" => Chat \in stale[u] \/ Ready(u, chatGame)
    /\ at[u] = "loser" => loser[u] \in stale[u] \/ count[u] = row[loser[u]].loses + 1

LEMMA QuietKeeps ==
    ASSUME TypeOK', NEW u \in Updates, Quiet(u), Shape(u)', LocksFit(u)', GameFits(u)'
    PROVE  Proper(u)'
<1>1. \A y \in Users : Seen(u, y)' = row'[y]
  BY EmptyDraft DEF Quiet, Seen
<1>2. ~InPair(u)' /\ ~InSolo(u)' /\ ~InGrow(u)' /\ ~InGame(u)' /\ at'[u] # "commit"
  BY DEF Quiet, InPair, InSolo, InGrow, InGame, Drafting
<1>3. Drafted(u)'
  <2>1. \A y \in Users : row'[y] \in Fields
    BY DEF TypeOK
  <2> QED BY <1>1, <1>2, <2>1 DEF Drafted, DraftedPair, DraftedRest, DraftedLength, One, Fields
<1>4. Timed(u)'
  BY <1>1, <1>2 DEF Timed, TimedRow, GameFits
<1>5. Held(u)'
  BY <1>2, EmptyDraft DEF Held, LocksFit, GameFits, Quiet
<1>6. Numbered(u)'
  BY <1>2 DEF Numbered, GameFits
<1> QED BY <1>3, <1>4, <1>5, <1>6 DEF Proper

LEMMA MoreToRegister ==
    ASSUME NEW s \in Seq(Users), s # <<>>, Len(s) # 1
    PROVE  Tail(s) # <<>>
<1>1. Len(s) \in Nat \ {0} /\ Len(Tail(s)) = Len(s) - 1
  BY EmptySeq, HeadTailProperties
<1>2. Len(Tail(s)) # 0
  BY <1>1
<1>3. Len(<<>>) = 0
  BY EmptySeq
<1> QED BY <1>2, <1>3

LEMMA QuietSteps ==
    ASSUME TypeOK, TypeOK', NEW u \in Updates, Proper(u),
           \/ Ending(u) \/ Arrive(u) \/ RegisterChat(u) \/ RegisterUser(u) \/ GetUser(u)
           \/ Begin(u) \/ Try(u) \/ StartGame(u) \/ PickPlayers(u) \/ TooFew(u) \/ PageFails(u)
           \/ InsertText(u) \/ TextInserted(u) \/ PickText(u) \/ Touch(u) \/ Touched(u)
           \/ Commit(u) \/ CommitFails(u) \/ ReadLastTime(u)
    PROVE  Proper(u)'
<1> SUFFICES Quiet(u) /\ Shape(u)' /\ LocksFit(u)' /\ GameFits(u)'
  BY QuietKeeps
<1> USE DEF Quiet, Shape, LocksFit, GameFits, Proper, Held, Goto, Lock,
            Drafting, Holding, GamePlaces, Registering, Kind, To, Ready,
            dbVars, txVars, drawn
<1>a. By(u) \in Rows /\ Chat \in Rows /\ Kind(u) \in {"pair", "solo", "grow", "game", "perform", "random"}
  BY Asked DEF Rows
<1>b. /\ \A r \in Rows : Released(u)[r] # u
      /\ at[u] \notin Drafting => draft[u] = NoDraft
  BY Asked DEF Released
<1>1. CASE Arrive(u)
  BY <1>a, <1>b, <1>1 DEF TypeOK, Arrive
<1>2. CASE RegisterChat(u)
  BY <1>a, <1>b, <1>2 DEF TypeOK, RegisterChat
<1>3. CASE RegisterUser(u)
  <2>1. left[u] \in Seq(Users) /\ left[u] # <<>>
    BY <1>3 DEF TypeOK, RegisterUser
  <2>2. Len(left[u]) # 1 => Tail(left[u]) # <<>>
    BY <2>1, MoreToRegister
  <2>3. left'[u] = Tail(left[u])
    BY <1>3 DEF TypeOK, RegisterUser
  <2> QED BY <1>a, <1>b, <1>3, <2>2, <2>3 DEF TypeOK, RegisterUser
<1>4. CASE GetUser(u)
  BY <1>a, <1>b, <1>4 DEF TypeOK, GetUser
<1>5. CASE Begin(u)
  BY <1>a, <1>b, <1>5 DEF TypeOK, Begin
<1>6. CASE Try(u)
  BY <1>a, <1>b, <1>6 DEF TypeOK, Try, LastAt, By
<1>7. CASE StartGame(u)
  <2>1. Kind(u) = "game" /\ Chat \notin stale[u] /\ (Chat \in stale[u] \/ Ready(u, chatGame))
    BY <1>7 DEF StartGame, Conflict, Timed
  <2> QED BY <1>a, <1>b, <1>7, <2>1 DEF TypeOK, StartGame
<1>8. CASE PickPlayers(u)
  <2>1. Ready(u, chatGame) /\ owner[Chat] = u /\ Kind(u) = "game"
    BY <1>8 DEF PickPlayers, Timed
  <2>2. PICK P \in SUBSET members :
          /\ players' = [players EXCEPT ![u] = P]
          /\ todo' = [todo EXCEPT ![u] = P]
          /\ \E x \in P : /\ loser' = [loser EXCEPT ![u] = x]
                          /\ count' = [count EXCEPT ![u] = row[x].loses + 1]
    BY <1>8 DEF PickPlayers
  <2>3. PICK x \in P : /\ loser' = [loser EXCEPT ![u] = x]
                      /\ count' = [count EXCEPT ![u] = row[x].loses + 1]
    BY <2>2
  <2>4. /\ loser'[u] = x /\ x \in players'[u] /\ todo'[u] = players'[u]
        /\ count'[u] = row[x].loses + 1
    BY <2>2, <2>3 DEF TypeOK
  <2>5. /\ at'[u] = "loser"
        /\ UNCHANGED <<row, chatGame, cmd, owner, draft, began, counted, result, failed>>
    BY <1>8 DEF TypeOK, PickPlayers
  <2> QED BY <1>b, <1>8, <2>1, <2>4, <2>5 DEF PickPlayers
<1>9. CASE TooFew(u)
  BY <1>a, <1>b, <1>9 DEF TypeOK, TooFew
<1>10. CASE PageFails(u)
  BY <1>a, <1>b, <1>10 DEF TypeOK, PageFails
<1>11. CASE InsertText(u)
  BY <1>a, <1>b, <1>11 DEF TypeOK, InsertText
<1>12. CASE TextInserted(u)
  BY <1>a, <1>b, <1>12 DEF TypeOK, TextInserted, StatementEnds
<1>13. CASE PickText(u)
  BY <1>a, <1>b, <1>13 DEF TypeOK, PickText
<1>14. CASE Touch(u)
  BY <1>a, <1>b, <1>14 DEF TypeOK, Touch
<1>15. CASE Touched(u)
  BY <1>a, <1>b, <1>15 DEF TypeOK, Touched, StatementEnds
<1>16. CASE Commit(u)
  BY <1>a, <1>b, <1>16 DEF TypeOK, Commit, Install
<1>17. CASE CommitFails(u)
  BY <1>a, <1>b, <1>17 DEF TypeOK, CommitFails, Install
<1>18. CASE ReadLastTime(u)
  <2>1. Goto(u, "refuse") /\ UNCHANGED <<owner, draft, result>>
    BY <1>18 DEF ReadLastTime
  <2> QED BY <1>a, <1>b, <1>18, <2>1 DEF TypeOK, ReadLastTime
<1>19. CASE Ending(u)
  BY <1>b, <1>19 DEF TypeOK, Ending, Ends, End
<1> QED BY <1>1, <1>2, <1>3, <1>4, <1>5, <1>6, <1>7, <1>8, <1>9, <1>10, <1>11, <1>12, <1>13, <1>14, <1>15, <1>16, <1>17, <1>18, <1>19

(* Then the steps that write a draft. *)

LEMMA WriteSeen ==
    ASSUME TypeOK, NEW u \in Updates, NEW y \in Users, NEW new \in Fields,
           Write(u, y, new), row' = row
    PROVE  /\ Seen(u, y)' = new
           /\ \A z \in Users \ {y} : Seen(u, z)' = Seen(u, z)
           /\ DOMAIN draft'[u] = DOMAIN draft[u] \cup {y}
<1>1. draft'[u] = Extend(draft[u], y, new)
  BY DEF TypeOK, Write
<1>2. draft[u] \in Drafts
  BY DraftShape
<1>3. /\ DOMAIN draft'[u] = DOMAIN draft[u] \cup {y} /\ draft'[u][y] = new
      /\ \A z \in DOMAIN draft[u] : z # y => draft'[u][z] = draft[u][z]
  <2>1. PICK d \in Drafts : d = draft[u]
    BY <1>2
  <2>2. /\ DOMAIN Extend(d, y, new) = DOMAIN d \cup {y} /\ Extend(d, y, new)[y] = new
        /\ \A z \in DOMAIN d : z # y => Extend(d, y, new)[z] = d[z]
    BY Extended
  <2> QED BY <1>1, <2>1, <2>2
<1>4. Seen(u, y)' = new
  BY <1>3 DEF Seen
<1>5. \A z \in Users \ {y} : Seen(u, z)' = Seen(u, z)
  BY <1>3 DEF Seen
<1> QED BY <1>3, <1>4, <1>5

LEMMA LostAndPlayed ==
    ASSUME NEW r \in Fields
    PROVE  /\ Lost(r).loses = r.loses + 1 /\ Lost(r).games = r.games
           /\ Played(r).games = r.games + 1 /\ Played(r).loses = r.loses
           /\ \A c \in {Lost(r), Played(r)} :
                /\ c.pair = r.pair /\ c.from = r.from /\ c.pairAt = r.pairAt
                /\ c.solo = r.solo /\ c.soloAt = r.soloAt
                /\ c.length = r.length /\ c.growAt = r.growAt
BY DEF Lost, Played, Fields

LEMMA UpdateByStep ==
    ASSUME TypeOK, TypeOK', NEW u \in Updates, Proper(u), UpdateBy(u)
    PROVE  Proper(u)'
<1>0. /\ at[u] = "byRow" /\ Kind(u) \in {"pair", "solo", "grow"} /\ draft[u] = NoDraft
      /\ u \notin counted /\ By(u) \in Users
      /\ \A r \in Rows : owner[r] # u
  BY Asked DEF Proper, Shape, Held, UpdateBy, Drafting, Holding
<1>1. CASE ~Ready(u, LastAt(u))
  <2>1. at'[u] = "hot" /\ UNCHANGED <<row, chatGame, cmd, owner, draft, counted, result, failed>>
    BY <1>1 DEF TypeOK, UpdateBy, Goto, dbVars
  <2>a. LastAt(u) # 0 /\ LastAt(u)' = LastAt(u)
    BY <1>1, <2>1 DEF Ready, LastAt, Kind, By
  <2>2. Shape(u)' /\ Quiet(u) /\ LocksFit(u)' /\ GameFits(u)'
    BY <1>0, <2>1, <2>a DEF Shape, Quiet, LocksFit, GameFits, Drafting, Registering, GamePlaces, Proper
  <2> QED BY <2>2, QuietKeeps
<1>2. CASE Ready(u, LastAt(u))
  <2>a. PICK y \in Users : y = By(u)
    BY <1>0
  <2>b. PICK new \in Fields : new = CountBy(u)
    BY Written, <1>0
  <2>1. /\ at'[u] = "byChat" /\ owner' = [owner EXCEPT ![y] = u] /\ count'[u] = Number(u)
        /\ Write(u, y, new)
        /\ row' = row
        /\ UNCHANGED <<chatGame, cmd, began, amount, counted, result, failed>>
    BY <1>2, <2>a, <2>b DEF TypeOK, UpdateBy, Goto, Lock, dbVars, drawn
  <2>2. \A z \in Users : row[z] \in Fields
    BY DEF TypeOK
  <2>3. \A z \in Users : Seen(u, z) = row[z]
    BY <1>0, EmptyDraft DEF Seen
  <2>4. /\ Kind(u) = "pair" =>
             /\ new.pair = row[y].pair + 1 /\ new.pairAt = began[u] /\ Number(u) = new.pair
             /\ new.solo = row[y].solo /\ new.soloAt = row[y].soloAt
             /\ new.length = row[y].length /\ new.growAt = row[y].growAt
        /\ Kind(u) = "solo" =>
             /\ new.solo = row[y].solo + 1 /\ new.soloAt = began[u] /\ Number(u) = new.solo
             /\ new.pair = row[y].pair /\ new.pairAt = row[y].pairAt
             /\ new.length = row[y].length /\ new.growAt = row[y].growAt
        /\ Kind(u) = "grow" =>
             /\ new.length = Grown(row[y].length, amount[u]) /\ new.growAt = began[u]
             /\ Number(u) = new.length
             /\ new.pair = row[y].pair /\ new.pairAt = row[y].pairAt
             /\ new.solo = row[y].solo /\ new.soloAt = row[y].soloAt
        /\ new.from = row[y].from /\ new.games = row[y].games /\ new.loses = row[y].loses
    <3>1. PICK r \in Fields : r = row[y]
      BY <2>2
    <3>1a. Seen(u, By(u)) = r
      BY <2>a, <2>3, <3>1
    <3>b. PICK b \in Nat : b = began[u]
      BY DEF TypeOK
    <3>c. PICK a \in Int : a = amount[u]
      BY DEF TypeOK
    <3>2. CASE Kind(u) = "pair"
      <4>1. new = PlusPair(r, b)
        BY <2>b, <3>1a, <3>b, <3>2 DEF CountBy, PlusPair
      <4>2. Number(u) = new.pair
        BY <2>b, <3>2 DEF Number, NumberIn
      <4>3. /\ new.pair = r.pair + 1 /\ new.pairAt = b
            /\ new.solo = r.solo /\ new.soloAt = r.soloAt
            /\ new.length = r.length /\ new.growAt = r.growAt
            /\ new.from = r.from /\ new.games = r.games /\ new.loses = r.loses
        BY <4>1, CountedPair
      <4> QED BY <3>1, <3>b, <3>2, <4>2, <4>3
    <3>3. CASE Kind(u) = "solo"
      <4>1. new = PlusSolo(r, b)
        BY <2>b, <3>1a, <3>b, <3>3 DEF CountBy, PlusSolo
      <4>2. Number(u) = new.solo
        BY <2>b, <3>3 DEF Number, NumberIn
      <4>3. /\ new.solo = r.solo + 1 /\ new.soloAt = b
            /\ new.pair = r.pair /\ new.pairAt = r.pairAt
            /\ new.length = r.length /\ new.growAt = r.growAt
            /\ new.from = r.from /\ new.games = r.games /\ new.loses = r.loses
        BY <4>1, CountedSolo
      <4> QED BY <3>1, <3>b, <3>3, <4>2, <4>3
    <3>4. CASE Kind(u) = "grow"
      <4>1. new = PlusGrow(r, a, b)
        BY <2>b, <3>1a, <3>b, <3>c, <3>4 DEF CountBy, PlusGrow
      <4>2. Number(u) = new.length
        BY <2>b, <3>4 DEF Number, NumberIn
      <4>3. /\ new.length = Grown(r.length, a) /\ new.growAt = b
            /\ new.pair = r.pair /\ new.pairAt = r.pairAt
            /\ new.solo = r.solo /\ new.soloAt = r.soloAt
            /\ new.from = r.from /\ new.games = r.games /\ new.loses = r.loses
        BY <4>1, CountedGrow
      <4> QED BY <3>1, <3>b, <3>c, <3>4, <4>2, <4>3
    <3> QED BY <1>0, <3>2, <3>3, <3>4
  <2>5. /\ Seen(u, y)' = new
        /\ \A z \in Users \ {y} : Seen(u, z)' = row[z]
        /\ DOMAIN draft'[u] = {y}
    <3>1. DOMAIN draft[u] = {}
      BY <1>0, EmptyDraft
    <3> QED BY <2>1, <2>3, <3>1, WriteSeen
  <2>6. /\ By(u)' = y /\ Kind(u)' = Kind(u) /\ To(u)' = To(u)
        /\ InPair(u)' <=> Kind(u) = "pair"
        /\ InSolo(u)' <=> Kind(u) = "solo"
        /\ InGrow(u)' <=> Kind(u) = "grow"
        /\ ~InGame(u)'
    BY <1>0, <2>a, <2>1 DEF By, Kind, To, InPair, InSolo, InGrow, InGame
  <2>7. Shape(u)'
    BY <1>0, <2>1, <2>6 DEF Proper, Shape, Registering, GamePlaces
  <2>8. Held(u)'
    BY <1>0, <2>1, <2>5, <2>6 DEF Held, Holding, Drafting, TypeOK, Rows
  <2>9. Drafted(u)'
    <3>1. ASSUME NEW z \in Users PROVE (DraftedPair(u, z) /\ DraftedRest(u, z))'
      BY <1>0, <2>1, <2>2, <2>4, <2>5, <2>6 DEF DraftedPair, DraftedRest, One, Fields
    <3>2. ASSUME NEW z \in Users PROVE DraftedLength(u, z)'
      BY <1>0, <2>1, <2>2, <2>4, <2>5, <2>6 DEF DraftedLength
    <3> QED BY <3>1, <3>2 DEF Drafted
  <2>10. Timed(u)'
    BY <1>0, <1>2, <2>a, <2>1, <2>4, <2>5, <2>6 DEF Timed, TimedRow, Ready, LastAt
  <2>11. Numbered(u)'
    BY <1>0, <2>1, <2>4, <2>6 DEF Numbered
  <2> QED BY <2>7, <2>8, <2>9, <2>10, <2>11 DEF Proper
<1> QED BY <1>1, <1>2

LEMMA TriggerChatStep ==
    ASSUME TypeOK, TypeOK', NEW u \in Updates, Proper(u), TriggerChat(u)
    PROVE  Proper(u)'
<1>1. /\ at[u] = "byChat" /\ Kind(u) \in {"pair", "solo", "grow"} /\ u \notin counted
  BY DEF Proper, Shape, TriggerChat
<1>2. /\ at'[u] = IF Kind(u) = "pair" /\ To(u) # Stranger THEN "toRow" ELSE "commit"
      /\ owner' = [owner EXCEPT ![Chat] = u]
      /\ UNCHANGED <<row, chatGame, cmd, began, draft, amount, count, counted, result, failed>>
  BY DEF TypeOK, TriggerChat, Goto, Lock, dbVars, txVars, drawn
<1>3. /\ By(u)' = By(u) /\ Kind(u)' = Kind(u) /\ To(u)' = To(u)
      /\ InPair(u)' <=> InPair(u)
      /\ InSolo(u)' <=> InSolo(u)
      /\ InGrow(u)' <=> InGrow(u)
      /\ ~InGame(u)' /\ ~InGame(u)
  BY <1>1, <1>2 DEF By, Kind, To, InPair, InSolo, InGrow, InGame
<1>4. \A y \in Users : Seen(u, y)' = Seen(u, y) /\ row[y] \in Fields
  BY <1>2 DEF Seen, TypeOK
<1>5. Shape(u)'
  BY <1>1, <1>2, <1>3 DEF Proper, Shape, Registering, GamePlaces
<1>6. Held(u)'
  BY <1>1, <1>2, <1>3 DEF Proper, Held, Holding, Drafting, TypeOK, Rows
<1>7. Drafted(u)'
  <2>1. \A y \in Users : ~(Kind(u)' = "pair" /\ at'[u] = "commit" /\ To(u)' = y)
    BY <1>2, <1>3, UsersAssumption
  <2> QED BY <1>1, <1>2, <1>3, <1>4, <2>1
          DEF Proper, Drafted, DraftedPair, DraftedRest, DraftedLength, One
<1>8. Timed(u)'
  BY <1>1, <1>2, <1>3, <1>4 DEF Proper, Timed, TimedRow, Ready
<1>9. Numbered(u)'
  BY <1>1, <1>2, <1>3 DEF Proper, Numbered
<1> QED BY <1>5, <1>6, <1>7, <1>8, <1>9 DEF Proper

LEMMA UpdateToStep ==
    ASSUME TypeOK, TypeOK', NEW u \in Updates, Proper(u), UpdateTo(u)
    PROVE  Proper(u)'
<1>1. at[u] = "toRow" /\ Kind(u) = "pair" /\ To(u) \in Users /\ u \notin counted
  BY Asked DEF Proper, Shape, UpdateTo
<1>a. PICK y \in Users : y = To(u)
  BY <1>1
<1>b. PICK new \in Fields : new = [Seen(u, y) EXCEPT !.from = @ + 1]
  BY Written
<1>2. /\ at'[u] = "commit" /\ owner' = [owner EXCEPT ![y] = u] /\ Write(u, y, new)
      /\ row' = row
      /\ UNCHANGED <<chatGame, cmd, began, count, counted, result, failed>>
  BY <1>a, <1>b DEF TypeOK, UpdateTo, Goto, Lock, dbVars
<1>3. \A z \in Users : row[z] \in Fields /\ Seen(u, z) \in Fields
  BY DraftShape DEF TypeOK
<1>4. /\ new.from = Seen(u, y).from + 1
      /\ new.pair = Seen(u, y).pair /\ new.pairAt = Seen(u, y).pairAt
      /\ new.solo = Seen(u, y).solo /\ new.soloAt = Seen(u, y).soloAt
      /\ new.length = Seen(u, y).length /\ new.growAt = Seen(u, y).growAt
      /\ new.games = Seen(u, y).games /\ new.loses = Seen(u, y).loses
  BY <1>b, <1>3 DEF Fields
<1>5. /\ Seen(u, y)' = new
      /\ \A z \in Users \ {y} : Seen(u, z)' = Seen(u, z)
      /\ DOMAIN draft'[u] = DOMAIN draft[u] \cup {y}
  BY <1>2, WriteSeen
<1>6. /\ By(u)' = By(u) /\ Kind(u)' = Kind(u) /\ To(u)' = y
      /\ InPair(u)' /\ InPair(u)
      /\ ~InSolo(u)' /\ ~InSolo(u)
      /\ ~InGrow(u)' /\ ~InGrow(u)
      /\ ~InGame(u)' /\ ~InGame(u)
  BY <1>1, <1>a, <1>2 DEF By, Kind, To, InPair, InSolo, InGrow, InGame
<1>7. Shape(u)'
  BY <1>1, <1>2, <1>6 DEF Proper, Shape, Registering, GamePlaces
<1>8. Held(u)'
  BY <1>1, <1>2, <1>5, <1>6 DEF Proper, Held, Holding, Drafting, TypeOK, Rows
<1>9. Drafted(u)'
  <2>1. ASSUME NEW z \in Users PROVE (DraftedPair(u, z) /\ DraftedRest(u, z) /\ DraftedLength(u, z))'
    <3>1. DraftedPair(u, z) /\ DraftedRest(u, z) /\ DraftedLength(u, z) /\ row[z] \in Fields
      BY <1>3 DEF Proper, Drafted
    <3>2. row'[z] = row[z] /\ at[u] # "commit" /\ at'[u] = "commit" /\ Kind(u) = "pair"
      BY <1>1, <1>2
    <3>3. CASE z = y
      BY <1>4, <1>5, <1>6, <3>1, <3>2, <3>3 DEF DraftedPair, DraftedRest, DraftedLength, One, Fields
    <3>4. CASE z # y
      BY <1>5, <1>6, <3>1, <3>2, <3>4 DEF DraftedPair, DraftedRest, DraftedLength, One, Fields
    <3> QED BY <3>3, <3>4
  <2> QED BY <2>1 DEF Drafted
<1>10. Timed(u)'
  BY <1>1, <1>2, <1>4, <1>5, <1>6 DEF Proper, Timed, TimedRow, Ready
<1>11. Numbered(u)'
  BY <1>1, <1>2, <1>6 DEF Proper, Numbered
<1> QED BY <1>7, <1>8, <1>9, <1>10, <1>11 DEF Proper

LEMMA RecordLoseStep ==
    ASSUME TypeOK, TypeOK', NEW u \in Updates, Proper(u), RecordLose(u)
    PROVE  Proper(u)'
<1>1. /\ at[u] = "loser" /\ Kind(u) = "game" /\ u \notin counted /\ loser[u] \notin stale[u]
      /\ loser[u] \in players[u] /\ todo[u] = players[u] /\ players[u] \subseteq Users
      /\ draft[u] = NoDraft /\ owner[Chat] = u
  BY DEF Proper, Shape, Held, GamePlaces, Drafting, TypeOK, RecordLose, Conflict
<1>a. PICK y \in Users : y = loser[u]
  BY <1>1
<1>b. PICK new \in Fields : new = Lost(row[y])
  BY Written
<1>2. /\ at'[u] = "player" /\ owner' = [owner EXCEPT ![y] = u] /\ Write(u, y, new)
      /\ row' = row
      /\ UNCHANGED <<chatGame, cmd, began, stale, players, loser, todo, count, counted, result, failed>>
      /\ next'[u] \in todo[u]
  BY <1>a, <1>b DEF TypeOK, RecordLose, Goto, Lock, dbVars
<1>3. \A z \in Users : row[z] \in Fields /\ Seen(u, z) = row[z]
  BY <1>1, EmptyDraft DEF TypeOK, Seen
<1>4. /\ new.loses = row[y].loses + 1 /\ new.games = row[y].games
      /\ new.pair = row[y].pair /\ new.pairAt = row[y].pairAt /\ new.from = row[y].from
      /\ new.solo = row[y].solo /\ new.soloAt = row[y].soloAt
      /\ new.length = row[y].length /\ new.growAt = row[y].growAt
  BY <1>b, <1>3, LostAndPlayed
<1>5. /\ Seen(u, y)' = new
      /\ \A z \in Users \ {y} : Seen(u, z)' = row[z]
      /\ DOMAIN draft'[u] = {y}
  <2>1. DOMAIN draft[u] = {}
    BY <1>1, EmptyDraft
  <2> QED BY <1>2, <1>3, <2>1, WriteSeen
<1>6. /\ Kind(u)' = Kind(u) /\ ~InPair(u)' /\ ~InSolo(u)' /\ ~InGrow(u)' /\ InGame(u)'
  BY <1>1, <1>2 DEF Kind, InPair, InSolo, InGrow, InGame
<1>7. Shape(u)'
  BY <1>1, <1>2, <1>6 DEF Proper, Shape, Registering, GamePlaces
<1>8. Held(u)'
  BY <1>1, <1>2, <1>5, <1>6 DEF Proper, Held, Holding, Drafting, TypeOK, Rows
<1>9. Drafted(u)'
  BY <1>1, <1>a, <1>2, <1>3, <1>4, <1>5, <1>6
     DEF Drafted, DraftedPair, DraftedRest, DraftedLength, One, Fields
<1>10. Timed(u)'
  BY <1>1, <1>2, <1>4, <1>5, <1>6 DEF Proper, Timed, TimedRow, Ready
<1>11. Numbered(u)'
  BY <1>1, <1>2, <1>6 DEF Proper, Numbered
<1> QED BY <1>7, <1>8, <1>9, <1>10, <1>11 DEF Proper

LEMMA RecordPlayerStep ==
    ASSUME TypeOK, TypeOK', NEW u \in Updates, Proper(u), RecordPlayer(u)
    PROVE  Proper(u)'
<1>1. /\ at[u] = "player" /\ Kind(u) = "game" /\ u \notin counted
      /\ next[u] \in todo[u] /\ todo[u] \subseteq players[u] /\ players[u] \subseteq Users
      /\ InGame(u) /\ ~InPair(u) /\ ~InSolo(u) /\ ~InGrow(u)
      /\ owner[Chat] = u /\ Ready(u, chatGame)
  BY DEF Proper, Shape, Held, Timed, GamePlaces, TypeOK, RecordPlayer, InGame, InPair, InSolo, InGrow
<1>a. PICK y \in Users : y = next[u]
  BY <1>1
<1>b. PICK new \in Fields : new = Played(Seen(u, y))
  BY Written
<1>2. /\ owner' = [owner EXCEPT ![y] = u] /\ Write(u, y, new)
      /\ row' = row
      /\ UNCHANGED <<chatGame, cmd, began, stale, players, loser, count, counted, result, failed>>
      /\ todo'[u] = todo[u] \ {y}
      /\ \/ at'[u] = "commit" /\ todo'[u] = {}
         \/ at'[u] = "player" /\ next'[u] \in todo'[u]
  BY <1>1, <1>a, <1>b DEF TypeOK, RecordPlayer, Goto, Lock, dbVars
<1>3. \A z \in Users : row[z] \in Fields /\ Seen(u, z) \in Fields
  BY DraftShape DEF TypeOK
<1>4. /\ new.games = Seen(u, y).games + 1 /\ new.loses = Seen(u, y).loses
      /\ new.pair = Seen(u, y).pair /\ new.pairAt = Seen(u, y).pairAt /\ new.from = Seen(u, y).from
      /\ new.solo = Seen(u, y).solo /\ new.soloAt = Seen(u, y).soloAt
      /\ new.length = Seen(u, y).length /\ new.growAt = Seen(u, y).growAt
  <2>1. PICK r \in Fields : r = Seen(u, y)
    BY <1>3
  <2> QED BY <1>b, <2>1, LostAndPlayed
<1>5. /\ Seen(u, y)' = new
      /\ \A z \in Users \ {y} : Seen(u, z)' = Seen(u, z)
      /\ DOMAIN draft'[u] = DOMAIN draft[u] \cup {y}
  BY <1>2, WriteSeen
<1>6. /\ Kind(u)' = Kind(u) /\ ~InPair(u)' /\ ~InSolo(u)' /\ ~InGrow(u)' /\ InGame(u)'
  BY <1>1, <1>2 DEF Kind, InPair, InSolo, InGrow, InGame
<1>7. Shape(u)'
  BY <1>1, <1>2, <1>6 DEF Proper, Shape, Registering, GamePlaces
<1>8. Held(u)'
  BY <1>1, <1>2, <1>5, <1>6 DEF Proper, Held, Holding, Drafting, TypeOK, Rows
<1>9. Drafted(u)'
  <2>1. ASSUME NEW z \in Users PROVE (DraftedPair(u, z) /\ DraftedRest(u, z) /\ DraftedLength(u, z))'
    <3>1. /\ DraftedPair(u, z) /\ DraftedRest(u, z) /\ DraftedLength(u, z)
          /\ row[z] \in Fields /\ row'[z] = row[z]
      BY <1>2, <1>3 DEF Proper, Drafted
    <3>2. Kind(u) # "pair" /\ Kind(u)' # "pair"
      BY <1>1, <1>6
    <3>3. CASE z = y
      BY <1>1, <1>a, <1>2, <1>4, <1>5, <1>6, <3>1, <3>2, <3>3
         DEF DraftedPair, DraftedRest, DraftedLength, One, Fields
    <3>4. CASE z # y
      BY <1>1, <1>a, <1>2, <1>5, <1>6, <3>1, <3>2, <3>4
         DEF DraftedPair, DraftedRest, DraftedLength, One, Fields
    <3> QED BY <3>3, <3>4
  <2> QED BY <2>1 DEF Drafted
<1>10. Timed(u)'
  BY <1>1, <1>2, <1>4, <1>5, <1>6 DEF Proper, Timed, TimedRow, Ready
<1>11. Numbered(u)'
  BY <1>1, <1>2, <1>6 DEF Proper, Numbered
<1> QED BY <1>7, <1>8, <1>9, <1>10, <1>11 DEF Proper

LEMMA OwnStep ==
    ASSUME TypeOK, TypeOK', NEW u \in Updates, Proper(u), Step(u)
    PROVE  Proper(u)'
BY QuietSteps, EndingSteps, UpdateByStep, TriggerChatStep, UpdateToStep, RecordLoseStep,
   RecordPlayerStep DEF Step, Handle

-------------------------------------------------------------------------------
(* The sums over the committed commands.                                    *)

(* A set of committed commands with u in it or not. *)
With(S, u, b) == IF b THEN S \cup {u} ELSE S

LEMMA CountedOnce ==
    ASSUME NEW S, IsFiniteSet(S), NEW u, u \notin S, NEW n, n = Cardinality(S), NEW b \in BOOLEAN
    PROVE  Cardinality(With(S, u, b)) = n + One(b)
<1>1. n \in Nat
  BY FS_CardinalityType
<1>2. CASE b
  <2>1. Cardinality(S \cup {u}) = n + 1
    BY FS_AddElement
  <2> QED BY <1>2, <2>1 DEF With, One
<1>3. CASE ~b
  BY <1>1, <1>3 DEF With, One
<1> QED BY <1>2, <1>3

Numbers(f, S) == {f[w] : w \in S}
LEMMA NumberedOnce ==
    ASSUME NEW S, NEW u, NEW f, NEW n \in Nat, Numbers(f, S) = 1..n, f[u] = n + 1
    PROVE  Numbers(f, S \cup {u}) = 1..(n + 1)
<1>1. Numbers(f, S \cup {u}) = Numbers(f, S) \cup {f[u]}
  BY DEF Numbers
<1>2. 1..(n + 1) = 1..n \cup {n + 1}
  OBVIOUS
<1> QED BY <1>1, <1>2

(* Nothing of a counted command changes, and a step of u that installs      *)
(* changes nothing but the rows.                                            *)
LEMMA CountedStay ==
    ASSUME TypeOK, NEW u \in Updates, Proper(u), Step(u)
    PROVE  /\ u \in counted => UNCHANGED <<players, loser, count>>
           /\ ~SameData => at[u] = "commit" /\ Install(u) /\ UNCHANGED <<players, loser, count>>
<1> USE DEF drawn, dbVars, SameData
<1>1. CASE UpdateBy(u) \/ PickPlayers(u)
  BY <1>1 DEF UpdateBy, PickPlayers, Proper, Shape
<1>2. CASE Commit(u) \/ CommitFails(u)
  BY <1>2 DEF Commit, CommitFails
<1>3. CASE Ending(u)
  BY <1>3 DEF Ending, Ends
<1>4. CASE \/ Arrive(u) \/ RegisterChat(u) \/ RegisterUser(u) \/ GetUser(u) \/ Begin(u) \/ Try(u)
           \/ TriggerChat(u) \/ UpdateTo(u) \/ StartGame(u) \/ TooFew(u) \/ PageFails(u)
           \/ RecordLose(u) \/ RecordPlayer(u)
  BY <1>4 DEF Arrive, RegisterChat, RegisterUser, GetUser, Begin, Try, TriggerChat, UpdateTo,
              StartGame, TooFew, PageFails, RecordLose, RecordPlayer
<1>5. CASE \/ InsertText(u) \/ TextInserted(u) \/ PickText(u) \/ Touch(u) \/ Touched(u)
           \/ ReadLastTime(u)
  BY <1>5 DEF InsertText, TextInserted, PickText, Touch, Touched, StatementEnds, ReadLastTime
<1> QED BY <1>1, <1>2, <1>3, <1>4, <1>5, EndingSteps DEF Step, Handle

LEMMA SumsKept ==
    ASSUME IInv, TypeOK', NEW u \in Updates, Step(u)
    PROVE  CountersAddUp' /\ NumbersAreUnique'
<1>0. TypeOK /\ Proper(u) /\ CountersAddUp /\ NumbersAreUnique /\ Local(u) /\ cmd' = cmd
  BY LocalStep DEF IInv, Local
<1>1. CASE SameData
  <2>1. \A w \in counted : players'[w] = players[w] /\ loser'[w] = loser[w] /\ count'[w] = count[w]
    BY <1>0, CountedStay DEF Local, Untouched, TypeOK
  <2>2. \A x \in Users : /\ PairsBy(x)' = PairsBy(x) /\ PairsTo(x)' = PairsTo(x)
                         /\ SolosBy(x)' = SolosBy(x)
                         /\ GamesOf(x)' = GamesOf(x) /\ LosesOf(x)' = LosesOf(x)
    BY <1>0, <1>1, <2>1 DEF SameData, PairsBy, PairsTo, SolosBy, GamesOf, LosesOf, Kind, By, To
  <2>3. CountersAddUp'
    BY <1>0, <1>1, <2>2 DEF CountersAddUp, SameData
  <2>4. ASSUME NEW S \in SUBSET counted PROVE {count'[w] : w \in S} = {count[w] : w \in S}
    BY <2>1
  <2>5. ASSUME NEW x \in Users
        PROVE  /\ {count'[w] : w \in PairsBy(x)} = {count[w] : w \in PairsBy(x)}
               /\ {count'[w] : w \in SolosBy(x)} = {count[w] : w \in SolosBy(x)}
               /\ {count'[w] : w \in LosesOf(x)} = {count[w] : w \in LosesOf(x)}
    <3>1. PairsBy(x) \in SUBSET counted /\ SolosBy(x) \in SUBSET counted /\ LosesOf(x) \in SUBSET counted
      BY DEF PairsBy, SolosBy, LosesOf
    <3> QED BY <2>4, <3>1
  <2>6. NumbersAreUnique'
    BY <1>0, <1>1, <2>2, <2>5 DEF NumbersAreUnique, SameData
  <2> QED BY <2>3, <2>6
<1>2. CASE ~SameData
  <2>1. /\ at[u] = "commit" /\ u \notin counted /\ IsFiniteSet(counted)
        /\ row' = [x \in Users |-> Seen(u, x)] /\ counted' = counted \cup {u}
        /\ players' = players /\ loser' = loser /\ count' = count /\ cmd' = cmd
    BY <1>0, <1>2, CountedStay, UsersAssumption, FS_Subset DEF Install, Proper, Shape, TypeOK
  <2>2. ASSUME NEW x \in Users
        PROVE  (/\ row[x].pair = Cardinality(PairsBy(x)) /\ row[x].from = Cardinality(PairsTo(x))
                /\ row[x].solo = Cardinality(SolosBy(x))
                /\ row[x].games = Cardinality(GamesOf(x)) /\ row[x].loses = Cardinality(LosesOf(x))
                /\ {count[w] : w \in PairsBy(x)} = 1..row[x].pair
                /\ {count[w] : w \in SolosBy(x)} = 1..row[x].solo
                /\ {count[w] : w \in LosesOf(x)} = 1..row[x].loses)'
    <3> DEFINE pb == Kind(u) = "pair" /\ By(u) = x
               pt == Kind(u) = "pair" /\ To(u) = x
               sb == Kind(u) = "solo" /\ By(u) = x
               gm == Kind(u) = "game" /\ x \in players[u]
               ls == Kind(u) = "game" /\ loser[u] = x
    <3>1. /\ PairsBy(x)' = With(PairsBy(x), u, pb) /\ PairsTo(x)' = With(PairsTo(x), u, pt)
          /\ SolosBy(x)' = With(SolosBy(x), u, sb)
          /\ GamesOf(x)' = With(GamesOf(x), u, gm) /\ LosesOf(x)' = With(LosesOf(x), u, ls)
      BY <2>1 DEF PairsBy, PairsTo, SolosBy, GamesOf, LosesOf, With, Kind, By, To
    <3>2. /\ \A S \in {PairsBy(x), PairsTo(x), SolosBy(x), GamesOf(x), LosesOf(x)} :
               u \notin S /\ IsFiniteSet(S)
      BY <2>1, FS_Subset DEF PairsBy, PairsTo, SolosBy, GamesOf, LosesOf
    <3>3. /\ row'[x].pair = row[x].pair + One(pb) /\ row'[x].from = row[x].from + One(pt)
          /\ row'[x].solo = row[x].solo + One(sb)
          /\ row'[x].games = row[x].games + One(gm) /\ row'[x].loses = row[x].loses + One(ls)
      <4>1. DraftedPair(u, x) /\ DraftedRest(u, x) /\ row'[x] = Seen(u, x)
        BY <1>0, <2>1 DEF Proper, Drafted
      <4>2. Kind(u) = "game" => players[u] \ todo[u] = players[u]
        BY <1>0, <2>1 DEF Proper, Shape
      <4> QED BY <2>1, <4>1, <4>2 DEF DraftedPair, DraftedRest, One, InPair, InSolo, InGame
    <3>4. /\ row[x].pair = Cardinality(PairsBy(x)) /\ row[x].from = Cardinality(PairsTo(x))
          /\ row[x].solo = Cardinality(SolosBy(x))
          /\ row[x].games = Cardinality(GamesOf(x)) /\ row[x].loses = Cardinality(LosesOf(x))
          /\ {count[w] : w \in PairsBy(x)} = 1..row[x].pair
          /\ {count[w] : w \in SolosBy(x)} = 1..row[x].solo
          /\ {count[w] : w \in LosesOf(x)} = 1..row[x].loses
          /\ row[x] \in Fields
      BY <1>0 DEF CountersAddUp, NumbersAreUnique, TypeOK
    <3>5. /\ pb => count[u] = row[x].pair + 1
          /\ sb => count[u] = row[x].solo + 1
          /\ ls => count[u] = row[x].loses + 1
      BY <1>0, <2>1 DEF Proper, Numbered, InPair, InSolo, InGame
    <3>6. pb \in BOOLEAN /\ pt \in BOOLEAN /\ sb \in BOOLEAN /\ gm \in BOOLEAN /\ ls \in BOOLEAN
      OBVIOUS
    <3>7. row[x].pair \in Nat /\ row[x].solo \in Nat /\ row[x].loses \in Nat
      BY <3>4 DEF Fields
    <3> HIDE DEF pb, pt, sb, gm, ls
    <3>8. /\ Cardinality(With(PairsBy(x), u, pb)) = row[x].pair + One(pb)
          /\ Cardinality(With(PairsTo(x), u, pt)) = row[x].from + One(pt)
          /\ Cardinality(With(SolosBy(x), u, sb)) = row[x].solo + One(sb)
          /\ Cardinality(With(GamesOf(x), u, gm)) = row[x].games + One(gm)
          /\ Cardinality(With(LosesOf(x), u, ls)) = row[x].loses + One(ls)
      BY <3>2, <3>4, <3>6, CountedOnce
    <3>9. {count[w] : w \in With(PairsBy(x), u, pb)} = 1..(row[x].pair + One(pb))
      <4>1. PICK n \in Nat : n = row[x].pair
        BY <3>7
      <4>2. Numbers(count, PairsBy(x)) = 1..n
        BY <3>4, <4>1 DEF Numbers
      <4>3. pb => count[u] = n + 1
        BY <3>5, <4>1
      <4>4. CASE pb
        <5>1. Numbers(count, PairsBy(x) \cup {u}) = 1..(n + 1)
          BY <4>2, <4>3, <4>4, NumberedOnce
        <5> QED BY <4>1, <4>4, <5>1 DEF Numbers, With, One
      <4>5. CASE ~pb
        BY <4>1, <4>2, <4>5 DEF Numbers, With, One
      <4> QED BY <4>4, <4>5
    <3>10. {count[w] : w \in With(SolosBy(x), u, sb)} = 1..(row[x].solo + One(sb))
      <4>1. PICK n \in Nat : n = row[x].solo
        BY <3>7
      <4>2. Numbers(count, SolosBy(x)) = 1..n
        BY <3>4, <4>1 DEF Numbers
      <4>3. sb => count[u] = n + 1
        BY <3>5, <4>1
      <4>4. CASE sb
        <5>1. Numbers(count, SolosBy(x) \cup {u}) = 1..(n + 1)
          BY <4>2, <4>3, <4>4, NumberedOnce
        <5> QED BY <4>1, <4>4, <5>1 DEF Numbers, With, One
      <4>5. CASE ~sb
        BY <4>1, <4>2, <4>5 DEF Numbers, With, One
      <4> QED BY <4>4, <4>5
    <3>11. {count[w] : w \in With(LosesOf(x), u, ls)} = 1..(row[x].loses + One(ls))
      <4>1. PICK n \in Nat : n = row[x].loses
        BY <3>7
      <4>2. Numbers(count, LosesOf(x)) = 1..n
        BY <3>4, <4>1 DEF Numbers
      <4>3. ls => count[u] = n + 1
        BY <3>5, <4>1
      <4>4. CASE ls
        <5>1. Numbers(count, LosesOf(x) \cup {u}) = 1..(n + 1)
          BY <4>2, <4>3, <4>4, NumberedOnce
        <5> QED BY <4>1, <4>4, <5>1 DEF Numbers, With, One
      <4>5. CASE ~ls
        BY <4>1, <4>2, <4>5 DEF Numbers, With, One
      <4> QED BY <4>4, <4>5
    <3> QED BY <2>1, <3>1, <3>3, <3>8, <3>9, <3>10, <3>11
  <2> QED BY <2>2 DEF CountersAddUp, NumbersAreUnique
<1> QED BY <1>1, <1>2

-------------------------------------------------------------------------------
(* The invariant is inductive.                                              *)

LEMMA InitInv == Init => IInv
<1> SUFFICES ASSUME Init PROVE IInv
  OBVIOUS
<1> USE DEF Init
<1>1. TypeOK
  <2>1. NoDraft \in Drafts /\ NewRow \in Fields
    BY EmptyDraft DEF NewRow, Fields
  <2>2. Cardinality({}) = 0
    BY FS_EmptySet
  <2>3. <<>> \in Seq(Users)
    BY EmptySeq
  <2>4. "new" \in Places
    BY DEF Places
  <2> QED BY <2>1, <2>2, <2>3, <2>4, NumbersAssumption DEF TypeOK, Rows
<1>2. ASSUME NEW u \in Updates PROVE Proper(u)
  <2>1. at[u] = "new" /\ draft[u] = NoDraft /\ u \notin counted /\ result[u] = "none"
    OBVIOUS
  <2>2. u # None /\ \A r \in Rows : owner[r] # u
    BY Asked, <1>1
  <2>3. ~InPair(u) /\ ~InSolo(u) /\ ~InGrow(u) /\ ~InGame(u)
    BY <2>1 DEF InPair, InSolo, InGrow, InGame
  <2>4. \A x \in Users : Seen(u, x) = row[x] /\ row[x] \in Fields
    BY <1>1, <2>1, EmptyDraft DEF Seen, TypeOK
  <2>5. Shape(u) /\ Held(u)
    BY <2>1, <2>2, <2>3, EmptyDraft DEF Shape, Held, Registering, GamePlaces
  <2>6. Drafted(u) /\ Timed(u) /\ Numbered(u)
    BY <2>1, <2>3, <2>4 DEF Drafted, DraftedPair, DraftedRest, DraftedLength, One, Fields, Timed,
                            TimedRow, Numbered
  <2> QED BY <2>5, <2>6 DEF Proper
<1>3. \A x \in Users : /\ PairsBy(x) = {} /\ PairsTo(x) = {} /\ SolosBy(x) = {}
                       /\ GamesOf(x) = {} /\ LosesOf(x) = {}
  BY DEF PairsBy, PairsTo, SolosBy, GamesOf, LosesOf
<1>4. CountersAddUp
  BY <1>3, FS_EmptySet DEF CountersAddUp, NewRow
<1>5. NumbersAreUnique
  <2>1. 1..0 = {}
    OBVIOUS
  <2>2. \A x \in Users : row[x].pair = 0 /\ row[x].solo = 0 /\ row[x].loses = 0
    BY DEF NewRow
  <2> QED BY <1>3, <2>1, <2>2 DEF NumbersAreUnique
<1> QED BY <1>1, <1>2, <1>4, <1>5 DEF IInv

LEMMA NextInv == IInv /\ [Next]_vars => IInv'
<1> SUFFICES ASSUME IInv, [Next]_vars PROVE IInv'
  OBVIOUS
<1>1. ASSUME NEW u \in Updates, Step(u) PROVE IInv'
  <2>1. TypeOK /\ Proper(u) /\ \A v \in Updates : Proper(v)
    BY DEF IInv
  <2>2. TypeOK'
    BY <1>1, <2>1, TypeStep DEF Proper
  <2>3. Local(u) /\ DataStep(u)
    BY <1>1, <2>1, LocalStep
  <2>4. Proper(u)'
    BY <1>1, <2>1, <2>2, OwnStep
  <2>5. ASSUME NEW v \in Updates, v # u PROVE Proper(v)'
    BY <2>1, <2>2, <2>3, <2>5, OthersStay
  <2>6. CountersAddUp' /\ NumbersAreUnique'
    BY <1>1, <2>2, SumsKept
  <2> QED BY <2>2, <2>4, <2>5, <2>6 DEF IInv
<1>2. CASE Tick \/ UNCHANGED vars
  <2>1. UNCHANGED <<members, row, chatGame, owner, cmd, at, left, began, stale, draft, players, loser,
                    todo, next, amount, count, result, counted, failed>>
    BY <1>2 DEF Tick, vars, dbVars, txVars, drawn
  <2>2. TypeOK'
    <3>1. clock' \in 1..(MaxTime + 1)
      BY <1>2, NumbersAssumption DEF IInv, TypeOK, Tick, vars
    <3> QED BY <2>1, <3>1 DEF IInv, TypeOK
  <2>3. ASSUME NEW u \in Updates PROVE Proper(u)'
    <3>1. Shape(u) /\ Held(u) /\ Drafted(u) /\ Timed(u) /\ Numbered(u)
      BY DEF IInv, Proper
    <3>2. /\ \A x : Seen(u, x)' = Seen(u, x)
          /\ InPair(u)' = InPair(u) /\ InSolo(u)' = InSolo(u)
          /\ InGrow(u)' = InGrow(u) /\ InGame(u)' = InGame(u) /\ LastAt(u)' = LastAt(u)
          /\ Kind(u)' = Kind(u) /\ By(u)' = By(u) /\ To(u)' = To(u)
      BY <2>1 DEF Seen, InPair, InSolo, InGrow, InGame, Kind, By, To, LastAt
    <3>3. Shape(u)' /\ Held(u)'
      BY <2>1, <3>1, <3>2 DEF Shape, Held
    <3>4. Drafted(u)' /\ Timed(u)' /\ Numbered(u)'
      BY <2>1, <3>1, <3>2 DEF Drafted, DraftedPair, DraftedRest, DraftedLength, Timed, TimedRow, Numbered, Ready
    <3> QED BY <3>3, <3>4 DEF Proper
  <2>4. \A x \in Users : /\ PairsBy(x)' = PairsBy(x) /\ PairsTo(x)' = PairsTo(x)
                         /\ SolosBy(x)' = SolosBy(x)
                         /\ GamesOf(x)' = GamesOf(x) /\ LosesOf(x)' = LosesOf(x)
    BY <2>1 DEF PairsBy, PairsTo, SolosBy, GamesOf, LosesOf, Kind, By, To
  <2>5. CountersAddUp' /\ NumbersAreUnique'
    BY <2>1, <2>4 DEF IInv, CountersAddUp, NumbersAreUnique
  <2> QED BY <2>2, <2>3, <2>5 DEF IInv
<1> QED BY <1>1, <1>2 DEF Next, Step

LEMMA Invariance == Spec => []IInv
BY InitInv, NextInv, PTL DEF Spec

-------------------------------------------------------------------------------
(* Results.                                                                 *)

(* The variables keep their types; a game has as many players as it may. *)
THEOREM TypeCorrect == Spec => []TypeOK
<1>1. IInv => TypeOK
  BY DEF IInv
<1> QED BY <1>1, Invariance, PTL

(* No update of a row is lost and none is half done: CommitTx, the row      *)
(* locks and the isolation levels together count every command once.        *)
THEOREM AddUp == Spec => []CountersAddUp
<1>1. IInv => CountersAddUp
  BY DEF IInv
<1> QED BY <1>1, Invariance, PTL

(* The numbers told to the users of committed commands are those the        *)
(* counter went through, although a game reads its number before it locks.  *)
THEOREM Unique == Spec => []NumbersAreUnique
<1>1. IInv => NumbersAreUnique
  BY DEF IInv
<1> QED BY <1>1, Invariance, PTL

(* Only a failed call to the database makes a handler panic: a command is   *)
(* refused for a last time, and none goes back to NULL before it is read.   *)
THEOREM PanicsAreFailures == Spec => []PanicNeedsFailure
<1>1. IInv => PanicNeedsFailure
  BY DEF IInv, Proper, Shape, PanicNeedsFailure
<1> QED BY <1>1, Invariance, PTL

(* An update that has ended, or waits for the reply queue, has no locks but *)
(* the chat of a game with too few players.                                 *)
THEOREM RowsFreed == Spec => []RowsAreFreed
<1>1. IInv => RowsAreFreed
  BY DEF IInv, Proper, Held, Holding, Drafting, RowsAreFreed
<1> QED BY <1>1, Invariance, PTL

(* A cooldown is kept between the commands that were committed, whatever    *)
(* they raced with.                                                         *)
THEOREM Cooldowns == Spec => CooldownKept
<1>1. IInv /\ [Next]_vars => [SpacedStep]_vars
  <2> SUFFICES ASSUME IInv, Next PROVE SpacedStep
    OBVIOUS
  <2>0. TypeOK
    BY DEF IInv
  <2>1. CASE row' = row /\ chatGame' = chatGame
    BY <2>1 DEF SpacedStep, Spaced
  <2>2. ASSUME NEW u \in Updates, at[u] = "commit", Install(u) PROVE SpacedStep
    <3>1. /\ row' = [x \in Users |-> Seen(u, x)]
          /\ chatGame' = IF Kind(u) = "game" THEN began[u] ELSE chatGame
      BY <2>2 DEF Install
    <3>2. Timed(u)
      BY DEF IInv, Proper
    <3>3. /\ chatGame \in Nat /\ began[u] \in Nat
          /\ \A x \in Users : /\ row[x].pairAt \in Nat /\ row[x].soloAt \in Nat
                              /\ row[x].growAt \in Nat
      BY <2>0 DEF TypeOK, Fields
    <3>4. Spaced(chatGame, chatGame')
      BY <2>2, <3>1, <3>2, <3>3, NumbersAssumption DEF Timed, InGame, Ready, Spaced
    <3>5. ASSUME NEW x \in Users
          PROVE  /\ Spaced(row[x].pairAt, row'[x].pairAt)
                 /\ Spaced(row[x].soloAt, row'[x].soloAt)
                 /\ Spaced(row[x].growAt, row'[x].growAt)
      <4>1. TimedRow(u, x) /\ row'[x] = Seen(u, x)
        BY <3>1, <3>2 DEF Timed
      <4> QED BY <3>3, <4>1, NumbersAssumption DEF TimedRow, Ready, Spaced
    <3> QED BY <3>4, <3>5 DEF SpacedStep
  <2>3. ASSUME NEW u \in Updates, Step(u) PROVE SpacedStep
    <3>1. DataStep(u)
      BY <2>0, <2>3, LocalStep
    <3> QED BY <2>1, <2>2, <3>1 DEF DataStep, SameData
  <2>4. CASE Tick
    BY <2>1, <2>4 DEF Tick, dbVars
  <2> QED BY <2>3, <2>4 DEF Next, Step
<1> QED BY <1>1, Invariance, PTL DEF Spec, CooldownKept

(* Ups lose nothing of their amounts to each other, to the other commands   *)
(* on the row or to a failed commit, and no length falls below zero.        *)
THEOREM Lengths == Spec => LengthsAddUp
<1>1. IInv /\ [Next]_vars => [GrowthStep]_vars
  <2> SUFFICES ASSUME IInv, Next, NEW x \in Users
               PROVE  LET Ups == {u \in counted' \ counted : Kind(u) = "grow" /\ By(u) = x} IN
                      /\ row'[x].length # row[x].length => Ups # {}
                      /\ \A u \in Ups : /\ AddsUp(row[x].length, amount[u], row'[x].length)
                                        /\ count[u] = row'[x].length
    BY DEF GrowthStep
  <2> DEFINE Ups == {u \in counted' \ counted : Kind(u) = "grow" /\ By(u) = x}
  <2>0. TypeOK
    BY DEF IInv
  <2>1. CASE row' = row /\ counted' = counted
    BY <2>1
  <2>2. ASSUME NEW u \in Updates, at[u] = "commit", Install(u)
        PROVE  /\ row'[x].length # row[x].length => Ups # {}
               /\ \A w \in Ups : /\ AddsUp(row[x].length, amount[w], row'[x].length)
                                 /\ count[w] = row'[x].length
    <3>1. row'[x] = Seen(u, x) /\ counted' = counted \cup {u}
      BY <2>2 DEF Install
    <3>2. DraftedLength(u, x) /\ Numbered(u) /\ u \notin counted
      BY <2>2 DEF IInv, Proper, Drafted, Shape
    <3>3. row[x].length \in Nat /\ amount[u] \in Int
      BY <2>0 DEF TypeOK, Fields
    <3>4. CASE Kind(u) = "grow" /\ By(u) = x
      <4>1. InGrow(u) /\ Ups = {u}
        BY <2>2, <3>1, <3>2, <3>4 DEF InGrow
      <4>2. row'[x].length = Grown(row[x].length, amount[u]) /\ count[u] = row'[x].length
        BY <3>1, <3>2, <3>4, <4>1 DEF DraftedLength, Numbered
      <4> QED BY <3>3, <4>1, <4>2, GrownLength
    <3>5. CASE ~(Kind(u) = "grow" /\ By(u) = x)
      <4>1. Ups = {}
        BY <3>1, <3>5
      <4>2. row'[x].length = row[x].length
        BY <3>1, <3>2, <3>5 DEF DraftedLength, InGrow
      <4> HIDE DEF Ups
      <4> QED BY <4>1, <4>2
    <3> QED BY <3>4, <3>5
  <2>3. ASSUME NEW u \in Updates, Step(u) PROVE DataStep(u)
    BY <2>0, <2>3, LocalStep
  <2>4. CASE Tick
    BY <2>1, <2>4 DEF Tick, dbVars
  <2> QED BY <2>1, <2>2, <2>3, <2>4 DEF Next, Step, DataStep, SameData
<1> QED BY <1>1, Invariance, PTL DEF Spec, LengthsAddUp

-------------------------------------------------------------------------------
(* Progress.                                                                *)

(* How many steps an update can still take. *)
StepsAfter(place) ==
    CASE place = "end" -> 0
      [] place \in {"reply", "refuse", "few"} -> 1
      [] place \in {"commit", "hot", "touchChat"} -> 2
      [] place \in {"toRow", "touchRow"} -> 3
      [] place \in {"byChat", "pick", "textRow"} -> 4
      [] OTHER -> 5
Rank(u) ==
    CASE at[u] = "new" -> MaxPlayers + 15
      [] at[u] = "reg" -> MaxPlayers + 10 + 2 * Len(left[u])
      [] at[u] = "regRow" -> MaxPlayers + 9 + 2 * Len(left[u])
      [] at[u] = "user" -> MaxPlayers + 9
      [] at[u] = "begin" -> MaxPlayers + 8
      [] at[u] = "first" -> MaxPlayers + 7
      [] at[u] = "gameChat" -> MaxPlayers + 6
      [] at[u] = "size" -> MaxPlayers + 5
      [] at[u] = "loser" -> 4 + Cardinality(todo[u])
      [] at[u] = "player" -> 3 + Cardinality(todo[u])
      [] OTHER -> StepsAfter(at[u])

(* Where the rank is a sum. *)
SumPlaces == {"new", "reg", "regRow", "user", "begin", "first", "gameChat", "size", "loser", "player"}

LEMMA RankOf ==
    ASSUME NEW u \in Updates
    PROVE  /\ at[u] = "new" => Rank(u) = MaxPlayers + 15
           /\ at[u] = "reg" => Rank(u) = MaxPlayers + 10 + 2 * Len(left[u])
           /\ at[u] = "regRow" => Rank(u) = MaxPlayers + 9 + 2 * Len(left[u])
           /\ at[u] = "user" => Rank(u) = MaxPlayers + 9
           /\ at[u] = "begin" => Rank(u) = MaxPlayers + 8
           /\ at[u] = "first" => Rank(u) = MaxPlayers + 7
           /\ at[u] = "gameChat" => Rank(u) = MaxPlayers + 6
           /\ at[u] = "size" => Rank(u) = MaxPlayers + 5
           /\ at[u] = "loser" => Rank(u) = 4 + Cardinality(todo[u])
           /\ at[u] = "player" => Rank(u) = 3 + Cardinality(todo[u])
           /\ at[u] \notin SumPlaces => Rank(u) = StepsAfter(at[u])
BY DEF Rank, SumPlaces

LEMMA RankStays ==
    ASSUME NEW u \in Updates, at'[u] = at[u], left'[u] = left[u], todo'[u] = todo[u]
    PROVE  Rank(u)' = Rank(u)
BY DEF Rank

LEMMA TodoIsFinite ==
    ASSUME TypeOK, NEW u \in Updates
    PROVE  /\ IsFiniteSet(todo[u]) /\ Cardinality(todo[u]) \in Nat
           /\ Len(left[u]) \in Nat
<1>1. todo[u] \subseteq Users /\ left[u] \in Seq(Users)
  BY DEF TypeOK
<1> QED BY <1>1, UsersAssumption, FS_Subset, FS_CardinalityType, LenProperties

LEMMA RankInSum ==
    ASSUME TypeOK, NEW u \in Updates, at[u] \in SumPlaces
    PROVE  Rank(u) \in Nat /\ Rank(u) > 0
<1>1. PICK m \in Nat : m = MaxPlayers
  BY NumbersAssumption
<1>2. PICK c \in Nat : c = Cardinality(todo[u])
  BY TodoIsFinite
<1>3. PICK l \in Nat : l = Len(left[u])
  BY TodoIsFinite
<1>4. Rank(u) \in {m + 15, m + 10 + 2 * l, m + 9 + 2 * l, m + 9, m + 8, m + 7, m + 6, m + 5, 4 + c, 3 + c}
  BY <1>1, <1>2, <1>3, RankOf DEF SumPlaces
<1> QED BY <1>4

RanksAreNat == \A u \in Updates : Rank(u) \in Nat
LEMMA RankIsNat == TypeOK => RanksAreNat
<1> SUFFICES ASSUME TypeOK, NEW u \in Updates PROVE Rank(u) \in Nat
  BY DEF RanksAreNat
<1>1. at[u] \notin SumPlaces => Rank(u) \in Nat
  BY RankOf DEF StepsAfter
<1>2. at[u] \in SumPlaces => Rank(u) \in Nat /\ Rank(u) > 0
  BY RankInSum
<1> QED BY <1>1, <1>2

LEMMA NextRankOf ==
    ASSUME NEW u \in Updates
    PROVE  /\ at'[u] = "reg" => Rank(u)' = MaxPlayers + 10 + 2 * Len(left'[u])
           /\ at'[u] = "regRow" => Rank(u)' = MaxPlayers + 9 + 2 * Len(left'[u])
           /\ at'[u] = "user" => Rank(u)' = MaxPlayers + 9
           /\ at'[u] = "begin" => Rank(u)' = MaxPlayers + 8
           /\ at'[u] = "first" => Rank(u)' = MaxPlayers + 7
           /\ at'[u] = "gameChat" => Rank(u)' = MaxPlayers + 6
           /\ at'[u] = "size" => Rank(u)' = MaxPlayers + 5
           /\ at'[u] = "loser" => Rank(u)' = 4 + Cardinality(todo'[u])
           /\ at'[u] = "player" => Rank(u)' = 3 + Cardinality(todo'[u])
           /\ at'[u] \notin SumPlaces => Rank(u)' = StepsAfter(at'[u])
BY DEF Rank, SumPlaces

(* An update that can end has not ended. *)
LEMMA EndingFalls ==
    ASSUME TypeOK, NEW u \in Updates, at[u] # "end", at'[u] = "end"
    PROVE  Rank(u)' < Rank(u)
<1>1. Rank(u)' = 0
  BY NextRankOf DEF SumPlaces, StepsAfter
<1>3. CASE at[u] \in SumPlaces
  BY <1>1, <1>3, RankInSum
<1>4. CASE at[u] \notin SumPlaces
  BY <1>1, <1>4, RankOf DEF StepsAfter
<1> QED BY <1>3, <1>4

LEMMA OwnFalls ==
    ASSUME TypeOK, TypeOK', NEW u \in Updates, Shape(u), Step(u)
    PROVE  Rank(u)' < Rank(u)
<1> USE DEF Goto, StepsAfter, SumPlaces
<1>a. MaxPlayers \in Nat /\ MaxPlayers >= 1
  BY NumbersAssumption
<1>b. at \in [Updates -> Places] /\ left \in [Updates -> Seq(Users)] /\ todo \in [Updates -> SUBSET Users]
  BY DEF TypeOK
<1>c. Cardinality(todo[u]) \in Nat /\ Len(left[u]) \in Nat
  BY TodoIsFinite
<1>1. CASE Arrive(u)
  <2>1. at[u] = "new" /\ at'[u] = "reg"
    BY <1>b, <1>1 DEF Arrive
  <2>2. Len(left'[u]) = 1 \/ Len(left'[u]) = 2
    BY <1>b, <1>1 DEF Arrive
  <2>3. Rank(u) = MaxPlayers + 15 /\ Rank(u)' = MaxPlayers + 10 + 2 * Len(left'[u])
    BY <2>1, RankOf, NextRankOf
  <2>4. CASE Len(left'[u]) = 1
    BY <1>a, <2>3, <2>4
  <2>5. CASE Len(left'[u]) = 2
    BY <1>a, <2>3, <2>5
  <2> QED BY <2>2, <2>4, <2>5
<1>2. CASE RegisterChat(u)
  <2>1. at[u] = "reg" /\ at'[u] = "regRow" /\ left'[u] = left[u]
    BY <1>b, <1>2 DEF RegisterChat
  <2> QED BY <1>a, <1>c, <2>1, RankOf, NextRankOf
<1>3. CASE RegisterUser(u)
  <2>1. at[u] = "regRow" /\ left'[u] = Tail(left[u]) /\ left[u] # <<>>
    BY <1>b, <1>3 DEF RegisterUser, Shape, Registering
  <2>2. Len(left'[u]) = Len(left[u]) - 1
    BY <1>b, <2>1, HeadTailProperties
  <2>3. (at'[u] = "user" /\ Len(left[u]) = 1) \/ at'[u] = "reg"
    BY <1>b, <1>3 DEF RegisterUser
  <2>4. Rank(u) = MaxPlayers + 9 + 2 * Len(left[u])
    BY <2>1, RankOf
  <2>5. (Rank(u)' = MaxPlayers + 9 /\ Len(left[u]) = 1) \/ Rank(u)' = MaxPlayers + 10 + 2 * Len(left'[u])
    BY <2>3, NextRankOf
  <2>6. PICK l \in Nat : l = Len(left[u])
    BY <1>c
  <2>7. Rank(u) = MaxPlayers + 9 + 2 * l /\ Len(left'[u]) = l - 1
    BY <2>2, <2>4, <2>6
  <2>8. (Rank(u)' = MaxPlayers + 9 /\ l = 1) \/ Rank(u)' = MaxPlayers + 10 + 2 * (l - 1)
    BY <2>5, <2>6, <2>7
  <2> QED BY <1>a, <2>7, <2>8
<1>4. CASE GetUser(u)
  <2>1. at[u] = "user" /\ at'[u] \in {"textChat", "pick", "begin"}
    BY <1>b, <1>4 DEF GetUser
  <2> QED BY <1>a, <2>1, RankOf, NextRankOf
<1>5. CASE Begin(u)
  <2>1. at[u] = "begin" /\ at'[u] = "first"
    BY <1>b, <1>5 DEF Begin
  <2> QED BY <1>a, <2>1, RankOf, NextRankOf
<1>6. CASE Try(u)
  <2>1. at[u] = "first" /\ at'[u] \in {"hot", "gameChat", "byRow"}
    BY <1>b, <1>6 DEF Try
  <2> QED BY <1>a, <2>1, RankOf, NextRankOf
<1>7. CASE UpdateBy(u)
  <2>1. at[u] = "byRow" /\ at'[u] \in {"byChat", "hot"}
    BY <1>b, <1>7 DEF UpdateBy
  <2> QED BY <1>a, <2>1, RankOf, NextRankOf
<1>8. CASE TriggerChat(u)
  <2>1. at[u] = "byChat" /\ at'[u] \in {"toRow", "commit"}
    BY <1>b, <1>8 DEF TriggerChat
  <2> QED BY <1>a, <2>1, RankOf, NextRankOf
<1>9. CASE UpdateTo(u)
  <2>1. at[u] = "toRow" /\ at'[u] = "commit"
    BY <1>b, <1>9 DEF UpdateTo
  <2> QED BY <1>a, <2>1, RankOf, NextRankOf
<1>10. CASE StartGame(u)
  <2>1. at[u] = "gameChat" /\ at'[u] = "size"
    BY <1>b, <1>10 DEF StartGame
  <2> QED BY <1>a, <2>1, RankOf, NextRankOf
<1>11. CASE PickPlayers(u)
  <2>1. at[u] = "size" /\ at'[u] = "loser" /\ todo'[u] = players'[u]
    BY <1>b, <1>11 DEF PickPlayers, TypeOK
  <2>2. Cardinality(players'[u]) \in {0} \cup MinPlayers..MaxPlayers
    BY DEF TypeOK
  <2>3. Cardinality(todo'[u]) \in Nat /\ Cardinality(todo'[u]) <= MaxPlayers
    BY <2>1, <2>2, NumbersAssumption
  <2> QED BY <1>a, <2>1, <2>3, RankOf, NextRankOf
<1>12. CASE TooFew(u) \/ PageFails(u)
  <2>1. at[u] = "size" /\ at'[u] = "few"
    BY <1>b, <1>12 DEF TooFew, PageFails
  <2> QED BY <1>a, <2>1, RankOf, NextRankOf
<1>13. CASE RecordLose(u)
  <2>1. at[u] = "loser" /\ at'[u] = "player" /\ todo'[u] = todo[u]
    BY <1>b, <1>13 DEF RecordLose
  <2> QED BY <1>a, <1>c, <2>1, RankOf, NextRankOf
<1>14. CASE RecordPlayer(u)
  <2>1. /\ at[u] = "player" /\ next[u] \in todo[u] /\ todo'[u] = todo[u] \ {next[u]}
        /\ at'[u] \in {"commit", "player"}
    BY <1>b, <1>14 DEF RecordPlayer, Shape
  <2>2. Cardinality(todo'[u]) = Cardinality(todo[u]) - 1
    BY <2>1, TodoIsFinite, FS_RemoveElement
  <2>3. Cardinality(todo'[u]) \in Nat
    BY TodoIsFinite, <2>1, FS_CardinalityType, FS_Subset
  <2>4. Rank(u) = 3 + Cardinality(todo[u])
    BY <2>1, RankOf
  <2>5. at'[u] = "commit" => Rank(u)' = 2
    BY NextRankOf
  <2>6. at'[u] = "player" => Rank(u)' = 3 + Cardinality(todo'[u])
    BY NextRankOf
  <2>7. PICK c \in Nat : c = Cardinality(todo[u])
    BY <1>c
  <2>8. PICK d \in Nat : d = Cardinality(todo'[u])
    BY <2>3
  <2> QED BY <2>1, <2>2, <2>4, <2>5, <2>6, <2>7, <2>8
<1>15. CASE InsertText(u)
  <2>1. at[u] = "textChat" /\ at'[u] = "textRow"
    BY <1>b, <1>15 DEF InsertText
  <2> QED BY <2>1, RankOf, NextRankOf
<1>16. CASE TextInserted(u) \/ PickText(u)
  <2>1. at[u] \in {"textRow", "pick"} /\ at'[u] = "touchRow"
    BY <1>b, <1>16 DEF TextInserted, StatementEnds, PickText
  <2> QED BY <2>1, RankOf, NextRankOf
<1>17. CASE Touch(u)
  <2>1. at[u] = "touchRow" /\ at'[u] = "touchChat"
    BY <1>b, <1>17 DEF Touch
  <2> QED BY <2>1, RankOf, NextRankOf
<1>18. CASE Touched(u) \/ Commit(u)
  <2>1. at[u] \in {"touchChat", "commit"} /\ at'[u] = "reply"
    BY <1>b, <1>18 DEF Touched, StatementEnds, Commit
  <2> QED BY <2>1, RankOf, NextRankOf
<1>19. CASE CommitFails(u)
  <2>1. at[u] = "commit" /\ at'[u] \in {"reply", "end"}
    BY <1>b, <1>19 DEF CommitFails
  <2> QED BY <2>1, RankOf, NextRankOf
<1>20. CASE ReadLastTime(u)
  <2>1. at[u] = "hot" /\ at'[u] \in {"refuse", "end"}
    BY <1>b, <1>20 DEF ReadLastTime, End
  <2> QED BY <2>1, RankOf, NextRankOf
<1>21. CASE \/ NoTextYet(u) \/ SerializationFails(u) \/ DeadlockFails(u) \/ StatementFails(u)
            \/ Panic(u) \/ Refuse(u) \/ Announce(u)
  <2>1. at'[u] = "end"
    BY <1>b, <1>21, EndingSteps DEF Ending, Ends, End
  <2>2. DeadlockFails(u) => at[u] \in Waiting
    BY DEF DeadlockFails, InCircle, Blocked
  <2>3. at[u] # "end"
    BY <1>21, <2>2 DEF NoTextYet, SerializationFails, StatementFails, Panic, Refuse, Announce,
                        Waiting, Registering, Texts
  <2> QED BY <2>1, <2>3, EndingFalls
<1> QED BY <1>1, <1>2, <1>3, <1>4, <1>5, <1>6, <1>7, <1>8, <1>9, <1>10, <1>11, <1>12, <1>13, <1>14, <1>15, <1>16, <1>17, <1>18, <1>19, <1>20, <1>21 DEF Step, Handle

(* An update never has to start over: whatever the others do, each of its   *)
(* own steps brings it nearer to its end, so none takes more than fifteen   *)
(* steps and one for each player of its game.                               *)
RankFalls == [][\A u \in Updates : Rank(u)' <= Rank(u) /\ (Step(u) => Rank(u)' < Rank(u))]_vars

THEOREM StepsRunOut ==
    Spec => /\ [](\A u \in Updates : Rank(u) \in 0..(MaxPlayers + 15))
            /\ RankFalls
<1> DEFINE RankInv == IInv /\ \A u \in Updates : Rank(u) <= MaxPlayers + 15
<1>a. MaxPlayers \in Nat
  BY NumbersAssumption
<1>1. Init => RankInv
  <2> SUFFICES ASSUME Init, NEW u \in Updates PROVE IInv /\ Rank(u) <= MaxPlayers + 15
    BY InitInv
  <2>1. at[u] = "new"
    BY DEF Init
  <2>2. Rank(u) = MaxPlayers + 15
    BY <2>1, RankOf
  <2> QED BY <1>a, <2>2, InitInv
<1>2. RankInv /\ [Next]_vars
        => \A u \in Updates : Rank(u)' <= Rank(u) /\ (Step(u) => Rank(u)' < Rank(u))
  <2> SUFFICES ASSUME IInv, [Next]_vars, NEW u \in Updates
               PROVE  Rank(u)' <= Rank(u) /\ (Step(u) => Rank(u)' < Rank(u))
    OBVIOUS
  <2>1. TypeOK /\ TypeOK' /\ Shape(u) /\ \A v \in Updates : Shape(v)
    BY NextInv DEF IInv, Proper
  <2>2. Rank(u) \in Nat /\ Rank(u)' \in Nat
    <3>1. TypeOK' => RanksAreNat'
      BY RankIsNat, PTL
    <3> QED BY <2>1, <3>1, RankIsNat DEF RanksAreNat
  <2>3. Step(u) => Rank(u)' < Rank(u)
    BY <2>1, OwnFalls
  <2>4. ASSUME NEW v \in Updates, v # u, Step(v) PROVE Rank(u)' = Rank(u)
    <3>1. Untouched(u)
      BY <2>1, <2>4, LocalStep DEF Local
    <3> QED BY <3>1, RankStays DEF Untouched
  <2>5. CASE Tick \/ UNCHANGED vars
    <3>1. UNCHANGED <<at, left, todo>>
      BY <2>5 DEF Tick, vars, drawn
    <3> QED BY <2>2, <2>3, <3>1, RankStays
  <2>6. CASE \E v \in Updates : Step(v)
    BY <2>2, <2>3, <2>4, <2>6
  <2> QED BY <2>5, <2>6 DEF Next, Step
<1>3. RankInv /\ [Next]_vars => RankInv'
  <2> SUFFICES ASSUME RankInv, [Next]_vars, NEW u \in Updates
               PROVE  Rank(u)' <= MaxPlayers + 15
    BY NextInv
  <2>1. Rank(u) \in Nat /\ Rank(u)' \in Nat
    <3>1. TypeOK /\ TypeOK'
      BY NextInv DEF IInv
    <3>2. TypeOK' => RanksAreNat'
      BY RankIsNat, PTL
    <3> QED BY <3>1, <3>2, RankIsNat DEF RanksAreNat
  <2> QED BY <1>2, <1>a, <2>1
<1>4. RankInv => \A u \in Updates : Rank(u) \in 0..(MaxPlayers + 15)
  <2>1. IInv => TypeOK
    BY DEF IInv
  <2> QED BY <1>a, <2>1, RankIsNat DEF RanksAreNat
<1> HIDE DEF RankInv
<1> QED BY <1>1, <1>2, <1>3, <1>4, PTL DEF Spec, RankFalls

(* The guards of Handle(u), taken together: the handler of u can go on.     *)
Resting == {"user", "begin", "first", "size", "few", "hot", "refuse", "commit", "pick", "reply"}
GoesOn(u) ==
    \/ at[u] \in Resting
    \/ /\ at[u] \in Waiting /\ Free(u, Wanted(u))
       /\ \/ ~Conflict(u, Wanted(u))
          \/ at[u] \in Registering \cup Texts
          \/ at[u] \in {"toRow", "player"} /\ owner[Wanted(u)] = u
    \/ at[u] \in Waiting /\ owner[Wanted(u)] # u /\ Conflict(u, Wanted(u))

Unfinished(u) == at[u] \notin {"new", "end"}

(* While an update that has arrived is not over, the handler of one can go  *)
(* on or a circle of updates that wait for each other is there for the      *)
(* database to break.  The rows are locked in opposite orders, and nothing  *)
(* but such a circle ever comes of it: nobody waits for a row left locked   *)
(* by an update that is over, and no handler waits for itself.              *)
NobodyStuck == (\E u \in Updates : Unfinished(u)) => \E u \in Updates : GoesOn(u) \/ InCircle(u)

(* The first rows that a single statement and a game write are not theirs   *)
(* before.                                                                  *)
NotYet(u) ==
    /\ at[u] = "byChat" => owner[Chat] # u
    /\ at[u] = "loser" => \A x \in Users : owner[x] # u
Fresh == \A u \in Updates : NotYet(u)

LEMMA FreshStep == IInv /\ Fresh /\ [Next]_vars => Fresh'
<1> SUFFICES ASSUME IInv, Fresh, [Next]_vars, NEW v \in Updates PROVE NotYet(v)'
  BY DEF Fresh
<1>0. TypeOK /\ NotYet(v) /\ Held(v)
  BY DEF IInv, Proper, Fresh
<1>1. CASE Tick \/ UNCHANGED vars
  BY <1>0, <1>1 DEF Tick, vars, NotYet
<1>2. ASSUME NEW u \in Updates, u # v, Step(u) PROVE NotYet(v)'
  <2>1. LockStep(u) /\ at'[v] = at[v]
    BY <1>0, <1>2, LocalStep DEF Local, Untouched
  <2>2. \A r \in Rows : owner'[r] = v <=> owner[r] = v
    BY <1>0, <1>2, <2>1, Locks
  <2> QED BY <1>0, <2>1, <2>2 DEF NotYet, Rows
<1>3. CASE Step(v)
  <2>1. at \in [Updates -> Places] /\ owner \in [Rows -> Updates \cup {None}]
    BY <1>0 DEF TypeOK
  <2>2. CASE at'[v] = "byChat"
    <3>1. /\ at[v] = "byRow" /\ By(v) \in Users
          /\ owner' = [owner EXCEPT ![By(v)] = v]
      <4>1. UpdateBy(v)
        BY <1>3, <2>1, <2>2, EndingSteps DEF Step, Handle, Ending, Ends, End, Goto, Arrive, RegisterChat, RegisterUser,
            GetUser, Begin, Try, TriggerChat, UpdateTo, StartGame, PickPlayers, TooFew, RecordLose,
            RecordPlayer, InsertText, TextInserted, StatementEnds, PickText, Touch, Touched, Commit,
            ReadLastTime, CommitFails, PageFails
      <4> QED BY <1>0, <2>1, <2>2, <4>1, Asked DEF UpdateBy, Goto, Lock
    <3>2. owner[Chat] # v
      BY <1>0, <3>1 DEF Held, Holding, Drafting, Rows
    <3> QED BY <2>2, <3>1, <3>2, UsersAssumption DEF NotYet
  <2>3. CASE at'[v] = "loser"
    <3>1. at[v] = "size" /\ owner' = owner
      <4>1. PickPlayers(v)
        BY <1>3, <2>1, <2>3, EndingSteps DEF Step, Handle, Ending, Ends, End, Goto, Arrive, RegisterChat, RegisterUser,
            GetUser, Begin, Try, UpdateBy, TriggerChat, UpdateTo, StartGame, TooFew, RecordLose,
            RecordPlayer, InsertText, TextInserted, StatementEnds, PickText, Touch, Touched, Commit,
            ReadLastTime, CommitFails, PageFails
      <4> QED BY <4>1 DEF PickPlayers
    <3>2. \A x \in Users : owner[x] # v
      BY <1>0, <3>1, UsersAssumption DEF Held, Rows
    <3> QED BY <2>3, <3>1, <3>2 DEF NotYet
  <2> QED BY <2>2, <2>3 DEF NotYet
<1> QED BY <1>1, <1>2, <1>3 DEF Next, Step

LEMMA FreshInvariance == Spec => []Fresh
<1>1. Init => Fresh
  BY DEF Init, Fresh, NotYet
<1> QED BY <1>1, FreshStep, Invariance, PTL DEF Spec

(* An update that is not over and cannot go on waits for another that is    *)
(* not over.                                                                *)
LEMMA WaitsForAnother ==
    ASSUME IInv, Fresh, NEW u \in Updates, Unfinished(u), ~GoesOn(u)
    PROVE  Blocked(u) /\ Blocker(u) \in Updates \ {u} /\ Unfinished(Blocker(u))
<1>0. TypeOK /\ Shape(u) /\ Held(u) /\ NotYet(u) /\ \A v \in Updates : Held(v)
  BY DEF IInv, Proper, Fresh
<1>1. at[u] \in Places
  BY <1>0 DEF TypeOK
<1>2. at[u] \in Waiting
  BY <1>1 DEF Unfinished, GoesOn, Resting, Places, InSnapshot, Waiting
<1>3. Wanted(u) \in Rows
  <2>1. at[u] = "regRow" => Head(left[u]) \in Users
    BY <1>0 DEF TypeOK, Shape, Registering
  <2>2. at[u] = "toRow" => To(u) \in Users
    BY <1>0, Asked DEF Shape
  <2>3. at[u] = "loser" => loser[u] \in Users
    BY <1>0 DEF TypeOK, Shape
  <2>4. at[u] = "player" => next[u] \in Users
    BY <1>0 DEF TypeOK, Shape
  <2>5. By(u) \in Users
    BY <1>0, Asked
  <2> QED BY <1>2, <2>1, <2>2, <2>3, <2>4, <2>5 DEF Wanted, Waiting, Registering, Texts, Rows
<1>4. owner[Wanted(u)] = u => at[u] \in {"regRow", "textRow", "touchChat", "toRow", "player"}
  <2>1. at[u] \notin Holding => owner[Wanted(u)] # u
    BY <1>0, <1>3 DEF Held
  <2>2. at[u] = "byChat" => Wanted(u) = Chat
    BY DEF Wanted
  <2>3. at[u] = "loser" => Wanted(u) = loser[u] /\ loser[u] \in Users
    BY <1>0 DEF Wanted, TypeOK, Shape
  <2> QED BY <1>0, <1>2, <2>1, <2>2, <2>3 DEF NotYet, Waiting, Registering, Texts, Holding, Drafting
<1>5. owner[Wanted(u)] # u
  <2>1. owner[Wanted(u)] = u => Free(u, Wanted(u))
    BY DEF Free
  <2> QED BY <1>2, <1>4, <2>1 DEF GoesOn, Registering, Texts
<1>6. ~Conflict(u, Wanted(u))
  BY <1>2, <1>5 DEF GoesOn
<1>7. ~Free(u, Wanted(u))
  BY <1>2, <1>6 DEF GoesOn
<1>8. Blocker(u) \in Updates \ {u}
  BY <1>0, <1>3, <1>7 DEF Free, Blocker, TypeOK
<1>9. at[Blocker(u)] \in Holding
  BY <1>0, <1>3, <1>8 DEF Held, Blocker
<1> QED BY <1>2, <1>6, <1>7, <1>8, <1>9 DEF Blocked, Unfinished, Holding, Drafting

(* In a finite set closed under Blocker there is a circle: a least closed   *)
(* set that is not empty.                                                   *)
LEMMA LeastClosed ==
    ASSUME NEW S, NEW f \in [S -> S], IsFiniteSet(S), S # {}, \A v \in S : f[v] # v
    PROVE  \E D \in SUBSET S : /\ D # {} /\ \A v \in D : f[v] \in D
                               /\ \A v \in D : \E w \in D : f[w] = v
<1> DEFINE Closed == {D \in SUBSET S : D # {} /\ \A v \in D : f[v] \in D}
<1>1. S \in Closed
  OBVIOUS
<1>2. PICK D \in Closed : \A E \in Closed : ~(<<E, D>> \in StrictSubsetOrdering(S))
  <2>1. IsWellFoundedOn(StrictSubsetOrdering(S), SUBSET S)
    BY FS_StrictSubsetOrderingWellFounded, FS_FiniteSubsetsOfFinite
  <2>2. Closed \subseteq SUBSET S
    OBVIOUS
  <2> HIDE DEF Closed
  <2> QED BY <1>1, <2>1, <2>2, WFMin
<1>3. ASSUME NEW v \in D, \A w \in D : f[w] # v PROVE FALSE
  <2>1. f[v] \in D \ {v}
    OBVIOUS
  <2>2. D \ {v} \in Closed
    BY <1>3, <2>1
  <2>3. <<D \ {v}, D>> \in StrictSubsetOrdering(S)
    BY DEF StrictSubsetOrdering
  <2> QED BY <1>2, <2>2, <2>3
<1> QED BY <1>3

THEOREM SomebodyGoesOn == Spec => []NobodyStuck
<1>1. IInv /\ Fresh => NobodyStuck
  <2> SUFFICES ASSUME IInv, Fresh, \E u \in Updates : Unfinished(u), \A u \in Updates : ~GoesOn(u)
               PROVE  \E u \in Updates : InCircle(u)
    BY DEF NobodyStuck
  <2> DEFINE S == {u \in Updates : Unfinished(u)}
             f == [u \in S |-> Blocker(u)]
  <2>1. IsFiniteSet(S)
    BY UsersAssumption, FS_Subset
  <2>2. \A v \in S : f[v] = Blocker(v) /\ f[v] \in S \ {v} /\ Blocked(v)
    BY WaitsForAnother
  <2>3. S # {} /\ S \subseteq Updates
    OBVIOUS
  <2> HIDE DEF S, f
  <2>4. PICK D \in SUBSET S : /\ D # {} /\ \A v \in D : f[v] \in D
                              /\ \A v \in D : \E w \in D : f[w] = v
    <3>1. f \in [S -> S] /\ \A v \in S : f[v] # v
      BY <2>2 DEF f
    <3>2. S # {}
      BY <2>3
    <3> QED BY <2>1, <3>1, <3>2, LeastClosed
  <2>5. PICK u \in D : TRUE
    BY <2>4
  <2>6. /\ D \in SUBSET Updates /\ \A v \in D : Blocked(v) /\ Blocker(v) \in D
        /\ \A v \in D : \E w \in D : Blocker(w) = v
    BY <2>2, <2>3, <2>4
  <2>7. InCircle(u)
    BY <2>5, <2>6 DEF InCircle
  <2> QED BY <2>3, <2>4, <2>5, <2>7
<1> QED BY <1>1, Invariance, FreshInvariance, PTL
===============================================================================
