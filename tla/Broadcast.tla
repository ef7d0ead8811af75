------------------------------- MODULE Broadcast -------------------------------
(***************************************************************************)
(* The broadcast pipeline: the /broadcast handler, the BatchWorker         *)
(* goroutines (internal/bot/workers/anouncement_sender.go), the broadcast  *)
(* queue with its single sender goroutine (internal/bot/workers/queue.go)  *)
(* and the chats table they read and write.                                *)
(*                                                                         *)
(*   handler --notify--> listen --go--> sendNewBatch --queue--> sender     *)
(*                                          ^------ feedback ------+       *)
(*                                                                         *)
(* One goroutine runs sendNewBatch per batch; pc[b] is where it stands.    *)
(* The feedback channel of a batch is unbuffered: a feedback is one step   *)
(* of both the sender and the batch.                                       *)
(*                                                                         *)
(* A definition marked "mutant" is no part of the model: it is a plausible *)
(* bug in the definition below it, used to see a property fail.            *)
(***************************************************************************)
EXTENDS Integers, Sequences, FiniteSets

CONSTANTS Chats,        \* primary keys of the chats the broadcast query knows
          Batches,      \* uses of the /broadcast command
          PageSize,     \* batchIterationSize, 100 in the code
          QueueCap,     \* capacity of BroadcastChannel, 1000 in the code
          NotifyCap,    \* capacity of NotifyBroadCasterChannel, 1 in the code
          DeadFlush,    \* dead chats that trigger an early flush, 1000
          MaxAttempts,  \* sends tried per task, 3 in the code
          NoTask        \* no task at the sender

ASSUME ChatsAssumption   == Chats \subseteq Nat \ {0} /\ IsFiniteSet(Chats)
ASSUME BatchesAssumption == IsFiniteSet(Batches)
ASSUME BoundsAssumption  ==
    /\ PageSize \in Nat \ {0} /\ MaxAttempts \in Nat \ {0}
    /\ QueueCap \in Nat \ {0} /\ NotifyCap \in Nat \ {0} /\ DeadFlush \in Nat \ {0}
ASSUME NoTaskAssumption  == NoTask \notin [batch : Batches, chat : Chats]

VARIABLES
    pc,           \* pc[b]: where the handler, then sendNewBatch, stands
    notify,       \* NotifyBroadCasterChannel
    cursor,       \* cursor[b]: cursorId
    page,         \* page[b]: chats of the page not offered yet
    due,          \* due[b]: feedbacks the collecting loop still waits for
    alive,        \* alive[b]: aliveChats
    dead,         \* dead[b]: deadChats
    queue,        \* BroadcastChannel
    wpc,          \* where the sender goroutine stands
    wtask,        \* the task it took
    attempt,      \* sends tried for it
    wresult,      \* the feedback it gives
    active,       \* chats with is_active
    stamped,      \* stamped[b]: chats whose last_sys_message_at b has set
    cancelled,    \* the application's context is cancelled
    listening,    \* the listen goroutine runs
    queuesDown,   \* gracefulShutdownQueues has returned
    batchDown,    \* InitBroadcastWorker has returned
    \* history, read by no action's guard:
    fate,         \* fate[b][c]: what became of b's text for chat c
    retired,      \* retired[b]: chats b has deactivated
    throughout,   \* throughout[b]: chats active ever since b started
    gaveUp        \* gaveUp[b]: a page query of b failed

batchVars   == <<cursor, page, due, alive, dead>>
senderVars  == <<wpc, wtask, attempt, wresult>>
tableVars   == <<active, stamped>>
lifeVars    == <<cancelled, listening, queuesDown, batchDown>>
historyVars == <<fate, retired, throughout, gaveUp>>
exceptPc == <<notify, batchVars, queue, senderVars, tableVars, lifeVars, historyVars>>
vars == <<pc, notify, batchVars, queue, senderVars, tableVars, lifeVars, historyVars>>

Tasks    == [batch : Batches, chat : Chats]
Verdicts == {"alive", "dead", "refused", "cut"}
Fates    == {"none", "pending", "lost"} \cup Verdicts

(* Places of a batch: before its goroutine runs, with a page at hand, between *)
(* two pages, and after its goroutine has ended.                              *)
Waiting  == {"new", "notify", "queued"}
InPage   == {"chat", "limit", "enqueue", "collect"}
Between  == {"query", "stamp", "flush", "final"}
Ended    == {"done", "stopped"}
Running(b) == pc[b] \in InPage \cup Between

First(S) == CHOOSE c \in S : \A d \in S : c <= d
Last(S)  == CHOOSE c \in S : \A d \in S : c >= d

(* The page the broadcast query returns: ORDER BY id LIMIT PageSize of the  *)
(* active chats above the cursor.                                           *)
EligibleFromNextId(b) == {c \in active : c > cursor[b] + 1}        \* mutant
Eligible(b) == {c \in active : c > cursor[b]}
NextPageInclusive(b) ==                                            \* mutant
    {c \in Eligible(b) : Cardinality({d \in Eligible(b) : d < c}) <= PageSize}
NextPage(b) ==
    {c \in Eligible(b) : Cardinality({d \in Eligible(b) : d < c}) < PageSize}

(* Every statement runs under the application's context: once that is       *)
(* cancelled, none gets through.                                            *)
DbUpDetached == TRUE                                               \* mutant
DbUp == ~cancelled

Mark(b, c, f) == fate' = [fate EXCEPT ![b][c] = f]

(* UpdateChatStatusToDead with the deadChats of b. *)
MarkDead(b) ==
    /\ active' = active \ dead[b]
    /\ throughout' = [x \in Batches |-> throughout[x] \ dead[b]]
    /\ retired' = [retired EXCEPT ![b] = @ \cup dead[b]]

-------------------------------------------------------------------------------
Init ==
    /\ pc = [b \in Batches |-> "new"]
    /\ notify = <<>>
    /\ cursor = [b \in Batches |-> 0]
    /\ page = [b \in Batches |-> {}]
    /\ due = [b \in Batches |-> 0]
    /\ alive = [b \in Batches |-> {}]
    /\ dead = [b \in Batches |-> {}]
    /\ queue = <<>>
    /\ wpc = "idle"
    /\ wtask = NoTask
    /\ attempt = 0
    /\ wresult = "none"
    /\ active \in SUBSET Chats
    /\ stamped = [b \in Batches |-> {}]
    /\ cancelled = FALSE
    /\ listening = TRUE
    /\ queuesDown = FALSE
    /\ batchDown = FALSE
    /\ fate = [b \in Batches |-> [c \in Chats |-> "none"]]
    /\ retired = [b \in Batches |-> {}]
    /\ throughout = [b \in Batches |-> {}]
    /\ gaveUp = [b \in Batches |-> FALSE]

-------------------------------------------------------------------------------
(* The /broadcast handler and the listen goroutine.                         *)

AddBatchTask(b) ==
    /\ pc[b] = "new"
    /\ pc' = [pc EXCEPT ![b] = "notify"]
    /\ UNCHANGED exceptPc

(* The handler blocks until the channel has room. *)
NotifySend(b) ==
    /\ pc[b] = "notify"
    /\ Len(notify) < NotifyCap
    /\ notify' = Append(notify, b)
    /\ pc' = [pc EXCEPT ![b] = "queued"]
    /\ UNCHANGED <<batchVars, queue, senderVars, tableVars, lifeVars, historyVars>>

(* Listen starts the goroutine of the batch it received, also after a       *)
(* cancellation: its select does not prefer ctx.Done().                     *)
ListenStart ==
    /\ listening
    /\ notify # <<>>
    /\ LET b == Head(notify) IN
         /\ pc' = [pc EXCEPT ![b] = "query"]
         /\ throughout' = [throughout EXCEPT ![b] = active]
    /\ notify' = Tail(notify)
    /\ UNCHANGED <<batchVars, queue, senderVars, tableVars, lifeVars,
                   fate, retired, gaveUp>>

ListenExit ==
    /\ listening
    /\ cancelled
    /\ listening' = FALSE
    /\ UNCHANGED <<pc, notify, batchVars, queue, senderVars, tableVars,
                   cancelled, queuesDown, batchDown, historyVars>>

-------------------------------------------------------------------------------
(* sendNewBatch.                                                            *)

(* An empty page ends the loop.  A failed query returns no chats either and *)
(* takes the same branch, before its error is looked at.                    *)
QueryEmpty(b) ==
    /\ pc[b] = "query"
    /\ DbUp /\ Eligible(b) = {}
    /\ pc' = [pc EXCEPT ![b] = "final"]
    /\ UNCHANGED exceptPc

QueryFails(b) ==
    /\ pc[b] = "query"
    /\ pc' = [pc EXCEPT ![b] = "final"]
    /\ gaveUp' = [gaveUp EXCEPT ![b] = TRUE]
    /\ UNCHANGED <<notify, batchVars, queue, senderVars, tableVars, lifeVars,
                   fate, retired, throughout>>

FetchPage(b) ==
    /\ pc[b] = "query"
    /\ DbUp /\ Eligible(b) # {}
    /\ page' = [page EXCEPT ![b] = NextPage(b)]
    /\ due' = [due EXCEPT ![b] = Cardinality(NextPage(b))]
    /\ cursor' = [cursor EXCEPT ![b] = Last(NextPage(b))]
    /\ alive' = [alive EXCEPT ![b] = {}]
    /\ pc' = [pc EXCEPT ![b] = "chat"]
    /\ UNCHANGED <<notify, dead, queue, senderVars, tableVars, lifeVars, historyVars>>

(* The head of the loop over the page. *)
NextChat(b) ==
    /\ pc[b] = "chat"
    /\ page[b] # {}
    /\ pc' = [pc EXCEPT ![b] = IF cancelled THEN "stopped" ELSE "limit"]
    /\ UNCHANGED exceptPc

PageOffered(b) ==
    /\ pc[b] = "chat"
    /\ page[b] = {}
    /\ pc' = [pc EXCEPT ![b] = "collect"]
    /\ UNCHANGED exceptPc

LimiterGrants(b) ==
    /\ pc[b] = "limit"
    /\ ~cancelled
    /\ pc' = [pc EXCEPT ![b] = "enqueue"]
    /\ UNCHANGED exceptPc

GiveUpChatUncounted(b) ==                                          \* mutant
    /\ page' = [page EXCEPT ![b] = @ \ {First(@)}]
    /\ due' = [due EXCEPT ![b] = @ - 1]
    /\ Mark(b, First(page[b]), "lost")
    /\ pc' = [pc EXCEPT ![b] = "chat"]
    /\ UNCHANGED <<notify, cursor, alive, dead, queue, senderVars, tableVars,
                   lifeVars, retired, throughout, gaveUp>>

(* The chat at hand leaves the page with no task; it stays counted in due. *)
GiveUpChat(b) ==
    /\ page' = [page EXCEPT ![b] = @ \ {First(@)}]
    /\ Mark(b, First(page[b]), "lost")
    /\ pc' = [pc EXCEPT ![b] = "chat"]
    /\ UNCHANGED <<notify, cursor, due, alive, dead, queue, senderVars, tableVars,
                   lifeVars, retired, throughout, gaveUp>>

LimiterInterrupted(b) ==
    /\ pc[b] = "limit"
    /\ cancelled
    /\ GiveUpChat(b)

EnqueueWithoutReturn(b) ==                                         \* mutant
    /\ pc[b] = "enqueue"
    /\ Len(queue) < QueueCap
    /\ queue' = Append(queue, [batch |-> b, chat |-> First(page[b])])
    /\ Mark(b, First(page[b]), "pending")
    /\ UNCHANGED <<pc, notify, batchVars, senderVars, tableVars,
                   lifeVars, retired, throughout, gaveUp>>

EnqueueBroadcast(b) ==
    /\ pc[b] = "enqueue"
    /\ Len(queue) < QueueCap
    /\ queue' = Append(queue, [batch |-> b, chat |-> First(page[b])])
    /\ page' = [page EXCEPT ![b] = @ \ {First(@)}]
    /\ Mark(b, First(page[b]), "pending")
    /\ pc' = [pc EXCEPT ![b] = "chat"]
    /\ UNCHANGED <<notify, cursor, due, alive, dead, senderVars, tableVars,
                   lifeVars, retired, throughout, gaveUp>>

EnqueueTriesOnce(b) ==                                             \* mutant
    /\ pc[b] = "enqueue"
    /\ GiveUpChat(b)

(* The batch's context is done, or the queue stayed full for 60 seconds. *)
EnqueueDropped(b) ==
    /\ pc[b] = "enqueue"
    /\ cancelled \/ Len(queue) = QueueCap
    /\ GiveUpChat(b)

(* One feedback: the sender's send and the batch's receive. *)
Feedback(b) ==
    /\ pc[b] = "collect" /\ due[b] > 0
    /\ wpc = "feedback" /\ wtask.batch = b
    /\ due' = [due EXCEPT ![b] = @ - 1]
    /\ alive' = [alive EXCEPT ![b] = IF wresult = "alive" THEN @ \cup {wtask.chat} ELSE @]
    /\ dead' = [dead EXCEPT ![b] =
                   IF wresult \in {"dead", "cut"} THEN @ \cup {wtask.chat} ELSE @]
    /\ Mark(b, wtask.chat, wresult)
    /\ wpc' = "idle"
    /\ wtask' = NoTask
    /\ attempt' = 0
    /\ wresult' = "none"
    /\ UNCHANGED <<pc, notify, cursor, page, queue, tableVars, lifeVars,
                   retired, throughout, gaveUp>>

PageCollectedEarly(b) ==                                           \* mutant
    /\ pc[b] = "collect"
    /\ due[b] <= 1
    /\ pc' = [pc EXCEPT ![b] = "stamp"]
    /\ UNCHANGED exceptPc

PageCollectedFlushFirst(b) ==                                      \* mutant
    /\ pc[b] = "collect"
    /\ due[b] = 0
    /\ pc' = [pc EXCEPT ![b] = IF Cardinality(dead[b]) >= DeadFlush THEN "flush" ELSE "stamp"]
    /\ UNCHANGED exceptPc

PageCollected(b) ==
    /\ pc[b] = "collect"
    /\ due[b] = 0
    /\ pc' = [pc EXCEPT ![b] = "stamp"]
    /\ UNCHANGED exceptPc

(* UpdateLastSysTimestamp *)
StampAlive(b) ==
    /\ pc[b] = "stamp"
    /\ DbUp
    /\ stamped' = [stamped EXCEPT ![b] = @ \cup alive[b]]
    /\ pc' = [pc EXCEPT ![b] = IF Cardinality(dead[b]) >= DeadFlush THEN "flush" ELSE "query"]
    /\ UNCHANGED <<notify, batchVars, queue, senderVars, active, lifeVars, historyVars>>

(* An update that fails may have been committed before the connection broke. *)
StampFails(b) ==
    /\ pc[b] = "stamp"
    /\ \/ UNCHANGED stamped
       \/ DbUp /\ stamped' = [stamped EXCEPT ![b] = @ \cup alive[b]]
    /\ pc' = [pc EXCEPT ![b] = "stopped"]
    /\ UNCHANGED <<notify, batchVars, queue, senderVars, active, lifeVars, historyVars>>

FlushDeadNoReset(b) ==                                             \* mutant
    /\ pc[b] = "flush"
    /\ DbUp
    /\ MarkDead(b)
    /\ pc' = [pc EXCEPT ![b] = "query"]
    /\ UNCHANGED <<notify, batchVars, queue, senderVars, stamped, lifeVars, fate, gaveUp>>

FlushDead(b) ==
    /\ pc[b] = "flush"
    /\ DbUp
    /\ MarkDead(b)
    /\ dead' = [dead EXCEPT ![b] = {}]
    /\ pc' = [pc EXCEPT ![b] = "query"]
    /\ UNCHANGED <<notify, cursor, page, due, alive, queue, senderVars, stamped,
                   lifeVars, fate, gaveUp>>

(* The flush after the last page; the batch reports success. *)
FinalFlush(b) ==
    /\ pc[b] = "final"
    /\ \/ dead[b] = {} /\ UNCHANGED <<active, throughout, retired>>
       \/ dead[b] # {} /\ DbUp /\ MarkDead(b)
    /\ pc' = [pc EXCEPT ![b] = "done"]
    /\ UNCHANGED <<notify, batchVars, queue, senderVars, stamped, lifeVars, fate, gaveUp>>

FlushFails(b) ==
    /\ \/ pc[b] = "flush"
       \/ pc[b] = "final" /\ dead[b] # {}
    /\ \/ UNCHANGED <<active, throughout, retired>>
       \/ DbUp /\ MarkDead(b)
    /\ pc' = [pc EXCEPT ![b] = "stopped"]
    /\ UNCHANGED <<notify, batchVars, queue, senderVars, stamped, lifeVars, fate, gaveUp>>

-------------------------------------------------------------------------------
(* ListenBroadcastTasks: the sender goroutine.                              *)

(* Its select does not prefer ctx.Done() either. *)
TakeTask ==
    /\ wpc = "idle"
    /\ queue # <<>>
    /\ wtask' = Head(queue)
    /\ queue' = Tail(queue)
    /\ wpc' = "limit"
    /\ UNCHANGED <<pc, notify, batchVars, attempt, wresult, tableVars, lifeVars, historyVars>>

SenderLimiterGrants ==
    /\ wpc = "limit"
    /\ ~cancelled
    /\ wpc' = "send"
    /\ UNCHANGED <<pc, notify, batchVars, queue, wtask, attempt, wresult, tableVars,
                   lifeVars, historyVars>>

SenderLimiterRetries == wpc = "limit" /\ cancelled /\ UNCHANGED vars  \* mutant

(* The task is dropped and its batch never hears of it. *)
SenderLimiterInterrupted ==
    /\ wpc = "limit"
    /\ cancelled
    /\ wpc' = "idle"
    /\ wtask' = NoTask
    /\ Mark(wtask.batch, wtask.chat, "lost")
    /\ UNCHANGED <<pc, notify, batchVars, queue, attempt, wresult, tableVars, lifeVars,
                   retired, throughout, gaveUp>>

SendSettlesSilently ==                                             \* mutant
    /\ wpc = "send"
    /\ \/ wresult' \in {"alive", "dead"} /\ wpc' = "feedback" /\ UNCHANGED <<wtask, attempt>>
       \/ wpc' = "idle" /\ wtask' = NoTask /\ attempt' = 0 /\ UNCHANGED wresult
    /\ UNCHANGED <<pc, notify, batchVars, queue, tableVars, lifeVars, historyVars>>

(* Telegram's answer settles the task: accepted, "not enough rights", 403. *)
SendSettles ==
    /\ wpc = "send"
    /\ wresult' \in {"alive", "refused", "dead"}
    /\ wpc' = "feedback"
    /\ UNCHANGED <<pc, notify, batchVars, queue, wtask, attempt, tableVars, lifeVars, historyVars>>

(* A flood wait (429) or any other error uses up an attempt; an attempt     *)
(* made under a cancelled context cannot do better.                         *)
SendFails ==
    /\ wpc = "send"
    /\ attempt' = attempt + 1
    /\ IF attempt + 1 < MaxAttempts
         THEN UNCHANGED <<wpc, wresult>>
         ELSE /\ wpc' = "feedback"
              /\ wresult' = IF cancelled THEN "cut" ELSE "dead"
    /\ UNCHANGED <<pc, notify, batchVars, queue, wtask, tableVars, lifeVars, historyVars>>

SenderExit ==
    /\ wpc = "idle"
    /\ cancelled
    /\ wpc' = "exited"
    /\ UNCHANGED <<pc, notify, batchVars, queue, wtask, attempt, wresult, tableVars,
                   lifeVars, historyVars>>

-------------------------------------------------------------------------------
(* Shutdown: gracefulShutdownQueues and BatchWorker.start.                  *)

Shutdown ==
    /\ ~cancelled
    /\ cancelled' = TRUE
    /\ UNCHANGED <<pc, notify, batchVars, queue, senderVars, tableVars,
                   listening, queuesDown, batchDown, historyVars>>

DrainOne ==
    /\ wpc = "exited" /\ ~queuesDown
    /\ queue # <<>>
    /\ queue' = Tail(queue)
    /\ Mark(Head(queue).batch, Head(queue).chat, "lost")
    /\ UNCHANGED <<pc, notify, batchVars, senderVars, tableVars, lifeVars,
                   retired, throughout, gaveUp>>

DrainDone ==
    /\ wpc = "exited" /\ ~queuesDown
    /\ queue = <<>>
    /\ queuesDown' = TRUE
    /\ UNCHANGED <<pc, notify, batchVars, queue, senderVars, tableVars,
                   cancelled, listening, batchDown, historyVars>>

(* wg.Wait() returns when no sendNewBatch runs; listen may start one later. *)
StopBatchWorker ==
    /\ cancelled /\ ~batchDown
    /\ \A b \in Batches : ~Running(b)
    /\ batchDown' = TRUE
    /\ UNCHANGED <<pc, notify, batchVars, queue, senderVars, tableVars,
                   cancelled, listening, queuesDown, historyVars>>

(* init_chat_user_data: a command used in a chat makes the chat active. *)
Revive(c) ==
    /\ c \notin active
    /\ active' = active \cup {c}
    /\ UNCHANGED <<pc, notify, batchVars, queue, senderVars, stamped, lifeVars, historyVars>>

-------------------------------------------------------------------------------
BatchStep(b) ==
    \/ QueryEmpty(b) \/ QueryFails(b) \/ FetchPage(b)
    \/ NextChat(b) \/ PageOffered(b)
    \/ LimiterGrants(b) \/ LimiterInterrupted(b)
    \/ EnqueueBroadcast(b) \/ EnqueueDropped(b)
    \/ PageCollected(b)
    \/ StampAlive(b) \/ StampFails(b)
    \/ FlushDead(b) \/ FinalFlush(b) \/ FlushFails(b)

SenderStep ==
    \/ TakeTask \/ SenderLimiterGrants \/ SenderLimiterInterrupted
    \/ SendSettles \/ SendFails \/ SenderExit

Next ==
    \/ \E b \in Batches : AddBatchTask(b) \/ NotifySend(b) \/ BatchStep(b) \/ Feedback(b)
    \/ ListenStart \/ ListenExit
    \/ SenderStep
    \/ Shutdown \/ DrainOne \/ DrainDone \/ StopBatchWorker
    \/ \E c \in Chats : Revive(c)

Spec == Init /\ [][Next]_vars

(* Every goroutine that can take a step takes one; a feedback needs two of  *)
(* them, and each waits for the other.  Commands and shutdowns may never    *)
(* come.                                                                    *)
Fairness ==
    /\ \A b \in Batches : WF_vars(NotifySend(b)) /\ WF_vars(BatchStep(b)) /\ WF_vars(Feedback(b))
    /\ WF_vars(ListenStart \/ ListenExit)
    /\ WF_vars(SenderStep)
    /\ WF_vars(DrainOne \/ DrainDone)
    /\ WF_vars(StopBatchWorker)

FairSpec == Spec /\ Fairness

-------------------------------------------------------------------------------
(* Properties.                                                              *)

TypeOK ==
    /\ pc \in [Batches -> Waiting \cup InPage \cup Between \cup Ended]
    /\ notify \in Seq(Batches)
    /\ cursor \in [Batches -> Nat]
    /\ page \in [Batches -> SUBSET Chats]
    /\ due \in [Batches -> Nat]
    /\ alive \in [Batches -> SUBSET Chats]
    /\ dead \in [Batches -> SUBSET Chats]
    /\ queue \in Seq(Tasks)
    /\ wpc \in {"idle", "limit", "send", "feedback", "exited"}
    /\ wtask \in Tasks \cup {NoTask}
    /\ attempt \in 0..MaxAttempts
    /\ wresult \in Verdicts \cup {"none"}
    /\ active \subseteq Chats
    /\ stamped \in [Batches -> SUBSET Chats]
    /\ cancelled \in BOOLEAN /\ listening \in BOOLEAN
    /\ queuesDown \in BOOLEAN /\ batchDown \in BOOLEAN
    /\ fate \in [Batches -> [Chats -> Fates]]
    /\ retired \in [Batches -> SUBSET Chats]
    /\ throughout \in [Batches -> SUBSET Chats]
    /\ gaveUp \in [Batches -> BOOLEAN]

(* The chats b has offered its text to, by their fate. *)
Fated(b, F) == {c \in Chats : fate[b][c] \in F}
Owed(b) == Fated(b, {"pending", "lost"})

(* A batch waits for exactly the feedbacks it is owed: `for range chats`    *)
(* counts the whole page, the chats whose task was dropped included, and    *)
(* between two pages nothing is owed.                                       *)
PageAccounting ==
    \A b \in Batches :
        /\ pc[b] \in InPage => due[b] = Cardinality(page[b]) + Cardinality(Owed(b))
        /\ pc[b] \notin InPage \cup {"stopped"} => Owed(b) = {}

(* A chat's task is in one place only, and exactly the pending chats have   *)
(* one: no chat is sent the same batch by two tasks, and no pending chat is *)
(* forgotten by the queue, the sender or the drain at a shutdown.           *)
Queued(t) == \E i \in 1..Len(queue) : queue[i] = t
OneTaskEach ==
    /\ \A i, j \in 1..Len(queue) : queue[i] = queue[j] => i = j
    /\ \A t \in Tasks :
         /\ ~(wtask = t /\ Queued(t))
         /\ fate[t.batch][t.chat] = "pending" <=> wtask = t \/ Queued(t)

(* "Successfully complete batch send": every chat the batch tried has its   *)
(* answer, the timestamps of exactly the reached ones are set and exactly   *)
(* the dead ones were deactivated; no answer was forged by a shutdown.      *)
SuccessIsComplete ==
    \A b \in Batches : pc[b] = "done" =>
        /\ Fated(b, {"pending", "lost", "cut"}) = {}
        /\ stamped[b] = Fated(b, {"alive"})
        /\ retired[b] = Fated(b, {"dead"})

(* Cursor paging misses nobody: a batch that reports success and had no     *)
(* failed query offered its text to every chat that was active all along,   *)
(* whatever other batches deactivated and users revived meanwhile.          *)
Coverage ==
    \A b \in Batches : pc[b] = "done" /\ ~gaveUp[b] =>
        throughout[b] \cap Fated(b, {"none"}) = {}

(* Before a shutdown the sender never blocks on a batch that is gone: the   *)
(* batch it has feedback for still has to receive one.                      *)
FeedbackIsAwaited ==
    wpc = "feedback" /\ ~cancelled =>
        pc[wtask.batch] \in InPage /\ due[wtask.batch] > 0

(* While the queue has room for a page of every batch that was requested it *)
(* never stays full for the 60 seconds that drop a task: only a shutdown    *)
(* loses tasks.                                                             *)
RoomForAll == Cardinality({b \in Batches : pc[b] # "new"}) * PageSize <= QueueCap
LostByShutdownOnly ==
    RoomForAll /\ ~cancelled => \A b \in Batches : Fated(b, {"lost"}) = {}

(* A chat is only deactivated on the word of a running batch whose every    *)
(* attempt to reach it failed while the application was up.                 *)
DeactivatedIsDead ==
    [][\A c \in active \ active' :
          \E b \in Batches : Running(b) /\ fate[b][c] = "dead"]_vars

(* The pipeline keeps the promise of a broadcast. *)
Status(b) == IF pc[b] \in Waiting THEN "new"
             ELSE IF pc[b] = "done" THEN "finished"
             ELSE IF pc[b] = "stopped" THEN "aborted" ELSE "running"
Promise == INSTANCE BroadcastPromise WITH status <- [b \in Batches |-> Status(b)]
KeepsPromise == Promise!Spec

(* Every requested batch ends, unless the application shuts down or a full  *)
(* queue dropped one of its tasks, for which it then waits for ever; the    *)
(* sender and the batches wait for each other on the way.                   *)
BatchEnds ==
    \A b \in Batches :
        pc[b] = "notify" ~> pc[b] \in Ended \/ cancelled \/ Fated(b, {"lost"}) # {}

(* What can hold a shutdown is feedback and nothing else.  The queues: the  *)
(* sender has feedback for a batch that returned in the middle of a page.   *)
(* The batch worker: a batch waits for feedback that nobody will give, for  *)
(* a task that was dropped or that a stuck sender will never reach.         *)
SenderStuck == wpc = "feedback" /\ pc[wtask.batch] = "stopped"
Starved(b) == pc[b] = "collect" /\ due[b] > 0 /\ (wpc = "exited" \/ SenderStuck)
OnlyFeedbackHoldsShutdown ==
    /\ cancelled ~> queuesDown \/ SenderStuck
    /\ cancelled ~> batchDown \/ \E b \in Batches : Starved(b)

(* What the code says of itself, and the runs refute.                       *)

(* "Gracefully stopped broadcasts" comes after every shutdown. *)
BroadcastsStop == cancelled ~> batchDown
===============================================================================
