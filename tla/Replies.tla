-------------------------------- MODULE Replies --------------------------------
(***************************************************************************)
(* The way of a command's reply: admission of an update by the back        *)
(* pressure of UserFilterWrapper, the handler and its EnqueueMessage, the  *)
(* reply queue with its single sender goroutine, and the drain that        *)
(* follows a shutdown (internal/bot/workers/queue.go).  The drain waits    *)
(* for the listener of the broadcast queue too, so that goroutine is here  *)
(* as well, with its places and without its tasks (they are Broadcast's).  *)
(*                                                                         *)
(* telego runs one goroutine per update; at[u] is where it stands.  The    *)
(* n-th reply of update u is the message <<u, n>>.                         *)
(***************************************************************************)
EXTENDS Integers, Sequences, FiniteSets

CONSTANTS Updates,      \* updates that passed the rate limit
          MaxReplies,   \* replies a handler gives, at most 2 in the code
          QueueCap,     \* capacity of SenderChannel, 1000 in the code
          MaxPolls,     \* polls of 100 ms until the 30 s of an update are over
          MaxAttempts,  \* sends tried per message, 3 in the code
          NoMessage     \* no message at the sender

ASSUME UpdatesAssumption == IsFiniteSet(Updates)
ASSUME LimitsAssumption ==
    /\ MaxReplies \in Nat \ {0} /\ QueueCap \in Nat \ {0}
    /\ MaxPolls \in Nat \ {0} /\ MaxAttempts \in Nat \ {0}
ASSUME NoMessageAssumption == NoMessage \notin Updates \X (1..MaxReplies)

VARIABLES
    at,          \* at[u]: where the goroutine of update u stands
    polls,       \* polls[u]: polls that found the queue full
    given,       \* given[u]: replies the handler has asked to enqueue
    queue,       \* SenderChannel
    spc,         \* where the sender goroutine stands
    smsg,        \* the message it took
    attempt,     \* sends tried for it
    bpc,         \* where the broadcast listener stands
    cancelled,   \* the application's context, and so every update's, is done
    drained,     \* gracefulShutdownQueues has returned
    fate         \* history: fate[m], what became of message m

senderVars == <<spc, smsg, attempt>>
vars == <<at, polls, given, queue, senderVars, bpc, cancelled, drained, fate>>

Messages == Updates \X (1..MaxReplies)
Fates == {"none", "offered", "queued", "sent", "failed", "refused", "timeout", "dropped"}

Init ==
    /\ at = [u \in Updates |-> "new"]
    /\ polls = [u \in Updates |-> 0]
    /\ given = [u \in Updates |-> 0]
    /\ queue = <<>>
    /\ spc = "idle"
    /\ smsg = NoMessage
    /\ attempt = 0
    /\ bpc = "idle"
    /\ cancelled = FALSE
    /\ drained = FALSE
    /\ fate = [m \in Messages |-> "none"]

Goto(u, place) == at' = [at EXCEPT ![u] = place]
Becomes(m, f) == fate' = [fate EXCEPT ![m] = f]

-------------------------------------------------------------------------------
(* The back pressure loop of UserFilterWrapper.                             *)

Arrive(u) ==
    /\ at[u] = "new"
    /\ Goto(u, "poll")
    /\ UNCHANGED <<polls, given, queue, senderVars, bpc, cancelled, drained, fate>>

(* The length is read, not reserved: the queue may be full again by the     *)
(* time the handler has a reply.                                            *)
Admit(u) ==
    /\ at[u] = "poll"
    /\ ~cancelled /\ polls[u] < MaxPolls
    /\ Len(queue) < QueueCap
    /\ Goto(u, "handler")
    /\ UNCHANGED <<polls, given, queue, senderVars, bpc, cancelled, drained, fate>>

Wait(u) ==
    /\ at[u] = "poll"
    /\ ~cancelled /\ polls[u] < MaxPolls
    /\ Len(queue) = QueueCap
    /\ polls' = [polls EXCEPT ![u] = @ + 1]
    /\ UNCHANGED <<at, given, queue, senderVars, bpc, cancelled, drained, fate>>

(* 30 seconds are over, or the bot stops. *)
TurnAway(u) ==
    /\ at[u] = "poll"
    /\ cancelled \/ polls[u] = MaxPolls
    /\ Goto(u, "away")
    /\ UNCHANGED <<polls, given, queue, senderVars, bpc, cancelled, drained, fate>>

-------------------------------------------------------------------------------
(* The handler.                                                             *)

Reply(u) ==
    /\ at[u] = "handler"
    /\ given[u] < MaxReplies
    /\ given' = [given EXCEPT ![u] = @ + 1]
    /\ Becomes(<<u, given[u] + 1>>, "offered")
    /\ Goto(u, "enqueue")
    /\ UNCHANGED <<polls, queue, senderVars, bpc, cancelled, drained>>

Return(u) ==
    /\ at[u] = "handler"
    /\ Goto(u, "done")
    /\ UNCHANGED <<polls, given, queue, senderVars, bpc, cancelled, drained, fate>>

EnqueueWithoutReturn(u) ==                                         \* mutant
    /\ at[u] = "enqueue"
    /\ Len(queue) < QueueCap
    /\ queue' = Append(queue, <<u, given[u]>>)
    /\ Becomes(<<u, given[u]>>, "queued")
    /\ UNCHANGED <<at, polls, given, senderVars, bpc, cancelled, drained>>

(* EnqueueMessage: its select takes any case that is ready, so a message    *)
(* may still enter the queue after the cancellation.                        *)
EnqueueMessage(u) ==
    /\ at[u] = "enqueue"
    /\ Len(queue) < QueueCap
    /\ queue' = Append(queue, <<u, given[u]>>)
    /\ Becomes(<<u, given[u]>>, "queued")
    /\ Goto(u, "handler")
    /\ UNCHANGED <<polls, given, senderVars, bpc, cancelled, drained>>

EnqueueInterrupted(u) ==
    /\ at[u] = "enqueue"
    /\ cancelled
    /\ Becomes(<<u, given[u]>>, "dropped")
    /\ Goto(u, "handler")
    /\ UNCHANGED <<polls, given, queue, senderVars, bpc, cancelled, drained>>

EnqueueHangs(u) == at[u] = "enqueue" /\ Len(queue) = QueueCap /\ UNCHANGED vars  \* mutant

EnqueueTriesOnce(u) ==                                             \* mutant
    /\ at[u] = "enqueue"
    /\ Becomes(<<u, given[u]>>, "timeout")
    /\ Goto(u, "handler")
    /\ UNCHANGED <<polls, given, queue, senderVars, bpc, cancelled, drained>>

(* The queue stayed full for 60 seconds. *)
EnqueueTimesOut(u) ==
    /\ at[u] = "enqueue"
    /\ Len(queue) = QueueCap
    /\ Becomes(<<u, given[u]>>, "timeout")
    /\ Goto(u, "handler")
    /\ UNCHANGED <<polls, given, queue, senderVars, bpc, cancelled, drained>>

-------------------------------------------------------------------------------
(* ListenIncomingMessages: the sender goroutine.                            *)

TakeMessage ==
    /\ spc = "idle"
    /\ queue # <<>>
    /\ smsg' = Head(queue)
    /\ queue' = Tail(queue)
    /\ spc' = "limit"
    /\ UNCHANGED <<at, polls, given, attempt, bpc, cancelled, drained, fate>>

LimiterGrants ==
    /\ spc = "limit"
    /\ ~cancelled
    /\ spc' = "send"
    /\ UNCHANGED <<at, polls, given, queue, smsg, attempt, bpc, cancelled, drained, fate>>

(* The sender is done with its message, whose fate is f. *)
Settle(f) ==
    /\ Becomes(smsg, f)
    /\ spc' = "idle"
    /\ smsg' = NoMessage
    /\ attempt' = 0
    /\ UNCHANGED <<at, polls, given, queue, bpc, cancelled, drained>>

LimiterRetries == spc = "limit" /\ cancelled /\ UNCHANGED vars     \* mutant

LimiterInterrupted ==
    /\ spc = "limit"
    /\ cancelled
    /\ Settle("dropped")

SendSucceeds == spc = "send" /\ ~cancelled /\ Settle("sent")

(* 403: no further attempt. *)
SendRefused == spc = "send" /\ ~cancelled /\ Settle("refused")

SendFailsRequeues ==                                               \* mutant
    /\ spc = "send"
    /\ Len(queue) < QueueCap
    /\ queue' = Append(queue, smsg)
    /\ Becomes(smsg, "queued")
    /\ spc' = "idle" /\ smsg' = NoMessage /\ attempt' = 0
    /\ UNCHANGED <<at, polls, given, bpc, cancelled, drained>>

SendFailsUncounted == spc = "send" /\ UNCHANGED vars               \* mutant

(* A flood wait or any other error uses up an attempt. *)
SendFails ==
    /\ spc = "send"
    /\ IF attempt + 1 < MaxAttempts
         THEN /\ attempt' = attempt + 1
              /\ UNCHANGED <<at, polls, given, queue, spc, smsg, bpc, cancelled, drained, fate>>
         ELSE Settle("failed")

SenderExit ==
    /\ spc = "idle"
    /\ cancelled
    /\ spc' = "exited"
    /\ UNCHANGED <<at, polls, given, queue, smsg, attempt, bpc, cancelled, drained, fate>>

-------------------------------------------------------------------------------
(* ListenBroadcastTasks: the other listener of the wait group.  Its tasks   *)
(* come from batches, at any time; after the cancellation its select may    *)
(* still pick a task before it picks the end.                               *)

Broadcasts(from, to) ==
    /\ bpc = from
    /\ bpc' = to
    /\ UNCHANGED <<at, polls, given, queue, senderVars, cancelled, drained, fate>>

BroadcastTakes == Broadcasts("idle", "limit")
BroadcastGranted == ~cancelled /\ Broadcasts("limit", "send")
BroadcastInterrupted == cancelled /\ Broadcasts("limit", "idle")

(* Sent, refused or given up: every way ends at the feedback channel, which *)
(* has no buffer and no second case beside it.                              *)
BroadcastSent == Broadcasts("send", "feedback")

(* The batch, if it still is there, takes the feedback. *)
BroadcastAnswered == Broadcasts("feedback", "idle")

BroadcastExit == cancelled /\ Broadcasts("idle", "exited")

-------------------------------------------------------------------------------
(* Shutdown.                                                                *)

Shutdown ==
    /\ ~cancelled
    /\ cancelled' = TRUE
    /\ UNCHANGED <<at, polls, given, queue, senderVars, bpc, drained, fate>>

(* wg.Wait: both listeners have returned. *)
ListenersGone == spc = "exited" /\ bpc = "exited"

(* The drain empties the broadcast channel as well, of tasks that are not   *)
(* modelled here.                                                           *)
DrainOne ==
    /\ ListenersGone /\ ~drained
    /\ queue # <<>>
    /\ queue' = Tail(queue)
    /\ Becomes(Head(queue), "dropped")
    /\ UNCHANGED <<at, polls, given, senderVars, bpc, cancelled, drained>>

DrainDone ==
    /\ ListenersGone /\ ~drained
    /\ queue = <<>>
    /\ drained' = TRUE
    /\ UNCHANGED <<at, polls, given, queue, senderVars, bpc, cancelled, fate>>

-------------------------------------------------------------------------------
Handling(u) ==
    \/ Admit(u) \/ Wait(u) \/ TurnAway(u)
    \/ Reply(u) \/ Return(u)
    \/ EnqueueMessage(u) \/ EnqueueInterrupted(u) \/ EnqueueTimesOut(u)

Sending ==
    \/ TakeMessage \/ LimiterGrants \/ LimiterInterrupted
    \/ SendSucceeds \/ SendRefused \/ SendFails \/ SenderExit

Listening == BroadcastGranted \/ BroadcastInterrupted \/ BroadcastSent

Next ==
    \/ \E u \in Updates : Arrive(u) \/ Handling(u)
    \/ Sending
    \/ BroadcastTakes \/ Listening \/ BroadcastAnswered \/ BroadcastExit
    \/ Shutdown \/ DrainOne \/ DrainDone

Spec == Init /\ [][Next]_vars

(* Go runs every goroutine that can take a step, but a call to Telegram may *)
(* hold the sender for ever: HandlersFairSpec assumes nothing of it, and a  *)
(* property that needs the sender, or the listener beside it, says so.  A   *)
(* select picks any of its ready cases at random, so the listener does not  *)
(* pick tasks for ever when it could end (SF).  Whether a batch takes a     *)
(* feedback is never assumed.                                               *)
HandlersFairSpec == Spec /\ \A u \in Updates : WF_vars(Handling(u))
SenderFair == WF_vars(Sending)
ListenersFair ==
    /\ SenderFair /\ WF_vars(Listening) /\ SF_vars(BroadcastExit)
    /\ WF_vars(DrainOne \/ DrainDone)

-------------------------------------------------------------------------------
(* Properties.                                                              *)

Places == {"new", "poll", "handler", "enqueue", "done", "away"}
TypeOK ==
    /\ at \in [Updates -> Places]
    /\ polls \in [Updates -> 0..MaxPolls]
    /\ given \in [Updates -> 0..MaxReplies]
    /\ queue \in Seq(Messages) /\ Len(queue) <= QueueCap
    /\ spc \in {"idle", "limit", "send", "exited"}
    /\ smsg \in Messages \cup {NoMessage}
    /\ attempt \in 0..(MaxAttempts - 1)
    /\ bpc \in {"idle", "limit", "send", "feedback", "exited"}
    /\ cancelled \in BOOLEAN /\ drained \in BOOLEAN
    /\ fate \in [Messages -> Fates]

(* A reply that was enqueued and not settled is in the queue or at the      *)
(* sender, in one place only: none is sent twice and none is forgotten,     *)
(* whatever handlers, sender and drain do at a shutdown.                    *)
Queued(m) == \E i \in 1..Len(queue) : queue[i] = m
OneMessageEach ==
    /\ \A i, j \in 1..Len(queue) : queue[i] = queue[j] => i = j
    /\ \A m \in Messages :
         /\ ~(smsg = m /\ Queued(m))
         /\ fate[m] = "queued" <=> smsg = m \/ Queued(m)

(* The replies of one command reach Telegram in the order the handler gave  *)
(* them: no reply is tried while an earlier one is still on its way.        *)
Before(m, n) == m[1] = n[1] /\ m[2] < n[2]
Tried == {"sent", "refused", "failed"}
InOrder ==
    \A m, n \in Messages :
        Before(m, n) /\ (smsg = n \/ fate[n] \in Tried) => fate[m] \notin {"none", "offered", "queued"}

(* While the queue has room for every reply of the updates that arrived     *)
(* none is lost before a shutdown, and no update is turned away.            *)
RoomForAll == Cardinality({u \in Updates : at[u] # "new"}) * MaxReplies <= QueueCap
LostByShutdownOnly ==
    RoomForAll /\ ~cancelled =>
        /\ \A m \in Messages : fate[m] \notin {"timeout", "dropped"}
        /\ \A u \in Updates : at[u] # "away"

(* A handler never waits for the queue after its 60 seconds, an update      *)
(* never after its 30: each ends, also when the sender is gone.             *)
UpdateEnds == \A u \in Updates : at[u] = "poll" ~> at[u] \in {"done", "away"}

(* A broadcast's feedback that no batch takes. *)
FeedbackLeft == bpc = "feedback"

(* With a Telegram that answers a reply in the queue is settled, or the bot *)
(* has stopped; only a feedback left at a shutdown can leave replies behind *)
(* in the queue,                                                            *)
ReplySettles ==
    ListenersFair =>
        \A m \in Messages :
            fate[m] = "queued" ~> fate[m] # "queued" \/ drained \/ (cancelled /\ []FeedbackLeft)

(* and nothing but such a feedback holds a shutdown: neither the reply      *)
(* queue nor the handlers that still fill it.                               *)
RepliesDrain == ListenersFair => (cancelled ~> drained \/ []FeedbackLeft)
===============================================================================
