----------------------------- MODULE RepliesProofs ------------------------------
(***************************************************************************)
(* Proofs about Replies for any number of updates and any bounds: no reply *)
(* is duplicated, forgotten or overtaken, and none is lost while there is  *)
(* room in the queue; and that handlers, the sender and the drain run out  *)
(* of steps and wait for nobody for ever.                                  *)
(***************************************************************************)
EXTENDS Replies, FiniteSetTheorems, SequenceTheorems, TLAPS

USE DEF Goto, Becomes, Settle, senderVars

(* What the sender holds at each place. *)
SenderShape ==
    /\ spc \in {"idle", "exited"} <=> smsg = NoMessage
    /\ spc # "send" => attempt = 0

(* A handler's replies are numbered as it gives them; only the last one can *)
(* still be on offer.                                                       *)
HandlerShape ==
    \A m \in Messages :
        /\ fate[m] = "none" <=> m[2] > given[m[1]]
        /\ fate[m] = "offered" <=> at[m[1]] = "enqueue" /\ m[2] = given[m[1]]

GivenShape == \A u \in Updates : at[u] = "enqueue" => given[u] > 0

(* The queue holds the replies of each update in order, and whatever the    *)
(* sender has or had, no earlier reply of the same update waits.            *)
QueueOrder ==
    \A i, j \in 1..Len(queue) : Before(queue[j], queue[i]) => j < i
SenderOrder ==
    \A m, n \in Messages :
        Before(m, n) /\ (smsg = n \/ fate[n] \in Tried) => ~Queued(m) /\ smsg # m

TypeInv == TypeOK /\ SenderShape /\ GivenShape
RepliesInv == HandlerShape /\ OneMessageEach /\ QueueOrder /\ SenderOrder

-------------------------------------------------------------------------------
(* The queue after a message is added or the first one is taken.            *)

LEMMA QueueAppend ==
    ASSUME queue \in Seq(Messages), NEW x \in Messages, queue' = Append(queue, x),
           \A i, j \in 1..Len(queue) : queue[i] = queue[j] => i = j, ~Queued(x)
    PROVE  /\ \A i, j \in 1..Len(queue') : queue'[i] = queue'[j] => i = j
           /\ \A m \in Messages : Queued(m)' <=> Queued(m) \/ m = x
<1>1. /\ Len(queue') = Len(queue) + 1 /\ queue'[Len(queue) + 1] = x /\ Len(queue) \in Nat
      /\ \A i \in 1..Len(queue) : queue'[i] = queue[i]
  BY AppendProperties
<1>2. \A i \in 1..Len(queue) : queue[i] # x
  BY DEF Queued
<1>3. \A i, j \in 1..Len(queue') : queue'[i] = queue'[j] => i = j
  BY <1>1, <1>2
<1>4. \A m \in Messages : Queued(m)' <=> Queued(m) \/ m = x
  BY <1>1 DEF Queued
<1> QED BY <1>3, <1>4

LEMMA QueueTail ==
    ASSUME queue \in Seq(Messages), queue # <<>>, queue' = Tail(queue),
           \A i, j \in 1..Len(queue) : queue[i] = queue[j] => i = j
    PROVE  /\ Head(queue) \in Messages /\ Queued(Head(queue))
           /\ \A i, j \in 1..Len(queue') : queue'[i] = queue'[j] => i = j
           /\ \A m \in Messages : Queued(m)' <=> Queued(m) /\ m # Head(queue)
<1>1. /\ Len(queue') = Len(queue) - 1 /\ Len(queue) \in Nat /\ Len(queue) > 0
      /\ \A i \in 1..Len(queue') : queue'[i] = queue[i + 1]
      /\ Head(queue) = queue[1] /\ Head(queue) \in Messages
  BY HeadTailProperties
<1>2. \A i, j \in 1..Len(queue') : queue'[i] = queue'[j] => i = j
  BY <1>1
<1>3. ASSUME NEW m \in Messages
      PROVE  Queued(m)' <=> Queued(m) /\ m # Head(queue)
  <2>1. ASSUME Queued(m)' PROVE Queued(m) /\ m # Head(queue)
    <3>1. PICK i \in 1..Len(queue') : queue'[i] = m
      BY <2>1 DEF Queued
    <3>2. i + 1 \in 1..Len(queue) /\ queue[i + 1] = m /\ 1 \in 1..Len(queue) /\ i + 1 # 1
      BY <1>1, <3>1
    <3> QED BY <1>1, <3>2 DEF Queued
  <2>2. ASSUME Queued(m), m # Head(queue) PROVE Queued(m)'
    <3>1. PICK i \in 1..Len(queue) : queue[i] = m
      BY <2>2 DEF Queued
    <3>2. i - 1 \in 1..Len(queue') /\ queue'[i - 1] = queue[i]
      BY <1>1, <2>2, <3>1
    <3> QED BY <3>1, <3>2 DEF Queued
  <2> QED BY <2>1, <2>2
<1> QED BY <1>1, <1>2, <1>3 DEF Queued

-------------------------------------------------------------------------------
(* Layer 1: types and the shape of each goroutine's state.                  *)

LEMMA TypeInit == Init => TypeInv
<1> SUFFICES ASSUME Init PROVE TypeInv
  OBVIOUS
<1> USE NoMessageAssumption, LimitsAssumption DEF Init
<1>1. TypeOK
  <2>1. queue \in Seq(Messages) /\ Len(queue) <= QueueCap
    OBVIOUS
  <2>2. fate \in [Messages -> Fates]
    BY DEF Fates
  <2>3. at \in [Updates -> Places] /\ polls \in [Updates -> 0..MaxPolls]
    BY DEF Places
  <2>4. given \in [Updates -> 0..MaxReplies] /\ attempt \in 0..(MaxAttempts - 1)
    OBVIOUS
  <2>5. /\ spc \in {"idle", "limit", "send", "exited"} /\ smsg \in Messages \cup {NoMessage}
        /\ bpc \in {"idle", "limit", "send", "feedback", "exited"}
        /\ cancelled \in BOOLEAN /\ drained \in BOOLEAN
    OBVIOUS
  <2> QED BY <2>1, <2>2, <2>3, <2>4, <2>5 DEF TypeOK
<1>2. SenderShape /\ GivenShape
  BY DEF SenderShape, GivenShape
<1> QED BY <1>1, <1>2 DEF TypeInv

(* A step of the broadcast listener leaves all but its own place alone. *)
BroadcastStep == BroadcastTakes \/ Listening \/ BroadcastAnswered \/ BroadcastExit

LEMMA ListenerMoves ==
    ASSUME BroadcastStep
    PROVE  /\ UNCHANGED <<at, polls, given, queue, senderVars, cancelled, drained, fate>>
           /\ bpc' \in {"idle", "limit", "send", "feedback", "exited"}
           /\ bpc' = "exited" => cancelled
BY DEF BroadcastStep, Listening, BroadcastTakes, BroadcastGranted, BroadcastInterrupted, BroadcastSent,
       BroadcastAnswered, BroadcastExit, Broadcasts

LEMMA TypeNext == TypeInv /\ [Next]_vars => TypeInv'
<1> SUFFICES ASSUME TypeInv, [Next]_vars
             PROVE  TypeInv'
  OBVIOUS
<1> USE NoMessageAssumption, LimitsAssumption
    DEF TypeInv, TypeOK, SenderShape, GivenShape, Places
<1>0. \A u \in Updates : at[u] = "enqueue" => <<u, given[u]>> \in Messages
  BY DEF Messages
<1>a. NoMessage \notin Messages
  BY DEF Messages
<1>1. ASSUME NEW u \in Updates, Arrive(u)
      PROVE  TypeInv'
  BY <1>1 DEF Arrive
<1>2. ASSUME NEW u \in Updates, Admit(u)
      PROVE  TypeInv'
  BY <1>2 DEF Admit
<1>3. ASSUME NEW u \in Updates, TurnAway(u)
      PROVE  TypeInv'
  BY <1>3 DEF TurnAway
<1>4. ASSUME NEW u \in Updates, Return(u)
      PROVE  TypeInv'
  BY <1>4 DEF Return
<1>5. ASSUME NEW u \in Updates, Wait(u)
      PROVE  TypeInv'
  <2>1. polls[u] + 1 \in 0..MaxPolls
    BY <1>5 DEF Wait
  <2> QED BY <1>5, <2>1 DEF Wait
<1>6. ASSUME NEW u \in Updates, Reply(u)
      PROVE  TypeInv'
  <2>1. given[u] + 1 \in 1..MaxReplies
    BY <1>6 DEF Reply
  <2>2. given' \in [Updates -> 0..MaxReplies] /\ GivenShape'
    BY <1>6, <2>1 DEF Reply
  <2>3. fate' \in [Messages -> Fates] /\ at' \in [Updates -> Places]
    BY <1>6 DEF Reply, Fates
  <2> QED BY <1>6, <2>2, <2>3 DEF Reply
<1>7. ASSUME NEW u \in Updates, EnqueueMessage(u)
      PROVE  TypeInv'
  <2> DEFINE x == <<u, given[u]>>
  <2>1. x \in Messages /\ queue' = Append(queue, x) /\ Len(queue) < QueueCap
    BY <1>0, <1>7 DEF EnqueueMessage
  <2>2. queue' \in Seq(Messages) /\ Len(queue') <= QueueCap
    BY <2>1, AppendProperties
  <2> QED BY <1>7, <2>2 DEF EnqueueMessage, Fates
<1>8. ASSUME NEW u \in Updates, EnqueueInterrupted(u) \/ EnqueueTimesOut(u)
      PROVE  TypeInv'
  BY <1>8 DEF EnqueueInterrupted, EnqueueTimesOut, Fates
<1>9. ASSUME queue # <<>>, queue' = Tail(queue)
      PROVE  Head(queue) \in Messages /\ queue' \in Seq(Messages) /\ Len(queue') <= QueueCap
  BY <1>9, HeadTailProperties
<1>10. CASE TakeMessage
  <2>1. smsg' \in Messages /\ queue' \in Seq(Messages) /\ Len(queue') <= QueueCap
    BY <1>9, <1>10 DEF TakeMessage
  <2>2. SenderShape'
    BY <1>a, <1>10, <2>1 DEF TakeMessage
  <2> QED BY <1>10, <2>1, <2>2 DEF TakeMessage
<1>11. CASE LimiterGrants
  BY <1>11 DEF LimiterGrants
<1>12. ASSUME NEW f \in Fates, Settle(f)
       PROVE  TypeInv'
  <2>1. fate' \in [Messages -> Fates]
    BY <1>12
  <2>2. attempt' \in 0..(MaxAttempts - 1) /\ smsg' = NoMessage
    BY <1>12
  <2>3. SenderShape' /\ GivenShape'
    BY <1>12
  <2> QED BY <1>12, <2>1, <2>2, <2>3
<1>13. CASE LimiterInterrupted \/ SendSucceeds \/ SendRefused
  BY <1>12, <1>13 DEF LimiterInterrupted, SendSucceeds, SendRefused, Fates
<1>14. CASE SendFails
  <2>1. CASE attempt + 1 < MaxAttempts
    BY <1>14, <2>1 DEF SendFails
  <2>2. CASE ~(attempt + 1 < MaxAttempts)
    BY <1>12, <1>14, <2>2 DEF SendFails, Fates
  <2> QED BY <2>1, <2>2
<1>15. CASE SenderExit
  BY <1>15 DEF SenderExit
<1>16. CASE Shutdown
  BY <1>16 DEF Shutdown
<1>17. CASE DrainOne
  BY <1>9, <1>17 DEF DrainOne, Fates
<1>18. CASE DrainDone
  BY <1>18 DEF DrainDone
<1>19. CASE UNCHANGED vars
  BY <1>19 DEF vars
<1>20. CASE BroadcastStep
  BY <1>20, ListenerMoves
<1> QED BY <1>1, <1>2, <1>3, <1>4, <1>5, <1>6, <1>7, <1>8, <1>10, <1>11, <1>13, <1>14, <1>15,
           <1>16, <1>17, <1>18, <1>19, <1>20 DEF Next, Handling, Sending, BroadcastStep

(* Every variable keeps its type; in particular the queue never holds more  *)
(* than its capacity and the sender never tries more than MaxAttempts times.*)
THEOREM TypeCorrect == Spec => []TypeOK
<1>1. TypeInv => TypeOK
  BY DEF TypeInv
<1> QED BY TypeInit, TypeNext, <1>1, PTL DEF Spec

-------------------------------------------------------------------------------
(* Layer 2: the messages.                                                   *)

LEMMA RepliesInit == Init => RepliesInv
<1> SUFFICES ASSUME Init PROVE RepliesInv
  OBVIOUS
<1> USE NoMessageAssumption DEF Init
<1>1. \A m \in Messages : m[1] \in Updates /\ m[2] \in 1..MaxReplies /\ smsg # m /\ ~Queued(m)
  BY DEF Messages, Queued
<1>2. HandlerShape
  BY <1>1 DEF HandlerShape
<1>3. OneMessageEach
  BY <1>1 DEF OneMessageEach
<1>4. QueueOrder /\ SenderOrder
  BY <1>1 DEF QueueOrder, SenderOrder
<1> QED BY <1>2, <1>3, <1>4 DEF RepliesInv

LEMMA RepliesNext == TypeInv /\ RepliesInv /\ [Next]_vars => RepliesInv'
<1> SUFFICES ASSUME TypeInv, RepliesInv, [Next]_vars
             PROVE  RepliesInv'
  OBVIOUS
<1>0. /\ queue \in Seq(Messages) /\ smsg \in Messages \cup {NoMessage} /\ NoMessage \notin Messages
      /\ at \in [Updates -> Places] /\ given \in [Updates -> 0..MaxReplies]
      /\ fate \in [Messages -> Fates]
      /\ HandlerShape /\ OneMessageEach /\ QueueOrder /\ SenderOrder
      /\ \A m \in Messages : m[1] \in Updates /\ m[2] \in 1..MaxReplies
      /\ MaxReplies \in Nat
  BY NoMessageAssumption, LimitsAssumption DEF TypeInv, TypeOK, RepliesInv, Messages
(* No message moves. *)
<1>1. ASSUME UNCHANGED <<queue, smsg, given, fate>>,
             \A u \in Updates : at[u] = "enqueue" <=> at'[u] = "enqueue"
      PROVE  RepliesInv'
  <2>1. HandlerShape'
    BY <1>0, <1>1 DEF HandlerShape
  <2>2. OneMessageEach'
    BY <1>0, <1>1 DEF OneMessageEach, Queued
  <2>3. QueueOrder' /\ SenderOrder'
    BY <1>0, <1>1 DEF QueueOrder, SenderOrder, Before, Queued
  <2> QED BY <2>1, <2>2, <2>3 DEF RepliesInv
(* A message outside the queue and the sender's hands gets a fate. *)
<1>2. ASSUME NEW x \in Messages, NEW f \in Fates \ (Tried \cup {"none", "queued"}),
             fate[x] # "queued", fate' = [fate EXCEPT ![x] = f], UNCHANGED <<queue, smsg>>
      PROVE  OneMessageEach' /\ QueueOrder' /\ SenderOrder'
  <2>1. OneMessageEach'
    BY <1>0, <1>2 DEF OneMessageEach, Queued
  <2>2. QueueOrder'
    BY <1>0, <1>2 DEF QueueOrder, Before
  <2>3. SenderOrder'
    BY <1>0, <1>2 DEF SenderOrder, Before, Queued
  <2> QED BY <2>1, <2>2, <2>3
<1>3. ASSUME NEW u \in Updates, Reply(u)
      PROVE  RepliesInv'
  <2> DEFINE x == <<u, given[u] + 1>>
  <2>1. /\ x \in Messages /\ x[1] = u /\ x[2] = given[u] + 1
        /\ \A m \in Messages : m[1] = u /\ m[2] = given[u] + 1 <=> m = x
    BY <1>0, <1>3 DEF Reply, Messages
  <2>2. /\ at' = [at EXCEPT ![u] = "enqueue"] /\ given' = [given EXCEPT ![u] = @ + 1]
        /\ fate' = [fate EXCEPT ![x] = "offered"] /\ at[u] = "handler"
        /\ UNCHANGED <<queue, smsg>>
    BY <1>3 DEF Reply
  <2> HIDE DEF x
  <2>3. fate[x] = "none"
    BY <1>0, <2>1 DEF HandlerShape
  <2>4. HandlerShape'
    BY <1>0, <2>1, <2>2 DEF HandlerShape
  <2>5. OneMessageEach' /\ QueueOrder' /\ SenderOrder'
    BY <1>2, <2>1, <2>2, <2>3 DEF Fates, Tried
  <2> QED BY <2>4, <2>5 DEF RepliesInv
(* The reply on offer leaves its handler. *)
<1>4. ASSUME NEW u \in Updates, at[u] = "enqueue"
      PROVE  /\ <<u, given[u]>> \in Messages
             /\ \A m \in Messages : m[1] = u /\ m[2] = given[u] <=> m = <<u, given[u]>>
             /\ fate[<<u, given[u]>>] = "offered"
  <2>1. <<u, given[u]>> \in Messages
    BY <1>0, <1>4 DEF TypeInv, GivenShape, Messages
  <2> QED BY <1>0, <1>4, <2>1 DEF HandlerShape, Messages
<1>5. ASSUME NEW u \in Updates, at[u] = "enqueue", NEW f \in Fates \ {"none", "offered"},
             fate' = [fate EXCEPT ![<<u, given[u]>>] = f],
             at' = [at EXCEPT ![u] = "handler"], UNCHANGED given
      PROVE  HandlerShape'
  <2> DEFINE x == <<u, given[u]>>
  <2>1. /\ x \in Messages /\ x[1] = u /\ x[2] = given[u] /\ fate[x] = "offered"
        /\ \A m \in Messages : m[1] = u /\ m[2] = given[u] <=> m = x
    BY <1>4, <1>5
  <2>2. fate' = [fate EXCEPT ![x] = f]
    BY <1>5
  <2> HIDE DEF x
  <2> QED BY <1>0, <1>5, <2>1, <2>2 DEF HandlerShape
<1>6. ASSUME NEW u \in Updates, EnqueueInterrupted(u) \/ EnqueueTimesOut(u)
      PROVE  RepliesInv'
  <2> DEFINE x == <<u, given[u]>>
  <2>1. /\ at[u] = "enqueue" /\ at' = [at EXCEPT ![u] = "handler"]
        /\ \E f \in {"dropped", "timeout"} : fate' = [fate EXCEPT ![x] = f]
        /\ UNCHANGED <<given, queue, smsg>>
    BY <1>6 DEF EnqueueInterrupted, EnqueueTimesOut
  <2>2. x \in Messages /\ fate[x] = "offered"
    BY <1>4, <2>1
  <2>3. HandlerShape'
    BY <1>5, <2>1 DEF Fates
  <2> HIDE DEF x
  <2>4. OneMessageEach' /\ QueueOrder' /\ SenderOrder'
    BY <1>2, <2>1, <2>2 DEF Fates, Tried
  <2> QED BY <2>3, <2>4 DEF RepliesInv
<1>7. ASSUME NEW u \in Updates, EnqueueMessage(u)
      PROVE  RepliesInv'
  <2> DEFINE x == <<u, given[u]>>
  <2>1. /\ at[u] = "enqueue" /\ at' = [at EXCEPT ![u] = "handler"]
        /\ fate' = [fate EXCEPT ![x] = "queued"] /\ queue' = Append(queue, x)
        /\ UNCHANGED <<given, smsg>>
    BY <1>7 DEF EnqueueMessage
  <2>2. /\ x \in Messages /\ fate[x] = "offered" /\ x[1] = u /\ x[2] = given[u]
    BY <1>4, <2>1
  <2>3. HandlerShape'
    BY <1>5, <2>1 DEF Fates
  <2> HIDE DEF x
  <2>4. ~Queued(x) /\ smsg # x
    BY <1>0, <2>2 DEF OneMessageEach
  <2>5. /\ \A i, j \in 1..Len(queue') : queue'[i] = queue'[j] => i = j
        /\ \A m \in Messages : Queued(m)' <=> Queued(m) \/ m = x
    BY <1>0, <2>1, <2>2, <2>4, QueueAppend DEF OneMessageEach
  <2>6. OneMessageEach'
    BY <1>0, <2>1, <2>2, <2>4, <2>5 DEF OneMessageEach
  (* x is the latest reply of its update. *)
  <2>7. \A m \in Messages : Before(x, m) => fate[m] = "none"
    BY <1>0, <2>2 DEF Before, HandlerShape
  <2>8. QueueOrder'
    <3>1. /\ Len(queue') = Len(queue) + 1 /\ queue'[Len(queue) + 1] = x /\ Len(queue) \in Nat
          /\ \A i \in 1..Len(queue) : queue'[i] = queue[i] /\ queue[i] \in Messages
      BY <1>0, <2>1, <2>2, AppendProperties
    <3>2. \A i \in 1..Len(queue) : ~Before(x, queue[i])
      BY <1>0, <2>7, <3>1 DEF OneMessageEach, Queued
    <3>3. ~Before(x, x)
      BY <1>0, <2>2 DEF Before
    <3>4. ASSUME NEW i \in 1..Len(queue'), NEW j \in 1..Len(queue'), Before(queue'[j], queue'[i])
          PROVE  j < i
      <4>1. CASE i \in 1..Len(queue) /\ j \in 1..Len(queue)
        BY <1>0, <3>1, <3>4, <4>1 DEF QueueOrder
      <4>2. CASE j = Len(queue) + 1
        BY <3>1, <3>2, <3>3, <3>4, <4>2
      <4>3. CASE i = Len(queue) + 1 /\ j \in 1..Len(queue)
        BY <3>1, <4>3
      <4> QED BY <3>1, <4>1, <4>2, <4>3
    <3> QED BY <3>4 DEF QueueOrder
  <2>9. SenderOrder'
    <3>1. ASSUME NEW m \in Messages, NEW n \in Messages, Before(m, n),
                 smsg' = n \/ fate'[n] \in Tried
          PROVE  ~Queued(m)' /\ smsg' # m
      <4>1. smsg = n \/ fate[n] \in Tried
        BY <1>0, <2>1, <2>2, <3>1 DEF Tried
      <4>2. fate[n] # "none"
        BY <1>0, <4>1 DEF OneMessageEach, Tried
      <4> QED BY <1>0, <2>1, <2>5, <2>7, <3>1, <4>1, <4>2 DEF SenderOrder
    <3> QED BY <3>1 DEF SenderOrder, Before
  <2> QED BY <2>3, <2>6, <2>8, <2>9 DEF RepliesInv
(* The first message leaves the queue: to the sender or with a fate. *)
<1>8. ASSUME queue # <<>>, queue' = Tail(queue), UNCHANGED <<at, given>>,
             \/ smsg = NoMessage /\ smsg' = Head(queue) /\ UNCHANGED fate
             \/ fate' = [fate EXCEPT ![Head(queue)] = "dropped"] /\ UNCHANGED smsg
      PROVE  RepliesInv'
  <2> DEFINE x == Head(queue)
  <2>1. /\ x \in Messages /\ Queued(x)
        /\ \A i, j \in 1..Len(queue') : queue'[i] = queue'[j] => i = j
        /\ \A m \in Messages : Queued(m)' <=> Queued(m) /\ m # x
    BY <1>0, <1>8, QueueTail DEF OneMessageEach
  <2>2. fate[x] = "queued"
    BY <1>0, <2>1 DEF OneMessageEach
  <2>3. /\ Len(queue') = Len(queue) - 1 /\ Len(queue) \in Nat /\ Len(queue) > 0
        /\ \A i \in 1..Len(queue') : queue'[i] = queue[i + 1]
        /\ x = queue[1]
    BY <1>0, <1>8, HeadTailProperties
  <2>4. QueueOrder'
    <3>1. ASSUME NEW i \in 1..Len(queue'), NEW j \in 1..Len(queue'),
                 Before(queue'[j], queue'[i])
          PROVE  j < i
      <4>1. i + 1 \in 1..Len(queue) /\ j + 1 \in 1..Len(queue)
        BY <2>3
      <4>2. Before(queue[j + 1], queue[i + 1])
        BY <2>3, <3>1
      <4>3. j + 1 < i + 1
        BY <1>0, <4>1, <4>2 DEF QueueOrder
      <4> QED BY <4>1, <4>3
    <3> QED BY <3>1 DEF QueueOrder
  <2>5. \A m \in Messages : Queued(m) => ~Before(m, x)
    <3>1. ASSUME NEW m \in Messages, NEW i \in 1..Len(queue), queue[i] = m, Before(m, x)
          PROVE  FALSE
      <4>1. 1 \in 1..Len(queue) /\ Before(queue[i], queue[1])
        BY <2>3, <3>1
      <4>2. i < 1
        BY <1>0, <4>1 DEF QueueOrder
      <4> QED BY <4>2
    <3> QED BY <3>1 DEF Queued
  <2>6. \A m \in Messages : ~Before(m, m)
    BY <1>0 DEF Before
  <2>7. CASE smsg = NoMessage /\ smsg' = x /\ UNCHANGED fate
    <3> HIDE DEF x
    <3>1. HandlerShape'
      BY <1>0, <1>8, <2>7 DEF HandlerShape
    <3>2. OneMessageEach'
      BY <1>0, <2>1, <2>2, <2>7 DEF OneMessageEach
    <3>3. SenderOrder'
      <4>1. ASSUME NEW m \in Messages, NEW n \in Messages, Before(m, n),
                   smsg' = n \/ fate'[n] \in Tried
            PROVE  ~Queued(m)' /\ smsg' # m
        BY <1>0, <2>1, <2>5, <2>6, <2>7, <4>1 DEF SenderOrder
      <4> QED BY <4>1 DEF SenderOrder, Before
    <3> QED BY <2>4, <3>1, <3>2, <3>3 DEF RepliesInv
  <2>8. CASE fate' = [fate EXCEPT ![x] = "dropped"] /\ UNCHANGED smsg
    <3> HIDE DEF x
    <3>1. HandlerShape'
      BY <1>0, <1>8, <2>1, <2>2, <2>8 DEF HandlerShape
    <3>2. OneMessageEach'
      BY <1>0, <2>1, <2>2, <2>8 DEF OneMessageEach
    <3>3. SenderOrder'
      <4>1. ASSUME NEW m \in Messages, NEW n \in Messages, Before(m, n),
                   smsg' = n \/ fate'[n] \in Tried
            PROVE  ~Queued(m)' /\ smsg' # m
        BY <1>0, <2>1, <2>8, <4>1 DEF SenderOrder, Tried
      <4> QED BY <4>1 DEF SenderOrder, Before
    <3> QED BY <2>4, <3>1, <3>2, <3>3 DEF RepliesInv
  <2> QED BY <1>8, <2>7, <2>8
(* The sender is done with its message. *)
<1>9. ASSUME smsg \in Messages, NEW f \in Tried \cup {"dropped"}, Settle(f)
      PROVE  RepliesInv'
  <2>1. /\ fate' = [fate EXCEPT ![smsg] = f] /\ smsg' = NoMessage /\ fate[smsg] = "queued"
        /\ UNCHANGED <<at, given, queue>> /\ ~Queued(smsg)
    BY <1>0, <1>9 DEF OneMessageEach
  <2>2. HandlerShape'
    BY <1>0, <1>9, <2>1 DEF HandlerShape, Tried
  <2>3. OneMessageEach'
    BY <1>0, <1>9, <2>1 DEF OneMessageEach, Queued, Tried
  <2>4. QueueOrder'
    BY <1>0, <2>1 DEF QueueOrder, Before
  <2>5. SenderOrder'
    <3>1. ASSUME NEW m \in Messages, NEW n \in Messages, Before(m, n), fate'[n] \in Tried
          PROVE  ~Queued(m)' /\ smsg' # m
      <4>1. smsg = n \/ fate[n] \in Tried
        BY <1>0, <1>9, <2>1, <3>1
      <4> QED BY <1>0, <2>1, <3>1, <4>1 DEF SenderOrder, Queued
    <3>2. smsg' \notin Messages
      BY <1>0, <2>1
    <3> QED BY <3>1, <3>2 DEF SenderOrder, Before
  <2> QED BY <2>2, <2>3, <2>4, <2>5 DEF RepliesInv
<1>10. ASSUME NEW u \in Updates, Arrive(u) \/ Admit(u) \/ Wait(u) \/ TurnAway(u) \/ Return(u)
       PROVE  RepliesInv'
  <2>1. /\ UNCHANGED <<queue, smsg, given, fate>>
        /\ \A x \in Updates : at[x] = "enqueue" <=> at'[x] = "enqueue"
    BY <1>0, <1>10 DEF Arrive, Admit, Wait, TurnAway, Return
  <2> QED BY <1>1, <2>1
<1>11. CASE TakeMessage
  BY <1>8, <1>11 DEF TakeMessage, TypeInv, SenderShape
<1>12. CASE DrainOne
  BY <1>8, <1>12 DEF DrainOne
<1>13. CASE LimiterInterrupted \/ SendSucceeds \/ SendRefused
  <2>1. smsg \in Messages
    BY <1>0, <1>13 DEF LimiterInterrupted, SendSucceeds, SendRefused, TypeInv, SenderShape
  <2>2. \E f \in Tried \cup {"dropped"} : Settle(f)
    BY <1>13 DEF LimiterInterrupted, SendSucceeds, SendRefused, Tried
  <2> QED BY <1>9, <2>1, <2>2
<1>14. CASE SendFails
  <2>1. smsg \in Messages
    BY <1>0, <1>14 DEF SendFails, TypeInv, SenderShape
  <2>2. CASE attempt + 1 < MaxAttempts
    BY <1>1, <1>14, <2>2 DEF SendFails
  <2>3. CASE ~(attempt + 1 < MaxAttempts)
    BY <1>9, <1>14, <2>1, <2>3 DEF SendFails, Tried
  <2> QED BY <2>2, <2>3
<1>15. ASSUME LimiterGrants \/ SenderExit \/ Shutdown \/ DrainDone \/ UNCHANGED vars
       PROVE  UNCHANGED <<queue, smsg, given, fate, at>>
  BY <1>15 DEF LimiterGrants, SenderExit, Shutdown, DrainDone, vars
<1>16. ASSUME BroadcastStep
       PROVE  UNCHANGED <<queue, smsg, given, fate, at>>
  BY <1>16, ListenerMoves
<1> QED BY <1>1, <1>3, <1>6, <1>7, <1>10, <1>11, <1>12, <1>13, <1>14, <1>15, <1>16
        DEF Next, Handling, Sending, BroadcastStep

LEMMA RepliesInvariant == Spec => [](TypeInv /\ RepliesInv)
<1>1. (TypeInv /\ RepliesInv) /\ [Next]_vars => (TypeInv /\ RepliesInv)'
  BY TypeNext, RepliesNext
<1> QED BY TypeInit, RepliesInit, <1>1, PTL DEF Spec

(* A reply that was enqueued and not settled is in one place only.          *)
THEOREM MessagesAreUnique == Spec => []OneMessageEach
<1>1. RepliesInv => OneMessageEach
  BY DEF RepliesInv
<1> QED BY RepliesInvariant, <1>1, PTL

(* The replies of one command are tried in the order they were given.       *)
THEOREM Ordered == Spec => []InOrder
<1>1. TypeInv /\ RepliesInv => InOrder
  <2> SUFFICES ASSUME TypeInv, RepliesInv, NEW m \in Messages, NEW n \in Messages,
                      Before(m, n), smsg = n \/ fate[n] \in Tried
               PROVE  fate[m] \notin {"none", "offered", "queued"}
    BY DEF InOrder
  <2>1. /\ m[1] \in Updates /\ n[1] = m[1] /\ m[2] < n[2]
        /\ m[2] \in 1..MaxReplies /\ n[2] \in 1..MaxReplies /\ given[m[1]] \in 0..MaxReplies
    BY DEF Messages, Before, TypeInv, TypeOK
  <2>2. fate[n] \notin {"none", "offered"}
    BY DEF RepliesInv, OneMessageEach, Tried
  <2>3. n[2] <= given[m[1]]
    BY <2>1, <2>2, LimitsAssumption DEF RepliesInv, HandlerShape
  <2>4. fate[m] \notin {"none", "offered"}
    BY <2>1, <2>3, LimitsAssumption DEF RepliesInv, HandlerShape
  <2>5. fate[m] # "queued"
    BY DEF RepliesInv, SenderOrder, OneMessageEach
  <2> QED BY <2>4, <2>5
<1> QED BY RepliesInvariant, <1>1, PTL

-------------------------------------------------------------------------------
(* Layer 3: room in the queue.                                              *)

(* A handler gives replies only after its admission; while there is room    *)
(* for every reply no update has found the queue full.                      *)
NoReplyYet == \A u \in Updates : at[u] \in {"new", "poll"} => given[u] = 0
NeverFull == RoomForAll /\ ~cancelled => \A u \in Updates : polls[u] = 0
RoomInv ==
    /\ NoReplyYet
    /\ NeverFull
    /\ spc = "exited" => cancelled
    /\ LostByShutdownOnly

LEMMA RoomInit == Init => RoomInv
BY DEF Init, RoomInv, NoReplyYet, NeverFull, LostByShutdownOnly

(* The queued replies are replies of updates that arrived, each once, and   *)
(* that of the update at hand is not among them.                            *)
LEMMA RoomForOneMore ==
    ASSUME TypeInv, RepliesInv, RoomInv, RoomForAll,
           NEW u \in Updates, at[u] \in {"poll", "enqueue"}
    PROVE  Len(queue) < QueueCap
<1> DEFINE A == {x \in Updates : at[x] # "new"}
           R == 1..MaxReplies
           X == A \X R
           free == IF at[u] = "poll" THEN <<u, 1>> ELSE <<u, given[u]>>
           I == 1..Len(queue)
           h == [i \in I |-> queue[i]]
<1>1. /\ Len(queue) \in Nat /\ MaxReplies \in Nat \ {0} /\ QueueCap \in Nat
      /\ \A i \in I : queue[i] \in Messages
      /\ \A i, j \in I : queue[i] = queue[j] => i = j
  BY LimitsAssumption DEF TypeInv, TypeOK, RepliesInv, OneMessageEach
<1>2. free \in X
  BY <1>1 DEF TypeInv, TypeOK, GivenShape
<1>3. ASSUME NEW m \in Messages, Queued(m)
      PROVE  m \in X /\ m # free
  <2>1. fate[m] = "queued"
    BY <1>3 DEF RepliesInv, OneMessageEach
  <2>2. m[1] \in Updates /\ m[2] \in R /\ m = <<m[1], m[2]>>
    BY DEF Messages
  <2>3. ~(m[2] > given[m[1]])
    BY <2>1 DEF RepliesInv, HandlerShape
  <2>4. given[m[1]] # 0
    BY <1>1, <2>2, <2>3 DEF TypeInv, TypeOK
  <2>5. at[m[1]] \notin {"new", "poll"}
    BY <2>2, <2>4 DEF RoomInv, NoReplyYet
  <2>6. m \in X
    BY <2>2, <2>5
  <2>7. ASSUME at[u] = "enqueue" PROVE m # <<u, given[u]>>
    <3>1. ~(at[m[1]] = "enqueue" /\ m[2] = given[m[1]])
      BY <2>1 DEF RepliesInv, HandlerShape
    <3> QED BY <2>7, <3>1
  <2>8. ASSUME at[u] = "poll" PROVE m # <<u, 1>>
    BY <2>5, <2>8
  <2> QED BY <2>6, <2>7, <2>8
<1> DEFINE T == X \ {free}
<1>4. h \in Injection(I, T)
  <2>1. \A i \in I : queue[i] \in T
    <3> SUFFICES ASSUME NEW i \in I PROVE queue[i] \in T
      OBVIOUS
    <3>1. PICK m \in Messages : m = queue[i]
      BY <1>1
    <3>2. Queued(m)
      BY <3>1 DEF Queued
    <3> HIDE DEF X, free
    <3> QED BY <1>3, <3>1, <3>2
  <2> HIDE DEF I, T
  <2> QED BY <1>1, <2>1 DEF Injection, IsInjective, I
<1>5. IsFiniteSet(A) /\ Cardinality(A) \in Nat
  <2>1. A \in SUBSET Updates
    OBVIOUS
  <2> HIDE DEF A
  <2> QED BY <2>1, UpdatesAssumption, FS_Subset, FS_CardinalityType
<1>6. ASSUME NEW n \in Nat
      PROVE  IsFiniteSet(1..n) /\ Cardinality(1..n) = n
  <2>1. IsFiniteSet(1..n) /\ Cardinality(1..n) = IF 1 > n THEN 0 ELSE n - 1 + 1
    BY FS_Interval
  <2>2. Cardinality(1..n) = n
    BY <2>1
  <2> QED BY <2>1, <2>2
<1>7. IsFiniteSet(R) /\ Cardinality(R) = MaxReplies
  BY <1>1, <1>6
<1>8. IsFiniteSet(I) /\ Cardinality(I) = Len(queue)
  <2>1. PICK n \in Nat : n = Len(queue)
    BY <1>1
  <2> QED BY <1>6, <2>1
<1>9. IsFiniteSet(X) /\ Cardinality(X) = Cardinality(A) * MaxReplies
  <2> HIDE DEF A, R
  <2> QED BY <1>5, <1>7, FS_Product
<1>10. IsFiniteSet(T) /\ Cardinality(T) = Cardinality(X) - 1
  <2> HIDE DEF X, free
  <2> QED BY <1>2, <1>9, FS_RemoveElement
<1>11. Len(queue) <= Cardinality(T)
  <2> HIDE DEF I, T, h
  <2> QED BY <1>4, <1>8, <1>10, FS_Injection
<1>12. Cardinality(A) * MaxReplies <= QueueCap /\ Cardinality(A) * MaxReplies \in Nat
  BY <1>1, <1>5 DEF RoomForAll
<1> HIDE DEF T, X, A
<1> QED BY <1>1, <1>9, <1>10, <1>11, <1>12

(* Updates that arrived stay so. *)
LEMMA RoomShrinks ==
    ASSUME \A x \in Updates : at'[x] = "new" => at[x] = "new", RoomForAll'
    PROVE  RoomForAll
<1> DEFINE A == {x \in Updates : at[x] # "new"}
           B == {x \in Updates : at'[x] # "new"}
           m == Cardinality(A)
           n == Cardinality(B)
<1>1. A \in SUBSET B /\ B \in SUBSET Updates
  OBVIOUS
<1>2. m \in Nat /\ n \in Nat /\ m <= n
  <2> HIDE DEF A, B
  <2>1. IsFiniteSet(B)
    BY <1>1, UpdatesAssumption, FS_Subset
  <2>2. IsFiniteSet(A) /\ Cardinality(A) <= Cardinality(B)
    BY <1>1, <2>1, FS_Subset
  <2> QED BY <2>1, <2>2, FS_CardinalityType
<1>3. n * MaxReplies <= QueueCap /\ MaxReplies \in Nat /\ QueueCap \in Nat
  BY LimitsAssumption DEF RoomForAll
<1> HIDE DEF m, n
<1>4. m * MaxReplies <= n * MaxReplies
  BY <1>2, <1>3
<1>5. m * MaxReplies <= QueueCap
  BY <1>2, <1>3, <1>4
<1> QED BY <1>5 DEF m, RoomForAll

(* What a step must not do for the room to last. *)
LEMMA RoomKept ==
    ASSUME RoomInv, NoReplyYet', \A x \in Updates : at'[x] = "new" => at[x] = "new",
           cancelled => cancelled', spc' = "exited" => cancelled',
           RoomForAll /\ ~cancelled =>
              /\ \A x \in Updates : polls'[x] = polls[x]
              /\ \A x \in Updates : at'[x] = "away" => at[x] = "away"
              /\ \A m \in Messages : fate'[m] \in {"timeout", "dropped"} => fate'[m] = fate[m]
    PROVE  RoomInv'
<1>1. NeverFull'
  BY RoomShrinks DEF RoomInv, NeverFull
<1>2. LostByShutdownOnly'
  BY RoomShrinks DEF RoomInv, LostByShutdownOnly
<1> QED BY <1>1, <1>2 DEF RoomInv

LEMMA RoomNext == TypeInv /\ RepliesInv /\ RoomInv /\ [Next]_vars => RoomInv'
<1> SUFFICES ASSUME TypeInv, RepliesInv, RoomInv, [Next]_vars
             PROVE  RoomInv'
  OBVIOUS
<1> USE DEF TypeInv, TypeOK
<1>0. NoReplyYet /\ (spc = "exited" => cancelled)
  BY DEF RoomInv
<1>1. ASSUME NEW u \in Updates, Arrive(u) \/ Admit(u) \/ Return(u)
      PROVE  RoomInv'
  <2>1. /\ UNCHANGED <<polls, fate, cancelled, spc, given>>
        /\ \E p \in {"poll", "handler", "done"} : at' = [at EXCEPT ![u] = p]
        /\ at'[u] = "poll" => at[u] = "new"
    BY <1>1 DEF Arrive, Admit, Return
  <2>2. NoReplyYet'
    BY <1>0, <2>1 DEF NoReplyYet
  <2> QED BY <1>0, <2>1, <2>2, RoomKept
<1>2. ASSUME NEW u \in Updates, Wait(u)
      PROVE  RoomInv'
  <2>1. ~(RoomForAll /\ ~cancelled)
    BY <1>2, RoomForOneMore DEF Wait
  <2>2. NoReplyYet' /\ UNCHANGED <<at, cancelled, spc>>
    BY <1>0, <1>2 DEF Wait, NoReplyYet
  <2> QED BY <1>0, <2>1, <2>2, RoomKept
<1>3. ASSUME NEW u \in Updates, TurnAway(u)
      PROVE  RoomInv'
  <2>1. ~(RoomForAll /\ ~cancelled)
    BY <1>3, LimitsAssumption DEF TurnAway, RoomInv, NeverFull
  <2>2. UNCHANGED <<given, cancelled, spc>> /\ at' = [at EXCEPT ![u] = "away"]
    BY <1>3 DEF TurnAway
  <2>3. NoReplyYet'
    BY <1>0, <2>2 DEF NoReplyYet
  <2> QED BY <1>0, <2>1, <2>2, <2>3, RoomKept
<1>4. ASSUME NEW u \in Updates, Reply(u)
      PROVE  RoomInv'
  <2>1. /\ UNCHANGED <<polls, cancelled, spc>> /\ at' = [at EXCEPT ![u] = "enqueue"]
        /\ \A x \in Updates : x # u => given'[x] = given[x]
        /\ \E m \in Messages : fate' = [fate EXCEPT ![m] = "offered"]
    <3>1. given[u] + 1 \in 1..MaxReplies
      BY <1>4, LimitsAssumption DEF Reply
    <3>2. <<u, given[u] + 1>> \in Messages
      BY <3>1 DEF Messages
    <3> QED BY <1>4, <3>2 DEF Reply
  <2>2. NoReplyYet'
    BY <1>0, <2>1 DEF NoReplyYet
  <2> QED BY <1>0, <2>1, <2>2, RoomKept
<1>5. ASSUME NEW u \in Updates, EnqueueMessage(u) \/ EnqueueInterrupted(u) \/ EnqueueTimesOut(u)
      PROVE  RoomInv'
  <2>1. /\ UNCHANGED <<polls, given, cancelled, spc>> /\ at' = [at EXCEPT ![u] = "handler"]
        /\ EnqueueMessage(u) => fate' = [fate EXCEPT ![<<u, given[u]>>] = "queued"]
    BY <1>5 DEF EnqueueMessage, EnqueueInterrupted, EnqueueTimesOut
  <2>2. NoReplyYet'
    BY <1>0, <2>1 DEF NoReplyYet
  <2>3. RoomForAll /\ ~cancelled => EnqueueMessage(u)
    BY <1>5, RoomForOneMore DEF EnqueueInterrupted, EnqueueTimesOut
  <2> QED BY <1>0, <2>1, <2>2, <2>3, RoomKept
<1>6. ASSUME UNCHANGED <<at, polls, given>>, cancelled => cancelled', spc' = "exited" => cancelled',
             ~cancelled => \A m \in Messages : fate'[m] \in {"timeout", "dropped"} => fate'[m] = fate[m]
      PROVE  RoomInv'
  <2>1. NoReplyYet'
    BY <1>0, <1>6 DEF NoReplyYet
  <2> QED BY <1>6, <2>1, RoomKept
<1>7. CASE TakeMessage \/ LimiterGrants \/ SenderExit \/ Shutdown \/ DrainDone \/ UNCHANGED vars
  BY <1>0, <1>6, <1>7 DEF TakeMessage, LimiterGrants, SenderExit, Shutdown, DrainDone, vars
<1>8. CASE LimiterInterrupted \/ DrainOne
  BY <1>0, <1>6, <1>8 DEF LimiterInterrupted, DrainOne, ListenersGone
<1>9. CASE SendSucceeds \/ SendRefused
  BY <1>0, <1>6, <1>9 DEF SendSucceeds, SendRefused
<1>10. CASE SendFails
  BY <1>0, <1>6, <1>10 DEF SendFails
<1>11. CASE BroadcastStep
  <2>1. UNCHANGED <<at, polls, given, cancelled, spc, fate>>
    BY <1>11, ListenerMoves DEF senderVars
  <2> QED BY <1>0, <1>6, <2>1
<1> QED BY <1>1, <1>2, <1>3, <1>4, <1>5, <1>7, <1>8, <1>9, <1>10, <1>11
        DEF Next, Handling, Sending, BroadcastStep

LEMMA RoomInvariant == Spec => []RoomInv
<1>1. RoomInv /\ (TypeInv /\ RepliesInv) /\ [Next]_vars => RoomInv'
  BY RoomNext
<1> QED BY RepliesInvariant, RoomInit, <1>1, PTL DEF Spec

(* With room in the queue for every reply of the updates that arrived no    *)
(* reply is lost before a shutdown and no update is turned away, however    *)
(* many updates there are and whatever Telegram answers.                    *)
THEOREM RoomIsEnough == Spec => []LostByShutdownOnly
<1>1. RoomInv => LostByShutdownOnly
  BY DEF RoomInv
<1> QED BY RoomInvariant, <1>1, PTL

-------------------------------------------------------------------------------
(* Progress of a handler.                                                   *)

(* How many steps an update can still take. *)
HandlerRank(u) ==
    CASE at[u] = "new" -> MaxPolls + 2 * MaxReplies + 3
      [] at[u] = "poll" -> (MaxPolls - polls[u]) + 2 * MaxReplies + 2
      [] at[u] = "enqueue" -> 2 * (MaxReplies - given[u]) + 2
      [] at[u] = "handler" -> 2 * (MaxReplies - given[u]) + 1
      [] OTHER -> 0
HandlersRunOut ==
    [][\A u \in Updates :
         /\ HandlerRank(u)' <= HandlerRank(u)
         /\ Arrive(u) \/ Handling(u) => HandlerRank(u)' < HandlerRank(u)]_vars

(* The guards of Handling(u), taken together. *)
HandlerGoesOn(u) ==
    \/ at[u] = "handler"
    \/ at[u] = "poll" /\ (cancelled \/ polls[u] = MaxPolls \/ Len(queue) = QueueCap \/ Len(queue) < QueueCap)
    \/ at[u] = "enqueue" /\ (cancelled \/ Len(queue) = QueueCap \/ Len(queue) < QueueCap)
NoHandlerWaits == \A u \in Updates : at[u] \in {"poll", "enqueue", "handler"} => HandlerGoesOn(u)

LEMMA HandlerRankOf ==
    ASSUME NEW u \in Updates, TypeOK
    PROVE  /\ at[u] = "new" => HandlerRank(u) = MaxPolls + 2 * MaxReplies + 3
           /\ at[u] = "poll" => HandlerRank(u) = (MaxPolls - polls[u]) + 2 * MaxReplies + 2
           /\ at[u] = "enqueue" => HandlerRank(u) = 2 * (MaxReplies - given[u]) + 2
           /\ at[u] = "handler" => HandlerRank(u) = 2 * (MaxReplies - given[u]) + 1
           /\ at[u] \in {"done", "away"} => HandlerRank(u) = 0
           /\ HandlerRank(u) \in Nat
           /\ MaxPolls \in Nat /\ MaxReplies \in Nat
           /\ polls[u] \in 0..MaxPolls /\ given[u] \in 0..MaxReplies
<1>1. /\ at[u] = "new" => HandlerRank(u) = MaxPolls + 2 * MaxReplies + 3
      /\ at[u] = "poll" => HandlerRank(u) = (MaxPolls - polls[u]) + 2 * MaxReplies + 2
      /\ at[u] = "enqueue" => HandlerRank(u) = 2 * (MaxReplies - given[u]) + 2
      /\ at[u] = "handler" => HandlerRank(u) = 2 * (MaxReplies - given[u]) + 1
      /\ at[u] \in {"done", "away"} => HandlerRank(u) = 0
  BY DEF HandlerRank
<1>2. /\ MaxPolls \in Nat /\ MaxReplies \in Nat
      /\ polls[u] \in 0..MaxPolls /\ given[u] \in 0..MaxReplies /\ at[u] \in Places
  BY LimitsAssumption DEF TypeOK
<1>3. HandlerRank(u) \in Nat
  BY <1>1, <1>2 DEF Places
<1> QED BY <1>1, <1>2, <1>3

RanksAreNat == \A u \in Updates : HandlerRank(u) \in Nat
LEMMA RankIsNat == TypeOK => RanksAreNat
BY HandlerRankOf DEF RanksAreNat

LEMMA HandlerRankNext == TypeOK' => \A u \in Updates :
    /\ at'[u] = "poll" => HandlerRank(u)' = (MaxPolls - polls'[u]) + 2 * MaxReplies + 2
    /\ at'[u] = "enqueue" => HandlerRank(u)' = 2 * (MaxReplies - given'[u]) + 2
    /\ at'[u] = "handler" => HandlerRank(u)' = 2 * (MaxReplies - given'[u]) + 1
    /\ at'[u] \in {"done", "away"} => HandlerRank(u)' = 0
BY DEF HandlerRank

LEMMA HandlerFalls ==
    ASSUME TypeOK, TypeOK', NEW u \in Updates, Arrive(u) \/ Handling(u)
    PROVE  HandlerRank(u)' < HandlerRank(u)
<1> USE HandlerRankOf, HandlerRankNext
<1>a. /\ at \in [Updates -> Places] /\ polls \in [Updates -> 0..MaxPolls]
      /\ given \in [Updates -> 0..MaxReplies]
  BY DEF TypeOK
<1>1. CASE Arrive(u)
  <2>1. at[u] = "new" /\ at'[u] = "poll" /\ polls'[u] = polls[u]
    BY <1>a, <1>1 DEF Arrive
  <2> QED BY <2>1
<1>2. CASE Admit(u) \/ TurnAway(u)
  <2>1. at[u] = "poll" /\ at'[u] \in {"handler", "away"} /\ given'[u] = given[u]
    BY <1>a, <1>2 DEF Admit, TurnAway
  <2> QED BY <2>1
<1>3. CASE Wait(u)
  <2>1. at[u] = "poll" /\ at'[u] = "poll" /\ polls'[u] = polls[u] + 1
    BY <1>a, <1>3 DEF Wait
  <2> QED BY <2>1
<1>4. CASE Reply(u)
  <2>1. at[u] = "handler" /\ at'[u] = "enqueue" /\ given'[u] = given[u] + 1
    BY <1>a, <1>4 DEF Reply
  <2> QED BY <2>1
<1>5. CASE Return(u)
  <2>1. at[u] = "handler" /\ at'[u] = "done"
    BY <1>a, <1>5 DEF Return
  <2> QED BY <2>1
<1>6. CASE EnqueueMessage(u) \/ EnqueueInterrupted(u) \/ EnqueueTimesOut(u)
  <2>1. at[u] = "enqueue" /\ at'[u] = "handler" /\ given'[u] = given[u]
    BY <1>a, <1>6 DEF EnqueueMessage, EnqueueInterrupted, EnqueueTimesOut
  <2> QED BY <2>1
<1> QED BY <1>1, <1>2, <1>3, <1>4, <1>5, <1>6 DEF Handling

(* An update takes at most MaxPolls + 2 * MaxReplies + 3 steps, whatever    *)
(* the queue, the sender and the shutdown do, and at no place does its      *)
(* goroutine have to wait for another: not for the queue, not for the       *)
(* sender, not for the end of the application.                              *)
THEOREM HandlersEnd == Spec => HandlersRunOut /\ []NoHandlerWaits
<1>1. TypeInv /\ [Next]_vars =>
        \A u \in Updates : /\ HandlerRank(u)' <= HandlerRank(u)
                           /\ Arrive(u) \/ Handling(u) => HandlerRank(u)' < HandlerRank(u)
  <2> SUFFICES ASSUME TypeInv, [Next]_vars, NEW u \in Updates
               PROVE  /\ HandlerRank(u)' <= HandlerRank(u)
                      /\ Arrive(u) \/ Handling(u) => HandlerRank(u)' < HandlerRank(u)
    OBVIOUS
  <2>1. TypeOK /\ TypeOK'
    BY TypeNext DEF TypeInv
  <2>2. HandlerRank(u) \in Nat
    BY <2>1, HandlerRankOf
  <2>3. Arrive(u) \/ Handling(u) => HandlerRank(u)' < HandlerRank(u)
    BY <2>1, HandlerFalls
  <2>4. ASSUME at'[u] = at[u], polls'[u] = polls[u], given'[u] = given[u]
        PROVE  HandlerRank(u)' = HandlerRank(u)
    BY <2>4 DEF HandlerRank
  <2>5. ASSUME NEW v \in Updates, v # u, Arrive(v) \/ Handling(v)
        PROVE  HandlerRank(u)' = HandlerRank(u)
    <3>1. at'[u] = at[u] /\ polls'[u] = polls[u] /\ given'[u] = given[u]
      BY <2>1, <2>5 DEF TypeOK, Arrive, Handling, Admit, Wait, TurnAway, Reply, Return, EnqueueMessage,
                         EnqueueInterrupted, EnqueueTimesOut
    <3> QED BY <2>4, <3>1
  <2>6. ASSUME Sending \/ BroadcastStep \/ Shutdown \/ DrainOne \/ DrainDone \/ UNCHANGED vars
        PROVE  HandlerRank(u)' = HandlerRank(u)
    <3>1. UNCHANGED <<at, polls, given>>
      BY <2>6, ListenerMoves DEF Sending, TakeMessage, LimiterGrants, LimiterInterrupted, SendSucceeds, SendRefused,
                  SendFails, SenderExit, Shutdown, DrainOne, DrainDone, vars
    <3> QED BY <2>4, <3>1
  <2>7. HandlerRank(u)' <= HandlerRank(u)
    <3>1. CASE \E v \in Updates : Arrive(v) \/ Handling(v)
      <4>1. PICK v \in Updates : Arrive(v) \/ Handling(v)
        BY <3>1
      <4>2. CASE v = u
        <5>1. HandlerRank(u)' < HandlerRank(u)
          BY <2>3, <4>1, <4>2
        <5>2. HandlerRank(u)' \in Nat
          <6>1. TypeOK' => RanksAreNat'
            BY RankIsNat, PTL
          <6> QED BY <2>1, <6>1 DEF RanksAreNat
        <5> QED BY <2>2, <5>1, <5>2
      <4>3. CASE v # u
        BY <2>2, <2>5, <4>1, <4>3
      <4> QED BY <4>2, <4>3
    <3>2. CASE Sending \/ BroadcastStep \/ Shutdown \/ DrainOne \/ DrainDone \/ UNCHANGED vars
      BY <2>2, <2>6, <3>2
    <3> QED BY <3>1, <3>2 DEF Next, BroadcastStep
  <2> QED BY <2>3, <2>7
<1>2. TypeInv => NoHandlerWaits
  BY LimitsAssumption DEF TypeInv, TypeOK, NoHandlerWaits, HandlerGoesOn
<1>3. Spec => []TypeInv
  BY TypeInit, TypeNext, PTL DEF Spec
<1> QED BY <1>1, <1>2, <1>3, PTL DEF Spec, HandlersRunOut

-------------------------------------------------------------------------------
(* Progress of the sender and of the drain.                                 *)

(* Replies that are not settled, and what may still be done for them: each  *)
(* costs the sender at most one take, one grant and MaxAttempts sends.      *)
Open == {m \in Messages : fate[m] \in {"none", "offered", "queued"}}
Phase ==
    CASE spc = "idle" -> MaxAttempts + 2
      [] spc = "limit" -> MaxAttempts + 1
      [] spc = "send" -> MaxAttempts - attempt
      [] OTHER -> 0
Undrained == IF drained THEN 0 ELSE 1
Work == (MaxAttempts + 2) * Cardinality(Open) + Phase + Undrained
Settling == Sending \/ DrainOne \/ DrainDone
WorkFalls == [][Work' <= Work /\ (Settling => Work' < Work)]_vars

(* The guards of Sending, of the broadcast listener's own steps and its     *)
(* exit, and of the drain, taken together.                                  *)
SenderGoesOn == (spc = "idle" /\ (queue # <<>> \/ cancelled)) \/ spc \in {"limit", "send"}
ListenerGoesOn == bpc \in {"limit", "send"} \/ (bpc = "idle" /\ cancelled)
DrainGoesOn == ListenersGone /\ ~drained
QueueMoves ==
    /\ ~cancelled /\ (\E m \in Messages : fate[m] = "queued") => SenderGoesOn
    /\ cancelled /\ ~drained =>
          \/ SenderGoesOn
          \/ spc = "exited" /\ (ListenerGoesOn \/ FeedbackLeft)
          \/ DrainGoesOn

OpenFinite == IsFiniteSet(Open) /\ Cardinality(Open) \in Nat
LEMMA OpenIsFinite == OpenFinite
<1>1. IsFiniteSet(1..MaxReplies)
  BY LimitsAssumption, FS_Interval
<1>2. IsFiniteSet(Messages)
  BY <1>1, UpdatesAssumption, FS_Product DEF Messages
<1>3. Open \subseteq Messages
  BY DEF Open
<1> QED BY <1>2, <1>3, FS_Subset, FS_CardinalityType DEF OpenFinite

LEMMA WorkTypes ==
    ASSUME TypeOK
    PROVE  /\ MaxAttempts \in Nat \ {0} /\ Phase \in 0..(MaxAttempts + 2) /\ Undrained \in {0, 1}
           /\ spc = "idle" => Phase = MaxAttempts + 2
           /\ spc = "limit" => Phase = MaxAttempts + 1
           /\ spc = "send" => Phase = MaxAttempts - attempt /\ Phase > 0
           /\ spc = "exited" => Phase = 0
BY LimitsAssumption DEF TypeOK, Phase, Undrained

LEMMA PhaseNext ==
    /\ spc' = "idle" => Phase' = MaxAttempts + 2
    /\ spc' = "limit" => Phase' = MaxAttempts + 1
    /\ spc' = "send" => Phase' = MaxAttempts - attempt'
    /\ spc' = "exited" => Phase' = 0
BY DEF Phase

(* What a step does to the replies that are not settled. *)
OpenStays == Cardinality(Open)' = Cardinality(Open)
OneLess == Cardinality(Open)' = Cardinality(Open) - 1

LEMMA StillOpen ==
    ASSUME TypeOK, NEW x \in Messages, fate[x] \in {"none", "offered", "queued"},
           NEW f \in {"offered", "queued"}, fate' = [fate EXCEPT ![x] = f]
    PROVE  OpenStays
<1>1. Open' = Open
  BY DEF Open, TypeOK
<1> QED BY <1>1 DEF OpenStays

LEMMA Settled ==
    ASSUME TypeOK, NEW x \in Messages, fate[x] \in {"none", "offered", "queued"},
           NEW f \in Tried \cup {"dropped", "timeout"}, fate' = [fate EXCEPT ![x] = f]
    PROVE  OneLess /\ Cardinality(Open) >= 1
<1>1. Open' = Open \ {x} /\ x \in Open
  BY DEF Open, TypeOK, Tried
<1>2. Cardinality(Open \ {x}) = Cardinality(Open) - 1
  BY <1>1, OpenIsFinite, FS_RemoveElement DEF OpenFinite
<1>3. Cardinality(Open \ {x}) \in Nat
  BY OpenIsFinite, FS_Subset, FS_CardinalityType DEF OpenFinite
<1> QED BY <1>1, <1>2, <1>3, OpenIsFinite DEF OneLess, OpenFinite

LEMMA WorkMoves ==
    ASSUME TypeOK, TypeOK'
    PROVE  /\ OpenStays => Work' - Work = (Phase' - Phase) + (Undrained' - Undrained)
           /\ OneLess => Work' - Work = (Phase' - Phase) + (Undrained' - Undrained) - (MaxAttempts + 2)
           /\ Work \in Nat /\ Work' \in Int /\ Phase' \in Int /\ Undrained' \in Int
<1>1. PICK n \in Nat : n = Cardinality(Open)
  BY OpenIsFinite DEF OpenFinite
<1>2. PICK k \in Nat : k = MaxAttempts + 2
  BY LimitsAssumption
<1>3. /\ Phase \in Nat /\ Undrained \in Nat /\ Phase' \in Int /\ Undrained' \in Int
  <2>1. Phase \in Nat /\ Undrained \in Nat
    BY WorkTypes
  <2>2. Phase' \in Int
    BY LimitsAssumption, PhaseNext DEF TypeOK
  <2> QED BY <2>1, <2>2 DEF Undrained
<1>4. Work = k * n + Phase + Undrained
  BY <1>1, <1>2 DEF Work
<1>5. Work' = k * Cardinality(Open)' + Phase' + Undrained'
  BY <1>2 DEF Work
<1>6. k * n \in Nat
  BY <1>1, <1>2
<1>7. k * (n - 1) = k * n - k
  BY <1>1, <1>2
<1>8. OpenStays => Work' = k * n + Phase' + Undrained'
  BY <1>1, <1>5 DEF OpenStays
<1>9. OneLess => Work' = k * (n - 1) + Phase' + Undrained'
  BY <1>1, <1>5 DEF OneLess
<1>10. Cardinality(Open)' \in Nat
  <2>1. OpenFinite'
    BY OpenIsFinite, PTL
  <2> QED BY <2>1 DEF OpenFinite
<1>11. PICK j \in Nat : j = Cardinality(Open)'
  BY <1>10
<1>12. Work' \in Int
  BY <1>2, <1>3, <1>5, <1>11
<1> QED BY <1>2, <1>3, <1>4, <1>6, <1>7, <1>8, <1>9, <1>12

LEMMA SettlingFalls ==
    ASSUME TypeInv, RepliesInv, TypeInv', Settling
    PROVE  Work' < Work
<1> USE DEF TypeInv, TypeOK
<1>0. TypeOK /\ TypeOK' /\ MaxAttempts \in Nat \ {0} /\ attempt \in 0..(MaxAttempts - 1)
  BY LimitsAssumption
<1>1. spc = "limit" \/ spc = "send" => smsg \in Messages /\ fate[smsg] = "queued"
  BY DEF SenderShape, RepliesInv, OneMessageEach
<1> HIDE DEF TypeInv, TypeOK
<1>2. CASE TakeMessage \/ LimiterGrants \/ SenderExit
  <2>0. UNCHANGED <<fate, drained, attempt>>
    BY <1>2 DEF TakeMessage, LimiterGrants, SenderExit
  <2>1. /\ OpenStays /\ Undrained' = Undrained
        /\ \/ spc = "idle" /\ spc' \in {"limit", "exited"}
           \/ spc = "limit" /\ spc' = "send" /\ attempt' = attempt
    <3>1. OpenStays /\ Undrained' = Undrained
      BY <2>0 DEF OpenStays, Open, Undrained
    <3>2. \/ spc = "idle" /\ spc' \in {"limit", "exited"}
          \/ spc = "limit" /\ spc' = "send"
      BY <1>2 DEF TakeMessage, LimiterGrants, SenderExit
    <3> QED BY <2>0, <3>1, <3>2
  <2>2. Phase' < Phase
    BY <1>0, <2>1, WorkTypes, PhaseNext
  <2> QED BY <1>0, <2>1, <2>2, WorkTypes, WorkMoves
<1>3. ASSUME NEW f \in Tried \cup {"dropped"}, Settle(f), spc \in {"limit", "send"}
      PROVE  Work' < Work
  <2>1. OneLess /\ Undrained' = Undrained /\ spc' = "idle"
    BY <1>0, <1>1, <1>3, Settled DEF Undrained
  <2>2. Phase' - Phase < MaxAttempts + 2
    BY <1>0, <1>3, <2>1, WorkTypes, PhaseNext
  <2> QED BY <1>0, <2>1, <2>2, WorkTypes, WorkMoves
<1>4. CASE LimiterInterrupted \/ SendSucceeds \/ SendRefused
  BY <1>3, <1>4 DEF LimiterInterrupted, SendSucceeds, SendRefused, Tried
<1>5. CASE SendFails
  <2>1. CASE attempt + 1 < MaxAttempts
    <3>1. /\ OpenStays /\ Undrained' = Undrained
          /\ spc = "send" /\ spc' = "send" /\ attempt' = attempt + 1
      BY <1>5, <2>1 DEF SendFails, OpenStays, Open, Undrained
    <3>2. Phase' < Phase
      BY <1>0, <3>1, WorkTypes, PhaseNext
    <3> QED BY <1>0, <3>1, <3>2, WorkTypes, WorkMoves
  <2>2. CASE ~(attempt + 1 < MaxAttempts)
    BY <1>3, <1>5, <2>2 DEF SendFails, Tried
  <2> QED BY <2>1, <2>2
<1>6. CASE DrainOne
  <2> DEFINE x == Head(queue)
  <2>1. x \in Messages /\ Queued(x)
    BY <1>6, QueueTail DEF DrainOne, TypeInv, TypeOK, RepliesInv, OneMessageEach
  <2>2. fate[x] = "queued" /\ fate' = [fate EXCEPT ![x] = "dropped"]
    BY <1>6, <2>1 DEF DrainOne, RepliesInv, OneMessageEach
  <2> HIDE DEF x
  <2>3. OneLess
    BY <1>0, <2>1, <2>2, Settled
  <2>4. Undrained' = Undrained /\ Phase' = Phase
    BY <1>6 DEF DrainOne, Undrained, Phase
  <2> QED BY <1>0, <2>3, <2>4, WorkTypes, WorkMoves
<1>7. CASE DrainDone
  <2>1. OpenStays /\ Phase' = Phase /\ Undrained' = 0 /\ Undrained = 1
    BY <1>7 DEF DrainDone, OpenStays, Open, Undrained, Phase
  <2> QED BY <1>0, <2>1, WorkTypes, WorkMoves
<1> QED BY <1>2, <1>4, <1>5, <1>6, <1>7 DEF Settling, Sending

LEMMA HandlersLeaveWork ==
    ASSUME TypeInv, RepliesInv, TypeInv',
           (\E u \in Updates : Arrive(u) \/ Handling(u)) \/ BroadcastStep \/ Shutdown \/ UNCHANGED vars
    PROVE  Work' <= Work
<1>0. TypeOK /\ TypeOK' /\ MaxAttempts \in Nat
  BY LimitsAssumption DEF TypeInv
<1>1. Undrained' = Undrained /\ Phase' = Phase
  <2>1. UNCHANGED <<drained, spc, attempt>>
    BY ListenerMoves DEF Arrive, Handling, Admit, Wait, TurnAway, Reply, Return, EnqueueMessage,
           EnqueueInterrupted, EnqueueTimesOut, Shutdown, vars
  <2> QED BY <2>1 DEF Undrained, Phase
<1>2. OpenStays \/ OneLess => Work' <= Work
  BY <1>0, <1>1, WorkTypes, WorkMoves
<1>3. CASE UNCHANGED fate
  <2>1. OpenStays
    BY <1>3 DEF OpenStays, Open
  <2> QED BY <1>2, <2>1
<1>4. ASSUME NEW u \in Updates, Reply(u) PROVE OpenStays
  <2> DEFINE x == <<u, given[u] + 1>>
  <2>1. given[u] \in 0..MaxReplies /\ given[u] + 1 \in 1..MaxReplies
    BY <1>0, <1>4, LimitsAssumption DEF Reply, TypeOK
  <2>2. x \in Messages /\ x[1] = u /\ x[2] = given[u] + 1
    BY <2>1 DEF Messages
  <2>3. fate' = [fate EXCEPT ![x] = "offered"]
    BY <1>4 DEF Reply
  <2> HIDE DEF x
  <2>4. fate[x] = "none"
    BY <2>1, <2>2 DEF RepliesInv, HandlerShape
  <2> QED BY <1>0, <2>2, <2>3, <2>4, StillOpen
<1>5. ASSUME NEW u \in Updates, EnqueueMessage(u) \/ EnqueueInterrupted(u) \/ EnqueueTimesOut(u)
      PROVE  OpenStays \/ OneLess
  <2> DEFINE x == <<u, given[u]>>
  <2>1. at[u] = "enqueue" /\ \E f \in {"queued", "dropped", "timeout"} : fate' = [fate EXCEPT ![x] = f]
    BY <1>5 DEF EnqueueMessage, EnqueueInterrupted, EnqueueTimesOut
  <2>2. x \in Messages /\ x[1] = u /\ x[2] = given[u]
    BY <1>0, <2>1, LimitsAssumption DEF Messages, TypeOK, TypeInv, GivenShape
  <2> HIDE DEF x
  <2>3. fate[x] = "offered"
    BY <2>1, <2>2 DEF RepliesInv, HandlerShape
  <2> QED BY <1>0, <2>1, <2>2, <2>3, StillOpen, Settled
<1>6. (\E u \in Updates : Reply(u) \/ EnqueueMessage(u) \/ EnqueueInterrupted(u) \/ EnqueueTimesOut(u))
        \/ UNCHANGED fate
  BY ListenerMoves DEF Arrive, Handling, Admit, Wait, TurnAway, Return, Shutdown, vars
<1> QED BY <1>2, <1>3, <1>4, <1>5, <1>6

(* Handlers and the broadcast listener never give the sender more to do     *)
(* than it has from the start: no reply comes back into the queue, and      *)
(* every step of the sender and of the drain brings them nearer to their    *)
(* end.  Until the bot stops a queued reply always finds the sender with a  *)
(* step to take.  When it stops, the sender has a step until it has         *)
(* returned, then the broadcast listener until it has, unless it stands at  *)
(* a feedback no batch takes, and then the drain until it is over: the      *)
(* WaitGroup of the drain holds both listeners, and only such a feedback    *)
(* keeps it from being empty.                                               *)
THEOREM SenderEnds == Spec => WorkFalls /\ []QueueMoves
<1> DEFINE Inv == TypeInv /\ RepliesInv
<1>1. Inv /\ [Next]_vars => Work' <= Work /\ (Settling => Work' < Work)
  <2> SUFFICES ASSUME Inv, [Next]_vars PROVE Work' <= Work /\ (Settling => Work' < Work)
    OBVIOUS
  <2>1. TypeInv'
    BY TypeNext
  <2>2. Settling => Work' < Work
    BY <2>1, SettlingFalls
  <2>3. Work \in Int /\ Work' \in Int
    BY <2>1, WorkMoves DEF TypeInv
  <2>4. (\E u \in Updates : Arrive(u) \/ Handling(u)) \/ BroadcastStep \/ Shutdown \/ UNCHANGED vars
           => Work' <= Work
    BY <2>1, HandlersLeaveWork
  <2> QED BY <2>2, <2>3, <2>4 DEF Next, Settling, BroadcastStep
<1>2. Inv /\ RoomInv => QueueMoves
  <2> SUFFICES ASSUME Inv, RoomInv PROVE QueueMoves
    OBVIOUS
  <2>1. /\ spc \in {"idle", "limit", "send", "exited"} /\ queue \in Seq(Messages)
        /\ bpc \in {"idle", "limit", "send", "feedback", "exited"}
    BY DEF TypeInv, TypeOK
  <2>2. ASSUME spc = "idle", NEW m \in Messages, fate[m] = "queued" PROVE queue # <<>>
    <3>1. smsg # m
      BY <2>2, NoMessageAssumption DEF TypeInv, SenderShape, Messages
    <3>2. Queued(m)
      BY <2>2, <3>1 DEF RepliesInv, OneMessageEach
    <3> QED BY <3>2 DEF Queued
  <2>3. ~cancelled /\ (\E m \in Messages : fate[m] = "queued") => SenderGoesOn
    BY <2>1, <2>2 DEF SenderGoesOn, RoomInv
  <2>4. cancelled /\ ~drained =>
          \/ SenderGoesOn
          \/ spc = "exited" /\ (ListenerGoesOn \/ FeedbackLeft)
          \/ DrainGoesOn
    BY <2>1 DEF SenderGoesOn, ListenerGoesOn, DrainGoesOn, ListenersGone, FeedbackLeft
  <2> QED BY <2>3, <2>4 DEF QueueMoves
<1>3. Spec => []Inv
  BY RepliesInvariant
<1> HIDE DEF Inv
<1> QED BY <1>1, <1>2, <1>3, RoomInvariant, PTL DEF Spec, WorkFalls
===============================================================================
