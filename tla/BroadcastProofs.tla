---------------------------- MODULE BroadcastProofs -----------------------------
(***************************************************************************)
(* Proofs about Broadcast for any number of chats and batches and any      *)
(* bounds.  The invariant is built in layers, each proved on top of the    *)
(* ones before it; the last part bounds the steps of the goroutines and    *)
(* says what alone can make them all stand still.                          *)
(***************************************************************************)
EXTENDS Broadcast, FiniteSetTheorems, SequenceTheorems, TLAPS

-------------------------------------------------------------------------------
(* Finite sets of chats and the page query.                                 *)

(* A finite nonempty set of numbers has a largest and a smallest element.   *)
LEMMA Extremes ==
    ASSUME NEW S \in SUBSET Nat, IsFiniteSet(S), S # {}
    PROVE  /\ Last(S) \in S /\ \A d \in S : d <= Last(S)
           /\ First(S) \in S /\ \A d \in S : First(S) <= d
<1> DEFINE
      HasLast(T)  == \E c \in T : \A d \in T : c >= d
      HasFirst(T) == \E c \in T : \A d \in T : c <= d
      Bad == {T \in SUBSET S : T # {} /\ ~(HasLast(T) /\ HasFirst(T))}
<1>1. Bad = {}
  <2>1. SUFFICES ASSUME Bad # {} PROVE FALSE
    OBVIOUS
  <2>2. IsWellFoundedOn(StrictSubsetOrdering(S), SUBSET S)
    BY FS_StrictSubsetOrderingWellFounded, FS_FiniteSubsetsOfFinite
  <2>3. PICK T \in Bad : \A U \in Bad : ~(<<U, T>> \in StrictSubsetOrdering(S))
    <3>1. Bad \subseteq SUBSET S
      OBVIOUS
    <3> HIDE DEF Bad
    <3> QED BY <2>1, <2>2, <3>1, WFMin
  <2>4. PICK x \in T : TRUE
    OBVIOUS
  <2>5. T \ {x} \notin Bad
    BY <2>3, <2>4 DEF StrictSubsetOrdering
  <2>6. CASE T \ {x} = {}
    <3>1. HasLast(T) /\ HasFirst(T)
      BY <2>4, <2>6
    <3> QED BY <3>1
  <2>7. CASE T \ {x} # {}
    <3>1. T \subseteq Nat
      OBVIOUS
    <3>2. HasLast(T \ {x}) /\ HasFirst(T \ {x})
      BY <2>5, <2>7
    <3>3. PICK c \in T \ {x} : \A d \in T \ {x} : c >= d
      BY <3>2
    <3>4. PICK e \in T \ {x} : \A d \in T \ {x} : e <= d
      BY <3>2
    <3>5. HasLast(T)
      <4>1. \A d \in T : (IF c >= x THEN c ELSE x) >= d
        BY <3>1, <3>3, <2>4
      <4> QED BY <4>1, <2>4
    <3>6. HasFirst(T)
      <4>1. \A d \in T : (IF e <= x THEN e ELSE x) <= d
        BY <3>1, <3>4, <2>4
      <4> QED BY <4>1, <2>4
    <3> QED BY <3>5, <3>6
  <2> QED BY <2>6, <2>7
<1>2. HasLast(S) /\ HasFirst(S)
  BY <1>1
<1>3. Last(S) \in S /\ \A d \in S : Last(S) >= d
  BY <1>2 DEF Last
<1>4. First(S) \in S /\ \A d \in S : First(S) <= d
  BY <1>2 DEF First
<1>5. \A d \in S : d \in Nat
  OBVIOUS
<1> QED BY <1>3, <1>4, <1>5

(* The page query returns at most PageSize chats, none if and only if no    *)
(* chat is eligible, and leaves out no eligible chat below its last one.    *)
LEMMA PageQuery ==
    ASSUME NEW b \in Batches, active \subseteq Chats, cursor[b] \in Nat
    PROVE  /\ NextPage(b) \subseteq Eligible(b)
           /\ IsFiniteSet(NextPage(b))
           /\ Eligible(b) # {} =>
                /\ NextPage(b) # {}
                /\ Last(NextPage(b)) \in Eligible(b)
                /\ \A c \in NextPage(b) : c <= Last(NextPage(b))
                /\ \A c \in Eligible(b) : c <= Last(NextPage(b)) => c \in NextPage(b)
<1> USE ChatsAssumption, BoundsAssumption
<1> DEFINE E == Eligible(b)
           Below(c) == {d \in E : d < c}
<1>1. E \subseteq Nat /\ E \subseteq Chats
  BY DEF Eligible
<1>2. IsFiniteSet(E)
  BY <1>1, FS_Subset
<1>3. NextPage(b) = {c \in E : Cardinality(Below(c)) < PageSize}
  BY DEF NextPage
<1>4. NextPage(b) \subseteq E /\ IsFiniteSet(NextPage(b))
  BY <1>2, <1>3, FS_Subset
<1>5. ASSUME E # {}
      PROVE  /\ NextPage(b) # {}
             /\ Last(NextPage(b)) \in E
             /\ \A c \in NextPage(b) : c <= Last(NextPage(b))
             /\ \A c \in E : c <= Last(NextPage(b)) => c \in NextPage(b)
  <2>1. First(E) \in E /\ \A d \in E : First(E) <= d
    BY <1>1, <1>2, <1>5, Extremes
  <2>2. Below(First(E)) = {}
    BY <2>1, <1>1
  <2>3. First(E) \in NextPage(b)
    BY <2>1, <2>2, <1>3, FS_EmptySet
  <2>4. /\ Last(NextPage(b)) \in NextPage(b)
        /\ \A c \in NextPage(b) : c <= Last(NextPage(b))
    BY <2>3, <1>4, <1>1, Extremes
  <2>5. ASSUME NEW c \in E, c <= Last(NextPage(b))
        PROVE  c \in NextPage(b)
    <3> DEFINE l == Last(NextPage(b))
    <3>1. l \in E /\ Cardinality(Below(l)) < PageSize
      BY <2>4, <1>3
    <3>2. Below(c) \subseteq Below(l)
      BY <2>5, <3>1, <1>1
    <3>3. IsFiniteSet(Below(l)) /\ IsFiniteSet(Below(c))
      BY <1>2, FS_Subset
    <3>4. Cardinality(Below(c)) <= Cardinality(Below(l))
      BY <3>2, <3>3, FS_Subset
    <3>5. Cardinality(Below(c)) \in Nat /\ Cardinality(Below(l)) \in Nat
      BY <3>3, FS_CardinalityType
    <3> QED BY <3>1, <3>4, <3>5, <1>3
  <2> QED BY <2>3, <2>4, <2>5, <1>4
<1> QED BY <1>4, <1>5
-------------------------------------------------------------------------------
(* Which actions touch which variables.                                     *)

(* A step of a batch's goroutine moves a running batch and leaves the other *)
(* batches, the sender and the channel to the listener alone.               *)
Untouched(x) ==
    /\ pc'[x] = pc[x] /\ cursor'[x] = cursor[x] /\ page'[x] = page[x] /\ due'[x] = due[x]
    /\ alive'[x] = alive[x] /\ dead'[x] = dead[x] /\ stamped'[x] = stamped[x]
    /\ fate'[x] = fate[x] /\ retired'[x] = retired[x]

LEMMA BatchStepFrame ==
    ASSUME TypeOK, NEW b \in Batches, BatchStep(b)
    PROVE  /\ UNCHANGED <<notify, senderVars, lifeVars>>
           /\ Running(b)
           /\ pc'[b] \in InPage \cup Between \cup Ended
           /\ \A x \in Batches \ {b} : Untouched(x)
<1> DEFINE Goal ==
      /\ UNCHANGED <<notify, senderVars, lifeVars>>
      /\ Running(b)
      /\ pc'[b] \in InPage \cup Between \cup Ended
      /\ \A x \in Batches \ {b} : Untouched(x)
<1> USE DEF TypeOK, Running, InPage, Between, Ended, Untouched, Mark, MarkDead, GiveUpChat,
        exceptPc, batchVars, senderVars, tableVars, lifeVars, historyVars
<1>1. QueryEmpty(b) => Goal
  BY DEF QueryEmpty
<1>2. QueryFails(b) => Goal
  BY DEF QueryFails
<1>3. FetchPage(b) => Goal
  BY DEF FetchPage
<1>4. NextChat(b) => Goal
  BY DEF NextChat
<1>5. PageOffered(b) => Goal
  BY DEF PageOffered
<1>6. LimiterGrants(b) => Goal
  BY DEF LimiterGrants
<1>7. LimiterInterrupted(b) => Goal
  BY DEF LimiterInterrupted
<1>8. EnqueueBroadcast(b) => Goal
  BY DEF EnqueueBroadcast
<1>9. EnqueueDropped(b) => Goal
  BY DEF EnqueueDropped
<1>10. PageCollected(b) => Goal
  BY DEF PageCollected
<1>11. StampAlive(b) => Goal
  BY DEF StampAlive
<1>12. StampFails(b) => Goal
  BY DEF StampFails
<1>13. FlushDead(b) => Goal
  BY DEF FlushDead
<1>14. FinalFlush(b) => Goal
  BY DEF FinalFlush
<1>15. FlushFails(b) => Goal
  BY DEF FlushFails
<1> QED BY <1>1, <1>2, <1>3, <1>4, <1>5, <1>6, <1>7, <1>8, <1>9, <1>10, <1>11, <1>12, <1>13, <1>14, <1>15 DEF BatchStep

LEMMA FeedbackFrame ==
    ASSUME TypeOK, NEW b \in Batches, Feedback(b)
    PROVE  /\ UNCHANGED <<pc, notify, cursor, page, queue, tableVars, lifeVars, retired>>
           /\ \A x \in Batches \ {b} : Untouched(x)
BY DEF TypeOK, Feedback, Untouched, Mark, tableVars

(* A step of the sender leaves every batch to itself. *)
LEMMA SenderStepFrame ==
    ASSUME SenderStep
    PROVE  UNCHANGED <<pc, notify, batchVars, tableVars, lifeVars, retired, throughout, gaveUp>>
BY DEF SenderStep, TakeTask, SenderLimiterGrants, SenderLimiterInterrupted, SendSettles,
   SendFails, SenderExit, historyVars

-------------------------------------------------------------------------------
(* Layer 1: types and the shape of each goroutine's state.                  *)

(* What the sender holds at each place. *)
SenderShape ==
    /\ wpc \in {"idle", "exited"} <=> wtask = NoTask
    /\ wpc = "feedback" <=> wresult # "none"
    /\ wpc # "feedback" => attempt < MaxAttempts
    /\ wpc \in {"idle", "exited", "limit"} => attempt = 0
    /\ wresult = "cut" => cancelled

(* A batch in the notification channel waits there, once. *)
NotifyShape ==
    /\ \A i \in 1..Len(notify) : pc[notify[i]] = "queued"
    /\ \A i, j \in 1..Len(notify) : notify[i] = notify[j] => i = j

(* A page is only held inside the loop over it, and has a chat at hand      *)
(* while one is offered.                                                    *)
PageShape ==
    \A b \in Batches :
        /\ page[b] # {} => pc[b] \in {"chat", "limit", "enqueue", "stopped"}
        /\ pc[b] \in {"limit", "enqueue"} => page[b] # {}

TypeInv == TypeOK /\ SenderShape /\ NotifyShape /\ PageShape

LEMMA TypeInit == Init => TypeInv
<1> USE NoTaskAssumption, BoundsAssumption
    DEF Init, Tasks, Fates, Verdicts, Waiting
<1>1. Init => TypeOK
  <2> SUFFICES ASSUME Init PROVE TypeOK
    OBVIOUS
  <2>1. /\ pc \in [Batches -> Waiting \cup InPage \cup Between \cup Ended]
        /\ notify \in Seq(Batches) /\ queue \in Seq(Tasks)
        /\ active \subseteq Chats
    OBVIOUS
  <2>2. fate \in [Batches -> [Chats -> Fates]]
    OBVIOUS
  <2>3. /\ cursor \in [Batches -> Nat] /\ due \in [Batches -> Nat]
        /\ attempt \in 0..MaxAttempts /\ wtask \in Tasks \cup {NoTask}
        /\ wresult \in Verdicts \cup {"none"}
    OBVIOUS
  <2>4. /\ page \in [Batches -> SUBSET Chats] /\ alive \in [Batches -> SUBSET Chats]
        /\ dead \in [Batches -> SUBSET Chats] /\ stamped \in [Batches -> SUBSET Chats]
        /\ retired \in [Batches -> SUBSET Chats] /\ throughout \in [Batches -> SUBSET Chats]
        /\ gaveUp \in [Batches -> BOOLEAN]
    OBVIOUS
  <2> HIDE DEF Tasks, Fates, Verdicts, Waiting
  <2> QED BY <2>1, <2>2, <2>3, <2>4 DEF TypeOK, Init
<1>2. Init => SenderShape /\ NotifyShape /\ PageShape
  BY DEF SenderShape, NotifyShape, PageShape
<1> QED BY <1>1, <1>2 DEF TypeInv

LEMMA TypeOKNext == TypeInv /\ [Next]_vars => TypeOK'
<1> SUFFICES ASSUME TypeInv, [Next]_vars
             PROVE  TypeOK'
  OBVIOUS
<1> USE NoTaskAssumption, BoundsAssumption
    DEF TypeInv, TypeOK, Tasks, Fates, Verdicts, Waiting, InPage, Between, Ended, Mark, MarkDead
<1> USE DEF exceptPc, batchVars, senderVars, tableVars, lifeVars, historyVars
<1>1. ASSUME NEW b \in Batches, AddBatchTask(b)
     PROVE  TypeOK'
  BY <1>1 DEF AddBatchTask
<1>2. ASSUME NEW b \in Batches, NotifySend(b)
     PROVE  TypeOK'
  BY <1>2 DEF NotifySend
<1>3. ASSUME NEW b \in Batches, QueryEmpty(b)
     PROVE  TypeOK'
  BY <1>3 DEF QueryEmpty
<1>4. ASSUME NEW b \in Batches, QueryFails(b)
     PROVE  TypeOK'
  BY <1>4 DEF QueryFails
<1>5. ASSUME NEW b \in Batches, FetchPage(b)
     PROVE  TypeOK'
  <2>1. /\ NextPage(b) \subseteq Chats /\ Last(NextPage(b)) \in Chats
        /\ Cardinality(NextPage(b)) \in Nat
    <3>1. cursor[b] \in Nat
      OBVIOUS
    <3> QED BY <3>1, <1>5, PageQuery, FS_CardinalityType DEF FetchPage, Eligible
  <2> QED BY <1>5, <2>1, ChatsAssumption DEF FetchPage
<1>6. ASSUME NEW b \in Batches, NextChat(b)
     PROVE  TypeOK'
  BY <1>6 DEF NextChat
<1>7. ASSUME NEW b \in Batches, PageOffered(b)
     PROVE  TypeOK'
  BY <1>7 DEF PageOffered
<1>8. ASSUME NEW b \in Batches, LimiterGrants(b)
     PROVE  TypeOK'
  BY <1>8 DEF LimiterGrants
<1>9. ASSUME NEW b \in Batches, LimiterInterrupted(b)
     PROVE  TypeOK'
  BY <1>9 DEF LimiterInterrupted, GiveUpChat
<1>10. ASSUME NEW b \in Batches, EnqueueBroadcast(b)
     PROVE  TypeOK'
  <2>1. First(page[b]) \in Chats
    <3>1. page[b] \in SUBSET Nat /\ IsFiniteSet(page[b]) /\ page[b] # {}
      BY <1>10, ChatsAssumption, FS_Subset DEF EnqueueBroadcast, PageShape
    <3> QED BY <3>1, Extremes
  <2> DEFINE task == [batch |-> b, chat |-> First(page[b])]
  <2>2. queue' \in Seq(Tasks)
    <3>1. task \in Tasks
      BY <2>1
    <3>2. queue' = Append(queue, task)
      BY <1>10 DEF EnqueueBroadcast
    <3> QED BY <3>1, <3>2, AppendProperties
  <2> QED BY <1>10, <2>2 DEF EnqueueBroadcast
<1>11. ASSUME NEW b \in Batches, EnqueueDropped(b)
     PROVE  TypeOK'
  BY <1>11 DEF EnqueueDropped, GiveUpChat
<1>12. ASSUME NEW b \in Batches, PageCollected(b)
     PROVE  TypeOK'
  BY <1>12 DEF PageCollected
<1>13. ASSUME NEW b \in Batches, StampAlive(b)
     PROVE  TypeOK'
  BY <1>13 DEF StampAlive
<1>14. ASSUME NEW b \in Batches, StampFails(b)
     PROVE  TypeOK'
  <2>1. stamped' \in [Batches -> SUBSET Chats]
    <3>1. CASE UNCHANGED stamped
      BY <3>1
    <3>2. CASE stamped' = [stamped EXCEPT ![b] = @ \cup alive[b]]
      BY <3>2
    <3> QED BY <1>14, <3>1, <3>2 DEF StampFails
  <2> QED BY <1>14, <2>1 DEF StampFails
<1>15. ASSUME NEW b \in Batches, FlushDead(b)
     PROVE  TypeOK'
  BY <1>15 DEF FlushDead
<1>16. ASSUME NEW b \in Batches, FinalFlush(b)
     PROVE  TypeOK'
  <2>1. /\ active' \subseteq Chats /\ throughout' \in [Batches -> SUBSET Chats]
        /\ retired' \in [Batches -> SUBSET Chats]
    <3>1. CASE UNCHANGED <<active, throughout, retired>>
      BY <3>1
    <3>2. CASE MarkDead(b)
      BY <3>2
    <3> QED BY <1>16, <3>1, <3>2 DEF FinalFlush
  <2> QED BY <1>16, <2>1 DEF FinalFlush
<1>17. ASSUME NEW b \in Batches, FlushFails(b)
     PROVE  TypeOK'
  <2>1. /\ active' \subseteq Chats /\ throughout' \in [Batches -> SUBSET Chats]
        /\ retired' \in [Batches -> SUBSET Chats]
    <3>1. CASE UNCHANGED <<active, throughout, retired>>
      BY <3>1
    <3>2. CASE MarkDead(b)
      BY <3>2
    <3> QED BY <1>17, <3>1, <3>2 DEF FlushFails
  <2> QED BY <1>17, <2>1 DEF FlushFails
<1>18. ASSUME NEW b \in Batches, Feedback(b)
     PROVE  TypeOK'
  BY <1>18 DEF Feedback, SenderShape
<1>19. CASE ListenStart
  BY <1>19 DEF ListenStart
<1>20. CASE ListenExit
  BY <1>20 DEF ListenExit
<1>21. CASE TakeTask
  <2>1. Head(queue) \in Tasks /\ Tail(queue) \in Seq(Tasks)
    BY <1>21, HeadTailProperties DEF TakeTask
  <2> QED BY <1>21, <2>1 DEF TakeTask
<1>22. CASE SenderLimiterGrants
  BY <1>22 DEF SenderLimiterGrants
<1>23. CASE SenderLimiterInterrupted
  BY <1>23 DEF SenderLimiterInterrupted
<1>24. CASE SendSettles
  BY <1>24 DEF SendSettles
<1>25. CASE SendFails
  <2>1. attempt' \in 0..MaxAttempts
    BY <1>25 DEF SendFails, SenderShape
  <2> QED BY <1>25, <2>1 DEF SendFails
<1>26. CASE SenderExit
  BY <1>26 DEF SenderExit
<1>27. CASE Shutdown
  BY <1>27 DEF Shutdown
<1>28. CASE DrainOne
  <2>1. Tail(queue) \in Seq(Tasks)
    BY <1>28, HeadTailProperties DEF DrainOne
  <2> QED BY <1>28, <2>1 DEF DrainOne
<1>29. CASE DrainDone
  BY <1>29 DEF DrainDone
<1>30. CASE StopBatchWorker
  BY <1>30 DEF StopBatchWorker
<1>31. ASSUME NEW c \in Chats, Revive(c)
     PROVE  TypeOK'
  BY <1>31 DEF Revive
<1>32. CASE UNCHANGED vars
  BY <1>32 DEF vars
<1> QED BY <1>1, <1>2, <1>3, <1>4, <1>5, <1>6, <1>7, <1>8, <1>9, <1>10, <1>11, <1>12, <1>13, <1>14, <1>15, <1>16, <1>17, <1>18, <1>19, <1>20, <1>21, <1>22, <1>23, <1>24, <1>25, <1>26, <1>27, <1>28, <1>29, <1>30, <1>31, <1>32 DEF Next, BatchStep, SenderStep
(* The sender's state changes at its own steps, at a feedback and at a      *)
(* shutdown.                                                                *)
LEMMA SenderShapeNext == TypeInv /\ [Next]_vars => SenderShape'
<1> SUFFICES ASSUME TypeInv, [Next]_vars
             PROVE  SenderShape'
  OBVIOUS
<1> USE NoTaskAssumption, BoundsAssumption
    DEF TypeInv, TypeOK, SenderShape, Tasks, Verdicts
<1>1. CASE UNCHANGED <<senderVars, cancelled>>
  BY <1>1 DEF senderVars
<1>2. CASE TakeTask
  <2>1. Head(queue) \in Tasks
    BY <1>2, HeadTailProperties DEF TakeTask
  <2> QED BY <1>2, <2>1 DEF TakeTask, lifeVars
<1>3. CASE SenderLimiterGrants
  BY <1>3 DEF SenderLimiterGrants, lifeVars
<1>4. CASE SenderLimiterInterrupted
  BY <1>4 DEF SenderLimiterInterrupted, lifeVars
<1>5. CASE SendSettles
  BY <1>5 DEF SendSettles, lifeVars
<1>6. CASE SendFails
  BY <1>6 DEF SendFails, lifeVars
<1>7. CASE SenderExit
  BY <1>7 DEF SenderExit, lifeVars
<1>8. CASE Shutdown
  BY <1>8 DEF Shutdown, senderVars
<1>9. ASSUME NEW b \in Batches, Feedback(b)
      PROVE  SenderShape'
  BY <1>9 DEF Feedback, lifeVars
<1>10. ASSUME NEW b \in Batches, BatchStep(b) \/ AddBatchTask(b) \/ NotifySend(b)
       PROVE  UNCHANGED <<senderVars, cancelled>>
  BY <1>10, BatchStepFrame DEF AddBatchTask, NotifySend, exceptPc, lifeVars
<1>11. ASSUME \/ ListenStart \/ ListenExit \/ DrainOne \/ DrainDone \/ StopBatchWorker
              \/ UNCHANGED vars \/ \E c \in Chats : Revive(c)
       PROVE  UNCHANGED <<senderVars, cancelled>>
  BY <1>11 DEF ListenStart, ListenExit, DrainOne, DrainDone, StopBatchWorker, Revive, vars, lifeVars
<1> HIDE DEF TypeInv, TypeOK, SenderShape
<1> QED BY <1>1, <1>2, <1>3, <1>4, <1>5, <1>6, <1>7, <1>8, <1>9, <1>10, <1>11
        DEF Next, SenderStep

LEMMA NotifyShapeNext == TypeInv /\ [Next]_vars => NotifyShape'
<1> SUFFICES ASSUME TypeInv, [Next]_vars
             PROVE  NotifyShape'
  OBVIOUS
<1> USE DEF TypeInv, TypeOK, NotifyShape
<1>1. ASSUME UNCHANGED notify, \A x \in Batches : pc[x] = "queued" => pc'[x] = "queued"
      PROVE  NotifyShape'
  <2>1. \A i \in 1..Len(notify) : notify[i] \in Batches
    OBVIOUS
  <2> QED BY <1>1, <2>1
<1>2. CASE ListenStart
  <2>1. /\ Tail(notify) \in Seq(Batches) /\ Len(Tail(notify)) = Len(notify) - 1
        /\ \A i \in 1..Len(Tail(notify)) : Tail(notify)[i] = notify[i + 1]
        /\ Head(notify) = notify[1]
    BY <1>2, HeadTailProperties DEF ListenStart
  <2>2. \A i \in 1..Len(notify') : notify'[i] # Head(notify) /\ notify'[i] \in Batches
    BY <1>2, <2>1 DEF ListenStart
  <2> QED BY <1>2, <2>1, <2>2 DEF ListenStart
<1>3. ASSUME NEW b \in Batches, NotifySend(b)
      PROVE  NotifyShape'
  <2>1. /\ Len(notify') = Len(notify) + 1 /\ notify'[Len(notify) + 1] = b
        /\ \A i \in 1..Len(notify) : notify'[i] = notify[i]
    BY <1>3, AppendProperties DEF NotifySend
  <2>2. \A i \in 1..Len(notify) : notify[i] # b /\ notify[i] \in Batches
    BY <1>3 DEF NotifySend
  <2>3. \A i \in 1..Len(notify') : pc'[notify'[i]] = "queued"
    <3>1. pc' = [pc EXCEPT ![b] = "queued"] /\ Len(notify) \in Nat
      BY <1>3 DEF NotifySend
    <3>2. ASSUME NEW i \in 1..Len(notify')
          PROVE  pc'[notify'[i]] = "queued"
      <4>1. CASE i = Len(notify) + 1
        BY <4>1, <3>1, <2>1
      <4>2. CASE i \in 1..Len(notify)
        BY <4>2, <3>1, <2>1, <2>2
      <4> QED BY <4>1, <4>2, <3>1, <2>1
    <3> QED BY <3>2
  <2>4. \A i, j \in 1..Len(notify') : notify'[i] = notify'[j] => i = j
    <3>1. Len(notify) \in Nat
      OBVIOUS
    <3>2. \A i, j \in 1..Len(notify) : notify[i] = notify[j] => i = j
      OBVIOUS
    <3> QED BY ONLY <3>1, <3>2, <2>1, <2>2
  <2> QED BY <2>3, <2>4
<1>4. ASSUME NEW b \in Batches, BatchStep(b)
      PROVE  NotifyShape'
  <2>1. \A x \in Batches : pc[x] = "queued" => pc'[x] = "queued"
    BY <1>4, BatchStepFrame DEF Running, InPage, Between, Untouched
  <2> QED BY <1>1, <1>4, <2>1, BatchStepFrame
<1>5. ASSUME NEW b \in Batches, AddBatchTask(b) \/ Feedback(b)
      PROVE  NotifyShape'
  <2>1. UNCHANGED notify /\ \A x \in Batches : pc[x] = "queued" => pc'[x] = "queued"
    BY <1>5 DEF AddBatchTask, Feedback, exceptPc
  <2> QED BY <1>1, <2>1
<1>6. ASSUME \/ SenderStep \/ ListenExit \/ Shutdown \/ DrainOne \/ DrainDone \/ StopBatchWorker
             \/ UNCHANGED vars \/ \E c \in Chats : Revive(c)
       PROVE  UNCHANGED <<pc, notify>>
  BY <1>6, SenderStepFrame
     DEF ListenExit, Shutdown, DrainOne, DrainDone, StopBatchWorker, Revive, vars
<1> HIDE DEF TypeInv, TypeOK, NotifyShape
<1> QED BY <1>1, <1>2, <1>3, <1>4, <1>5, <1>6 DEF Next

LEMMA PageShapeNext == TypeInv /\ [Next]_vars => PageShape'
<1> SUFFICES ASSUME TypeInv, [Next]_vars
             PROVE  PageShape'
  OBVIOUS
<1> DEFINE Shape(x) ==
      /\ page[x] # {} => pc[x] \in {"chat", "limit", "enqueue", "stopped"}
      /\ pc[x] \in {"limit", "enqueue"} => page[x] # {}
<1>1. ASSUME NEW x \in Batches, Untouched(x) \/ UNCHANGED <<pc, page>>
      PROVE  Shape(x)'
  BY <1>1 DEF TypeInv, PageShape, Untouched
<1>2. ASSUME NEW b \in Batches, BatchStep(b)
      PROVE  Shape(b)'
  <2> USE DEF TypeInv, TypeOK, PageShape, batchVars, exceptPc
  <2>1. CASE QueryEmpty(b) \/ QueryFails(b) \/ FetchPage(b)
    BY <2>1 DEF QueryEmpty, QueryFails, FetchPage
  <2>2. CASE NextChat(b) \/ PageOffered(b) \/ LimiterGrants(b)
    BY <2>2 DEF NextChat, PageOffered, LimiterGrants
  <2>3. CASE LimiterInterrupted(b) \/ EnqueueBroadcast(b) \/ EnqueueDropped(b)
    BY <2>3 DEF LimiterInterrupted, EnqueueBroadcast, EnqueueDropped, GiveUpChat
  <2>4. CASE PageCollected(b) \/ StampAlive(b) \/ StampFails(b)
    BY <2>4 DEF PageCollected, StampAlive, StampFails
  <2>5. CASE FlushDead(b) \/ FinalFlush(b) \/ FlushFails(b)
    BY <2>5 DEF FlushDead, FinalFlush, FlushFails
  <2> QED BY <1>2, <2>1, <2>2, <2>3, <2>4, <2>5 DEF BatchStep
<1>3. ASSUME NEW b \in Batches, BatchStep(b)
      PROVE  PageShape'
  BY <1>1, <1>2, <1>3, BatchStepFrame DEF PageShape, TypeInv
<1>4. ASSUME NEW b \in Batches, AddBatchTask(b) \/ NotifySend(b)
      PROVE  PageShape'
  BY <1>4 DEF AddBatchTask, NotifySend, exceptPc, batchVars, TypeInv, TypeOK, PageShape
<1>5. CASE ListenStart
  <2>1. Head(notify) \in Batches /\ pc[Head(notify)] = "queued"
    BY <1>5, HeadTailProperties DEF ListenStart, TypeInv, TypeOK, NotifyShape
  <2> QED BY <1>5, <2>1 DEF ListenStart, batchVars, TypeInv, TypeOK, PageShape
<1>6. ASSUME \/ SenderStep \/ ListenExit \/ Shutdown \/ DrainOne \/ DrainDone \/ StopBatchWorker
             \/ UNCHANGED vars \/ (\E b \in Batches : Feedback(b)) \/ \E c \in Chats : Revive(c)
       PROVE  PageShape'
  <2>1. UNCHANGED <<pc, page>>
    BY <1>6, SenderStepFrame, FeedbackFrame
       DEF ListenExit, Shutdown, DrainOne, DrainDone, StopBatchWorker, Revive, vars, batchVars, TypeInv
  <2> QED BY <1>1, <2>1 DEF PageShape
<1> QED BY <1>3, <1>4, <1>5, <1>6 DEF Next

(* Every state of every behaviour is type correct (and well shaped). *)
THEOREM TypeCorrect == Spec => []TypeOK
<1>1. TypeInv /\ [Next]_vars => TypeInv'
  BY TypeOKNext, SenderShapeNext, NotifyShapeNext, PageShapeNext DEF TypeInv
<1>2. Spec => []TypeInv
  BY TypeInit, <1>1, PTL DEF Spec
<1>3. TypeInv => TypeOK
  BY DEF TypeInv
<1> QED BY <1>2, <1>3, PTL
-------------------------------------------------------------------------------
(* Layer 2: offers, tasks and the feedbacks a batch is owed.                *)

(* Chats are offered in the order of their ids: nothing above the cursor    *)
(* has been offered, nothing still in the page has been.                    *)
Progress(b) ==
    /\ \A c \in page[b] : fate[b][c] = "none" /\ c <= cursor[b]
    /\ \A c \in Chats : fate[b][c] # "none" => c <= cursor[b]
    /\ pc[b] \in Waiting => cursor[b] = 0

Accounts(b) ==
    /\ pc[b] \in InPage => due[b] = Cardinality(page[b]) + Cardinality(Owed(b))
    /\ pc[b] \notin InPage \cup {"stopped"} => Owed(b) = {}

OfferInv == OneTaskEach /\ \A b \in Batches : Progress(b) /\ Accounts(b)

LEMMA OfferInit == Init => OfferInv
BY NoTaskAssumption DEF Init, OfferInv, OneTaskEach, Progress, Accounts, Queued,
   Owed, Fated, Waiting, InPage, Tasks

(* Sets of chats are finite; one more or one less changes a count by one.   *)
LEMMA Counting ==
    ASSUME NEW S \in SUBSET Chats, NEW c
    PROVE  /\ IsFiniteSet(S) /\ Cardinality(S) \in Nat
           /\ Cardinality(S) = 0 <=> S = {}
           /\ c \notin S => Cardinality(S \cup {c}) = Cardinality(S) + 1
           /\ c \in S => Cardinality(S \ {c}) = Cardinality(S) - 1
<1>1. IsFiniteSet(S)
  BY ChatsAssumption, FS_Subset
<1> QED BY <1>1, FS_CardinalityType, FS_EmptySet, FS_AddElement, FS_RemoveElement

(* The chat at hand. *)
LEMMA AtHand ==
    ASSUME TypeOK, NEW b \in Batches, page[b] # {}
    PROVE  First(page[b]) \in page[b] /\ First(page[b]) \in Chats
<1>1. page[b] \in SUBSET Nat /\ IsFiniteSet(page[b]) /\ page[b] \in SUBSET Chats
  BY ChatsAssumption, FS_Subset DEF TypeOK
<1> QED BY <1>1, Extremes

(* Nothing of Progress and Accounts changes for a batch that is left alone, *)
(* and a drop of one of its pending tasks keeps the task owed.              *)
LEMMA LeftAlone ==
    ASSUME NEW b \in Batches, Progress(b), Accounts(b),
           UNCHANGED <<pc[b], cursor[b], page[b], due[b]>>,
           TypeOK, TypeOK',
           \A c \in Chats : \/ fate'[b][c] = fate[b][c]
                            \/ fate[b][c] = "pending" /\ fate'[b][c] = "lost"
    PROVE  Progress(b)' /\ Accounts(b)'
<1>1. Owed(b)' = Owed(b)
  BY DEF Owed, Fated
<1>2. Progress(b)'
  BY DEF Progress, TypeOK
<1>3. Accounts(b)'
  BY <1>1 DEF Accounts
<1> QED BY <1>2, <1>3
(* Layer 2 at the steps that offer chats.                                   *)

LEMMA FetchPageKeeps ==
    ASSUME TypeInv, TypeOK', OfferInv, NEW b \in Batches, FetchPage(b)
    PROVE  Progress(b)' /\ Accounts(b)'
<1> DEFINE P == NextPage(b)
<1>1. /\ P \subseteq Eligible(b) /\ P # {}
      /\ Last(P) \in Eligible(b) /\ \A c \in P : c <= Last(P)
  BY PageQuery DEF FetchPage, TypeInv, TypeOK
<1>2. /\ page'[b] = P /\ due'[b] = Cardinality(P) /\ cursor'[b] = Last(P)
      /\ pc'[b] = "chat" /\ fate' = fate
  BY DEF FetchPage, TypeInv, TypeOK, historyVars
<1>3. Owed(b)' = {} /\ Cardinality(Owed(b)') = 0
  BY <1>2, FS_EmptySet DEF OfferInv, Accounts, FetchPage, InPage, Owed, Fated
<1>4. P \subseteq Chats /\ Cardinality(P) \in Nat /\ Eligible(b) \subseteq Chats
  BY <1>1, Counting DEF Eligible, TypeInv, TypeOK
<1>5. \A c \in P : fate[b][c] = "none"
  <2>1. \A c \in P : c \in Chats /\ c \in Nat /\ c > cursor[b]
    BY <1>1, <1>4, ChatsAssumption DEF Eligible
  <2>2. cursor[b] \in Nat /\ Progress(b)
    BY DEF OfferInv, TypeInv, TypeOK
  <2> QED BY <2>1, <2>2 DEF Progress
<1>6. \A c \in Chats : fate[b][c] # "none" => c <= Last(P)
  <2>1. Last(P) \in Nat /\ cursor[b] \in Nat /\ cursor[b] < Last(P)
    BY <1>1, ChatsAssumption DEF Eligible, TypeInv, TypeOK
  <2> QED BY <2>1, ChatsAssumption DEF OfferInv, Progress
<1>7. Progress(b)'
  BY <1>1, <1>2, <1>5, <1>6 DEF Progress, Waiting
<1>8. Accounts(b)'
  BY <1>2, <1>3, <1>4 DEF Accounts, InPage
<1> QED BY <1>7, <1>8

(* The chat at hand is offered or given up: it moves from the page to the   *)
(* chats that are owed an answer.                                           *)
LEMMA OfferKeeps ==
    ASSUME TypeInv, OfferInv, NEW b \in Batches, pc[b] \in {"limit", "enqueue"},
           NEW f \in {"pending", "lost"},
           page' = [page EXCEPT ![b] = @ \ {First(@)}],
           Mark(b, First(page[b]), f),
           pc' = [pc EXCEPT ![b] = "chat"],
           UNCHANGED <<cursor, due>>
    PROVE  Progress(b)' /\ Accounts(b)'
<1> DEFINE c == First(page[b])
<1>1. c \in page[b] /\ c \in Chats /\ page[b] \subseteq Chats
  BY AtHand DEF TypeInv, PageShape, TypeOK
<1>2. fate[b][c] = "none" /\ c <= cursor[b]
  BY <1>1 DEF OfferInv, Progress
<1>3. /\ page'[b] = page[b] \ {c}
      /\ \A d \in Chats : fate'[b][d] = IF d = c THEN f ELSE fate[b][d]
      /\ pc'[b] = "chat" /\ cursor'[b] = cursor[b] /\ due'[b] = due[b]
  BY <1>1 DEF TypeInv, TypeOK, Mark
<1>4. Owed(b)' = Owed(b) \cup {c} /\ c \notin Owed(b)
  BY <1>1, <1>2, <1>3 DEF Owed, Fated
<1>5. /\ Cardinality(Owed(b)') = Cardinality(Owed(b)) + 1
      /\ Cardinality(page'[b]) = Cardinality(page[b]) - 1
      /\ Cardinality(Owed(b)) \in Nat /\ Cardinality(page[b]) \in Nat
  <2>1. Owed(b) \in SUBSET Chats /\ page[b] \in SUBSET Chats
    BY <1>1 DEF Owed, Fated
  <2>2. Cardinality(Owed(b) \cup {c}) = Cardinality(Owed(b)) + 1 /\ Cardinality(Owed(b)) \in Nat
    BY <2>1, <1>4, Counting
  <2>3. Cardinality(page[b] \ {c}) = Cardinality(page[b]) - 1 /\ Cardinality(page[b]) \in Nat
    BY <2>1, <1>1, Counting
  <2> QED BY <2>2, <2>3, <1>3, <1>4
<1>6. due[b] = Cardinality(page[b]) + Cardinality(Owed(b))
  BY DEF OfferInv, Accounts, InPage
<1>7. Progress(b)'
  BY <1>1, <1>2, <1>3 DEF OfferInv, Progress, Waiting
<1>8. Accounts(b)'
  BY <1>3, <1>5, <1>6 DEF Accounts, InPage
<1> QED BY <1>7, <1>8

(* A feedback settles one chat and one of the feedbacks the batch is due.   *)
LEMMA FeedbackKeeps ==
    ASSUME TypeInv, OfferInv, NEW b \in Batches, Feedback(b)
    PROVE  Progress(b)' /\ Accounts(b)'
<1> DEFINE c == wtask.chat
<1>1. wtask \in Tasks /\ wtask.batch = b /\ c \in Chats
  BY DEF Feedback, TypeInv, TypeOK, SenderShape, Tasks
<1>2. wresult \in Verdicts
  BY DEF Feedback, TypeInv, TypeOK, SenderShape
<1>3. fate[b][c] = "pending"
  BY <1>1 DEF OfferInv, OneTaskEach
<1>4. /\ \A d \in Chats : fate'[b][d] = IF d = c THEN wresult ELSE fate[b][d]
      /\ due'[b] = due[b] - 1 /\ due[b] \in Nat
      /\ UNCHANGED <<pc, page, cursor>> /\ pc[b] = "collect"
  BY <1>1 DEF Feedback, TypeInv, TypeOK, Mark
<1>5. Owed(b)' = Owed(b) \ {c} /\ c \in Owed(b) /\ Owed(b) \in SUBSET Chats
  BY <1>1, <1>2, <1>3, <1>4 DEF Owed, Fated, Verdicts
<1>6. /\ Cardinality(Owed(b)') = Cardinality(Owed(b)) - 1
      /\ Cardinality(Owed(b)) \in Nat /\ Cardinality(page[b]) \in Nat
  <2>1. page[b] \in SUBSET Chats
    BY DEF TypeInv, TypeOK
  <2>2. Cardinality(Owed(b) \ {c}) = Cardinality(Owed(b)) - 1 /\ Cardinality(Owed(b)) \in Nat
    BY <1>5, Counting
  <2> QED BY <2>1, <2>2, <1>5, Counting
<1>7. due[b] = Cardinality(page[b]) + Cardinality(Owed(b))
  BY <1>4 DEF OfferInv, Accounts, InPage
<1>8. Progress(b)'
  <2>1. Progress(b) /\ page[b] \subseteq Chats
    BY DEF OfferInv, TypeInv, TypeOK
  <2> QED BY <1>1, <1>3, <1>4, <2>1 DEF Progress, Waiting
<1>9. Accounts(b)'
  BY <1>4, <1>6, <1>7 DEF Accounts, InPage
<1> QED BY <1>8, <1>9
(* The rest of a batch's goroutine offers nothing. *)
LEMMA PlainStepKeeps ==
    ASSUME TypeInv, TypeInv', OfferInv, NEW b \in Batches, BatchStep(b),
           UNCHANGED <<cursor[b], page[b], due[b], fate[b]>>
    PROVE  Progress(b)' /\ Accounts(b)'
<1>1. Owed(b)' = Owed(b) /\ Progress(b) /\ Accounts(b)
  BY DEF Owed, Fated, OfferInv
<1>2. pc[b] \notin Waiting /\ pc'[b] \notin Waiting
  BY BatchStepFrame DEF TypeInv, Running, InPage, Between, Ended, Waiting
<1>3. Progress(b)'
  BY <1>1, <1>2 DEF Progress
<1>4. CASE PageCollected(b)
  <2>1. /\ pc[b] = "collect" /\ pc'[b] = "stamp" /\ due[b] = 0 /\ page[b] = {}
    BY <1>4 DEF PageCollected, TypeInv, TypeOK, PageShape
  <2>2. Owed(b) = {}
    <3>1. Owed(b) \in SUBSET Chats /\ Cardinality(page[b]) = 0
      BY <2>1, FS_EmptySet DEF Owed, Fated
    <3>2. due[b] = Cardinality(page[b]) + Cardinality(Owed(b))
      BY <1>1, <2>1 DEF Accounts, InPage
    <3>3. Cardinality(Owed(b)) \in Nat /\ (Cardinality(Owed(b)) = 0 <=> Owed(b) = {})
      BY <3>1, Counting
    <3> QED BY <2>1, <3>1, <3>2, <3>3
  <2> QED BY <1>1, <1>3, <2>1, <2>2 DEF Accounts, InPage
<1>5. ASSUME \/ pc[b] \in InPage /\ pc'[b] \in InPage \cup {"stopped"}
             \/ pc[b] \notin InPage \cup {"stopped"} /\ pc'[b] \notin InPage
      PROVE  Accounts(b)'
  BY <1>1, <1>5 DEF Accounts, InPage
<1>6. CASE NextChat(b) \/ PageOffered(b) \/ LimiterGrants(b) \/ LimiterInterrupted(b)
           \/ EnqueueBroadcast(b) \/ EnqueueDropped(b)
  BY <1>3, <1>5, <1>6 DEF NextChat, PageOffered, LimiterGrants, LimiterInterrupted,
     EnqueueBroadcast, EnqueueDropped, GiveUpChat, TypeInv, TypeOK, InPage
<1>7. CASE QueryEmpty(b) \/ QueryFails(b) \/ StampAlive(b) \/ StampFails(b)
           \/ FlushDead(b) \/ FinalFlush(b) \/ FlushFails(b)
  BY <1>3, <1>5, <1>7 DEF QueryEmpty, QueryFails, StampAlive, StampFails, FlushDead,
     FinalFlush, FlushFails, TypeInv, TypeOK, InPage
<1>8. CASE FetchPage(b)
  BY <1>8, FetchPageKeeps DEF TypeInv
<1> QED BY <1>4, <1>6, <1>7, <1>8, <1>3 DEF BatchStep

LEMMA BatchStepKeeps ==
    ASSUME TypeInv, TypeInv', OfferInv, NEW b \in Batches, BatchStep(b)
    PROVE  \A x \in Batches : Progress(x)' /\ Accounts(x)'
<1>1. ASSUME NEW x \in Batches, x # b
      PROVE  Progress(x)' /\ Accounts(x)'
  BY <1>1, BatchStepFrame, LeftAlone DEF Untouched, TypeInv, OfferInv
<1>2. CASE FetchPage(b)
  BY <1>1, <1>2, FetchPageKeeps DEF TypeInv
<1>3. CASE LimiterInterrupted(b) \/ EnqueueDropped(b)
  BY <1>1, <1>3, OfferKeeps DEF LimiterInterrupted, EnqueueDropped, GiveUpChat
<1>4. CASE EnqueueBroadcast(b)
  BY <1>1, <1>4, OfferKeeps DEF EnqueueBroadcast
<1>5. CASE \/ QueryEmpty(b) \/ QueryFails(b) \/ NextChat(b) \/ PageOffered(b) \/ LimiterGrants(b)
           \/ PageCollected(b) \/ StampAlive(b) \/ StampFails(b)
           \/ FlushDead(b) \/ FinalFlush(b) \/ FlushFails(b)
  <2>1. UNCHANGED <<cursor[b], page[b], due[b], fate[b]>>
    BY <1>5 DEF QueryEmpty, QueryFails, NextChat, PageOffered, LimiterGrants,
       PageCollected, StampAlive, StampFails, FlushDead, FinalFlush, FlushFails,
       exceptPc, batchVars, historyVars
  <2> QED BY <1>1, <2>1, PlainStepKeeps
<1> QED BY <1>2, <1>3, <1>4, <1>5 DEF BatchStep

(* Marking a task's chat changes the fate of that task only. *)
LEMMA Marked ==
    ASSUME TypeOK, NEW u \in Tasks, NEW f, Mark(u.batch, u.chat, f)
    PROVE  \A t \in Tasks :
              fate'[t.batch][t.chat] = IF t = u THEN f ELSE fate[t.batch][t.chat]
<1> SUFFICES ASSUME NEW t \in Tasks
             PROVE  fate'[t.batch][t.chat] = IF t = u THEN f ELSE fate[t.batch][t.chat]
  OBVIOUS
<1>1. /\ t.batch \in Batches /\ t.chat \in Chats /\ u.batch \in Batches /\ u.chat \in Chats
      /\ (t.batch = u.batch /\ t.chat = u.chat) <=> t = u
  BY DEF Tasks
<1>2. fate'[t.batch][t.chat] =
        IF t.batch = u.batch /\ t.chat = u.chat THEN f ELSE fate[t.batch][t.chat]
  <2> HIDE DEF Tasks
  <2> DEFINE tb == t.batch
             tc == t.chat
             ub == u.batch
             uc == u.chat
  <2>1. fate' = [fate EXCEPT ![ub][uc] = f] /\ tb \in Batches /\ tc \in Chats
    BY <1>1 DEF Mark
  <2> HIDE DEF tb, tc, ub, uc
  <2>2. fate'[tb][tc] = IF tb = ub /\ tc = uc THEN f ELSE fate[tb][tc]
    BY <2>1 DEF TypeOK
  <2> QED BY <2>2 DEF tb, tc, ub, uc
<1> QED BY <1>1, <1>2

(* The queue after a task is added or the first one is taken. *)
LEMMA QueueAppend ==
    ASSUME queue \in Seq(Tasks), NEW u \in Tasks, queue' = Append(queue, u),
           \A i, j \in 1..Len(queue) : queue[i] = queue[j] => i = j, ~Queued(u)
    PROVE  /\ \A i, j \in 1..Len(queue') : queue'[i] = queue'[j] => i = j
           /\ \A t \in Tasks : Queued(t)' <=> Queued(t) \/ t = u
<1>1. /\ Len(queue') = Len(queue) + 1 /\ queue'[Len(queue) + 1] = u /\ Len(queue) \in Nat
      /\ \A i \in 1..Len(queue) : queue'[i] = queue[i]
  BY AppendProperties
<1>2. \A i \in 1..Len(queue) : queue[i] # u
  BY DEF Queued
<1>3. \A i, j \in 1..Len(queue') : queue'[i] = queue'[j] => i = j
  BY <1>1, <1>2
<1>4. \A t \in Tasks : Queued(t)' <=> Queued(t) \/ t = u
  BY <1>1 DEF Queued
<1> QED BY <1>3, <1>4

LEMMA QueueTail ==
    ASSUME queue \in Seq(Tasks), queue # <<>>, queue' = Tail(queue),
           \A i, j \in 1..Len(queue) : queue[i] = queue[j] => i = j
    PROVE  /\ Head(queue) \in Tasks /\ Queued(Head(queue))
           /\ \A i, j \in 1..Len(queue') : queue'[i] = queue'[j] => i = j
           /\ \A t \in Tasks : Queued(t)' <=> Queued(t) /\ t # Head(queue)
<1>1. /\ Len(queue') = Len(queue) - 1 /\ Len(queue) \in Nat /\ Len(queue) > 0
      /\ \A i \in 1..Len(queue') : queue'[i] = queue[i + 1]
      /\ Head(queue) = queue[1] /\ Head(queue) \in Tasks
  BY HeadTailProperties
<1>2. \A i, j \in 1..Len(queue') : queue'[i] = queue'[j] => i = j
  BY <1>1
<1>3. ASSUME NEW t \in Tasks
      PROVE  Queued(t)' <=> Queued(t) /\ t # Head(queue)
  <2>1. ASSUME Queued(t)' PROVE Queued(t) /\ t # Head(queue)
    <3>1. PICK i \in 1..Len(queue') : queue'[i] = t
      BY <2>1 DEF Queued
    <3>2. i + 1 \in 1..Len(queue) /\ queue[i + 1] = t /\ 1 \in 1..Len(queue) /\ i + 1 # 1
      BY <1>1, <3>1
    <3> QED BY <1>1, <3>2 DEF Queued
  <2>2. ASSUME Queued(t), t # Head(queue) PROVE Queued(t)'
    <3>1. PICK i \in 1..Len(queue) : queue[i] = t
      BY <2>2 DEF Queued
    <3>2. i - 1 \in 1..Len(queue') /\ queue'[i - 1] = queue[i]
      BY <1>1, <2>2, <3>1
    <3> QED BY <3>1, <3>2 DEF Queued
  <2> QED BY <2>1, <2>2
<1> QED BY <1>1, <1>2, <1>3 DEF Queued

(* A task is made for a chat that was not offered before, and leaves its    *)
(* place when the chat's fate is settled.                                   *)
LEMMA OneTaskNext ==
    ASSUME TypeInv, TypeInv', OfferInv, [Next]_vars
    PROVE  OneTaskEach'
<1> USE DEF OneTaskEach
<1>0. /\ TypeOK /\ queue \in Seq(Tasks) /\ wtask \in Tasks \cup {NoTask} /\ NoTask \notin Tasks
      /\ OneTaskEach /\ wresult # "pending"
  BY NoTaskAssumption DEF OfferInv, TypeInv, TypeOK, Tasks, Verdicts
<1>1. CASE UNCHANGED <<queue, wtask, fate>>
  BY <1>0, <1>1 DEF Queued
<1>2. ASSUME NEW b \in Batches, page[b] # {}
      PROVE  /\ [batch |-> b, chat |-> First(page[b])] \in Tasks
             /\ fate[b][First(page[b])] = "none"
  BY <1>0, <1>2, AtHand DEF OfferInv, Progress, Tasks
<1>3. ASSUME NEW b \in Batches, EnqueueBroadcast(b)
      PROVE  OneTaskEach'
  <2> DEFINE u == [batch |-> b, chat |-> First(page[b])]
  <2>1. /\ u \in Tasks /\ fate[u.batch][u.chat] = "none"
        /\ queue' = Append(queue, u) /\ Mark(u.batch, u.chat, "pending") /\ UNCHANGED wtask
    BY <1>2, <1>3 DEF EnqueueBroadcast, TypeInv, PageShape, senderVars
  <2>2. wtask # u /\ ~Queued(u)
    BY <1>0, <2>1
  <2> HIDE DEF u
  <2>3. \A t \in Tasks :
          fate'[t.batch][t.chat] = IF t = u THEN "pending" ELSE fate[t.batch][t.chat]
    BY <1>0, <2>1, Marked
  <2> QED BY <1>0, <2>1, <2>2, <2>3, QueueAppend
<1>4. ASSUME NEW b \in Batches, LimiterInterrupted(b) \/ EnqueueDropped(b)
      PROVE  OneTaskEach'
  <2> DEFINE u == [batch |-> b, chat |-> First(page[b])]
  <2>1. /\ u \in Tasks /\ fate[u.batch][u.chat] = "none"
        /\ Mark(u.batch, u.chat, "lost") /\ UNCHANGED <<queue, wtask>>
    BY <1>2, <1>4 DEF LimiterInterrupted, EnqueueDropped, GiveUpChat, TypeInv, PageShape, senderVars
  <2> HIDE DEF u
  <2>2. \A t \in Tasks :
          fate'[t.batch][t.chat] = IF t = u THEN "lost" ELSE fate[t.batch][t.chat]
    BY <1>0, <2>1, Marked
  <2> QED BY <1>0, <2>1, <2>2 DEF Queued
<1>5. CASE TakeTask
  <2>1. wtask = NoTask /\ wtask' = Head(queue) /\ UNCHANGED fate
    BY <1>5 DEF TakeTask, historyVars, TypeInv, SenderShape
  <2> QED BY <1>0, <1>5, <2>1, QueueTail DEF TakeTask
<1>6. ASSUME wtask \in Tasks, wtask' = NoTask, UNCHANGED queue,
             NEW f, f # "pending", Mark(wtask.batch, wtask.chat, f)
      PROVE  OneTaskEach'
  <2>1. \A t \in Tasks :
          fate'[t.batch][t.chat] = IF t = wtask THEN f ELSE fate[t.batch][t.chat]
    BY <1>0, <1>6, Marked
  <2> QED BY <1>0, <1>6, <2>1 DEF Queued
<1>7. CASE SenderLimiterInterrupted
  BY <1>0, <1>6, <1>7 DEF SenderLimiterInterrupted, TypeInv, SenderShape
<1>8. ASSUME NEW b \in Batches, Feedback(b)
      PROVE  OneTaskEach'
  BY <1>0, <1>6, <1>8 DEF Feedback, TypeInv, SenderShape
<1>9. CASE DrainOne
  <2>1. /\ queue # <<>> /\ queue' = Tail(queue) /\ UNCHANGED wtask
        /\ Mark(Head(queue).batch, Head(queue).chat, "lost")
    BY <1>9 DEF DrainOne, senderVars
  <2>2. /\ Head(queue) \in Tasks /\ Queued(Head(queue))
        /\ \A i, j \in 1..Len(queue') : queue'[i] = queue'[j] => i = j
        /\ \A t \in Tasks : Queued(t)' <=> Queued(t) /\ t # Head(queue)
    BY <1>0, <2>1, QueueTail
  <2>3. \A t \in Tasks :
          fate'[t.batch][t.chat] = IF t = Head(queue) THEN "lost" ELSE fate[t.batch][t.chat]
    <3> DEFINE u == Head(queue)
    <3>1. u \in Tasks /\ Mark(u.batch, u.chat, "lost")
      BY <2>1, <2>2
    <3> HIDE DEF u
    <3>2. \A t \in Tasks :
            fate'[t.batch][t.chat] = IF t = u THEN "lost" ELSE fate[t.batch][t.chat]
      BY <1>0, <3>1, Marked
    <3> QED BY <3>2 DEF u
  <2> QED BY <1>0, <2>1, <2>2, <2>3
<1>10. ASSUME NEW b \in Batches,
              \/ QueryEmpty(b) \/ QueryFails(b) \/ FetchPage(b) \/ NextChat(b) \/ PageOffered(b)
              \/ LimiterGrants(b) \/ PageCollected(b) \/ StampAlive(b) \/ StampFails(b)
              \/ FlushDead(b) \/ FinalFlush(b) \/ FlushFails(b) \/ AddBatchTask(b) \/ NotifySend(b)
       PROVE  UNCHANGED <<queue, wtask, fate>>
  BY <1>10 DEF QueryEmpty, QueryFails, FetchPage, NextChat, PageOffered, LimiterGrants,
     PageCollected, StampAlive, StampFails, FlushDead, FinalFlush, FlushFails,
     AddBatchTask, NotifySend, exceptPc, senderVars, historyVars
<1>11. ASSUME \/ ListenStart \/ ListenExit \/ SenderLimiterGrants \/ SendSettles \/ SendFails
              \/ SenderExit \/ Shutdown \/ DrainDone \/ StopBatchWorker
              \/ UNCHANGED vars \/ \E c \in Chats : Revive(c)
       PROVE  UNCHANGED <<queue, wtask, fate>>
  BY <1>11 DEF ListenStart, ListenExit, SenderLimiterGrants, SendSettles, SendFails,
     SenderExit, Shutdown, DrainDone, StopBatchWorker, Revive, vars, senderVars, historyVars
<1> HIDE DEF OneTaskEach
<1> QED BY <1>1, <1>3, <1>4, <1>5, <1>7, <1>8, <1>9, <1>10, <1>11 DEF Next, BatchStep, SenderStep

(* Layer 2 at every step. *)
LEMMA OfferNext == TypeInv /\ TypeInv' /\ OfferInv /\ [Next]_vars => OfferInv'
<1> SUFFICES ASSUME TypeInv, TypeInv', OfferInv, [Next]_vars
             PROVE  \A x \in Batches : Progress(x)' /\ Accounts(x)'
  BY OneTaskNext DEF OfferInv
<1>1. ASSUME NEW b \in Batches, BatchStep(b)
      PROVE  \A x \in Batches : Progress(x)' /\ Accounts(x)'
  BY <1>1, BatchStepKeeps
<1>2. ASSUME NEW b \in Batches, Feedback(b)
      PROVE  \A x \in Batches : Progress(x)' /\ Accounts(x)'
  <2>1. ASSUME NEW x \in Batches, x # b
        PROVE  Progress(x)' /\ Accounts(x)'
    BY <1>2, <2>1, FeedbackFrame, LeftAlone DEF Untouched, TypeInv, OfferInv
  <2> QED BY <1>2, <2>1, FeedbackKeeps
<1>3. ASSUME NEW u \in Tasks, fate[u.batch][u.chat] = "pending",
             Mark(u.batch, u.chat, "lost"), UNCHANGED <<pc, cursor, page, due>>
      PROVE  \A x \in Batches : Progress(x)' /\ Accounts(x)'
  <2> SUFFICES ASSUME NEW x \in Batches
               PROVE  Progress(x)' /\ Accounts(x)'
    OBVIOUS
  <2>1. ASSUME NEW c \in Chats
        PROVE  \/ fate'[x][c] = fate[x][c]
               \/ fate[x][c] = "pending" /\ fate'[x][c] = "lost"
    <3> DEFINE t == [batch |-> x, chat |-> c]
    <3>1. t \in Tasks /\ t.batch = x /\ t.chat = c
      BY DEF Tasks
    <3>2. fate'[t.batch][t.chat] = IF t = u THEN "lost" ELSE fate[t.batch][t.chat]
      BY <1>3, <3>1, Marked DEF TypeInv
    <3>3. CASE t = u
      BY <1>3, <3>1, <3>2, <3>3
    <3>4. CASE t # u
      BY <3>1, <3>2, <3>4
    <3> QED BY <3>3, <3>4
  <2> QED BY <1>3, <2>1, LeftAlone DEF TypeInv, OfferInv
<1>4. CASE SenderLimiterInterrupted
  <2>1. /\ wtask \in Tasks /\ fate[wtask.batch][wtask.chat] = "pending"
        /\ Mark(wtask.batch, wtask.chat, "lost") /\ UNCHANGED <<pc, cursor, page, due>>
    BY <1>4 DEF SenderLimiterInterrupted, batchVars, TypeInv, TypeOK, SenderShape, OfferInv, OneTaskEach
  <2> QED BY <1>3, <2>1
<1>5. CASE DrainOne
  <2> DEFINE u == Head(queue)
  <2>1. u \in Tasks /\ Queued(u)
    BY <1>5, HeadTailProperties DEF DrainOne, Queued, TypeInv, TypeOK
  <2>2. /\ fate[u.batch][u.chat] = "pending"
        /\ Mark(u.batch, u.chat, "lost") /\ UNCHANGED <<pc, cursor, page, due>>
    BY <1>5, <2>1 DEF DrainOne, batchVars, OfferInv, OneTaskEach
  <2> HIDE DEF u
  <2> QED BY <1>3, <2>1, <2>2
<1>6. ASSUME NEW b \in Batches, AddBatchTask(b) \/ NotifySend(b)
      PROVE  \A x \in Batches : Progress(x)' /\ Accounts(x)'
  <2>1. /\ UNCHANGED <<cursor, page, due, fate>>
        /\ \A x \in Batches : pc'[x] # pc[x] => pc[x] \in Waiting /\ pc'[x] \in Waiting
    BY <1>6 DEF AddBatchTask, NotifySend, exceptPc, batchVars, historyVars, Waiting, TypeInv, TypeOK
  <2>2. \A x \in Batches : Owed(x)' = Owed(x)
    BY <2>1 DEF Owed, Fated
  <2> QED BY <2>1, <2>2 DEF Progress, Accounts, OfferInv, Waiting, InPage
<1>7. CASE ListenStart
  <2>1. /\ UNCHANGED <<cursor, page, due, fate>>
        /\ \A x \in Batches : pc'[x] # pc[x] => pc[x] = "queued" /\ pc'[x] = "query"
    <3>1. Head(notify) \in Batches /\ pc[Head(notify)] = "queued"
      BY <1>7, HeadTailProperties DEF ListenStart, TypeInv, TypeOK, NotifyShape
    <3> QED BY <1>7, <3>1 DEF ListenStart, batchVars, TypeInv, TypeOK
  <2>2. \A x \in Batches : Owed(x)' = Owed(x)
    BY <2>1 DEF Owed, Fated
  <2> QED BY <2>1, <2>2 DEF Progress, Accounts, OfferInv, Waiting, InPage
<1>8. ASSUME UNCHANGED <<pc, cursor, page, due, fate>>
      PROVE  \A x \in Batches : Progress(x)' /\ Accounts(x)'
  BY <1>8, LeftAlone DEF OfferInv, TypeInv
<1>9. ASSUME \/ ListenExit \/ TakeTask \/ SenderLimiterGrants \/ SendSettles \/ SendFails
             \/ SenderExit \/ Shutdown \/ DrainDone \/ StopBatchWorker
             \/ UNCHANGED vars \/ \E c \in Chats : Revive(c)
      PROVE  UNCHANGED <<pc, cursor, page, due, fate>>
  BY <1>9 DEF ListenExit, TakeTask, SenderLimiterGrants, SendSettles, SendFails,
     SenderExit, Shutdown, DrainDone, StopBatchWorker, Revive, vars, batchVars, historyVars
<1> QED BY <1>1, <1>2, <1>4, <1>5, <1>6, <1>7, <1>8, <1>9 DEF Next, SenderStep

LEMMA Offers == Spec => [](TypeInv /\ OfferInv)
<1>1. TypeInv /\ [Next]_vars => TypeInv'
  BY TypeOKNext, SenderShapeNext, NotifyShapeNext, PageShapeNext DEF TypeInv
<1>2. TypeInv /\ OfferInv /\ [Next]_vars => TypeInv' /\ OfferInv'
  BY <1>1, OfferNext
<1> QED BY TypeInit, OfferInit, <1>2, PTL DEF Spec

(* A batch waits for exactly the feedbacks it is owed, and owes itself      *)
(* nothing between two pages or when it reports success.                    *)
THEOREM Accounting == Spec => []PageAccounting
<1>1. OfferInv => PageAccounting
  BY DEF OfferInv, Accounts, PageAccounting
<1> QED BY Offers, <1>1, PTL

(* No chat is sent a batch by two tasks, and no pending chat is forgotten.  *)
THEOREM TasksAreUnique == Spec => []OneTaskEach
<1>1. OfferInv => OneTaskEach
  BY DEF OfferInv
<1> QED BY Offers, <1>1, PTL

-------------------------------------------------------------------------------
(* Layer 3: what a batch knows of its outcome.                              *)

(* A batch only stops with answers outstanding at a shutdown.  Outside the  *)
(* page loop the stamped chats are the reached ones; until the last flush   *)
(* the dead ones are retired or still to be.  A verdict that a shutdown     *)
(* forged never gets past the timestamp update of its page.                 *)
Outcome(b) ==
    /\ pc[b] = "stopped" /\ ~cancelled => Owed(b) = {}
    /\ pc[b] \in InPage \cup {"stamp"} => stamped[b] \cup alive[b] = Fated(b, {"alive"})
    /\ pc[b] \notin InPage \cup {"stamp", "stopped"} => stamped[b] = Fated(b, {"alive"})
    /\ pc[b] \notin Ended => retired[b] \cup dead[b] = Fated(b, {"dead", "cut"})
    /\ pc[b] = "done" => retired[b] = Fated(b, {"dead", "cut"})
    /\ retired[b] \subseteq Fated(b, {"dead"})
    /\ \A c \in Chats : fate[b][c] = "cut" =>
          cancelled /\ pc[b] \in {"collect", "stamp", "stopped"}

OutcomeInv == \A b \in Batches : Outcome(b)

LEMMA OutcomeInit == Init => OutcomeInv
BY DEF Init, OutcomeInv, Outcome, Owed, Fated, InPage, Ended

(* Verdicts do not change when a batch is left alone, nor at a shutdown.    *)
LEMMA OutcomeLeftAlone ==
    ASSUME NEW b \in Batches, Outcome(b), cancelled => cancelled',
           UNCHANGED <<pc[b], stamped[b], alive[b], dead[b], retired[b]>>,
           \A c \in Chats : \/ fate'[b][c] = fate[b][c]
                            \/ fate[b][c] = "pending" /\ fate'[b][c] = "lost"
    PROVE  Outcome(b)'
<1>1. /\ Owed(b)' = Owed(b)
      /\ Fated(b, {"alive"})' = Fated(b, {"alive"})
      /\ Fated(b, {"dead", "cut"})' = Fated(b, {"dead", "cut"})
      /\ Fated(b, {"dead"})' = Fated(b, {"dead"})
  BY DEF Owed, Fated
<1>2. \A c \in Chats : fate'[b][c] = "cut" => fate[b][c] = "cut"
  OBVIOUS
<1> QED BY <1>1, <1>2 DEF Outcome

LEMMA OutcomeBatchStep ==
    ASSUME TypeInv, OfferInv, NEW b \in Batches, Outcome(b), BatchStep(b)
    PROVE  Outcome(b)'
<1> USE DEF TypeInv, TypeOK, InPage, Ended
<1>1. CASE fate'[b] = fate[b]
  <2>1. /\ Owed(b)' = Owed(b)
        /\ Fated(b, {"alive"})' = Fated(b, {"alive"})
        /\ Fated(b, {"dead", "cut"})' = Fated(b, {"dead", "cut"})
        /\ Fated(b, {"dead"})' = Fated(b, {"dead"})
        /\ \A c \in Chats : fate'[b][c] = fate[b][c]
    BY <1>1 DEF Owed, Fated
  <2>2. CASE QueryEmpty(b) \/ QueryFails(b) \/ PageCollected(b)
    BY <2>1, <2>2 DEF QueryEmpty, QueryFails, PageCollected, Outcome,
       exceptPc, batchVars, tableVars, lifeVars, historyVars
  <2>3. CASE NextChat(b) \/ PageOffered(b) \/ LimiterGrants(b)
    BY <2>1, <2>3 DEF NextChat, PageOffered, LimiterGrants, Outcome,
       exceptPc, batchVars, tableVars, lifeVars, historyVars
  <2>4. CASE FetchPage(b)
    BY <2>1, <2>4 DEF FetchPage, Outcome, tableVars, lifeVars, historyVars
  <2>5. CASE StampAlive(b)
    BY <2>1, <2>5 DEF StampAlive, DbUp, Outcome, batchVars, lifeVars, historyVars
  <2>6. CASE StampFails(b)
    <3>1. Owed(b) = {} /\ pc'[b] = "stopped" /\ UNCHANGED <<retired, cancelled>>
      BY <2>6 DEF StampFails, OfferInv, Accounts, lifeVars, historyVars
    <3> QED BY <2>1, <3>1, <2>6 DEF StampFails, Outcome
  <2>7. CASE FlushDead(b)
    <3>1. /\ retired'[b] = retired[b] \cup dead[b] /\ dead'[b] = {} /\ stamped'[b] = stamped[b]
          /\ pc[b] = "flush" /\ pc'[b] = "query" /\ cancelled' = cancelled
      BY <2>7 DEF FlushDead, MarkDead, lifeVars
    <3>2. Fated(b, {"dead", "cut"}) \subseteq Fated(b, {"dead"})
      BY <3>1 DEF Outcome, Fated
    <3> QED BY <2>1, <3>1, <3>2 DEF Outcome
  <2>8. CASE FinalFlush(b)
    <3>1. /\ retired'[b] = retired[b] \cup dead[b] /\ stamped'[b] = stamped[b]
          /\ pc[b] = "final" /\ pc'[b] = "done" /\ cancelled' = cancelled
      BY <2>8 DEF FinalFlush, MarkDead, lifeVars
    <3>2. Fated(b, {"dead", "cut"}) \subseteq Fated(b, {"dead"})
      BY <3>1 DEF Outcome, Fated
    <3> QED BY <2>1, <3>1, <3>2 DEF Outcome
  <2>9. CASE FlushFails(b)
    <3>1. /\ retired'[b] \subseteq retired[b] \cup dead[b]
          /\ pc[b] \in {"flush", "final"} /\ pc'[b] = "stopped" /\ cancelled' = cancelled
      BY <2>9 DEF FlushFails, MarkDead, lifeVars
    <3>2. Fated(b, {"dead", "cut"}) \subseteq Fated(b, {"dead"})
      BY <3>1 DEF Outcome, Fated
    <3>3. Owed(b) = {}
      BY <3>1 DEF OfferInv, Accounts
    <3> QED BY <2>1, <3>1, <3>2, <3>3 DEF Outcome
  <2>10. CASE LimiterInterrupted(b) \/ EnqueueBroadcast(b) \/ EnqueueDropped(b)
    <3>1. page[b] # {} /\ \E f \in {"pending", "lost"} : fate'[b][First(page[b])] = f
      BY <2>10, AtHand DEF LimiterInterrupted, EnqueueBroadcast, EnqueueDropped, GiveUpChat, Mark, PageShape
    <3>2. fate[b][First(page[b])] = "none"
      BY <3>1, AtHand DEF OfferInv, Progress
    <3> QED BY <2>1, <3>1, <3>2, AtHand
  <2> QED BY <2>2, <2>3, <2>4, <2>5, <2>6, <2>7, <2>8, <2>9, <2>10 DEF BatchStep
<1>2. CASE LimiterInterrupted(b) \/ EnqueueBroadcast(b) \/ EnqueueDropped(b)
  <2> DEFINE c == First(page[b])
  <2>1. /\ UNCHANGED <<stamped, alive, dead, retired, cancelled>>
        /\ pc[b] \in {"limit", "enqueue"} /\ pc'[b] = "chat"
        /\ \E f \in {"pending", "lost"} : Mark(b, c, f)
    BY <1>2 DEF LimiterInterrupted, EnqueueBroadcast, EnqueueDropped, GiveUpChat, tableVars, lifeVars
  <2>2. c \in Chats /\ fate[b][c] = "none"
    BY <2>1, AtHand DEF OfferInv, Progress, PageShape
  <2>3. \A d \in Chats : d # c => fate'[b][d] = fate[b][d]
    BY <2>1, <2>2 DEF Mark
  <2>4. fate'[b][c] \in {"pending", "lost"}
    BY <2>1, <2>2 DEF Mark
  <2>5. /\ Fated(b, {"alive"})' = Fated(b, {"alive"})
        /\ Fated(b, {"dead", "cut"})' = Fated(b, {"dead", "cut"})
        /\ Fated(b, {"dead"})' = Fated(b, {"dead"})
        /\ \A d \in Chats : fate'[b][d] = "cut" => fate[b][d] = "cut"
    BY <2>2, <2>3, <2>4 DEF Fated
  <2> QED BY <2>1, <2>5 DEF Outcome
<1>3. fate'[b] = fate[b] \/ LimiterInterrupted(b) \/ EnqueueBroadcast(b) \/ EnqueueDropped(b)
  BY DEF BatchStep, QueryEmpty, QueryFails, FetchPage, NextChat, PageOffered, LimiterGrants,
     PageCollected, StampAlive, StampFails, FlushDead, FinalFlush, FlushFails,
     exceptPc, historyVars
<1> QED BY <1>1, <1>2, <1>3

LEMMA OutcomeFeedback ==
    ASSUME TypeInv, OfferInv, NEW b \in Batches, Outcome(b), Feedback(b)
    PROVE  Outcome(b)'
<1> DEFINE c == wtask.chat
<1>1. wtask \in Tasks /\ wtask.batch = b /\ c \in Chats /\ fate[b][c] = "pending"
  BY DEF Feedback, TypeInv, TypeOK, SenderShape, Tasks, OfferInv, OneTaskEach
<1>2. wresult \in Verdicts /\ (wresult = "cut" => cancelled)
  BY DEF Feedback, TypeInv, TypeOK, SenderShape
<1>3. \A d \in Chats : fate'[b][d] = IF d = c THEN wresult ELSE fate[b][d]
  BY <1>1 DEF Feedback, TypeInv, TypeOK, Mark
<1>4. /\ alive'[b] = IF wresult = "alive" THEN alive[b] \cup {c} ELSE alive[b]
      /\ dead'[b] = IF wresult \in {"dead", "cut"} THEN dead[b] \cup {c} ELSE dead[b]
      /\ UNCHANGED <<pc, stamped, retired, cancelled>> /\ pc[b] = "collect"
  BY <1>1 DEF Feedback, TypeInv, TypeOK, tableVars, lifeVars
<1>5. /\ Fated(b, {"alive"})' =
           IF wresult = "alive" THEN Fated(b, {"alive"}) \cup {c} ELSE Fated(b, {"alive"})
      /\ Fated(b, {"dead", "cut"})' =
           IF wresult \in {"dead", "cut"} THEN Fated(b, {"dead", "cut"}) \cup {c}
                                          ELSE Fated(b, {"dead", "cut"})
      /\ Fated(b, {"dead"}) \subseteq Fated(b, {"dead"})'
  BY <1>1, <1>2, <1>3 DEF Fated, Verdicts
<1> QED BY <1>2, <1>3, <1>4, <1>5 DEF Outcome, InPage, Ended

LEMMA OutcomeNext == TypeInv /\ OfferInv /\ OutcomeInv /\ [Next]_vars => OutcomeInv'
<1> SUFFICES ASSUME TypeInv, OfferInv, OutcomeInv, [Next]_vars
             PROVE  OutcomeInv'
  OBVIOUS
<1>1. ASSUME NEW b \in Batches, BatchStep(b)
      PROVE  OutcomeInv'
  <2>1. cancelled' = cancelled
    BY <1>1, BatchStepFrame DEF lifeVars, TypeInv
  <2>2. ASSUME NEW x \in Batches, x # b
        PROVE  Outcome(x)'
    BY <1>1, <2>1, <2>2, BatchStepFrame, OutcomeLeftAlone DEF Untouched, TypeInv, OutcomeInv
  <2> QED BY <1>1, <2>2, OutcomeBatchStep DEF OutcomeInv
<1>2. ASSUME NEW b \in Batches, Feedback(b)
      PROVE  OutcomeInv'
  <2>1. cancelled' = cancelled
    BY <1>2 DEF Feedback, lifeVars
  <2>2. ASSUME NEW x \in Batches, x # b
        PROVE  Outcome(x)'
    BY <1>2, <2>1, <2>2, FeedbackFrame, OutcomeLeftAlone DEF Untouched, TypeInv, OutcomeInv
  <2> QED BY <1>2, <2>2, OutcomeFeedback DEF OutcomeInv
<1>3. ASSUME UNCHANGED <<pc, stamped, alive, dead, retired>>, cancelled => cancelled',
             \A x \in Batches, c \in Chats :
                \/ fate'[x][c] = fate[x][c]
                \/ fate[x][c] = "pending" /\ fate'[x][c] = "lost"
      PROVE  OutcomeInv'
  BY <1>3, OutcomeLeftAlone DEF OutcomeInv
<1>4. ASSUME NEW u \in Tasks, fate[u.batch][u.chat] = "pending", Mark(u.batch, u.chat, "lost"),
             UNCHANGED <<pc, stamped, alive, dead, retired, cancelled>>
      PROVE  OutcomeInv'
  <2>1. ASSUME NEW x \in Batches, NEW c \in Chats
        PROVE  \/ fate'[x][c] = fate[x][c]
               \/ fate[x][c] = "pending" /\ fate'[x][c] = "lost"
    <3> DEFINE t == [batch |-> x, chat |-> c]
    <3>1. t \in Tasks /\ t.batch = x /\ t.chat = c
      BY DEF Tasks
    <3>2. fate'[t.batch][t.chat] = IF t = u THEN "lost" ELSE fate[t.batch][t.chat]
      BY <1>4, <3>1, Marked DEF TypeInv
    <3>3. CASE t = u
      BY <1>4, <3>1, <3>2, <3>3
    <3>4. CASE t # u
      BY <3>1, <3>2, <3>4
    <3> QED BY <3>3, <3>4
  <2> QED BY <1>3, <1>4, <2>1
<1>5. CASE SenderLimiterInterrupted
  <2>1. /\ wtask \in Tasks /\ fate[wtask.batch][wtask.chat] = "pending"
        /\ Mark(wtask.batch, wtask.chat, "lost")
        /\ UNCHANGED <<pc, stamped, alive, dead, retired, cancelled>>
    BY <1>5 DEF SenderLimiterInterrupted, batchVars, tableVars, lifeVars,
       TypeInv, TypeOK, SenderShape, OfferInv, OneTaskEach
  <2> QED BY <1>4, <2>1
<1>6. CASE DrainOne
  <2> DEFINE u == Head(queue)
  <2>1. u \in Tasks /\ Queued(u)
    BY <1>6, HeadTailProperties DEF DrainOne, Queued, TypeInv, TypeOK
  <2>2. /\ fate[u.batch][u.chat] = "pending" /\ Mark(u.batch, u.chat, "lost")
        /\ UNCHANGED <<pc, stamped, alive, dead, retired, cancelled>>
    BY <1>6, <2>1 DEF DrainOne, batchVars, tableVars, lifeVars, OfferInv, OneTaskEach
  <2> HIDE DEF u
  <2> QED BY <1>4, <2>1, <2>2
<1>7. ASSUME UNCHANGED <<stamped, alive, dead, retired, cancelled, fate>>,
             \A x \in Batches : pc'[x] # pc[x] =>
                pc[x] \in Waiting /\ pc'[x] \in Waiting \cup {"query"}
      PROVE  OutcomeInv'
  <2>1. ASSUME NEW x \in Batches
        PROVE  Outcome(x)'
    <3>1. CASE pc'[x] = pc[x]
      BY <1>7, <3>1, OutcomeLeftAlone DEF OutcomeInv
    <3>2. CASE pc'[x] # pc[x]
      <4>1. /\ Owed(x)' = Owed(x)
            /\ Fated(x, {"alive"})' = Fated(x, {"alive"})
            /\ Fated(x, {"dead", "cut"})' = Fated(x, {"dead", "cut"})
            /\ Fated(x, {"dead"})' = Fated(x, {"dead"})
        BY <1>7 DEF Owed, Fated
      <4>2. /\ pc[x] \notin InPage \cup Ended \cup {"stamp"}
            /\ pc'[x] \notin InPage \cup Ended \cup {"stamp"}
            /\ pc[x] \notin {"collect", "stamp", "stopped"}
        BY <1>7, <3>2 DEF Waiting, InPage, Ended
      <4>3. Outcome(x)
        BY DEF OutcomeInv
      <4>4. \A c \in Chats : fate[x][c] # "cut"
        BY <4>2, <4>3 DEF Outcome
      <4>5. stamped[x] = Fated(x, {"alive"}) /\ retired[x] \cup dead[x] = Fated(x, {"dead", "cut"})
        BY <4>2, <4>3 DEF Outcome, Ended
      <4>6. \A c \in Chats : fate'[x][c] # "cut"
        BY <4>4, <1>7
      <4> QED BY <1>7, <4>1, <4>2, <4>3, <4>5, <4>6 DEF Outcome, Ended
    <3> QED BY <3>1, <3>2
  <2> QED BY <2>1 DEF OutcomeInv
<1>8. ASSUME NEW b \in Batches, AddBatchTask(b) \/ NotifySend(b)
      PROVE  OutcomeInv'
  <2>1. /\ UNCHANGED <<stamped, alive, dead, retired, cancelled, fate>>
        /\ \A x \in Batches : pc'[x] # pc[x] => pc[x] \in Waiting /\ pc'[x] \in Waiting
    BY <1>8 DEF AddBatchTask, NotifySend, exceptPc, batchVars, tableVars, lifeVars, historyVars,
       Waiting, TypeInv, TypeOK
  <2> QED BY <1>7, <2>1
<1>9. CASE ListenStart
  <2>1. Head(notify) \in Batches /\ pc[Head(notify)] = "queued"
    BY <1>9, HeadTailProperties DEF ListenStart, TypeInv, TypeOK, NotifyShape
  <2>2. /\ UNCHANGED <<stamped, alive, dead, retired, cancelled, fate>>
        /\ \A x \in Batches : pc'[x] # pc[x] => pc[x] = "queued" /\ pc'[x] = "query"
    BY <1>9, <2>1 DEF ListenStart, batchVars, tableVars, lifeVars, TypeInv, TypeOK
  <2> QED BY <1>7, <2>2 DEF Waiting
<1>10. ASSUME \/ ListenExit \/ TakeTask \/ SenderLimiterGrants \/ SendSettles \/ SendFails
              \/ SenderExit \/ Shutdown \/ DrainDone \/ StopBatchWorker
              \/ UNCHANGED vars \/ \E c \in Chats : Revive(c)
       PROVE  /\ UNCHANGED <<pc, stamped, alive, dead, retired, fate>>
              /\ cancelled => cancelled'
  BY <1>10 DEF ListenExit, TakeTask, SenderLimiterGrants, SendSettles, SendFails,
     SenderExit, Shutdown, DrainDone, StopBatchWorker, Revive, vars, batchVars, tableVars,
     lifeVars, historyVars
<1> QED BY <1>1, <1>2, <1>3, <1>5, <1>6, <1>8, <1>9, <1>10 DEF Next, SenderStep

LEMMA Outcomes == Spec => [](TypeInv /\ OfferInv /\ OutcomeInv)
<1>1. OutcomeInv /\ (TypeInv /\ OfferInv) /\ [Next]_vars => OutcomeInv'
  BY OutcomeNext
<1> QED BY Offers, OutcomeInit, <1>1, PTL DEF Spec

(* A batch that reports success has every answer it asked for, has stamped  *)
(* exactly the chats it reached and deactivated exactly the dead ones.      *)
THEOREM Success == Spec => []SuccessIsComplete
<1>1. OfferInv /\ OutcomeInv => SuccessIsComplete
  <2> SUFFICES ASSUME OfferInv, OutcomeInv, NEW b \in Batches, pc[b] = "done"
               PROVE  /\ Fated(b, {"pending", "lost", "cut"}) = {}
                      /\ stamped[b] = Fated(b, {"alive"})
                      /\ retired[b] = Fated(b, {"dead"})
    BY DEF SuccessIsComplete
  <2>1. Owed(b) = {}
    BY DEF OfferInv, Accounts, InPage
  <2>2. \A c \in Chats : fate[b][c] # "cut"
    BY DEF OutcomeInv, Outcome
  <2>3. Fated(b, {"pending", "lost", "cut"}) = {} /\ Fated(b, {"dead", "cut"}) = Fated(b, {"dead"})
    BY <2>1, <2>2 DEF Owed, Fated
  <2> QED BY <2>3 DEF OutcomeInv, Outcome, InPage
<1> QED BY Outcomes, <1>1, PTL

(* Before a shutdown the batch the sender has feedback for is in its page   *)
(* loop and still counts on an answer.                                      *)
THEOREM Awaited == Spec => []FeedbackIsAwaited
<1>1. TypeInv /\ OfferInv /\ OutcomeInv => FeedbackIsAwaited
  <2> SUFFICES ASSUME TypeInv, OfferInv, OutcomeInv, wpc = "feedback", ~cancelled
               PROVE  pc[wtask.batch] \in InPage /\ due[wtask.batch] > 0
    BY DEF FeedbackIsAwaited
  <2> DEFINE b == wtask.batch
  <2>1. wtask \in Tasks /\ b \in Batches /\ wtask.chat \in Chats /\ fate[b][wtask.chat] = "pending"
    BY DEF TypeInv, TypeOK, SenderShape, Tasks, OfferInv, OneTaskEach
  <2>2. wtask.chat \in Owed(b)
    BY <2>1 DEF Owed, Fated
  <2>3. pc[b] \in InPage
    BY <2>1, <2>2 DEF OfferInv, Accounts, OutcomeInv, Outcome
  <2>4. due[b] = Cardinality(page[b]) + Cardinality(Owed(b))
    BY <2>1, <2>3 DEF OfferInv, Accounts
  <2>5. IsFiniteSet(page[b]) /\ IsFiniteSet(Owed(b))
    <3>1. page[b] \subseteq Chats /\ Owed(b) \subseteq Chats
      BY <2>1 DEF TypeInv, TypeOK, Owed, Fated
    <3> QED BY <3>1, ChatsAssumption, FS_Subset
  <2>6. Cardinality(page[b]) \in Nat /\ Cardinality(Owed(b)) \in Nat /\ Cardinality(Owed(b)) # 0
    BY <2>2, <2>5, FS_CardinalityType, FS_EmptySet
  <2> QED BY <2>3, <2>4, <2>6
<1> QED BY Outcomes, <1>1, PTL

(* A chat is only deactivated on the word of a running batch whose every    *)
(* attempt to reach it failed while the application was up.                 *)
THEOREM Deactivations == Spec => DeactivatedIsDead
<1>1. TypeInv /\ OutcomeInv /\ [Next]_vars =>
        [\A c \in active \ active' : \E b \in Batches : Running(b) /\ fate[b][c] = "dead"]_vars
  <2> SUFFICES ASSUME TypeInv, OutcomeInv, Next, NEW c \in active \ active'
               PROVE  \E b \in Batches : Running(b) /\ fate[b][c] = "dead"
    OBVIOUS
  <2>1. ASSUME NEW b \in Batches, DbUp, MarkDead(b), pc[b] \in {"flush", "final"}
        PROVE  \E x \in Batches : Running(x) /\ fate[x][c] = "dead"
    <3>1. c \in dead[b] /\ c \in Chats
      BY <2>1 DEF MarkDead, TypeInv, TypeOK
    <3>2. fate[b][c] \in {"dead", "cut"}
      BY <2>1, <3>1 DEF OutcomeInv, Outcome, Ended, Fated
    <3>3. fate[b][c] # "cut"
      BY <2>1, <3>1 DEF OutcomeInv, Outcome, DbUp
    <3> QED BY <2>1, <3>2, <3>3 DEF Running, Between
  <2>2. ASSUME NEW b \in Batches, BatchStep(b)
        PROVE  DbUp /\ MarkDead(b) /\ pc[b] \in {"flush", "final"}
    BY <2>2 DEF BatchStep, QueryEmpty, QueryFails, FetchPage, NextChat, PageOffered,
       LimiterGrants, LimiterInterrupted, EnqueueBroadcast, EnqueueDropped, GiveUpChat,
       PageCollected, StampAlive, StampFails, FlushDead, FinalFlush, FlushFails, exceptPc, tableVars
  <2>3. ASSUME NEW b \in Batches, AddBatchTask(b) \/ NotifySend(b) \/ Feedback(b)
        PROVE  FALSE
    BY <2>3 DEF AddBatchTask, NotifySend, Feedback, exceptPc, tableVars
  <2>4. ~(ListenStart \/ ListenExit \/ Shutdown \/ DrainOne \/ DrainDone \/ StopBatchWorker)
    BY DEF ListenStart, ListenExit, Shutdown, DrainOne, DrainDone, StopBatchWorker, tableVars
  <2>5. ~SenderStep
    BY SenderStepFrame DEF tableVars
  <2>6. ~\E x \in Chats : Revive(x)
    BY DEF Revive
  <2> QED BY <2>1, <2>2, <2>3, <2>4, <2>5, <2>6 DEF Next
<1> QED BY Outcomes, <1>1, PTL DEF Spec, DeactivatedIsDead

-------------------------------------------------------------------------------
(* Layer 4: the pages and the chats table.                                  *)

(* The chats that were active all along are active, and those at or below   *)
(* the cursor have been offered or are in the page.                         *)
Paged(b) ==
    /\ throughout[b] \subseteq active
    /\ Running(b) =>
          \A c \in throughout[b] : fate[b][c] = "none" /\ c <= cursor[b] => c \in page[b]
    /\ pc[b] \in {"final", "done"} /\ ~gaveUp[b] =>
          \A c \in throughout[b] : fate[b][c] # "none"

PagingInv == \A b \in Batches : Paged(b)

LEMMA PagingInit == Init => PagingInv
BY DEF Init, PagingInv, Paged, Running, InPage, Between

(* A chat that was offered stays offered, and a failed query is remembered. *)
LEMMA OfferedStays ==
    ASSUME TypeInv, Next, NEW x \in Batches
    PROVE  /\ \A c \in Chats : fate'[x][c] = "none" => fate[x][c] = "none"
           /\ (\E b \in Batches : b # x /\ BatchStep(b)) => gaveUp'[x] = gaveUp[x]
<1>1. ASSUME NEW b \in Batches, NEW d, NEW f, f # "none", Mark(b, d, f)
      PROVE  \A c \in Chats : fate'[x][c] = "none" => fate[x][c] = "none"
  BY <1>1 DEF Mark, TypeInv, TypeOK
<1>2. ASSUME NEW b \in Batches,
             LimiterInterrupted(b) \/ EnqueueBroadcast(b) \/ EnqueueDropped(b)
      PROVE  \A c \in Chats : fate'[x][c] = "none" => fate[x][c] = "none"
  BY <1>1, <1>2 DEF LimiterInterrupted, EnqueueBroadcast, EnqueueDropped, GiveUpChat
<1>3. ASSUME NEW b \in Batches, Feedback(b)
      PROVE  \A c \in Chats : fate'[x][c] = "none" => fate[x][c] = "none"
  BY <1>1, <1>3 DEF Feedback, TypeInv, SenderShape
<1>4. CASE SenderLimiterInterrupted
  <2>1. wtask \in Tasks
    BY <1>4 DEF SenderLimiterInterrupted, TypeInv, TypeOK, SenderShape
  <2>2. wtask.batch \in Batches
    BY <2>1 DEF Tasks
  <2>3. \A c \in Chats : fate'[x][c] = "none" => fate[x][c] = "none"
    BY <1>1, <1>4, <2>2 DEF SenderLimiterInterrupted
  <2>4. ~\E b \in Batches : BatchStep(b)
    BY <1>4, BatchStepFrame DEF SenderLimiterInterrupted, senderVars, TypeInv
  <2> QED BY <2>3, <2>4
<1>5. CASE DrainOne
  <2> DEFINE u == Head(queue)
  <2>1. u \in Tasks
    BY <1>5, HeadTailProperties DEF DrainOne, TypeInv, TypeOK
  <2>2. u.batch \in Batches /\ Mark(u.batch, u.chat, "lost")
    BY <1>5, <2>1 DEF DrainOne, Tasks
  <2>3. \A c \in Chats : fate'[x][c] = "none" => fate[x][c] = "none"
    BY <1>1, <2>2
  <2> QED BY <1>5, <2>3 DEF DrainOne, historyVars
<1>6. ASSUME NEW b \in Batches,
              \/ QueryEmpty(b) \/ QueryFails(b) \/ FetchPage(b) \/ NextChat(b) \/ PageOffered(b)
              \/ LimiterGrants(b) \/ PageCollected(b) \/ StampAlive(b) \/ StampFails(b)
              \/ FlushDead(b) \/ FinalFlush(b) \/ FlushFails(b) \/ AddBatchTask(b) \/ NotifySend(b)
       PROVE  UNCHANGED fate
  BY <1>6 DEF QueryEmpty, QueryFails, FetchPage, NextChat, PageOffered, LimiterGrants,
     PageCollected, StampAlive, StampFails, FlushDead, FinalFlush, FlushFails,
     AddBatchTask, NotifySend, exceptPc, historyVars
<1>7. ASSUME \/ ListenStart \/ ListenExit \/ TakeTask \/ SenderLimiterGrants \/ SendSettles
             \/ SendFails \/ SenderExit \/ Shutdown \/ DrainDone \/ StopBatchWorker
             \/ \E c \in Chats : Revive(c)
      PROVE  UNCHANGED fate
  BY <1>7 DEF ListenStart, ListenExit, TakeTask, SenderLimiterGrants, SendSettles, SendFails,
     SenderExit, Shutdown, DrainDone, StopBatchWorker, Revive, historyVars
<1>8. ASSUME NEW b \in Batches, b # x, BatchStep(b)
      PROVE  gaveUp'[x] = gaveUp[x]
  BY <1>8 DEF BatchStep, QueryEmpty, QueryFails, FetchPage, NextChat, PageOffered, LimiterGrants,
     LimiterInterrupted, EnqueueBroadcast, EnqueueDropped, GiveUpChat, PageCollected, StampAlive,
     StampFails, FlushDead, FinalFlush, FlushFails, exceptPc, historyVars, TypeInv, TypeOK
<1> QED BY <1>2, <1>3, <1>4, <1>5, <1>6, <1>7, <1>8 DEF Next, BatchStep, SenderStep

(* Only a deactivation takes chats from the table, and it takes them from   *)
(* the chats active all along too.                                          *)
LEMMA TableSteps ==
    ASSUME TypeOK, Next, ~ListenStart
    PROVE  \/ UNCHANGED throughout /\ active \subseteq active'
           \/ \E b \in Batches : BatchStep(b) /\ MarkDead(b)
<1>1. ASSUME NEW b \in Batches, FlushDead(b) \/ FinalFlush(b) \/ FlushFails(b)
      PROVE  UNCHANGED <<active, throughout>> \/ MarkDead(b)
  BY <1>1 DEF FlushDead, FinalFlush, FlushFails
<1>2. ASSUME NEW b \in Batches, BatchStep(b)
      PROVE  UNCHANGED <<active, throughout>> \/ MarkDead(b)
  <2>1. ASSUME ~(FlushDead(b) \/ FinalFlush(b) \/ FlushFails(b))
        PROVE  UNCHANGED <<active, throughout>>
    BY <1>2, <2>1 DEF BatchStep, QueryEmpty, QueryFails, FetchPage, NextChat, PageOffered,
       LimiterGrants, LimiterInterrupted, EnqueueBroadcast, EnqueueDropped, GiveUpChat,
       PageCollected, StampAlive, StampFails, exceptPc, tableVars, historyVars
  <2> QED BY <1>1, <2>1
<1>3. ASSUME NEW b \in Batches, AddBatchTask(b) \/ NotifySend(b) \/ Feedback(b)
      PROVE  UNCHANGED <<active, throughout>>
  BY <1>3 DEF AddBatchTask, NotifySend, Feedback, exceptPc, tableVars, historyVars
<1>4. SenderStep => UNCHANGED <<active, throughout>>
  BY SenderStepFrame DEF tableVars
<1>5. ListenExit \/ Shutdown \/ DrainOne \/ DrainDone \/ StopBatchWorker =>
        UNCHANGED <<active, throughout>>
  BY DEF ListenExit, Shutdown, DrainOne, DrainDone, StopBatchWorker, tableVars, historyVars
<1>6. ASSUME NEW c \in Chats, Revive(c)
      PROVE  UNCHANGED throughout /\ active \subseteq active'
  BY <1>6 DEF Revive, historyVars
<1> QED BY <1>2, <1>3, <1>4, <1>5, <1>6 DEF Next

LEMMA PagedStep ==
    ASSUME TypeInv, TypeInv', NEW b \in Batches, Paged(b), BatchStep(b), Next,
           throughout'[b] \subseteq throughout[b], throughout'[b] \subseteq active'
    PROVE  Paged(b)'
<1> USE DEF TypeInv
<1>1. /\ throughout[b] \subseteq Chats /\ throughout[b] \subseteq active
      /\ cursor[b] \in Nat /\ \A c \in Chats : c \in Nat
      /\ \A c \in Chats : fate'[b][c] = "none" => fate[b][c] = "none"
  BY OfferedStays, ChatsAssumption DEF TypeOK, Paged
<1>2. Running(b)
  BY BatchStepFrame
<1>3. \A c \in throughout[b] : fate[b][c] = "none" /\ c <= cursor[b] => c \in page[b]
  BY <1>2 DEF Paged
<1>4. CASE QueryEmpty(b)
  <2>1. /\ pc'[b] = "final" /\ page[b] = {} /\ Eligible(b) = {}
        /\ UNCHANGED <<cursor, page, fate, active>>
    BY <1>4 DEF QueryEmpty, exceptPc, batchVars, tableVars, historyVars, TypeOK, PageShape
  <2>2. \A c \in throughout[b] : c <= cursor[b]
    BY <1>1, <2>1 DEF Eligible
  <2> QED BY <1>1, <1>3, <2>1, <2>2 DEF Paged
<1>5. CASE FetchPage(b)
  <2>1. /\ pc'[b] = "chat" /\ page[b] = {} /\ Eligible(b) # {}
        /\ page'[b] = NextPage(b) /\ cursor'[b] = Last(NextPage(b)) /\ UNCHANGED fate
    BY <1>5 DEF FetchPage, historyVars, TypeOK, PageShape
  <2>2. \A c \in Eligible(b) : c <= cursor'[b] => c \in page'[b]
    BY <2>1, PageQuery DEF TypeOK
  <2>3. \A c \in throughout[b] : fate[b][c] = "none" => c \in Eligible(b)
    BY <1>1, <1>3, <2>1 DEF Eligible
  <2> QED BY <1>1, <2>1, <2>2, <2>3 DEF Paged
<1>6. CASE LimiterInterrupted(b) \/ EnqueueBroadcast(b) \/ EnqueueDropped(b)
  <2> DEFINE d == First(page[b])
  <2>1. /\ pc'[b] = "chat" /\ page'[b] = page[b] \ {d} /\ UNCHANGED cursor
        /\ \E f \in {"pending", "lost"} : Mark(b, d, f)
        /\ page[b] # {}
    BY <1>6 DEF LimiterInterrupted, EnqueueBroadcast, EnqueueDropped, GiveUpChat, TypeOK, PageShape
  <2>2. d \in Chats
    BY <2>1, AtHand
  <2>3. fate'[b][d] # "none"
    BY <2>1, <2>2 DEF Mark, TypeOK
  <2> QED BY <1>1, <1>3, <2>1, <2>3 DEF Paged
<1>7. CASE QueryFails(b)
  <2>1. pc'[b] = "final" /\ gaveUp'[b] = TRUE /\ UNCHANGED <<cursor, page, fate>>
    BY <1>7 DEF QueryFails, batchVars, TypeOK
  <2> QED BY <1>1, <1>3, <2>1 DEF Paged
<1>8. CASE FinalFlush(b)
  <2>1. pc[b] = "final" /\ pc'[b] = "done" /\ UNCHANGED <<gaveUp, fate>>
    BY <1>8 DEF FinalFlush, TypeOK
  <2>2. ~Running(b)'
    BY <2>1 DEF Running, InPage, Between
  <2> QED BY <2>1, <2>2 DEF Paged
<1>9. CASE \/ NextChat(b) \/ PageOffered(b) \/ LimiterGrants(b) \/ PageCollected(b)
           \/ StampAlive(b) \/ StampFails(b) \/ FlushDead(b) \/ FlushFails(b)
  <2>1. pc'[b] \notin {"final", "done"} /\ UNCHANGED <<cursor, page, fate>>
    BY <1>9 DEF NextChat, PageOffered, LimiterGrants, PageCollected, StampAlive, StampFails,
       FlushDead, FlushFails, exceptPc, batchVars, historyVars, TypeOK
  <2> QED BY <1>1, <1>3, <2>1 DEF Paged
<1> QED BY <1>4, <1>5, <1>6, <1>7, <1>8, <1>9 DEF BatchStep

LEMMA PagingNext == TypeInv /\ TypeInv' /\ OfferInv /\ PagingInv /\ [Next]_vars => PagingInv'
<1> SUFFICES ASSUME TypeInv, TypeInv', OfferInv, PagingInv, [Next]_vars, NEW x \in Batches
             PROVE  Paged(x)'
  BY DEF PagingInv
<1>0. Paged(x) /\ throughout[x] \subseteq active /\ throughout[x] \subseteq Chats
  BY DEF PagingInv, Paged, TypeInv, TypeOK
<1>1. CASE UNCHANGED vars
  BY <1>0, <1>1 DEF vars, batchVars, tableVars, historyVars, Paged, Running
<1>2. CASE ListenStart
  <2> DEFINE b == Head(notify)
  <2>1. b \in Batches /\ pc[b] = "queued"
    BY <1>2, HeadTailProperties DEF ListenStart, TypeInv, TypeOK, NotifyShape
  <2>2. /\ UNCHANGED <<cursor, page, fate, gaveUp, active>>
        /\ pc' = [pc EXCEPT ![b] = "query"] /\ throughout' = [throughout EXCEPT ![b] = active]
    BY <1>2 DEF ListenStart, batchVars, tableVars
  <2> HIDE DEF b
  <2>3. CASE x = b
    <3>1. pc'[x] = "query" /\ throughout'[x] = active /\ active \subseteq Chats
      BY <2>1, <2>2, <2>3 DEF TypeInv, TypeOK
    <3>2. cursor'[x] = 0
      BY <2>1, <2>2, <2>3 DEF OfferInv, Progress, Waiting
    <3>3. \A c \in throughout'[x] : ~(c <= cursor'[x])
      <4>1. \A c \in throughout'[x] : c \in Nat \ {0}
        BY <3>1, ChatsAssumption
      <4> QED BY <4>1, <3>2
    <3>4. throughout'[x] \subseteq active'
      BY <2>2, <3>1
    <3>5. pc'[x] \notin {"final", "done"}
      BY <3>1
    <3> QED BY <3>3, <3>4, <3>5 DEF Paged
  <2>4. CASE x # b
    BY <1>0, <2>1, <2>2, <2>4 DEF Paged, Running, TypeInv, TypeOK
  <2> QED BY <2>3, <2>4
<1>3. CASE Next /\ ~ListenStart
  <2>1. throughout'[x] \subseteq throughout[x] /\ throughout'[x] \subseteq active'
    <3>1. CASE UNCHANGED throughout /\ active \subseteq active'
      BY <1>0, <3>1
    <3>2. ASSUME NEW b \in Batches, MarkDead(b)
          PROVE  throughout'[x] \subseteq throughout[x] /\ throughout'[x] \subseteq active'
      BY <1>0, <3>2 DEF MarkDead
    <3> QED BY <1>3, <3>1, <3>2, TableSteps DEF TypeInv
  <2>2. \A c \in Chats : fate'[x][c] = "none" => fate[x][c] = "none"
    BY <1>3, OfferedStays
  <2>3. ASSUME UNCHANGED <<cursor[x], page[x], gaveUp[x]>>,
               \/ pc'[x] = pc[x]
               \/ pc[x] \in Waiting /\ pc'[x] \in Waiting
        PROVE  Paged(x)'
    BY <1>0, <2>1, <2>2, <2>3 DEF Paged, Running, Waiting, InPage, Between
  <2>4. ASSUME NEW b \in Batches, BatchStep(b)
        PROVE  Paged(x)'
    <3>1. CASE x = b
      BY <1>0, <1>3, <2>1, <2>4, <3>1, PagedStep
    <3>2. CASE x # b
      BY <1>3, <2>3, <2>4, <3>2, BatchStepFrame, OfferedStays DEF Untouched, TypeInv
    <3> QED BY <3>1, <3>2
  <2>5. ASSUME NEW b \in Batches, AddBatchTask(b) \/ NotifySend(b)
        PROVE  Paged(x)'
    BY <2>3, <2>5 DEF AddBatchTask, NotifySend, exceptPc, batchVars, historyVars, Waiting,
       TypeInv, TypeOK
  <2>6. ASSUME \/ SenderStep \/ ListenExit \/ Shutdown \/ DrainOne \/ DrainDone \/ StopBatchWorker
               \/ (\E b \in Batches : Feedback(b)) \/ \E c \in Chats : Revive(c)
        PROVE  UNCHANGED <<pc, cursor, page, gaveUp>>
    BY <2>6, SenderStepFrame DEF ListenExit, Shutdown, DrainOne, DrainDone, StopBatchWorker,
       Feedback, Revive, batchVars, historyVars
  <2> QED BY <1>3, <2>3, <2>4, <2>5, <2>6 DEF Next
<1> QED BY <1>1, <1>2, <1>3

(* Cursor paging misses nobody: whatever other batches deactivate and users *)
(* revive meanwhile, a batch that ends with success and had no failed query *)
(* has offered its text to every chat that was active all along.            *)
THEOREM PagingMissesNobody == Spec => []Coverage
<1>1. TypeInv /\ [Next]_vars => TypeInv'
  BY TypeOKNext, SenderShapeNext, NotifyShapeNext, PageShapeNext DEF TypeInv
<1>2. PagingInv /\ (TypeInv /\ OfferInv) /\ [Next]_vars => PagingInv'
  BY <1>1, PagingNext
<1>3. PagingInv => Coverage
  BY DEF PagingInv, Paged, Coverage, Fated
<1> QED BY Offers, PagingInit, <1>2, <1>3, PTL DEF Spec

-------------------------------------------------------------------------------
(* Layer 5: the promise of a broadcast.                                     *)

(* A batch collects no chat that it has already deactivated. *)
DeadAreNew(b) == pc[b] \notin Ended => dead[b] \cap retired[b] = {}
DeadInv == \A b \in Batches : DeadAreNew(b)

LEMMA DeadInit == Init => DeadInv
BY DEF Init, DeadInv, DeadAreNew

LEMMA DeadNext == TypeInv /\ OfferInv /\ OutcomeInv /\ DeadInv /\ [Next]_vars => DeadInv'
<1> SUFFICES ASSUME TypeInv, OfferInv, OutcomeInv, DeadInv, [Next]_vars, NEW x \in Batches
             PROVE  DeadAreNew(x)'
  BY DEF DeadInv
<1>1. ASSUME UNCHANGED <<dead[x], retired[x]>>, pc[x] \in Ended => pc'[x] \in Ended
      PROVE  DeadAreNew(x)'
  BY <1>1 DEF DeadInv, DeadAreNew
<1>2. ASSUME NEW b \in Batches, BatchStep(b)
      PROVE  DeadAreNew(x)'
  <2>1. CASE x # b
    BY <1>1, <1>2, <2>1, BatchStepFrame DEF Untouched, TypeInv
  <2>2. pc[b] \notin Ended
    BY <1>2, BatchStepFrame DEF TypeInv, Running, InPage, Between, Ended
  <2>3. CASE x = b /\ FlushDead(b)
    <3>1. dead'[b] = {}
      BY <2>3 DEF FlushDead, TypeInv, TypeOK
    <3> QED BY <2>3, <3>1 DEF DeadAreNew
  <2>4. CASE x = b /\ (FinalFlush(b) \/ FlushFails(b))
    <3>1. pc'[b] \in Ended
      BY <2>4 DEF FinalFlush, FlushFails, TypeInv, TypeOK, Ended
    <3> QED BY <2>4, <3>1 DEF DeadAreNew
  <2>5. CASE x = b /\ ~(FlushDead(b) \/ FinalFlush(b) \/ FlushFails(b))
    <3>1. UNCHANGED <<dead, retired>>
      BY <1>2, <2>5 DEF BatchStep, QueryEmpty, QueryFails, FetchPage, NextChat, PageOffered,
         LimiterGrants, LimiterInterrupted, EnqueueBroadcast, EnqueueDropped, GiveUpChat,
         PageCollected, StampAlive, StampFails, exceptPc, batchVars, historyVars
    <3> QED BY <1>1, <2>2, <2>5, <3>1
  <2> QED BY <2>1, <2>3, <2>4, <2>5
<1>3. ASSUME NEW b \in Batches, Feedback(b)
      PROVE  DeadAreNew(x)'
  <2> DEFINE c == wtask.chat
  <2>1. wtask \in Tasks /\ wtask.batch = b /\ c \in Chats /\ fate[b][c] = "pending"
    BY <1>3 DEF Feedback, TypeInv, TypeOK, SenderShape, Tasks, OfferInv, OneTaskEach
  <2>2. c \notin retired[b]
    BY <2>1 DEF OutcomeInv, Outcome, Fated
  <2>3. UNCHANGED <<pc, retired>> /\ dead'[b] \subseteq dead[b] \cup {c}
    BY <1>3 DEF Feedback, TypeInv, TypeOK
  <2>4. CASE x = b
    BY <2>2, <2>3, <2>4 DEF DeadInv, DeadAreNew
  <2>5. CASE x # b
    BY <1>1, <1>3, <2>5, FeedbackFrame DEF Untouched, TypeInv
  <2> QED BY <2>4, <2>5
<1>4. ASSUME NEW b \in Batches, AddBatchTask(b) \/ NotifySend(b)
      PROVE  DeadAreNew(x)'
  BY <1>1, <1>4 DEF AddBatchTask, NotifySend, exceptPc, batchVars, historyVars, Ended, TypeInv, TypeOK
<1>5. CASE ListenStart
  <2>1. Head(notify) \in Batches /\ pc[Head(notify)] = "queued"
    BY <1>5, HeadTailProperties DEF ListenStart, TypeInv, TypeOK, NotifyShape
  <2> QED BY <1>1, <1>5, <2>1 DEF ListenStart, batchVars, Ended, TypeInv, TypeOK
<1>6. ASSUME \/ SenderStep \/ ListenExit \/ Shutdown \/ DrainOne \/ DrainDone \/ StopBatchWorker
             \/ UNCHANGED vars \/ \E c \in Chats : Revive(c)
      PROVE  UNCHANGED <<pc, dead, retired>>
  BY <1>6, SenderStepFrame DEF ListenExit, Shutdown, DrainOne, DrainDone, StopBatchWorker, Revive,
     vars, batchVars, historyVars
<1> QED BY <1>1, <1>2, <1>3, <1>4, <1>5, <1>6 DEF Next

(* A batch that answers for its chats while the application is up           *)
(* deactivates exactly the dead chats it has not deactivated before.        *)
LEMMA Retiring ==
    ASSUME TypeInv, OutcomeInv, DeadInv, NEW b \in Batches, pc[b] \in {"flush", "final"},
           MarkDead(b)
    PROVE  Promise!Retire(b)
<1>1. /\ retired[b] \cup dead[b] = Fated(b, {"dead", "cut"}) /\ dead[b] \cap retired[b] = {}
      /\ \A c \in Chats : fate[b][c] # "cut"
  BY DEF OutcomeInv, Outcome, DeadInv, DeadAreNew, Ended
<1>2. Promise!DeadIn(b) = Fated(b, {"dead", "cut"})
  BY <1>1 DEF Promise!DeadIn, Fated
<1>3. dead[b] = Promise!DeadIn(b) \ retired[b] /\ retired[b] \cup dead[b] = Promise!DeadIn(b)
  BY <1>1, <1>2
<1>4. /\ active' = active \ dead[b]
      /\ retired' = [retired EXCEPT ![b] = retired[b] \cup dead[b]]
  BY DEF MarkDead
<1> QED BY <1>3, <1>4 DEF Promise!Retire

(* In the words of the promise the life of a batch is that of its place.     *)
Life(p) == IF p \in Waiting THEN "new"
           ELSE IF p = "done" THEN "finished"
           ELSE IF p = "stopped" THEN "aborted" ELSE "running"

(* The life of a batch changes where the place of its goroutine does. *)
LEMMA StatusMoves ==
    ASSUME TypeOK, NEW b \in Batches, NEW p, pc' = [pc EXCEPT ![b] = p]
    PROVE  [x \in Batches |-> Status(x)]' = [[x \in Batches |-> Status(x)] EXCEPT ![b] = Life(p)]
<1>1. pc'[b] = p /\ \A x \in Batches : x # b => pc'[x] = pc[x]
  BY DEF TypeOK
<1>2. \A x \in Batches : x # b => Status(x)' = Status(x)
  BY <1>1 DEF Status
<1>3. Status(b)' = Life(p)
  BY <1>1 DEF Status, Life
<1> HIDE DEF Status, Life
<1> QED BY <1>2, <1>3

LEMMA PromiseBatchStep ==
    ASSUME TypeInv, OfferInv, OutcomeInv, DeadInv, NEW b \in Batches, BatchStep(b)
    PROVE  Promise!Next \/ UNCHANGED Promise!vars
<1> DEFINE S == [x \in Batches |-> Status(x)]
<1> USE DEF TypeInv
<1>1. Running(b) /\ S[b] = "running"
  BY BatchStepFrame DEF Status, Running, InPage, Between, Waiting
<1>2. ASSUME UNCHANGED <<fate, active, retired>>,
             NEW p \in InPage \cup Between, pc' = [pc EXCEPT ![b] = p]
      PROVE  UNCHANGED Promise!vars
  <2>1. Life(p) = "running"
    BY DEF InPage, Between, Waiting, Life
  <2>2. S' = [S EXCEPT ![b] = "running"]
    BY <1>2, <2>1, StatusMoves
  <2>3. S' = S
    BY <1>1, <2>2
  <2> QED BY <1>2, <2>3 DEF Promise!vars
<1>3. ASSUME UNCHANGED fate, Promise!Retire(b) \/ UNCHANGED <<active, retired>>,
             pc' = [pc EXCEPT ![b] = "stopped"]
      PROVE  Promise!Next
  <2>1. S' = [S EXCEPT ![b] = "aborted"]
    <3>1. S' = [S EXCEPT ![b] = Life("stopped")]
      BY <1>3, StatusMoves
    <3>2. Life("stopped") = "aborted"
      BY DEF Life, Waiting
    <3> QED BY <3>1, <3>2
  <2>2. Promise!Abort(b)
    BY <1>1, <1>3, <2>1 DEF Promise!Abort
  <2> QED BY <2>2 DEF Promise!Next
<1>4. CASE QueryEmpty(b) \/ QueryFails(b) \/ FetchPage(b) \/ PageOffered(b) \/ LimiterGrants(b)
           \/ PageCollected(b) \/ StampAlive(b)
  <2>1. UNCHANGED <<fate, active, retired>>
    BY <1>4 DEF QueryEmpty, QueryFails, FetchPage, PageOffered, LimiterGrants, PageCollected,
       StampAlive, exceptPc, tableVars, historyVars
  <2>2. \E p \in InPage \cup Between : pc' = [pc EXCEPT ![b] = p]
    BY <1>4 DEF QueryEmpty, QueryFails, FetchPage, PageOffered, LimiterGrants, PageCollected,
       StampAlive, InPage, Between
  <2> QED BY <1>2, <2>1, <2>2
<1>5. CASE NextChat(b)
  <2>1. UNCHANGED <<fate, active, retired>>
    BY <1>5 DEF NextChat, exceptPc, tableVars, historyVars
  <2>2. pc' = [pc EXCEPT ![b] = "limit"] \/ pc' = [pc EXCEPT ![b] = "stopped"]
    BY <1>5 DEF NextChat
  <2> QED BY <1>2, <1>3, <2>1, <2>2 DEF InPage
<1>6. CASE StampFails(b)
  BY <1>3, <1>6 DEF StampFails, historyVars
<1>7. CASE LimiterInterrupted(b) \/ EnqueueBroadcast(b) \/ EnqueueDropped(b)
  <2> DEFINE c == First(page[b])
  <2>1. /\ page[b] # {} /\ pc' = [pc EXCEPT ![b] = "chat"] /\ UNCHANGED <<active, retired>>
        /\ \E f \in {"pending", "lost"} : fate' = [fate EXCEPT ![b][c] = f]
    BY <1>7 DEF LimiterInterrupted, EnqueueBroadcast, EnqueueDropped, GiveUpChat, Mark, PageShape,
       tableVars
  <2>2. c \in Chats /\ fate[b][c] = "none"
    BY <2>1, AtHand DEF OfferInv, Progress
  <2>3. S' = [S EXCEPT ![b] = "running"]
    <3>1. S' = [S EXCEPT ![b] = Life("chat")]
      BY <2>1, StatusMoves
    <3>2. Life("chat") = "running"
      BY DEF Life, Waiting
    <3> QED BY <3>1, <3>2
  <2>4. S' = S
    BY <1>1, <2>3
  <2> HIDE DEF c
  <2>5. Promise!Offer(b, c)
    BY <1>1, <2>1, <2>2, <2>4 DEF Promise!Offer
  <2> QED BY <2>2, <2>5 DEF Promise!Next
<1>8. CASE FlushDead(b)
  <2>1. Promise!Retire(b)
    BY <1>8, Retiring DEF FlushDead
  <2>2. UNCHANGED fate /\ pc' = [pc EXCEPT ![b] = "query"]
    BY <1>8 DEF FlushDead
  <2>3. S' = [S EXCEPT ![b] = "running"]
    <3>1. S' = [S EXCEPT ![b] = Life("query")]
      BY <2>2, StatusMoves
    <3>2. Life("query") = "running"
      BY DEF Life, Waiting
    <3> QED BY <3>1, <3>2
  <2>4. S' = S
    BY <1>1, <2>3
  <2>5. Promise!Deactivate(b)
    BY <1>1, <2>1, <2>2, <2>4 DEF Promise!Deactivate
  <2> QED BY <2>5 DEF Promise!Next
<1>9. CASE FlushFails(b)
  <2>1. UNCHANGED fate /\ pc' = [pc EXCEPT ![b] = "stopped"]
    BY <1>9 DEF FlushFails
  <2>2. Promise!Retire(b) \/ UNCHANGED <<active, retired>>
    BY <1>9, Retiring DEF FlushFails
  <2> QED BY <1>3, <2>1, <2>2
<1>10. CASE FinalFlush(b)
  <2>1. pc[b] = "final" /\ UNCHANGED fate /\ pc' = [pc EXCEPT ![b] = "done"]
    BY <1>10 DEF FinalFlush
  <2>2. /\ Owed(b) = {} /\ \A c \in Chats : fate[b][c] # "cut"
        /\ retired[b] \cup dead[b] = Fated(b, {"dead", "cut"})
    BY <2>1 DEF OfferInv, Accounts, OutcomeInv, Outcome, InPage, Ended
  <2>3. Promise!Retire(b)
    <3>1. CASE dead[b] # {}
      BY <1>10, <3>1, Retiring DEF FinalFlush
    <3>2. CASE dead[b] = {}
      <4>1. Promise!DeadIn(b) = retired[b]
        BY <2>2, <3>2 DEF Promise!DeadIn, Fated
      <4>2. UNCHANGED <<active, retired>> /\ retired = [retired EXCEPT ![b] = retired[b]]
        BY <1>10, <3>2 DEF FinalFlush, TypeOK
      <4> QED BY <4>1, <4>2 DEF Promise!Retire
    <3> QED BY <3>1, <3>2
  <2>4. Promise!Owed(b) = {}
    BY <2>2 DEF Promise!Owed, Owed, Fated
  <2>5. S' = [S EXCEPT ![b] = "finished"]
    <3>1. S' = [S EXCEPT ![b] = Life("done")]
      BY <2>1, StatusMoves
    <3>2. Life("done") = "finished"
      BY DEF Life, Waiting
    <3> QED BY <3>1, <3>2
  <2>6. Promise!Finish(b)
    BY <1>1, <2>1, <2>2, <2>3, <2>4, <2>5 DEF Promise!Finish
  <2> QED BY <2>6 DEF Promise!Next
<1> QED BY <1>4, <1>5, <1>6, <1>7, <1>8, <1>9, <1>10 DEF BatchStep

LEMMA PromiseStep ==
    TypeInv /\ OfferInv /\ OutcomeInv /\ DeadInv /\ [Next]_vars => [Promise!Next]_(Promise!vars)
<1> SUFFICES ASSUME TypeInv, OfferInv, OutcomeInv, DeadInv, [Next]_vars
             PROVE  Promise!Next \/ UNCHANGED Promise!vars
  OBVIOUS
<1> DEFINE S == [x \in Batches |-> Status(x)]
<1>1. ASSUME UNCHANGED <<pc, fate, active, retired>>
      PROVE  UNCHANGED Promise!vars
  BY <1>1 DEF Promise!vars, Status
<1>2. ASSUME NEW b \in Batches, BatchStep(b)
      PROVE  Promise!Next \/ UNCHANGED Promise!vars
  BY <1>2, PromiseBatchStep
<1>3. ASSUME NEW b \in Batches, AddBatchTask(b) \/ NotifySend(b)
      PROVE  UNCHANGED Promise!vars
  <2>1. /\ UNCHANGED <<fate, active, retired>> /\ pc[b] \in Waiting
        /\ \E p \in Waiting : pc' = [pc EXCEPT ![b] = p]
    BY <1>3 DEF AddBatchTask, NotifySend, exceptPc, tableVars, historyVars, Waiting
  <2>2. S' = [S EXCEPT ![b] = "new"]
    <3>1. PICK p \in Waiting : pc' = [pc EXCEPT ![b] = p]
      BY <2>1
    <3>2. Life(p) = "new"
      BY DEF Life
    <3> QED BY <3>1, <3>2, StatusMoves DEF TypeInv
  <2>3. S' = S
    BY <2>1, <2>2 DEF Status
  <2> QED BY <2>1, <2>3 DEF Promise!vars
<1>4. ASSUME NEW b \in Batches, Feedback(b)
      PROVE  Promise!Next
  <2> DEFINE c == wtask.chat
  <2>1. wtask \in Tasks /\ wtask.batch = b /\ c \in Chats /\ fate[b][c] = "pending"
    BY <1>4 DEF Feedback, TypeInv, TypeOK, SenderShape, Tasks, OfferInv, OneTaskEach
  <2>2. wresult \in Verdicts
    BY <1>4 DEF Feedback, TypeInv, TypeOK, SenderShape
  <2>3. /\ UNCHANGED <<pc, active, retired>> /\ pc[b] = "collect"
        /\ fate' = [fate EXCEPT ![b][c] = wresult]
    BY <1>4 DEF Feedback, Mark, tableVars
  <2>4. S' = S /\ S[b] = "running"
    BY <2>3 DEF Status, Waiting
  <2> HIDE DEF c
  <2>5. Promise!Answer(b, c)
    BY <2>1, <2>2, <2>3, <2>4 DEF Promise!Answer, Promise!Verdicts, Verdicts
  <2> QED BY <2>1, <2>5 DEF Promise!Next
<1>5. CASE ListenStart
  <2> DEFINE b == Head(notify)
  <2>1. b \in Batches /\ pc[b] = "queued"
    BY <1>5, HeadTailProperties DEF ListenStart, TypeInv, TypeOK, NotifyShape
  <2>2. pc' = [pc EXCEPT ![b] = "query"] /\ UNCHANGED <<fate, active, retired>>
    BY <1>5 DEF ListenStart, tableVars
  <2> HIDE DEF b
  <2>3. S' = [S EXCEPT ![b] = "running"]
    <3>1. S' = [S EXCEPT ![b] = Life("query")]
      BY <2>1, <2>2, StatusMoves DEF TypeInv
    <3>2. Life("query") = "running"
      BY DEF Life, Waiting
    <3> QED BY <3>1, <3>2
  <2>3a. S[b] = "new"
    BY <2>1 DEF Waiting, Status
  <2>4. Promise!Begin(b)
    BY <2>2, <2>3, <2>3a DEF Promise!Begin
  <2> QED BY <2>1, <2>4 DEF Promise!Next
<1>6. ASSUME NEW u \in Tasks, fate[u.batch][u.chat] = "pending", Mark(u.batch, u.chat, "lost"),
             UNCHANGED <<pc, active, retired>>
      PROVE  Promise!Next
  <2>1. u.batch \in Batches /\ u.chat \in Chats
    BY DEF Tasks
  <2>2. S' = S
    BY <1>6 DEF Status
  <2>3. Promise!Lose(u.batch, u.chat)
    BY <1>6, <2>2 DEF Promise!Lose, Mark
  <2> QED BY <2>1, <2>3 DEF Promise!Next
<1>7. CASE SenderLimiterInterrupted
  <2>1. /\ wtask \in Tasks /\ fate[wtask.batch][wtask.chat] = "pending"
        /\ Mark(wtask.batch, wtask.chat, "lost") /\ UNCHANGED <<pc, active, retired>>
    BY <1>7 DEF SenderLimiterInterrupted, tableVars, TypeInv, TypeOK, SenderShape, OfferInv, OneTaskEach
  <2> QED BY <1>6, <2>1
<1>8. CASE DrainOne
  <2> DEFINE u == Head(queue)
  <2>1. u \in Tasks /\ Queued(u)
    BY <1>8, HeadTailProperties DEF DrainOne, Queued, TypeInv, TypeOK
  <2>2. /\ fate[u.batch][u.chat] = "pending" /\ Mark(u.batch, u.chat, "lost")
        /\ UNCHANGED <<pc, active, retired>>
    BY <1>8, <2>1 DEF DrainOne, tableVars, OfferInv, OneTaskEach
  <2> HIDE DEF u
  <2> QED BY <1>6, <2>1, <2>2
<1>9. ASSUME NEW c \in Chats, Revive(c)
      PROVE  Promise!Next
  <2>1. active' = active \cup {c} /\ UNCHANGED <<pc, fate, retired>>
    BY <1>9 DEF Revive, historyVars
  <2>2. S' = S
    BY <2>1 DEF Status
  <2>3. Promise!Revive(c)
    BY <2>1, <2>2 DEF Promise!Revive
  <2> QED BY <2>3 DEF Promise!Next
<1>10. ASSUME \/ ListenExit \/ TakeTask \/ SenderLimiterGrants \/ SendSettles \/ SendFails
              \/ SenderExit \/ Shutdown \/ DrainDone \/ StopBatchWorker \/ UNCHANGED vars
       PROVE  UNCHANGED <<pc, fate, active, retired>>
  BY <1>10 DEF ListenExit, TakeTask, SenderLimiterGrants, SendSettles, SendFails,
     SenderExit, Shutdown, DrainDone, StopBatchWorker, vars, tableVars, historyVars
<1> QED BY <1>1, <1>2, <1>3, <1>4, <1>5, <1>7, <1>8, <1>9, <1>10 DEF Next, SenderStep

(* The workers, the queue and the pages implement the promise of a          *)
(* broadcast: every step of theirs is an offer, an answer, a lost offer, a  *)
(* deactivation, the begin or the end of a batch, or invisible.             *)
THEOREM Implements == Spec => KeepsPromise
<1>1. Init => Promise!Init
  BY DEF Init, Promise!Init, Status, Waiting
<1>2. DeadInv /\ (TypeInv /\ OfferInv /\ OutcomeInv) /\ [Next]_vars => DeadInv'
  BY DeadNext
<1>3. Spec => [](TypeInv /\ OfferInv /\ OutcomeInv /\ DeadInv)
  BY Outcomes, DeadInit, <1>2, PTL DEF Spec
<1> QED BY <1>1, <1>3, PromiseStep, PTL DEF Spec, KeepsPromise, Promise!Spec

-------------------------------------------------------------------------------
(* Layer 6: room in the queue.                                              *)

(* A page holds at most PageSize chats: the smaller ones than its last are  *)
(* fewer than that.                                                         *)
LEMMA PageFits ==
    ASSUME NEW b \in Batches, active \subseteq Chats, cursor[b] \in Nat, Eligible(b) # {}
    PROVE  Cardinality(NextPage(b)) <= PageSize
<1> DEFINE P == NextPage(b)
           l == Last(P)
           Below == {d \in Eligible(b) : d < l}
<1>1. P \subseteq Nat /\ IsFiniteSet(P) /\ P # {} /\ P \subseteq Eligible(b) /\ Eligible(b) \subseteq Chats
  BY PageQuery, ChatsAssumption DEF Eligible
<1>2. l \in P /\ \A c \in P : c <= l
  BY <1>1, Extremes
<1>3. Cardinality(Below) < PageSize
  BY <1>2 DEF NextPage
<1>4. Below \in SUBSET Chats /\ P \in SUBSET Chats
  BY <1>1
<1>5. P \subseteq Below \cup {l}
  <2>1. \A c \in P : c < l \/ c = l
    BY <1>1, <1>2
  <2> QED BY <2>1, <1>1
<1> HIDE DEF P, l, Below
<1>6. /\ IsFiniteSet(Below) /\ Cardinality(Below) \in Nat /\ IsFiniteSet(Below \cup {l})
      /\ Cardinality(Below \cup {l}) <= Cardinality(Below) + 1
  <2>1. IsFiniteSet(Below) /\ Cardinality(Below) \in Nat
    BY <1>4, Counting
  <2>2. /\ IsFiniteSet(Below \cup {l})
        /\ Cardinality(Below \cup {l}) =
              IF l \in Below THEN Cardinality(Below) ELSE Cardinality(Below) + 1
    BY <2>1, FS_AddElement
  <2> QED BY <2>1, <2>2
<1>7. Cardinality(P) <= Cardinality(Below \cup {l}) /\ Cardinality(P) \in Nat
  BY <1>4, <1>5, <1>6, FS_Subset, Counting
<1>8. Cardinality(Below \cup {l}) \in Nat /\ PageSize \in Nat
  BY <1>6, FS_CardinalityType, BoundsAssumption
<1> QED BY <1>3, <1>6, <1>7, <1>8 DEF P

(* The feedbacks a batch waits for are those of one page. *)
DueFits(b) == pc[b] \in InPage => due[b] <= PageSize
RoomInv ==
    /\ \A b \in Batches : DueFits(b)
    /\ wpc = "exited" => cancelled
    /\ LostByShutdownOnly

(* The place of a task among the owed ones of its batch. *)
Rank(t) == Cardinality({c \in Owed(t.batch) : c < t.chat})

LEMMA Ranks ==
    ASSUME NEW t \in Tasks, t.chat \in Owed(t.batch)
    PROVE  /\ Rank(t) \in Nat /\ Rank(t) < Cardinality(Owed(t.batch))
           /\ \A u \in Tasks : u.batch = t.batch /\ u.chat \in Owed(t.batch) /\ Rank(u) = Rank(t)
                 => u = t
<1> DEFINE Before(c) == {d \in Owed(t.batch) : d < c}
<1>1. /\ Owed(t.batch) \in SUBSET Chats /\ \A c : Before(c) \in SUBSET Chats
      /\ \A c \in Owed(t.batch) : c \in Nat
  BY ChatsAssumption DEF Owed, Fated
<1>2. \A c : Cardinality(Before(c)) \in Nat /\ IsFiniteSet(Before(c))
  BY <1>1, Counting
<1>3. ASSUME NEW c \in Owed(t.batch), NEW d \in Owed(t.batch), c < d
      PROVE  Cardinality(Before(c)) < Cardinality(Before(d))
  <2>1. Before(c) \cup {c} \in SUBSET Before(d) /\ c \notin Before(c)
    BY <1>1, <1>3
  <2>2. Cardinality(Before(c) \cup {c}) = Cardinality(Before(c)) + 1
    BY <1>1, <2>1, Counting
  <2> DEFINE C == Before(c) \cup {c}
             D == Before(d)
  <2>3. C \in SUBSET D /\ IsFiniteSet(D)
    BY <1>2, <2>1
  <2>4. Cardinality(C) = Cardinality(Before(c)) + 1
    BY <2>2
  <2>5. Cardinality(Before(c)) \in Nat /\ Cardinality(D) \in Nat
    BY <1>2
  <2> HIDE DEF C, D
  <2>6. Cardinality(C) <= Cardinality(D)
    BY <2>3, FS_Subset
  <2>7. Cardinality(Before(c)) < Cardinality(D)
    BY <2>4, <2>5, <2>6
  <2> QED BY <2>7 DEF D
<1>4. Rank(t) < Cardinality(Owed(t.batch))
  <2> DEFINE B == Before(t.chat)
             O == Owed(t.batch)
  <2>1. B \subseteq O /\ t.chat \in O /\ t.chat \notin B /\ O \in SUBSET Chats /\ B \in SUBSET Chats
    BY <1>1
  <2> HIDE DEF B, O
  <2>2. B \cup {t.chat} \in SUBSET O /\ IsFiniteSet(O) /\ Cardinality(O) \in Nat
    BY <2>1, Counting
  <2>3. Cardinality(B \cup {t.chat}) = Cardinality(B) + 1 /\ Cardinality(B) \in Nat
    BY <2>1, Counting
  <2>4. Cardinality(B \cup {t.chat}) <= Cardinality(O)
    BY <2>2, FS_Subset
  <2>5. Cardinality(B) < Cardinality(O)
    BY <2>2, <2>3, <2>4
  <2> QED BY <2>5 DEF B, O, Rank
<1>5. Rank(t) \in Nat
  BY <1>2 DEF Rank
<1>6. ASSUME NEW u \in Tasks, u.batch = t.batch, u.chat \in Owed(t.batch), Rank(u) = Rank(t)
      PROVE  u = t
  <2>1. Rank(u) = Cardinality(Before(u.chat)) /\ Rank(t) = Cardinality(Before(t.chat))
    BY <1>6 DEF Rank
  <2>2. ~(u.chat < t.chat) /\ ~(t.chat < u.chat)
    <3>1. ASSUME u.chat < t.chat PROVE FALSE
      <4>1. Rank(u) < Rank(t)
        BY <1>3, <1>6, <2>1, <3>1
      <4>2. Rank(u) \in Nat
        BY <1>2, <2>1
      <4> QED BY <1>6, <4>1, <4>2
    <3>2. ASSUME t.chat < u.chat PROVE FALSE
      <4>1. Rank(t) < Rank(u)
        BY <1>3, <1>6, <2>1, <3>2
      <4>2. Rank(t) \in Nat
        BY <1>2, <2>1
      <4> QED BY <1>6, <4>1, <4>2
    <3> QED BY <3>1, <3>2
  <2>3. u.chat = t.chat
    BY <1>1, <1>6, <2>2
  <2> QED BY <1>6, <2>3 DEF Tasks
<1> QED BY <1>4, <1>5, <1>6

(* While every requested batch has room for a page, a batch that has a chat *)
(* at hand finds room for its task: the queued tasks have different places  *)
(* among the pages, and the place of the chat at hand is free.              *)
LEMMA RoomForOneMore ==
    ASSUME TypeInv, OfferInv, OutcomeInv, RoomInv, RoomForAll, ~cancelled,
           NEW b \in Batches, pc[b] = "enqueue"
    PROVE  Len(queue) < QueueCap
<1> DEFINE B == {x \in Batches : pc[x] # "new"}
           R == 0..(PageSize - 1)
           free == <<b, Cardinality(Owed(b))>>
           T == (B \X R) \ {free}
           I == 1..Len(queue)
           h == [i \in I |-> <<queue[i].batch, Rank(queue[i])>>]
<1>1. /\ Len(queue) \in Nat /\ PageSize \in Nat \ {0} /\ QueueCap \in Nat
      /\ \A i \in I : queue[i] \in Tasks
      /\ \A i, j \in I : queue[i] = queue[j] => i = j
  BY BoundsAssumption DEF TypeInv, TypeOK, OfferInv, OneTaskEach
<1>2. ASSUME NEW i \in I
      PROVE  queue[i].chat \in Owed(queue[i].batch)
  <2> DEFINE t == queue[i]
  <2>1. t \in Tasks /\ Queued(t)
    BY <1>1 DEF Queued
  <2> HIDE DEF t
  <2>2. fate[t.batch][t.chat] = "pending" /\ t.chat \in Chats
    BY <2>1 DEF OfferInv, OneTaskEach, Tasks
  <2>3. t.chat \in Owed(t.batch)
    BY <2>2 DEF Owed, Fated
  <2> QED BY <2>3 DEF t
<1>3. ASSUME NEW x \in Batches, Owed(x) # {} \/ x = b
      PROVE  /\ x \in B /\ Cardinality(Owed(x)) \in Nat
             /\ Cardinality(Owed(x)) <= PageSize
             /\ x = b => Cardinality(Owed(x)) < PageSize
  <2>1. pc[x] \in InPage
    BY <1>3 DEF OfferInv, Accounts, OutcomeInv, Outcome, InPage
  <2>2. due[x] = Cardinality(page[x]) + Cardinality(Owed(x)) /\ due[x] <= PageSize
    BY <2>1 DEF OfferInv, Accounts, RoomInv, DueFits
  <2>3. page[x] \in SUBSET Chats /\ Owed(x) \in SUBSET Chats
    BY DEF TypeInv, TypeOK, Owed, Fated
  <2>4. Cardinality(page[x]) \in Nat /\ Cardinality(Owed(x)) \in Nat
    BY <2>3, Counting
  <2>5. x = b => Cardinality(page[x]) # 0
    BY <2>3, Counting DEF TypeInv, PageShape
  <2> QED BY <1>1, <2>1, <2>2, <2>4, <2>5 DEF InPage
<1>4. h \in [I -> T]
  <2> SUFFICES ASSUME NEW i \in I
               PROVE  <<queue[i].batch, Rank(queue[i])>> \in T
    OBVIOUS
  <2> DEFINE t == queue[i]
             n == Cardinality(Owed(t.batch))
  <2>1. t \in Tasks /\ t.batch \in Batches /\ t.chat \in Owed(t.batch)
    BY <1>1, <1>2 DEF Tasks
  <2>2. Rank(t) \in Nat /\ Rank(t) < n
    BY <2>1, Ranks
  <2>3. t.batch \in B /\ n \in Nat /\ n <= PageSize
    BY <1>3, <2>1
  <2>4. Rank(t) \in R
    BY <1>1, <2>2, <2>3
  <2>5. t.batch = b => Rank(t) # Cardinality(Owed(b))
    BY <2>2, <2>3
  <2> HIDE DEF t, B, R
  <2>6. <<t.batch, Rank(t)>> \in T
    BY <2>3, <2>4, <2>5
  <2> QED BY <2>6 DEF t
<1>5. \A i, j \in I : h[i] = h[j] => i = j
  <2> SUFFICES ASSUME NEW i \in I, NEW j \in I, h[i] = h[j]
               PROVE  i = j
    OBVIOUS
  <2>1. queue[i].batch = queue[j].batch /\ Rank(queue[i]) = Rank(queue[j])
    OBVIOUS
  <2>2. queue[i] = queue[j]
    BY <1>1, <1>2, <2>1, Ranks
  <2> QED BY <1>1, <2>2
<1>6. h \in Injection(I, T)
  BY <1>4, <1>5 DEF Injection, IsInjective
<1>7. IsFiniteSet(B) /\ IsFiniteSet(R) /\ Cardinality(R) = PageSize /\ Cardinality(B) \in Nat
  <2>1. IsFiniteSet(B) /\ Cardinality(B) \in Nat
    <3>1. B \in SUBSET Batches
      OBVIOUS
    <3> HIDE DEF B
    <3> QED BY <3>1, BatchesAssumption, FS_Subset, FS_CardinalityType
  <2>2. IsFiniteSet(R) /\ Cardinality(R) = PageSize
    <3>1. PageSize - 1 \in Int /\ ~(0 > PageSize - 1) /\ (PageSize - 1) - 0 + 1 = PageSize
      BY <1>1
    <3> QED BY <3>1, FS_Interval
  <2> QED BY <2>1, <2>2
<1>8. IsFiniteSet(B \X R) /\ Cardinality(B \X R) = Cardinality(B) * PageSize
  BY <1>7, FS_Product
<1>9. free \in B \X R
  BY <1>1, <1>3
<1>10. IsFiniteSet(T) /\ Cardinality(T) = Cardinality(B) * PageSize - 1
  <2> DEFINE X == B \X R
  <2>1. IsFiniteSet(X) /\ Cardinality(X) = Cardinality(B) * PageSize /\ free \in X
    BY <1>8, <1>9
  <2> HIDE DEF X
  <2>2. IsFiniteSet(X \ {free}) /\ Cardinality(X \ {free}) = Cardinality(X) - 1
    BY <2>1, FS_RemoveElement
  <2> QED BY <2>1, <2>2 DEF X
<1>11. IsFiniteSet(I) /\ Cardinality(I) = Len(queue)
  <2>1. PICK n \in Nat : n = Len(queue)
    BY <1>1
  <2>2. IsFiniteSet(1..n) /\ Cardinality(1..n) = IF 1 > n THEN 0 ELSE n - 1 + 1
    BY FS_Interval
  <2>3. Cardinality(1..n) = n
    BY <2>2
  <2> QED BY <2>1, <2>2, <2>3
<1>12. Len(queue) <= Cardinality(B) * PageSize - 1
  <2> HIDE DEF I, T, h
  <2> QED BY <1>6, <1>10, <1>11, FS_Injection
<1>13. Cardinality(B) * PageSize <= QueueCap /\ Cardinality(B) * PageSize \in Nat
  BY <1>1, <1>7 DEF RoomForAll
<1> QED BY <1>1, <1>12, <1>13

LEMMA RoomInit == Init => RoomInv
BY DEF Init, RoomInv, DueFits, InPage, LostByShutdownOnly, Fated

(* Requested batches stay requested. *)
LEMMA RoomShrinks ==
    ASSUME TypeInv, \A x \in Batches : pc'[x] = "new" => pc[x] = "new", RoomForAll'
    PROVE  RoomForAll
<1> DEFINE B == {x \in Batches : pc[x] # "new"}
           C == {x \in Batches : pc'[x] # "new"}
<1>1. B \in SUBSET C /\ IsFiniteSet(C) /\ IsFiniteSet(B)
  BY BatchesAssumption, FS_Subset
<1> DEFINE m == Cardinality(B)
           n == Cardinality(C)
<1>2. m \in Nat /\ n \in Nat /\ m <= n /\ PageSize \in Nat /\ QueueCap \in Nat
  BY <1>1, FS_Subset, FS_CardinalityType, BoundsAssumption
<1>3. n * PageSize <= QueueCap
  BY DEF RoomForAll
<1> HIDE DEF m, n
<1>4. m * PageSize <= n * PageSize
  BY <1>2
<1>5. m * PageSize <= QueueCap
  BY <1>2, <1>3, <1>4
<1> QED BY <1>5 DEF m, RoomForAll

LEMMA RoomNext ==
    TypeInv /\ TypeInv' /\ OfferInv /\ OutcomeInv /\ RoomInv /\ [Next]_vars => RoomInv'
<1> SUFFICES ASSUME TypeInv, TypeInv', OfferInv, OutcomeInv, RoomInv, [Next]_vars
             PROVE  RoomInv'
  OBVIOUS
<1> DEFINE NoLoss == \A x \in Batches : \A c \in Chats : fate'[x][c] = "lost" => fate[x][c] = "lost"
<1>0. /\ \A x \in Batches : DueFits(x)
      /\ wpc = "exited" => cancelled
      /\ RoomForAll /\ ~cancelled => \A x \in Batches, c \in Chats : fate[x][c] # "lost"
  BY DEF RoomInv, LostByShutdownOnly, Fated
<1>1. ASSUME \A x \in Batches : pc'[x] = "new" => pc[x] = "new",
             cancelled => cancelled',
             RoomForAll /\ ~cancelled => NoLoss
      PROVE  LostByShutdownOnly'
  <2> SUFFICES ASSUME RoomForAll', ~cancelled', NEW x \in Batches, NEW c \in Chats
               PROVE  fate'[x][c] # "lost"
    BY DEF LostByShutdownOnly, Fated
  <2>1. RoomForAll /\ ~cancelled
    BY <1>1, RoomShrinks
  <2> QED BY <1>0, <1>1, <2>1
<1>2. ASSUME NEW b \in Batches, NEW d, NEW f, f # "lost", Mark(b, d, f)
      PROVE  NoLoss
  BY <1>2 DEF Mark, TypeInv, TypeOK
<1>3. ASSUME NEW b \in Batches, BatchStep(b)
      PROVE  RoomInv'
  <2>1. /\ UNCHANGED <<cancelled, wpc>> /\ pc'[b] # "new"
        /\ \A x \in Batches : x # b => pc'[x] = pc[x] /\ due'[x] = due[x]
    BY <1>3, BatchStepFrame DEF TypeInv, lifeVars, senderVars, Untouched, InPage, Between, Ended
  <2>2. DueFits(b)'
    <3>1. CASE FetchPage(b)
      <4>1. due'[b] = Cardinality(NextPage(b)) /\ Cardinality(NextPage(b)) <= PageSize
        BY <3>1, PageFits DEF FetchPage, TypeInv, TypeOK
      <4> QED BY <4>1 DEF DueFits
    <3>2. CASE ~FetchPage(b)
      <4>1. due'[b] = due[b] /\ (pc'[b] \in InPage => pc[b] \in InPage)
        BY <1>3, <3>2 DEF BatchStep, QueryEmpty, QueryFails, NextChat, PageOffered, LimiterGrants,
           LimiterInterrupted, EnqueueBroadcast, EnqueueDropped, GiveUpChat, PageCollected,
           StampAlive, StampFails, FlushDead, FinalFlush, FlushFails, exceptPc, batchVars,
           InPage, TypeInv, TypeOK
      <4> QED BY <1>0, <4>1 DEF DueFits
    <3> QED BY <3>1, <3>2
  <2>3. RoomForAll /\ ~cancelled => NoLoss
    <3>1. CASE EnqueueBroadcast(b)
      BY <1>2, <3>1 DEF EnqueueBroadcast
    <3>2. CASE EnqueueDropped(b) \/ LimiterInterrupted(b)
      BY <3>2, RoomForOneMore DEF EnqueueDropped, LimiterInterrupted
    <3>3. CASE ~(EnqueueBroadcast(b) \/ EnqueueDropped(b) \/ LimiterInterrupted(b))
      <4>1. UNCHANGED fate
        BY <1>3, <3>3 DEF BatchStep, QueryEmpty, QueryFails, FetchPage, NextChat, PageOffered,
           LimiterGrants, PageCollected, StampAlive, StampFails, FlushDead, FinalFlush, FlushFails,
           exceptPc, historyVars
      <4> QED BY <4>1
    <3> QED BY <3>1, <3>2, <3>3
  <2>4. \A x \in Batches : DueFits(x)'
    BY <1>0, <2>1, <2>2 DEF DueFits
  <2>5. LostByShutdownOnly'
    <3>1. \A x \in Batches : pc'[x] = "new" => pc[x] = "new"
      BY <2>1
    <3> HIDE DEF NoLoss
    <3> QED BY <1>1, <2>1, <2>3, <3>1
  <2> QED BY <1>0, <2>1, <2>4, <2>5 DEF RoomInv
<1>4. ASSUME \A x \in Batches : pc'[x] \in InPage => pc[x] \in InPage /\ due'[x] <= due[x],
             \A x \in Batches : pc'[x] = "new" => pc[x] = "new",
             wpc' = "exited" => cancelled', cancelled => cancelled',
             RoomForAll /\ ~cancelled => NoLoss
      PROVE  RoomInv'
  <2>1. \A x \in Batches : due[x] \in Nat /\ due'[x] \in Nat /\ PageSize \in Nat
    BY BoundsAssumption DEF TypeInv, TypeOK
  <2>2. \A x \in Batches : DueFits(x)'
    BY <1>0, <1>4, <2>1 DEF DueFits
  <2>3. LostByShutdownOnly'
    BY <1>1, <1>4
  <2> QED BY <1>4, <2>2, <2>3 DEF RoomInv
<1>5. ASSUME NEW b \in Batches, Feedback(b)
      PROVE  RoomInv'
  <2>1. /\ UNCHANGED <<pc, cancelled>> /\ wpc' = "idle"
        /\ \A x \in Batches : due'[x] = due[x] \/ due'[x] = due[x] - 1
    BY <1>5 DEF Feedback, lifeVars, TypeInv, TypeOK
  <2>2. \A x \in Batches : due'[x] <= due[x]
    <3>1. \A x \in Batches : due[x] \in Nat
      BY DEF TypeInv, TypeOK
    <3> QED BY <2>1, <3>1
  <2>3. NoLoss
    BY <1>2, <1>5 DEF Feedback, TypeInv, TypeOK, SenderShape, Verdicts
  <2> QED BY <1>4, <2>1, <2>2, <2>3
<1>6. ASSUME NEW b \in Batches, AddBatchTask(b) \/ NotifySend(b)
      PROVE  RoomInv'
  <2>1. /\ UNCHANGED <<due, fate, wpc, cancelled>>
        /\ \A x \in Batches : pc'[x] = pc[x] \/ pc'[x] \in {"notify", "queued"}
    BY <1>6 DEF AddBatchTask, NotifySend, exceptPc, batchVars, senderVars, lifeVars, historyVars,
       TypeInv, TypeOK
  <2>2. \A x \in Batches : due'[x] <= due[x]
    BY <2>1 DEF TypeInv, TypeOK
  <2> QED BY <1>0, <1>4, <2>1, <2>2 DEF InPage
<1>7. CASE ListenStart
  <2>1. /\ UNCHANGED <<due, fate, wpc, cancelled>>
        /\ \A x \in Batches : pc'[x] = pc[x] \/ pc'[x] = "query"
    BY <1>7 DEF ListenStart, batchVars, senderVars, lifeVars, TypeInv, TypeOK
  <2>2. \A x \in Batches : due'[x] <= due[x]
    BY <2>1 DEF TypeInv, TypeOK
  <2> QED BY <1>0, <1>4, <2>1, <2>2 DEF InPage
<1>8. ASSUME \/ SenderStep \/ ListenExit \/ Shutdown \/ DrainOne \/ DrainDone \/ StopBatchWorker
             \/ UNCHANGED vars \/ \E c \in Chats : Revive(c)
      PROVE  RoomInv'
  <2>1. UNCHANGED <<pc, due>>
    BY <1>8, SenderStepFrame DEF ListenExit, Shutdown, DrainOne, DrainDone, StopBatchWorker, Revive,
       vars, batchVars
  <2>2. (wpc' = "exited" => cancelled') /\ (cancelled => cancelled')
    BY <1>0, <1>8 DEF SenderStep, TakeTask, SenderLimiterGrants, SenderLimiterInterrupted,
       SendSettles, SendFails, SenderExit, ListenExit, Shutdown, DrainOne, DrainDone,
       StopBatchWorker, Revive, vars, senderVars, lifeVars
  <2>3. RoomForAll /\ ~cancelled => UNCHANGED fate
    BY <1>0, <1>8 DEF SenderStep, TakeTask, SenderLimiterGrants, SenderLimiterInterrupted,
       SendSettles, SendFails, SenderExit, ListenExit, Shutdown, DrainOne, DrainDone,
       StopBatchWorker, Revive, vars, historyVars
  <2>4. \A x \in Batches : due'[x] <= due[x]
    BY <2>1 DEF TypeInv, TypeOK
  <2> QED BY <1>4, <2>1, <2>2, <2>3, <2>4
<1> HIDE DEF NoLoss
<1> QED BY <1>3, <1>5, <1>6, <1>7, <1>8 DEF Next

(* With room in the queue for a page of every requested batch, however many *)
(* batches and however large the pages, only a shutdown loses a task.       *)
THEOREM RoomIsEnough == Spec => []LostByShutdownOnly
<1>1. TypeInv /\ [Next]_vars => TypeInv'
  BY TypeOKNext, SenderShapeNext, NotifyShapeNext, PageShapeNext DEF TypeInv
<1>2. RoomInv /\ (TypeInv /\ OfferInv /\ OutcomeInv) /\ [Next]_vars => RoomInv'
  BY <1>1, RoomNext
<1>3. RoomInv => LostByShutdownOnly
  BY DEF RoomInv
<1> QED BY Outcomes, RoomInit, <1>2, <1>3, PTL DEF Spec

-------------------------------------------------------------------------------
(* Progress: a batch has only so many steps to take.                        *)

(* What a batch still has to do: every chat above its cursor costs at most  *)
(* nine steps, every chat of its page three, every feedback one, and its    *)
(* place the rest.                                                          *)
Above(b) == {c \in Chats : c > cursor[b]}
Place(p) ==
    CASE p = "new" -> 5 [] p = "notify" -> 4 [] p = "queued" -> 3
      [] p = "query" -> 2 [] p = "final" -> 1
      [] p = "stamp" -> 4 [] p = "flush" -> 3
      [] p = "chat" -> 6 [] p = "limit" -> 5 [] p = "enqueue" -> 4 [] p = "collect" -> 5
      [] OTHER -> 0
StepsLeft(b) ==
    9 * Cardinality(Above(b)) + 3 * Cardinality(page[b]) + due[b] + Place(pc[b])

MostSteps == 9 * Cardinality(Chats) + 5
StepsBounded == \A b \in Batches : StepsLeft(b) \in 0..MostSteps

(* The steps of batch b, the one with which the listener starts it included. *)
StepOf(b) ==
    \/ AddBatchTask(b) \/ NotifySend(b) \/ BatchStep(b) \/ Feedback(b)
    \/ ListenStart /\ Head(notify) = b

(* Each of its steps uses up some of a batch's steps; no other step adds any. *)
BatchesRunOut ==
    [][\A b \in Batches : /\ StepsLeft(b)' <= StepsLeft(b)
                          /\ StepOf(b) => StepsLeft(b)' < StepsLeft(b)]_vars

CountsAreNat ==
    \A b \in Batches : /\ Above(b) \in SUBSET Chats /\ Cardinality(Above(b)) \in Nat
                       /\ Cardinality(page[b]) \in Nat /\ due[b] \in Nat
                       /\ Place(pc[b]) \in 0..6 /\ StepsLeft(b) \in Nat

LEMMA Counts == TypeOK => CountsAreNat
<1> SUFFICES ASSUME TypeOK, NEW b \in Batches
             PROVE  /\ Above(b) \in SUBSET Chats /\ Cardinality(Above(b)) \in Nat
                    /\ Cardinality(page[b]) \in Nat /\ due[b] \in Nat
                    /\ Place(pc[b]) \in 0..6 /\ StepsLeft(b) \in Nat
  BY DEF CountsAreNat
<1>1. Above(b) \in SUBSET Chats /\ page[b] \in SUBSET Chats /\ due[b] \in Nat
  BY DEF TypeOK, Above
<1>2. Cardinality(Above(b)) \in Nat /\ Cardinality(page[b]) \in Nat
  BY <1>1, Counting
<1>3. Place(pc[b]) \in 0..6
  BY DEF Place
<1> QED BY <1>1, <1>2, <1>3 DEF StepsLeft

(* A step that only moves a batch to an earlier place. *)
LEMMA PlaceFalls ==
    ASSUME TypeOK, NEW b \in Batches, UNCHANGED <<cursor[b], page[b], due[b]>>
    PROVE  /\ pc'[b] = pc[b] => StepsLeft(b)' = StepsLeft(b)
           /\ Place(pc'[b]) \in 0..6 /\ Place(pc'[b]) < Place(pc[b]) => StepsLeft(b)' < StepsLeft(b)
<1> DEFINE n == 9 * Cardinality(Above(b)) + 3 * Cardinality(page[b]) + due[b]
<1>1. n \in Nat /\ Place(pc[b]) \in 0..6
  BY Counts DEF CountsAreNat
<1>2. Above(b)' = Above(b)
  BY DEF Above
<1>3. StepsLeft(b) = n + Place(pc[b]) /\ StepsLeft(b)' = n + Place(pc'[b])
  BY <1>2 DEF StepsLeft
<1> HIDE DEF n
<1> QED BY <1>1, <1>3

(* A page takes its chats out of those above the cursor. *)
LEMMA FetchFalls ==
    ASSUME TypeOK, NEW b \in Batches, FetchPage(b)
    PROVE  StepsLeft(b)' < StepsLeft(b)
<1> DEFINE P == NextPage(b)
           A == Above(b)
           B == {c \in Chats : c > Last(P)}
<1>1. /\ P \subseteq Eligible(b) /\ P # {} /\ Last(P) \in Eligible(b)
      /\ \A c \in P : c <= Last(P)
  BY PageQuery DEF FetchPage, TypeOK
<1>2. P \subseteq A /\ B \subseteq A /\ P \cap B = {}
  <2>1. Last(P) \in Nat /\ cursor[b] \in Nat /\ Last(P) > cursor[b] /\ active \subseteq Chats
    BY <1>1, ChatsAssumption DEF Eligible, TypeOK
  <2>2. P \subseteq A
    BY <1>1, <2>1 DEF Eligible, Above
  <2>3. ASSUME NEW c \in B PROVE c \in A
    <3>1. c \in Chats /\ c \in Nat /\ c > Last(P)
      BY ChatsAssumption
    <3>2. c > cursor[b]
      BY <2>1, <3>1
    <3> QED BY <3>1, <3>2 DEF Above
  <2>4. P \cap B = {}
    <3>1. ASSUME NEW c \in P, c \in B PROVE FALSE
      <4>1. c \in Nat /\ c <= Last(P) /\ c > Last(P)
        BY <3>1, <1>1, ChatsAssumption
      <4> HIDE DEF P, B
      <4> QED BY <4>1, <2>1
    <3> HIDE DEF P, B
    <3> QED BY <3>1
  <2> QED BY <2>2, <2>3, <2>4
<1>3. A \in SUBSET Chats /\ P \in SUBSET Chats /\ B \in SUBSET Chats
  <2>1. A \in SUBSET Chats
    BY DEF Above
  <2> QED BY <1>2, <2>1
<1>4. /\ cursor'[b] = Last(P) /\ page'[b] = P /\ due'[b] = Cardinality(P)
      /\ pc'[b] = "chat" /\ pc[b] = "query"
  BY DEF FetchPage, TypeOK
<1>5. Above(b)' = B
  BY <1>4 DEF Above
<1> HIDE DEF P, A, B
<1>6. PICK a \in Nat, m \in Nat, n \in Nat :
        a = Cardinality(A) /\ m = Cardinality(B) /\ n = Cardinality(P)
  BY <1>3, Counting
<1>7. m + n <= a /\ n # 0
  <2>1. IsFiniteSet(B) /\ IsFiniteSet(P) /\ IsFiniteSet(A)
    BY <1>3, Counting
  <2>2. IsFiniteSet(B \cup P) /\ Cardinality(B \cup P) = Cardinality(B) + Cardinality(P) - Cardinality(B \cap P)
    BY <2>1, FS_Union
  <2>3. Cardinality(B \cap P) = 0
    <3>1. B \cap P = {}
      BY <1>2
    <3> QED BY <3>1, FS_EmptySet
  <2>4. Cardinality(B \cup P) <= Cardinality(A)
    <3>1. B \cup P \in SUBSET A
      BY <1>2
    <3> QED BY <3>1, <2>1, FS_Subset
  <2>5. n # 0
    BY <1>1, <1>3, <1>6, Counting
  <2> QED BY <1>6, <2>2, <2>3, <2>4, <2>5
<1>8. StepsLeft(b)' = 9 * m + 3 * n + n + 6
  BY <1>4, <1>5, <1>6 DEF StepsLeft, Place
<1>9. PICK q \in Nat : StepsLeft(b) = 9 * a + q + 2
  <2>1. Cardinality(page[b]) \in Nat /\ due[b] \in Nat
    BY Counts DEF CountsAreNat
  <2>2. PICK k \in Nat, d \in Nat : k = Cardinality(page[b]) /\ d = due[b]
    BY <2>1
  <2>3. StepsLeft(b) = 9 * a + (3 * k + d) + 2
    BY <1>4, <1>6, <2>2 DEF StepsLeft, Place, A
  <2> DEFINE q == 3 * k + d
  <2>4. q \in Nat /\ StepsLeft(b) = 9 * a + q + 2
    BY <2>2, <2>3
  <2> HIDE DEF q
  <2>5. \E r \in Nat : StepsLeft(b) = 9 * a + r + 2
    BY <2>4
  <2> QED BY <2>5
<1>10. 9 * m + 4 * n + 6 < 9 * a + q + 2
  <2>1. m \in Nat /\ n \in Nat /\ a \in Nat /\ q \in Nat /\ m + n <= a /\ n >= 1
    BY <1>6, <1>7, <1>9
  <2> QED BY <2>1
<1>11. 9 * m + 3 * n + n + 6 = 9 * m + 4 * n + 6
  OBVIOUS
<1> QED BY <1>8, <1>9, <1>10, <1>11

(* A chat that leaves the page makes up for the way back to the loop's head. *)
LEMMA OfferFalls ==
    ASSUME TypeInv, NEW b \in Batches, pc[b] \in {"limit", "enqueue"},
           page' = [page EXCEPT ![b] = @ \ {First(@)}],
           pc' = [pc EXCEPT ![b] = "chat"], UNCHANGED <<cursor, due>>
    PROVE  StepsLeft(b)' < StepsLeft(b)
<1>1. First(page[b]) \in page[b] /\ page[b] \in SUBSET Chats
  BY AtHand DEF TypeInv, TypeOK, PageShape
<1>2. /\ page'[b] = page[b] \ {First(page[b])} /\ pc'[b] = "chat"
      /\ cursor'[b] = cursor[b] /\ due'[b] = due[b]
  BY DEF TypeInv, TypeOK
<1>3. PICK k \in Nat : k = Cardinality(page[b]) /\ Cardinality(page'[b]) = k - 1
  BY <1>1, <1>2, Counting
<1>4. PICK a \in Nat, d \in Nat : a = Cardinality(Above(b)) /\ d = due[b]
  BY Counts DEF TypeInv, CountsAreNat
<1>5. Above(b)' = Above(b)
  BY <1>2 DEF Above
<1>6. StepsLeft(b)' = 9 * a + 3 * (k - 1) + d + 6
  BY <1>2, <1>3, <1>4, <1>5 DEF StepsLeft, Place
<1>7. StepsLeft(b) - (9 * a + 3 * k + d) >= 4 /\ StepsLeft(b) \in Nat
  <2>1. Place(pc[b]) \in 4..5
    BY DEF Place
  <2>2. PICK p \in 4..5 : p = Place(pc[b])
    BY <2>1
  <2> DEFINE n == 9 * a + 3 * k + d
  <2>3. n \in Nat /\ StepsLeft(b) = n + p
    BY <1>3, <1>4, <2>2 DEF StepsLeft
  <2> HIDE DEF n
  <2>4. StepsLeft(b) - n >= 4 /\ StepsLeft(b) \in Nat
    BY <2>2, <2>3
  <2> QED BY <2>4 DEF n
<1> QED BY <1>3, <1>4, <1>6, <1>7

LEMMA BatchStepFalls ==
    ASSUME TypeInv, NEW b \in Batches, BatchStep(b)
    PROVE  StepsLeft(b)' < StepsLeft(b)
<1>1. CASE FetchPage(b)
  BY <1>1, FetchFalls DEF TypeInv
<1>2. CASE LimiterInterrupted(b) \/ EnqueueDropped(b)
  BY <1>2, OfferFalls DEF LimiterInterrupted, EnqueueDropped, GiveUpChat
<1>3. CASE EnqueueBroadcast(b)
  BY <1>3, OfferFalls DEF EnqueueBroadcast
<1>4. CASE \/ QueryEmpty(b) \/ QueryFails(b) \/ NextChat(b) \/ PageOffered(b) \/ LimiterGrants(b)
           \/ PageCollected(b) \/ StampAlive(b) \/ StampFails(b)
           \/ FlushDead(b) \/ FinalFlush(b) \/ FlushFails(b)
  <2>1. UNCHANGED <<cursor[b], page[b], due[b]>>
    BY <1>4 DEF QueryEmpty, QueryFails, NextChat, PageOffered, LimiterGrants,
       PageCollected, StampAlive, StampFails, FlushDead, FinalFlush, FlushFails,
       exceptPc, batchVars
  <2>2. \/ pc[b] = "query" /\ pc'[b] = "final"
        \/ pc[b] = "chat" /\ pc'[b] \in {"stopped", "limit", "collect"}
        \/ pc[b] = "limit" /\ pc'[b] = "enqueue"
        \/ pc[b] = "collect" /\ pc'[b] = "stamp"
        \/ pc[b] = "stamp" /\ pc'[b] \in {"flush", "query", "stopped"}
        \/ pc[b] = "flush" /\ pc'[b] \in {"query", "stopped"}
        \/ pc[b] = "final" /\ pc'[b] \in {"done", "stopped"}
    BY <1>4 DEF QueryEmpty, QueryFails, NextChat, PageOffered, LimiterGrants,
       PageCollected, StampAlive, StampFails, FlushDead, FinalFlush, FlushFails, TypeInv, TypeOK
  <2>3. Place(pc'[b]) \in 0..6 /\ Place(pc'[b]) < Place(pc[b])
    BY <2>2 DEF Place
  <2> QED BY <2>1, <2>3, PlaceFalls DEF TypeInv
<1> QED BY <1>1, <1>2, <1>3, <1>4 DEF BatchStep

LEMMA FeedbackFalls ==
    ASSUME TypeInv, NEW b \in Batches, Feedback(b)
    PROVE  StepsLeft(b)' < StepsLeft(b)
<1>1. /\ cursor'[b] = cursor[b] /\ page'[b] = page[b] /\ pc'[b] = pc[b]
      /\ due'[b] = due[b] - 1
  BY DEF Feedback, TypeInv, TypeOK
<1>2. Above(b)' = Above(b)
  BY <1>1 DEF Above
<1>3. PICK a \in Nat, k \in Nat, d \in Nat, p \in Nat :
        a = Cardinality(Above(b)) /\ k = Cardinality(page[b]) /\ d = due[b] /\ p = Place(pc[b])
  BY Counts DEF TypeInv, CountsAreNat
<1>4. StepsLeft(b) = 9 * a + 3 * k + d + p /\ StepsLeft(b)' = 9 * a + 3 * k + (d - 1) + p
  BY <1>1, <1>2, <1>3 DEF StepsLeft
<1> QED BY <1>3, <1>4

(* The steps before the goroutine of the batch runs. *)
LEMMA WaitingFalls ==
    ASSUME TypeInv, NEW b \in Batches,
           AddBatchTask(b) \/ NotifySend(b) \/ (ListenStart /\ Head(notify) = b)
    PROVE  StepsLeft(b)' < StepsLeft(b)
<1>1. UNCHANGED <<cursor[b], page[b], due[b]>>
  BY DEF AddBatchTask, NotifySend, ListenStart, exceptPc, batchVars
<1>2. \/ pc[b] = "new" /\ pc'[b] = "notify"
      \/ pc[b] = "notify" /\ pc'[b] = "queued"
      \/ pc[b] = "queued" /\ pc'[b] = "query"
  <2>1. CASE ListenStart /\ Head(notify) = b
    <3>1. pc[b] = "queued"
      BY <2>1, HeadTailProperties DEF ListenStart, TypeInv, TypeOK, NotifyShape
    <3> QED BY <2>1, <3>1 DEF ListenStart, TypeInv, TypeOK
  <2> QED BY <2>1 DEF AddBatchTask, NotifySend, TypeInv, TypeOK
<1>3. Place(pc'[b]) \in 0..6 /\ Place(pc'[b]) < Place(pc[b])
  BY <1>2 DEF Place
<1> QED BY <1>1, <1>3, PlaceFalls DEF TypeInv

(* Any other step leaves what the batch has to do as it is. *)
LEMMA OthersKeepSteps ==
    ASSUME TypeInv, [Next]_vars, NEW x \in Batches, ~StepOf(x)
    PROVE  UNCHANGED <<pc[x], cursor[x], page[x], due[x]>>
<1> USE DEF TypeInv, TypeOK
<1>1. ASSUME NEW b \in Batches, BatchStep(b) \/ Feedback(b)
      PROVE  UNCHANGED <<pc[x], cursor[x], page[x], due[x]>>
  BY <1>1, BatchStepFrame, FeedbackFrame DEF StepOf, Untouched
<1>2. ASSUME NEW b \in Batches, AddBatchTask(b) \/ NotifySend(b)
      PROVE  UNCHANGED <<pc[x], cursor[x], page[x], due[x]>>
  BY <1>2 DEF AddBatchTask, NotifySend, StepOf, exceptPc, batchVars
<1>3. CASE ListenStart
  BY <1>3 DEF ListenStart, StepOf, batchVars
<1>4. CASE \/ SenderStep \/ ListenExit \/ Shutdown \/ DrainOne \/ DrainDone \/ StopBatchWorker
           \/ UNCHANGED vars \/ \E c \in Chats : Revive(c)
  BY <1>4, SenderStepFrame DEF ListenExit, Shutdown, DrainOne, DrainDone, StopBatchWorker, Revive,
     vars, batchVars
<1> QED BY <1>1, <1>2, <1>3, <1>4 DEF Next

LEMMA EveryStepFalls ==
    ASSUME TypeInv, TypeInv', [Next]_vars, NEW x \in Batches
    PROVE  /\ StepsLeft(x)' \in Nat /\ StepsLeft(x)' <= StepsLeft(x)
           /\ StepOf(x) => StepsLeft(x)' < StepsLeft(x)
<1>1. StepsLeft(x) \in Nat
  BY Counts DEF TypeInv, CountsAreNat
<1>2. StepsLeft(x)' \in Nat
  <2>1. CountsAreNat'
    <3>1. TypeOK' => CountsAreNat'
      BY Counts, PTL
    <3> QED BY <3>1 DEF TypeInv
  <2> QED BY <2>1 DEF CountsAreNat
<1>3. CASE StepOf(x)
  <2>1. StepsLeft(x)' < StepsLeft(x)
    BY <1>3, BatchStepFalls, FeedbackFalls, WaitingFalls DEF StepOf
  <2> QED BY <1>1, <1>2, <2>1
<1>4. CASE ~StepOf(x)
  <2>1. StepsLeft(x)' = StepsLeft(x)
    BY <1>4, OthersKeepSteps, PlaceFalls DEF TypeInv
  <2> QED BY <1>1, <1>2, <1>4, <2>1
<1> QED BY <1>3, <1>4

(* However many chats there are and whatever the other goroutines do, a     *)
(* batch takes at most MostSteps steps: no batch runs for ever.             *)
THEOREM BatchesEnd == Spec => BatchesRunOut /\ []StepsBounded
<1>1. TypeInv /\ [Next]_vars => TypeInv'
  BY TypeOKNext, SenderShapeNext, NotifyShapeNext, PageShapeNext DEF TypeInv
<1>2. TypeInv /\ [Next]_vars =>
        [\A b \in Batches : /\ StepsLeft(b)' <= StepsLeft(b)
                            /\ StepOf(b) => StepsLeft(b)' < StepsLeft(b)]_vars
  BY <1>1, EveryStepFalls
<1>3. Init => StepsBounded
  <2> SUFFICES ASSUME Init, NEW b \in Batches
               PROVE  StepsLeft(b) \in 0..MostSteps
    BY DEF StepsBounded
  <2>1. TypeInv
    BY TypeInit
  <2>2. /\ cursor[b] = 0 /\ page[b] = {} /\ due[b] = 0 /\ pc[b] = "new"
    BY DEF Init
  <2>3. Above(b) = Chats
    <3>1. \A c \in Chats : c \in Nat /\ c > 0
      BY ChatsAssumption
    <3> QED BY <2>2, <3>1 DEF Above
  <2>4. Cardinality(page[b]) = 0 /\ Cardinality(Chats) \in Nat
    BY <2>2, FS_EmptySet, ChatsAssumption, FS_CardinalityType
  <2> QED BY <2>2, <2>3, <2>4 DEF StepsLeft, MostSteps, Place
<1>4. StepsBounded /\ TypeInv /\ [Next]_vars => StepsBounded'
  <2> SUFFICES ASSUME StepsBounded, TypeInv, [Next]_vars, NEW b \in Batches
               PROVE  (StepsLeft(b) \in 0..MostSteps)'
    BY DEF StepsBounded
  <2>1. StepsLeft(b)' \in Nat /\ StepsLeft(b)' <= StepsLeft(b) /\ StepsLeft(b) \in 0..MostSteps
    BY <1>1, EveryStepFalls DEF StepsBounded
  <2>2. MostSteps \in Nat /\ MostSteps' = MostSteps
    BY ChatsAssumption, FS_CardinalityType DEF MostSteps
  <2> QED BY <2>1, <2>2
<1>5. Spec => []TypeInv
  BY Offers, PTL
<1> QED BY <1>2, <1>3, <1>4, <1>5, PTL DEF Spec, BatchesRunOut
-------------------------------------------------------------------------------
(* Progress: the sender and the drain have only so much to do.              *)

(* The texts not settled yet: not offered, or with a task. *)
Unsettled == {x \in Batches \X Chats : fate[x[1]][x[2]] \in {"none", "pending"}}

(* What the sender still has to do with the task it has, or to find one. *)
Phase == CASE wpc = "idle" -> MaxAttempts + 3
           [] wpc = "limit" -> MaxAttempts + 2
           [] wpc = "send" -> MaxAttempts - attempt + 1
           [] wpc = "feedback" -> 1
           [] OTHER -> 0
Undrained == IF queuesDown THEN 0 ELSE 1
Work == (MaxAttempts + 3) * Cardinality(Unsettled) + Phase + Undrained

(* The steps of the sender, its feedbacks included, and of the drain. *)
Settling == SenderStep \/ DrainOne \/ DrainDone \/ \E b \in Batches : Feedback(b)

(* Each of them brings the two nearer to their end; no batch, no command    *)
(* and no shutdown gives them more to do.                                   *)
WorkFalls == [][Work' <= Work /\ (Settling => Work' < Work)]_vars

UnsettledFinite == IsFiniteSet(Unsettled) /\ Cardinality(Unsettled) \in Nat
LEMMA UnsettledIsFinite == UnsettledFinite
<1>1. IsFiniteSet(Batches \X Chats)
  BY BatchesAssumption, ChatsAssumption, FS_Product
<1>2. Unsettled \subseteq Batches \X Chats
  BY DEF Unsettled
<1> QED BY <1>1, <1>2, FS_Subset, FS_CardinalityType DEF UnsettledFinite

LEMMA WorkTypes ==
    ASSUME TypeInv
    PROVE  /\ MaxAttempts \in Nat \ {0} /\ Phase \in 0..(MaxAttempts + 3) /\ Undrained \in {0, 1}
           /\ wpc = "idle" => Phase = MaxAttempts + 3
           /\ wpc = "limit" => Phase = MaxAttempts + 2
           /\ wpc = "send" => Phase = MaxAttempts - attempt + 1 /\ Phase > 1
           /\ wpc = "feedback" => Phase = 1
           /\ wpc = "exited" => Phase = 0
BY BoundsAssumption DEF TypeInv, TypeOK, SenderShape, Phase, Undrained

LEMMA PhaseNext ==
    /\ wpc' = "idle" => Phase' = MaxAttempts + 3
    /\ wpc' = "limit" => Phase' = MaxAttempts + 2
    /\ wpc' = "send" => Phase' = MaxAttempts - attempt' + 1
    /\ wpc' = "feedback" => Phase' = 1
    /\ wpc' = "exited" => Phase' = 0
BY DEF Phase

(* What a step does to the texts that are not settled. *)
AllStay == Cardinality(Unsettled)' = Cardinality(Unsettled)
OneLess == Cardinality(Unsettled)' = Cardinality(Unsettled) - 1

LEMMA StillUnsettled ==
    ASSUME TypeOK, NEW b \in Batches, NEW c \in Chats, fate[b][c] = "none", Mark(b, c, "pending")
    PROVE  AllStay
<1>1. Unsettled' = Unsettled
  BY DEF Unsettled, Mark, TypeOK
<1> QED BY <1>1 DEF AllStay

LEMMA Settled ==
    ASSUME TypeOK, NEW b \in Batches, NEW c \in Chats, fate[b][c] \in {"none", "pending"},
           NEW f \in Verdicts \cup {"lost"}, Mark(b, c, f)
    PROVE  OneLess /\ Cardinality(Unsettled) >= 1
<1>1. Unsettled' = Unsettled \ {<<b, c>>} /\ <<b, c>> \in Unsettled
  BY DEF Unsettled, Mark, TypeOK, Verdicts
<1>2. Cardinality(Unsettled \ {<<b, c>>}) = Cardinality(Unsettled) - 1
  BY <1>1, UnsettledIsFinite, FS_RemoveElement DEF UnsettledFinite
<1>3. Cardinality(Unsettled \ {<<b, c>>}) \in Nat
  BY UnsettledIsFinite, FS_Subset, FS_CardinalityType DEF UnsettledFinite
<1> QED BY <1>1, <1>2, <1>3, UnsettledIsFinite DEF OneLess, UnsettledFinite

LEMMA WorkMoves ==
    ASSUME TypeInv, TypeInv'
    PROVE  /\ AllStay => Work' - Work = (Phase' - Phase) + (Undrained' - Undrained)
           /\ OneLess => Work' - Work = (Phase' - Phase) + (Undrained' - Undrained) - (MaxAttempts + 3)
           /\ Work \in Nat /\ Work' \in Int /\ Phase' \in Int /\ Undrained' \in Int
<1>1. PICK n \in Nat : n = Cardinality(Unsettled)
  BY UnsettledIsFinite DEF UnsettledFinite
<1>2. PICK k \in Nat : k = MaxAttempts + 3
  BY BoundsAssumption
<1>3. /\ Phase \in Nat /\ Undrained \in Nat /\ Phase' \in Int /\ Undrained' \in Int
  <2>1. Phase \in Nat /\ Undrained \in Nat
    BY WorkTypes
  <2>2. Phase' \in Int
    BY BoundsAssumption, PhaseNext DEF TypeInv, TypeOK
  <2> QED BY <2>1, <2>2 DEF Undrained
<1>4. Work = k * n + Phase + Undrained
  BY <1>1, <1>2 DEF Work
<1>5. Work' = k * Cardinality(Unsettled)' + Phase' + Undrained'
  BY <1>2 DEF Work
<1>6. k * n \in Nat
  BY <1>1, <1>2
<1>7. k * (n - 1) = k * n - k
  BY <1>1, <1>2
<1>8. AllStay => Work' = k * n + Phase' + Undrained'
  BY <1>1, <1>5 DEF AllStay
<1>9. OneLess => Work' = k * (n - 1) + Phase' + Undrained'
  BY <1>1, <1>5 DEF OneLess
<1>10. Cardinality(Unsettled)' \in Nat
  <2>1. UnsettledFinite'
    BY UnsettledIsFinite, PTL
  <2> QED BY <2>1 DEF UnsettledFinite
<1>11. PICK j \in Nat : j = Cardinality(Unsettled)'
  BY <1>10
<1>12. Work' \in Int
  BY <1>2, <1>3, <1>5, <1>11
<1> QED BY <1>2, <1>3, <1>4, <1>6, <1>7, <1>8, <1>9, <1>12

LEMMA SettlingFalls ==
    ASSUME TypeInv, OfferInv, TypeInv', Settling
    PROVE  Work' < Work
<1>0. MaxAttempts \in Nat \ {0} /\ attempt \in 0..MaxAttempts /\ TypeOK
  BY BoundsAssumption DEF TypeInv, TypeOK
<1>1. wtask \in Tasks =>
        wtask.batch \in Batches /\ wtask.chat \in Chats /\ fate[wtask.batch][wtask.chat] = "pending"
  BY DEF OfferInv, OneTaskEach, Tasks
<1>2. wpc \in {"limit", "send", "feedback"} => wtask \in Tasks
  BY DEF TypeInv, TypeOK, SenderShape
<1>3. CASE \/ TakeTask \/ SenderLimiterGrants \/ SendSettles \/ SendFails \/ SenderExit
  <2>1. AllStay /\ Undrained' = Undrained
    <3>1. UNCHANGED <<fate, queuesDown>>
      BY <1>3 DEF TakeTask, SenderLimiterGrants, SendSettles, SendFails, SenderExit, historyVars, lifeVars
    <3> QED BY <3>1 DEF AllStay, Unsettled, Undrained
  <2>2. \/ wpc = "idle" /\ wpc' \in {"limit", "exited"}
        \/ wpc = "limit" /\ wpc' = "send" /\ attempt' = attempt /\ attempt = 0
        \/ wpc = "send" /\ wpc' = "send" /\ attempt' = attempt + 1
        \/ wpc = "send" /\ wpc' = "feedback"
    BY <1>3 DEF TakeTask, SenderLimiterGrants, SendSettles, SendFails, SenderExit, TypeInv, SenderShape
  <2>3. Phase' < Phase
    BY <1>0, <2>2, WorkTypes, PhaseNext
  <2> QED BY <1>0, <2>1, <2>3, WorkTypes, WorkMoves
<1>4. CASE SenderLimiterInterrupted \/ \E b \in Batches : Feedback(b)
  <2>1. /\ wpc \in {"limit", "feedback"} /\ wpc' = "idle" /\ UNCHANGED queuesDown
        /\ \E f \in Verdicts \cup {"lost"} : Mark(wtask.batch, wtask.chat, f)
    <3>1. CASE SenderLimiterInterrupted
      BY <3>1 DEF SenderLimiterInterrupted, lifeVars
    <3>2. ASSUME NEW b \in Batches, Feedback(b)
          PROVE  /\ wpc = "feedback" /\ wpc' = "idle" /\ UNCHANGED queuesDown
                 /\ Mark(wtask.batch, wtask.chat, wresult) /\ wresult \in Verdicts
      BY <3>2 DEF Feedback, lifeVars, TypeInv, TypeOK, SenderShape
    <3> QED BY <1>4, <3>1, <3>2
  <2>2. OneLess
    BY <1>0, <1>1, <1>2, <2>1, Settled
  <2>3. Phase' - Phase < MaxAttempts + 3 /\ Undrained' = Undrained
    <3>1. Phase > 0 /\ Phase \in Int /\ Phase' = MaxAttempts + 3
      BY <1>0, <2>1, WorkTypes, PhaseNext
    <3> QED BY <1>0, <2>1, <3>1 DEF Undrained
  <2> QED BY <1>0, <2>2, <2>3, WorkTypes, WorkMoves
<1>5. CASE DrainOne
  <2> DEFINE x == Head(queue)
  <2>1. x \in Tasks /\ Queued(x)
    BY <1>5, QueueTail DEF DrainOne, TypeInv, TypeOK, OfferInv, OneTaskEach
  <2>2. Mark(x.batch, x.chat, "lost")
    BY <1>5 DEF DrainOne
  <2> HIDE DEF x
  <2>3. x.batch \in Batches /\ x.chat \in Chats /\ fate[x.batch][x.chat] = "pending"
    BY <2>1 DEF OfferInv, OneTaskEach, Tasks
  <2>4. OneLess
    BY <1>0, <2>2, <2>3, Settled
  <2>5. Undrained' = Undrained /\ Phase' = Phase
    BY <1>5 DEF DrainOne, Undrained, Phase, senderVars, lifeVars
  <2> QED BY <1>0, <2>4, <2>5, WorkTypes, WorkMoves
<1>6. CASE DrainDone
  <2>1. AllStay /\ Phase' = Phase /\ Undrained' = 0 /\ Undrained = 1
    BY <1>6 DEF DrainDone, AllStay, Unsettled, Undrained, Phase, senderVars, historyVars
  <2> QED BY <1>0, <2>1, WorkTypes, WorkMoves
<1> QED BY <1>3, <1>4, <1>5, <1>6 DEF Settling, SenderStep

LEMMA BatchesLeaveWork ==
    ASSUME TypeInv, OfferInv, TypeInv', [Next]_vars, ~Settling
    PROVE  Work' <= Work
<1>1. Undrained' = Undrained /\ Phase' = Phase
  <2>1. UNCHANGED <<queuesDown, wpc, attempt>>
    <3>1. ASSUME NEW b \in Batches, BatchStep(b) PROVE UNCHANGED <<queuesDown, wpc, attempt>>
      BY <3>1, BatchStepFrame DEF TypeInv, lifeVars, senderVars
    <3>2. ASSUME \/ ListenStart \/ ListenExit \/ Shutdown \/ StopBatchWorker \/ UNCHANGED vars
                 \/ \E c \in Chats : Revive(c)
                 \/ \E b \in Batches : AddBatchTask(b) \/ NotifySend(b)
          PROVE  UNCHANGED <<queuesDown, wpc, attempt>>
      BY <3>2 DEF ListenStart, ListenExit, Shutdown, StopBatchWorker, Revive, AddBatchTask, NotifySend,
         vars, exceptPc, lifeVars, senderVars
    <3> QED BY <3>1, <3>2 DEF Next, Settling
  <2> QED BY <2>1 DEF Undrained, Phase
<1>2. AllStay \/ OneLess => Work' <= Work
  <2>1. MaxAttempts \in Nat
    BY BoundsAssumption
  <2> QED BY <1>1, <2>1, WorkTypes, WorkMoves
<1>3. CASE UNCHANGED fate
  <2>1. AllStay
    BY <1>3 DEF AllStay, Unsettled
  <2> QED BY <1>2, <2>1
<1>4. ASSUME NEW b \in Batches, EnqueueBroadcast(b) \/ LimiterInterrupted(b) \/ EnqueueDropped(b)
      PROVE  AllStay \/ OneLess
  <2> DEFINE c == First(page[b])
  <2>1. /\ pc[b] \in {"limit", "enqueue"}
        /\ Mark(b, c, "pending") \/ Mark(b, c, "lost")
    BY <1>4 DEF EnqueueBroadcast, LimiterInterrupted, EnqueueDropped, GiveUpChat
  <2>2. c \in page[b] /\ c \in Chats
    BY <2>1, AtHand DEF TypeInv, TypeOK, PageShape
  <2>3. fate[b][c] = "none" /\ TypeOK
    BY <2>2 DEF OfferInv, Progress, TypeInv
  <2> HIDE DEF c
  <2> QED BY <2>1, <2>2, <2>3, StillUnsettled, Settled
<1>5. ASSUME NEW b \in Batches, BatchStep(b),
             ~(EnqueueBroadcast(b) \/ LimiterInterrupted(b) \/ EnqueueDropped(b))
      PROVE  UNCHANGED fate
  BY <1>5 DEF BatchStep, QueryEmpty, QueryFails, FetchPage, NextChat, PageOffered,
     LimiterGrants, PageCollected, StampAlive, StampFails, FlushDead, FinalFlush, FlushFails,
     exceptPc, historyVars
<1>6. ASSUME \/ ListenStart \/ ListenExit \/ Shutdown \/ StopBatchWorker \/ UNCHANGED vars
             \/ \E c \in Chats : Revive(c)
             \/ \E b \in Batches : AddBatchTask(b) \/ NotifySend(b)
      PROVE  UNCHANGED fate
  BY <1>6 DEF ListenStart, ListenExit, Shutdown, StopBatchWorker, Revive, AddBatchTask, NotifySend,
     vars, exceptPc, historyVars
<1> QED BY <1>2, <1>3, <1>4, <1>5, <1>6 DEF Next, Settling

(* The sender and the drain come to an end of their work: no more than      *)
(* MaxAttempts + 3 steps for each chat of each batch and as many and one to *)
(* leave, however the batches, the commands and a shutdown interleave.      *)
THEOREM SenderEnds == Spec => WorkFalls
<1> DEFINE Inv == TypeInv /\ OfferInv
<1>1. Inv /\ Inv' /\ [Next]_vars => Work' <= Work /\ (Settling => Work' < Work)
  <2> SUFFICES ASSUME Inv, Inv', [Next]_vars PROVE Work' <= Work /\ (Settling => Work' < Work)
    OBVIOUS
  <2>1. Settling => Work' < Work
    BY SettlingFalls
  <2>2. ~Settling => Work' <= Work
    BY BatchesLeaveWork
  <2>3. Work \in Int /\ Work' \in Int
    BY WorkMoves
  <2> QED BY <2>1, <2>2, <2>3
<1>2. Spec => []Inv
  BY Offers
<1> HIDE DEF Inv
<1> QED BY <1>1, <1>2, PTL DEF Spec, WorkFalls

-------------------------------------------------------------------------------
(* Progress: who can hold whom.                                             *)

(* When each goroutine has a step to take: the guards of its actions. *)
NotifyGoesOn(b) == pc[b] = "notify" /\ Len(notify) < NotifyCap
ListenGoesOn == listening /\ (notify # <<>> \/ cancelled)
BatchGoesOn(b) ==
    \/ pc[b] \in Between \cup {"chat", "limit"}
    \/ pc[b] = "enqueue" /\ (Len(queue) <= QueueCap \/ cancelled)
    \/ pc[b] = "collect" /\ due[b] = 0
FeedbackGoesOn(b) == pc[b] = "collect" /\ due[b] > 0 /\ wpc = "feedback" /\ wtask.batch = b
SenderGoesOn ==
    \/ wpc = "idle" /\ (queue # <<>> \/ cancelled)
    \/ wpc \in {"limit", "send"}
DrainGoesOn == wpc = "exited" /\ ~queuesDown
StopGoesOn == cancelled /\ ~batchDown /\ \A b \in Batches : ~Running(b)

(* Only new commands, a shutdown or a revived chat can happen next. *)
Standstill ==
    /\ \A b \in Batches : ~NotifyGoesOn(b) /\ ~BatchGoesOn(b) /\ ~FeedbackGoesOn(b)
    /\ ~ListenGoesOn /\ ~SenderGoesOn /\ ~DrainGoesOn /\ ~StopGoesOn

(* Then every requested batch has ended or lost a task, unless the          *)
(* application shuts down; and a shutdown is over, or held by feedback that *)
(* nobody takes or that nobody will give.                                   *)
StandstillIsExcused ==
    Standstill =>
        /\ \A b \in Batches :
              pc[b] \in {"new"} \cup Ended \/ cancelled \/ Fated(b, {"lost"}) # {}
        /\ cancelled => queuesDown \/ SenderStuck
        /\ cancelled => batchDown \/ \E b \in Batches : Starved(b)

(* A notified batch is in the channel, the listener and the sender only     *)
(* leave at a shutdown, and the queue keeps its capacity.                   *)
QuietInv ==
    /\ \A b \in Batches : pc[b] = "queued" => \E i \in 1..Len(notify) : notify[i] = b
    /\ listening \/ cancelled
    /\ wpc = "exited" => cancelled
    /\ Len(queue) <= QueueCap

LEMMA QuietInit == Init => QuietInv
BY BoundsAssumption DEF Init, QuietInv

LEMMA QuietNext == TypeInv /\ QuietInv /\ [Next]_vars => QuietInv'
<1> SUFFICES ASSUME TypeInv, QuietInv, [Next]_vars PROVE QuietInv'
  OBVIOUS
<1>0. /\ notify \in Seq(Batches) /\ queue \in Seq(Tasks) /\ QueueCap \in Nat /\ Len(queue) \in Nat
      /\ pc \in [Batches -> Waiting \cup InPage \cup Between \cup Ended]
  BY BoundsAssumption DEF TypeInv, TypeOK
<1>1. (\A b \in Batches : pc[b] = "queued" => \E i \in 1..Len(notify) : notify[i] = b)'
  <2> DEFINE In(b) == \E i \in 1..Len(notify) : notify[i] = b
  <2> SUFFICES ASSUME NEW b \in Batches, pc'[b] = "queued" PROVE In(b)'
    OBVIOUS
  <2>1. ASSUME UNCHANGED notify, pc[b] = "queued" PROVE In(b)'
    BY <2>1 DEF QuietInv
  <2>2. ASSUME NEW x \in Batches, NotifySend(x) PROVE In(b)'
    <3>1. /\ notify' = Append(notify, x) /\ Len(notify') = Len(notify) + 1 /\ Len(notify) \in Nat
          /\ notify'[Len(notify) + 1] = x /\ \A i \in 1..Len(notify) : notify'[i] = notify[i]
      BY <1>0, <2>2, AppendProperties DEF NotifySend
    <3>2. CASE b = x
      BY <3>1, <3>2
    <3>3. CASE b # x
      <4>1. pc[b] = "queued"
        BY <1>0, <2>2, <3>3 DEF NotifySend
      <4>2. PICK i \in 1..Len(notify) : notify[i] = b
        BY <4>1 DEF QuietInv
      <4> QED BY <3>1, <4>2
    <3> QED BY <3>2, <3>3
  <2>3. CASE ListenStart
    <3>1. /\ Len(notify') = Len(notify) - 1 /\ Len(notify) \in Nat /\ Head(notify) = notify[1]
          /\ \A i \in 1..Len(notify') : notify'[i] = notify[i + 1]
      BY <1>0, <2>3, HeadTailProperties DEF ListenStart
    <3>2. b # Head(notify) /\ pc[b] = "queued"
      BY <1>0, <2>3 DEF ListenStart
    <3>3. PICK i \in 1..Len(notify) : notify[i] = b
      BY <3>2 DEF QuietInv
    <3>4. i - 1 \in 1..Len(notify') /\ notify'[i - 1] = b
      BY <3>1, <3>2, <3>3
    <3> QED BY <3>4
  <2>4. ASSUME NEW x \in Batches, BatchStep(x) \/ Feedback(x) \/ AddBatchTask(x)
        PROVE  UNCHANGED notify /\ pc[b] = "queued"
    <3>1. CASE BatchStep(x)
      <4>1. b # x
        BY <3>1, BatchStepFrame DEF TypeInv, InPage, Between, Ended
      <4> QED BY <3>1, <4>1, BatchStepFrame DEF TypeInv, Untouched
    <3>2. CASE Feedback(x)
      BY <3>2 DEF Feedback
    <3>3. CASE AddBatchTask(x)
      BY <1>0, <3>3 DEF AddBatchTask, exceptPc
    <3> QED BY <2>4, <3>1, <3>2, <3>3
  <2>5. ASSUME \/ SenderStep \/ ListenExit \/ Shutdown \/ DrainOne \/ DrainDone \/ StopBatchWorker
               \/ UNCHANGED vars \/ \E c \in Chats : Revive(c)
        PROVE  UNCHANGED <<notify, pc>>
    BY <2>5, SenderStepFrame DEF ListenExit, Shutdown, DrainOne, DrainDone, StopBatchWorker, Revive, vars
  <2> HIDE DEF In
  <2> QED BY <2>1, <2>2, <2>3, <2>4, <2>5 DEF Next
<1>2. Len(queue') <= QueueCap
  <2>1. ASSUME NEW b \in Batches, EnqueueBroadcast(b) PROVE Len(queue') <= QueueCap
    <3>1. Len(queue) < QueueCap /\ queue' = Append(queue, [batch |-> b, chat |-> First(page[b])])
      BY <2>1 DEF EnqueueBroadcast
    <3>2. [batch |-> b, chat |-> First(page[b])] \in Tasks
      BY <2>1, AtHand DEF EnqueueBroadcast, TypeInv, PageShape, Tasks
    <3>3. Len(queue') = Len(queue) + 1
      BY <1>0, <3>1, <3>2, AppendProperties
    <3> QED BY <1>0, <3>1, <3>3
  <2>2. ASSUME TakeTask \/ DrainOne PROVE Len(queue') <= QueueCap
    <3>1. Len(queue') = Len(queue) - 1
      BY <1>0, <2>2, HeadTailProperties DEF TakeTask, DrainOne
    <3> QED BY <1>0, <3>1 DEF QuietInv
  <2>3. ASSUME NEW b \in Batches, BatchStep(b), ~EnqueueBroadcast(b) PROVE UNCHANGED queue
    BY <2>3 DEF BatchStep, QueryEmpty, QueryFails, FetchPage, NextChat, PageOffered, LimiterInterrupted,
       EnqueueDropped, GiveUpChat,
       LimiterGrants, PageCollected, StampAlive, StampFails, FlushDead, FinalFlush, FlushFails, exceptPc
  <2>4. ASSUME \/ ListenStart \/ ListenExit \/ Shutdown \/ StopBatchWorker \/ UNCHANGED vars
               \/ SenderLimiterGrants \/ SenderLimiterInterrupted \/ SendSettles \/ SendFails
               \/ SenderExit \/ DrainDone \/ \E c \in Chats : Revive(c)
               \/ \E b \in Batches : AddBatchTask(b) \/ NotifySend(b) \/ Feedback(b)
        PROVE  UNCHANGED queue
    BY <2>4 DEF ListenStart, ListenExit, Shutdown, StopBatchWorker, Revive, AddBatchTask, NotifySend,
       Feedback, SenderLimiterGrants, SenderLimiterInterrupted, SendSettles, SendFails,
       SenderExit, DrainDone, vars, exceptPc
  <2>5. UNCHANGED queue => Len(queue') <= QueueCap
    BY DEF QuietInv
  <2> QED BY <2>1, <2>2, <2>3, <2>4, <2>5 DEF Next, SenderStep
<1>3. (listening' \/ cancelled') /\ (wpc' = "exited" => cancelled')
  <2>1. ASSUME NEW b \in Batches, BatchStep(b) PROVE UNCHANGED <<listening, cancelled, wpc>>
    BY <2>1, BatchStepFrame DEF TypeInv, lifeVars, senderVars
  <2>2. ASSUME NEW b \in Batches, Feedback(b) PROVE UNCHANGED <<listening, cancelled>> /\ wpc' = "idle"
    BY <2>2 DEF Feedback, lifeVars
  <2>3. ASSUME \/ SenderStep \/ ListenExit \/ Shutdown \/ DrainOne \/ DrainDone \/ StopBatchWorker
               \/ ListenStart \/ UNCHANGED vars \/ \E c \in Chats : Revive(c)
               \/ \E b \in Batches : AddBatchTask(b) \/ NotifySend(b)
        PROVE  (listening' \/ cancelled') /\ (wpc' = "exited" => cancelled')
    BY <2>3 DEF QuietInv, SenderStep, TakeTask, SenderLimiterGrants, SenderLimiterInterrupted,
       SendSettles, SendFails, SenderExit, ListenExit, Shutdown, DrainOne, DrainDone, StopBatchWorker,
       ListenStart, Revive, AddBatchTask, NotifySend, vars, exceptPc, senderVars, lifeVars
  <2> QED BY <2>1, <2>2, <2>3 DEF Next, QuietInv
<1> QED BY <1>1, <1>2, <1>3 DEF QuietInv

LEMMA StandstillShape ==
    ASSUME TypeInv, OfferInv, OutcomeInv, QuietInv, FeedbackIsAwaited
    PROVE  StandstillIsExcused
<1> SUFFICES ASSUME Standstill
             PROVE  /\ \A b \in Batches :
                          pc[b] \in {"new"} \cup Ended \/ cancelled \/ Fated(b, {"lost"}) # {}
                    /\ cancelled => queuesDown \/ SenderStuck
                    /\ cancelled => batchDown \/ \E b \in Batches : Starved(b)
  BY DEF StandstillIsExcused
<1>1. ASSUME NEW b \in Batches, Running(b)
      PROVE  pc[b] = "collect" /\ due[b] > 0
  <2>1. Len(queue) <= QueueCap /\ due[b] \in Nat
    BY DEF QuietInv, TypeInv, TypeOK
  <2> QED BY <1>1, <2>1 DEF Standstill, BatchGoesOn, Running, InPage
<1>2. wpc \in {"idle", "feedback", "exited"} /\ (wpc = "idle" => queue = <<>> /\ ~cancelled)
  BY DEF Standstill, SenderGoesOn, TypeInv, TypeOK
(* The batch the sender has feedback for does not take it. *)
<1>3. ASSUME wpc = "feedback" PROVE pc[wtask.batch] = "stopped" /\ cancelled
  <2> DEFINE b == wtask.batch
  <2>1. b \in Batches /\ wtask.chat \in Owed(b)
    BY <1>3 DEF TypeInv, TypeOK, SenderShape, Tasks, OfferInv, OneTaskEach, Owed, Fated
  <2>2. pc[b] \in InPage \cup {"stopped"}
    BY <2>1 DEF OfferInv, Accounts
  <2>3. pc[b] \notin InPage
    <3>1. ASSUME pc[b] \in InPage PROVE FALSE
      <4>1. pc[b] = "collect" /\ due[b] > 0
        BY <1>1, <2>1, <3>1 DEF Running
      <4> QED BY <1>3, <2>1, <4>1 DEF Standstill, FeedbackGoesOn
    <3> QED BY <3>1
  <2>4. cancelled
    BY <1>3, <2>3 DEF FeedbackIsAwaited
  <2> QED BY <2>2, <2>3, <2>4
<1>4. ASSUME NEW b \in Batches, ~cancelled, pc[b] \notin {"new"} \cup Ended, Fated(b, {"lost"}) = {}
      PROVE  FALSE
  <2>1. listening /\ notify = <<>> /\ NotifyCap > 0
    BY <1>4, BoundsAssumption DEF QuietInv, Standstill, ListenGoesOn
  <2>2. pc[b] \notin {"queued", "notify"}
    <3>1. Len(notify) = 0
      BY <2>1
    <3> QED BY <2>1, <3>1 DEF QuietInv, Standstill, NotifyGoesOn
  <2>3. pc[b] = "collect" /\ due[b] > 0
    BY <1>1, <1>4, <2>2 DEF TypeInv, TypeOK, Waiting, Running
  <2>4. page[b] = {} /\ due[b] = Cardinality(page[b]) + Cardinality(Owed(b))
    BY <2>3 DEF TypeInv, PageShape, OfferInv, Accounts, InPage
  <2>5. Owed(b) # {}
    <3>1. Cardinality(page[b]) = 0
      BY <2>4, FS_EmptySet
    <3>2. Owed(b) = {} => Cardinality(Owed(b)) = 0
      BY FS_EmptySet
    <3> QED BY <2>3, <2>4, <3>1, <3>2
  <2>6. PICK c \in Chats : fate[b][c] = "pending"
    BY <1>4, <2>5 DEF Owed, Fated
  <2> DEFINE t == [batch |-> b, chat |-> c]
  <2>7. t \in Tasks /\ t.batch = b /\ t.chat = c
    BY DEF Tasks
  <2>8. wtask = t \/ Queued(t)
    BY <2>6, <2>7 DEF OfferInv, OneTaskEach
  <2>9. wpc = "idle"
    BY <1>2, <1>3, <1>4 DEF QuietInv
  <2>10. wtask = NoTask /\ queue = <<>>
    BY <1>2, <2>9 DEF TypeInv, SenderShape
  <2>11. ~Queued(t)
    BY <2>10 DEF Queued
  <2> QED BY <2>7, <2>8, <2>10, <2>11, NoTaskAssumption DEF Tasks
<1>5. ASSUME cancelled PROVE queuesDown \/ SenderStuck
  BY <1>2, <1>3, <1>5 DEF SenderStuck, Standstill, DrainGoesOn
<1>6. ASSUME cancelled, ~batchDown PROVE \E b \in Batches : Starved(b)
  <2>1. PICK b \in Batches : Running(b)
    BY <1>6 DEF Standstill, StopGoesOn
  <2>2. pc[b] = "collect" /\ due[b] > 0
    BY <1>1, <2>1
  <2>3. wpc = "exited" \/ SenderStuck
    BY <1>2, <1>3, <1>6 DEF SenderStuck
  <2> QED BY <2>2, <2>3 DEF Starved
<1> QED BY <1>4, <1>5, <1>6

(* Nothing but a lost task or missing feedback ever stops the pipeline: if  *)
(* no goroutine has a step to take, every requested batch has ended or lost *)
(* a task; and of a shutdown, only a sender that holds feedback for a batch *)
(* that left, or a batch that waits for feedback that will not come, can be *)
(* unfinished.  With BatchesEnd and SenderEnds these are the three parts of *)
(* BatchEnds and OnlyFeedbackHoldsShutdown that no induction over time needs. *)
THEOREM OnlyFeedbackHolds == Spec => []StandstillIsExcused
<1>1. QuietInv /\ TypeInv /\ [Next]_vars => QuietInv'
  BY QuietNext
<1>2. Spec => []QuietInv
  BY Offers, QuietInit, <1>1, PTL DEF Spec
<1>3. TypeInv /\ OfferInv /\ OutcomeInv /\ QuietInv /\ FeedbackIsAwaited => StandstillIsExcused
  BY StandstillShape
<1> QED BY Outcomes, Awaited, <1>2, <1>3, PTL
===============================================================================
