---------------------------- MODULE LifecycleProofs -----------------------------
(***************************************************************************)
(* Proofs about Lifecycle for any number of updates and of components: the *)
(* channels are closed under no handler unless StopWithContext gave up on  *)
(* it, and only then can a bot that started well crash.  And, as far as    *)
(* actions are enabled where their guards hold (GuardsEnable), that a      *)
(* request to stop is heard and that a shutdown of the code's components   *)
(* ends.                                                                   *)
(***************************************************************************)
EXTENDS Lifecycle, TLAPS

USE DEF Goto, CompGoto, PutToken, Closed, Alive, ChanCap

(* Once the consumer is done, its handlers are, unless it gave up; and the  *)
(* channels are closed after every component.                               *)
ConsumerWaits == comp["consumer"] = "done" /\ ~gaveUp => \A u \in Updates : at[u] \notin Busy
ComponentsFirst == Closed => comp["consumer"] = "done"

(* Only a failed startup stands in a Fatal. *)
FatalShape == inFatal => failed # {}

LifecycleInv == TypeOK /\ ConsumerWaits /\ ComponentsFirst /\ FatalShape /\ CrashNeedsGivingUp

LEMMA ConsumerIsComponent == "consumer" \in Components /\ "db" \in Components
BY DEF Components

LEMMA LifecycleInit == Init => LifecycleInv
<1> SUFFICES ASSUME Init PROVE LifecycleInv
  OBVIOUS
<1> USE ConsumerIsComponent DEF Init
<1>1. TypeOK
  <2>1. main \in Steps \cup Ends \cup {"up", "closed"} /\ failed \subseteq Steps /\ tokens \in 0..ChanCap
    BY DEF Steps
  <2>2. /\ comp \in [Components -> {"none", "running", "stopping", "closing", "fatal", "done"}]
        /\ at \in [Updates -> {"none", "done"} \cup Busy]
    OBVIOUS
  <2>3. /\ inFatal \in BOOLEAN /\ cancelled \in BOOLEAN /\ gaveUp \in BOOLEAN
        /\ listener \in {"none", "waiting", "flushing", "done"}
    OBVIOUS
  <2> QED BY <2>1, <2>2, <2>3 DEF TypeOK
<1>2. ConsumerWaits /\ ComponentsFirst /\ FatalShape /\ CrashNeedsGivingUp
  BY DEF ConsumerWaits, ComponentsFirst, FatalShape, CrashNeedsGivingUp
<1> QED BY <1>1, <1>2 DEF LifecycleInv

LEMMA FailsShape ==
    ASSUME StepFails \/ MetricsFail \/ RegistrationFails
    PROVE  /\ main \in Steps /\ failed' = failed \cup {main} /\ inFatal' = TRUE
           /\ UNCHANGED <<main, tokens, listener, cancelled, comp, at, gaveUp>>
BY DEF StepFails, MetricsFail, RegistrationFails, Fails, Steps

LEMMA TypeNext == TypeOK /\ [Next]_vars => TypeOK'
<1> SUFFICES ASSUME TypeOK, [Next]_vars
             PROVE  TypeOK'
  OBVIOUS
<1> USE ConsumerIsComponent DEF TypeOK, Busy
<1>1. CASE StepSucceeds
  BY <1>1 DEF StepSucceeds, AfterStep, Steps, Ends
<1>2. CASE StepFails \/ MetricsFail \/ RegistrationFails
  BY <1>2, FailsShape DEF Steps
<1>3. CASE FatalReturns
  <2>1. main' \in Steps \cup Ends \cup {"up", "closed"}
    BY <1>3 DEF FatalReturns, AfterStep, Steps, Ends
  <2>2. tokens' \in 0..ChanCap
    BY <1>3 DEF FatalReturns
  <2>3. inFatal' \in BOOLEAN /\ UNCHANGED <<failed, listener, cancelled, comp, at, gaveUp>>
    BY <1>3 DEF FatalReturns
  <2> QED BY <2>1, <2>2, <2>3
<1>4. CASE WebhookInfoMissing
  BY <1>4 DEF WebhookInfoMissing, Steps, Ends
<1>5. CASE StartComponents
  BY <1>5 DEF StartComponents
<1>6. CASE Signal
  BY <1>6 DEF Signal, Ends
<1>7. CASE ListenerTakes \/ ListenerCancels
  <2>1. tokens' \in 0..ChanCap
    BY <1>7 DEF ListenerTakes, ListenerCancels
  <2>2. /\ listener' \in {"none", "waiting", "flushing", "done"} /\ cancelled' \in BOOLEAN
        /\ UNCHANGED <<main, inFatal, failed, comp, at, gaveUp>>
    BY <1>7 DEF ListenerTakes, ListenerCancels
  <2> QED BY <2>1, <2>2
<1>8. CASE ConsumerStopping \/ ConsumerStops \/ ConsumerGivesUp
  BY <1>8 DEF ConsumerStopping, ConsumerStops, ConsumerGivesUp
<1>9. CASE DbCloses \/ DbClosed \/ DbFatalReturns
  BY <1>9 DEF DbCloses, DbClosed, DbFatalReturns
<1>10. CASE CloseChannels \/ Exit
  BY <1>10 DEF CloseChannels, Exit, Ends
<1>11. ASSUME NEW u \in Updates, Update(u) \/ RequestStop(u)
       PROVE  TypeOK'
  <2>1. CASE Arrive(u) \/ Finish(u) \/ Restart(u) \/ Panic(u) \/ RestartOnClosed(u)
    BY <2>1 DEF Arrive, Finish, Restart, Panic, RestartOnClosed
  <2>2. CASE FatalOnClosed(u)
    BY <2>2 DEF FatalOnClosed, Ends
  <2>3. CASE RequestStop(u)
    BY <2>3 DEF RequestStop
  <2> QED BY <1>11, <2>1, <2>2, <2>3 DEF Update
<1>12. ASSUME NEW c \in Plain, PlainStops(c)
       PROVE  TypeOK'
  BY <1>12 DEF PlainStops
<1>13. CASE UNCHANGED vars
  BY <1>13 DEF vars
<1> QED BY <1>1, <1>2, <1>3, <1>4, <1>5, <1>6, <1>7, <1>8, <1>9, <1>10, <1>11, <1>12, <1>13
        DEF Next, Startup, Listening, Consuming, Closing, Ending

LEMMA LifecycleNext == LifecycleInv /\ [Next]_vars => LifecycleInv'
<1> SUFFICES ASSUME LifecycleInv, [Next]_vars
             PROVE  (ConsumerWaits /\ ComponentsFirst /\ FatalShape /\ CrashNeedsGivingUp)'
  BY TypeNext DEF LifecycleInv
<1>0. /\ comp \in [Components -> {"none", "running", "stopping", "closing", "fatal", "done"}]
      /\ at \in [Updates -> {"none", "done"} \cup Busy]
      /\ ConsumerWaits /\ ComponentsFirst /\ FatalShape /\ CrashNeedsGivingUp
      /\ "consumer" \in Components /\ "db" \in Components
  BY ConsumerIsComponent DEF LifecycleInv, TypeOK
<1> USE DEF ConsumerWaits, ComponentsFirst, FatalShape, CrashNeedsGivingUp
<1>1. CASE Startup
  <2>1. comp'["consumer"] # "done" \/ UNCHANGED <<comp, at, gaveUp>>
    BY <1>0, <1>1 DEF Startup, StepSucceeds, StepFails, MetricsFail, RegistrationFails, Fails, FatalReturns, WebhookInfoMissing,
                      StartComponents
  <2>2. ConsumerWaits'
    BY <1>0, <1>1, <2>1 DEF Startup, StepSucceeds, StepFails, MetricsFail, RegistrationFails, Fails, FatalReturns, WebhookInfoMissing,
                            StartComponents
  <2>3. main' # "closed" /\ FatalShape' /\ CrashNeedsGivingUp'
    BY <1>0, <1>1 DEF Startup, StepSucceeds, StepFails, MetricsFail, RegistrationFails, Fails, FatalReturns, WebhookInfoMissing,
                      StartComponents, AfterStep, Steps
  <2> QED BY <2>2, <2>3
<1>2. CASE Signal \/ Listening
  BY <1>0, <1>2 DEF Signal, Listening, ListenerTakes, ListenerCancels
<1>3. CASE Consuming
  BY <1>0, <1>3 DEF Consuming, ConsumerStopping, ConsumerStops, ConsumerGivesUp
<1>4. CASE Closing
  BY <1>0, <1>4 DEF Closing, DbCloses, DbClosed, DbFatalReturns
<1>5. CASE Ending
  BY <1>0, <1>5 DEF Ending, CloseChannels, Exit, AllDone
<1>6. ASSUME NEW u \in Updates, Update(u) \/ RequestStop(u)
      PROVE  (ConsumerWaits /\ ComponentsFirst /\ FatalShape /\ CrashNeedsGivingUp)'
  <2>1. CASE Arrive(u)
    BY <1>0, <2>1 DEF Arrive
  <2>2. CASE Finish(u) \/ Restart(u) \/ Panic(u) \/ RestartOnClosed(u) \/ RequestStop(u)
    <3>1. \A v \in Updates : at[v] \notin Busy => at'[v] = at[v]
      BY <1>0, <2>2 DEF Finish, Restart, Panic, RestartOnClosed, RequestStop, Busy
    <3> QED BY <1>0, <2>2, <3>1 DEF Finish, Restart, Panic, RestartOnClosed, RequestStop, Busy
  <2>3. CASE FatalOnClosed(u)
    <3>1. gaveUp
      BY <1>0, <2>3 DEF FatalOnClosed, Busy
    <3> QED BY <1>0, <2>3, <3>1 DEF FatalOnClosed
  <2> QED BY <1>6, <2>1, <2>2, <2>3 DEF Update
<1>7. ASSUME NEW c \in Plain, PlainStops(c)
      PROVE  (ConsumerWaits /\ ComponentsFirst /\ FatalShape /\ CrashNeedsGivingUp)'
  BY <1>0, <1>7, PlainAssumption DEF PlainStops
<1>8. CASE UNCHANGED vars
  BY <1>0, <1>8 DEF vars
<1> QED BY <1>1, <1>2, <1>3, <1>4, <1>5, <1>6, <1>7, <1>8 DEF Next

LEMMA LifecycleInvariant == Spec => []LifecycleInv
BY LifecycleInit, LifecycleNext, PTL DEF Spec

(* Every variable keeps its type; in particular ShutdownChannel never holds *)
(* more than one token, however many handlers panic.                        *)
THEOREM TypeCorrect == Spec => []TypeOK
<1>1. LifecycleInv => TypeOK
  BY DEF LifecycleInv
<1> QED BY LifecycleInvariant, <1>1, PTL

(* The channels are closed under a handler that may still send only when    *)
(* StopWithContext gave up waiting for it.                                  *)
THEOREM ClosesQuietly == Spec => []QuietClose
<1>1. LifecycleInv => QuietClose
  BY DEF LifecycleInv, QuietClose, ConsumerWaits, ComponentsFirst
<1> QED BY LifecycleInvariant, <1>1, PTL

(* A process whose startup succeeded crashes only after that.               *)
THEOREM CrashesOnlyThen == Spec => []CrashNeedsGivingUp
<1>1. LifecycleInv => CrashNeedsGivingUp
  BY DEF LifecycleInv
<1> QED BY LifecycleInvariant, <1>1, PTL

-------------------------------------------------------------------------------
(* Liveness.                                                                *)

(* What the two liveness theorems take for granted, because the prover does *)
(* not reason about ENABLED: the listener with a token, a handler at a      *)
(* channel with room, a component of a cancelled application and Run behind *)
(* its components can take their steps.  Each line repeats the guards of    *)
(* the actions it names; nothing about the program is claimed by it.        *)
GuardsEnable ==
    /\ Alive /\ ((listener = "waiting" /\ tokens > 0) \/ listener = "flushing")
         => ENABLED <<Listening>>_vars
    /\ \A u \in Updates :
         Alive /\ AtChannel(u) /\ ~Closed /\ tokens < ChanCap => ENABLED <<RequestStop(u)>>_vars
    /\ Alive /\ cancelled =>
         /\ \A c \in Plain : comp[c] = "running" => ENABLED <<PlainStops(c)>>_vars
         /\ comp["consumer"] \in {"running", "stopping"} => ENABLED <<Consuming>>_vars
         /\ comp["db"] \in {"running", "closing"} => ENABLED <<Closing>>_vars
    /\ (main = "up" /\ AllDone) \/ Closed => ENABLED <<Ending>>_vars

(* Nothing runs before the startup is over, a component only ends in a      *)
(* cancelled application, and each takes its own way there.                 *)
StartupFirst ==
    /\ inFatal => main \in Steps
    /\ main \in Steps => /\ listener = "none"
                        /\ \A c \in Components : comp[c] = "none"
                        /\ \A u \in Updates : at[u] = "none"
AfterStartup ==
    main \in {"up", "closed"} =>
        /\ listener # "none"
        /\ \A c \in Components : comp[c] # "none"
StoppedByCancel ==
    /\ listener = "done" => cancelled
    /\ Closed => cancelled
    /\ \A c \in Components : comp[c] \in {"stopping", "closing", "fatal", "done"} => cancelled
OwnWay ==
    /\ \A c \in Plain : comp[c] \in {"none", "running", "done"}
    /\ comp["db"] # "stopping" /\ comp["consumer"] \notin {"fatal", "closing"}
    /\ comp["db"] = "fatal" => "postgres" \in failed

LiveInv == TypeOK /\ StartupFirst /\ AfterStartup /\ StoppedByCancel /\ OwnWay

LEMMA PlainIsComponent == Plain \subseteq Components
BY DEF Components

LEMMA LiveInit == Init => LiveInv
<1> SUFFICES ASSUME Init PROVE LiveInv
  OBVIOUS
<1>1. TypeOK
  BY LifecycleInit DEF LifecycleInv
<1> QED
  BY <1>1, ConsumerIsComponent, PlainIsComponent
  DEF Init, LiveInv, StartupFirst, AfterStartup, StoppedByCancel, OwnWay

LEMMA LiveNext == LiveInv /\ [Next]_vars => LiveInv'
<1> SUFFICES ASSUME LiveInv, [Next]_vars
             PROVE  (StartupFirst /\ AfterStartup /\ StoppedByCancel /\ OwnWay)'
  BY TypeNext DEF LiveInv
<1>0. /\ comp \in [Components -> {"none", "running", "stopping", "closing", "fatal", "done"}]
      /\ at \in [Updates -> {"none", "done"} \cup Busy]
      /\ StartupFirst /\ AfterStartup /\ StoppedByCancel /\ OwnWay
      /\ "consumer" \in Components /\ "db" \in Components /\ Plain \subseteq Components
      /\ "consumer" \notin Plain /\ "db" \notin Plain
  BY ConsumerIsComponent, PlainIsComponent, PlainAssumption DEF LiveInv, TypeOK
<1> USE DEF StartupFirst, AfterStartup, StoppedByCancel, OwnWay, Steps
<1>1. CASE StepSucceeds
  BY <1>0, <1>1 DEF StepSucceeds, AfterStep
<1>2. CASE StepFails \/ MetricsFail \/ RegistrationFails
  BY <1>0, <1>2, FailsShape
<1>3. CASE FatalReturns
  <2>1. main \in Steps
    BY <1>0, <1>3 DEF FatalReturns
  <2>2. main' \in Steps \cup {"crashed", "exited"}
    BY <1>3, <2>1 DEF FatalReturns, AfterStep
  <2>3. inFatal' = FALSE /\ UNCHANGED <<failed, listener, cancelled, comp, at>>
    BY <1>3 DEF FatalReturns
  <2> QED BY <1>0, <2>1, <2>2, <2>3
<1>4. CASE WebhookInfoMissing
  BY <1>0, <1>4 DEF WebhookInfoMissing
<1>5. CASE StartComponents
  BY <1>0, <1>5 DEF StartComponents
<1>6. CASE Signal
  BY <1>0, <1>6 DEF Signal
<1>7. CASE ListenerTakes \/ ListenerCancels
  BY <1>0, <1>7 DEF ListenerTakes, ListenerCancels
<1>8. CASE ConsumerStopping \/ ConsumerStops \/ ConsumerGivesUp
  BY <1>0, <1>8 DEF ConsumerStopping, ConsumerStops, ConsumerGivesUp
<1>9. CASE DbCloses \/ DbClosed \/ DbFatalReturns
  BY <1>0, <1>9 DEF DbCloses, DbClosed, DbFatalReturns
<1>10. CASE CloseChannels \/ Exit
  BY <1>0, <1>10 DEF CloseChannels, Exit, AllDone
<1>11. ASSUME NEW u \in Updates, Update(u) \/ RequestStop(u)
       PROVE  (StartupFirst /\ AfterStartup /\ StoppedByCancel /\ OwnWay)'
  BY <1>0, <1>11 DEF Update, Arrive, Finish, Restart, Panic, RestartOnClosed, FatalOnClosed, RequestStop
<1>12. ASSUME NEW c \in Plain, PlainStops(c)
       PROVE  (StartupFirst /\ AfterStartup /\ StoppedByCancel /\ OwnWay)'
  BY <1>0, <1>12 DEF PlainStops
<1>13. CASE UNCHANGED vars
  BY <1>0, <1>13 DEF vars
<1> QED BY <1>1, <1>2, <1>3, <1>4, <1>5, <1>6, <1>7, <1>8, <1>9, <1>10, <1>11, <1>12, <1>13
        DEF Next, Startup, Listening, Consuming, Closing, Ending

LEMMA LiveInvariant == Spec => []LiveInv
BY LiveInit, LiveNext, PTL DEF Spec

(* The bot runs, and nobody has cancelled it. *)
Serving == main = "up" /\ ~cancelled
Stopping == cancelled \/ ~Alive

LEMMA ServingGoesOn == LiveInv /\ Serving /\ [Next]_vars => Serving' \/ Stopping'
<1> SUFFICES ASSUME LiveInv, Serving, [Next]_vars
             PROVE  main' = main \/ ~Alive' \/ cancelled'
  BY DEF Serving, Stopping
<1>1. /\ main = "up" /\ ~inFatal
      /\ Closed' => cancelled'
  BY LiveNext DEF LiveInv, StartupFirst, StoppedByCancel, Serving, Steps
<1> QED
  BY <1>1 DEF Next, Startup, StepSucceeds, StepFails, MetricsFail, RegistrationFails, Fails, FatalReturns, WebhookInfoMissing, StartComponents,
              Signal, Listening, ListenerTakes, ListenerCancels, Consuming, ConsumerStopping,
              ConsumerStops, ConsumerGivesUp, Closing, DbCloses, DbClosed, DbFatalReturns, Ending, CloseChannels,
              Exit, Update, Arrive, Finish, Restart, Panic, RestartOnClosed, FatalOnClosed, RequestStop,
              PlainStops, vars, Steps, Ends

(* A handler at a channel with room, a token nobody has read, and the       *)
(* listener on its way: each leads to the next while the bot serves.        *)
Asking(u) == Serving /\ listener = "waiting" /\ tokens = 0 /\ AtChannel(u)
Asked == Serving /\ listener = "waiting" /\ tokens > 0
Hearing == Serving /\ listener = "flushing"

LEMMA AskingNext ==
    ASSUME NEW u \in Updates, LiveInv, Asking(u), [Next]_vars
    PROVE  /\ Asking(u)' \/ Asked' \/ Stopping'
           /\ RequestStop(u) => Asked' \/ Stopping'
<1>0. Serving' \/ Stopping'
  BY ServingGoesOn DEF Asking
<1>1. /\ main = "up" /\ listener = "waiting" /\ tokens = 0 /\ ~inFatal /\ AtChannel(u)
      /\ at \in [Updates -> {"none", "done"} \cup Busy]
  BY DEF Asking, Serving, LiveInv, TypeOK, StartupFirst, Steps
<1>2. (listener' = "waiting" /\ tokens' = 0 /\ AtChannel(u)') \/ (listener' = "waiting" /\ tokens' > 0)
  <2>1. CASE Startup
    BY <1>1, <2>1 DEF Startup, StepSucceeds, StepFails, MetricsFail, RegistrationFails, Fails, FatalReturns, WebhookInfoMissing, StartComponents, Steps
  <2>2. CASE Signal \/ Listening
    BY <1>1, <2>2 DEF Signal, Listening, ListenerTakes, ListenerCancels, AtChannel
  <2>3. CASE Consuming \/ Closing \/ Ending
    BY <1>1, <2>3 DEF Consuming, ConsumerStopping, ConsumerStops, ConsumerGivesUp, Closing, DbCloses, DbClosed,
                      DbFatalReturns, Ending, CloseChannels, Exit, AtChannel
  <2>4. ASSUME NEW v \in Updates, Update(v)
        PROVE  listener' = "waiting" /\ tokens' = 0 /\ AtChannel(u)'
    <3>1. CASE v = u
      BY <1>1, <2>4, <3>1 DEF Update, Arrive, Finish, Restart, Panic, RestartOnClosed, FatalOnClosed, AtChannel
    <3>2. CASE v # u
      BY <1>1, <2>4, <3>2 DEF Update, Arrive, Finish, Restart, Panic, RestartOnClosed, FatalOnClosed, AtChannel
    <3> QED BY <3>1, <3>2
  <2>5. ASSUME NEW v \in Updates, RequestStop(v)
        PROVE  listener' = "waiting" /\ tokens' > 0
    BY <1>1, <2>5 DEF RequestStop
  <2>6. ASSUME NEW c \in Plain, PlainStops(c)
        PROVE  listener' = "waiting" /\ tokens' = 0 /\ AtChannel(u)'
    BY <1>1, <2>6 DEF PlainStops, AtChannel
  <2>7. CASE UNCHANGED vars
    BY <1>1, <2>7 DEF vars, AtChannel
  <2> QED BY <2>1, <2>2, <2>3, <2>4, <2>5, <2>6, <2>7 DEF Next
<1>3. RequestStop(u) => listener' = "waiting" /\ tokens' > 0
  BY <1>1 DEF RequestStop
<1> QED BY <1>0, <1>2, <1>3 DEF Asking, Asked

LEMMA AskedNext ==
    ASSUME LiveInv, Asked, [Next]_vars
    PROVE  /\ Asked' \/ Hearing' \/ Stopping'
           /\ Listening => Hearing' \/ Stopping'
<1>0. Serving' \/ Stopping'
  BY ServingGoesOn DEF Asked
<1>1. /\ main = "up" /\ listener = "waiting" /\ tokens \in 0..ChanCap /\ tokens > 0 /\ ~inFatal
  BY DEF Asked, Serving, LiveInv, TypeOK, StartupFirst, Steps
<1>2. (listener' = "waiting" /\ tokens' > 0) \/ listener' = "flushing"
  BY <1>1 DEF Next, Startup, StepSucceeds, StepFails, MetricsFail, RegistrationFails, Fails, FatalReturns, WebhookInfoMissing, StartComponents,
              Signal, Listening, ListenerTakes, ListenerCancels, Consuming, ConsumerStopping,
              ConsumerStops, ConsumerGivesUp, Closing, DbCloses, DbClosed, DbFatalReturns, Ending, CloseChannels,
              Exit, Update, Arrive, Finish, Restart, Panic, RestartOnClosed, FatalOnClosed, RequestStop,
              PlainStops, vars, Steps
<1>3. Listening => listener' = "flushing"
  BY <1>1 DEF Listening, ListenerTakes, ListenerCancels
<1> QED BY <1>0, <1>2, <1>3 DEF Asked, Hearing

LEMMA HearingNext ==
    ASSUME LiveInv, Hearing, [Next]_vars
    PROVE  /\ Hearing' \/ Stopping'
           /\ Listening => Stopping'
<1>0. Serving' \/ Stopping'
  BY ServingGoesOn DEF Hearing
<1>1. main = "up" /\ listener = "flushing" /\ ~inFatal
  BY DEF Hearing, Serving, LiveInv, TypeOK, StartupFirst, Steps
<1>2. listener' = "flushing" \/ cancelled'
  BY <1>1 DEF Next, Startup, StepSucceeds, StepFails, MetricsFail, RegistrationFails, Fails, FatalReturns, WebhookInfoMissing, StartComponents,
              Signal, Listening, ListenerTakes, ListenerCancels, Consuming, ConsumerStopping,
              ConsumerStops, ConsumerGivesUp, Closing, DbCloses, DbClosed, DbFatalReturns, Ending, CloseChannels,
              Exit, Update, Arrive, Finish, Restart, Panic, RestartOnClosed, FatalOnClosed, RequestStop,
              PlainStops, vars, Steps
<1>3. Listening => cancelled'
  BY <1>1 DEF Listening, ListenerTakes, ListenerCancels
<1> QED BY <1>0, <1>2, <1>3 DEF Hearing, Stopping

(* A panic or a /restart is heard, however many there are at once.          *)
THEOREM Heard == FairSpec /\ []GuardsEnable => RequestIsHeard
<1> SUFFICES ASSUME NEW u \in Updates
             PROVE  FairSpec /\ []GuardsEnable => (AtChannel(u) ~> Stopping)
  BY DEF RequestIsHeard, Stopping
<1>1. LiveInv /\ AtChannel(u) => Asking(u) \/ Asked \/ Hearing \/ Stopping
  BY ConsumerIsComponent
  DEF LiveInv, TypeOK, StartupFirst, AfterStartup, StoppedByCancel, AtChannel, Asking, Asked, Hearing,
      Serving, Stopping, Steps, Ends
<1>2. /\ LiveInv /\ Asking(u) /\ [Next]_vars => Asking(u)' \/ Asked' \/ Stopping'
      /\ LiveInv /\ Asking(u) /\ [Next]_vars /\ <<RequestStop(u)>>_vars => Asked' \/ Stopping'
  BY AskingNext
<1>3. /\ LiveInv /\ Asked /\ [Next]_vars => Asked' \/ Hearing' \/ Stopping'
      /\ LiveInv /\ Asked /\ [Next]_vars /\ <<Listening>>_vars => Hearing' \/ Stopping'
  BY AskedNext
<1>4. /\ LiveInv /\ Hearing /\ [Next]_vars => Hearing' \/ Stopping'
      /\ LiveInv /\ Hearing /\ [Next]_vars /\ <<Listening>>_vars => Stopping'
  BY HearingNext
<1>5. GuardsEnable /\ Asking(u) => ENABLED <<RequestStop(u)>>_vars
  BY DEF GuardsEnable, Asking, Serving, Ends
<1>6. GuardsEnable /\ (Asked \/ Hearing) => ENABLED <<Listening>>_vars
  BY DEF GuardsEnable, Asked, Hearing, Serving, Ends
<1>7. FairSpec => RequestFair(u)
  <2>1. RequestsFair => RequestFair(u)
    BY DEF RequestsFair
  <2> QED BY <2>1, PTL DEF FairSpec
<1>8. FairSpec => Spec /\ [][Next]_vars /\ WF_vars(Listening) /\ WF_vars(RequestStop(u))
  BY <1>7, PTL DEF FairSpec, Spec, RequestFair
<1> QED BY <1>1, <1>2, <1>3, <1>4, <1>5, <1>6, <1>8, LiveInvariant, PTL

(* A bot with a database client that is to stop, and the two ways on.       *)
ShuttingDown == main = "up" /\ cancelled /\ "postgres" \notin failed
Over == Closed \/ ~Alive

LEMMA ShutdownGoesOn ==
    ASSUME LiveInv, ShuttingDown, [Next]_vars
    PROVE  /\ ShuttingDown' \/ Over'
           /\ \A c \in Components : comp[c] = "done" => comp'[c] = "done"
           /\ \A c \in Plain : comp[c] = "running" => comp'[c] \in {"running", "done"}
           /\ \A c \in Plain : PlainStops(c) => comp'[c] = "done"
           /\ comp["db"] = "running" => comp'["db"] \in {"running", "closing"}
           /\ comp["db"] = "closing" => comp'["db"] \in {"closing", "done"}
           /\ comp["db"] = "running" /\ Closing => comp'["db"] = "closing"
           /\ comp["db"] = "closing" /\ Closing => comp'["db"] = "done"
           /\ comp["consumer"] = "running" => comp'["consumer"] \in {"running", "stopping"}
           /\ comp["consumer"] = "stopping" => comp'["consumer"] \in {"stopping", "done"}
           /\ comp["consumer"] = "running" /\ Consuming => comp'["consumer"] = "stopping"
           /\ comp["consumer"] = "stopping" /\ Consuming => comp'["consumer"] = "done"
<1>1. /\ main = "up" /\ ~inFatal /\ cancelled /\ "postgres" \notin failed
      /\ comp \in [Components -> {"none", "running", "stopping", "closing", "fatal", "done"}]
      /\ comp["db"] # "fatal"
      /\ "consumer" \in Components /\ "db" \in Components /\ Plain \subseteq Components
      /\ "consumer" \notin Plain /\ "db" \notin Plain
  BY ConsumerIsComponent, PlainIsComponent, PlainAssumption
  DEF LiveInv, TypeOK, StartupFirst, OwnWay, ShuttingDown, Steps
<1> USE DEF Consuming, ConsumerStopping, ConsumerStops, ConsumerGivesUp, Closing, DbCloses, DbClosed, DbFatalReturns
<1>2. CASE Startup \/ Signal \/ Listening \/ Ending \/ UNCHANGED vars
  <2>1. comp' = comp /\ (ShuttingDown' \/ Over')
    BY <1>1, <1>2 DEF Startup, StepSucceeds, StepFails, MetricsFail, RegistrationFails, Fails, FatalReturns, WebhookInfoMissing, StartComponents,
                      Signal, Listening, ListenerTakes, ListenerCancels, Ending, CloseChannels, Exit,
                      vars, ShuttingDown, Over, Steps, Ends
  <2> QED BY <1>1, <2>1 DEF PlainStops
<1>3. CASE Consuming
  BY <1>1, <1>3 DEF PlainStops, ShuttingDown
<1>4. CASE Closing
  BY <1>1, <1>4 DEF PlainStops, ShuttingDown
<1>5. ASSUME NEW u \in Updates, Update(u) \/ RequestStop(u)
      PROVE  comp' = comp /\ (ShuttingDown' \/ Over')
  BY <1>1, <1>5 DEF Update, Arrive, Finish, Restart, Panic, RestartOnClosed, FatalOnClosed, RequestStop,
                    ShuttingDown
<1>6. CASE \E u \in Updates : Update(u) \/ RequestStop(u)
  BY <1>1, <1>5, <1>6 DEF PlainStops
<1>7. ASSUME NEW c \in Plain, PlainStops(c)
      PROVE  /\ comp' = [comp EXCEPT ![c] = "done"] /\ comp[c] = "running"
             /\ ShuttingDown'
  BY <1>1, <1>7 DEF PlainStops, ShuttingDown
<1>8. CASE \E c \in Plain : PlainStops(c)
  BY <1>1, <1>7, <1>8 DEF PlainStops
<1> QED BY <1>2, <1>3, <1>4, <1>6, <1>8 DEF Next

Stage(c, place) == ShuttingDown /\ comp[c] = place

(* What follows names what each component does on the way: it is done some  *)
(* day, and then stays so, until the shutdown is over.                      *)
GetsDone(c) == ShuttingDown ~> Stage(c, "done") \/ Over
StaysDone(c) == [](Stage(c, "done") => []Stage(c, "done") \/ <>Over)

LEMMA PlainEnds ==
    ASSUME NEW c \in Plain
    PROVE  FairSpec /\ []GuardsEnable => GetsDone(c)
<1>1. LiveInv /\ ShuttingDown => Stage(c, "running") \/ Stage(c, "done")
  BY PlainIsComponent DEF LiveInv, AfterStartup, OwnWay, ShuttingDown, Stage
<1>2. /\ LiveInv /\ Stage(c, "running") /\ [Next]_vars => Stage(c, "running")' \/ Stage(c, "done")' \/ Over'
      /\ LiveInv /\ Stage(c, "running") /\ [Next]_vars /\ <<PlainStops(c)>>_vars => Stage(c, "done")' \/ Over'
  BY ShutdownGoesOn DEF Stage
<1>3. GuardsEnable /\ Stage(c, "running") => ENABLED <<PlainStops(c)>>_vars
  BY DEF GuardsEnable, Stage, ShuttingDown, Ends
<1>4. FairSpec => StopFair(c)
  <2>1. StopsFair => StopFair(c)
    BY DEF StopsFair
  <2> QED BY <2>1, PTL DEF FairSpec
<1>5. FairSpec => Spec /\ [][Next]_vars /\ WF_vars(PlainStops(c))
  BY <1>4, PTL DEF FairSpec, Spec, StopFair
<1> QED BY <1>1, <1>2, <1>3, <1>5, LiveInvariant, PTL DEF GetsDone

LEMMA DbEnds == FairSpec /\ []GuardsEnable => GetsDone("db")
<1>1. LiveInv /\ ShuttingDown => Stage("db", "running") \/ Stage("db", "closing") \/ Stage("db", "done")
  BY ConsumerIsComponent DEF LiveInv, TypeOK, AfterStartup, OwnWay, ShuttingDown, Stage
<1>2. /\ LiveInv /\ Stage("db", "running") /\ [Next]_vars
           => Stage("db", "running")' \/ Stage("db", "closing")' \/ Over'
      /\ LiveInv /\ Stage("db", "running") /\ [Next]_vars /\ <<Closing>>_vars => Stage("db", "closing")' \/ Over'
      /\ LiveInv /\ Stage("db", "closing") /\ [Next]_vars
           => Stage("db", "closing")' \/ Stage("db", "done")' \/ Over'
      /\ LiveInv /\ Stage("db", "closing") /\ [Next]_vars /\ <<Closing>>_vars => Stage("db", "done")' \/ Over'
  BY ShutdownGoesOn DEF Stage
<1>3. GuardsEnable /\ (Stage("db", "running") \/ Stage("db", "closing")) => ENABLED <<Closing>>_vars
  BY DEF GuardsEnable, Stage, ShuttingDown, Ends
<1>4. FairSpec => Spec /\ [][Next]_vars /\ WF_vars(Closing)
  BY PTL DEF FairSpec, Spec
<1> QED BY <1>1, <1>2, <1>3, <1>4, LiveInvariant, PTL DEF GetsDone

LEMMA ConsumerEnds == FairSpec /\ []GuardsEnable => GetsDone("consumer")
<1>1. LiveInv /\ ShuttingDown =>
        Stage("consumer", "running") \/ Stage("consumer", "stopping") \/ Stage("consumer", "done")
  BY ConsumerIsComponent DEF LiveInv, TypeOK, AfterStartup, OwnWay, ShuttingDown, Stage
<1>2. /\ LiveInv /\ Stage("consumer", "running") /\ [Next]_vars
           => Stage("consumer", "running")' \/ Stage("consumer", "stopping")' \/ Over'
      /\ LiveInv /\ Stage("consumer", "running") /\ [Next]_vars /\ <<Consuming>>_vars
           => Stage("consumer", "stopping")' \/ Over'
      /\ LiveInv /\ Stage("consumer", "stopping") /\ [Next]_vars
           => Stage("consumer", "stopping")' \/ Stage("consumer", "done")' \/ Over'
      /\ LiveInv /\ Stage("consumer", "stopping") /\ [Next]_vars /\ <<Consuming>>_vars
           => Stage("consumer", "done")' \/ Over'
  BY ShutdownGoesOn DEF Stage
<1>3. GuardsEnable /\ (Stage("consumer", "running") \/ Stage("consumer", "stopping"))
        => ENABLED <<Consuming>>_vars
  BY DEF GuardsEnable, Stage, ShuttingDown, Ends
<1>4. FairSpec => Spec /\ [][Next]_vars /\ WF_vars(Consuming)
  BY PTL DEF FairSpec, Spec
<1> QED BY <1>1, <1>2, <1>3, <1>4, LiveInvariant, PTL DEF GetsDone

(* What is done stays done. *)
LEMMA DoneStays ==
    ASSUME NEW c \in Components
    PROVE  FairSpec => StaysDone(c)
<1>1. LiveInv /\ Stage(c, "done") /\ [Next]_vars => Stage(c, "done")' \/ Over'
  BY ShutdownGoesOn DEF Stage
<1>2. FairSpec => Spec /\ [][Next]_vars
  BY PTL DEF FairSpec, Spec
<1> QED BY <1>1, <1>2, LiveInvariant, PTL DEF StaysDone

LEMMA OverEnds == FairSpec /\ []GuardsEnable => (Over ~> ~Alive)
<1>1. LiveInv /\ Closed /\ [Next]_vars => Closed' \/ ~Alive'
  <2> SUFFICES ASSUME LiveInv, Closed, [Next]_vars
               PROVE  main' = main \/ ~Alive'
    OBVIOUS
  <2>1. main = "closed" /\ ~inFatal
    BY DEF LiveInv, StartupFirst, Steps
  <2> QED
    BY <2>1 DEF Next, Startup, StepSucceeds, StepFails, MetricsFail, RegistrationFails, Fails, FatalReturns, WebhookInfoMissing, StartComponents,
                Signal, Listening, ListenerTakes, ListenerCancels, Consuming, ConsumerStopping,
                ConsumerStops, ConsumerGivesUp, Closing, DbCloses, DbClosed, DbFatalReturns, Ending, CloseChannels,
                Exit, Update, Arrive, Finish, Restart, Panic, RestartOnClosed, FatalOnClosed, RequestStop,
                PlainStops, vars, Steps, Ends
<1>2. Closed /\ <<Ending>>_vars => ~Alive'
  BY DEF Ending, CloseChannels, Exit, Ends
<1>3. GuardsEnable /\ Closed => ENABLED <<Ending>>_vars
  BY DEF GuardsEnable
<1>4. FairSpec => Spec /\ [][Next]_vars /\ WF_vars(Ending)
  BY PTL DEF FairSpec, Spec
<1>5. Over => Closed \/ ~Alive
  BY DEF Over
<1> HIDE DEF Closed, Alive
<1> QED BY <1>1, <1>2, <1>3, <1>4, <1>5, LiveInvariant, PTL

LEMMA DoneEnds == FairSpec /\ []GuardsEnable => (ShuttingDown /\ AllDone ~> Over)
<1>1. LiveInv /\ ShuttingDown /\ AllDone /\ [Next]_vars => (ShuttingDown' /\ AllDone') \/ Over'
  BY ShutdownGoesOn DEF AllDone
<1>2. ShuttingDown /\ <<Ending>>_vars => Over'
  BY DEF Ending, CloseChannels, Exit, ShuttingDown, Over
<1>3. GuardsEnable /\ ShuttingDown /\ AllDone => ENABLED <<Ending>>_vars
  BY DEF GuardsEnable, ShuttingDown
<1>4. FairSpec => Spec /\ [][Next]_vars /\ WF_vars(Ending)
  BY PTL DEF FairSpec, Spec
<1> QED BY <1>1, <1>2, <1>3, <1>4, LiveInvariant, PTL

(* With a database client a cancelled application ends, for the four plain  *)
(* components of the code, or fewer when some of the names are the same.    *)
THEOREM ShutdownCompletes ==
    ASSUME NEW p1, NEW p2, NEW p3, NEW p4, Plain = {p1, p2, p3, p4}
    PROVE  FairSpec /\ []GuardsEnable => ShutdownEnds
<1>1. p1 \in Plain /\ p2 \in Plain /\ p3 \in Plain /\ p4 \in Plain
  OBVIOUS
<1>2. p1 \in Components /\ p2 \in Components /\ p3 \in Components /\ p4 \in Components
  BY <1>1, PlainIsComponent
<1>3. FairSpec /\ []GuardsEnable => GetsDone(p1) /\ GetsDone(p2) /\ GetsDone(p3) /\ GetsDone(p4)
  BY <1>1, PlainEnds
<1>4. FairSpec => StaysDone(p1) /\ StaysDone(p2) /\ StaysDone(p3) /\ StaysDone(p4)
  BY <1>2, DoneStays
<1>5. FairSpec => StaysDone("db") /\ StaysDone("consumer")
  BY ConsumerIsComponent, DoneStays
<1>6. /\ Stage(p1, "done") /\ Stage(p2, "done") /\ Stage(p3, "done") /\ Stage(p4, "done")
      /\ Stage("db", "done") /\ Stage("consumer", "done")
      => ShuttingDown /\ AllDone
  BY DEF Stage, AllDone, Components
<1>7. ShutdownEnds <=> (ShuttingDown ~> ~Alive)
  BY DEF ShutdownEnds, ShuttingDown
<1> HIDE DEF Alive
<1> QED BY <1>3, <1>4, <1>5, <1>6, <1>7, DbEnds, ConsumerEnds, DoneEnds, OverEnds, PTL DEF GetsDone, StaysDone
===============================================================================
