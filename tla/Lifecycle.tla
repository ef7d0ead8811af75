------------------------------- MODULE Lifecycle -------------------------------
(***************************************************************************)
(* The life of the process: the startup of Services.Init and Run, the      *)
(* components under runComponentsWithGracefulShutdown, the requests to     *)
(* stop (SIGTERM, /restart, the panic of a handler), and the end.          *)
(*                                                                         *)
(* logger.Fatal does not end the process: it puts a token into             *)
(* ShutdownChannel, which has one place, and returns to its caller.        *)
(* panicListener takes one token in its life and cancels the context.      *)
(***************************************************************************)
EXTENDS Naturals, FiniteSets

CONSTANTS Updates,      \* updates that reach a registered handler
          Plain         \* components that end once the context is done:
                        \* logger bridge, server, queues, broadcast worker

ASSUME PlainAssumption == "db" \notin Plain /\ "consumer" \notin Plain

VARIABLES
    main,        \* where Run stands
    inFatal,     \* Run stands in the logger.Fatal of its step
    failed,      \* the steps of the startup that failed
    tokens,      \* tokens in ShutdownChannel
    listener,    \* panicListener
    cancelled,   \* the application's context is done
    comp,        \* comp[c]: where component c stands
    at,          \* at[u]: where the goroutine of update u stands
    gaveUp       \* history: StopWithContext ran into its 10 seconds

vars == <<main, inFatal, failed, tokens, listener, cancelled, comp, at, gaveUp>>

Components == Plain \cup {"db", "consumer"}
Steps == {"env", "commands", "postgres", "bot", "metrics", "handlers"}
Ends == {"exited", "crashed", "killed"}
ChanCap == 1
Busy == {"running", "restart", "fatal"}

Alive == main \notin Ends
Closed == main = "closed"        \* CloseChannels was called
AllDone == \A c \in Components : comp[c] = "done"

Init ==
    /\ main = "env"
    /\ inFatal = FALSE
    /\ failed = {}
    /\ tokens = 0
    /\ listener = "none"
    /\ cancelled = FALSE
    /\ comp = [c \in Components |-> "none"]
    /\ at = [u \in Updates |-> "none"]
    /\ gaveUp = FALSE

Goto(u, place) == at' = [at EXCEPT ![u] = place]
CompGoto(c, place) == comp' = [comp EXCEPT ![c] = place]

-------------------------------------------------------------------------------
(* ShutdownChannel <- struct{}{}                                            *)

PutToken ==
    /\ ~Closed
    /\ tokens < ChanCap
    /\ tokens' = tokens + 1

-------------------------------------------------------------------------------
(* Run, up to its components.  Without RPS_LIMIT, which a missing .env      *)
(* leaves at zero, the rate limiter divides by zero.  "metrics" is the      *)
(* counter of all requests, "handlers" the registration of each command.    *)

AfterStep(s) ==
    CASE s = "env" -> "commands"
      [] s = "commands" -> "postgres"
      [] s = "postgres" /\ "env" \in failed -> "crashed"
      [] s = "postgres" /\ "env" \notin failed -> "bot"
      [] s = "bot" -> "metrics"
      [] OTHER -> "handlers"

StepSucceeds ==
    /\ main \in Steps \ {"handlers"} /\ ~inFatal
    /\ main' = AfterStep(main)
    /\ UNCHANGED <<inFatal, failed, tokens, listener, cancelled, comp, at, gaveUp>>

(* The step at hand failed and stands in its Fatal. *)
Fails ==
    /\ ~inFatal
    /\ failed' = failed \cup {main}
    /\ inFatal' = TRUE
    /\ UNCHANGED <<main, tokens, listener, cancelled, comp, at, gaveUp>>

StepFails == main \in Steps \ {"metrics", "handlers"} /\ Fails

(* Without the counter of all requests no command is registered; of the     *)
(* commands each may fail to get a counter of its own.                      *)
MetricsFail == main = "metrics" /\ Fails
RegistrationFails == main = "handlers" /\ "metrics" \notin failed /\ Fails

(* Fatal returns, and the startup goes on with what it has: without a bot   *)
(* it dereferences nil, or GO_ENV is unknown and Run closes the pool.       *)
FatalReturns ==
    /\ inFatal
    /\ PutToken
    /\ inFatal' = FALSE
    /\ \/ main # "bot" /\ main' = AfterStep(main)
       \/ main = "bot" /\ main' = "crashed"
       \/ main = "bot" /\ "postgres" \notin failed /\ main' = "exited"
    /\ UNCHANGED <<failed, listener, cancelled, comp, at, gaveUp>>

(* GetWebhookInfo failed: the error is logged and its nil result read. *)
WebhookInfoMissing ==
    /\ main = "bot" /\ ~inFatal
    /\ failed' = failed \cup {"bot"}
    /\ main' = "crashed"
    /\ UNCHANGED <<inFatal, tokens, listener, cancelled, comp, at, gaveUp>>

StartComponents ==
    /\ main = "handlers" /\ ~inFatal
    /\ main' = "up"
    /\ listener' = "waiting"
    /\ comp' = [c \in Components |-> "running"]
    /\ UNCHANGED <<inFatal, failed, tokens, cancelled, at, gaveUp>>

-------------------------------------------------------------------------------
(* Updates.                                                                 *)

Arrive(u) ==
    /\ Alive
    /\ at[u] = "none"
    /\ comp["consumer"] = "running"
    /\ "metrics" \notin failed
    /\ Goto(u, "running")
    /\ UNCHANGED <<main, inFatal, failed, tokens, listener, cancelled, comp, gaveUp>>

Finish(u) ==
    /\ Alive
    /\ at[u] = "running"
    /\ Goto(u, "done")
    /\ UNCHANGED <<main, inFatal, failed, tokens, listener, cancelled, comp, gaveUp>>

Restart(u) ==
    /\ Alive
    /\ at[u] = "running"
    /\ Goto(u, "restart")
    /\ UNCHANGED <<main, inFatal, failed, tokens, listener, cancelled, comp, gaveUp>>

(* A transaction that could not begin, a nil result used, a send on a       *)
(* closed channel: handlePanic recovers and calls Fatal.                    *)
Panic(u) ==
    /\ Alive
    /\ at[u] = "running"
    /\ Goto(u, "fatal")
    /\ UNCHANGED <<main, inFatal, failed, tokens, listener, cancelled, comp, gaveUp>>

RequestStop(u) ==
    /\ Alive
    /\ at[u] \in {"restart", "fatal"}
    /\ PutToken
    /\ Goto(u, "done")
    /\ UNCHANGED <<main, inFatal, failed, listener, cancelled, comp, gaveUp>>

(* A send on the closed channel panics: in Restart handlePanic recovers     *)
(* once more, in handlePanic nobody does.                                   *)
RestartOnClosed(u) ==
    /\ Closed
    /\ at[u] = "restart"
    /\ Goto(u, "fatal")
    /\ UNCHANGED <<main, inFatal, failed, tokens, listener, cancelled, comp, gaveUp>>

FatalOnClosed(u) ==
    /\ Closed
    /\ at[u] = "fatal"
    /\ main' = "crashed"
    /\ UNCHANGED <<inFatal, failed, tokens, listener, cancelled, comp, at, gaveUp>>

-------------------------------------------------------------------------------
(* Signals and panicListener.                                               *)

(* signal.NotifyContext catches SIGTERM until its stop function is called,  *)
(* which is the cancel of panicListener; from then on the signal kills.     *)
Signal ==
    /\ Alive
    /\ IF listener = "done"
         THEN main' = "killed" /\ UNCHANGED cancelled
         ELSE cancelled' = TRUE /\ UNCHANGED main
    /\ UNCHANGED <<inFatal, failed, tokens, listener, comp, at, gaveUp>>

ListenerTakes ==
    /\ Alive
    /\ listener = "waiting"
    /\ \/ tokens > 0 /\ tokens' = tokens - 1
       \/ tokens = 0 /\ Closed /\ UNCHANGED tokens
    /\ listener' = "flushing"
    /\ UNCHANGED <<main, inFatal, failed, cancelled, comp, at, gaveUp>>

ListenerForgets ==                                                 \* mutant
    /\ Alive
    /\ listener = "flushing"
    /\ listener' = "done"
    /\ UNCHANGED <<main, inFatal, failed, tokens, cancelled, comp, at, gaveUp>>

ListenerCancels ==
    /\ Alive
    /\ listener = "flushing"
    /\ listener' = "done"
    /\ cancelled' = TRUE
    /\ UNCHANGED <<main, inFatal, failed, tokens, comp, at, gaveUp>>

-------------------------------------------------------------------------------
(* Components.                                                              *)

PlainStops(c) ==
    /\ Alive
    /\ cancelled /\ comp[c] = "running"
    /\ CompGoto(c, "done")
    /\ UNCHANGED <<main, inFatal, failed, tokens, listener, cancelled, at, gaveUp>>

(* Close on the client that the startup could not create panics.            *)
DbCloses ==
    /\ Alive
    /\ cancelled /\ comp["db"] = "running"
    /\ CompGoto("db", IF "postgres" \in failed THEN "fatal" ELSE "closing")
    /\ UNCHANGED <<main, inFatal, failed, tokens, listener, cancelled, at, gaveUp>>

(* The pool gives no more connections and waits for those in use.  Every    *)
(* statement, and every wait for the reply queue in a transaction, runs     *)
(* under the cancelled context, and a transaction is rolled back as its     *)
(* handler returns or panics: the wait is as short as these are, even when  *)
(* a handler hangs elsewhere.                                               *)
DbClosed ==
    /\ Alive
    /\ comp["db"] = "closing"
    /\ CompGoto("db", "done")
    /\ UNCHANGED <<main, inFatal, failed, tokens, listener, cancelled, at, gaveUp>>

DbFatalReturns ==
    /\ Alive
    /\ comp["db"] = "fatal"
    /\ PutToken
    /\ CompGoto("db", "done")
    /\ UNCHANGED <<main, inFatal, failed, listener, cancelled, at, gaveUp>>

ConsumerStopping ==
    /\ Alive
    /\ cancelled /\ comp["consumer"] = "running"
    /\ CompGoto("consumer", "stopping")
    /\ UNCHANGED <<main, inFatal, failed, tokens, listener, cancelled, at, gaveUp>>

ConsumerStopsAtOnce ==                                             \* mutant
    /\ Alive
    /\ comp["consumer"] = "stopping"
    /\ CompGoto("consumer", "done")
    /\ UNCHANGED <<main, inFatal, failed, tokens, listener, cancelled, at, gaveUp>>

ConsumerStops ==
    /\ Alive
    /\ comp["consumer"] = "stopping"
    /\ \A u \in Updates : at[u] \notin Busy
    /\ CompGoto("consumer", "done")
    /\ UNCHANGED <<main, inFatal, failed, tokens, listener, cancelled, at, gaveUp>>

ConsumerNeverGivesUp == comp["consumer"] = "stopping" /\ UNCHANGED vars  \* mutant

(* StopWithContext after 10 seconds: the error is logged. *)
ConsumerGivesUp ==
    /\ Alive
    /\ comp["consumer"] = "stopping"
    /\ \E u \in Updates : at[u] \in Busy
    /\ CompGoto("consumer", "done")
    /\ gaveUp' = TRUE
    /\ UNCHANGED <<main, inFatal, failed, tokens, listener, cancelled, at>>

CloseWithoutWaiting ==                                             \* mutant
    /\ main = "up" /\ cancelled
    /\ main' = "closed"
    /\ UNCHANGED <<inFatal, failed, tokens, listener, cancelled, comp, at, gaveUp>>

CloseChannels ==
    /\ main = "up"
    /\ AllDone
    /\ main' = "closed"
    /\ UNCHANGED <<inFatal, failed, tokens, listener, cancelled, comp, at, gaveUp>>

Exit ==
    /\ Closed
    /\ main' = "exited"
    /\ UNCHANGED <<inFatal, failed, tokens, listener, cancelled, comp, at, gaveUp>>

-------------------------------------------------------------------------------
Startup ==
    \/ StepSucceeds \/ StepFails \/ MetricsFail \/ RegistrationFails \/ FatalReturns
    \/ WebhookInfoMissing \/ StartComponents
Update(u) ==
    \/ Arrive(u) \/ Finish(u) \/ Restart(u) \/ Panic(u)
    \/ RestartOnClosed(u) \/ FatalOnClosed(u)
Listening == ListenerTakes \/ ListenerCancels
Consuming == ConsumerStopping \/ ConsumerStops \/ ConsumerGivesUp
Closing == DbCloses \/ DbClosed \/ DbFatalReturns
Ending == CloseChannels \/ Exit

Next ==
    \/ Startup \/ Signal \/ Listening \/ Consuming \/ Closing \/ Ending
    \/ \E u \in Updates : Update(u) \/ RequestStop(u)
    \/ \E c \in Plain : PlainStops(c)

Spec == Init /\ [][Next]_vars

(* Go runs every goroutine that can step; a handler may be held for ever by *)
(* a call to Telegram, so nothing is assumed of it but that it puts its     *)
(* token when it can, and (WF of Closing) gives its connection back once    *)
(* the context of its statements is done.                                   *)
RequestFair(u) == WF_vars(RequestStop(u))
RequestsFair == \A u \in Updates : RequestFair(u)
StopFair(c) == WF_vars(PlainStops(c))
StopsFair == \A c \in Plain : StopFair(c)
FairSpec ==
    /\ Spec
    /\ WF_vars(Startup) /\ WF_vars(Listening) /\ WF_vars(Consuming)
    /\ WF_vars(Closing) /\ WF_vars(Ending)
    /\ RequestsFair /\ StopsFair

-------------------------------------------------------------------------------
(* Properties.                                                              *)

TypeOK ==
    /\ main \in Steps \cup Ends \cup {"up", "closed"}
    /\ inFatal \in BOOLEAN
    /\ failed \subseteq Steps
    /\ tokens \in 0..ChanCap
    /\ listener \in {"none", "waiting", "flushing", "done"}
    /\ cancelled \in BOOLEAN
    /\ comp \in [Components -> {"none", "running", "stopping", "closing", "fatal", "done"}]
    /\ at \in [Updates -> {"none", "done"} \cup Busy]
    /\ gaveUp \in BOOLEAN

(* The channels are closed under a handler that may still send only when    *)
(* StopWithContext gave up waiting for it.                                  *)
QuietClose == Closed /\ ~gaveUp => \A u \in Updates : at[u] \notin Busy

(* A process whose startup succeeded crashes only after that.               *)
CrashNeedsGivingUp == main = "crashed" => failed # {} \/ gaveUp

(* A panic or a /restart is heard, however many there are at once: its      *)
(* handler is not left at a full channel while the bot goes on.             *)
AtChannel(u) == at[u] \in {"restart", "fatal"}
RequestIsHeard ==
    \A u \in Updates : AtChannel(u) ~> cancelled \/ ~Alive

(* With a database client a cancelled application ends, although handlers   *)
(* hang and requests to stop fill the channel nobody reads any more.        *)
ShutdownEnds == main = "up" /\ cancelled /\ "postgres" \notin failed ~> ~Alive

(* What the README says of the program, "graceful shutdown, health checks"  *)
(* and a robust end of its processes, and a run refutes: the shutdown of a  *)
(* bot that started well never crashes.                                     *)
ShutdownIsGraceful == main = "crashed" => failed # {}
===============================================================================
