----------------------------- MODULE Controller -----------------------------
(***************************************************************************)
(* The life of the controller process (cmd/omnitest/main.go, controllerCmd,*)
(* internal/controller/controller.go): main starts the gRPC and the HTTP   *)
(* server and waits in ListenAndServe; a signal starts the goroutine that  *)
(* shuts down, while agents stream the metrics of a run (Aggregator), HTTP *)
(* requests are served and HealthCheckLoop (agent_manager.go) uses the     *)
(* store.                                                                  *)
(*                                                                         *)
(* Simplifications: HTTP requests are counted, whatever they do; a second  *)
(* signal changes nothing (NotifyContext keeps catching it).               *)
(***************************************************************************)
EXTENDS Aggregator

CONSTANTS MaxHttp \* bound of the model on the HTTP requests in progress

ASSUME MaxHttpAssumption == MaxHttp \in Nat

VARIABLES main,      \* where the main goroutine is; "failed" and "exited" end the process
          signalled, \* SIGINT or SIGTERM has come
          shut,      \* where the goroutine that shuts down is
          expired,   \* the 10 s of shutdownCtx are over
          inShutdown,\* http.Server.Shutdown was called
          http,      \* HTTP requests in progress
          pool,      \* the connection pool of the store
          check      \* where HealthCheckLoop is

ctrlVars == <<main, signalled, shut, expired, inShutdown, http, pool, check>>
vars == <<aggVars, ctrlVars>>

Dead == main \in {"failed", "exited"}

Init ==
    /\ AggInit
    /\ main = "created" /\ signalled = FALSE
    /\ shut = "waiting" /\ expired = FALSE /\ inShutdown = FALSE
    /\ http = 0 /\ pool = "open" /\ check = "none"
-----------------------------------------------------------------------------
(* main: Start, then the exit                                              *)

Main(from, to) ==
    /\ main = from
    /\ main' = to
    /\ UNCHANGED <<aggVars, signalled, shut, expired, inShutdown, http, pool>>

(* The goroutines of the gRPC server and of HealthCheckLoop are started.   *)
StartServers == Main("created", "serving") /\ check' = "waiting"

(* c.httpServer is assigned.                                               *)
AssignServer == Main("serving", "assigned") /\ UNCHANGED check

(* ListenAndServe listens, returns ErrServerClosed, or fails.              *)
Listen      == ~inShutdown /\ Main("assigned", "listening") /\ UNCHANGED check
ListenFails == ~inShutdown /\ Main("assigned", "failed") /\ UNCHANGED check

(* Mutant: the process does not end when ListenAndServe returns.           *)
ExitAtTheEnd ==
    shut = "done" /\ inShutdown /\ Main("listening", "exited") /\ UNCHANGED check

(* Shutdown has closed the listeners: ListenAndServe returns, and main     *)
(* calls os.Exit(99) without waiting for Shutdown.                         *)
Exit ==
    /\ inShutdown
    /\ Main("assigned", "exited") \/ Main("listening", "exited")
    /\ UNCHANGED check
-----------------------------------------------------------------------------
(* The goroutine that waits for the signal, then runs Controller.Shutdown  *)

Signal ==
    /\ ~Dead /\ ~signalled
    /\ signalled' = TRUE
    /\ UNCHANGED <<aggVars, main, shut, expired, inShutdown, http, pool, check>>

Shut(from, to) ==
    /\ ~Dead
    /\ shut = from
    /\ shut' = to
    /\ UNCHANGED <<aggVars, main, signalled, expired, http, check>>

(* shutdownCtx is made, GracefulStop called: no new stream is accepted.    *)
BeginShutdown == signalled /\ Shut("waiting", "draining") /\ UNCHANGED <<inShutdown, pool>>

StreamsEnded == \A a \in Agents : stream[a] \in {"none", "ended", "failed"}

(* c.httpServer is nil until main has assigned it.                         *)
AfterDraining == IF main \in {"created", "serving"} THEN "closing" ELSE "http"

(* Mutant: Stop instead of GracefulStop.                                   *)
DrainedAtOnce ==
    /\ Shut("draining", AfterDraining)
    /\ UNCHANGED <<inShutdown, pool>>

(* GracefulStop returns when the last stream has ended, after whatever     *)
(* time.                                                                   *)
Drained ==
    /\ StreamsEnded
    /\ Shut("draining", AfterDraining)
    /\ UNCHANGED <<inShutdown, pool>>

CloseListeners ==
    /\ Shut("http", "idling")
    /\ inShutdown' = TRUE
    /\ UNCHANGED pool

(* Mutant: Shutdown does not wait for requests.                            *)
HttpIdleAtOnce == Shut("idling", "closing") /\ UNCHANGED <<inShutdown, pool>>

(* Shutdown returns when no request is in progress, or with the context.   *)
HttpIdle ==
    /\ http = 0 \/ expired
    /\ Shut("idling", "closing")
    /\ UNCHANGED <<inShutdown, pool>>

ClosePool ==
    /\ Shut("closing", "done")
    /\ pool' = "closed"
    /\ UNCHANGED inShutdown

Expire ==
    /\ ~Dead /\ shut # "waiting" /\ ~expired
    /\ expired' = TRUE
    /\ UNCHANGED <<aggVars, main, signalled, shut, inShutdown, http, pool, check>>

Shutdown == BeginShutdown \/ Drained \/ CloseListeners \/ HttpIdle \/ ClosePool
-----------------------------------------------------------------------------
(* HealthCheckLoop: on a tick markOffline updates the rows of the agents   *)
(* that are late, a statement of at most 5 s each; the signal ends the     *)
(* loop, but select may still take a tick before it.                       *)
Check(from, to) ==
    /\ ~Dead
    /\ check = from
    /\ check' = to
    /\ UNCHANGED <<aggVars, main, signalled, shut, expired, inShutdown, http, pool>>

CheckBegins == Check("waiting", "marking")
CheckEnds   == Check("marking", "waiting")
LoopEnds    == signalled /\ Check("waiting", "ended")

HealthCheckLoop == CheckBegins \/ CheckEnds \/ LoopEnds

(* An HTTP request is accepted, and is answered.                           *)
HttpBegin ==
    /\ main = "listening" /\ ~inShutdown
    /\ http < MaxHttp
    /\ http' = http + 1
    /\ UNCHANGED <<aggVars, main, signalled, shut, expired, inShutdown, pool, check>>

HttpEnd ==
    /\ ~Dead
    /\ http > 0
    /\ http' = http - 1
    /\ UNCHANGED <<aggVars, main, signalled, shut, expired, inShutdown, pool, check>>

(* A stream is opened while the gRPC server accepts streams: from before   *)
(* main assigns c.httpServer on.                                           *)
OpenStream(a) ==
    /\ ~Dead /\ main # "created" /\ shut = "waiting"
    /\ Open(a)
    /\ UNCHANGED ctrlVars

(* The agents' ends of the streams, and the goroutines that serve them.    *)
AgentStep(a)  == ~Dead /\ (Send(a) \/ Close(a) \/ Break(a)) /\ UNCHANGED ctrlVars
StreamStep(a) == ~Dead /\ Serve(a) /\ UNCHANGED ctrlVars
EndOfRun(a)   == ~Dead /\ Close(a) /\ UNCHANGED ctrlVars

Next ==
    \/ StartServers \/ AssignServer \/ Listen \/ ListenFails \/ Exit
    \/ Signal \/ Shutdown \/ Expire
    \/ HttpBegin \/ HttpEnd
    \/ HealthCheckLoop
    \/ \E a \in Agents : OpenStream(a) \/ AgentStep(a) \/ StreamStep(a)

Spec == Init /\ [][Next]_vars

(* The goroutines run on, requests are answered, and the runs of the       *)
(* agents end (RunCommand, CommandEnds), so that their streams are closed.         *)
Fairness ==
    /\ WF_vars(StartServers) /\ WF_vars(AssignServer) /\ WF_vars(Listen \/ ListenFails) /\ WF_vars(Exit)
    /\ WF_vars(Shutdown) /\ WF_vars(HttpEnd)
    /\ \A a \in Agents : WF_vars(EndOfRun(a)) /\ WF_vars(StreamStep(a))

FairSpec == Spec /\ Fairness
-----------------------------------------------------------------------------
TypeOK ==
    /\ AggTypeOK
    /\ main \in {"created", "serving", "assigned", "listening", "failed", "exited"}
    /\ shut \in {"waiting", "draining", "http", "idling", "closing", "done"}
    /\ signalled \in BOOLEAN /\ expired \in BOOLEAN /\ inShutdown \in BOOLEAN
    /\ http \in 0 .. MaxHttp /\ pool \in {"open", "closed"}
    /\ check \in {"none", "waiting", "marking", "ended"}

(* A report that reached the controller is dealt with before the process   *)
(* ends on a signal; and where the agent's stream did not break, every     *)
(* report that the agent sent has been: draining the streams comes before  *)
(* everything else (Shutdown, grpcServer.Stop).                            *)
ReportsSurviveShutdown ==
    main = "exited" =>
        \A a \in Agents :
            /\ stream[a] \in {"none", "ended", "failed"}
            /\ pc[a] = "recv"
            /\ latest[a] = got[a]
            /\ stream[a] # "failed" => latest[a] = sent[a]

(* When the store is closed no report is being dealt with, and no request  *)
(* is served unless the 10 s are over or Shutdown found no server.  A      *)
(* health check may still be under way: nobody waits for HealthCheckLoop,  *)
(* and its next statement fails, which markOffline ignores.                *)
PoolClosedLast ==
    pool = "closed" =>
        /\ \A a \in Agents : pc[a] = "recv"
        /\ http = 0 \/ expired \/ ~inShutdown

(* The shutdown has gone past a server that main had not assigned yet.     *)
MissedServer == shut \in {"closing", "done"} /\ ~inShutdown

(* A signal ends the process, although GracefulStop waits without a bound, *)
(* unless it came so early that Shutdown missed the HTTP server.           *)
SignalEndsProcess == signalled ~> (Dead \/ MissedServer)

(* "Shutdown은 graceful shutdown을 수행한다" (controller.go:103): a request that is  *)
(* in progress is answered within the 10 s, and not cut off by the exit.   *)
RequestsSurviveShutdown == main = "exited" /\ ~expired => http = 0
=============================================================================
