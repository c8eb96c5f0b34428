----------------------------- MODULE Lifecycle -----------------------------
(***************************************************************************)
(* cmd/dockerapi/main.go, run: from the first log line to the exit, with   *)
(* the observability server of internal/obs, the goroutine that listens    *)
(* and the requests it serves.                                             *)
(*                                                                         *)
(* The environment brings Redis up and down, sends a signal at any time,   *)
(* and opens requests and scrapes that may take for ever.                  *)
(*                                                                         *)
(* Time is counted in ticks of five seconds.  A step of the program that   *)
(* waits for nobody takes no time; building the server is such a step,     *)
(* a ping of Redis is not.  The subscriber, which run neither waits for    *)
(* nor stops by anything but the context, is left out.                     *)
(***************************************************************************)
EXTENDS Naturals

CONSTANTS
    Handler,         \* the slots for requests in progress
    ShutdownTimeout, \* shutdownTimeout, in ticks
    ObsTimeout,      \* obsShutdownTimeout, in ticks
    ObsGrace         \* obs.shutdownGrace, in ticks

ASSUME ConstantsAssumption ==
    /\ {ShutdownTimeout, ObsTimeout, ObsGrace} \subseteq Nat \ {0}
    /\ ObsGrace < ObsTimeout
    /\ ObsGrace <= ShutdownTimeout

VARIABLES
    pc,        \* where run is
    err,       \* the error it returns
    signalled, \* the context of run is cancelled
    connected, \* history: Redis has answered a ping
    ready,     \* Readiness.ready
    listener,  \* the goroutine of ListenAndServeTLS
    serving,   \* the requests in progress
    obs,       \* the goroutine of obs.Server.Run, and what it returned
    bound,     \* history: the metrics endpoint has been bound
    scrape,    \* a scrape is in progress
    closed,    \* the clients of Docker and Redis are closed
    timer,     \* what is left of the wait run is in
    grace,     \* what is left of the grace of obs
    elapsed    \* history: the ticks since the signal

vars == <<pc, err, signalled, connected, ready, listener, serving, obs,
          bound, scrape, closed, timer, grace, elapsed>>

obsVars == <<obs, bound, scrape, grace>>
mainVars == <<pc, err, connected, ready, closed, timer>>

Errors == {"none", "docker", "canceled", "cert", "listen", "drain", "obs",
           "obs late"}

TypeOK ==
    /\ pc \in {"docker", "redis", "build", "select", "shutdown",
               "obs", "cleanup", "exited"}
    /\ err \in Errors
    /\ {signalled, connected, ready, bound, scrape, closed} \subseteq BOOLEAN
    /\ listener \in {"off", "starting", "up", "failed", "closed"}
    /\ serving \subseteq Handler
    /\ obs \in {"start", "disabled", "up", "broken", "stopping",
                "nil", "failed"}
    /\ timer \in 0 .. ShutdownTimeout + ObsTimeout
    /\ grace \in 0 .. ObsGrace
    /\ elapsed \in 0 .. ShutdownTimeout + 1

\* The observability server is disabled when no address is configured.
Init ==
    /\ pc = "docker"
    /\ err = "none"
    /\ signalled = FALSE
    /\ connected = FALSE
    /\ ready = FALSE
    /\ listener = "off"
    /\ serving = {}
    /\ obs \in {"start", "disabled"}
    /\ bound = FALSE
    /\ scrape = FALSE
    /\ closed = FALSE
    /\ timer = 0
    /\ grace = 0
    /\ elapsed = 0

Alive == pc # "exited"

-----------------------------------------------------------------------------
(* run                                                                     *)

\* run returns e; what it has deferred by then follows.
Return(e, next) ==
    /\ pc' = next
    /\ err' = e
    /\ UNCHANGED <<connected, ready, closed, timer>>

\* dockerclient.New only parses an address.
OpenDocker ==
    /\ pc = "docker"
    /\ \/ /\ pc' = "redis"
          /\ UNCHANGED <<err, connected, ready, closed, timer>>
       \/ Return("docker", "exited")
    /\ UNCHANGED <<signalled, listener, serving, elapsed, obsVars>>

\* Variant: a ping that failed is taken for an answer.
PingedAnyway ==
    /\ pc = "redis"
    /\ pc' = "build"
    /\ UNCHANGED <<err, connected, ready, closed, timer>>
    /\ UNCHANGED <<signalled, listener, serving, elapsed, obsVars>>

\* waitFor: an attempt that fails without a signal is repeated.
Pinged ==
    /\ pc = "redis"
    /\ pc' = "build"
    /\ connected' = TRUE
    /\ UNCHANGED <<err, ready, closed, timer>>
    /\ UNCHANGED <<signalled, listener, serving, elapsed, obsVars>>

\* Variant: the loop does not look at the context.
PingCancelledNever == FALSE

\* connect has not returned its cleanup to run's defer yet.
PingCancelled ==
    /\ pc = "redis"
    /\ signalled
    /\ Return("canceled", "exited")
    /\ UNCHANGED <<signalled, listener, serving, elapsed, obsVars>>

\* build and what follows it up to the select.  The listener's goroutine has
\* been started, and may not have run yet, when the service is marked ready.
Build ==
    /\ pc = "build"
    /\ pc' = "select"
    /\ listener' = "starting"
    /\ ready' = TRUE
    /\ UNCHANGED <<err, connected, closed, timer>>
    /\ UNCHANGED <<signalled, serving, elapsed, obsVars>>

BuildFails ==
    /\ pc = "build"
    /\ Return("cert", "cleanup")
    /\ UNCHANGED <<signalled, listener, serving, elapsed, obsVars>>

\* The select: both cases may be ready, then either is taken.
ListenerFailed ==
    /\ pc = "select"
    /\ listener = "failed"
    /\ Return("listen", "cleanup")
    /\ UNCHANGED <<signalled, listener, serving, elapsed, obsVars>>

\* Variant: both deadlines are added up for the requests.
BeginShutdownLate ==
    /\ pc = "select"
    /\ signalled
    /\ pc' = "shutdown"
    /\ timer' = ShutdownTimeout + ObsTimeout
    /\ listener' = IF listener = "failed" THEN "failed" ELSE "closed"
    /\ UNCHANGED <<err, connected, ready, closed>>
    /\ UNCHANGED <<signalled, serving, elapsed, obsVars>>

\* http.Server.Shutdown closes the listener, also before it was opened.
BeginShutdown ==
    /\ pc = "select"
    /\ signalled
    /\ pc' = "shutdown"
    /\ timer' = ShutdownTimeout
    /\ listener' = IF listener = "failed" THEN "failed" ELSE "closed"
    /\ UNCHANGED <<err, connected, ready, closed>>
    /\ UNCHANGED <<signalled, serving, elapsed, obsVars>>

\* Variant: the server is closed and its requests are not waited for.
DrainedAtOnce ==
    /\ pc = "shutdown"
    /\ pc' = "obs"
    /\ timer' = ObsTimeout
    /\ UNCHANGED <<err, connected, ready, closed>>
    /\ UNCHANGED <<signalled, listener, serving, elapsed, obsVars>>

\* Variant: the deadline of the shutdown holds for waitForObs, too.
DrainedOneDeadline ==
    /\ pc = "shutdown"
    /\ serving = {}
    /\ pc' = "obs"
    /\ UNCHANGED <<err, connected, ready, closed, timer>>
    /\ UNCHANGED <<signalled, listener, serving, elapsed, obsVars>>

Drained ==
    /\ pc = "shutdown"
    /\ serving = {}
    /\ pc' = "obs"
    /\ timer' = ObsTimeout
    /\ UNCHANGED <<err, connected, ready, closed>>
    /\ UNCHANGED <<signalled, listener, serving, elapsed, obsVars>>

\* The status of the observability server is not collected then.
DrainTimeout ==
    /\ pc = "shutdown"
    /\ timer = 0
    /\ Return("drain", "cleanup")
    /\ UNCHANGED <<signalled, listener, serving, elapsed, obsVars>>

\* Variant: the status is received and dropped.
ObsStatusDropped == IF obs \in {"nil", "failed"} THEN {"none"} ELSE {}

\* What can be received from obsDone.
ObsStatus ==
    IF obs = "failed" THEN {"obs"} ELSE IF obs = "nil" THEN {"none"} ELSE {}

\* waitForObs: the status, or the timer; either when both are there.
WaitForObs ==
    /\ pc = "obs"
    /\ \E e \in ObsStatus \cup (IF timer = 0 THEN {"obs late"} ELSE {}) :
          Return(e, "cleanup")
    /\ UNCHANGED <<signalled, listener, serving, elapsed, obsVars>>

\* The deferred cleanup of connect, and the return to main.
Cleanup ==
    /\ pc = "cleanup"
    /\ pc' = "exited"
    /\ closed' = TRUE
    /\ UNCHANGED <<err, connected, ready, timer>>
    /\ UNCHANGED <<signalled, listener, serving, elapsed, obsVars>>

-----------------------------------------------------------------------------
(* The listener and its requests                                           *)

Listen ==
    /\ Alive
    /\ listener = "starting"
    /\ listener' \in {"up", "failed"}
    /\ UNCHANGED <<signalled, serving, elapsed, mainVars, obsVars>>

AcceptFails ==
    /\ Alive
    /\ listener = "up"
    /\ listener' = "failed"
    /\ UNCHANGED <<signalled, serving, elapsed, mainVars, obsVars>>

Serve(h) ==
    /\ Alive
    /\ listener = "up"
    /\ h \notin serving
    /\ serving' = serving \cup {h}
    /\ UNCHANGED <<signalled, listener, elapsed, mainVars, obsVars>>

Answer(h) ==
    /\ Alive
    /\ h \in serving
    /\ serving' = serving \ {h}
    /\ UNCHANGED <<signalled, listener, elapsed, mainVars, obsVars>>

-----------------------------------------------------------------------------
(* obs.Server.Run                                                          *)

ObsStart ==
    /\ Alive
    /\ \/ obs = "disabled" /\ obs' = "nil" /\ bound' = bound
       \/ obs = "start" /\ obs' = "up" /\ bound' = TRUE
       \/ obs = "start" /\ obs' = "failed" /\ bound' = bound
    /\ UNCHANGED <<signalled, listener, serving, elapsed, mainVars,
                   scrape, grace>>

Scrape ==
    /\ Alive
    /\ \/ obs = "up" /\ ~ scrape
       \/ scrape
    /\ scrape' = ~ scrape
    /\ UNCHANGED <<signalled, listener, serving, elapsed, mainVars,
                   obs, bound, grace>>

ObsServeFails ==
    /\ Alive
    /\ obs = "up"
    /\ obs' = "broken"
    /\ UNCHANGED <<signalled, listener, serving, elapsed, mainVars,
                   bound, scrape, grace>>

\* The select of Run: when the context is done as well, either case is taken.
ObsReturnsError ==
    /\ Alive
    /\ obs = "broken"
    /\ obs' = "failed"
    /\ UNCHANGED <<signalled, listener, serving, elapsed, mainVars,
                   bound, scrape, grace>>

\* Variant: obsShutdownTimeout is taken for the grace.
ObsStoppingLate ==
    /\ Alive
    /\ obs \in {"up", "broken"}
    /\ signalled
    /\ obs' = "stopping"
    /\ grace' = ObsTimeout
    /\ UNCHANGED <<signalled, listener, serving, elapsed, mainVars,
                   bound, scrape>>

ObsStopping ==
    /\ Alive
    /\ obs \in {"up", "broken"}
    /\ signalled
    /\ obs' = "stopping"
    /\ grace' = ObsGrace
    /\ UNCHANGED <<signalled, listener, serving, elapsed, mainVars,
                   bound, scrape>>

\* A shutdown that the grace cuts short is logged and is no error.
ObsStopped ==
    /\ Alive
    /\ obs = "stopping"
    /\ ~ scrape \/ grace = 0
    /\ obs' = "nil"
    /\ UNCHANGED <<signalled, listener, serving, elapsed, mainVars,
                   bound, scrape, grace>>

-----------------------------------------------------------------------------
(* The signal, and the clock                                               *)

Signal ==
    /\ Alive
    /\ ~ signalled
    /\ signalled' = TRUE
    /\ UNCHANGED <<listener, serving, elapsed, mainVars, obsVars>>

MainStep ==
    \/ OpenDocker \/ Pinged \/ PingCancelled \/ Build \/ BuildFails
    \/ ListenerFailed \/ BeginShutdown \/ Drained \/ DrainTimeout
    \/ WaitForObs \/ Cleanup

\* A step of the program that waits for nobody is left to do.
Prompt ==
    \/ pc \in {"docker", "build", "cleanup"}
    \/ pc = "redis" /\ signalled
    \/ pc = "select" /\ (signalled \/ listener = "failed")
    \/ pc = "shutdown" /\ (serving = {} \/ timer = 0)
    \/ pc = "obs" /\ (obs \in {"nil", "failed"} \/ timer = 0)
    \/ listener = "starting"
    \/ obs \in {"start", "disabled", "broken"}
    \/ obs = "up" /\ signalled
    \/ obs = "stopping" /\ (~ scrape \/ grace = 0)

Less(n) == IF n = 0 THEN 0 ELSE n - 1

Tick ==
    /\ Alive
    /\ ~ Prompt
    /\ timer' = Less(timer)
    /\ grace' = Less(grace)
    /\ elapsed' = IF signalled /\ elapsed <= ShutdownTimeout
                  THEN elapsed + 1 ELSE elapsed
    /\ UNCHANGED <<pc, err, signalled, connected, ready, listener, serving,
                   obs, bound, scrape, closed>>

Exited == ~ Alive /\ UNCHANGED vars

Next ==
    \/ MainStep
    \/ Listen \/ AcceptFails
    \/ \E h \in Handler : Serve(h) \/ Answer(h)
    \/ ObsStart \/ Scrape \/ ObsServeFails \/ ObsReturnsError
    \/ ObsStopping \/ ObsStopped
    \/ Signal \/ Tick \/ Exited

Spec == Init /\ [][Next]_vars

\* The goroutines are scheduled and time passes.  Nothing is assumed of
\* Redis, of the requests and scrapes, or of whoever sends the signal.
Fairness ==
    /\ WF_vars(OpenDocker) /\ WF_vars(PingCancelled)
    /\ WF_vars(Build \/ BuildFails)
    /\ WF_vars(ListenerFailed \/ BeginShutdown)
    /\ WF_vars(Drained \/ DrainTimeout)
    /\ WF_vars(WaitForObs)
    /\ WF_vars(Cleanup)
    /\ WF_vars(Listen)
    /\ WF_vars(ObsStart) /\ WF_vars(ObsReturnsError \/ ObsStopping)
    /\ WF_vars(ObsStopped)
    /\ WF_vars(Tick)

FairSpec == Spec /\ Fairness

-----------------------------------------------------------------------------
(* Properties                                                              *)

(* No request is accepted, and the service is not ready, before Redis has   *)
(* answered (main.go:183-184: startup waits rather than answering requests  *)
(* it cannot serve; obs.go:25-30).                                          *)
ServesConnected == serving # {} \/ ready => connected

(* The clients of Docker and Redis are closed under a request in two cases  *)
(* only: the requests have had their whole shutdownTimeout since the signal, *)
(* or the listener failed.  Then run returns at once, also if the signal has *)
(* arrived as well, and with it the deferred cleanup (main.go:137-149).      *)
DrainedBeforeClosed ==
    [][Cleanup /\ serving # {} =>
         \/ err = "drain" /\ signalled /\ elapsed = ShutdownTimeout
         \/ err = "listen" /\ listener = "failed"]_vars

(* Exit status 0 means that a metrics endpoint that was configured had been *)
(* bound: a failed bind does not end as a success (main.go:277-278).        *)
CleanExitMeansBound ==
    ~ Alive /\ err = "none" => bound \/ obs # "failed"

(* waitForObs does not give up: the observability server stops within its   *)
(* own grace, which ends before obsShutdownTimeout (main.go:51, obs.go:23). *)
ObsInTime == err # "obs late"

(* The process is gone shutdownTimeout after the signal, whatever the       *)
(* stage of the startup, the requests and the scrapes (main.go:47-48, 81).  *)
ExitsInTime == Alive => elapsed <= ShutdownTimeout

(* A signal ends the process.                                               *)
ExitsAfterSignal == signalled ~> ~ Alive

(* main_test.go:88-89: "A failed listener has to reach run's caller rather  *)
(* than being lost in the goroutine that serves it."  Here: once the        *)
(* service was up.                                                          *)
ObsFailureReachesCaller == ~ Alive /\ ready /\ obs = "failed" => err = "obs"
=============================================================================
