-------------------------- MODULE LifecycleProofs --------------------------
(***************************************************************************)
(* Proofs about Lifecycle, for any number of requests and any timeouts     *)
(* with ObsGrace < ObsTimeout and ObsGrace <= ShutdownTimeout.             *)
(***************************************************************************)
EXTENDS Lifecycle, TLAPS

USE ConstantsAssumption

\* What is started in which order.
Order ==
    /\ pc \in {"docker", "redis"} => listener = "off" /\ ~ ready
    /\ listener = "off" => serving = {}
    /\ pc \in {"build", "select"} \/ listener # "off" \/ ready => connected
    /\ pc = "build" => listener = "off"

\* What is stopped in which order.
Stop ==
    /\ pc \notin {"cleanup", "exited"} => err = "none"
    /\ pc \in {"shutdown", "obs"} => signalled
    /\ pc \in {"shutdown", "obs"} => listener \in {"closed", "failed"}
    /\ pc = "obs" => serving = {}
    /\ pc = "cleanup" /\ err \in {"none", "obs", "obs late"}
          => serving = {} /\ listener \in {"closed", "failed"}
    /\ pc = "cleanup" => err \notin {"docker", "canceled"}
    /\ pc = "cleanup" /\ err = "listen" => listener = "failed"
    /\ pc = "cleanup" /\ err = "drain"
          => signalled /\ listener \in {"closed", "failed"}
    /\ pc = "cleanup" /\ err = "cert" => serving = {} /\ listener = "off"

\* How the timers relate.
Time ==
    /\ ~ signalled => elapsed = 0
    /\ pc \in {"docker", "redis", "build", "select"} => elapsed = 0
    /\ pc = "shutdown" => elapsed + timer = ShutdownTimeout
    /\ pc = "cleanup" /\ err = "drain" => elapsed = ShutdownTimeout
    /\ Alive => elapsed <= ShutdownTimeout
    /\ signalled /\ Alive /\ obs \in {"start", "disabled", "up", "broken"}
          => elapsed = 0
    /\ Alive /\ obs = "stopping" => elapsed + grace = ObsGrace
    /\ obs = "stopping" => signalled

\* The wait for obs ends before its timer does.
Wait ==
    /\ pc = "obs" /\ obs = "stopping" => grace < timer
    /\ pc = "obs" /\ obs \in {"start", "disabled", "up", "broken"}
          => timer = ObsTimeout
    /\ pc = "obs" => timer > 0
    /\ err # "obs late"

Inv == TypeOK /\ Order /\ Stop /\ Time /\ Wait

LEMMA Sums ==
    /\ {ShutdownTimeout, ObsTimeout, ObsGrace} \subseteq 
          0 .. ShutdownTimeout + ObsTimeout
    /\ 0 \in 0 .. ShutdownTimeout + ObsTimeout
    /\ 0 \in 0 .. ObsGrace /\ ObsGrace \in 0 .. ObsGrace
    /\ 0 \in 0 .. ShutdownTimeout + 1
OBVIOUS

LEMMA Numbers ==
    /\ ShutdownTimeout \in Nat /\ ObsTimeout \in Nat /\ ObsGrace \in Nat
    /\ ShutdownTimeout > 0 /\ ObsTimeout > 0 /\ ObsGrace > 0
    /\ ObsGrace < ObsTimeout /\ ObsGrace <= ShutdownTimeout
OBVIOUS

LEMMA InvInit == Init => Inv
<1> SUFFICES ASSUME Init
             PROVE  Inv
  OBVIOUS
<1>1. TypeOK
  BY Sums DEF Init, TypeOK, Errors
<1>2. Order /\ Stop
  BY DEF Init, Order, Stop
<1>3. Time /\ Wait
  BY DEF Init, Time, Wait, Alive
<1> QED
  BY <1>1, <1>2, <1>3 DEF Inv

LEMMA TypedNext == TypeOK /\ [Next]_vars => TypeOK'
<1> SUFFICES ASSUME TypeOK, [Next]_vars
             PROVE  TypeOK'
  OBVIOUS
<1> USE DEF mainVars, obsVars
<1>1. CASE MainStep
  BY <1>1, Sums DEF MainStep, OpenDocker, Pinged, PingCancelled, Build,
     BuildFails, ListenerFailed, BeginShutdown, Drained, DrainTimeout,
     WaitForObs, ObsStatus, Cleanup, Return, TypeOK, Errors
<1>2. CASE Listen \/ AcceptFails \/ \E h \in Handler : Serve(h) \/ Answer(h)
  BY <1>2 DEF Listen, AcceptFails, Serve, Answer, TypeOK
<1>3. CASE \/ ObsStart \/ Scrape \/ ObsServeFails \/ ObsReturnsError
           \/ ObsStopping \/ ObsStopped
  BY <1>3, Sums DEF ObsStart, Scrape, ObsServeFails, ObsReturnsError,
     ObsStopping, ObsStopped, TypeOK
<1>4. CASE Signal
  BY <1>4 DEF Signal, TypeOK
<1>5. CASE Tick
  BY <1>5 DEF Tick, TypeOK, Less
<1>6. CASE UNCHANGED vars
  BY <1>6 DEF vars, TypeOK
<1> QED
  BY <1>1, <1>2, <1>3, <1>4, <1>5, <1>6 DEF Next, Exited

LEMMA OrderNext == Order /\ [Next]_vars => Order'
<1> SUFFICES ASSUME Order, [Next]_vars
             PROVE  Order'
  OBVIOUS
<1> USE DEF mainVars, obsVars
<1>1. CASE MainStep
  <2>1. CASE OpenDocker
    BY <2>1 DEF OpenDocker, Return, Order
  <2>2. CASE Pinged
    BY <2>2 DEF Pinged, Return, Order
  <2>3. CASE PingCancelled
    BY <2>3 DEF PingCancelled, Return, Order
  <2>4. CASE Build
    BY <2>4 DEF Build, Return, Order
  <2>5. CASE BuildFails
    BY <2>5 DEF BuildFails, Return, Order
  <2>6. CASE ListenerFailed
    BY <2>6 DEF ListenerFailed, Return, Order
  <2>7. CASE BeginShutdown
    BY <2>7 DEF BeginShutdown, Return, Order
  <2>8. CASE Drained
    BY <2>8 DEF Drained, Return, Order
  <2>9. CASE DrainTimeout
    BY <2>9 DEF DrainTimeout, Return, Order
  <2>10. CASE WaitForObs
    BY <2>10 DEF WaitForObs, ObsStatus, Return, Order
  <2>11. CASE Cleanup
    BY <2>11 DEF Cleanup, Return, Order
  <2> QED
    BY <1>1, <2>1, <2>2, <2>3, <2>4, <2>5, <2>6,
       <2>7, <2>8, <2>9, <2>10, <2>11 DEF MainStep
<1>2. CASE Listen \/ AcceptFails \/ \E h \in Handler : Serve(h) \/ Answer(h)
  BY <1>2 DEF Listen, AcceptFails, Serve, Answer, Order
<1>3. CASE \/ ObsStart \/ Scrape \/ ObsServeFails \/ ObsReturnsError
           \/ ObsStopping \/ ObsStopped
  BY <1>3 DEF ObsStart, Scrape, ObsServeFails, ObsReturnsError,
     ObsStopping, ObsStopped, Order
<1>4. CASE Signal \/ Tick \/ UNCHANGED vars
  BY <1>4 DEF Signal, Tick, vars, Order
<1> QED
  BY <1>1, <1>2, <1>3, <1>4 DEF Next, Exited

LEMMA StopNext == Order /\ Stop /\ [Next]_vars => Stop'
<1> SUFFICES ASSUME Order, Stop, [Next]_vars
             PROVE  Stop'
  OBVIOUS
<1> USE DEF mainVars, obsVars
<1>1. CASE MainStep
  <2>1. CASE OpenDocker
    BY <2>1 DEF OpenDocker, Return, Stop
  <2>2. CASE Pinged
    BY <2>2 DEF Pinged, Return, Stop
  <2>3. CASE PingCancelled
    BY <2>3 DEF PingCancelled, Return, Stop
  <2>4. CASE Build
    BY <2>4 DEF Build, Return, Stop
  <2>5. CASE BuildFails
    BY <2>5 DEF BuildFails, Return, Order, Stop
  <2>6. CASE ListenerFailed
    BY <2>6 DEF ListenerFailed, Return, Stop
  <2>7. CASE BeginShutdown
    BY <2>7 DEF BeginShutdown, Return, Stop
  <2>8. CASE Drained
    BY <2>8 DEF Drained, Return, Stop
  <2>9. CASE DrainTimeout
    BY <2>9 DEF DrainTimeout, Return, Stop
  <2>10. CASE WaitForObs
    BY <2>10 DEF WaitForObs, ObsStatus, Return, Stop
  <2>11. CASE Cleanup
    BY <2>11 DEF Cleanup, Return, Stop
  <2> QED
    BY <1>1, <2>1, <2>2, <2>3, <2>4, <2>5, <2>6,
       <2>7, <2>8, <2>9, <2>10, <2>11 DEF MainStep
<1>2. CASE Listen \/ AcceptFails \/ \E h \in Handler : Serve(h) \/ Answer(h)
  BY <1>2 DEF Listen, AcceptFails, Serve, Answer, Stop
<1>3. CASE \/ ObsStart \/ Scrape \/ ObsServeFails \/ ObsReturnsError
           \/ ObsStopping \/ ObsStopped
  BY <1>3 DEF ObsStart, Scrape, ObsServeFails, ObsReturnsError,
     ObsStopping, ObsStopped, Stop
<1>4. CASE Signal \/ Tick \/ UNCHANGED vars
  BY <1>4 DEF Signal, Tick, vars, Stop
<1> QED
  BY <1>1, <1>2, <1>3, <1>4 DEF Next, Exited

LEMMA TimeNext == TypeOK /\ Stop /\ Time /\ [Next]_vars => Time'
<1> SUFFICES ASSUME TypeOK, Stop, Time, [Next]_vars
             PROVE  Time'
  OBVIOUS
<1> USE DEF mainVars, obsVars, Alive
<1>1. CASE MainStep
  <2>1. CASE OpenDocker
    BY <2>1 DEF OpenDocker, Return, Time, TypeOK
  <2>2. CASE Pinged
    BY <2>2 DEF Pinged, Return, Time, TypeOK
  <2>3. CASE PingCancelled
    BY <2>3 DEF PingCancelled, Return, Time, TypeOK
  <2>4. CASE Build
    BY <2>4 DEF Build, Return, Time, TypeOK
  <2>5. CASE BuildFails
    BY <2>5 DEF BuildFails, Return, Time, TypeOK
  <2>6. CASE ListenerFailed
    BY <2>6 DEF ListenerFailed, Return, Time, TypeOK
  <2>7. CASE BeginShutdown
    BY <2>7 DEF BeginShutdown, Return, Time, TypeOK
  <2>8. CASE Drained
    BY <2>8 DEF Drained, Return, Time, TypeOK
  <2>9. CASE DrainTimeout
    BY <2>9 DEF DrainTimeout, Return, Time, TypeOK
  <2>10. CASE WaitForObs
    BY <2>10 DEF WaitForObs, ObsStatus, Return, Time, TypeOK
  <2>11. CASE Cleanup
    BY <2>11 DEF Cleanup, Return, Time, TypeOK
  <2> QED
    BY <1>1, <2>1, <2>2, <2>3, <2>4, <2>5, <2>6,
       <2>7, <2>8, <2>9, <2>10, <2>11 DEF MainStep
<1>2. CASE Listen \/ AcceptFails \/ \E h \in Handler : Serve(h) \/ Answer(h)
  BY <1>2 DEF Listen, AcceptFails, Serve, Answer, Time
<1>3. CASE \/ ObsStart \/ Scrape \/ ObsServeFails \/ ObsReturnsError
           \/ ObsStopping \/ ObsStopped
  BY <1>3 DEF ObsStart, Scrape, ObsServeFails, ObsReturnsError,
     ObsStopping, ObsStopped, Time, TypeOK
<1>4. CASE Signal \/ UNCHANGED vars
  BY <1>4 DEF Signal, vars, Time
<1>5. CASE Tick
  <2>1. /\ ~ Prompt /\ timer' = Less(timer) /\ grace' = Less(grace)
        /\ elapsed' = IF signalled /\ elapsed <= ShutdownTimeout
                      THEN elapsed + 1 ELSE elapsed
        /\ UNCHANGED <<pc, err, signalled, serving, obs, scrape>>
    BY <1>5 DEF Tick
  <2>2. CASE ~ signalled
    BY <2>1, <2>2 DEF Time, Stop
  <2>3. CASE signalled
    <3>1. /\ pc \notin {"docker", "redis", "build", "select"}
          /\ obs \notin {"start", "disabled", "up", "broken"}
      BY <2>1, <2>3 DEF Prompt
    <3>2. /\ pc = "shutdown" => timer > 0 /\ timer' = timer - 1
          /\ pc = "obs" => obs = "stopping"
          /\ obs = "stopping" => grace > 0 /\ grace' = grace - 1
      BY <2>1, <2>3, Numbers DEF Prompt, TypeOK, Less
    <3>3. pc \in {"shutdown", "obs", "exited"}
      BY <2>1, <3>1 DEF Prompt, TypeOK
    <3> QED
      BY <2>1, <2>3, <3>1, <3>2, <3>3 DEF Time, TypeOK
  <2> QED
    BY <2>2, <2>3
<1> QED
  BY <1>1, <1>2, <1>3, <1>4, <1>5 DEF Next, Exited

LEMMA WaitNext == TypeOK /\ Stop /\ Time /\ Wait /\ [Next]_vars => Wait'
<1> SUFFICES ASSUME TypeOK, Stop, Time, Wait, [Next]_vars
             PROVE  Wait'
  OBVIOUS
<1> USE DEF mainVars, obsVars, Alive
<1>1. CASE MainStep
  <2>1. CASE OpenDocker
    BY <2>1 DEF OpenDocker, Return, Wait, TypeOK
  <2>2. CASE Pinged
    BY <2>2 DEF Pinged, Return, Wait, TypeOK
  <2>3. CASE PingCancelled
    BY <2>3 DEF PingCancelled, Return, Wait, TypeOK
  <2>4. CASE Build
    BY <2>4 DEF Build, Return, Wait, TypeOK
  <2>5. CASE BuildFails
    BY <2>5 DEF BuildFails, Return, Wait, TypeOK
  <2>6. CASE ListenerFailed
    BY <2>6 DEF ListenerFailed, Return, Wait, TypeOK
  <2>7. CASE BeginShutdown
    BY <2>7 DEF BeginShutdown, Return, Wait, TypeOK
  <2>8. CASE Drained
    <3>1. pc' = "obs" /\ timer' = ObsTimeout /\ UNCHANGED <<err, obs, grace>>
      BY <2>8 DEF Drained
    <3>2. grace \in 0 .. ObsGrace
      BY DEF TypeOK
    <3>3. grace' < timer' /\ timer' > 0
      BY <3>1, <3>2, Numbers
    <3>4. err' # "obs late"
      BY <3>1 DEF Wait
    <3> QED
      BY <3>1, <3>3, <3>4 DEF Wait
  <2>9. CASE DrainTimeout
    BY <2>9 DEF DrainTimeout, Return, Wait, TypeOK
  <2>10. CASE WaitForObs
    <3>1. timer # 0
      <4>1. pc = "obs"
        BY <2>10 DEF WaitForObs
      <4>2. timer > 0
        BY <4>1 DEF Wait
      <4>3. timer \in 0 .. ShutdownTimeout + ObsTimeout
        BY DEF TypeOK
      <4> QED
        BY <4>2, <4>3, Numbers
    <3>2. pc' = "cleanup" /\ err' # "obs late"
      BY <2>10, <3>1 DEF WaitForObs, ObsStatus, Return
    <3> QED
      BY <3>2 DEF Wait
  <2>11. CASE Cleanup
    BY <2>11 DEF Cleanup, Return, Wait, TypeOK
  <2> QED
    BY <1>1, <2>1, <2>2, <2>3, <2>4, <2>5, <2>6,
       <2>7, <2>8, <2>9, <2>10, <2>11 DEF MainStep
<1>2. CASE Listen \/ AcceptFails \/ \E h \in Handler : Serve(h) \/ Answer(h)
  BY <1>2 DEF Listen, AcceptFails, Serve, Answer, Wait
<1>3. CASE \/ ObsStart \/ Scrape \/ ObsServeFails \/ ObsReturnsError
           \/ ObsStopping \/ ObsStopped
  BY <1>3 DEF ObsStart, Scrape, ObsServeFails, ObsReturnsError,
     ObsStopping, ObsStopped, Wait, TypeOK
<1>4. CASE Signal \/ UNCHANGED vars
  BY <1>4 DEF Signal, vars, Wait
<1>5. CASE Tick
  <2>1. /\ ~ Prompt /\ timer' = Less(timer) /\ grace' = Less(grace)
        /\ UNCHANGED <<pc, err, obs>>
    BY <1>5 DEF Tick
  <2>2. pc = "obs" => /\ obs = "stopping"
                      /\ timer' = timer - 1 /\ grace' = grace - 1
                      /\ grace > 0
    BY <2>1, Numbers DEF Prompt, TypeOK, Less, Wait, Stop
  <2>3. timer \in Nat /\ grace \in Nat
    BY Numbers DEF TypeOK
  <2>4. pc = "obs" => grace < timer
    BY <2>2 DEF Wait
  <2>5. pc' = "obs" => grace' < timer' /\ timer' > 0 /\ obs' = "stopping"
    BY <2>1, <2>2, <2>3, <2>4
  <2>6. err' # "obs late"
    BY <2>1 DEF Wait
  <2> QED
    BY <2>5, <2>6 DEF Wait
<1> QED
  BY <1>1, <1>2, <1>3, <1>4, <1>5 DEF Next, Exited

LEMMA InvAlways == Spec => []Inv
<1>1. Inv /\ [Next]_vars => Inv'
  BY TypedNext, OrderNext, StopNext, TimeNext, WaitNext DEF Inv
<1> QED
  BY InvInit, <1>1, PTL DEF Spec

(* Every variable keeps its type.                                          *)
THEOREM TypeCorrect == Spec => []TypeOK
<1>1. Inv => TypeOK
  BY DEF Inv
<1> QED
  BY <1>1, InvAlways, PTL

(* No request is accepted before Redis has answered (main.go:183-184).     *)
THEOREM ServesOnlyConnected == Spec => []ServesConnected
<1>1. Inv => ServesConnected
  BY DEF Inv, Order, ServesConnected
<1> QED
  BY <1>1, InvAlways, PTL

(* The clients are closed under a request only after a whole shutdownTimeout *)
(* or after the listener has failed (main.go:137-149).                      *)
THEOREM DrainsBeforeClosing == Spec => DrainedBeforeClosed
<1>1. Inv /\ [Next]_vars =>
        [Cleanup /\ serving # {} =>
           \/ err = "drain" /\ signalled /\ elapsed = ShutdownTimeout
           \/ err = "listen" /\ listener = "failed"]_vars
  BY DEF Inv, TypeOK, Errors, Stop, Time, Cleanup
<1> QED
  BY <1>1, InvAlways, PTL DEF Spec, DrainedBeforeClosed

(* obs.Run always returns before waitForObs gives up (main.go:279-286).    *)
THEOREM ObsIsInTime == Spec => []ObsInTime
<1>1. Inv => ObsInTime
  BY DEF Inv, Wait, ObsInTime
<1> QED
  BY <1>1, InvAlways, PTL

(* A signal is obeyed within shutdownTimeout, the wait for obs included    *)
(* (main.go:140-150).                                                      *)
THEOREM ExitIsInTime == Spec => []ExitsInTime
<1>1. Inv => ExitsInTime
  BY DEF Inv, Time, ExitsInTime
<1> QED
  BY <1>1, InvAlways, PTL

(* A return without an error has collected a status without an error, and   *)
(* the observability server does not go on after it.                        *)
Collected == pc \in {"cleanup", "exited"} /\ err = "none" => obs = "nil"

LEMMA CollectedNext == Collected /\ [Next]_vars => Collected'
<1> SUFFICES ASSUME Collected, [Next]_vars
             PROVE  Collected'
  OBVIOUS
<1> USE DEF mainVars, obsVars, Collected
<1>1. CASE MainStep
  <2>1. CASE WaitForObs
    BY <2>1 DEF WaitForObs, ObsStatus, Return
  <2>2. CASE OpenDocker \/ PingCancelled \/ BuildFails \/ ListenerFailed \/ DrainTimeout
    BY <2>2 DEF OpenDocker, PingCancelled, BuildFails, ListenerFailed, DrainTimeout, Return
  <2>3. CASE Pinged \/ Build \/ BeginShutdown \/ Drained \/ Cleanup
    BY <2>3 DEF Pinged, Build, BeginShutdown, Drained, Cleanup
  <2> QED
    BY <1>1, <2>1, <2>2, <2>3 DEF MainStep
<1>2. CASE Listen \/ AcceptFails \/ \E h \in Handler : Serve(h) \/ Answer(h)
  BY <1>2 DEF Listen, AcceptFails, Serve, Answer
<1>3. CASE \/ ObsStart \/ Scrape \/ ObsServeFails \/ ObsReturnsError
           \/ ObsStopping \/ ObsStopped
  BY <1>3 DEF ObsStart, Scrape, ObsServeFails, ObsReturnsError,
     ObsStopping, ObsStopped, Alive
<1>4. CASE Signal \/ Tick \/ UNCHANGED vars
  BY <1>4 DEF Signal, Tick, vars
<1> QED
  BY <1>1, <1>2, <1>3, <1>4 DEF Next, Exited

(* Exit status 0 means that binding the metrics endpoint has not failed     *)
(* (main.go:278-287).                                                       *)
THEOREM CleanExitIsBound == Spec => []CleanExitMeansBound
<1>1. Init => Collected
  BY DEF Init, Collected
<1>2. TypeOK /\ Collected => CleanExitMeansBound
  BY DEF Collected, CleanExitMeansBound, Alive, TypeOK
<1> QED
  BY <1>1, <1>2, CollectedNext, TypeCorrect, PTL DEF Spec
=============================================================================
