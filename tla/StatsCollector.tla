--------------------------- MODULE StatsCollector --------------------------
(***************************************************************************)
(* internal/stats/collector.go: the cache of host and container statistics *)
(* in Redis, filled on demand by one collection per key, with              *)
(* stats_handlers.go, which serves it, and store.go, which reaches Redis.  *)
(*                                                                         *)
(* Two kinds of processes: the requests (the handler's goroutine, in       *)
(* cachedOrRefresh) and the collections (the goroutine startRefresh        *)
(* spawns).  A collection is known by its *refresh, a member of Refresh: a *)
(* finite heap in which a cell is free once its goroutine has ended and no *)
(* request holds it.                                                       *)
(*                                                                         *)
(* Time is counted in ticks.  A timer of the process only says when it may *)
(* fire: nothing bounds how long a goroutine waits for the processor, for  *)
(* Docker or for Redis.  Redis expires a key exactly when its TTL is over. *)
(*                                                                         *)
(* Docker and Redis may fail at any call; Redis may also apply a SET whose *)
(* answer is lost.  A restart loses the process and keeps Redis.           *)
(***************************************************************************)
EXTENDS StatsBuffer

CONSTANTS
    Key,             \* the cache keys: "host_stats" and "<id>_stats"
    HostKey,         \* those of them that hold the host's figures
    Request,         \* the slots for concurrent requests
    Refresh,         \* the heap of refresh cells
    None,            \* no key, no cell
    HostTTL,         \* HostStatsTTL, in ticks
    ContainerTTL,    \* ContainerStatsTTL, in ticks
    Timeout,         \* Options.Timeout, the wait of a request, in ticks
    RefreshInterval, \* the pause between the two measurements, in ticks
    Budget,          \* refreshInterval + time.Minute, in ticks
    SampleCap        \* bound: Docker takes at most this many samples

ASSUME ConstantsAssumption ==
    /\ HostKey \subseteq Key
    /\ None \notin Key \cup Refresh
    /\ {HostTTL, ContainerTTL, Timeout, RefreshInterval} \subseteq Nat \ {0}
    /\ Budget \in Nat /\ Budget > RefreshInterval
    /\ SampleCap \in Nat

VARIABLES
    cache,     \* Redis: the buffer under each key
    ttl,       \* Redis: the ticks until it expires
    kept,      \* history: the buffer last written under each key
    taken,     \* Docker: how many samples have been taken
    inflight,  \* Collector.inflight
    refresh,   \* the refresh cells, with the locals of their goroutines
    request    \* the locals of each request

vars == <<cache, ttl, kept, taken, inflight, refresh, request>>

Steps == {"dead", "sample", "load", "store", "close", "pause", "forget"}
Errors == {"none", "docker", "store"}
Replies == {"none", "cached", "waited", "timeout", "cancelled", "cause",
            "store", "reset"}

TTL(k) == IF k \in HostKey THEN HostTTL ELSE ContainerTTL

\* type refresh, and the locals of the goroutine that fills it.
Cell == [step: Steps, round: {1, 2}, key: Key \cup {None}, done: BOOLEAN,
         err: Errors, sample: Nat, loaded: Buffer, wake: Nat, budget: Nat]

\* The locals of cachedOrRefresh, and what the handler answered last.
Locals == [pc: {"idle", "get", "start", "wait", "reget"},
           key: Key \cup {None}, ref: Refresh \cup {None},
           gone: BOOLEAN, timer: Nat, reply: Replies]

TypeOK ==
    /\ cache \in [Key -> Buffer]
    /\ ttl \in [Key -> Nat]
    /\ kept \in [Key -> Buffer]
    /\ taken \in Nat
    /\ inflight \in [Key -> Refresh \cup {None}]
    /\ refresh \in [Refresh -> Cell]
    /\ request \in [Request -> Locals]

Unborn == [step |-> "dead", round |-> 1, key |-> None, done |-> FALSE,
           err |-> "none", sample |-> 0, loaded |-> Absent,
           wake |-> 0, budget |-> 0]

Idle(reply) == [pc |-> "idle", key |-> None, ref |-> None, gone |-> FALSE,
                timer |-> 0, reply |-> reply]

Init ==
    /\ cache = [k \in Key |-> Absent]
    /\ ttl = [k \in Key |-> 0]
    /\ kept = [k \in Key |-> Absent]
    /\ taken = 0
    /\ inflight = [k \in Key |-> None]
    /\ refresh = [r \in Refresh |-> Unborn]
    /\ request = [q \in Request |-> Idle("none")]

-----------------------------------------------------------------------------
(* A request: cachedOrRefresh, called by handleHostStats and               *)
(* handleContainerStats.                                                   *)

Arrive(q, k) ==
    /\ request[q].pc = "idle"
    /\ request' = [request EXCEPT ![q] =
          [Idle("none") EXCEPT !.pc = "get", !.key = k]]
    /\ UNCHANGED <<cache, ttl, kept, taken, inflight, refresh>>

\* The client hangs up: the context of the request is cancelled.
HangUp(q) ==
    /\ request[q].pc # "idle"
    /\ request' = [request EXCEPT ![q] = [@ EXCEPT !.gone = TRUE]]
    /\ UNCHANGED <<cache, ttl, kept, taken, inflight, refresh>>

Answer(q, reply) ==
    /\ request' = [request EXCEPT ![q] = Idle(reply)]
    /\ UNCHANGED <<cache, ttl, kept, taken, inflight, refresh>>

GetHit(q) ==
    /\ request[q].pc = "get"
    /\ cache[request[q].key] # Absent
    /\ Answer(q, "cached")

\* A GET that fails counts as a miss, whatever the key holds.
GetMiss(q) ==
    /\ request[q].pc = "get"
    /\ request' = [request EXCEPT ![q] = [@ EXCEPT !.pc = "start"]]
    /\ UNCHANGED <<cache, ttl, kept, taken, inflight, refresh>>

Wait(q, r) ==
    request' = [request EXCEPT ![q] =
        [@ EXCEPT !.pc = "wait", !.ref = r, !.timer = Timeout]]

Free(r) ==
    /\ refresh[r].step = "dead"
    /\ \A q \in Request : request[q].ref # r

\* startRefresh, under the lock: join the collection that is in the map ...
JoinRefresh(q) ==
    /\ request[q].pc = "start"
    /\ inflight[request[q].key] # None
    /\ Wait(q, inflight[request[q].key])
    /\ UNCHANGED <<cache, ttl, kept, taken, inflight, refresh>>

\* Variant: the map is written without having been looked up.
StartRefreshUnchecked(q, r) ==
    /\ request[q].pc = "start"
    /\ Free(r)
    /\ inflight' = [inflight EXCEPT ![request[q].key] = r]
    /\ refresh' = [refresh EXCEPT ![r] =
          [Unborn EXCEPT !.step = "sample", !.key = request[q].key,
                         !.budget = Budget]]
    /\ Wait(q, r)
    /\ UNCHANGED <<cache, ttl, kept, taken>>

\* ... or put a new one there and spawn its goroutine.
StartRefresh(q, r) ==
    /\ request[q].pc = "start"
    /\ inflight[request[q].key] = None
    /\ Free(r)
    /\ inflight' = [inflight EXCEPT ![request[q].key] = r]
    /\ refresh' = [refresh EXCEPT ![r] =
          [Unborn EXCEPT !.step = "sample", !.key = request[q].key,
                         !.budget = Budget]]
    /\ Wait(q, r)
    /\ UNCHANGED <<cache, ttl, kept, taken>>

DoneClosed(q) ==
    /\ request[q].pc = "wait"
    /\ refresh[request[q].ref].done
    /\ request' = [request EXCEPT ![q] = [@ EXCEPT !.pc = "reget"]]
    /\ UNCHANGED <<cache, ttl, kept, taken, inflight, refresh>>

Cancelled(q) ==
    /\ request[q].pc = "wait"
    /\ request[q].gone
    /\ Answer(q, "cancelled")

\* Variant: the select has no timer, as the original had none.
TimedOutNever(q) == FALSE

TimedOut(q) ==
    /\ request[q].pc = "wait"
    /\ request[q].timer = 0
    /\ Answer(q, "timeout")

RegetFails(q) ==
    /\ request[q].pc = "reget"
    /\ Answer(q, "store")

RegetHit(q) ==
    /\ request[q].pc = "reget"
    /\ cache[request[q].key] # Absent
    /\ Answer(q, "waited")

\* No value: the cause if the collection left one, else ErrTimeout.
RegetMiss(q) ==
    /\ request[q].pc = "reget"
    /\ cache[request[q].key] = Absent
    /\ Answer(q, IF refresh[request[q].ref].err # "none"
                 THEN "cause" ELSE "timeout")

-----------------------------------------------------------------------------
(* A collection: the goroutine of startRefresh, running refreshHost or     *)
(* refreshContainer twice.                                                 *)

Sampled(r) ==
    /\ refresh[r].step = "sample"
    /\ taken < SampleCap
    /\ taken' = taken + 1
    /\ refresh' = [refresh EXCEPT ![r] = [@ EXCEPT
          !.sample = taken + 1,
          !.step = IF refresh[r].key \in HostKey THEN "store" ELSE "load"]]
    /\ UNCHANGED <<cache, ttl, kept, inflight, request>>

\* Variant: r.err is set by the second measurement too.
CollectedErrTwice(r, err) ==
    refresh' = [refresh EXCEPT ![r] = [@ EXCEPT
        !.step = IF refresh[r].round = 1 THEN "close" ELSE "forget",
        !.err = err,
        !.sample = 0,
        !.loaded = Absent]]

\* Variant: the error is logged and not kept.
CollectedErrDropped(r, err) ==
    refresh' = [refresh EXCEPT ![r] = [@ EXCEPT
        !.step = IF refresh[r].round = 1 THEN "close" ELSE "forget",
        !.sample = 0,
        !.loaded = Absent]]

\* Variant: a failed measurement ends the goroutine before it closes done.
CollectedNoClose(r, err) ==
    refresh' = [refresh EXCEPT ![r] = [@ EXCEPT
        !.step = IF refresh[r].round = 1 /\ err = "none"
                 THEN "close" ELSE "forget",
        !.err = IF refresh[r].round = 1 THEN err ELSE refresh[r].err,
        !.sample = 0,
        !.loaded = Absent]]

\* collect has returned.  Only the first measurement's error is kept.
Collected(r, err) ==
    refresh' = [refresh EXCEPT ![r] = [@ EXCEPT
        !.step = IF refresh[r].round = 1 THEN "close" ELSE "forget",
        !.err = IF refresh[r].round = 1 THEN err ELSE refresh[r].err,
        !.sample = 0,
        !.loaded = Absent]]

\* Variant: the error is not returned and the empty sample is stored.
SampleFailsUnnoticed(r) ==
    /\ refresh[r].step = "sample"
    /\ refresh' = [refresh EXCEPT ![r] = [@ EXCEPT !.step = "store"]]
    /\ UNCHANGED <<cache, ttl, kept, taken, inflight, request>>

SampleFails(r) ==
    /\ refresh[r].step = "sample"
    /\ Collected(r, "docker")
    /\ UNCHANGED <<cache, ttl, kept, taken, inflight, request>>

\* loadSamples: a failed GET and an absent key give the same empty buffer.
Load(r) ==
    /\ refresh[r].step = "load"
    /\ \E samples \in {Absent, cache[refresh[r].key]} :
          refresh' = [refresh EXCEPT ![r] =
              [@ EXCEPT !.step = "store", !.loaded = samples]]
    /\ UNCHANGED <<cache, ttl, kept, taken, inflight, request>>

\* SET succeeds; its answer reaches the collection or is lost on the way.
Store(r) ==
    LET k       == refresh[r].key
        samples == Extend(refresh[r].loaded, refresh[r].sample)
    IN  /\ refresh[r].step = "store"
        /\ cache' = [cache EXCEPT ![k] = samples]
        /\ ttl' = [ttl EXCEPT ![k] = TTL(k)]
        /\ kept' = [kept EXCEPT ![k] = samples]
        /\ \E err \in {"none", "store"} : Collected(r, err)
        /\ UNCHANGED <<taken, inflight, request>>

StoreFails(r) ==
    /\ refresh[r].step = "store"
    /\ Collected(r, "store")
    /\ UNCHANGED <<cache, ttl, kept, taken, inflight, request>>

\* Variant: the map is cleared with the first measurement.
CloseDoneAndForget(r) ==
    /\ refresh[r].step = "close"
    /\ refresh' = [refresh EXCEPT ![r] =
          [@ EXCEPT !.step = "pause", !.done = TRUE, !.wake = RefreshInterval]]
    /\ inflight' = [inflight EXCEPT ![refresh[r].key] = None]
    /\ UNCHANGED <<cache, ttl, kept, taken, request>>

CloseDone(r) ==
    /\ refresh[r].step = "close"
    /\ refresh' = [refresh EXCEPT ![r] =
          [@ EXCEPT !.step = "pause", !.done = TRUE, !.wake = RefreshInterval]]
    /\ UNCHANGED <<cache, ttl, kept, taken, inflight, request>>

SecondMeasurement(r) ==
    /\ refresh[r].step = "pause"
    /\ refresh[r].wake = 0
    /\ refresh' = [refresh EXCEPT ![r] =
          [@ EXCEPT !.step = "sample", !.round = 2]]
    /\ UNCHANGED <<cache, ttl, kept, taken, inflight, request>>

BudgetSpent(r) ==
    /\ refresh[r].step = "pause"
    /\ refresh[r].budget = 0
    /\ refresh' = [refresh EXCEPT ![r] = [@ EXCEPT !.step = "forget"]]
    /\ UNCHANGED <<cache, ttl, kept, taken, inflight, request>>

\* Variant: the cell stays in the map.
ForgetNothing(r) ==
    /\ refresh[r].step = "forget"
    /\ refresh' = [refresh EXCEPT ![r] =
          [@ EXCEPT !.step = "dead", !.wake = 0, !.budget = 0]]
    /\ UNCHANGED <<cache, ttl, kept, taken, inflight, request>>

Forget(r) ==
    /\ refresh[r].step = "forget"
    /\ inflight' = [inflight EXCEPT ![refresh[r].key] = None]
    /\ refresh' = [refresh EXCEPT ![r] =
          [@ EXCEPT !.step = "dead", !.wake = 0, !.budget = 0]]
    /\ UNCHANGED <<cache, ttl, kept, taken, request>>

-----------------------------------------------------------------------------
(* The environment: time and restarts.                                     *)

Decrement(n) == IF n = 0 THEN 0 ELSE n - 1

Tick ==
    /\ ttl' = [k \in Key |-> Decrement(ttl[k])]
    /\ cache' = [k \in Key |-> IF ttl[k] <= 1 THEN Absent ELSE cache[k]]
    /\ refresh' = [r \in Refresh |->
          [refresh[r] EXCEPT !.wake = Decrement(@), !.budget = Decrement(@)]]
    /\ request' = [q \in Request |->
          [request[q] EXCEPT !.timer = Decrement(@)]]
    /\ UNCHANGED <<kept, taken, inflight>>

Restart ==
    /\ inflight' = [k \in Key |-> None]
    /\ refresh' = [r \in Refresh |-> Unborn]
    /\ request' = [q \in Request |->
          IF request[q].pc = "idle" THEN request[q] ELSE Idle("reset")]
    /\ UNCHANGED <<cache, ttl, kept, taken>>

-----------------------------------------------------------------------------
RequestStep(q) ==
    \/ GetHit(q) \/ GetMiss(q)
    \/ JoinRefresh(q) \/ \E r \in Refresh : StartRefresh(q, r)
    \/ DoneClosed(q) \/ Cancelled(q) \/ TimedOut(q)
    \/ RegetFails(q) \/ RegetHit(q) \/ RegetMiss(q)

RefreshStep(r) ==
    \/ Sampled(r) \/ SampleFails(r) \/ Load(r) \/ Store(r) \/ StoreFails(r)
    \/ CloseDone(r) \/ SecondMeasurement(r) \/ BudgetSpent(r) \/ Forget(r)

Next ==
    \/ \E q \in Request, k \in Key : Arrive(q, k)
    \/ \E q \in Request : HangUp(q) \/ RequestStep(q)
    \/ \E r \in Refresh : RefreshStep(r)
    \/ Tick
    \/ Restart

Spec == Init /\ [][Next]_vars

(* Fairness.  Go schedules every goroutine and Redis calls come back (the   *)
(* client has its own timeouts), so each step that is possible is taken in *)
(* the end.  Docker may hang: its answer is not assumed, only that a call  *)
(* returns once the context's budget is spent.                             *)

RequestFairness ==
    /\ WF_vars(Tick)
    /\ \A q \in Request : WF_vars(RequestStep(q))

SampleGivesUp(r) == refresh[r].budget = 0 /\ SampleFails(r)

RefreshFairness ==
    \A r \in Refresh :
        WF_vars(\/ SampleGivesUp(r) \/ Load(r) \/ Store(r) \/ StoreFails(r)
                \/ CloseDone(r) \/ SecondMeasurement(r) \/ BudgetSpent(r)
                \/ Forget(r))

FairRequests == Spec /\ RequestFairness

-----------------------------------------------------------------------------
(* Properties                                                              *)

\* "Several concurrent requests for the same values trigger only one
\* collection": a goroutine is alive exactly while the map names its cell, so
\* no key has two, and none is left in the map after its end.
SingleFlight ==
    /\ \A r \in Refresh : refresh[r].step # "dead" =>
          refresh[r].key \in Key /\ inflight[refresh[r].key] = r
    /\ \A k \in Key : inflight[k] # None =>
          refresh[inflight[k]].step # "dead" /\ refresh[inflight[k]].key = k

\* refreshContainer reads the buffer and writes it back without a lock or a
\* Redis transaction.  Between the two nobody else may write the key: what it
\* has loaded is nothing or what was last written, and the sample in its hand
\* is newer than all of that.
NoLostUpdate ==
    \A r \in Refresh : refresh[r].step \in {"load", "store"} =>
        /\ refresh[r].loaded \in {Absent, kept[refresh[r].key]}
        /\ refresh[r].sample > Newest(kept[refresh[r].key])

\* The ring buffer a reader gets: at most MaxSamples samples, oldest first, no
\* sample twice, none that was not taken.
BufferOrdered ==
    \A k \in Key : /\ Len(cache[k]) <= MaxSamples
                   /\ Ascending(cache[k])
                   /\ Newest(cache[k]) <= taken

\* Nobody waits on a channel that will not be closed: the cell a request waits
\* for is of its key and is closed already, or it is the one in the map and
\* its goroutine is still in the first measurement.
WaiterIsReleased ==
    \A q \in Request : request[q].pc = "wait" =>
        LET r == request[q].ref
        IN  /\ refresh[r].key = request[q].key
            /\ \/ refresh[r].done
               \/ /\ inflight[request[q].key] = r
                  /\ refresh[r].round = 1
                  /\ refresh[r].step \in {"sample", "load", "store", "close"}

\* r.err is read without a lock, after done was closed.  From then on it may
\* not change as long as somebody holds the cell.
ErrSettled ==
    [][\A q \in Request :
          LET r == request[q].ref
          IN  (/\ request[q].pc \in {"wait", "reget"}
               /\ request'[q].ref = r
               /\ refresh[r].done)
              => refresh'[r].done /\ refresh'[r].err = refresh[r].err]_vars

\* A request that found its collection finished is told ErrTimeout, rather
\* than the cause, only when a value had been written and has expired since:
\* while a key has never been written the cause is not swallowed.
TimeoutOnlyAfterExpiry ==
    [][\A q \in Request :
          (request[q].pc = "reget" /\ request'[q].reply = "timeout")
          => kept[request[q].key] # Absent]_vars

\* Each request is answered, however long Docker takes: main.py:75 waited
\* without an end (collector.go:33).
EveryRequestAnswered ==
    \A q \in Request : request[q].pc # "idle" ~> request[q].pc = "idle"

\* No collection blocks its key for ever, provided that its calls return once
\* its context is over: inflight is emptied again.
EveryCollectionEnds ==
    RefreshFairness => \A k \in Key : inflight[k] # None ~> inflight[k] = None

\* collector.go:31 says ErrTimeout "reports that no measurement arrived within
\* the deadline".  The weakest reading: at least some of the time a request
\* may wait has passed when it gets ErrTimeout.
TimeoutTakesTime ==
    [][\A q \in Request :
          (request[q].pc # "idle" /\ request'[q].reply = "timeout")
          => request[q].timer < Timeout]_vars

\* What a reply is to the caller: a value or an error.
Outcome(reply) ==
    IF reply \in {"cached", "waited"} THEN "value"
    ELSE IF reply = "none" THEN "none" ELSE "error"

\* The collector keeps StatsPromise: a collection of k runs while inflight
\* holds k, and a request is pending until it is idle again.
Promise == INSTANCE StatsPromise WITH
    running <- [k \in Key |-> inflight[k] # None],
    shown   <- cache,
    pending <- [q \in Request |-> request[q].key],
    reply   <- [q \in Request |-> Outcome(request[q].reply)]

PromiseKept == Promise!Spec
============================================================================
