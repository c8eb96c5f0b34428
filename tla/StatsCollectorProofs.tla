------------------------ MODULE StatsCollectorProofs -----------------------
(***************************************************************************)
(* Proofs about StatsCollector: its inductive invariant, and what follows. *)
(***************************************************************************)
EXTENDS StatsCollector, TLAPS

USE ConstantsAssumption, MaxSamplesAssumption

-----------------------------------------------------------------------------
(* The ring buffer.                                                        *)

\* Extend gives a buffer that is not empty, not too long, and ends in the new
\* sample.
LEMMA ExtendBuffer ==
    ASSUME NEW samples \in Buffer, NEW s \in Sample
    PROVE  /\ Extend(samples, s) \in Buffer
           /\ Extend(samples, s) # Absent
           /\ Len(Extend(samples, s)) \in 1 .. MaxSamples
           /\ Newest(Extend(samples, s)) = s
<1> DEFINE all == Append(samples, s)
           excess == IF Len(all) > MaxSamples THEN Len(all) - MaxSamples ELSE 0
           n == Len(all) - excess
<1>1. /\ all \in Buffer
      /\ Len(all) = Len(samples) + 1
      /\ all[Len(all)] = s
  BY DEF Buffer, Sample
<1>2. /\ excess \in Nat
      /\ n \in 1 .. MaxSamples
      /\ n + excess = Len(all)
  BY <1>1 DEF Buffer
<1>3. Extend(samples, s) = [i \in 1 .. n |-> all[i + excess]]
  BY DEF Extend
<1>4. \A i \in 1 .. n : all[i + excess] \in Sample
  BY <1>1, <1>2 DEF Buffer
<1> HIDE DEF all, excess, n
<1>5. Extend(samples, s) \in Buffer /\ Len(Extend(samples, s)) = n
  BY <1>2, <1>3, <1>4 DEF Buffer
<1>6. Extend(samples, s)[n] = s
  BY <1>1, <1>2, <1>3
<1> QED
  BY <1>2, <1>5, <1>6 DEF Newest, Absent, Buffer

\* Extend keeps the order when the new sample is the newest.
LEMMA ExtendAscending ==
    ASSUME NEW samples \in Buffer, NEW s \in Sample,
           Ascending(samples), s > Newest(samples)
    PROVE  Ascending(Extend(samples, s))
<1> DEFINE all == Append(samples, s)
           excess == IF Len(all) > MaxSamples THEN Len(all) - MaxSamples ELSE 0
           n == Len(all) - excess
<1>1. /\ all \in Buffer
      /\ Len(all) = Len(samples) + 1
      /\ all[Len(all)] = s
      /\ \A i \in 1 .. Len(samples) : all[i] = samples[i]
  BY DEF Buffer, Sample
<1>2. /\ excess \in Nat
      /\ n \in 1 .. MaxSamples
      /\ n + excess = Len(all)
  BY <1>1 DEF Buffer
<1>3. \A i \in 1 .. Len(samples) : samples[i] < s
  <2> SUFFICES ASSUME NEW i \in 1 .. Len(samples)
               PROVE  samples[i] < s
    OBVIOUS
  <2>1. Newest(samples) = samples[Len(samples)]
    BY DEF Newest, Absent, Buffer
  <2>2. /\ Len(samples) \in 1 .. Len(samples)
        /\ \A j \in 1 .. Len(samples) : samples[j] \in Nat
    BY DEF Buffer, Sample
  <2>3. i = Len(samples) \/ samples[i] < samples[Len(samples)]
    BY <2>2 DEF Ascending
  <2> QED
    BY <2>1, <2>2, <2>3 DEF Sample
<1>4. \A i, j \in 1 .. Len(all) : i < j => all[i] < all[j]
  <2> SUFFICES ASSUME NEW i \in 1 .. Len(all), NEW j \in 1 .. Len(all), i < j
               PROVE  all[i] < all[j]
    OBVIOUS
  <2>1. Len(samples) \in Nat
    BY DEF Buffer
  <2>2. i \in 1 .. Len(samples) /\ all[i] = samples[i]
    BY <1>1, <2>1
  <2>3. CASE j = Len(all)
    BY <1>1, <1>3, <2>2, <2>3
  <2>4. CASE j # Len(all)
    <3>1. j \in 1 .. Len(samples) /\ all[j] = samples[j]
      BY <1>1, <2>1, <2>4
    <3> QED
      BY <2>2, <3>1 DEF Ascending
  <2> QED
    BY <2>3, <2>4
<1>5. Extend(samples, s) = [i \in 1 .. n |-> all[i + excess]]
  BY DEF Extend
<1>6. Len(Extend(samples, s)) = n
  <2>1. \A i \in 1 .. n : all[i + excess] \in Sample
    BY <1>1, <1>2 DEF Buffer
  <2> HIDE DEF all, excess, n
  <2> QED
    BY <1>2, <1>5, <2>1
<1>7. \A i \in 1 .. n : Extend(samples, s)[i] = all[i + excess]
  BY <1>5
<1>8. \A i \in 1 .. n : i + excess \in 1 .. Len(all)
  BY <1>1, <1>2 DEF Buffer
<1> HIDE DEF all, excess, n
<1>9. SUFFICES ASSUME NEW i \in 1 .. n, NEW j \in 1 .. n, i < j
               PROVE  Extend(samples, s)[i] < Extend(samples, s)[j]
  BY <1>6 DEF Ascending
<1>10. i + excess < j + excess
  BY <1>2, <1>9
<1> QED
  BY <1>4, <1>7, <1>8, <1>10

-----------------------------------------------------------------------------
(* Types.                                                                  *)

\* What a live goroutine, and a request that is being served, need of their
\* own locals for a step to be well typed.
KeysKnown ==
    /\ \A r \in Refresh : refresh[r].step # "dead" => refresh[r].key \in Key
    /\ \A r \in Refresh : refresh[r].step = "store" => refresh[r].sample > 0
    /\ \A r \in Refresh : refresh[r].step = "load" => refresh[r].sample > 0
    /\ \A q \in Request : request[q].pc # "idle" => request[q].key \in Key
    /\ \A q \in Request :
          request[q].pc \in {"wait", "reget"} => request[q].ref \in Refresh

Typed == TypeOK /\ KeysKnown

LEMMA TypedInit == Init => Typed
BY DEF Init, Typed, TypeOK, KeysKnown, Unborn, Idle, Absent, Buffer, Sample,
       Steps, Errors, Replies, Cell, Locals

LEMMA UnbornCell == Unborn \in Cell
<1>1. Absent \in Buffer
  BY DEF Absent, Buffer
<1> QED
  BY <1>1 DEF Unborn, Cell, Steps, Errors

LEMMA IdleLocals ==
    ASSUME NEW reply \in Replies
    PROVE  Idle(reply) \in Locals /\ Idle(reply).pc = "idle"
BY DEF Idle, Locals

\* One request moves on and nothing else changes.
LEMMA TypedOneRequest ==
    ASSUME Typed, NEW q \in Request, NEW v \in Locals,
           request' = [request EXCEPT ![q] = v],
           v.pc # "idle" => v.key \in Key,
           v.pc \in {"wait", "reget"} => v.ref \in Refresh,
           UNCHANGED <<cache, ttl, kept, taken, inflight, refresh>>
    PROVE  Typed'
BY DEF Typed, TypeOK, KeysKnown

LEMMA TypedRequest ==
    ASSUME Typed, NEW q \in Request, RequestStep(q)
    PROVE  Typed'
<1>1. request[q] \in Locals
  BY DEF Typed, TypeOK
<1>2. ASSUME NEW reply \in Replies, Answer(q, reply)
      PROVE  Typed'
  BY <1>2, IdleLocals, TypedOneRequest DEF Answer
<1>3. CASE GetMiss(q)
  <2> DEFINE v == [request[q] EXCEPT !.pc = "start"]
  <2>1. v \in Locals /\ v.key \in Key /\ v.pc = "start"
    BY <1>1, <1>3 DEF GetMiss, Locals, Typed, KeysKnown
  <2> QED
    BY <1>3, <2>1, TypedOneRequest DEF GetMiss
<1>4. CASE JoinRefresh(q)
  <2> DEFINE v == [request[q] EXCEPT !.pc = "wait", !.timer = Timeout,
                                     !.ref = inflight[request[q].key]]
  <2>1. v \in Locals /\ v.key \in Key /\ v.ref \in Refresh
    BY <1>1, <1>4 DEF JoinRefresh, Locals, Typed, TypeOK, KeysKnown
  <2>2. request' = [request EXCEPT ![q] = v]
    BY <1>4 DEF JoinRefresh, Wait
  <2> QED
    BY <1>4, <2>1, <2>2, TypedOneRequest DEF JoinRefresh
<1>5. ASSUME NEW r \in Refresh, StartRefresh(q, r)
      PROVE  Typed'
  <2> DEFINE v == [request[q] EXCEPT !.pc = "wait", !.ref = r,
                                     !.timer = Timeout]
             c == [Unborn EXCEPT !.step = "sample", !.key = request[q].key,
                                 !.budget = Budget]
  <2>1. v \in Locals /\ v.key \in Key /\ v.ref \in Refresh
    BY <1>1, <1>5 DEF StartRefresh, Locals, Typed, KeysKnown
  <2>2. c \in Cell /\ c.key \in Key /\ c.step = "sample"
    <3>1. request[q].key \in Key
      BY <1>5 DEF StartRefresh, Typed, KeysKnown
    <3> QED
      BY <3>1, UnbornCell DEF Cell, Steps, Unborn
  <2>3. /\ request' = [request EXCEPT ![q] = v]
        /\ refresh' = [refresh EXCEPT ![r] = c]
        /\ inflight' = [inflight EXCEPT ![request[q].key] = r]
        /\ UNCHANGED <<cache, ttl, kept, taken>>
    BY <1>5 DEF StartRefresh, Wait
  <2> HIDE DEF v, c
  <2> QED
    BY <2>1, <2>2, <2>3 DEF Typed, TypeOK, KeysKnown
<1>6. CASE DoneClosed(q)
  <2> DEFINE v == [request[q] EXCEPT !.pc = "reget"]
  <2>1. v \in Locals /\ v.key \in Key /\ v.ref \in Refresh
    BY <1>1, <1>6 DEF DoneClosed, Locals, Typed, KeysKnown
  <2> QED
    BY <1>6, <2>1, TypedOneRequest DEF DoneClosed
<1> QED
  BY <1>2, <1>3, <1>4, <1>5, <1>6
     DEF RequestStep, GetHit, Cancelled, TimedOut, RegetFails, RegetHit,
         RegetMiss, Replies

\* One collection moves on without touching its key.
LEMMA TypedOneCell ==
    ASSUME Typed, NEW r \in Refresh, NEW c \in Cell,
           refresh' = [refresh EXCEPT ![r] = c],
           c.step # "dead" => c.key \in Key,
           c.step \in {"load", "store"} => c.sample > 0,
           cache' \in [Key -> Buffer], ttl' \in [Key -> Nat],
           kept' \in [Key -> Buffer], taken' \in Nat,
           inflight' \in [Key -> Refresh \cup {None}],
           request' = request
    PROVE  Typed'
BY DEF Typed, TypeOK, KeysKnown

LEMMA CollectedCell ==
    ASSUME Typed, NEW r \in Refresh, refresh[r].step # "dead",
           NEW err \in Errors, Collected(r, err)
    PROVE  \E c \in Cell :
              /\ refresh' = [refresh EXCEPT ![r] = c]
              /\ c.key = refresh[r].key /\ c.key \in Key
              /\ c.done = refresh[r].done
              /\ c.round = refresh[r].round
              /\ \/ refresh[r].round = 1 /\ c.step = "close" /\ c.err = err
                 \/ /\ refresh[r].round = 2 /\ c.step = "forget"
                    /\ c.err = refresh[r].err
<1> DEFINE c == [refresh[r] EXCEPT
              !.step = IF refresh[r].round = 1 THEN "close" ELSE "forget",
              !.err = IF refresh[r].round = 1 THEN err ELSE refresh[r].err,
              !.sample = 0,
              !.loaded = Absent]
<1>1. refresh[r] \in Cell /\ refresh[r].key \in Key
  BY DEF Typed, TypeOK, KeysKnown
<1>2. Absent \in Buffer
  BY DEF Absent, Buffer
<1>3. c \in Cell
  BY <1>1, <1>2 DEF Cell, Steps, Errors
<1>4. /\ c.key = refresh[r].key
      /\ c.done = refresh[r].done
      /\ c.round = refresh[r].round
      /\ \/ refresh[r].round = 1 /\ c.step = "close" /\ c.err = err
         \/ /\ refresh[r].round = 2 /\ c.step = "forget"
            /\ c.err = refresh[r].err
  BY <1>1 DEF Cell
<1>5. refresh' = [refresh EXCEPT ![r] = c]
  BY DEF Collected
<1> HIDE DEF c
<1> QED
  BY <1>1, <1>3, <1>4, <1>5

LEMMA TypedRefresh ==
    ASSUME Typed, NEW r \in Refresh, RefreshStep(r)
    PROVE  Typed'
<1> DEFINE Same == UNCHANGED <<cache, ttl, kept, inflight, request>>
<1>1. refresh[r] \in Cell
  BY DEF Typed, TypeOK
<1>2. ASSUME NEW err \in Errors, Collected(r, err),
             refresh[r].step # "dead",
             cache' \in [Key -> Buffer], ttl' \in [Key -> Nat],
             kept' \in [Key -> Buffer],
             UNCHANGED <<taken, inflight, request>>
      PROVE  Typed'
  <2>1. PICK c \in Cell : /\ refresh' = [refresh EXCEPT ![r] = c]
                          /\ c.key \in Key
                          /\ c.step \in {"close", "forget"}
    BY <1>2, CollectedCell
  <2> QED
    BY <1>2, <2>1, TypedOneCell DEF Typed, TypeOK
<1>3. CASE Sampled(r)
  <2> DEFINE next == IF refresh[r].key \in HostKey THEN "store" ELSE "load"
             c == [refresh[r] EXCEPT !.sample = taken + 1, !.step = next]
  <2>1. c \in Cell /\ c.key \in Key /\ c.sample > 0
    <3>1. refresh[r].key \in Key /\ taken \in Nat
      BY <1>3 DEF Sampled, Typed, TypeOK, KeysKnown
    <3>2. next \in Steps
      BY DEF Steps
    <3> HIDE DEF next
    <3>3. taken + 1 \in Nat /\ taken + 1 > 0
      BY <3>1
    <3> QED
      BY <1>1, <3>1, <3>2, <3>3 DEF Cell
  <2>2. refresh' = [refresh EXCEPT ![r] = c]
    BY <1>3 DEF Sampled
  <2>3. taken' \in Nat /\ Same
    BY <1>3 DEF Sampled, Typed, TypeOK
  <2> HIDE DEF c
  <2> QED
    BY <2>1, <2>2, <2>3, TypedOneCell DEF Typed, TypeOK
<1>4. CASE SampleFails(r)
  BY <1>2, <1>4 DEF SampleFails, Errors, Typed, TypeOK
<1>5. CASE Load(r)
  <2>1. PICK samples \in {Absent, cache[refresh[r].key]} :
          refresh' = [refresh EXCEPT ![r] =
              [@ EXCEPT !.step = "store", !.loaded = samples]]
    BY <1>5 DEF Load
  <2> DEFINE c == [refresh[r] EXCEPT !.step = "store", !.loaded = samples]
  <2>2. samples \in Buffer /\ refresh[r].key \in Key
    <3>1. refresh[r].key \in Key
      BY <1>5 DEF Load, Typed, KeysKnown
    <3>2. cache[refresh[r].key] \in Buffer /\ Absent \in Buffer
      BY <3>1 DEF Typed, TypeOK, Absent, Buffer
    <3> QED
      BY <2>1, <3>1, <3>2
  <2>3. c \in Cell /\ c.key \in Key /\ c.sample > 0
    BY <1>1, <1>5, <2>2 DEF Load, Cell, Steps, Typed, KeysKnown
  <2>4. refresh' = [refresh EXCEPT ![r] = c]
    BY <2>1
  <2>5. taken' = taken /\ Same
    BY <1>5 DEF Load
  <2> HIDE DEF c
  <2> QED
    BY <2>3, <2>4, <2>5, TypedOneCell DEF Typed, TypeOK
<1>6. CASE Store(r)
  <2>1. refresh[r].key \in Key
    BY <1>6 DEF Store, Typed, KeysKnown
  <2>2. Extend(refresh[r].loaded, refresh[r].sample) \in Buffer
    BY <1>1, <1>6, ExtendBuffer DEF Store, Typed, KeysKnown, Cell, Sample
  <2>3. /\ cache' \in [Key -> Buffer]
        /\ kept' \in [Key -> Buffer]
        /\ ttl' \in [Key -> Nat]
    BY <1>6, <2>1, <2>2 DEF Store, Typed, TypeOK, TTL
  <2> QED
    BY <1>2, <1>6, <2>3 DEF Store, Errors
<1>7. CASE StoreFails(r)
  BY <1>2, <1>7 DEF StoreFails, Errors, Typed, TypeOK
<1>8. CASE CloseDone(r)
  <2> DEFINE c == [refresh[r] EXCEPT !.step = "pause", !.done = TRUE,
                                     !.wake = RefreshInterval]
  <2>1. c \in Cell /\ c.key \in Key /\ c.step = "pause"
    BY <1>1, <1>8 DEF CloseDone, Cell, Steps, Typed, KeysKnown
  <2>2. refresh' = [refresh EXCEPT ![r] = c] /\ taken' = taken /\ Same
    BY <1>8 DEF CloseDone
  <2> HIDE DEF c
  <2> QED
    BY <2>1, <2>2, TypedOneCell DEF Typed, TypeOK
<1>9. CASE SecondMeasurement(r)
  <2> DEFINE c == [refresh[r] EXCEPT !.step = "sample", !.round = 2]
  <2>1. c \in Cell /\ c.key \in Key /\ c.step = "sample"
    BY <1>1, <1>9 DEF SecondMeasurement, Cell, Steps, Typed, KeysKnown
  <2>2. refresh' = [refresh EXCEPT ![r] = c] /\ taken' = taken /\ Same
    BY <1>9 DEF SecondMeasurement
  <2> HIDE DEF c
  <2> QED
    BY <2>1, <2>2, TypedOneCell DEF Typed, TypeOK
<1>10. CASE BudgetSpent(r)
  <2> DEFINE c == [refresh[r] EXCEPT !.step = "forget"]
  <2>1. c \in Cell /\ c.key \in Key /\ c.step = "forget"
    BY <1>1, <1>10 DEF BudgetSpent, Cell, Steps, Typed, KeysKnown
  <2>2. refresh' = [refresh EXCEPT ![r] = c] /\ taken' = taken /\ Same
    BY <1>10 DEF BudgetSpent
  <2> HIDE DEF c
  <2> QED
    BY <2>1, <2>2, TypedOneCell DEF Typed, TypeOK
<1>11. CASE Forget(r)
  <2> DEFINE c == [refresh[r] EXCEPT !.step = "dead", !.wake = 0, !.budget = 0]
  <2>1. c \in Cell /\ c.step = "dead"
    BY <1>1 DEF Cell, Steps
  <2>2. /\ refresh' = [refresh EXCEPT ![r] = c]
        /\ inflight' \in [Key -> Refresh \cup {None}]
        /\ UNCHANGED <<cache, ttl, kept, taken, request>>
    BY <1>11 DEF Forget, Typed, TypeOK
  <2> HIDE DEF c
  <2> QED
    BY <2>1, <2>2, TypedOneCell DEF Typed, TypeOK
<1> QED
  BY <1>3, <1>4, <1>5, <1>6, <1>7, <1>8, <1>9, <1>10, <1>11 DEF RefreshStep

LEMMA TypedEnvironment ==
    ASSUME Typed,
           \/ \E q \in Request, k \in Key : Arrive(q, k)
           \/ \E q \in Request : HangUp(q)
           \/ Tick
           \/ Restart
    PROVE  Typed'
<1>1. ASSUME NEW q \in Request, NEW k \in Key, Arrive(q, k)
      PROVE  Typed'
  <2> DEFINE v == [Idle("none") EXCEPT !.pc = "get", !.key = k]
  <2>1. v \in Locals /\ v.pc = "get" /\ v.key \in Key
    BY IdleLocals DEF Idle, Locals, Replies
  <2> QED
    BY <1>1, <2>1, TypedOneRequest DEF Arrive
<1>2. ASSUME NEW q \in Request, HangUp(q)
      PROVE  Typed'
  <2> DEFINE v == [request[q] EXCEPT !.gone = TRUE]
  <2>1. /\ v \in Locals /\ v.key \in Key
        /\ v.pc \in {"wait", "reget"} => v.ref \in Refresh
    <3>1. /\ request[q] \in Locals /\ request[q].key \in Key
          /\ request[q].pc \in {"wait", "reget"} => request[q].ref \in Refresh
      BY <1>2 DEF HangUp, Typed, TypeOK, KeysKnown
    <3> QED
      BY <3>1 DEF Locals
  <2> QED
    BY <1>2, <2>1, TypedOneRequest DEF HangUp
<1>3. CASE Tick
  <2>1. \A n \in Nat : Decrement(n) \in Nat
    BY DEF Decrement
  <2>2. \A c \in Cell :
          LET d == [c EXCEPT !.wake = Decrement(@), !.budget = Decrement(@)]
          IN  /\ d \in Cell /\ d.step = c.step /\ d.key = c.key
              /\ d.sample = c.sample
    BY <2>1 DEF Cell
  <2>3. \A v \in Locals :
          LET w == [v EXCEPT !.timer = Decrement(@)]
          IN  w \in Locals /\ w.pc = v.pc /\ w.key = v.key /\ w.ref = v.ref
    BY <2>1 DEF Locals
  <2>4. /\ ttl' \in [Key -> Nat]
        /\ cache' \in [Key -> Buffer]
        /\ UNCHANGED <<kept, taken, inflight>>
    <3>1. Absent \in Buffer
      BY DEF Absent, Buffer
    <3>2. ttl \in [Key -> Nat] /\ cache \in [Key -> Buffer]
      BY DEF Typed, TypeOK
    <3>3. ttl' \in [Key -> Nat]
      BY <1>3, <2>1, <3>2 DEF Tick
    <3>4. cache' \in [Key -> Buffer]
      BY <1>3, <3>1, <3>2 DEF Tick
    <3> QED
      BY <1>3, <3>3, <3>4 DEF Tick
  <2>5. /\ refresh' \in [Refresh -> Cell]
        /\ \A r \in Refresh : /\ refresh'[r].step = refresh[r].step
                              /\ refresh'[r].key = refresh[r].key
                              /\ refresh'[r].sample = refresh[r].sample
    BY <1>3, <2>2 DEF Tick, Typed, TypeOK
  <2>6. /\ request' \in [Request -> Locals]
        /\ \A q \in Request : /\ request'[q].pc = request[q].pc
                              /\ request'[q].key = request[q].key
                              /\ request'[q].ref = request[q].ref
    BY <1>3, <2>3 DEF Tick, Typed, TypeOK
  <2> QED
    BY <2>4, <2>5, <2>6 DEF Typed, TypeOK, KeysKnown
<1>4. CASE Restart
  <2>1. Idle("reset") \in Locals /\ Idle("reset").pc = "idle"
    BY IdleLocals DEF Replies
  <2>2. Unborn \in Cell /\ Unborn.step = "dead"
    BY UnbornCell DEF Unborn
  <2>3. /\ \A r \in Refresh : refresh'[r] = Unborn
        /\ refresh' \in [Refresh -> Cell]
    BY <1>4, <2>2 DEF Restart
  <2>4. /\ \A q \in Request : request'[q].pc = "idle"
        /\ request' \in [Request -> Locals]
    BY <1>4, <2>1 DEF Restart, Typed, TypeOK
  <2> QED
    BY <1>4, <2>2, <2>3, <2>4 DEF Restart, Typed, TypeOK, KeysKnown
<1> QED
  BY <1>1, <1>2, <1>3, <1>4

LEMMA TypedNext == Typed /\ [Next]_vars => Typed'
<1> SUFFICES ASSUME Typed, [Next]_vars
             PROVE  Typed'
  OBVIOUS
<1>1. CASE UNCHANGED vars
  BY <1>1 DEF vars, Typed, TypeOK, KeysKnown
<1> QED
  BY <1>1, TypedRequest, TypedRefresh, TypedEnvironment DEF Next

LEMMA AlwaysTyped == Spec => []Typed
BY TypedInit, TypedNext, PTL DEF Spec

\* Every variable of the collector keeps its type.
THEOREM TypeCorrect == Spec => []TypeOK
<1>1. Typed => TypeOK
  BY DEF Typed
<1> QED
  BY <1>1, AlwaysTyped, PTL

-----------------------------------------------------------------------------
(* One collection per key, and nobody left waiting.                        *)

First == {"sample", "load", "store", "close"}

\* A live goroutine has closed done exactly if it has left its first
\* measurement.
ClosedAfterFirst ==
    \A r \in Refresh : refresh[r].step # "dead" =>
        /\ refresh[r].done <=>
              ~ (refresh[r].round = 1 /\ refresh[r].step \in First)
        /\ refresh[r].step = "close" => refresh[r].round = 1

\* A request holds a cell of its own key; it reads it only when it is closed.
HeldCell ==
    \A q \in Request : request[q].pc \in {"wait", "reget"} =>
        /\ refresh[request[q].ref].key = request[q].key
        /\ request[q].pc = "reget" => refresh[request[q].ref].done

Flight == SingleFlight /\ ClosedAfterFirst /\ WaiterIsReleased /\ HeldCell

LEMMA FlightInit == Init => Flight
BY DEF Init, Flight, SingleFlight, ClosedAfterFirst, WaiterIsReleased,
       HeldCell, Unborn, Idle

\* What a step of a collection does to its cell and to the map.
LEMMA CellMoves ==
    ASSUME Typed, ClosedAfterFirst, NEW r \in Refresh, RefreshStep(r)
    PROVE  /\ request' = request
           /\ \A x \in Refresh \ {r} : refresh'[x] = refresh[x]
           /\ refresh[r].step # "dead" /\ refresh[r].key \in Key
           /\ refresh'[r].key = refresh[r].key
           /\ refresh[r].done =>
                 refresh'[r].done /\ refresh'[r].err = refresh[r].err
           /\ \/ /\ inflight' = inflight
                 /\ refresh'[r].step # "dead"
                 /\ refresh'[r].done <=>
                      ~ (refresh'[r].round = 1 /\ refresh'[r].step \in First)
                 /\ refresh'[r].step = "close" => refresh'[r].round = 1
              \/ /\ refresh[r].done
                 /\ refresh'[r].step = "dead"
                 /\ inflight' = [inflight EXCEPT ![refresh[r].key] = None]
<1>1. /\ refresh[r] \in Cell
      /\ refresh \in [Refresh -> Cell]
  BY DEF Typed, TypeOK
<1>2. refresh[r].step # "dead" /\ refresh[r].key \in Key
  BY DEF RefreshStep, Sampled, SampleFails, Load, Store, StoreFails, CloseDone,
         SecondMeasurement, BudgetSpent, Forget, Typed, KeysKnown
<1>3. /\ refresh[r].done <=>
            ~ (refresh[r].round = 1 /\ refresh[r].step \in First)
      /\ refresh[r].step = "close" => refresh[r].round = 1
  BY <1>2 DEF ClosedAfterFirst
<1>4. CASE Sampled(r)
  BY <1>1, <1>2, <1>3, <1>4 DEF Sampled, Cell, First
<1>5. CASE SampleFails(r) \/ Store(r) \/ StoreFails(r)
  <2>1. /\ refresh[r].step \in {"sample", "store"}
        /\ UNCHANGED <<inflight, request>>
        /\ \E err \in Errors : Collected(r, err)
    BY <1>5 DEF SampleFails, Store, StoreFails, Errors
  <2>2. PICK c \in Cell :
              /\ refresh' = [refresh EXCEPT ![r] = c]
              /\ c.key = refresh[r].key
              /\ c.done = refresh[r].done
              /\ c.round = refresh[r].round
              /\ \/ refresh[r].round = 1 /\ c.step = "close"
                 \/ /\ refresh[r].round = 2 /\ c.step = "forget"
                    /\ c.err = refresh[r].err
    BY <1>2, <2>1, CollectedCell
  <2>3. refresh'[r] = c /\ \A x \in Refresh \ {r} : refresh'[x] = refresh[x]
    BY <1>1, <2>2
  <2> QED
    BY <1>2, <1>3, <2>1, <2>2, <2>3 DEF First
<1>6. CASE Load(r)
  BY <1>1, <1>2, <1>3, <1>6 DEF Load, Cell, First
<1>7. CASE CloseDone(r)
  BY <1>1, <1>2, <1>3, <1>7 DEF CloseDone, Cell, First
<1>8. CASE SecondMeasurement(r)
  BY <1>1, <1>2, <1>3, <1>8 DEF SecondMeasurement, Cell, First
<1>9. CASE BudgetSpent(r)
  BY <1>1, <1>2, <1>3, <1>9 DEF BudgetSpent, Cell, First
<1>10. CASE Forget(r)
  BY <1>1, <1>2, <1>3, <1>10 DEF Forget, Cell, First
<1> QED
  BY <1>4, <1>5, <1>6, <1>7, <1>8, <1>9, <1>10 DEF RefreshStep

LEMMA FlightRefresh ==
    ASSUME Typed, Flight, NEW r \in Refresh, RefreshStep(r)
    PROVE  Flight'
<1>1. /\ request' = request
      /\ \A x \in Refresh \ {r} : refresh'[x] = refresh[x]
      /\ refresh[r].step # "dead" /\ refresh[r].key \in Key
      /\ refresh'[r].key = refresh[r].key
      /\ refresh[r].done => refresh'[r].done
  BY CellMoves DEF Flight
<1>2. inflight[refresh[r].key] = r /\ r # None
  BY <1>1 DEF Flight, SingleFlight
<1>3. HeldCell'
  BY <1>1 DEF Flight, HeldCell, Typed, KeysKnown
<1>4. CASE /\ inflight' = inflight
           /\ refresh'[r].step # "dead"
           /\ refresh'[r].done <=>
                ~ (refresh'[r].round = 1 /\ refresh'[r].step \in First)
           /\ refresh'[r].step = "close" => refresh'[r].round = 1
  <2>1. SingleFlight'
    BY <1>1, <1>2, <1>4 DEF Flight, SingleFlight, Typed, TypeOK
  <2>2. ClosedAfterFirst'
    BY <1>1, <1>4 DEF Flight, ClosedAfterFirst
  <2>3. WaiterIsReleased'
    BY <1>1, <1>2, <1>4
       DEF Flight, WaiterIsReleased, First, Typed, KeysKnown
  <2> QED
    BY <1>3, <2>1, <2>2, <2>3 DEF Flight
<1>5. CASE /\ refresh[r].done
           /\ refresh'[r].step = "dead"
           /\ inflight' = [inflight EXCEPT ![refresh[r].key] = None]
  <2>1. \A k \in Key \ {refresh[r].key} : inflight'[k] = inflight[k]
    BY <1>5 DEF Typed, TypeOK
  <2>2. inflight'[refresh[r].key] = None
    BY <1>1, <1>5 DEF Typed, TypeOK
  <2>3. SingleFlight'
    <3>1. \A x \in Refresh : refresh'[x].step # "dead" =>
             x # r /\ refresh[x].key # refresh[r].key
      BY <1>1, <1>2, <1>5 DEF Flight, SingleFlight
    <3> QED
      BY <1>1, <1>2, <1>5, <2>1, <2>2, <3>1
         DEF Flight, SingleFlight, Typed, TypeOK
  <2>4. ClosedAfterFirst'
    BY <1>1, <1>5 DEF Flight, ClosedAfterFirst
  <2>5. WaiterIsReleased'
    <3> SUFFICES ASSUME NEW q \in Request, request[q].pc = "wait",
                        ~ refresh[request[q].ref].done
                 PROVE  /\ request[q].ref # r
                        /\ inflight'[request[q].key] = request[q].ref
      BY <1>1, <1>5 DEF Flight, WaiterIsReleased, Typed, KeysKnown
    <3> QED
      BY <1>2, <1>5, <2>1 DEF Flight, WaiterIsReleased, Typed, KeysKnown
  <2> QED
    BY <1>3, <2>3, <2>4, <2>5 DEF Flight
<1> QED
  BY <1>4, <1>5, CellMoves DEF Flight

LEMMA FlightRequest ==
    ASSUME Typed, Flight, NEW q \in Request, RequestStep(q)
    PROVE  Flight'
<1>1. CASE \E r \in Refresh : StartRefresh(q, r)
  <2>1. PICK r \in Refresh : StartRefresh(q, r)
    BY <1>1
  <2> DEFINE k == request[q].key
  <2>2. /\ k \in Key /\ r # None
        /\ inflight[k] = None /\ refresh[r].step = "dead"
        /\ \A p \in Request : request[p].ref # r
    BY <2>1 DEF StartRefresh, Free, Typed, KeysKnown
  <2>3. /\ inflight'[k] = r
        /\ \A l \in Key \ {k} : inflight'[l] = inflight[l]
    BY <2>1, <2>2 DEF StartRefresh, Typed, TypeOK
  <2>4. /\ \A x \in Refresh \ {r} : refresh'[x] = refresh[x]
        /\ refresh'[r].step = "sample" /\ refresh'[r].key = k
        /\ refresh'[r].round = 1 /\ refresh'[r].done = FALSE
    BY <2>1 DEF StartRefresh, Unborn, Typed, TypeOK
  <2>5. /\ \A p \in Request \ {q} : request'[p] = request[p]
        /\ request'[q].pc = "wait" /\ request'[q].ref = r
        /\ request'[q].key = k
    BY <2>1 DEF StartRefresh, Wait, Typed, TypeOK, Locals
  <2>6. SingleFlight'
    BY <2>2, <2>3, <2>4 DEF Flight, SingleFlight, Typed, TypeOK
  <2>7. ClosedAfterFirst'
    BY <2>4 DEF Flight, ClosedAfterFirst, First
  <2>8. \A p \in Request \ {q} : request[p].pc \in {"wait", "reget"} =>
            /\ request[p].ref \in Refresh \ {r}
            /\ request[p].key \in Key
    BY <2>2 DEF Typed, KeysKnown
  <2>9. WaiterIsReleased'
    <3> SUFFICES ASSUME NEW p \in Request \ {q}, request[p].pc = "wait",
                        ~ refresh[request[p].ref].done
                 PROVE  request[p].key # k
      BY <2>3, <2>4, <2>5, <2>8 DEF Flight, WaiterIsReleased
    <3> QED
      BY <2>2, <2>8 DEF Flight, WaiterIsReleased, Typed, TypeOK
  <2>10. HeldCell'
    BY <2>4, <2>5, <2>8 DEF Flight, HeldCell
  <2> QED
    BY <2>6, <2>7, <2>9, <2>10 DEF Flight
<1>2. CASE ~ \E r \in Refresh : StartRefresh(q, r)
  <2>1. UNCHANGED <<inflight, refresh>>
    BY <1>2 DEF RequestStep, GetHit, GetMiss, JoinRefresh, DoneClosed,
       Cancelled, TimedOut, RegetFails, RegetHit, RegetMiss, Answer
  <2>2. \A p \in Request \ {q} : request'[p] = request[p]
    BY <1>2 DEF RequestStep, GetHit, GetMiss, JoinRefresh, DoneClosed,
       Cancelled, TimedOut, RegetFails, RegetHit, RegetMiss, Answer, Wait,
       Typed, TypeOK
  <2>3. CASE JoinRefresh(q)
    <3>1. /\ request'[q].pc = "wait" /\ request'[q].key = request[q].key
          /\ request'[q].ref = inflight[request[q].key]
          /\ inflight[request[q].key] # None
          /\ request[q].key \in Key
      BY <2>3 DEF JoinRefresh, Wait, Typed, TypeOK, KeysKnown, Locals
    <3> DEFINE r == inflight[request[q].key]
    <3>2. /\ r \in Refresh /\ refresh[r].step # "dead"
          /\ refresh[r].key = request[q].key
      BY <3>1 DEF Flight, SingleFlight, Typed, TypeOK
    <3> QED
      BY <2>1, <2>2, <3>1, <3>2
         DEF Flight, SingleFlight, ClosedAfterFirst, WaiterIsReleased, HeldCell,
             First
  <2>4. CASE DoneClosed(q)
    <3>1. /\ request'[q].pc = "reget" /\ request'[q].key = request[q].key
          /\ request'[q].ref = request[q].ref
          /\ request[q].pc = "wait" /\ refresh[request[q].ref].done
      BY <2>4 DEF DoneClosed, Typed, TypeOK, Locals
    <3> QED
      BY <2>1, <2>2, <3>1
         DEF Flight, SingleFlight, ClosedAfterFirst, WaiterIsReleased, HeldCell
  <2>5. CASE ~ JoinRefresh(q) /\ ~ DoneClosed(q)
    <3>1. request'[q].pc \in {"idle", "start"}
      BY <1>2, <2>5 DEF RequestStep, GetHit, GetMiss,
         Cancelled, TimedOut, RegetFails, RegetHit, RegetMiss, Answer, Idle,
         Typed, TypeOK, Locals
    <3> QED
      BY <2>1, <2>2, <3>1
         DEF Flight, SingleFlight, ClosedAfterFirst, WaiterIsReleased, HeldCell
  <2> QED
    BY <2>3, <2>4, <2>5
<1> QED
  BY <1>1, <1>2

\* What time and a restart leave alone.
LEMMA TickMoves ==
    ASSUME Typed, Tick
    PROVE  /\ UNCHANGED <<kept, taken, inflight>>
           /\ \A k \in Key : cache'[k] \in {Absent, cache[k]}
           /\ \A r \in Refresh :
                 /\ refresh'[r].step = refresh[r].step
                 /\ refresh'[r].round = refresh[r].round
                 /\ refresh'[r].key = refresh[r].key
                 /\ refresh'[r].done = refresh[r].done
                 /\ refresh'[r].err = refresh[r].err
                 /\ refresh'[r].sample = refresh[r].sample
                 /\ refresh'[r].loaded = refresh[r].loaded
           /\ \A q \in Request :
                 /\ request'[q].pc = request[q].pc
                 /\ request'[q].key = request[q].key
                 /\ request'[q].ref = request[q].ref
                 /\ request'[q].reply = request[q].reply
<1>1. \A c \in Cell :
        LET d == [c EXCEPT !.wake = Decrement(@), !.budget = Decrement(@)]
        IN  /\ d.step = c.step /\ d.round = c.round /\ d.key = c.key
            /\ d.done = c.done /\ d.err = c.err /\ d.sample = c.sample
            /\ d.loaded = c.loaded
  BY DEF Cell
<1>2. \A v \in Locals :
        LET w == [v EXCEPT !.timer = Decrement(@)]
        IN  w.pc = v.pc /\ w.key = v.key /\ w.ref = v.ref /\ w.reply = v.reply
  BY DEF Locals
<1>3. \A r \in Refresh : refresh[r] \in Cell
  BY DEF Typed, TypeOK
<1>4. \A q \in Request : request[q] \in Locals
  BY DEF Typed, TypeOK
<1>5. \A r \in Refresh :
        refresh'[r] = [refresh[r] EXCEPT !.wake = Decrement(@),
                                         !.budget = Decrement(@)]
  BY DEF Tick
<1>6. \A q \in Request :
        request'[q] = [request[q] EXCEPT !.timer = Decrement(@)]
  BY DEF Tick
<1>7. \A k \in Key : cache'[k] \in {Absent, cache[k]}
  BY DEF Tick
<1>8. UNCHANGED <<kept, taken, inflight>>
  BY DEF Tick
<1>9. \A r \in Refresh : /\ refresh'[r].step = refresh[r].step
                          /\ refresh'[r].round = refresh[r].round
                          /\ refresh'[r].key = refresh[r].key
                          /\ refresh'[r].done = refresh[r].done
                          /\ refresh'[r].err = refresh[r].err
                          /\ refresh'[r].sample = refresh[r].sample
                          /\ refresh'[r].loaded = refresh[r].loaded
  <2> SUFFICES ASSUME NEW r \in Refresh
               PROVE  /\ refresh'[r].step = refresh[r].step
                      /\ refresh'[r].round = refresh[r].round
                      /\ refresh'[r].key = refresh[r].key
                      /\ refresh'[r].done = refresh[r].done
                      /\ refresh'[r].err = refresh[r].err
                      /\ refresh'[r].sample = refresh[r].sample
                      /\ refresh'[r].loaded = refresh[r].loaded
    OBVIOUS
  <2>1. refresh[r] \in Cell
    BY <1>3
  <2> QED
    BY <1>1, <1>5, <2>1
<1>10. \A q \in Request : /\ request'[q].pc = request[q].pc
                           /\ request'[q].key = request[q].key
                           /\ request'[q].ref = request[q].ref
                           /\ request'[q].reply = request[q].reply
  BY <1>2, <1>4, <1>6
<1> QED
  BY <1>7, <1>8, <1>9, <1>10

LEMMA FlightEnvironment ==
    ASSUME Typed, Flight,
           \/ \E q \in Request, k \in Key : Arrive(q, k)
           \/ \E q \in Request : HangUp(q)
           \/ Tick
           \/ Restart
    PROVE  Flight'
<1>1. ASSUME NEW q \in Request, NEW k \in Key, Arrive(q, k)
      PROVE  Flight'
  <2>1. /\ \A p \in Request \ {q} : request'[p] = request[p]
        /\ request'[q].pc = "get"
        /\ UNCHANGED <<inflight, refresh>>
    BY <1>1 DEF Arrive, Idle, Typed, TypeOK
  <2> QED
    BY <2>1 DEF Flight, SingleFlight, ClosedAfterFirst, WaiterIsReleased,
                HeldCell
<1>2. ASSUME NEW q \in Request, HangUp(q)
      PROVE  Flight'
  <2>1. /\ \A p \in Request \ {q} : request'[p] = request[p]
        /\ request'[q].pc = request[q].pc /\ request'[q].key = request[q].key
        /\ request'[q].ref = request[q].ref
        /\ UNCHANGED <<inflight, refresh>>
    BY <1>2 DEF HangUp, Typed, TypeOK, Locals
  <2> QED
    BY <2>1 DEF Flight, SingleFlight, ClosedAfterFirst, WaiterIsReleased,
                HeldCell
<1>3. CASE Tick
  <2>1. SingleFlight'
    BY <1>3, TickMoves DEF Flight, SingleFlight, Typed, TypeOK
  <2>2. ClosedAfterFirst'
    BY <1>3, TickMoves DEF Flight, ClosedAfterFirst
  <2>3. WaiterIsReleased' /\ HeldCell'
    BY <1>3, TickMoves DEF Flight, WaiterIsReleased, HeldCell, Typed, KeysKnown
  <2> QED
    BY <2>1, <2>2, <2>3 DEF Flight
<1>4. CASE Restart
  <2>1. /\ \A r \in Refresh : refresh'[r].step = "dead"
        /\ \A k \in Key : inflight'[k] = None
        /\ \A q \in Request : request'[q].pc = "idle"
    BY <1>4 DEF Restart, Unborn, Idle
  <2> QED
    BY <2>1 DEF Flight, SingleFlight, ClosedAfterFirst, WaiterIsReleased,
                HeldCell
<1> QED
  BY <1>1, <1>2, <1>3, <1>4

LEMMA FlightNext == Typed /\ Flight /\ [Next]_vars => Flight'
<1> SUFFICES ASSUME Typed, Flight, [Next]_vars
             PROVE  Flight'
  OBVIOUS
<1>1. CASE UNCHANGED vars
  BY <1>1 DEF vars, Flight, SingleFlight, ClosedAfterFirst, WaiterIsReleased,
              HeldCell
<1> QED
  BY <1>1, FlightRequest, FlightRefresh, FlightEnvironment DEF Next

LEMMA AlwaysFlight == Spec => [](Typed /\ Flight)
BY TypedInit, FlightInit, TypedNext, FlightNext, PTL DEF Spec

\* For any number of keys, requests and cells: a goroutine is alive exactly
\* while the map names its cell, so a key has never two collections.
THEOREM OneCollectionPerKey == Spec => []SingleFlight
<1>1. Typed /\ Flight => SingleFlight
  BY DEF Flight
<1> QED
  BY <1>1, AlwaysFlight, PTL

\* No request waits for a channel nobody will close.
THEOREM WaitersAreReleased == Spec => []WaiterIsReleased
<1>1. Typed /\ Flight => WaiterIsReleased
  BY DEF Flight
<1> QED
  BY <1>1, AlwaysFlight, PTL

\* Once done is closed the error a request will read is final.
LEMMA SettledStep ==
    ASSUME Typed, Flight, [Next]_vars, NEW q \in Request,
           request[q].pc \in {"wait", "reget"},
           request'[q].ref = request[q].ref,
           refresh[request[q].ref].done
    PROVE  /\ refresh'[request[q].ref].done
           /\ refresh'[request[q].ref].err = refresh[request[q].ref].err
<1> DEFINE h == request[q].ref
<1>1. h \in Refresh /\ h # None
  BY DEF Typed, KeysKnown
<1>2. ASSUME NEW r \in Refresh, RefreshStep(r)
      PROVE  refresh'[h].done /\ refresh'[h].err = refresh[h].err
  BY <1>1, <1>2, CellMoves DEF Flight
<1>3. ASSUME NEW p \in Request, NEW r \in Refresh, StartRefresh(p, r)
      PROVE  refresh'[h] = refresh[h]
  BY <1>1, <1>3 DEF StartRefresh, Free, Typed, TypeOK
<1>4. CASE Tick
  BY <1>1, <1>4, TickMoves
<1>5. CASE Restart
  <2>1. request'[q].ref = None
    BY <1>5 DEF Restart, Idle
  <2> QED
    BY <1>1, <2>1
<1>6. CASE UNCHANGED refresh
  BY <1>6
<1> QED
  BY <1>2, <1>3, <1>4, <1>5, <1>6
     DEF Next, RequestStep, GetHit, GetMiss, JoinRefresh, DoneClosed, Cancelled,
         TimedOut, RegetFails, RegetHit, RegetMiss, Answer, Arrive, HangUp, vars

\* r.err may be read without the lock: after the close it is never written as
\* long as a request holds the cell.
THEOREM ErrIsSettled == Spec => ErrSettled
<1> DEFINE Settled ==
      \A q \in Request :
          LET r == request[q].ref
          IN  (/\ request[q].pc \in {"wait", "reget"}
               /\ request'[q].ref = r
               /\ refresh[r].done)
              => refresh'[r].done /\ refresh'[r].err = refresh[r].err
<1>1. Typed /\ Flight /\ [Next]_vars => [Settled]_vars
  BY SettledStep
<1> QED
  BY <1>1, AlwaysFlight, PTL DEF Spec, ErrSettled

-----------------------------------------------------------------------------
(* The buffers.                                                            *)

\* Samples are loaded for the write that follows and dropped after it.
LoadedForStore ==
    \A r \in Refresh : refresh[r].step # "store" => refresh[r].loaded = Absent

SampleTaken ==
    \A r \in Refresh :
        refresh[r].step \in {"load", "store"} => refresh[r].sample <= taken

KeptOrdered ==
    \A k \in Key : /\ Len(kept[k]) <= MaxSamples
                   /\ Ascending(kept[k])
                   /\ Newest(kept[k]) <= taken

\* Redis shows what was last written, or nothing.
CacheIsKept == \A k \in Key : cache[k] \in {Absent, kept[k]}

Buffers ==
    NoLostUpdate /\ LoadedForStore /\ SampleTaken /\ KeptOrdered /\ CacheIsKept

LEMMA AbsentOrdered ==
    Absent \in Buffer /\ Len(Absent) = 0 /\ Ascending(Absent) /\ Newest(Absent) = 0
BY DEF Absent, Buffer, Ascending, Newest

LEMMA BuffersInit == Init => Buffers
BY AbsentOrdered
   DEF Init, Buffers, NoLostUpdate, LoadedForStore, SampleTaken, KeptOrdered,
       CacheIsKept, Unborn

LEMMA NewestNat == \A b \in Buffer : Newest(b) \in Nat
BY DEF Newest, Absent, Buffer, Sample

\* What a step of a collection does to the buffers: it takes a sample, reads
\* the buffer, writes it, or none of the three.
LEMMA BufferMoves ==
    ASSUME Typed, Flight, LoadedForStore, NEW r \in Refresh, RefreshStep(r)
    PROVE  \/ /\ UNCHANGED <<cache, kept>> /\ taken' = taken + 1
              /\ refresh'[r].sample = taken + 1
              /\ refresh'[r].loaded = Absent
           \/ /\ UNCHANGED <<cache, kept, taken>>
              /\ refresh[r].step = "load"
              /\ refresh'[r].step = "store"
              /\ refresh'[r].sample = refresh[r].sample
              /\ refresh'[r].loaded \in {Absent, cache[refresh[r].key]}
           \/ /\ Store(r)
              /\ refresh'[r].step \notin {"load", "store"}
              /\ refresh'[r].loaded = Absent
           \/ /\ UNCHANGED <<cache, kept, taken>>
              /\ refresh'[r].step \notin {"load", "store"}
              /\ refresh'[r].loaded = Absent
<1>1. refresh[r] \in Cell /\ refresh \in [Refresh -> Cell]
  BY DEF Typed, TypeOK
<1>2. refresh[r].step # "store" => refresh[r].loaded = Absent
  BY DEF LoadedForStore
<1>3. ASSUME NEW err \in Errors, Collected(r, err)
      PROVE  /\ refresh'[r].step \notin {"load", "store"}
             /\ refresh'[r].loaded = Absent
  BY <1>1, <1>3 DEF Collected, Cell
<1>4. CASE Sampled(r)
  BY <1>1, <1>2, <1>4 DEF Sampled, Cell
<1>5. CASE SampleFails(r) \/ StoreFails(r)
  BY <1>3, <1>5 DEF SampleFails, StoreFails, Errors
<1>6. CASE Load(r)
  BY <1>1, <1>6 DEF Load, Cell
<1>7. CASE Store(r)
  BY <1>3, <1>7 DEF Store, Errors
<1>8. CASE CloseDone(r)
  BY <1>1, <1>2, <1>8 DEF CloseDone, Cell
<1>9. CASE SecondMeasurement(r)
  BY <1>1, <1>2, <1>9 DEF SecondMeasurement, Cell
<1>10. CASE BudgetSpent(r)
  BY <1>1, <1>2, <1>10 DEF BudgetSpent, Cell
<1>11. CASE Forget(r)
  BY <1>1, <1>2, <1>11 DEF Forget, Cell
<1> QED
  BY <1>4, <1>5, <1>6, <1>7, <1>8, <1>9, <1>10, <1>11 DEF RefreshStep

\* What Store writes is a buffer again, and newer than what was there.
LEMMA StoreWrites ==
    ASSUME Typed, Flight, Buffers, NEW r \in Refresh, Store(r)
    PROVE  LET k == refresh[r].key
           IN  /\ k \in Key
               /\ cache'[k] = kept'[k]
               /\ kept'[k] = Extend(refresh[r].loaded, refresh[r].sample)
               /\ kept'[k] # Absent
               /\ Len(kept'[k]) <= MaxSamples
               /\ Ascending(kept'[k])
               /\ Newest(kept'[k]) = refresh[r].sample
               /\ refresh[r].sample <= taken
               /\ \A l \in Key \ {k} : cache'[l] = cache[l] /\ kept'[l] = kept[l]
               /\ taken' = taken
<1> DEFINE k == refresh[r].key
           b == refresh[r].loaded
           s == refresh[r].sample
<1>1. /\ k \in Key /\ b \in Buffer /\ s \in Sample
      /\ refresh[r].step = "store"
  BY DEF Store, Typed, TypeOK, KeysKnown, Cell, Sample
<1>2. b \in {Absent, kept[k]} /\ s > Newest(kept[k]) /\ s <= taken
  BY <1>1 DEF Buffers, NoLostUpdate, SampleTaken
<1>3. Ascending(b) /\ s > Newest(b)
  BY <1>1, <1>2, AbsentOrdered DEF Buffers, KeptOrdered, Sample
<1>4. /\ cache' = [cache EXCEPT ![k] = Extend(b, s)]
      /\ kept' = [kept EXCEPT ![k] = Extend(b, s)]
      /\ taken' = taken
  BY DEF Store
<1>5. /\ cache'[k] = Extend(b, s) /\ kept'[k] = Extend(b, s)
      /\ \A l \in Key \ {k} : cache'[l] = cache[l] /\ kept'[l] = kept[l]
  BY <1>1, <1>4 DEF Typed, TypeOK
<1>6. /\ Extend(b, s) # Absent /\ Newest(Extend(b, s)) = s
      /\ Len(Extend(b, s)) \in 1 .. MaxSamples
      /\ Ascending(Extend(b, s))
  BY <1>1, <1>3, ExtendBuffer, ExtendAscending
<1> QED
  BY <1>1, <1>2, <1>4, <1>5, <1>6

LEMMA BuffersRefresh ==
    ASSUME Typed, Flight, Buffers, NEW r \in Refresh, RefreshStep(r)
    PROVE  Buffers'
<1>1. /\ \A x \in Refresh \ {r} : refresh'[x] = refresh[x]
      /\ refresh[r].step # "dead" /\ refresh[r].key \in Key
      /\ refresh'[r].key = refresh[r].key
  BY CellMoves DEF Flight
<1>2. \A x \in Refresh : refresh[x].step # "dead" =>
          refresh[x].key \in Key /\ (refresh[x].key = refresh[r].key => x = r)
  BY <1>1 DEF Flight, SingleFlight
<1>3. /\ taken \in Nat
      /\ \A k \in Key : Newest(kept[k]) \in Nat
      /\ \A x \in Refresh : refresh[x].sample \in Nat
  BY NewestNat DEF Typed, TypeOK, Cell
<1>4. CASE /\ UNCHANGED <<cache, kept>> /\ taken' = taken + 1
           /\ refresh'[r].sample = taken + 1
           /\ refresh'[r].loaded = Absent
  <2>1. LoadedForStore' /\ CacheIsKept'
    BY <1>1, <1>4 DEF Buffers, LoadedForStore, CacheIsKept
  <2>2. SampleTaken'
    BY <1>1, <1>3, <1>4 DEF Buffers, SampleTaken
  <2>3. KeptOrdered'
    BY <1>3, <1>4 DEF Buffers, KeptOrdered
  <2>4. taken + 1 > Newest(kept[refresh[r].key])
    BY <1>1, <1>3 DEF Buffers, KeptOrdered
  <2>5. NoLostUpdate'
    BY <1>1, <1>4, <2>4 DEF Buffers, NoLostUpdate
  <2> QED
    BY <2>1, <2>2, <2>3, <2>5 DEF Buffers
<1>5. CASE /\ UNCHANGED <<cache, kept, taken>>
           /\ refresh[r].step = "load"
           /\ refresh'[r].step = "store"
           /\ refresh'[r].sample = refresh[r].sample
           /\ refresh'[r].loaded \in {Absent, cache[refresh[r].key]}
  <2>1. LoadedForStore' /\ SampleTaken'
    BY <1>1, <1>5 DEF Buffers, LoadedForStore, SampleTaken
  <2>2. KeptOrdered' /\ CacheIsKept'
    BY <1>5 DEF Buffers, KeptOrdered, CacheIsKept
  <2>3. NoLostUpdate'
    BY <1>1, <1>5 DEF Buffers, NoLostUpdate, CacheIsKept
  <2> QED
    BY <2>1, <2>2, <2>3 DEF Buffers
<1>6. CASE /\ Store(r)
           /\ refresh'[r].step \notin {"load", "store"}
           /\ refresh'[r].loaded = Absent
  <2> DEFINE k == refresh[r].key
  <2>1. /\ k \in Key
        /\ cache'[k] = kept'[k]
        /\ Len(kept'[k]) <= MaxSamples /\ Ascending(kept'[k])
        /\ Newest(kept'[k]) <= taken
        /\ \A l \in Key \ {k} : cache'[l] = cache[l] /\ kept'[l] = kept[l]
        /\ taken' = taken
    BY <1>6, StoreWrites
  <2>2. KeptOrdered' /\ CacheIsKept'
    BY <2>1 DEF Buffers, KeptOrdered, CacheIsKept
  <2>3. LoadedForStore' /\ SampleTaken'
    BY <1>1, <1>6, <2>1 DEF Buffers, LoadedForStore, SampleTaken
  <2>4. NoLostUpdate'
    BY <1>1, <1>2, <1>6, <2>1 DEF Buffers, NoLostUpdate
  <2> QED
    BY <2>2, <2>3, <2>4 DEF Buffers
<1>7. CASE /\ UNCHANGED <<cache, kept, taken>>
           /\ refresh'[r].step \notin {"load", "store"}
           /\ refresh'[r].loaded = Absent
  BY <1>1, <1>7
     DEF Buffers, NoLostUpdate, LoadedForStore, SampleTaken, KeptOrdered,
         CacheIsKept
<1> QED
  BY <1>4, <1>5, <1>6, <1>7, BufferMoves DEF Buffers

LEMMA BuffersNext == Typed /\ Flight /\ Buffers /\ [Next]_vars => Buffers'
<1> SUFFICES ASSUME Typed, Flight, Buffers, [Next]_vars
             PROVE  Buffers'
  OBVIOUS
<1>1. ASSUME NEW q \in Request, NEW r \in Refresh, StartRefresh(q, r)
      PROVE  Buffers'
  <2>1. /\ \A x \in Refresh \ {r} : refresh'[x] = refresh[x]
        /\ refresh'[r].step = "sample" /\ refresh'[r].loaded = Absent
        /\ UNCHANGED <<cache, kept, taken>>
    BY <1>1 DEF StartRefresh, Unborn, Typed, TypeOK
  <2> QED
    BY <2>1 DEF Buffers, NoLostUpdate, LoadedForStore, SampleTaken, KeptOrdered,
                CacheIsKept
<1>2. CASE Tick
  <2>1. UNCHANGED <<kept, taken>>
    BY <1>2, TickMoves
  <2>2. CacheIsKept'
    BY <1>2, <2>1, TickMoves DEF Buffers, CacheIsKept
  <2> QED
    BY <1>2, <2>1, <2>2, TickMoves
       DEF Buffers, NoLostUpdate, LoadedForStore, SampleTaken, KeptOrdered
<1>3. CASE Restart
  <2>1. /\ UNCHANGED <<cache, kept, taken>>
        /\ \A r \in Refresh : /\ refresh'[r].step = "dead"
                              /\ refresh'[r].loaded = Absent
    BY <1>3 DEF Restart, Unborn
  <2> QED
    BY <2>1 DEF Buffers, NoLostUpdate, LoadedForStore, SampleTaken, KeptOrdered,
                CacheIsKept
<1>4. CASE UNCHANGED <<cache, kept, taken, refresh>>
  BY <1>4 DEF Buffers, NoLostUpdate, LoadedForStore, SampleTaken, KeptOrdered,
              CacheIsKept
<1> QED
  BY <1>1, <1>2, <1>3, <1>4, BuffersRefresh
     DEF Next, RequestStep, GetHit, GetMiss, JoinRefresh, DoneClosed, Cancelled,
         TimedOut, RegetFails, RegetHit, RegetMiss, Answer, Arrive, HangUp, vars

Inv == Typed /\ Flight /\ Buffers

LEMMA InvNext == Inv /\ [Next]_vars => Inv'
BY TypedNext, FlightNext, BuffersNext DEF Inv

LEMMA AlwaysInv == Spec => []Inv
<1>1. Init => Inv
  BY TypedInit, FlightInit, BuffersInit DEF Inv
<1> QED
  BY <1>1, InvNext, PTL DEF Spec

\* Between reading a buffer and writing it back nobody else writes the key.
THEOREM UpdatesAreNotLost == Spec => []NoLostUpdate
<1>1. Inv => NoLostUpdate
  BY DEF Inv, Buffers
<1> QED
  BY <1>1, AlwaysInv, PTL

\* A reader gets at most MaxSamples samples, oldest first, none twice.
THEOREM BuffersAreOrdered == Spec => []BufferOrdered
<1>1. Inv => BufferOrdered
  <2> SUFFICES ASSUME Inv, NEW k \in Key
               PROVE  /\ Len(cache[k]) <= MaxSamples
                      /\ Ascending(cache[k])
                      /\ Newest(cache[k]) <= taken
    BY DEF BufferOrdered
  <2>1. cache[k] \in {Absent, kept[k]} /\ taken \in Nat
    BY DEF Inv, Buffers, CacheIsKept, Typed, TypeOK
  <2> QED
    BY <2>1, AbsentOrdered DEF Inv, Buffers, KeptOrdered
<1> QED
  BY <1>1, AlwaysInv, PTL

-----------------------------------------------------------------------------
(* The error a request reports.                                            *)

\* A first measurement without an error has written its key.
NoErrorWrote ==
    \A r \in Refresh :
        (/\ refresh[r].key \in Key
         /\ refresh[r].err = "none"
         /\ refresh[r].done \/ refresh[r].step = "close")
        => kept[refresh[r].key] # Absent

\* What is written once is replaced and never taken back.
LEMMA KeptStays ==
    ASSUME Inv, [Next]_vars, NEW k \in Key, kept[k] # Absent
    PROVE  kept'[k] # Absent
<1>1. ASSUME NEW r \in Refresh, Store(r)
      PROVE  kept'[k] # Absent
  BY <1>1, StoreWrites DEF Inv
<1>2. CASE UNCHANGED kept
  BY <1>2
<1> QED
  BY <1>1, <1>2
     DEF Next, RequestStep, GetHit, GetMiss, JoinRefresh, StartRefresh,
         DoneClosed, Cancelled, TimedOut, RegetFails, RegetHit, RegetMiss,
         Answer, Arrive, HangUp, vars, RefreshStep, Sampled, SampleFails, Load,
         StoreFails, CloseDone, SecondMeasurement, BudgetSpent, Forget, Tick,
         Restart

LEMMA NoErrorWroteRefresh ==
    ASSUME Inv, NoErrorWrote, NEW r \in Refresh, RefreshStep(r)
    PROVE  NoErrorWrote'
<1>1. /\ \A x \in Refresh \ {r} : refresh'[x] = refresh[x]
      /\ refresh[r].step # "dead" /\ refresh[r].key \in Key
      /\ refresh'[r].key = refresh[r].key
      /\ refresh[r].done =>
            refresh'[r].done /\ refresh'[r].err = refresh[r].err
  BY CellMoves DEF Inv, Flight
<1>2. \A k \in Key : kept[k] # Absent => kept'[k] # Absent
  BY KeptStays DEF Next, Inv
<1>3. SUFFICES ASSUME refresh'[r].err = "none",
                      refresh'[r].done \/ refresh'[r].step = "close",
                      ~ refresh[r].done
               PROVE  kept'[refresh[r].key] # Absent
  BY <1>1, <1>2 DEF NoErrorWrote
<1>4. refresh[r] \in Cell /\ refresh \in [Refresh -> Cell]
  BY DEF Inv, Typed, TypeOK
<1>5. CASE refresh[r].step = "close"
  <2>1. CloseDone(r)
    BY <1>5 DEF RefreshStep, Sampled, SampleFails, Load, Store,
       StoreFails, CloseDone, SecondMeasurement, BudgetSpent, Forget
  <2>2. refresh'[r].err = refresh[r].err
    BY <1>4, <2>1 DEF CloseDone, Cell
  <2> QED
    BY <1>1, <1>2, <1>3, <1>5, <2>2 DEF NoErrorWrote
<1>6. CASE refresh[r].step # "close"
  <2>1. /\ refresh[r].round = 1 /\ refresh[r].step \in First
    BY <1>1, <1>3 DEF Inv, Flight, ClosedAfterFirst
  <2>2. CASE Store(r)
    BY <2>2, StoreWrites DEF Inv
  <2>3. CASE SampleFails(r) \/ StoreFails(r)
    <3>1. PICK err \in {"docker", "store"} : Collected(r, err)
      BY <2>3 DEF SampleFails, StoreFails
    <3>2. refresh'[r].err = err
      BY <1>4, <2>1, <3>1 DEF Collected, Cell
    <3> QED
      BY <1>3, <3>1, <3>2
  <2>4. CASE Sampled(r)
    BY <1>3, <1>4, <2>4 DEF Sampled, Cell
  <2>5. CASE Load(r)
    BY <1>3, <1>4, <2>5 DEF Load, Cell
  <2> QED
    BY <1>6, <2>1, <2>2, <2>3, <2>4, <2>5
       DEF RefreshStep, CloseDone, SecondMeasurement, BudgetSpent, Forget, First
<1> QED
  BY <1>5, <1>6

LEMMA NoErrorWroteNext ==
    ASSUME Inv, NoErrorWrote, [Next]_vars
    PROVE  NoErrorWrote'
<1>1. ASSUME NEW q \in Request, NEW r \in Refresh, StartRefresh(q, r)
      PROVE  NoErrorWrote'
  <2>1. /\ \A x \in Refresh \ {r} : refresh'[x] = refresh[x]
        /\ refresh'[r].step = "sample" /\ refresh'[r].done = FALSE
        /\ kept' = kept
    BY <1>1 DEF StartRefresh, Unborn, Inv, Typed, TypeOK
  <2> QED
    BY <2>1 DEF NoErrorWrote
<1>2. CASE Tick
  BY <1>2, TickMoves DEF NoErrorWrote, Inv
<1>3. CASE Restart
  BY <1>3 DEF Restart, Unborn, NoErrorWrote
<1>4. CASE UNCHANGED <<kept, refresh>>
  BY <1>4 DEF NoErrorWrote
<1> QED
  BY <1>1, <1>2, <1>3, <1>4, NoErrorWroteRefresh
     DEF Next, RequestStep, GetHit, GetMiss, JoinRefresh, DoneClosed, Cancelled,
         TimedOut, RegetFails, RegetHit, RegetMiss, Answer, Arrive, HangUp, vars

\* A slot holds a key while its request is pending and a reply afterwards.
Pending ==
    \A q \in Request : IF request[q].pc = "idle" THEN request[q].key = None
                                                 ELSE request[q].reply = "none"

LEMMA PendingNext ==
    ASSUME Typed, Pending, [Next]_vars
    PROVE  Pending'
<1>1. \A reply \in Replies :
        Idle(reply).pc = "idle" /\ Idle(reply).key = None
  BY DEF Idle
<1>2. ASSUME NEW q \in Request, RequestStep(q) \/ HangUp(q)
      PROVE  Pending'
  <2>1. \A p \in Request \ {q} : request'[p] = request[p]
    BY <1>2 DEF RequestStep, GetHit, GetMiss, JoinRefresh, StartRefresh,
       DoneClosed, Cancelled, TimedOut, RegetFails, RegetHit, RegetMiss,
       Answer, Wait, HangUp, Typed, TypeOK
  <2>2. request[q] \in Locals /\ q \in DOMAIN request
    BY DEF Typed, TypeOK
  <2>3. CASE request'[q].pc = "idle" /\ request'[q].key = None
    BY <2>1, <2>3 DEF Pending
  <2>4. CASE request'[q].pc # "idle" /\ request[q].pc # "idle"
             /\ request'[q].reply = request[q].reply
    BY <2>1, <2>4 DEF Pending
  <2>5. CASE \E reply \in Replies : Answer(q, reply)
    BY <1>1, <2>2, <2>3, <2>5 DEF Answer
  <2>6. CASE GetMiss(q) \/ DoneClosed(q)
    <3>1. CASE GetMiss(q)
      BY <2>2, <2>4, <3>1 DEF GetMiss, Locals
    <3>2. CASE DoneClosed(q)
      BY <2>2, <2>4, <3>2 DEF DoneClosed, Locals
    <3> QED
      BY <2>6, <3>1, <3>2
  <2>7. CASE JoinRefresh(q) \/ \E r \in Refresh : StartRefresh(q, r)
    <3>1. PICK r : request[q].pc = "start" /\ Wait(q, r)
      <4>1. CASE JoinRefresh(q)
        BY <4>1 DEF JoinRefresh
      <4>2. ASSUME NEW r \in Refresh, StartRefresh(q, r)
            PROVE  request[q].pc = "start" /\ Wait(q, r)
        BY <4>2 DEF StartRefresh
      <4> QED
        BY <2>7, <4>1, <4>2
    <3>2. request'[q].pc = "wait" /\ request'[q].reply = request[q].reply
      BY <2>2, <3>1 DEF Wait, Locals
    <3> QED
      BY <2>4, <3>1, <3>2
  <2>8. CASE HangUp(q)
    BY <2>2, <2>4, <2>8 DEF HangUp, Locals
  <2> QED
    BY <1>2, <2>5, <2>6, <2>7, <2>8
       DEF RequestStep, GetHit, Cancelled, TimedOut, RegetFails, RegetHit,
           RegetMiss, Replies
<1>3. ASSUME NEW q \in Request, NEW k \in Key, Arrive(q, k)
      PROVE  Pending'
  BY <1>3 DEF Arrive, Idle, Pending, Typed, TypeOK
<1>4. CASE Tick
  BY <1>4, TickMoves DEF Pending
<1>5. CASE Restart
  BY <1>5 DEF Restart, Idle, Pending
<1>6. CASE UNCHANGED request
  BY <1>6 DEF Pending
<1> QED
  BY <1>2, <1>3, <1>4, <1>5, <1>6
     DEF Next, vars, RefreshStep, Sampled, SampleFails, Load, Store, StoreFails,
         CloseDone, SecondMeasurement, BudgetSpent, Forget

LEMMA AlwaysPending == Spec => []Pending
<1>1. Init => Pending
  BY DEF Init, Idle, Pending
<1> QED
  BY <1>1, PendingNext, AlwaysTyped, PTL DEF Spec

\* A request that found its collection finished gets ErrTimeout only when a
\* value had been written: otherwise it is told the cause.
THEOREM CauseIsNotSwallowed == Spec => TimeoutOnlyAfterExpiry
<1> DEFINE Told ==
      \A q \in Request :
          (request[q].pc = "reget" /\ request'[q].reply = "timeout")
          => kept[request[q].key] # Absent
<1>1. Init => NoErrorWrote
  BY DEF Init, NoErrorWrote, Unborn
<1>2. Inv /\ NoErrorWrote /\ Pending /\ [Next]_vars => [Told]_vars
  <2> SUFFICES ASSUME Inv, NoErrorWrote, Pending, [Next]_vars,
                      NEW q \in Request,
                      request[q].pc = "reget", request'[q].reply = "timeout"
               PROVE  kept[request[q].key] # Absent
    OBVIOUS
  <2>1. /\ request[q] \in Locals
        /\ request[q].ref \in Refresh /\ request[q].key \in Key
        /\ refresh[request[q].ref].key = request[q].key
        /\ refresh[request[q].ref].done
        /\ request[q].reply = "none"
    BY DEF Inv, Typed, TypeOK, KeysKnown, Flight, HeldCell, Pending
  <2>2. refresh[request[q].ref].err = "none" => kept[request[q].key] # Absent
    BY <2>1 DEF NoErrorWrote
  <2>3. ASSUME NEW p \in Request, p # q,
               RequestStep(p) \/ HangUp(p) \/ \E k \in Key : Arrive(p, k)
        PROVE  request'[q] = request[q]
    BY <2>3 DEF RequestStep, GetHit, GetMiss, JoinRefresh, StartRefresh,
       DoneClosed, Cancelled, TimedOut, RegetFails, RegetHit, RegetMiss,
       Answer, Wait, HangUp, Arrive, Inv, Typed, TypeOK
  <2>4. CASE RegetMiss(q)
    <3>1. request'[q].reply = IF refresh[request[q].ref].err # "none"
                              THEN "cause" ELSE "timeout"
      BY <2>4 DEF RegetMiss, Answer, Idle, Inv, Typed, TypeOK
    <3> QED
      BY <2>2, <3>1
  <2>5. CASE RegetFails(q) \/ RegetHit(q)
    BY <2>5 DEF RegetFails, RegetHit, Answer, Idle, Inv, Typed, TypeOK
  <2>6. CASE HangUp(q)
    BY <2>1, <2>6 DEF HangUp, Inv, Typed, TypeOK, Locals
  <2>7. CASE Tick
    <3>1. request'[q].reply = request[q].reply
      BY <2>7, TickMoves DEF Inv
    <3> QED
      BY <2>1, <3>1
  <2>8. CASE Restart
    BY <2>8 DEF Restart, Idle
  <2>9. CASE UNCHANGED request
    BY <2>1, <2>9
  <2>10. CASE RequestStep(q) \/ \E k \in Key : Arrive(q, k)
    BY <2>1, <2>4, <2>5, <2>10
       DEF RequestStep, GetHit, GetMiss, JoinRefresh, StartRefresh,
           DoneClosed, Cancelled, TimedOut, Arrive
  <2>11. ASSUME NEW r \in Refresh, RefreshStep(r)
         PROVE  UNCHANGED request
    BY <2>11 DEF RefreshStep, Sampled, SampleFails, Load, Store, StoreFails,
         CloseDone, SecondMeasurement, BudgetSpent, Forget
  <2> QED
    BY <2>1, <2>3, <2>6, <2>7, <2>8, <2>9, <2>10, <2>11 DEF Next, vars
<1>3. Inv /\ NoErrorWrote /\ [Next]_vars => NoErrorWrote'
  BY NoErrorWroteNext
<1> QED
  BY <1>1, <1>2, <1>3, AlwaysInv, AlwaysPending, PTL
     DEF Spec, TimeoutOnlyAfterExpiry

-----------------------------------------------------------------------------
(* The collector implements StatsPromise.                                  *)

Running == [k \in Key |-> inflight[k] # None]

Asked == [q \in Request |-> request[q].key]

Told == [q \in Request |-> Outcome(request[q].reply)]

\* A step of a request is an answer, a new collection, or nothing.
LEMMA PromiseRequest ==
    ASSUME Inv, Pending, NEW q \in Request, RequestStep(q)
    PROVE  [Promise!Next]_(Promise!vars)
<1>1. /\ request \in [Request -> Locals] /\ request[q] \in Locals
      /\ inflight \in [Key -> Refresh \cup {None}]
  BY DEF Inv, Typed, TypeOK
<1>2. request[q].pc # "idle" => request[q].key \in Key /\ request[q].key # None
  BY DEF Inv, Typed, KeysKnown
<1>3. ASSUME NEW reply \in Replies \ {"none"}, Answer(q, reply),
             request[q].pc # "idle",
             Outcome(reply) = "value" => cache[request[q].key] # Absent
      PROVE  [Promise!Next]_(Promise!vars)
  <2>1. /\ Asked' = [Asked EXCEPT ![q] = None]
        /\ Told' = [Told EXCEPT ![q] = Outcome(reply)]
    BY <1>1, <1>3 DEF Answer, Idle, Asked, Told
  <2>2. Outcome(reply) \in {"value", "error"}
    BY <1>3 DEF Outcome
  <2>3. Asked[q] # None /\ Asked[q] = request[q].key
    BY <1>2, <1>3 DEF Asked
  <2>4. Running' = Running /\ UNCHANGED <<cache, kept, taken>>
    BY <1>3 DEF Answer, Running
  <2>5. Promise!Answer(q, Outcome(reply))
    BY <1>3, <2>1, <2>3, <2>4
       DEF Promise!Answer, Promise!Absent, Absent, Running, Asked, Told
  <2> QED
    BY <2>2, <2>5 DEF Promise!Next
<1>4. ASSUME Asked' = Asked, Told' = Told, UNCHANGED <<cache, kept, taken>>,
             inflight' = inflight
      PROVE  [Promise!Next]_(Promise!vars)
  BY <1>4 DEF Promise!vars, Asked, Told
<1>5. ASSUME NEW v \in Locals, request' = [request EXCEPT ![q] = v],
             v.key = request[q].key, v.reply = request[q].reply
      PROVE  Asked' = Asked /\ Told' = Told
  BY <1>1, <1>5 DEF Asked, Told
<1>6. ASSUME NEW r, Wait(q, r), r \in Refresh
      PROVE  Asked' = Asked /\ Told' = Told
  <2> DEFINE v == [request[q] EXCEPT !.pc = "wait", !.ref = r,
                                     !.timer = Timeout]
  <2>1. v \in Locals /\ v.key = request[q].key /\ v.reply = request[q].reply
    BY <1>1, <1>6 DEF Locals
  <2> QED
    BY <1>5, <1>6, <2>1 DEF Wait
<1>7. CASE GetHit(q) \/ RegetHit(q)
  BY <1>3, <1>7 DEF GetHit, RegetHit, Replies
<1>8. CASE Cancelled(q) \/ TimedOut(q) \/ RegetFails(q)
  BY <1>3, <1>8 DEF Cancelled, TimedOut, RegetFails, Replies, Outcome
<1>9. CASE RegetMiss(q)
  BY <1>3, <1>9 DEF RegetMiss, Replies, Outcome
<1>10. CASE GetMiss(q)
  <2> DEFINE v == [request[q] EXCEPT !.pc = "start"]
  <2>1. v \in Locals /\ v.key = request[q].key /\ v.reply = request[q].reply
    BY <1>1 DEF Locals
  <2> QED
    BY <1>4, <1>5, <1>10, <2>1 DEF GetMiss
<1>11. CASE DoneClosed(q)
  <2> DEFINE v == [request[q] EXCEPT !.pc = "reget"]
  <2>1. v \in Locals /\ v.key = request[q].key /\ v.reply = request[q].reply
    BY <1>1 DEF Locals
  <2> QED
    BY <1>4, <1>5, <1>11, <2>1 DEF DoneClosed
<1>12. CASE JoinRefresh(q)
  <2>1. inflight[request[q].key] \in Refresh
    BY <1>1, <1>2, <1>12 DEF JoinRefresh
  <2> QED
    BY <1>4, <1>6, <1>12, <2>1 DEF JoinRefresh
<1>13. ASSUME NEW r \in Refresh, StartRefresh(q, r)
       PROVE  [Promise!Next]_(Promise!vars)
  <2>1. /\ Asked' = Asked /\ Told' = Told
        /\ UNCHANGED <<cache, kept, taken>>
    BY <1>6, <1>13 DEF StartRefresh
  <2>2. request[q].key \in Key /\ r # None
    BY <1>2, <1>13 DEF StartRefresh
  <2>3. PICK k \in Key : k = request[q].key
    BY <2>2
  <2>4. ~ Running[k] /\ Running' = [Running EXCEPT ![k] = TRUE]
    BY <1>1, <1>13, <2>2, <2>3 DEF StartRefresh, Running
  <2>5. Promise!Begin(k)
    BY <2>1, <2>4 DEF Promise!Begin, Running, Asked, Told
  <2> QED
    BY <2>5 DEF Promise!Next
<1> QED
  BY <1>7, <1>8, <1>9, <1>10, <1>11, <1>12, <1>13 DEF RequestStep

\* A step of a collection takes a sample, writes, ends, or is unseen.
LEMMA PromiseRefresh ==
    ASSUME Inv, NEW r \in Refresh, RefreshStep(r)
    PROVE  [Promise!Next]_(Promise!vars)
<1>0. PICK k \in Key : k = refresh[r].key
  BY CellMoves DEF Inv, Flight
<1>1. /\ inflight[k] = r /\ r # None
      /\ inflight \in [Key -> Refresh \cup {None}]
      /\ request' = request
  BY <1>0, CellMoves DEF Inv, Flight, SingleFlight, Typed, TypeOK
<1>2. Asked' = Asked /\ Told' = Told
  BY <1>1 DEF Asked, Told
<1>3. Running[k]
  BY <1>1 DEF Running
<1>4. CASE Sampled(r)
  <2>1. Promise!Measure
    BY <1>2, <1>4 DEF Sampled, Promise!Measure, Asked, Told
  <2> QED
    BY <2>1 DEF Promise!Next
<1>5. CASE Store(r)
  <2> DEFINE b == refresh[r].loaded
             s == refresh[r].sample
  <2>1. /\ cache' = [cache EXCEPT ![k] = Extend(b, s)]
        /\ kept' = [kept EXCEPT ![k] = Extend(b, s)]
        /\ UNCHANGED <<taken, inflight>>
    BY <1>0, <1>5 DEF Store
  <2>2. /\ b \in {Absent, kept[k]}
        /\ s \in 1 .. taken
        /\ s > Newest(kept[k])
    BY <1>0, <1>5 DEF Store, Inv, Buffers, NoLostUpdate, SampleTaken, Typed, TypeOK,
                KeysKnown, Cell
  <2>3. Promise!Extend(b, s) = Extend(b, s)
    BY DEF Promise!Extend, Extend
  <2>4. Promise!Newest(kept[k]) = Newest(kept[k]) /\ Promise!Absent = Absent
    BY DEF Promise!Newest, Newest, Promise!Absent, Absent
  <2>5. Promise!Write(k)
    <3> HIDE DEF b, s
    <3> QED
      BY <1>2, <1>3, <2>1, <2>2, <2>3, <2>4
         DEF Promise!Write, Running, Asked, Told
  <2> QED
    BY <2>5 DEF Promise!Next
<1>6. CASE Forget(r)
  <2>1. Running' = [Running EXCEPT ![k] = FALSE]
    BY <1>0, <1>1, <1>6 DEF Forget, Running
  <2>2. Promise!End(k)
    BY <1>2, <1>3, <1>6, <2>1 DEF Forget, Promise!End, Running, Asked, Told
  <2> QED
    BY <2>2 DEF Promise!Next
<1>7. CASE UNCHANGED <<cache, kept, taken, inflight>>
  BY <1>2, <1>7 DEF Promise!vars, Asked, Told
<1> QED
  BY <1>4, <1>5, <1>6, <1>7
     DEF RefreshStep, SampleFails, Load, StoreFails, CloseDone,
         SecondMeasurement, BudgetSpent

LEMMA PromiseEnvironment ==
    ASSUME Inv, Pending,
           \/ \E q \in Request, k \in Key : Arrive(q, k)
           \/ \E q \in Request : HangUp(q)
           \/ Tick
           \/ Restart
    PROVE  [Promise!Next]_(Promise!vars)
<1>1. request \in [Request -> Locals] /\ None \notin Key
  BY DEF Inv, Typed, TypeOK
<1>2. ASSUME NEW q \in Request, NEW k \in Key, Arrive(q, k)
      PROVE  [Promise!Next]_(Promise!vars)
  <2> DEFINE v == [Idle("none") EXCEPT !.pc = "get", !.key = k]
  <2>1. v.key = k /\ v.reply = "none"
    BY DEF Idle
  <2>2. request' = [request EXCEPT ![q] = v]
    BY <1>2 DEF Arrive
  <2>3. Asked' = [Asked EXCEPT ![q] = k]
    BY <1>1, <2>1, <2>2 DEF Asked
  <2>4. Told' = [Told EXCEPT ![q] = "none"]
    BY <1>1, <2>1, <2>2 DEF Told, Outcome
  <2>5. Asked[q] = None
    BY <1>2 DEF Arrive, Pending, Asked
  <2>6. UNCHANGED <<cache, kept, taken, inflight>>
    BY <1>2 DEF Arrive
  <2>7. Promise!Ask(q, k)
    BY <2>3, <2>4, <2>5, <2>6 DEF Promise!Ask, Asked, Told
  <2> QED
    BY <2>7 DEF Promise!Next
<1>3. ASSUME NEW q \in Request, HangUp(q)
      PROVE  [Promise!Next]_(Promise!vars)
  <2> DEFINE v == [request[q] EXCEPT !.gone = TRUE]
  <2>1. v.key = request[q].key /\ v.reply = request[q].reply
    BY <1>1 DEF Locals
  <2>2. request' = [request EXCEPT ![q] = v]
    BY <1>3 DEF HangUp
  <2>3. Asked' = Asked /\ Told' = Told
    BY <1>1, <2>1, <2>2 DEF Asked, Told
  <2> QED
    BY <1>3, <2>3 DEF HangUp, Promise!vars, Asked, Told
<1>4. CASE Tick
  <2>0. PICK ks \in SUBSET Key : ks = {k \in Key : ttl[k] <= 1}
    OBVIOUS
  <2>1. Asked' = Asked /\ Told' = Told /\ Running' = Running
    BY <1>4, TickMoves DEF Inv, Asked, Told, Running
  <2>2. cache' = [k \in Key |-> IF k \in ks THEN Absent ELSE cache[k]]
    BY <1>4, <2>0 DEF Tick
  <2>3. UNCHANGED <<kept, taken>>
    BY <1>4 DEF Tick
  <2>4. Promise!Expire(ks)
    BY <2>1, <2>2, <2>3
       DEF Promise!Expire, Promise!Absent, Absent, Asked, Told, Running
  <2> QED
    BY <2>4 DEF Promise!Next
<1>5. CASE Restart
  <2>1. Running' = [k \in Key |-> FALSE] /\ UNCHANGED <<cache, kept, taken>>
    BY <1>5 DEF Restart, Running
  <2>2. \A q \in Request :
           request'[q] = IF request[q].pc = "idle" THEN request[q]
                                                   ELSE Idle("reset")
    BY <1>5 DEF Restart
  <2>3. \A q \in Request : request[q].pc = "idle" <=> Asked[q] = None
    BY <1>1 DEF Pending, Asked, Inv, Typed, KeysKnown
  <2>4. Asked' = [q \in Request |-> None]
    BY <2>2, <2>3 DEF Asked, Idle
  <2>5. Told' = [q \in Request |-> IF Asked[q] = None THEN Told[q] ELSE "error"]
    BY <2>2, <2>3 DEF Told, Idle, Outcome
  <2>6. Promise!Restart
    BY <2>1, <2>4, <2>5 DEF Promise!Restart, Asked, Told, Running
  <2> QED
    BY <2>6 DEF Promise!Next
<1> QED
  BY <1>2, <1>3, <1>4, <1>5

\* For any number of keys, requests and cells: the collector does nothing that
\* StatsPromise does not allow.
THEOREM KeepsPromise == Spec => PromiseKept
<1>1. Init => Promise!Init
  <2> SUFFICES ASSUME Init
               PROVE  Promise!Init
    OBVIOUS
  <2>1. Running = [k \in Key |-> FALSE]
    BY DEF Init, Running
  <2>2. Asked = [q \in Request |-> None] /\ Told = [q \in Request |-> "none"]
    BY DEF Init, Idle, Asked, Told, Outcome
  <2> QED
    BY <2>1, <2>2 DEF Init, Promise!Init, Promise!Absent, Absent, Running,
                      Asked, Told
<1>2. Inv /\ Pending /\ [Next]_vars => [Promise!Next]_(Promise!vars)
  <2> SUFFICES ASSUME Inv, Pending, [Next]_vars
               PROVE  [Promise!Next]_(Promise!vars)
    OBVIOUS
  <2>1. CASE UNCHANGED vars
    BY <2>1 DEF vars, Promise!vars
  <2> QED
    BY <2>1, PromiseRequest, PromiseRefresh, PromiseEnvironment DEF Next
<1> QED
  BY <1>1, <1>2, AlwaysInv, AlwaysPending, PTL
     DEF Spec, PromiseKept, Promise!Spec
============================================================================
