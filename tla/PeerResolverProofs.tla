------------------------- MODULE PeerResolverProofs ------------------------
(***************************************************************************)
(* Proofs about PeerResolver: its types, how old what it says may be, and  *)
(* how often it asks Docker.                                               *)
(***************************************************************************)
EXTENDS PeerResolver, TLAPS

USE ConstantsAssumption

Steps == {"idle", "lock", "cache", "list", "listed", "dns", "log"}

\* The steps that hold the error log's mutex.
Holding == Steps \ {"idle", "lock"}

\* The steps of resolve, which the deadline bounds.
Resolving == {"list", "listed", "dns"}

LEMMA HorizonIsNat ==
    /\ Horizon \in Nat /\ Timeout < Horizon /\ TTL < Horizon
    /\ 0 \in 0 .. TTL
BY DEF Horizon

-----------------------------------------------------------------------------
(* Types.                                                                  *)

LEMMA OlderType ==
    ASSUME NEW cap \in Nat, NEW age \in 0 .. cap
    PROVE  /\ Older(age, cap) \in 0 .. cap
           /\ Older(age, cap) <= age + 1
           /\ Older(age, cap) >= age
           /\ Older(age, cap) < cap => Older(age, cap) = age + 1
BY DEF Older

LEMMA IdleType == Idle \in Call
BY DEF Idle, Call, NothingFound, Owner, Peer

LEMMA TypedInit == Init => TypeOK
BY IdleType, HorizonIsNat DEF Init, TypeOK, Entry, Owner, Peer

LEMMA TypedRecycle ==
    ASSUME TypeOK, NEW ip \in IP, NEW c \in Owner, Recycle(ip, c)
    PROVE  TypeOK'
BY HorizonIsNat DEF Recycle, TypeOK

\* A call that still waits at a tick had time left.
LEMMA TimeLeft ==
    ASSUME TypeOK, Tick, NEW w \in Writer, call[w].pc \in Resolving
    PROVE  /\ Older(call[w].spent, Timeout + 1) = call[w].spent + 1
           /\ call[w].spent + 1 \in 0 .. Timeout
<1>1. call[w] \in Call
  BY DEF TypeOK
<1>2. ~ Deadline(w)
  BY DEF Tick
<1>3. call[w].spent \in 0 .. Timeout /\ call[w].spent # Timeout
  BY <1>1, <1>2 DEF Deadline, Resolving, Call
<1> QED
  BY <1>3, ConstantsAssumption DEF Older

LEMMA TypedTick ==
    ASSUME TypeOK, Tick
    PROVE  TypeOK'
<1>1. since' \in [IP -> [Owner -> 0 .. Horizon]]
  <2>1. \A ip \in IP, c \in Owner : since[ip][c] \in 0 .. Horizon
    BY DEF TypeOK
  <2>2. \A ip \in IP, c \in Owner :
            Older(since[ip][c], Horizon) \in 0 .. Horizon
    BY <2>1, OlderType, HorizonIsNat
  <2>3. since' = [ip \in IP |-> [c \in Owner |->
            IF owner[ip] = c THEN 0 ELSE Older(since[ip][c], Horizon)]]
    BY DEF Tick
  <2> QED
    BY <2>2, <2>3, HorizonIsNat
<1>2. asked' \in [IP -> 0 .. TTL]
  BY OlderType DEF Tick, TypeOK
<1>3. entries' \in [IP -> Entry]
  BY OlderType DEF Tick, TypeOK, Entry
<1>4. call' \in [Writer -> Call]
  <2> SUFFICES ASSUME NEW w \in Writer
               PROVE  call'[w] \in Call
    BY DEF Tick
  <2>1. call[w] \in Call
    BY DEF TypeOK
  <2>2. call[w].pc \in Resolving => call[w].spent + 1 \in 0 .. Timeout
    BY TimeLeft
  <2>3. Older(call[w].waited, Patience) \in 0 .. Patience
    BY <2>1, OlderType DEF Call
  <2>4. call'[w] = [call[w] EXCEPT
            !.spent = IF call[w].pc \in Resolving
                      THEN call[w].spent + 1 ELSE call[w].spent,
            !.waited = IF call[w].pc = "idle" THEN call[w].waited
                       ELSE Older(call[w].waited, Patience)]
    BY TimeLeft DEF Tick, Resolving
  <2> QED
    BY <2>1, <2>2, <2>3, <2>4 DEF Call
<1> QED
  BY <1>1, <1>2, <1>3, <1>4 DEF Tick, TypeOK

WriterStep(w) ==
    \/ \E ip \in IP \cup {None} : LogLine(w, ip)
    \/ Acquire(w) \/ CacheHit(w) \/ CacheMiss(w)
    \/ Snapshot(w) \/ ListReturns(w) \/ ListFails(w)
    \/ Resolved(w) \/ Report(w)

\* What a call in progress knows.
Sound(w) ==
    /\ call[w].pc \in {"cache"} \cup Resolving => call[w].ip \in IP
    /\ call[w].pc \in {"lock", "cache", "list", "listed"}
          => call[w].peer = Unlisted
    /\ call[w].pc = "listed" => \A ip \in IP :
          since[ip][call[w].found[ip]] <= call[w].spent
    /\ call[w].pc = "dns" /\ call[w].peer # Unlisted
          => since[call[w].ip][call[w].peer] <= call[w].spent
    /\ call[w].pc = "log" /\ call[w].ip # None
          => Recent(call[w].ip, call[w].peer)

\* An entry was true at most Timeout before it was stored.
Accurate(ip) ==
    entries[ip].age < TTL /\ entries[ip].peer # Unlisted
    => since[ip][entries[ip].peer] <= entries[ip].age + Timeout

Ages ==
    /\ \A ip \in IP : since[ip][owner[ip]] = 0
    /\ \A ip \in IP : Accurate(ip)
    /\ \A w \in Writer : Sound(w)

Typed == TypeOK /\ Ages

LEMMA AgesInit == Init => Ages
BY HorizonIsNat DEF Init, Ages, Accurate, Sound, Idle, Resolving, Owner

LEMMA AgesRecycle ==
    ASSUME TypeOK, Ages, NEW ip \in IP, NEW c \in Owner, Recycle(ip, c)
    PROVE  Ages'
<1>1. \A i \in IP, o \in Owner :
          /\ since'[i][o] \in 0 .. Horizon
          /\ since'[i][o] <= since[i][o]
  BY HorizonIsNat DEF Recycle, TypeOK
<1>2. \A i \in IP : since'[i][owner'[i]] = 0
  BY DEF Recycle, TypeOK, Ages
<1>3. \A i \in IP : Accurate(i)'
  <2> SUFFICES ASSUME NEW i \in IP
               PROVE  Accurate(i)'
    OBVIOUS
  <2>1. Accurate(i) /\ entries[i] \in Entry /\ entries' = entries
    BY DEF Ages, TypeOK, Recycle
  <2>2. entries[i].peer # Unlisted => entries[i].peer \in Owner
    BY <2>1 DEF Entry, Peer
  <2>3. \A o \in Owner : since[i][o] \in Nat
    BY HorizonIsNat DEF TypeOK
  <2> QED
    BY <1>1, <2>1, <2>2, <2>3 DEF Accurate, Entry
<1>4. \A w \in Writer : Sound(w)'
  <2> SUFFICES ASSUME NEW w \in Writer
               PROVE  Sound(w)'
    OBVIOUS
  <2>1. Sound(w) /\ call[w] \in Call /\ call' = call
    BY DEF Ages, TypeOK, Recycle
  <2>2. call[w].peer # Unlisted => call[w].peer \in Owner
    BY <2>1 DEF Call, Peer
  <2>3. \A i \in IP, o \in Owner : since[i][o] \in Nat
    BY HorizonIsNat DEF TypeOK
  <2>4. /\ \A i \in IP : call[w].found[i] \in Owner
        /\ call[w].ip = None \/ call[w].ip \in IP
        /\ call[w].spent \in Nat
    BY <2>1 DEF Call
  <2>5. call[w].pc = "listed" => \A i \in IP :
            since'[i][call[w].found[i]] <= call[w].spent
    BY <1>1, <2>1, <2>3, <2>4 DEF Sound
  <2>6. call[w].pc = "dns" /\ call[w].peer # Unlisted
            => since'[call[w].ip][call[w].peer] <= call[w].spent
    BY <1>1, <2>1, <2>2, <2>3, <2>4 DEF Sound, Resolving
  <2>7. call[w].pc = "log" /\ call[w].ip # None
            => Recent(call[w].ip, call[w].peer)'
    BY <1>1, <2>1, <2>2, <2>3, <2>4, HorizonIsNat DEF Sound, Recent
  <2> QED
    BY <2>1, <2>5, <2>6, <2>7 DEF Sound
<1> QED
  BY <1>2, <1>3, <1>4 DEF Ages

LEMMA AgesTick ==
    ASSUME TypeOK, Ages, Tick
    PROVE  Ages'
<1>1. \A i \in IP, o \in Owner :
          /\ since[i][o] \in 0 .. Horizon
          /\ since'[i][o] \in 0 .. Horizon
          /\ since'[i][o] <= since[i][o] + 1
  <2> SUFFICES ASSUME NEW i \in IP, NEW o \in Owner
               PROVE  /\ since[i][o] \in 0 .. Horizon
                      /\ since'[i][o] \in 0 .. Horizon
                      /\ since'[i][o] <= since[i][o] + 1
    OBVIOUS
  <2>1. since[i][o] \in 0 .. Horizon
    BY DEF TypeOK
  <2>2. since'[i][o] = IF owner[i] = o THEN 0
                       ELSE Older(since[i][o], Horizon)
    BY DEF Tick
  <2>3. CASE owner[i] = o
    BY <2>1, <2>2, <2>3, HorizonIsNat
  <2>4. CASE owner[i] # o
    <3>1. since'[i][o] = Older(since[i][o], Horizon)
      BY <2>2, <2>4
    <3> QED
      BY <2>1, <3>1, OlderType, HorizonIsNat
  <2> QED
    BY <2>3, <2>4
<1>2. \A i \in IP : since'[i][owner'[i]] = 0
  BY DEF Tick, TypeOK
<1>3. \A i \in IP : Accurate(i)'
  <2> SUFFICES ASSUME NEW i \in IP
               PROVE  Accurate(i)'
    OBVIOUS
  <2>1. Accurate(i) /\ entries[i] \in Entry
    BY DEF Ages, TypeOK
  <2>2. entries[i].peer # Unlisted => entries[i].peer \in Owner
    BY <2>1 DEF Entry, Peer
  <2>3. /\ entries'[i].peer = entries[i].peer
        /\ entries'[i].age = Older(entries[i].age, TTL)
    BY <2>1 DEF Tick, Entry
  <2>4. /\ entries[i].age \in 0 .. TTL
        /\ entries'[i].age \in 0 .. TTL
        /\ entries'[i].age < TTL => entries'[i].age = entries[i].age + 1
    BY <2>1, <2>3, OlderType DEF Entry
  <2> QED
    BY <1>1, <2>1, <2>2, <2>3, <2>4 DEF Accurate
<1>4. \A w \in Writer : Sound(w)'
  <2> SUFFICES ASSUME NEW w \in Writer
               PROVE  Sound(w)'
    OBVIOUS
  <2>1. Sound(w) /\ call[w] \in Call /\ ~ Runnable(w)
    BY DEF Ages, TypeOK, Tick
  <2>2. /\ call'[w].pc = call[w].pc
        /\ call'[w].ip = call[w].ip
        /\ call'[w].found = call[w].found
        /\ call'[w].peer = call[w].peer
        /\ call[w].pc \in Resolving => call'[w].spent = call[w].spent + 1
    BY <2>1, TimeLeft DEF Tick, Call, Resolving
  <2>3. /\ \A i \in IP : call[w].found[i] \in Owner
        /\ call[w].peer # Unlisted => call[w].peer \in Owner
        /\ call[w].spent \in Nat
    BY <2>1 DEF Call, Peer
  <2>4. call[w].pc = "listed" => \A i \in IP :
            since'[i][call[w].found[i]] <= call'[w].spent
    BY <1>1, <2>1, <2>2, <2>3 DEF Sound, Resolving
  <2>5. call[w].pc = "dns" /\ call[w].peer # Unlisted
            => since'[call[w].ip][call[w].peer] <= call'[w].spent
    BY <1>1, <2>1, <2>2, <2>3 DEF Sound, Resolving
  <2>6. call[w].pc # "log"
    BY <2>1 DEF Runnable
  <2> QED
    BY <2>1, <2>2, <2>4, <2>5, <2>6 DEF Sound
<1> QED
  BY <1>2, <1>3, <1>4 DEF Ages

-----------------------------------------------------------------------------
(* One writer takes a step.                                                *)


\* A step of one writer keeps types and ages when its own call and the entries
\* it leaves are well typed, sound and accurate.
LEMMA OneWriter ==
    ASSUME Typed, NEW w \in Writer, NEW v \in Call,
           call' = [call EXCEPT ![w] = v],
           UNCHANGED <<owner, since>>,
           asked' \in [IP -> 0 .. TTL], holder' \in Writer \cup {None},
           entries' \in [IP -> Entry],
           \A ip \in IP : Accurate(ip)', Sound(w)'
    PROVE  Typed'
<1>1. \A o \in Writer : o # w => call'[o] = call[o]
  BY DEF Typed, TypeOK
<1>2. \A o \in Writer : o # w => Sound(o)'
  BY <1>1 DEF Typed, Ages, Sound, Recent
<1>3. call' \in [Writer -> Call]
  BY DEF Typed, TypeOK
<1> QED
  BY <1>2, <1>3 DEF Typed, TypeOK, Ages

\* The same when the entries are left alone.
LEMMA OneWriterAlone ==
    ASSUME Typed, NEW w \in Writer, NEW v \in Call,
           call' = [call EXCEPT ![w] = v],
           UNCHANGED <<owner, since, entries>>,
           asked' \in [IP -> 0 .. TTL], holder' \in Writer \cup {None},
           Sound(w)'
    PROVE  Typed'
<1>1. entries' \in [IP -> Entry] /\ \A ip \in IP : Accurate(ip)'
  BY DEF Typed, TypeOK, Ages, Accurate
<1> QED
  BY <1>1, OneWriter

LEMMA TypedWriter ==
    ASSUME Typed, NEW w \in Writer, WriterStep(w)
    PROVE  Typed'
<1>1. /\ call[w] \in Call /\ Sound(w) /\ call \in [Writer -> Call]
      /\ asked \in [IP -> 0 .. TTL] /\ holder \in Writer \cup {None}
      /\ entries \in [IP -> Entry]
      /\ \A ip \in IP : Accurate(ip)
  BY DEF Typed, TypeOK, Ages
<1>2. \A ip \in IP, o \in Owner : since[ip][o] \in 0 .. Horizon
  BY DEF Typed, TypeOK
<1>3. ASSUME NEW ip \in IP \cup {None}, LogLine(w, ip)
      PROVE  Typed'
  <2> DEFINE v == [Idle EXCEPT !.pc = "lock", !.ip = ip]
  <2>1. v \in Call /\ v.pc = "lock" /\ v.peer = Unlisted
    BY IdleType DEF Call, Idle
  <2>2. call' = [call EXCEPT ![w] = v] /\ call'[w] = v
    BY <1>1, <1>3 DEF LogLine
  <2>3. Sound(w)'
    BY <2>1, <2>2 DEF Sound, Resolving
  <2> HIDE DEF v
  <2> QED
    BY <1>1, <1>3, <2>1, <2>2, <2>3, OneWriterAlone DEF LogLine
<1>4. CASE Acquire(w)
  <2> DEFINE v == [call[w] EXCEPT
          !.pc = IF call[w].ip = None THEN "log" ELSE "cache"]
  <2>1. /\ v \in Call /\ v.ip = call[w].ip /\ v.peer = call[w].peer
        /\ v.pc = IF call[w].ip = None THEN "log" ELSE "cache"
    BY <1>1 DEF Call
  <2>2. call' = [call EXCEPT ![w] = v] /\ call'[w] = v
    BY <1>1, <1>4 DEF Acquire
  <2>3. call[w].ip \in IP \cup {None} /\ call[w].pc = "lock"
    BY <1>1, <1>4 DEF Call, Acquire
  <2> HIDE DEF v
  <2>4. Sound(w)'
    BY <1>1, <2>1, <2>2, <2>3 DEF Sound, Resolving
  <2> QED
    BY <1>1, <1>4, <2>1, <2>2, <2>4, OneWriterAlone DEF Acquire
<1>5. CASE CacheHit(w)
  <2> DEFINE ip == call[w].ip
             v == [call[w] EXCEPT !.pc = "log", !.peer = entries[ip].peer]
  <2>1. /\ ip \in IP /\ entries[ip] \in Entry
        /\ Accurate(ip) /\ entries[ip].age < TTL
    BY <1>1, <1>5 DEF CacheHit, Fresh, Sound
  <2>2. /\ v \in Call /\ v.pc = "log"
        /\ v.ip = ip /\ v.peer = entries[ip].peer
    BY <1>1, <2>1 DEF Call, Entry
  <2>3. call' = [call EXCEPT ![w] = v] /\ call'[w] = v /\ since' = since
    BY <1>1, <1>5 DEF CacheHit
  <2>4. Recent(ip, entries[ip].peer)
    <3>1. entries[ip].peer # Unlisted => entries[ip].peer \in Owner
      BY <2>1 DEF Entry, Peer
    <3>2. entries[ip].age \in Nat
      BY <2>1 DEF Entry
    <3> QED
      BY <1>2, <2>1, <3>1, <3>2, HorizonIsNat DEF Recent, Accurate, Horizon
  <2> HIDE DEF v, ip
  <2>5. Sound(w)'
    BY <2>2, <2>3, <2>4 DEF Sound, Resolving, Recent
  <2> QED
    BY <1>1, <1>5, <2>2, <2>3, <2>5, OneWriterAlone DEF CacheHit
<1>6. CASE CacheMiss(w)
  <2> DEFINE v == [call[w] EXCEPT !.pc = "list"]
  <2>1. v \in Call /\ v.pc = "list" /\ v.ip = call[w].ip /\ v.peer = call[w].peer
    BY <1>1 DEF Call
  <2>2. call' = [call EXCEPT ![w] = v] /\ call'[w] = v
    BY <1>1, <1>6 DEF CacheMiss
  <2>3. call[w].ip \in IP /\ call[w].peer = Unlisted
    BY <1>1, <1>6 DEF CacheMiss, Sound
  <2> HIDE DEF v
  <2>4. Sound(w)'
    BY <2>1, <2>2, <2>3 DEF Sound
  <2>5. asked' \in [IP -> 0 .. TTL]
    <3>1. asked' = [asked EXCEPT ![call[w].ip] = 0]
      BY <1>6 DEF CacheMiss
    <3> QED
      BY <1>1, <3>1, HorizonIsNat
  <2> QED
    BY <1>1, <1>6, <2>1, <2>2, <2>4, <2>5, OneWriterAlone DEF CacheMiss
<1>7. CASE Snapshot(w)
  <2> DEFINE v == [call[w] EXCEPT !.pc = "listed", !.found = owner]
  <2>1. owner \in [IP -> Owner]
    BY DEF Typed, TypeOK
  <2>2. /\ v \in Call /\ v.pc = "listed" /\ v.ip = call[w].ip
        /\ v.peer = call[w].peer /\ v.found = owner /\ v.spent = call[w].spent
    BY <1>1, <2>1 DEF Call
  <2>3. call' = [call EXCEPT ![w] = v] /\ call'[w] = v /\ since' = since
    BY <1>1, <1>7 DEF Snapshot
  <2>4. call[w].ip \in IP /\ call[w].peer = Unlisted /\ call[w].spent \in Nat
    BY <1>1, <1>7 DEF Snapshot, Sound, Resolving, Call
  <2>5. \A ip \in IP : since[ip][owner[ip]] = 0
    BY DEF Typed, Ages
  <2> HIDE DEF v
  <2>6. Sound(w)'
    BY <2>2, <2>3, <2>4, <2>5 DEF Sound
  <2> QED
    BY <1>1, <1>7, <2>2, <2>3, <2>6, OneWriterAlone DEF Snapshot
<1>8. CASE ListReturns(w)
  <2> DEFINE ip     == call[w].ip
             found  == call[w].found
             listed == {i \in IP : found[i] # Nobody}
             v == [call[w] EXCEPT
                     !.pc = IF ip \in listed THEN "log" ELSE "dns",
                     !.found = NothingFound,
                     !.peer = found[ip]]
  <2>1. /\ ip \in IP /\ found \in [IP -> Owner]
        /\ call[w].spent \in 0 .. Timeout
        /\ \A i \in IP : since[i][found[i]] <= call[w].spent
    BY <1>1, <1>8 DEF ListReturns, Sound, Resolving, Call
  <2>2. /\ v \in Call /\ v.pc \in {"log", "dns"} /\ v.ip = ip
        /\ v.peer = found[ip] /\ v.spent = call[w].spent
    <3>1. NothingFound \in [IP -> Owner]
      BY DEF NothingFound, Owner
    <3>2. found[ip] \in Peer /\ call[w] \in Call /\ ip = call[w].ip
      BY <1>1, <2>1 DEF Peer
    <3> HIDE DEF ip, found, listed
    <3> QED
      BY <3>1, <3>2 DEF Call
  <2>3. call' = [call EXCEPT ![w] = v] /\ call'[w] = v /\ since' = since
    BY <1>1, <1>8 DEF ListReturns
  <2>4. \A i \in IP : entries'[i] = IF i \in listed
            THEN [peer |-> found[i], age |-> 0] ELSE entries[i]
    BY <1>8 DEF ListReturns
  <2>5. entries' \in [IP -> Entry]
    <3>1. \A i \in IP : [peer |-> found[i], age |-> 0] \in Entry
      BY <2>1, HorizonIsNat DEF Entry, Peer
    <3>2. entries' = [i \in IP |-> IF i \in listed
              THEN [peer |-> found[i], age |-> 0] ELSE entries[i]]
      BY <1>8 DEF ListReturns
    <3> QED
      BY <1>1, <3>1, <3>2
  <2>6. asked' \in [IP -> 0 .. TTL]
    BY <1>1, <1>8 DEF ListReturns
  <2>7. \A i \in IP : since[i][found[i]] \in 0 .. Timeout
    <3> SUFFICES ASSUME NEW i \in IP
                 PROVE  since[i][found[i]] \in 0 .. Timeout
      OBVIOUS
    <3>1. found[i] \in Owner
      BY <2>1
    <3>2. since[i][found[i]] \in Nat
      BY <1>2, <3>1, HorizonIsNat
    <3> QED
      BY <2>1, <3>2
  <2>8. Recent(ip, found[ip])
    BY <2>1, <2>7, HorizonIsNat DEF Recent
  <2> HIDE DEF ip, found, listed, v
  <2>9. \A i \in IP : Accurate(i)'
    <3> SUFFICES ASSUME NEW i \in IP
                 PROVE  Accurate(i)'
      OBVIOUS
    <3>1. CASE i \in listed
      <4>1. entries'[i].peer = found[i] /\ entries'[i].age = 0
        <5>1. entries'[i] = [peer |-> found[i], age |-> 0]
          BY <2>4, <3>1
        <5> QED
          BY <5>1
      <4>2. since'[i][entries'[i].peer] <= Timeout
        BY <2>3, <2>7, <4>1
      <4>3. entries'[i].age + Timeout = Timeout
        BY <4>1
      <4> QED
        BY <4>2, <4>3 DEF Accurate
    <3>2. CASE i \notin listed
      BY <1>1, <2>3, <2>4, <3>2 DEF Accurate
    <3> QED
      BY <3>1, <3>2
  <2>10. Sound(w)'
    BY <2>1, <2>2, <2>3, <2>8 DEF Sound, Recent
  <2>11. holder' = holder /\ owner' = owner
    BY <1>8 DEF ListReturns
  <2> QED
    BY <1>1, <2>2, <2>3, <2>5, <2>6, <2>9, <2>10, <2>11, OneWriter
<1>9. CASE ListFails(w)
  <2> DEFINE v == [call[w] EXCEPT !.pc = "dns", !.found = NothingFound]
  <2>1. v \in Call /\ v.pc = "dns" /\ v.ip = call[w].ip /\ v.peer = call[w].peer
    BY <1>1 DEF Call, NothingFound, Owner
  <2>2. call' = [call EXCEPT ![w] = v] /\ call'[w] = v
    BY <1>1, <1>9 DEF ListFails
  <2>3. call[w].ip \in IP /\ call[w].peer = Unlisted
    BY <1>1, <1>9 DEF ListFails, Sound, Resolving
  <2> HIDE DEF v
  <2>4. Sound(w)'
    BY <2>1, <2>2, <2>3 DEF Sound
  <2> QED
    BY <1>1, <1>9, <2>1, <2>2, <2>4, OneWriterAlone DEF ListFails
<1>10. CASE Resolved(w)
  <2> DEFINE ip == call[w].ip
             v == [call[w] EXCEPT !.pc = "log"]
             e == [peer |-> call[w].peer, age |-> 0]
  <2>1. ip \in IP /\ call[w].peer \in Peer /\ call[w].spent \in 0 .. Timeout
    BY <1>1, <1>10 DEF Resolved, Sound, Resolving, Call
  <2>2. call[w].peer # Unlisted => since[ip][call[w].peer] \in 0 .. Timeout
    BY <1>1, <1>2, <1>10, <2>1 DEF Resolved, Sound, Peer
  <2>3. v \in Call /\ v.pc = "log" /\ v.ip = ip /\ v.peer = call[w].peer
    BY <1>1 DEF Call
  <2>4. e \in Entry /\ e.peer = call[w].peer /\ e.age = 0
    BY <2>1 DEF Entry
  <2>5. call' = [call EXCEPT ![w] = v] /\ call'[w] = v /\ since' = since
    BY <1>1, <1>10 DEF Resolved
  <2>6. /\ entries' \in [IP -> Entry] /\ entries'[ip] = e
        /\ \A i \in IP \ {ip} : entries'[i] = entries[i]
    BY <1>1, <1>10, <2>1, <2>4 DEF Resolved
  <2>7. asked' = asked /\ holder' = holder /\ owner' = owner
    BY <1>10 DEF Resolved
  <2> HIDE DEF ip, v, e
  <2>8. \A i \in IP : Accurate(i)'
    <3> SUFFICES ASSUME NEW i \in IP
                 PROVE  Accurate(i)'
      OBVIOUS
    <3>1. CASE i = ip
      BY <2>2, <2>4, <2>5, <2>6, <3>1 DEF Accurate
    <3>2. CASE i # ip
      BY <1>1, <2>5, <2>6, <3>2 DEF Accurate
    <3> QED
      BY <3>1, <3>2
  <2>9. Sound(w)'
    BY <2>2, <2>3, <2>5, HorizonIsNat DEF Sound, Recent, Resolving
  <2> QED
    BY <1>1, <2>3, <2>5, <2>6, <2>7, <2>8, <2>9, OneWriter
<1>11. CASE Report(w)
  <2>1. call' = [call EXCEPT ![w] = Idle] /\ call'[w] = Idle
    BY <1>1, <1>11 DEF Report
  <2>2. Sound(w)'
    BY <2>1 DEF Sound, Idle, Resolving
  <2> QED
    BY <1>1, <1>11, <2>1, <2>2, IdleType, OneWriterAlone DEF Report
<1> QED
  BY <1>3, <1>4, <1>5, <1>6, <1>7, <1>8, <1>9, <1>10, <1>11 DEF WriterStep

-----------------------------------------------------------------------------
(* What the invariants give.                                               *)

LEMMA TypedNext == Typed /\ [Next]_vars => Typed'
<1> SUFFICES ASSUME Typed, [Next]_vars
             PROVE  Typed'
  OBVIOUS
<1>1. ASSUME NEW ip \in IP, NEW c \in Owner, Recycle(ip, c)
      PROVE  Typed'
  BY <1>1, TypedRecycle, AgesRecycle DEF Typed
<1>2. CASE Tick
  BY <1>2, TypedTick, AgesTick DEF Typed
<1>3. ASSUME NEW w \in Writer, WriterStep(w)
      PROVE  Typed'
  BY <1>3, TypedWriter
<1>4. CASE UNCHANGED vars
  BY <1>4 DEF vars, Typed, TypeOK, Ages, Accurate, Sound, Recent
<1> QED
  BY <1>1, <1>2, <1>3, <1>4 DEF Next, WriterStep

LEMMA TypedAlways == Spec => []Typed
<1>1. Init => Typed
  BY TypedInit, AgesInit DEF Typed
<1> QED
  BY <1>1, TypedNext, PTL DEF Spec

(* Every variable keeps its type; in it: no lookup outlives its deadline,   *)
(* whatever Docker and DNS do (peers.go:212).                               *)
THEOREM TypeCorrect == Spec => []TypeOK
<1>1. Typed => TypeOK
  BY DEF Typed
<1> QED
  BY <1>1, TypedAlways, PTL

(* For every TTL and Timeout, a line names a holder its address had less    *)
(* than the sum of both ago (peers.go:35-36).                               *)
THEOREM AttributionIsRecent == Spec => RecentAttribution
<1>1. Typed /\ [Next]_vars =>
        [\A w \in Writer : Report(w) /\ call[w].ip # None
            => Recent(call[w].ip, call[w].peer)]_vars
  BY DEF Typed, Ages, Sound, Report
<1> QED
  BY <1>1, TypedAlways, PTL DEF Spec, RecentAttribution

-----------------------------------------------------------------------------
(* One listing per TTL.                                                    *)

\* The mutex of the error log: who is between Acquire and Report holds it.
Turns == \A w \in Writer : call[w].pc \in Holding => holder = w

\* An address that Docker was asked about less than a TTL ago has an entry
\* that is at least as fresh, or its lookup is still running.
Covered(ip) ==
    \/ asked[ip] = TTL
    \/ entries[ip].age <= asked[ip]
    \/ \E w \in Writer : call[w].pc \in Resolving /\ call[w].ip = ip

Cover == Turns /\ \A ip \in IP : Covered(ip)

LEMMA CoverInit == Init => Cover
BY DEF Init, Cover, Turns, Covered, Idle, Holding

LEMMA CoverTick ==
    ASSUME Typed, Cover, Tick
    PROVE  Cover'
<1>1. \A w \in Writer : call'[w].pc = call[w].pc /\ call'[w].ip = call[w].ip
  BY DEF Tick, Typed, TypeOK, Call
<1>2. Turns'
  BY <1>1 DEF Cover, Turns, Tick
<1>3. ASSUME NEW ip \in IP
      PROVE  Covered(ip)'
  <2>1. /\ asked[ip] \in 0 .. TTL /\ entries[ip] \in Entry
        /\ entries[ip].age \in 0 .. TTL
    BY DEF Typed, TypeOK, Entry
  <2>2. /\ asked'[ip] = Older(asked[ip], TTL)
        /\ entries'[ip].age = Older(entries[ip].age, TTL)
    BY <2>1 DEF Tick, Entry
  <2>3. CASE \E w \in Writer : call[w].pc \in Resolving /\ call[w].ip = ip
    BY <1>1, <2>3 DEF Covered
  <2>4. CASE asked[ip] = TTL
    BY <2>2, <2>4 DEF Covered, Older
  <2>5. CASE entries[ip].age <= asked[ip]
    BY <2>1, <2>2, <2>5 DEF Covered, Older
  <2> QED
    BY <2>3, <2>4, <2>5 DEF Cover, Covered
<1> QED
  BY <1>2, <1>3 DEF Cover

LEMMA CoverWriter ==
    ASSUME Typed, Cover, NEW w \in Writer, WriterStep(w)
    PROVE  Cover'
<1>1. /\ call \in [Writer -> Call] /\ call[w] \in Call /\ Sound(w)
      /\ asked \in [IP -> 0 .. TTL] /\ entries \in [IP -> Entry]
  BY DEF Typed, TypeOK, Ages
<1>2. \A o \in Writer : o # w => call'[o] = call[o]
  BY <1>1 DEF WriterStep, LogLine, Acquire, CacheHit, CacheMiss, Snapshot,
              ListReturns, ListFails, Resolved, Report
<1>3. Turns'
  <2>1. CASE \E ip \in IP \cup {None} : LogLine(w, ip)
    <3>1. call'[w].pc = "lock" /\ holder' = holder
      BY <1>1, <2>1 DEF LogLine, Idle
    <3> QED
      BY <1>2, <3>1 DEF Cover, Turns, Holding, Steps
  <2>2. CASE Acquire(w)
    <3>1. holder = None /\ holder' = w
      BY <2>2 DEF Acquire
    <3>2. \A o \in Writer : o # None
      OBVIOUS
    <3> QED
      BY <1>2, <3>1, <3>2 DEF Cover, Turns
  <2>3. CASE Report(w)
    <3>1. call[w].pc = "log" /\ call'[w].pc = "idle"
      BY <1>1, <2>3 DEF Report, Idle
    <3>2. holder = w
      BY <3>1 DEF Cover, Turns, Holding, Steps
    <3> QED
      BY <1>2, <3>1, <3>2 DEF Cover, Turns, Holding, Steps
  <2>4. CASE \/ CacheHit(w) \/ CacheMiss(w) \/ Snapshot(w)
             \/ ListReturns(w) \/ ListFails(w) \/ Resolved(w)
    <3>1. call[w].pc \in Holding /\ holder' = holder
      BY <2>4 DEF CacheHit, CacheMiss, Snapshot, ListReturns, ListFails,
                  Resolved, Holding, Steps
    <3> QED
      BY <1>2, <3>1 DEF Cover, Turns
  <2> QED
    BY <2>1, <2>2, <2>3, <2>4 DEF WriterStep
<1>4. ASSUME NEW ip \in IP, entries'[ip] = entries[ip], asked'[ip] = asked[ip],
             call[w].pc \in Resolving =>
                call'[w].pc \in Resolving /\ call'[w].ip = call[w].ip
      PROVE  Covered(ip)'
  BY <1>2, <1>4 DEF Cover, Covered
<1>5. ASSUME NEW ip \in IP
      PROVE  Covered(ip)'
  <2>1. CASE \/ \E i \in IP \cup {None} : LogLine(w, i)
             \/ Acquire(w) \/ CacheHit(w) \/ Report(w)
    <3>1. call[w].pc \notin Resolving
      BY <2>1 DEF LogLine, Acquire, CacheHit, Report, Resolving
    <3>2. entries' = entries /\ asked' = asked
      BY <2>1 DEF LogLine, Acquire, CacheHit, Report
    <3> QED
      BY <1>4, <3>1, <3>2
  <2>2. CASE Snapshot(w) \/ ListFails(w)
    <3>1. call'[w].pc \in Resolving /\ call'[w].ip = call[w].ip
      <4>1. CASE Snapshot(w)
        BY <1>1, <4>1 DEF Snapshot, Resolving, Call
      <4>2. CASE ListFails(w)
        BY <1>1, <4>2 DEF ListFails, Resolving, Call
      <4> QED
        BY <2>2, <4>1, <4>2
    <3>2. entries' = entries /\ asked' = asked
      BY <2>2 DEF Snapshot, ListFails
    <3> QED
      BY <1>4, <3>1, <3>2
  <2>3. CASE CacheMiss(w)
    <3>1. /\ call'[w].pc = "list" /\ call'[w].ip = call[w].ip
          /\ call[w].pc = "cache"
      BY <1>1, <2>3 DEF CacheMiss, Call
    <3>2. CASE ip = call[w].ip
      BY <3>1, <3>2 DEF Covered, Resolving
    <3>3. CASE ip # call[w].ip
      <4>1. entries'[ip] = entries[ip] /\ asked'[ip] = asked[ip]
        BY <1>1, <2>3, <3>3 DEF CacheMiss
      <4> QED
        BY <1>4, <3>1, <4>1 DEF Resolving
    <3> QED
      BY <3>2, <3>3
  <2>4. CASE ListReturns(w)
    <3> DEFINE found  == call[w].found
               listed == {i \in IP : found[i] # Nobody}
    <3>1. /\ entries'[ip] = IF ip \in listed
                            THEN [peer |-> found[ip], age |-> 0]
                            ELSE entries[ip]
          /\ asked'[ip] = IF ip \in listed THEN 0 ELSE asked[ip]
      BY <2>4 DEF ListReturns
    <3>2. /\ call'[w].pc = IF call[w].ip \in listed THEN "log" ELSE "dns"
          /\ call'[w].ip = call[w].ip
      BY <1>1, <2>4 DEF ListReturns, Call
    <3> HIDE DEF found, listed
    <3>3. CASE ip \in listed
      BY <3>1, <3>3 DEF Covered
    <3>4. CASE ip \notin listed
      <4>1. CASE ip = call[w].ip
        BY <3>2, <3>4, <4>1 DEF Covered, Resolving
      <4>2. CASE ip # call[w].ip
        BY <1>2, <3>1, <3>4, <4>2 DEF Cover, Covered
      <4> QED
        BY <4>1, <4>2
    <3> QED
      BY <3>3, <3>4
  <2>5. CASE Resolved(w)
    <3>1. call[w].ip \in IP /\ asked' = asked
      BY <1>1, <2>5 DEF Resolved, Sound, Resolving
    <3>2. CASE ip = call[w].ip
      <4>1. entries'[ip].age = 0
        BY <1>1, <2>5, <3>2 DEF Resolved
      <4>2. asked'[ip] \in Nat
        BY <1>1, <3>1
      <4> QED
        BY <4>1, <4>2 DEF Covered
    <3>3. CASE ip # call[w].ip
      <4>1. entries'[ip] = entries[ip]
        BY <1>1, <2>5, <3>3 DEF Resolved
      <4> QED
        BY <1>2, <3>1, <3>3, <4>1 DEF Cover, Covered
    <3> QED
      BY <3>2, <3>3
  <2> QED
    BY <2>1, <2>2, <2>3, <2>4, <2>5 DEF WriterStep
<1> QED
  BY <1>3, <1>5 DEF Cover

LEMMA CoverNext == Typed /\ Cover /\ [Next]_vars => Cover'
<1> SUFFICES ASSUME Typed, Cover, [Next]_vars
             PROVE  Cover'
  OBVIOUS
<1>1. ASSUME NEW ip \in IP, NEW c \in Owner, Recycle(ip, c)
      PROVE  Cover'
  BY <1>1 DEF Recycle, Cover, Turns, Covered
<1>2. CASE UNCHANGED vars
  BY <1>2 DEF vars, Cover, Turns, Covered
<1> QED
  BY <1>1, <1>2, CoverTick, CoverWriter DEF Next, WriterStep

LEMMA FreshWhenAsked ==
    ASSUME Typed, Cover, NEW w \in Writer, CacheMiss(w)
    PROVE  asked[call[w].ip] = TTL
<1> DEFINE ip == call[w].ip
<1>1. call[w].pc = "cache" /\ ip \in IP /\ ~ (entries[ip].age < TTL)
  BY DEF CacheMiss, Fresh, Typed, Ages, Sound
<1>2. asked[ip] \in 0 .. TTL /\ entries[ip].age \in 0 .. TTL
  BY <1>1 DEF Typed, TypeOK, Entry
<1>3. holder = w
  BY <1>1 DEF Cover, Turns, Holding, Steps
<1>4. ~ \E o \in Writer : call[o].pc \in Resolving /\ call[o].ip = ip
  BY <1>1, <1>3 DEF Cover, Turns, Holding, Steps, Resolving
<1> QED
  BY <1>1, <1>2, <1>4 DEF Cover, Covered

(* Docker is asked about an address at most once in a TTL, for any number  *)
(* of addresses and connections (peers.go:37-38).                          *)
THEOREM DockerIsSpared == Spec => OneListingPerTTL
<1>1. Typed /\ Cover /\ [Next]_vars =>
        [\A w \in Writer : CacheMiss(w) => asked[call[w].ip] = TTL]_vars
  BY FreshWhenAsked
<1>2. Spec => []Cover
  BY CoverInit, CoverNext, TypedAlways, PTL DEF Spec
<1> QED
  BY <1>1, <1>2, TypedAlways, PTL DEF Spec, OneListingPerTTL
=============================================================================
