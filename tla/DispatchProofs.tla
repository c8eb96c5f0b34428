--------------------------- MODULE DispatchProofs ---------------------------
(***************************************************************************)
(* Theorems about Dispatch, for any number of containers, clients, targets *)
(* and messages.                                                           *)
(***************************************************************************)
EXTENDS Dispatch, TLAPS

Busy == {"list", "call", "wait", "read"}
Called == {"call", "wait", "read"}

\* A job that runs is of a kind of the registry.
Meant(j) == job[j].pc \in Busy => job[j].kind \in Kind /\ job[j].target \in Target

\* A job has an order exactly while it waits, and only one.
Waited ==
    \A o \in orders : o.by # None =>
        /\ job[o.by].pc \in {"wait", "read"}
        /\ o.msg = job[o.by].msg
        /\ \A p \in orders : p.by = o.by => p = o

Typed == TypeOK /\ Waited /\ \A j \in Job : Meant(j)

\* What has stayed is in the listing, and is dealt with or still to be.
Present(j) ==
    job[j].pc \in Busy => job[j].stayed \subseteq Listing(job[j].kind, job[j].target)

Planned(j) ==
    job[j].pc \in Called =>
        IF Registry[job[j].kind].each
        THEN \A c \in job[j].stayed :
                c \in job[j].hit \/ \E call \in job[j].todo : call.at = c
        ELSE job[j].hit # {} \/ job[j].todo # {}

Thorough == \A j \in Job : Present(j) /\ Planned(j)

\* Only the subscriber handles messages, and its context is the service's.
Roles ==
    /\ \A j \in Client : job[j].msg = 0
    /\ job[Subscriber].cut => shutdown
    /\ shutdown /\ job[Subscriber].pc \in Busy => job[Subscriber].cut
    /\ \A o \in orders : o.by = None => shutdown

\* Of the messages, one at a time is being done, all others are newer.
Sequenced ==
    /\ \A o \in orders : o.msg # 0 =>
          /\ applied <= o.msg
          /\ o.msg <= sent
          /\ \A m \in waiting : o.msg < m
          /\ \A p \in orders : p.msg # 0 => p.msg = o.msg
          /\ job[Subscriber].pc \in Busy => o.msg <= job[Subscriber].msg
    /\ job[Subscriber].pc \in Busy =>
          /\ applied <= job[Subscriber].msg
          /\ job[Subscriber].msg <= sent
          /\ \A m \in waiting : job[Subscriber].msg < m
    /\ applied <= sent
    /\ \A m \in waiting : applied < m /\ m <= sent /\ m # 0

Orderly == Roles /\ Sequenced
-----------------------------------------------------------------------------
LEMMA RegistryType ==
    ASSUME NEW k \in Kind
    PROVE  /\ k \in DOMAIN Registry
           /\ Registry[k].op \in Ops
           /\ Registry[k].calls \in 1 .. 2
<1>1. k \in DOMAIN Registry
  BY ConstantsAssumption
<1>2. DOMAIN Registry = {"start", "stop", "restart", "top", "exec", "execText",
                         "deliver", "inspectOne", "inspectRun", "inspectAll"}
  BY DEF Registry
<1> QED
  BY <1>1, <1>2 DEF Registry, Action, Ops

LEMMA IdleType == Idle \in Running
BY DEF Idle, Running

LEMMA ListingType ==
    ASSUME NEW k \in Kind, NEW t \in Target
    PROVE  Listing(k, t) \subseteq Container
BY ConstantsAssumption DEF Listing

LEMMA PlanType ==
    ASSUME NEW k \in Kind, NEW t \in Target, NEW plan \in Plans(k, Listing(k, t))
    PROVE  plan \in SUBSET Call
<1> DEFINE calls(c) == {[at |-> c, n |-> n] : n \in 1 .. Registry[k].calls}
<1>1. \A c \in Listing(k, t) : calls(c) \in SUBSET Call
  BY RegistryType, ListingType DEF Call
<1>2. CASE Registry[k].each
  <2>1. plan = UNION {calls(c) : c \in Listing(k, t)}
    BY <1>2 DEF Plans
  <2> QED
    BY <1>1, <2>1
<1>3. CASE ~ Registry[k].each
  <2>1. plan \in {calls(c) : c \in Listing(k, t)}
    BY <1>3 DEF Plans
  <2> QED
    BY <1>1, <2>1
<1> QED
  BY <1>2, <1>3

LEMMA NotedType ==
    ASSUME TypeOK, NEW j \in Job, NEW c \in Container, NEW s \in Status
    PROVE  /\ Noted(j, c, s) \in Running
           /\ Noted(j, c, s).pc = job[j].pc
           /\ Noted(j, c, s).kind = job[j].kind
           /\ Noted(j, c, s).target = job[j].target
           /\ Noted(j, c, s).msg = job[j].msg
           /\ Noted(j, c, s).cut = job[j].cut
           /\ Noted(j, c, s).todo = job[j].todo
           /\ Noted(j, c, s).hit = job[j].hit
           /\ Noted(j, c, s).stayed =
                 IF c \in job[j].stayed /\ ~ Shown(job[j].kind, s)
                 THEN job[j].stayed \ {c} ELSE job[j].stayed
<1>1. job[j] \in Running
  BY DEF TypeOK
<1>2. (IF c \in job[j].stayed /\ ~ Shown(job[j].kind, s)
      THEN job[j].stayed \ {c} ELSE job[j].stayed) \in SUBSET Container
  BY <1>1 DEF Running
<1> QED
  BY <1>1, <1>2 DEF Noted, Running

LEMMA DisownType ==
    ASSUME TypeOK, NEW j \in Job
    PROVE  Disown(j) \subseteq Order
<1>1. \A o \in orders : [o EXCEPT !.by = None] \in Order
  BY DEF TypeOK, Order
<1> QED
  BY <1>1 DEF Disown, TypeOK

\* A step that changes one job keeps the types when its new record has one.
LEMMA OneJob ==
    ASSUME Typed, NEW j \in Job, NEW r \in Running,
           job' = [job EXCEPT ![j] = r],
           r.pc \in Busy => r.kind \in Kind /\ r.target \in Target
    PROVE  job' \in [Job -> Running] /\ \A k \in Job : Meant(k)'
<1>1. job \in [Job -> Running]
  BY DEF Typed, TypeOK
<1>2. job' \in [Job -> Running]
  BY <1>1
<1>3. ASSUME NEW k \in Job
      PROVE  Meant(k)'
  <2>1. CASE k = j
    BY <1>1, <2>1 DEF Meant
  <2>2. CASE k # j
    BY <1>1, <2>2 DEF Typed, Meant
  <2> QED
    BY <2>1, <2>2
<1> QED
  BY <1>2, <1>3

LEMMA TypedBegin ==
    ASSUME Typed, NEW j \in Job, NEW k \in Kind, NEW t \in Target, NEW m \in Nat,
           Begin(j, k, t, m)
    PROVE  job' \in [Job -> Running] /\ \A i \in Job : Meant(i)'
<1> DEFINE r == [pc |-> "list", kind |-> k, target |-> t, msg |-> m,
                 cut |-> j = Subscriber /\ shutdown, todo |-> {},
                 stayed |-> Listing(k, t), hit |-> {}]
<1>1. r \in Running
  BY RegistryType, ListingType DEF Running
<1>2. job' = [job EXCEPT ![j] = r]
  BY DEF Begin
<1> QED
  BY <1>1, <1>2, OneJob

LEMMA TypedReply ==
    ASSUME Typed, NEW j \in Job, Reply(j)
    PROVE  job' \in [Job -> Running] /\ \A i \in Job : Meant(i)'
<1>1. Idle.pc \notin Busy
  BY DEF Idle, Busy
<1> QED
  BY <1>1, IdleType, OneJob DEF Reply

LEMMA SubscriberIsJob == Subscriber \in Job /\ Client \subseteq Job /\ None \notin Job
BY ConstantsAssumption DEF Job

LEMMA OneWaits ==
    ASSUME Typed, NEW j \in Job, NEW r \in Running,
           job' = [job EXCEPT ![j] = r], orders' = orders,
           job[j].pc \in {"wait", "read"} =>
              r.pc \in {"wait", "read"} /\ r.msg = job[j].msg
    PROVE  Waited'
<1> SUFFICES ASSUME NEW o \in orders, o.by # None
             PROVE  job'[o.by].pc \in {"wait", "read"} /\ o.msg = job'[o.by].msg
  BY DEF Waited, Typed
<1>1. /\ o.by \in Job /\ job \in [Job -> Running]
      /\ job[o.by].pc \in {"wait", "read"} /\ o.msg = job[o.by].msg
  BY DEF Typed, TypeOK, Waited, Order
<1>2. CASE o.by = j
  BY <1>1, <1>2
<1>3. CASE o.by # j
  BY <1>1, <1>3
<1> QED
  BY <1>2, <1>3

\* Steps of one job that go on with it.
LEMMA TypedGoOn ==
    ASSUME Typed, NEW j \in Job, List(j) \/ Attach(j) \/ HangUp(j)
    PROVE  Typed'
<1>1. job[j] \in Running /\ Meant(j)
  BY DEF Typed, TypeOK
<1>2. CASE List(j)
  <2>1. job[j].kind \in Kind /\ job[j].target \in Target
    BY <1>1, <1>2 DEF List, Meant, Busy
  <2>2. PICK plan \in Plans(job[j].kind, Listing(job[j].kind, job[j].target)) :
            job' = [job EXCEPT ![j] = [job[j] EXCEPT !.pc = "call", !.todo = plan]]
    BY <1>2 DEF List
  <2>3. plan \in SUBSET Call
    BY <2>1, <2>2, PlanType
  <2>4. [job[j] EXCEPT !.pc = "call", !.todo = plan] \in Running
    BY <1>1, <2>3 DEF Running
  <2>5. job' \in [Job -> Running] /\ \A i \in Job : Meant(i)'
    BY <1>1, <2>1, <2>2, <2>4, OneJob DEF Running
  <2>6. Waited'
    BY <1>2, <2>2, <2>4, OneWaits DEF List
  <2> QED
    BY <1>2, <2>5, <2>6 DEF List, Typed, TypeOK
<1>3. CASE Attach(j)
  <2>1. job[j].kind \in Kind /\ job[j].target \in Target
    BY <1>1, <1>3 DEF Attach, Meant, Busy
  <2>2. job' = [job EXCEPT ![j] = [job[j] EXCEPT !.pc = "read"]]
    BY <1>3 DEF Attach
  <2>3. [job[j] EXCEPT !.pc = "read"] \in Running
    BY <1>1 DEF Running
  <2>4. job' \in [Job -> Running] /\ \A i \in Job : Meant(i)'
    BY <1>1, <2>1, <2>2, <2>3, OneJob DEF Running
  <2>5. /\ [job[j] EXCEPT !.pc = "read"].pc = "read"
        /\ [job[j] EXCEPT !.pc = "read"].msg = job[j].msg
    BY <1>1 DEF Running
  <2>6. Waited'
    BY <1>3, <2>2, <2>3, <2>5, OneWaits DEF Attach
  <2> QED
    BY <1>3, <2>4, <2>6 DEF Attach, Typed, TypeOK
<1>4. CASE HangUp(j)
  <2> DEFINE r == [job[j] EXCEPT !.cut = TRUE]
  <2>1. job' = [job EXCEPT ![j] = r]
    BY <1>4 DEF HangUp
  <2>2. r \in Running
    BY <1>1 DEF Running
  <2>3. r.pc = job[j].pc /\ r.kind = job[j].kind /\ r.target = job[j].target
        /\ r.msg = job[j].msg
    BY <1>1 DEF Running
  <2> HIDE DEF r
  <2>4. job' \in [Job -> Running] /\ \A i \in Job : Meant(i)'
    BY <1>1, <2>1, <2>2, <2>3, OneJob DEF Meant
  <2>5. Waited'
    BY <1>4, <2>1, <2>2, <2>3, OneWaits DEF HangUp
  <2> QED
    BY <1>4, <2>4, <2>5 DEF HangUp, Typed, TypeOK
<1> QED
  BY <1>2, <1>3, <1>4

LEMMA TypedGive ==
    ASSUME Typed, NEW j \in Job, NEW call \in job[j].todo, Give(j, call)
    PROVE  Typed'
<1>1. job[j] \in Running /\ Meant(j)
  BY DEF Typed, TypeOK
<1>2. job[j].kind \in Kind /\ job[j].target \in Target
  BY <1>1 DEF Give, Meant, Busy
<1>3. job' = [job EXCEPT ![j] = [job[j] EXCEPT !.pc = "wait"]]
  BY DEF Give
<1>4. [job[j] EXCEPT !.pc = "wait"] \in Running
  BY <1>1 DEF Running
<1>5. job' \in [Job -> Running] /\ \A i \in Job : Meant(i)'
  BY <1>1, <1>2, <1>3, <1>4, OneJob DEF Running
<1>6. [by |-> j, msg |-> job[j].msg, call |-> call,
       op |-> Registry[job[j].kind].op] \in Order
  BY <1>1, <1>2, RegistryType DEF Order, Running
<1>7. ASSUME NEW o \in orders', o.by # None
      PROVE  /\ job'[o.by].pc \in {"wait", "read"}
             /\ o.msg = job'[o.by].msg
             /\ \A p \in orders' : p.by = o.by => p = o
  <2> DEFINE g == [by |-> j, msg |-> job[j].msg, call |-> call,
                   op |-> Registry[job[j].kind].op]
  <2>1. orders' = orders \cup {g} /\ g.by = j /\ g.msg = job[j].msg
    BY DEF Give
  <2> HIDE DEF g
  <2>2. \A p \in orders : p.by # j
    BY SubscriberIsJob DEF Give, Typed, Waited
  <2>3. CASE o = g
    <3>1. job'[j].pc = "wait" /\ job'[j].msg = job[j].msg
      BY <1>1, <1>3 DEF Typed, TypeOK, Running
    <3> QED
      BY <2>1, <2>2, <2>3, <3>1
  <2>4. CASE o \in orders
    <3>1. o.by \in Job /\ o.by # j
      BY <1>7, <2>2, <2>4 DEF Typed, TypeOK, Order
    <3>2. job'[o.by] = job[o.by]
      BY <1>3, <3>1 DEF Typed, TypeOK
    <3> QED
      BY <1>7, <2>1, <2>4, <3>1, <3>2 DEF Typed, Waited
  <2> QED
    BY <2>1, <2>3, <2>4
<1>8. Waited'
  BY <1>7 DEF Waited
<1> QED
  BY <1>5, <1>6, <1>8 DEF Give, Typed, TypeOK

\* The record of the job whose call Docker has carried out.
Dealt(o, s) ==
    [Noted(o.by, o.call.at, s) EXCEPT !.pc = "call", !.todo = @ \ {o.call},
                                      !.hit = @ \cup {o.call.at}]

LEMMA PerformJob ==
    ASSUME TypeOK, NEW o \in orders, Perform(o)
    PROVE  \E s \in Status :
              /\ s = After(o.op, status[o.call.at])
              /\ s \in {"stopped", "running"}
              /\ status' = [status EXCEPT ![o.call.at] = s]
              /\ job' = [j \in Job |-> job'[j]]
              /\ \A j \in Job :
                    job'[j] = IF j # o.by THEN Noted(j, o.call.at, s)
                              ELSE IF job'[j] = Idle THEN Idle ELSE Dealt(o, s)
<1> DEFINE s == After(o.op, status[o.call.at])
<1>1. o \in Order /\ o.op \in Ops /\ o.call.at \in Container
  BY DEF TypeOK, Order, Call
<1>2. status[o.call.at] \in {"stopped", "running"}
  BY DEF Perform, Possible
<1>3. s \in {"stopped", "running"}
  BY <1>1, <1>2 DEF After, Ops
<1>4. status' = [status EXCEPT ![o.call.at] = s]
  BY DEF Perform
<1>5. PICK exit \in {0, 1} : job' = [j \in Job |->
          IF j # o.by THEN Noted(j, o.call.at, s)
          ELSE IF \/ exit # 0 /\ Registry[job[j].kind].strict
                  \/ job[j].pc = "read" /\ job[j].cut
          THEN Idle
          ELSE [Noted(j, o.call.at, s) EXCEPT !.pc = "call",
                   !.todo = @ \ {o.call}, !.hit = @ \cup {o.call.at}]]
  BY DEF Perform
<1>6. ASSUME NEW j \in Job
      PROVE  job'[j] = IF j # o.by THEN Noted(j, o.call.at, s)
                       ELSE IF job'[j] = Idle THEN Idle ELSE Dealt(o, s)
  BY <1>5 DEF Dealt
<1>7. job' = [j \in Job |-> job'[j]]
  BY <1>5
<1> QED
  BY <1>3, <1>4, <1>6, <1>7 DEF Status

LEMMA DealtType ==
    ASSUME TypeOK, NEW o \in orders, o.by \in Job, NEW s \in Status
    PROVE  /\ Dealt(o, s) \in Running
           /\ Dealt(o, s).pc = "call"
           /\ Dealt(o, s).kind = job[o.by].kind
           /\ Dealt(o, s).target = job[o.by].target
           /\ Dealt(o, s).msg = job[o.by].msg
           /\ Dealt(o, s).cut = job[o.by].cut
           /\ Dealt(o, s).todo = job[o.by].todo \ {o.call}
           /\ Dealt(o, s).hit = job[o.by].hit \cup {o.call.at}
           /\ Dealt(o, s).stayed = Noted(o.by, o.call.at, s).stayed
<1>1. o.call.at \in Container
  BY DEF TypeOK, Order, Call
<1>2. Noted(o.by, o.call.at, s) \in Running
  BY <1>1, NotedType
<1>3. /\ Noted(o.by, o.call.at, s).kind = job[o.by].kind
      /\ Noted(o.by, o.call.at, s).target = job[o.by].target
      /\ Noted(o.by, o.call.at, s).msg = job[o.by].msg
      /\ Noted(o.by, o.call.at, s).cut = job[o.by].cut
      /\ Noted(o.by, o.call.at, s).todo = job[o.by].todo
      /\ Noted(o.by, o.call.at, s).hit = job[o.by].hit
  BY <1>1, NotedType
<1>4. Dealt(o, s) = [Noted(o.by, o.call.at, s) EXCEPT !.pc = "call",
          !.todo = job[o.by].todo \ {o.call},
          !.hit = job[o.by].hit \cup {o.call.at}]
  BY <1>2, <1>3 DEF Dealt, Running
<1>5. /\ job[o.by].todo \ {o.call} \in SUBSET Call
      /\ job[o.by].hit \cup {o.call.at} \in SUBSET Container
  BY <1>1 DEF TypeOK, Running
<1> DEFINE t == job[o.by].todo \ {o.call}
           h == job[o.by].hit \cup {o.call.at}
           n == Noted(o.by, o.call.at, s)
<1>6. t \in SUBSET Call /\ h \in SUBSET Container /\ n \in Running
      /\ Dealt(o, s) = [n EXCEPT !.pc = "call", !.todo = t, !.hit = h]
  BY <1>2, <1>4, <1>5
<1> HIDE DEF t, h, n
<1>7. /\ Dealt(o, s) \in Running /\ Dealt(o, s).pc = "call"
      /\ Dealt(o, s).kind = n.kind /\ Dealt(o, s).target = n.target
      /\ Dealt(o, s).msg = n.msg /\ Dealt(o, s).cut = n.cut
      /\ Dealt(o, s).todo = t /\ Dealt(o, s).hit = h
      /\ Dealt(o, s).stayed = n.stayed
  BY <1>6 DEF Running
<1> QED
  BY <1>3, <1>7 DEF t, h, n

LEMMA TypedPerform ==
    ASSUME Typed, NEW o \in orders, Perform(o)
    PROVE  Typed'
<1>1. PICK s \in Status :
          /\ status' = [status EXCEPT ![o.call.at] = s]
          /\ job' = [j \in Job |-> job'[j]]
          /\ \A j \in Job :
                job'[j] = IF j # o.by THEN Noted(j, o.call.at, s)
                          ELSE IF job'[j] = Idle THEN Idle ELSE Dealt(o, s)
  BY PerformJob DEF Typed
<1>2. o.call.at \in Container /\ o.msg \in Nat /\ TypeOK
  BY DEF Typed, TypeOK, Order, Call
<1>3. ASSUME NEW j \in Job
      PROVE  job'[j] \in Running /\ Meant(j)'
  <2>1. CASE j # o.by
    <3>1. job'[j] = Noted(j, o.call.at, s)
      BY <1>1, <2>1
    <3>2. Noted(j, o.call.at, s) \in Running
      BY <1>2, NotedType
    <3>3. /\ Noted(j, o.call.at, s).pc = job[j].pc
          /\ Noted(j, o.call.at, s).kind = job[j].kind
          /\ Noted(j, o.call.at, s).target = job[j].target
      BY <1>2, NotedType
    <3>4. Meant(j)
      BY DEF Typed
    <3> QED
      BY <3>1, <3>2, <3>3, <3>4 DEF Meant
  <2>2. CASE j = o.by /\ job'[j] = Idle
    BY <2>2, IdleType DEF Meant, Idle, Busy
  <2>3. CASE j = o.by /\ job'[j] # Idle
    <3>1. job'[j] = Dealt(o, s)
      BY <1>1, <2>3
    <3>2. job[j].kind \in Kind /\ job[j].target \in Target
      BY <2>3, SubscriberIsJob DEF Typed, Waited, Meant, Busy
    <3>3. /\ job'[j] \in Running
          /\ job'[j].kind = job[j].kind /\ job'[j].target = job[j].target
      BY <1>2, <2>3, <3>1, DealtType
    <3> QED
      BY <3>2, <3>3 DEF Meant
  <2> QED
    BY <2>1, <2>2, <2>3
<1>4. job' \in [Job -> Running] /\ status' \in [Container -> Status]
  BY <1>1, <1>2, <1>3 DEF TypeOK
<1>5. ASSUME NEW p \in orders', p.by # None
      PROVE  /\ job'[p.by].pc \in {"wait", "read"}
             /\ p.msg = job'[p.by].msg
             /\ \A q \in orders' : q.by = p.by => q = p
  <2>1. p \in orders /\ p # o /\ orders' \subseteq orders
    BY DEF Perform
  <2>2. p.by # o.by /\ p.by \in Job
    BY <1>2, <1>5, <2>1 DEF Typed, Waited, TypeOK, Order
  <2>3. job'[p.by] = Noted(p.by, o.call.at, s)
    BY <1>1, <2>2
  <2>4. job'[p.by].pc = job[p.by].pc /\ job'[p.by].msg = job[p.by].msg
    <3>1. Noted(p.by, o.call.at, s).pc = job[p.by].pc
      BY <1>2, <2>2, NotedType
    <3>2. Noted(p.by, o.call.at, s).msg = job[p.by].msg
      BY <1>2, <2>2, NotedType
    <3> QED
      BY <2>3, <3>1, <3>2
  <2> QED
    BY <1>5, <2>1, <2>4 DEF Typed, Waited
<1>6. applied' \in Nat
  BY <1>2 DEF Perform, TypeOK
<1>7. Waited'
  BY <1>5 DEF Waited
<1>8. orders' \subseteq Order
  BY <1>2 DEF Perform, TypeOK
<1> QED
  BY <1>2, <1>3, <1>4, <1>6, <1>7, <1>8 DEF Perform, Typed, TypeOK

LEMMA TypedRefuse ==
    ASSUME Typed, NEW o \in orders, Refuse(o)
    PROVE  Typed'
<1>1. job' = [j \in Job |-> IF j = o.by THEN Idle ELSE job[j]]
  BY DEF Refuse
<1>2. ASSUME NEW j \in Job
      PROVE  job'[j] \in Running /\ Meant(j)'
  <2>1. CASE j = o.by
    BY <1>1, <2>1, IdleType DEF Meant, Idle, Busy
  <2>2. CASE j # o.by
    BY <1>1, <2>2 DEF Typed, TypeOK, Meant
  <2> QED
    BY <2>1, <2>2
<1>3. ASSUME NEW p \in orders', p.by # None
      PROVE  /\ job'[p.by].pc \in {"wait", "read"}
             /\ p.msg = job'[p.by].msg
             /\ \A q \in orders' : q.by = p.by => q = p
  <2>1. p \in orders /\ p # o /\ orders' \subseteq orders
    BY DEF Refuse
  <2>2. p.by # o.by /\ p.by \in Job
    BY <1>3, <2>1 DEF Typed, Waited, TypeOK, Order
  <2> QED
    BY <1>1, <1>3, <2>1, <2>2 DEF Typed, Waited
<1>4. Waited'
  BY <1>3 DEF Waited
<1>5. job' \in [Job -> Running]
  BY <1>1, <1>2
<1> QED
  BY <1>2, <1>4, <1>5 DEF Refuse, Typed, TypeOK

LEMMA TypedElsewhere ==
    ASSUME Typed, NEW c \in Container, NEW s \in Status, Elsewhere(c, s)
    PROVE  Typed'
<1>1. TypeOK /\ job' = [j \in Job |-> Noted(j, c, s)]
  BY DEF Elsewhere, Typed
<1>2. ASSUME NEW j \in Job
      PROVE  /\ job'[j] \in Running
             /\ job'[j].pc = job[j].pc /\ job'[j].kind = job[j].kind
             /\ job'[j].target = job[j].target /\ job'[j].msg = job[j].msg
  BY <1>1, NotedType
<1>3. \A j \in Job : Meant(j)'
  BY <1>2 DEF Typed, Meant
<1>4. \A o \in orders : o.by # None => o.by \in Job
  BY <1>1 DEF TypeOK, Order
<1>5. Waited'
  BY <1>2, <1>4 DEF Elsewhere, Typed, Waited
<1>6. job' \in [Job -> Running] /\ status' \in [Container -> Status]
  BY <1>1, <1>2 DEF Elsewhere, TypeOK
<1> QED
  BY <1>1, <1>3, <1>5, <1>6 DEF Elsewhere, Typed, TypeOK

\* Steps that begin or end a job, and give or take no order.
LEMMA TypedTurn ==
    ASSUME Typed, NEW j \in Job, job[j].pc \notin {"wait", "read"},
           NEW r \in Running, job' = [job EXCEPT ![j] = r],
           r.pc \in Busy => r.kind \in Kind /\ r.target \in Target,
           waiting' \subseteq Nat, UNCHANGED <<status, orders, sent, applied, shutdown>>
    PROVE  Typed'
<1>1. job' \in [Job -> Running] /\ \A i \in Job : Meant(i)'
  BY OneJob
<1>2. Waited'
  BY OneWaits
<1> QED
  BY <1>1, <1>2 DEF Typed, TypeOK

LEMMA TypedTake ==
    ASSUME Typed, NEW m \in waiting, NEW k \in Kind, NEW t \in Target, Take(m, k, t)
    PROVE  Typed'
<1>1. Subscriber \in Job /\ m \in Nat
  BY SubscriberIsJob DEF Typed, TypeOK
<1>2. job' \in [Job -> Running] /\ \A i \in Job : Meant(i)'
  BY <1>1, TypedBegin DEF Take
<1>3. Waited'
  BY <1>1, SubscriberIsJob DEF Take, Begin, Waited, Typed, TypeOK, Order
<1> QED
  BY <1>2, <1>3 DEF Take, Typed, TypeOK

LEMMA TypedAccept ==
    ASSUME Typed, NEW j \in Client, NEW k \in Kind, NEW t \in Target, Accept(j, k, t)
    PROVE  Typed'
<1>1. j \in Job
  BY SubscriberIsJob
<1>2. job' \in [Job -> Running] /\ \A i \in Job : Meant(i)'
  BY <1>1, TypedBegin DEF Accept
<1>3. Waited'
  BY <1>1, SubscriberIsJob DEF Accept, Begin, Waited, Typed, TypeOK, Order
<1> QED
  BY <1>2, <1>3 DEF Accept, Typed, TypeOK

LEMMA TypedGiveUp ==
    ASSUME Typed, NEW j \in Job, GiveUp(j)
    PROVE  Typed'
<1>1. job' \in [Job -> Running] /\ \A i \in Job : Meant(i)'
  BY TypedReply DEF GiveUp
<1>2. orders' \subseteq Order
  BY DisownType DEF GiveUp, Typed
<1>3. \A o \in orders' : o.by # None => o \in orders /\ o.by # j
  BY <1>2 DEF GiveUp, Disown, Typed, TypeOK, Order
<1>4. Waited'
  BY <1>2, <1>3 DEF GiveUp, Reply, Waited, Typed, TypeOK, Order
<1> QED
  BY <1>1, <1>2, <1>4 DEF GiveUp, Typed, TypeOK

LEMMA TypedRest ==
    ASSUME Typed
    PROVE  /\ \A m \in waiting : Drop(m) => Typed'
           /\ Leave => Typed'
           /\ \A j \in Job : ListFails(j) => Typed'
           /\ \A j \in Job : Finish(j) => Typed'
           /\ Publish => Typed'
           /\ Shutdown => Typed'
<1>1. ASSUME NEW m \in waiting, Drop(m)
      PROVE  Typed'
  BY <1>1 DEF Drop, Typed, TypeOK, Waited, Meant
<1>2. ASSUME Leave
      PROVE  Typed'
  <2>1. job[Subscriber] \in Running /\ Subscriber \in Job
    BY SubscriberIsJob DEF Typed, TypeOK
  <2>2. /\ [job[Subscriber] EXCEPT !.pc = "off"] \in Running
        /\ [job[Subscriber] EXCEPT !.pc = "off"].pc = "off"
    BY <2>1 DEF Running
  <2> QED
    BY <1>2, <2>1, <2>2, TypedTurn DEF Leave, Busy, Typed, TypeOK
<1>3. ASSUME NEW j \in Job, ListFails(j) \/ Finish(j)
      PROVE  Typed'
  <2>1. Idle.pc = "idle"
    BY DEF Idle
  <2> QED
    BY <1>3, <2>1, IdleType, TypedTurn DEF ListFails, Finish, Reply, Busy, Typed, TypeOK
<1>4. ASSUME Publish
      PROVE  Typed'
  <2>1. waiting' \subseteq Nat /\ sent' \in Nat
    BY <1>4 DEF Publish, Typed, TypeOK
  <2> QED
    BY <1>4, <2>1 DEF Publish, Typed, TypeOK, Waited, Meant
<1>5. ASSUME Shutdown
      PROVE  Typed'
  <2> DEFINE r == [job[Subscriber] EXCEPT !.cut = TRUE]
  <2>1. job' = [job EXCEPT ![Subscriber] = r] /\ Subscriber \in Job
    BY <1>5, SubscriberIsJob DEF Shutdown
  <2>2. /\ r \in Running /\ r.pc = job[Subscriber].pc
        /\ r.kind = job[Subscriber].kind /\ r.target = job[Subscriber].target
        /\ r.msg = job[Subscriber].msg
    BY <2>1 DEF Running, Typed, TypeOK
  <2> HIDE DEF r
  <2>3. job' \in [Job -> Running] /\ \A i \in Job : Meant(i)'
    BY <2>1, <2>2, OneJob DEF Typed, Meant
  <2>4. Waited'
    BY <1>5, <2>1, <2>2, OneWaits DEF Shutdown
  <2> QED
    BY <1>5, <2>3, <2>4 DEF Shutdown, Typed, TypeOK
<1> QED
  BY <1>1, <1>2, <1>3, <1>4, <1>5

LEMMA TypedInit == Init => Typed
<1> SUFFICES ASSUME Init
             PROVE  Typed
  OBVIOUS
<1>1. TypeOK
  BY IdleType DEF Init, TypeOK
<1>2. \A j \in Job : job[j].pc = "idle"
  BY DEF Init, Idle
<1> QED
  BY <1>1, <1>2 DEF Init, Typed, Waited, Meant, Busy

LEMMA TypedNext == Typed /\ [Next]_vars => Typed'
<1> SUFFICES ASSUME Typed, [Next]_vars
             PROVE  Typed'
  OBVIOUS
<1> USE SubscriberIsJob
<1>1. CASE \E j \in Client, k \in Kind, t \in Target : Accept(j, k, t)
  BY <1>1, TypedAccept
<1>2. CASE \E j \in Job : HangUp(j) \/ List(j) \/ Attach(j)
  BY <1>2, TypedGoOn
<1>3. CASE \E m \in waiting, k \in Kind, t \in Target : Take(m, k, t)
  BY <1>3, TypedTake
<1>4. CASE \/ \E m \in waiting : Drop(m)
           \/ Leave \/ Publish \/ Shutdown
           \/ \E j \in Job : ListFails(j) \/ Finish(j)
  BY <1>4, TypedRest
<1>5. CASE \E j \in Job : \E call \in job[j].todo : Give(j, call)
  BY <1>5, TypedGive
<1>6. CASE \E j \in Job : GiveUp(j)
  BY <1>6, TypedGiveUp
<1>7. CASE \E o \in orders : Perform(o)
  BY <1>7, TypedPerform
<1>8. CASE \E o \in orders : Refuse(o)
  BY <1>8, TypedRefuse
<1>9. CASE \E c \in Container, s \in Status : Elsewhere(c, s)
  BY <1>9, TypedElsewhere
<1>10. CASE UNCHANGED vars
  BY <1>10 DEF vars, Typed, TypeOK, Waited, Meant
<1> QED
  BY <1>1, <1>2, <1>3, <1>4, <1>5, <1>6, <1>7, <1>8, <1>9, <1>10 DEF Next, CallStep

\* Every variable of a job, of Docker and of the channel keeps its type.
THEOREM TypeCorrect == Spec => []TypeOK
<1>1. Typed => TypeOK
  BY DEF Typed
<1> QED
  BY <1>1, TypedInit, TypedNext, PTL DEF Spec

-----------------------------------------------------------------------------
(* Success means that everything was done                                  *)

\* A job that does not run owes nothing.
LEMMA ThoroughAway ==
    ASSUME NEW j \in Job, job'[j].pc \notin Busy
    PROVE  Present(j)' /\ Planned(j)'
BY DEF Present, Planned, Busy, Called

LEMMA ThoroughSame ==
    ASSUME Thorough, NEW j \in Job, status' = status,
           job'[j].pc = job[j].pc \/ (job'[j].pc \in Called /\ job[j].pc \in Called),
           job'[j].kind = job[j].kind, job'[j].target = job[j].target,
           job'[j].todo = job[j].todo, job'[j].hit = job[j].hit,
           job'[j].stayed = job[j].stayed
    PROVE  Present(j)' /\ Planned(j)'
<1>1. Present(j) /\ Planned(j)
  BY DEF Thorough
<1>2. Present(j)'
  BY <1>1 DEF Present, Busy, Called, Listing
<1>3. Planned(j)'
  BY <1>1 DEF Planned, Called
<1> QED
  BY <1>2, <1>3

\* When a container changes, the history of a job follows.
LEMMA PresentNoted ==
    ASSUME Typed, Thorough, NEW j \in Job, NEW c \in Container, NEW s \in Status,
           status' = [status EXCEPT ![c] = s],
           job[j].pc \in Busy,
           job'[j].kind = job[j].kind, job'[j].target = job[j].target,
           job'[j].stayed = Noted(j, c, s).stayed
    PROVE  Present(j)' /\ job'[j].stayed \subseteq job[j].stayed
<1>1. job'[j].stayed = IF c \in job[j].stayed /\ ~ Shown(job[j].kind, s)
                       THEN job[j].stayed \ {c} ELSE job[j].stayed
  BY NotedType DEF Typed
<1>2. job[j].stayed \subseteq Listing(job[j].kind, job[j].target)
  BY DEF Thorough, Present
<1>3. job[j].kind \in Kind /\ job[j].target \in Target
  BY DEF Typed, Meant
<1>4. ASSUME NEW d \in job'[j].stayed
      PROVE  d \in Match[job[j].target] /\ Shown(job[j].kind, status'[d])
  <2>1. d \in Match[job[j].target] /\ Shown(job[j].kind, status[d])
    BY <1>1, <1>2, <1>4 DEF Listing
  <2>2. d \in Container
    BY <1>3, <2>1, ConstantsAssumption
  <2>3. CASE d = c
    BY <1>1, <1>4, <2>1, <2>2, <2>3 DEF Typed, TypeOK
  <2>4. CASE d # c
    BY <2>1, <2>2, <2>4 DEF Typed, TypeOK
  <2> QED
    BY <2>3, <2>4
<1> QED
  BY <1>1, <1>4 DEF Present, Listing

LEMMA ThoroughNoted ==
    ASSUME Typed, Thorough, NEW j \in Job, NEW c \in Container, NEW s \in Status,
           status' = [status EXCEPT ![c] = s],
           job'[j] = Noted(j, c, s)
    PROVE  Present(j)' /\ Planned(j)'
<1> DEFINE n == Noted(j, c, s)
<1>a. TypeOK
  BY DEF Typed
<1>b. /\ n.pc = job[j].pc /\ n.kind = job[j].kind /\ n.target = job[j].target
      /\ n.todo = job[j].todo /\ n.hit = job[j].hit
  BY <1>a, NotedType
<1>1. /\ job'[j].pc = job[j].pc /\ job'[j].kind = job[j].kind
      /\ job'[j].target = job[j].target
      /\ job'[j].todo = job[j].todo /\ job'[j].hit = job[j].hit
  BY <1>b
<1>2. CASE job[j].pc \notin Busy
  BY <1>1, <1>2, ThoroughAway
<1>3. CASE job[j].pc \in Busy
  <2>1. Present(j)' /\ job'[j].stayed \subseteq job[j].stayed
    BY <1>1, <1>3, PresentNoted
  <2>2. Planned(j)
    BY DEF Thorough
  <2>3. Planned(j)'
    BY <1>1, <2>1, <2>2 DEF Planned
  <2> QED
    BY <2>1, <2>3
<1> QED
  BY <1>2, <1>3

LEMMA ThoroughPerform ==
    ASSUME Typed, Thorough, NEW o \in orders, Perform(o)
    PROVE  Thorough'
<1>1. PICK s \in Status :
          /\ status' = [status EXCEPT ![o.call.at] = s]
          /\ job' = [j \in Job |-> job'[j]]
          /\ \A j \in Job :
                job'[j] = IF j # o.by THEN Noted(j, o.call.at, s)
                          ELSE IF job'[j] = Idle THEN Idle ELSE Dealt(o, s)
  BY PerformJob DEF Typed
<1>2. o.call.at \in Container /\ TypeOK
  BY DEF Typed, TypeOK, Order, Call
<1>3. ASSUME NEW j \in Job
      PROVE  Present(j)' /\ Planned(j)'
  <2>1. CASE j # o.by
    <3>1. job'[j] = Noted(j, o.call.at, s)
      BY <1>1, <2>1
    <3> QED
      BY <1>1, <1>2, <3>1, ThoroughNoted
  <2>2. CASE j = o.by /\ job'[j] = Idle
    BY <2>2, ThoroughAway DEF Idle, Busy
  <2>3. CASE j = o.by /\ job'[j] # Idle
    <3>1. job'[j] = Dealt(o, s)
      BY <1>1, <2>3
    <3>2. /\ job'[j].pc = "call" /\ job'[j].kind = job[j].kind
          /\ job'[j].target = job[j].target
          /\ job'[j].todo = job[j].todo \ {o.call}
          /\ job'[j].hit = job[j].hit \cup {o.call.at}
          /\ job'[j].stayed = Noted(j, o.call.at, s).stayed
      BY <1>2, <2>3, <3>1, DealtType
    <3>3. job[j].pc \in {"wait", "read"}
      BY <2>3, SubscriberIsJob DEF Typed, Waited
    <3>4. Present(j)' /\ job'[j].stayed \subseteq job[j].stayed
      BY <1>1, <1>2, <3>2, <3>3, PresentNoted DEF Busy
    <3>5. Planned(j)
      BY DEF Thorough
    <3>6. Planned(j)'
      <4>1. CASE Registry[job[j].kind].each
        <5>1. \A c \in job[j].stayed :
                 c \in job[j].hit \/ \E call \in job[j].todo : call.at = c
          BY <3>3, <3>5, <4>1 DEF Planned, Called
        <5> QED
          BY <3>2, <3>4, <4>1, <5>1 DEF Planned
      <4>2. CASE ~ Registry[job[j].kind].each
        BY <3>2, <4>2 DEF Planned
      <4> QED
        BY <4>1, <4>2
    <3> QED
      BY <3>4, <3>6
  <2> QED
    BY <2>1, <2>2, <2>3
<1> QED
  BY <1>3 DEF Thorough

\* A listing plans a call for each container it has shown, or for one.
LEMMA PlanCovers ==
    ASSUME NEW k \in Kind, NEW t \in Target, NEW plan \in Plans(k, Listing(k, t))
    PROVE  IF Registry[k].each
           THEN \A c \in Listing(k, t) : \E call \in plan : call.at = c
           ELSE plan # {}
<1> DEFINE calls(c) == {[at |-> c, n |-> n] : n \in 1 .. Registry[k].calls}
<1>1. \A c \in Container : [at |-> c, n |-> 1] \in calls(c)
  BY RegistryType
<1>2. CASE Registry[k].each
  <2>1. plan = UNION {calls(c) : c \in Listing(k, t)}
    BY <1>2 DEF Plans
  <2>2. \A c \in Listing(k, t) : [at |-> c, n |-> 1] \in plan
    BY <1>1, <2>1, ListingType
  <2>3. \A c \in Container : [at |-> c, n |-> 1].at = c
    OBVIOUS
  <2> QED
    BY <1>2, <2>2, <2>3, ListingType
<1>3. CASE ~ Registry[k].each
  <2>1. plan \in {calls(c) : c \in Listing(k, t)}
    BY <1>3 DEF Plans
  <2> QED
    BY <1>1, <1>3, <2>1, ListingType
<1> QED
  BY <1>2, <1>3

LEMMA ThoroughList ==
    ASSUME Typed, Thorough, NEW j \in Job, List(j)
    PROVE  Present(j)' /\ Planned(j)'
<1>1. job[j] \in Running /\ job \in [Job -> Running]
      /\ job[j].kind \in Kind /\ job[j].target \in Target
  BY DEF Typed, TypeOK, List, Meant, Busy
<1>2. PICK plan \in Plans(job[j].kind, Listing(job[j].kind, job[j].target)) :
          job' = [job EXCEPT ![j] = [job[j] EXCEPT !.pc = "call", !.todo = plan]]
  BY DEF List
<1>3. /\ job'[j].pc = "call" /\ job'[j].kind = job[j].kind
      /\ job'[j].target = job[j].target /\ job'[j].todo = plan
      /\ job'[j].hit = job[j].hit /\ job'[j].stayed = job[j].stayed
  BY <1>1, <1>2 DEF Running
<1>4. status' = status
  BY DEF List
<1>5. job[j].stayed \subseteq Listing(job[j].kind, job[j].target)
  BY DEF Thorough, Present, List, Busy
<1>6. IF Registry[job[j].kind].each
      THEN \A c \in Listing(job[j].kind, job[j].target) : \E call \in plan : call.at = c
      ELSE plan # {}
  BY <1>1, <1>2, PlanCovers
<1>7. Present(j)'
  BY <1>3, <1>4, <1>5 DEF Present, Listing
<1>8. Planned(j)'
  BY <1>3, <1>5, <1>6 DEF Planned
<1> QED
  BY <1>7, <1>8

LEMMA ThoroughBegin ==
    ASSUME Typed, NEW j \in Job, NEW k \in Kind, NEW t \in Target, NEW m \in Nat,
           Begin(j, k, t, m), status' = status
    PROVE  Present(j)' /\ Planned(j)'
<1>1. /\ job'[j].pc = "list" /\ job'[j].kind = k /\ job'[j].target = t
      /\ job'[j].stayed = Listing(k, t)
  BY DEF Begin, Typed, TypeOK
<1> QED
  BY <1>1 DEF Present, Planned, Called, Listing

\* The steps of one job that change no container.
LEMMA ThoroughOne ==
    ASSUME Typed, Thorough, NEW j \in Job, status' = status,
           \A k \in Job : k # j => job'[k] = job[k],
           Present(j)' /\ Planned(j)'
    PROVE  Thorough'
<1> SUFFICES ASSUME NEW k \in Job
             PROVE  Present(k)' /\ Planned(k)'
  BY DEF Thorough
<1>1. CASE k = j
  BY <1>1
<1>2. CASE k # j
  <2>1. job'[k] = job[k]
    BY <1>2
  <2> QED
    BY <2>1, ThoroughSame
<1> QED
  BY <1>1, <1>2

LEMMA ThoroughTurn ==
    ASSUME Typed, Thorough, NEW j \in Job,
           \/ j \in Client /\ \E k \in Kind, t \in Target : Accept(j, k, t)
           \/ j = Subscriber /\ \E m \in waiting, k \in Kind, t \in Target : Take(m, k, t)
           \/ j = Subscriber /\ Leave
           \/ ListFails(j) \/ Finish(j) \/ GiveUp(j)
    PROVE  Thorough'
<1>1. status' = status /\ job \in [Job -> Running]
  BY DEF Accept, Take, Leave, ListFails, Finish, GiveUp, Typed, TypeOK
<1>2. \A k \in Job : k # j => job'[k] = job[k]
  BY <1>1 DEF Accept, Take, Leave, ListFails, Finish, GiveUp, Begin, Reply
<1>3. CASE j \in Client /\ \E k \in Kind, t \in Target : Accept(j, k, t)
  BY <1>1, <1>2, <1>3, ThoroughBegin, ThoroughOne DEF Accept
<1>4. CASE j = Subscriber /\ \E m \in waiting, k \in Kind, t \in Target : Take(m, k, t)
  <2>1. waiting \subseteq Nat
    BY DEF Typed, TypeOK
  <2> QED
    BY <1>1, <1>2, <1>4, <2>1, ThoroughBegin, ThoroughOne DEF Take
<1>5. CASE j = Subscriber /\ Leave
  <2>1. job'[j].pc = "off"
    BY <1>1, <1>5 DEF Leave, Running
  <2> QED
    BY <1>1, <1>2, <2>1, ThoroughAway, ThoroughOne DEF Busy
<1>6. CASE ListFails(j) \/ Finish(j) \/ GiveUp(j)
  <2>1. job'[j].pc = "idle"
    BY <1>1, <1>6 DEF ListFails, Finish, GiveUp, Reply, Idle
  <2> QED
    BY <1>1, <1>2, <2>1, ThoroughAway, ThoroughOne DEF Busy
<1> QED
  BY <1>3, <1>4, <1>5, <1>6

LEMMA ThoroughGoOn ==
    ASSUME Typed, Thorough, NEW j \in Job,
           \/ List(j) \/ Attach(j) \/ HangUp(j)
           \/ j = Subscriber /\ Shutdown
           \/ \E call \in job[j].todo : Give(j, call)
    PROVE  Thorough'
<1>1. status' = status /\ job \in [Job -> Running] /\ job[j] \in Running
  BY DEF List, Attach, HangUp, Shutdown, Give, Typed, TypeOK
<1>2. \A k \in Job : k # j => job'[k] = job[k]
  BY <1>1 DEF List, Attach, HangUp, Shutdown, Give
<1>3. CASE List(j)
  BY <1>1, <1>2, <1>3, ThoroughList, ThoroughOne
<1>4. CASE Attach(j) \/ \E call \in job[j].todo : Give(j, call)
  <2>1. /\ job'[j].pc \in Called /\ job[j].pc \in Called
        /\ job'[j].kind = job[j].kind /\ job'[j].target = job[j].target
        /\ job'[j].todo = job[j].todo /\ job'[j].hit = job[j].hit
        /\ job'[j].stayed = job[j].stayed
    BY <1>1, <1>4 DEF Attach, Give, Called, Running
  <2> QED
    BY <1>1, <1>2, <2>1, ThoroughSame, ThoroughOne
<1>5. CASE HangUp(j) \/ (j = Subscriber /\ Shutdown)
  <2>1. /\ job'[j].pc = job[j].pc
        /\ job'[j].kind = job[j].kind /\ job'[j].target = job[j].target
        /\ job'[j].todo = job[j].todo /\ job'[j].hit = job[j].hit
        /\ job'[j].stayed = job[j].stayed
    BY <1>1, <1>5 DEF HangUp, Shutdown, Running
  <2> QED
    BY <1>1, <1>2, <2>1, ThoroughSame, ThoroughOne
<1> QED
  BY <1>3, <1>4, <1>5

LEMMA ThoroughNext == Typed /\ Thorough /\ [Next]_vars => Thorough'
<1> SUFFICES ASSUME Typed, Thorough, [Next]_vars
             PROVE  Thorough'
  OBVIOUS
<1> USE SubscriberIsJob
<1>1. CASE \E j \in Job :
              \/ j \in Client /\ \E k \in Kind, t \in Target : Accept(j, k, t)
              \/ j = Subscriber /\ \E m \in waiting, k \in Kind, t \in Target :
                                       Take(m, k, t)
              \/ j = Subscriber /\ Leave
              \/ ListFails(j) \/ Finish(j) \/ GiveUp(j)
  BY <1>1, ThoroughTurn
<1>2. CASE \E j \in Job :
              \/ List(j) \/ Attach(j) \/ HangUp(j)
              \/ j = Subscriber /\ Shutdown
              \/ \E call \in job[j].todo : Give(j, call)
  BY <1>2, ThoroughGoOn
<1>3. CASE \E o \in orders : Perform(o)
  BY <1>3, ThoroughPerform
<1>4. CASE \E o \in orders : Refuse(o)
  <2>1. PICK o \in orders : Refuse(o)
    BY <1>4
  <2> SUFFICES ASSUME NEW j \in Job
               PROVE  Present(j)' /\ Planned(j)'
    BY DEF Thorough
  <2>2. status' = status /\ job'[j] = IF j = o.by THEN Idle ELSE job[j]
    BY <2>1 DEF Refuse
  <2>3. CASE j = o.by
    <3>1. job'[j].pc = "idle"
      BY <2>2, <2>3 DEF Idle
    <3> QED
      BY <3>1, ThoroughAway DEF Busy
  <2>4. CASE j # o.by
    BY <2>2, <2>4, ThoroughSame
  <2> QED
    BY <2>3, <2>4
<1>5. CASE \E c \in Container, s \in Status : Elsewhere(c, s)
  BY <1>5, ThoroughNoted DEF Elsewhere, Thorough
<1>6. CASE (\E m \in waiting : Drop(m)) \/ Publish \/ UNCHANGED vars
  <2>1. status' = status /\ job' = job
    BY <1>6 DEF Drop, Publish, vars
  <2> QED
    BY <2>1, ThoroughSame DEF Thorough
<1> QED
  BY <1>1, <1>2, <1>3, <1>4, <1>5, <1>6 DEF Next, CallStep

LEMMA ThoroughInit == Init => Thorough
BY DEF Init, Thorough, Present, Planned, Busy, Called, Idle

\* Success is answered only when each container that stayed in the listing
\* has been dealt with, or one where one was asked for.
THEOREM SuccessIsThorough == Spec => SuccessMeansAll
<1>1. Typed /\ Thorough /\ [Next]_vars =>
          [\A j \in Job : Finish(j) =>
              IF Registry[job[j].kind].each THEN job[j].stayed \subseteq job[j].hit
                                            ELSE job[j].hit # {}]_vars
  <2> SUFFICES ASSUME Thorough, NEW j \in Job, Finish(j)
               PROVE  IF Registry[job[j].kind].each
                      THEN job[j].stayed \subseteq job[j].hit
                      ELSE job[j].hit # {}
    OBVIOUS
  <2>1. Planned(j) /\ job[j].pc = "call" /\ job[j].todo = {}
    BY DEF Thorough, Finish
  <2> QED
    BY <2>1 DEF Planned, Called
<1>2. Typed /\ Thorough /\ [Next]_vars => (Typed /\ Thorough)'
  BY TypedNext, ThoroughNext
<1>3. Init => Typed /\ Thorough
  BY TypedInit, ThoroughInit
<1> QED
  BY <1>1, <1>2, <1>3, PTL DEF Spec, SuccessMeansAll

-----------------------------------------------------------------------------
(* What is done for messages is done in their order                        *)

\* Step by step, a job goes on with what it is about, or ends.
Kept(j) ==
    \/ job'[j] = Idle
    \/ /\ job'[j].msg = job[j].msg
       /\ j = Subscriber => job'[j].cut = job[j].cut
       /\ job'[j].pc \in Busy => job[j].pc \in Busy

LEMMA IdleFields == Idle.pc = "idle" /\ Idle.msg = 0 /\ Idle.cut = FALSE
BY DEF Idle

LEMMA RolesKept ==
    ASSUME Roles, \A j \in Job : Kept(j), shutdown' = shutdown,
           \A o \in orders' : o.by = None => o \in orders
    PROVE  Roles'
<1> USE SubscriberIsJob, IdleFields
<1>1. \A j \in Client : job'[j].msg = 0
  BY DEF Roles, Kept
<1>2. job'[Subscriber].cut => shutdown'
  BY DEF Roles, Kept
<1>3. shutdown' /\ job'[Subscriber].pc \in Busy => job'[Subscriber].cut
  BY DEF Roles, Kept, Busy
<1> QED
  BY <1>1, <1>2, <1>3 DEF Roles

LEMMA SequencedKept ==
    ASSUME Sequenced, Kept(Subscriber),
           waiting' \subseteq waiting, sent' = sent, applied' = applied,
           \A o \in orders' : \E p \in orders : p.msg = o.msg
    PROVE  Sequenced'
<1>1. job'[Subscriber].pc \in Busy =>
          job[Subscriber].pc \in Busy /\ job'[Subscriber].msg = job[Subscriber].msg
  BY IdleFields DEF Kept, Busy
<1>2. ASSUME NEW o \in orders', o.msg # 0
      PROVE  /\ applied' <= o.msg
             /\ o.msg <= sent'
             /\ \A m \in waiting' : o.msg < m
             /\ \A p \in orders' : p.msg # 0 => p.msg = o.msg
             /\ job'[Subscriber].pc \in Busy => o.msg <= job'[Subscriber].msg
  BY <1>1, <1>2 DEF Sequenced
<1> QED
  BY <1>1, <1>2 DEF Sequenced

\* Steps that take no message, give no order and do nothing for one.
LEMMA OrderlyKept ==
    ASSUME Orderly, \A j \in Job : Kept(j), shutdown' = shutdown,
           waiting' \subseteq waiting, sent' = sent, applied' = applied,
           orders' \subseteq orders
    PROVE  Orderly'
BY RolesKept, SequencedKept, SubscriberIsJob DEF Orderly

\* The steps of one job that give no order.
LEMMA OrderlyOne ==
    ASSUME Typed, Orderly, NEW j \in Job,
           \/ List(j) \/ Attach(j) \/ ListFails(j) \/ Finish(j)
           \/ j \in Client /\ HangUp(j)
           \/ j = Subscriber /\ Leave
    PROVE  Orderly'
<1>1. job \in [Job -> Running] /\ job[j] \in Running
  BY DEF Typed, TypeOK
<1>2. UNCHANGED <<orders, waiting, sent, applied, shutdown>>
  BY DEF List, Attach, ListFails, Finish, HangUp, Leave
<1>3. \A k \in Job : k # j => job'[k] = job[k]
  BY <1>1 DEF List, Attach, ListFails, Finish, HangUp, Leave, Reply
<1>4. Kept(j)
  <2>1. CASE List(j)
    <3>1. PICK plan \in Plans(job[j].kind, Listing(job[j].kind, job[j].target)) :
            job' = [job EXCEPT ![j] = [job[j] EXCEPT !.pc = "call", !.todo = plan]]
      BY <2>1 DEF List
    <3>2. job'[j].msg = job[j].msg /\ job'[j].cut = job[j].cut
      BY <1>1, <3>1 DEF Running
    <3> QED
      BY <2>1, <3>2 DEF List, Busy, Kept
  <2>5. CASE Attach(j)
    <3>1. job' = [job EXCEPT ![j] = [job[j] EXCEPT !.pc = "read"]]
      BY <2>5 DEF Attach
    <3>2. job'[j].msg = job[j].msg /\ job'[j].cut = job[j].cut
      BY <1>1, <3>1 DEF Running
    <3> QED
      BY <2>5, <3>2 DEF Attach, Busy, Kept
  <2>2. CASE ListFails(j) \/ Finish(j)
    BY <1>1, <2>2 DEF ListFails, Finish, Reply, Kept
  <2>3. CASE j \in Client /\ HangUp(j)
    BY <1>1, <2>3, ConstantsAssumption DEF HangUp, Kept, Running
  <2>4. CASE j = Subscriber /\ Leave
    BY <1>1, <2>4 DEF Leave, Kept, Busy, Running
  <2> QED
    BY <2>1, <2>2, <2>3, <2>4, <2>5
<1>5. \A k \in Job : Kept(k)
  BY <1>3, <1>4 DEF Kept
<1> QED
  BY <1>2, <1>5, OrderlyKept

\* An order that is given is the only one for a message.
LEMMA OrderlyGive ==
    ASSUME Typed, Orderly, NEW j \in Job, NEW call \in job[j].todo, Give(j, call)
    PROVE  Orderly'
<1> DEFINE g == [by |-> j, msg |-> job[j].msg, call |-> call,
                 op |-> Registry[job[j].kind].op]
<1>1. job \in [Job -> Running] /\ job[j] \in Running /\ job[j].msg \in Nat
  BY DEF Typed, TypeOK, Running
<1>2. orders' = orders \cup {g} /\ g.by = j /\ g.msg = job[j].msg
  BY DEF Give
<1> HIDE DEF g
<1>3. \A k \in Job : Kept(k)
  BY <1>1 DEF Give, Kept, Busy, Running
<1>4. Roles'
  BY <1>2, <1>3, RolesKept, SubscriberIsJob DEF Give, Orderly
<1>5. job'[Subscriber].pc \in Busy =>
          job[Subscriber].pc \in Busy /\ job'[Subscriber].msg = job[Subscriber].msg
  BY <1>3, IdleFields, SubscriberIsJob DEF Kept, Busy
<1>6. CASE j \in Client
  <2>1. g.msg = 0
    BY <1>2, <1>6 DEF Orderly, Roles
  <2>2. Sequenced'
    BY <1>2, <1>5, <2>1 DEF Give, Orderly, Sequenced
  <2> QED
    BY <1>4, <2>2 DEF Orderly
<1>7. CASE j = Subscriber
  <2>1. ~ shutdown /\ job[Subscriber].pc \in Busy
    BY <1>7 DEF Give, Orderly, Roles, Busy
  <2>2. \A o \in orders : o.by # None /\ o.by # Subscriber
    BY <1>7, <2>1, SubscriberIsJob DEF Give, Orderly, Roles, Typed, Waited
  <2>3. \A o \in orders : o.msg = 0
    BY <2>2 DEF Typed, TypeOK, Waited, Order, Job, Orderly, Roles
  <2>4. Sequenced'
    BY <1>1, <1>2, <1>5, <1>7, <2>1, <2>3 DEF Give, Orderly, Sequenced
  <2> QED
    BY <1>4, <2>4 DEF Orderly
<1> QED
  BY <1>6, <1>7 DEF Job

LEMMA OrderlyGiveUp ==
    ASSUME Typed, Orderly, NEW j \in Job, GiveUp(j)
    PROVE  Orderly'
<1>1. job \in [Job -> Running]
  BY DEF Typed, TypeOK
<1>2. \A k \in Job : Kept(k)
  BY <1>1 DEF GiveUp, Reply, Kept
<1>3. \A o \in orders' :
          \/ o \in orders
          \/ \E p \in orders : p.by = j /\ p.msg # 0 /\ o = [p EXCEPT !.by = None]
  BY DEF GiveUp, Disown
<1>4. \A p \in orders : [p EXCEPT !.by = None].msg = p.msg
  BY DEF Typed, TypeOK, Order
<1>5. Sequenced'
  <2>1. \A o \in orders' : \E p \in orders : p.msg = o.msg
    BY <1>3, <1>4
  <2>2. Kept(Subscriber) /\ waiting' = waiting /\ sent' = sent /\ applied' = applied
    BY <1>2, SubscriberIsJob DEF GiveUp
  <2> QED
    BY <2>1, <2>2, SequencedKept DEF Orderly
<1>6. CASE shutdown
  <2>1. shutdown' /\ \A k \in Client : job'[k].msg = 0
    BY <1>2, <1>6, SubscriberIsJob, IdleFields DEF GiveUp, Orderly, Roles, Kept
  <2>2. job'[Subscriber].pc \in Busy => job'[Subscriber].cut
    BY <1>2, <1>6, SubscriberIsJob, IdleFields DEF Orderly, Roles, Kept, Busy
  <2> QED
    BY <1>5, <2>1, <2>2 DEF Orderly, Roles
<1>7. CASE ~ shutdown
  <2>1. j # Subscriber
    BY <1>7 DEF GiveUp, Orderly, Roles
  <2>2. job[j].msg = 0
    BY <2>1 DEF Job, Orderly, Roles
  <2>3. \A p \in orders : p.by = j => p.msg = 0
    BY <2>2, SubscriberIsJob DEF Typed, Waited
  <2>4. orders' \subseteq orders
    BY <1>3, <2>3
  <2> QED
    BY <1>2, <1>5, <2>4, RolesKept DEF GiveUp, Orderly
<1> QED
  BY <1>6, <1>7

LEMMA KeptNoted ==
    ASSUME Typed, NEW j \in Job, NEW c \in Container, NEW s \in Status,
           job'[j] = Noted(j, c, s)
    PROVE  Kept(j)
<1>1. TypeOK
  BY DEF Typed
<1>2. /\ Noted(j, c, s).pc = job[j].pc
      /\ Noted(j, c, s).msg = job[j].msg
      /\ Noted(j, c, s).cut = job[j].cut
  BY <1>1, NotedType
<1> QED
  BY <1>2 DEF Kept

LEMMA OrderlyPerform ==
    ASSUME Typed, Orderly, NEW o \in orders, Perform(o)
    PROVE  Orderly'
<1>1. PICK s \in Status : \A j \in Job :
          job'[j] = IF j # o.by THEN Noted(j, o.call.at, s)
                    ELSE IF job'[j] = Idle THEN Idle ELSE Dealt(o, s)
  BY PerformJob DEF Typed
<1>2. o.call.at \in Container /\ o.msg \in Nat /\ applied \in Nat /\ TypeOK
  BY DEF Typed, TypeOK, Order, Call
<1>3. ASSUME NEW j \in Job
      PROVE  Kept(j)
  <2>1. CASE j # o.by
    BY <1>1, <1>2, <2>1, KeptNoted
  <2>2. CASE j = o.by /\ job'[j] = Idle
    BY <2>2 DEF Kept
  <2>3. CASE j = o.by /\ job'[j] # Idle
    <3>1. job'[j] = Dealt(o, s)
      BY <1>1, <2>3
    <3>2. Dealt(o, s).msg = job[j].msg /\ Dealt(o, s).cut = job[j].cut
      BY <1>2, <2>3, DealtType
    <3>3. job[j].pc \in Busy
      BY <2>3, SubscriberIsJob DEF Typed, Waited, Busy
    <3> QED
      BY <3>1, <3>2, <3>3 DEF Kept
  <2> QED
    BY <2>1, <2>2, <2>3
<1>4. /\ orders' \subseteq orders /\ waiting' = waiting /\ sent' = sent
      /\ shutdown' = shutdown
      /\ applied' = IF o.msg > applied THEN o.msg ELSE applied
  BY DEF Perform
<1>5. CASE applied' = applied
  BY <1>3, <1>4, <1>5, OrderlyKept
<1>6. CASE applied' = o.msg /\ o.msg # 0
  <2>1. job'[Subscriber].pc \in Busy =>
          job[Subscriber].pc \in Busy /\ job'[Subscriber].msg = job[Subscriber].msg
    BY <1>3, IdleFields, SubscriberIsJob DEF Kept, Busy
  <2>a. /\ o.msg <= sent
        /\ \A m \in waiting : o.msg < m
        /\ \A p \in orders : p.msg # 0 => p.msg = o.msg
        /\ job[Subscriber].pc \in Busy => o.msg <= job[Subscriber].msg
    BY <1>6 DEF Orderly, Sequenced
  <2>b. \A p \in orders' : p.msg # 0 =>
          /\ applied' <= p.msg
          /\ p.msg <= sent'
          /\ \A m \in waiting' : p.msg < m
          /\ \A q \in orders' : q.msg # 0 => q.msg = p.msg
          /\ job'[Subscriber].pc \in Busy => p.msg <= job'[Subscriber].msg
    <3> SUFFICES ASSUME NEW p \in orders', p.msg # 0
                 PROVE  /\ p.msg = o.msg
                        /\ applied' <= o.msg
                        /\ o.msg <= sent'
                        /\ \A m \in waiting' : o.msg < m
                        /\ \A q \in orders' : q.msg # 0 => q.msg = o.msg
                        /\ job'[Subscriber].pc \in Busy => o.msg <= job'[Subscriber].msg
      OBVIOUS
    <3>1. p.msg = o.msg /\ applied' <= o.msg
      BY <1>2, <1>4, <1>6, <2>a
    <3> QED
      BY <1>4, <2>1, <2>a, <3>1
  <2>2. Sequenced'
    BY <1>4, <1>6, <2>1, <2>a, <2>b DEF Orderly, Sequenced
  <2>3. Roles'
    BY <1>3, <1>4, RolesKept DEF Orderly
  <2> QED
    BY <2>2, <2>3 DEF Orderly
<1> QED
  BY <1>2, <1>4, <1>5, <1>6

LEMMA OrderlyTake ==
    ASSUME Typed, Orderly, NEW m \in waiting, NEW k \in Kind, NEW t \in Target,
           Take(m, k, t)
    PROVE  Orderly'
<1>1. /\ job'[Subscriber].pc = "list" /\ job'[Subscriber].msg = m
      /\ job'[Subscriber].cut = shutdown
      /\ \A j \in Client : job'[j] = job[j]
  BY SubscriberIsJob, ConstantsAssumption DEF Take, Begin, Typed, TypeOK
<1>2. /\ orders' = orders /\ sent' = sent /\ applied' = applied
      /\ shutdown' = shutdown /\ waiting' = waiting \ {m}
      /\ \A n \in waiting : m <= n
  BY DEF Take
<1>3. Roles'
  BY <1>1, <1>2 DEF Orderly, Roles
<1>4. m \in Nat /\ waiting \subseteq Nat /\ applied \in Nat /\ sent \in Nat
      /\ \A o \in orders : o.msg \in Nat
  BY DEF Typed, TypeOK, Order
<1>5. \A n \in waiting' : m < n
  BY <1>2, <1>4
<1>6. Sequenced'
  BY <1>1, <1>2, <1>4, <1>5 DEF Orderly, Sequenced
<1> QED
  BY <1>3, <1>6 DEF Orderly

LEMMA OrderlyAccept ==
    ASSUME Typed, Orderly, NEW j \in Client, NEW k \in Kind, NEW t \in Target,
           Accept(j, k, t)
    PROVE  Orderly'
<1>1. job'[j].msg = 0 /\ \A i \in Job : i # j => job'[i] = job[i]
  BY SubscriberIsJob DEF Accept, Begin, Typed, TypeOK
<1>2. job'[Subscriber] = job[Subscriber]
  BY <1>1, SubscriberIsJob, ConstantsAssumption
<1>3. UNCHANGED <<orders, waiting, sent, applied, shutdown>>
  BY DEF Accept
<1>4. Roles'
  BY <1>1, <1>2, <1>3, SubscriberIsJob DEF Orderly, Roles
<1>5. Sequenced'
  BY <1>2, <1>3 DEF Orderly, Sequenced
<1> QED
  BY <1>4, <1>5 DEF Orderly

LEMMA OrderlyRest ==
    ASSUME Typed, Orderly
    PROVE  /\ \A o \in orders : Refuse(o) => Orderly'
           /\ \A c \in Container, s \in Status : Elsewhere(c, s) => Orderly'
           /\ \A m \in waiting : Drop(m) => Orderly'
           /\ Publish => Orderly'
           /\ Shutdown => Orderly'
           /\ UNCHANGED vars => Orderly'
<1>1. ASSUME NEW o \in orders, Refuse(o)
      PROVE  Orderly'
  <2>1. \A j \in Job : Kept(j)
    BY <1>1 DEF Refuse, Kept
  <2> QED
    BY <1>1, <2>1, OrderlyKept DEF Refuse
<1>2. ASSUME NEW c \in Container, NEW s \in Status, Elsewhere(c, s)
      PROVE  Orderly'
  <2>1. \A j \in Job : Kept(j)
    BY <1>2, KeptNoted DEF Elsewhere
  <2> QED
    BY <1>2, <2>1, OrderlyKept DEF Elsewhere
<1>3. ASSUME NEW m \in waiting, Drop(m)
      PROVE  Orderly'
  <2>1. \A j \in Job : Kept(j)
    BY <1>3 DEF Drop, Kept
  <2> QED
    BY <1>3, <2>1, OrderlyKept DEF Drop
<1>4. ASSUME Publish
      PROVE  Orderly'
  <2>1. /\ waiting' \subseteq waiting \cup {sent + 1} /\ sent' = sent + 1
        /\ UNCHANGED <<orders, job, applied, shutdown>>
    BY <1>4 DEF Publish
  <2>2. /\ sent \in Nat /\ applied \in Nat /\ waiting \subseteq Nat
        /\ \A o \in orders : o.msg \in Nat
        /\ job[Subscriber].msg \in Nat
    BY SubscriberIsJob DEF Typed, TypeOK, Order, Running
  <2>3. Sequenced'
    BY <2>1, <2>2 DEF Orderly, Sequenced
  <2>4. Roles'
    BY <2>1 DEF Orderly, Roles
  <2> QED
    BY <2>3, <2>4 DEF Orderly
<1>5. ASSUME Shutdown
      PROVE  Orderly'
  <2>1. job \in [Job -> Running]
    BY DEF Typed, TypeOK
  <2>2. /\ job'[Subscriber].cut = TRUE /\ job'[Subscriber].pc = job[Subscriber].pc
        /\ job'[Subscriber].msg = job[Subscriber].msg
        /\ \A j \in Client : job'[j] = job[j]
        /\ shutdown' = TRUE
    BY <1>5, <2>1, SubscriberIsJob, ConstantsAssumption DEF Shutdown, Running
  <2>3. UNCHANGED <<orders, waiting, sent, applied>>
    BY <1>5 DEF Shutdown
  <2>4. Roles'
    BY <2>2, <2>3 DEF Orderly, Roles
  <2>5. Sequenced'
    BY <2>2, <2>3 DEF Orderly, Sequenced
  <2> QED
    BY <2>4, <2>5 DEF Orderly
<1>6. ASSUME UNCHANGED vars
      PROVE  Orderly'
  BY <1>6 DEF vars, Orderly, Roles, Sequenced
<1> QED
  BY <1>1, <1>2, <1>3, <1>4, <1>5, <1>6

LEMMA OrderlyNext == Typed /\ Orderly /\ [Next]_vars => Orderly'
<1> SUFFICES ASSUME Typed, Orderly, [Next]_vars
             PROVE  Orderly'
  OBVIOUS
<1> USE SubscriberIsJob
<1>1. CASE \E j \in Job :
              \/ List(j) \/ Attach(j) \/ ListFails(j) \/ Finish(j)
              \/ j \in Client /\ HangUp(j)
              \/ j = Subscriber /\ Leave
  BY <1>1, OrderlyOne
<1>2. CASE \E j \in Client, k \in Kind, t \in Target : Accept(j, k, t)
  BY <1>2, OrderlyAccept
<1>3. CASE \E m \in waiting, k \in Kind, t \in Target : Take(m, k, t)
  BY <1>3, OrderlyTake
<1>4. CASE \E j \in Job : \E call \in job[j].todo : Give(j, call)
  BY <1>4, OrderlyGive
<1>5. CASE \E j \in Job : GiveUp(j)
  BY <1>5, OrderlyGiveUp
<1>6. CASE \E o \in orders : Perform(o)
  BY <1>6, OrderlyPerform
<1>7. CASE \/ \E o \in orders : Refuse(o)
           \/ \E c \in Container, s \in Status : Elsewhere(c, s)
           \/ \E m \in waiting : Drop(m)
           \/ Publish \/ Shutdown \/ UNCHANGED vars
  BY <1>7, OrderlyRest
<1> QED
  BY <1>1, <1>2, <1>3, <1>4, <1>5, <1>6, <1>7 DEF Next, CallStep

LEMMA OrderlyInit == Init => Orderly
<1> SUFFICES ASSUME Init
             PROVE  Orderly
  OBVIOUS
<1>1. \A j \in Job : job[j] = Idle
  BY DEF Init
<1> QED
  BY <1>1, SubscriberIsJob, IdleFields DEF Init, Orderly, Roles, Sequenced, Busy

\* For any number of clients, containers and messages, Docker is never made
\* to do something for a message after it has done something for a newer one.
THEOREM MessagesInOrder == Spec => InOrder
<1>1. Typed /\ Orderly /\ [Next]_vars =>
          [\A o \in orders : Perform(o) /\ o.msg # 0 => o.msg >= applied]_vars
  <2> SUFFICES ASSUME Typed, Orderly, NEW o \in orders, o.msg # 0
               PROVE  o.msg >= applied
    OBVIOUS
  <2>1. o.msg \in Nat /\ applied \in Nat
    BY DEF Typed, TypeOK, Order
  <2> QED
    BY <2>1 DEF Orderly, Sequenced
<1>2. Typed /\ Orderly /\ [Next]_vars => (Typed /\ Orderly)'
  BY TypedNext, OrderlyNext
<1>3. Init => Typed /\ Orderly
  BY TypedInit, OrderlyInit
<1> QED
  BY <1>1, <1>2, <1>3, PTL DEF Spec, InOrder

-----------------------------------------------------------------------------
(* The promise                                                             *)

\* A job that does not run is about nothing; one that does calls only where
\* its target is, and as often as its kind says.
Settled(j) ==
    /\ job[j].pc \notin Busy => About(job[j]) = About(Idle)
    /\ job[j].pc \in Called => \A call \in job[j].todo :
          /\ call.at \in Match[job[j].target]
          /\ call.n \in 1 .. Registry[job[j].kind].calls

Founded == (\A j \in Job : Settled(j)) /\ sent <= MaxMessages

LEMMA AboutFields ==
    ASSUME NEW r
    PROVE  /\ About(r).kind = r.kind /\ About(r).target = r.target
           /\ About(r).msg = r.msg /\ About(r).stayed = r.stayed /\ About(r).hit = r.hit
BY DEF About

\* A job that ends, or goes on with the same calls or fewer.
LEMMA SettledSame ==
    ASSUME NEW j \in Job, Settled(j),
           \/ job'[j] = Idle
           \/ /\ job'[j].pc \in Busy <=> job[j].pc \in Busy
              /\ job'[j].pc \in Called => job[j].pc \in Called
              /\ job'[j].kind = job[j].kind /\ job'[j].target = job[j].target
              /\ job'[j].pc \notin Busy => About(job'[j]) = About(job[j])
              /\ job'[j].todo \subseteq job[j].todo
    PROVE  Settled(j)'
<1>1. Idle.pc \notin Busy /\ Idle.pc \notin Called
  BY IdleFields DEF Busy, Called
<1> QED
  BY <1>1 DEF Settled

\* The calls of a plan are on containers of the target.
LEMMA PlanSought ==
    ASSUME NEW k \in Kind, NEW t \in Target, NEW plan \in Plans(k, Listing(k, t)),
           NEW call \in plan
    PROVE  call.at \in Match[t] /\ call.n \in 1 .. Registry[k].calls
<1> DEFINE calls(c) == {[at |-> c, n |-> n] : n \in 1 .. Registry[k].calls}
<1>1. \E c \in Listing(k, t) : call \in calls(c)
  BY DEF Plans
<1> QED
  BY <1>1 DEF Listing

LEMMA SettledNoted ==
    ASSUME Typed, NEW j \in Job, Settled(j), NEW c \in Container, NEW s \in Status,
           job'[j] = Noted(j, c, s)
    PROVE  Settled(j)'
<1> DEFINE n == Noted(j, c, s)
<1>1. /\ n.pc = job[j].pc /\ n.kind = job[j].kind /\ n.target = job[j].target
      /\ n.msg = job[j].msg /\ n.todo = job[j].todo /\ n.hit = job[j].hit
      /\ n.stayed = IF c \in job[j].stayed /\ ~ Shown(job[j].kind, s)
                    THEN job[j].stayed \ {c} ELSE job[j].stayed
  BY NotedType DEF Typed
<1>2. n.pc \notin Busy => About(n) = About(job[j])
  <2>1. job[j].pc \notin Busy => job[j].stayed = {}
    BY AboutFields DEF Settled, Idle
  <2> HIDE DEF n
  <2> QED
    BY <1>1, <2>1 DEF About
<1> HIDE DEF n
<1>3. job'[j] = n
  BY DEF n
<1> QED
  BY <1>1, <1>2, <1>3, SettledSame

LEMMA SettledPerform ==
    ASSUME Typed, NEW o \in orders, Perform(o), NEW j \in Job, Settled(j)
    PROVE  Settled(j)'
<1>1. PICK s \in Status :
          job'[j] = IF j # o.by THEN Noted(j, o.call.at, s)
                    ELSE IF job'[j] = Idle THEN Idle ELSE Dealt(o, s)
  BY PerformJob DEF Typed
<1>2. o.call.at \in Container /\ TypeOK
  BY DEF Typed, TypeOK, Order, Call
<1>3. CASE j # o.by
  BY <1>1, <1>2, <1>3, SettledNoted
<1>4. CASE job'[j] = Idle
  BY <1>4, SettledSame
<1>5. CASE j = o.by /\ job'[j] # Idle
  <2>1. job'[j] = Dealt(o, s)
    BY <1>1, <1>5
  <2>2. /\ job'[j].pc = "call" /\ job'[j].kind = job[j].kind
        /\ job'[j].target = job[j].target
        /\ job'[j].todo = job[j].todo \ {o.call}
    BY <1>2, <1>5, <2>1, DealtType
  <2>3. job[j].pc \in {"wait", "read"}
    BY <1>5, SubscriberIsJob DEF Typed, Waited
  <2> QED
    BY <2>2, <2>3, SettledSame DEF Busy, Called
<1> QED
  BY <1>3, <1>4, <1>5

LEMMA SettledBegin ==
    ASSUME Typed, NEW j \in Job, NEW k \in Kind, NEW t \in Target, NEW m \in Nat,
           Begin(j, k, t, m)
    PROVE  Settled(j)'
<1>1. job'[j].pc = "list"
  BY DEF Begin, Typed, TypeOK
<1> QED
  BY <1>1 DEF Settled, Busy, Called

\* The steps of one job.
LEMMA SettledOne ==
    ASSUME Typed, NEW j \in Job, Settled(j),
           \/ j \in Client /\ \E k \in Kind, t \in Target : Accept(j, k, t)
           \/ j = Subscriber /\ \E m \in waiting, k \in Kind, t \in Target : Take(m, k, t)
           \/ j = Subscriber /\ (Leave \/ Shutdown)
           \/ List(j) \/ ListFails(j) \/ Attach(j) \/ HangUp(j)
           \/ Finish(j) \/ GiveUp(j) \/ \E call \in job[j].todo : Give(j, call)
    PROVE  Settled(j)'
<1>1. job \in [Job -> Running] /\ job[j] \in Running /\ waiting \subseteq Nat
  BY DEF Typed, TypeOK
<1>2. CASE \/ j \in Client /\ \E k \in Kind, t \in Target : Accept(j, k, t)
           \/ j = Subscriber /\ \E m \in waiting, k \in Kind, t \in Target : Take(m, k, t)
  BY <1>1, <1>2, SettledBegin DEF Accept, Take
<1>3. CASE ListFails(j) \/ Finish(j) \/ GiveUp(j)
  BY <1>1, <1>3, SettledSame DEF ListFails, Finish, GiveUp, Reply
<1>4. CASE List(j)
  <2>1. PICK plan \in Plans(job[j].kind, Listing(job[j].kind, job[j].target)) :
            job' = [job EXCEPT ![j] = [job[j] EXCEPT !.pc = "call", !.todo = plan]]
    BY <1>4 DEF List
  <2>2. job[j].kind \in Kind /\ job[j].target \in Target
    BY <1>4 DEF Typed, List, Meant, Busy
  <2>3. /\ job'[j].pc = "call" /\ job'[j].kind = job[j].kind
        /\ job'[j].target = job[j].target /\ job'[j].todo = plan
    BY <1>1, <2>1 DEF Running
  <2> QED
    BY <2>2, <2>3, PlanSought DEF Settled, Busy
<1>5. CASE Attach(j) \/ \E call \in job[j].todo : Give(j, call)
  <2>1. /\ job'[j].pc \in {"wait", "read"} /\ job[j].pc \in {"call", "wait"}
        /\ job'[j].kind = job[j].kind
        /\ job'[j].target = job[j].target /\ job'[j].todo = job[j].todo
    BY <1>1, <1>5 DEF Attach, Give, Running
  <2> QED
    BY <2>1, SettledSame DEF Busy, Called
<1>6. CASE \/ j = Subscriber /\ (Leave \/ Shutdown)
           \/ HangUp(j)
  <2>1. /\ job'[j].pc = job[j].pc \/ (job[j].pc = "idle" /\ job'[j].pc = "off")
        /\ job'[j].kind = job[j].kind /\ job'[j].target = job[j].target
        /\ job'[j].todo = job[j].todo /\ job'[j].msg = job[j].msg
        /\ job'[j].stayed = job[j].stayed /\ job'[j].hit = job[j].hit
    BY <1>1, <1>6 DEF Leave, Shutdown, HangUp, Running
  <2>2. About(job'[j]) = About(job[j])
    BY <2>1 DEF About
  <2> QED
    BY <2>1, <2>2, SettledSame DEF Busy, Called
<1> QED
  BY <1>2, <1>3, <1>4, <1>5, <1>6

LEMMA FoundedNext == Typed /\ Founded /\ [Next]_vars => Founded'
<1> SUFFICES ASSUME Typed, Founded, [Next]_vars
             PROVE  Founded'
  OBVIOUS
<1> USE SubscriberIsJob
<1>1. sent' <= MaxMessages
  <2>1. CASE Publish
    BY <2>1, ConstantsAssumption DEF Publish, Typed, TypeOK
  <2>2. CASE sent' = sent
    BY <2>2 DEF Founded
  <2> QED
    BY <2>1, <2>2 DEF Next, CallStep, Accept, HangUp, Take, Drop, Leave, List,
       ListFails, Attach, Give, Finish, GiveUp, Perform, Refuse, Elsewhere, Shutdown, vars
<1> SUFFICES ASSUME NEW i \in Job
             PROVE  Settled(i)'
  BY <1>1 DEF Founded
<1>2. Settled(i)
  BY DEF Founded
<1>3. ASSUME NEW j \in Job,
             \/ j \in Client /\ \E k \in Kind, t \in Target : Accept(j, k, t)
             \/ j = Subscriber /\ \E m \in waiting, k \in Kind, t \in Target : Take(m, k, t)
             \/ j = Subscriber /\ (Leave \/ Shutdown)
             \/ List(j) \/ ListFails(j) \/ Attach(j) \/ HangUp(j)
             \/ Finish(j) \/ GiveUp(j) \/ \E call \in job[j].todo : Give(j, call)
      PROVE  Settled(i)'
  <2>1. CASE i = j
    BY <1>2, <1>3, <2>1, SettledOne
  <2>2. CASE i # j
    <3>1. job'[i] = job[i]
      <4>0. job \in [Job -> Running]
        BY DEF Typed, TypeOK
      <4>1. CASE \/ j \in Client /\ \E k \in Kind, t \in Target : Accept(j, k, t)
                 \/ j = Subscriber /\ \E m \in waiting, k \in Kind, t \in Target :
                                          Take(m, k, t)
                 \/ ListFails(j) \/ Finish(j) \/ GiveUp(j)
        BY <2>2, <4>0, <4>1 DEF Accept, Take, Begin, ListFails, Finish, GiveUp, Reply
      <4>2. CASE j = Subscriber /\ (Leave \/ Shutdown)
        BY <2>2, <4>0, <4>2 DEF Leave, Shutdown
      <4>3. CASE \/ List(j) \/ Attach(j) \/ HangUp(j)
                 \/ \E call \in job[j].todo : Give(j, call)
        BY <2>2, <4>0, <4>3 DEF List, Attach, HangUp, Give
      <4> QED
        BY <1>3, <4>1, <4>2, <4>3
    <3> QED
      BY <1>2, <3>1, SettledSame
  <2> QED
    BY <2>1, <2>2
<1>4. CASE \E o \in orders : Perform(o)
  BY <1>2, <1>4, SettledPerform
<1>5. CASE \E o \in orders : Refuse(o)
  <2>1. job'[i] = Idle \/ job'[i] = job[i]
    BY <1>5 DEF Refuse
  <2> QED
    BY <1>2, <2>1, SettledSame
<1>6. CASE \E c \in Container, s \in Status : Elsewhere(c, s)
  BY <1>2, <1>6, SettledNoted DEF Elsewhere
<1>7. CASE (\E m \in waiting : Drop(m)) \/ Publish \/ UNCHANGED vars
  <2>1. job' = job
    BY <1>7 DEF Drop, Publish, vars
  <2> QED
    BY <1>2, <2>1, SettledSame
<1> QED
  BY <1>3, <1>4, <1>5, <1>6, <1>7 DEF Next, CallStep

LEMMA FoundedInit == Init => Founded
<1> SUFFICES ASSUME Init
             PROVE  Founded
  OBVIOUS
<1>1. \A j \in Job : job[j] = Idle
  BY DEF Init
<1> QED
  BY <1>1, IdleFields, ConstantsAssumption DEF Init, Founded, Settled, Busy, Called

\* What a step of one job does to what the jobs are about.
LEMMA TaskOne ==
    ASSUME Typed, NEW j \in Job, NEW r \in Running, job' = [job EXCEPT ![j] = r]
    PROVE  /\ [i \in Job |-> About(job'[i])]
                 = [[i \in Job |-> About(job[i])] EXCEPT ![j] = About(r)]
           /\ About(r) = About(job[j]) =>
                 [i \in Job |-> About(job'[i])] = [i \in Job |-> About(job[i])]
BY DEF Typed, TypeOK

LEMMA Nothing == Promise!Nothing = About(Idle)
BY DEF Promise!Nothing, About, Idle

\* A job that runs is about something.
LEMMA Something ==
    ASSUME Typed, NEW j \in Job, job[j].pc \in Busy
    PROVE  About(job[j]) # Promise!Nothing
<1>1. job[j].kind \in DOMAIN Registry
  BY RegistryType DEF Typed, Meant
<1>2. "none" \notin DOMAIN Registry
  BY DEF Registry
<1>3. About(Idle).kind = "none"
  BY AboutFields DEF Idle
<1> QED
  BY <1>1, <1>2, <1>3, AboutFields, Nothing

\* A job that makes its next call owes none.
LEMMA OwesNone ==
    ASSUME Typed, NEW j \in Job, job[j].pc \notin {"wait", "read"}
    PROVE  Promise!OrdersOf(j) = {}
BY SubscriberIsJob DEF Typed, Waited, Promise!OrdersOf

LEMMA KeepsAsk ==
    ASSUME Typed, Founded, NEW j \in Job, NEW k \in Kind, NEW t \in Target,
           NEW m \in 0 .. MaxMessages, job[j].pc = "idle", Begin(j, k, t, m),
           UNCHANGED <<status, orders, applied>>
    PROVE  Promise!Ask(j, k, t, m)
<1> DEFINE r == [pc |-> "list", kind |-> k, target |-> t, msg |-> m,
                 cut |-> j = Subscriber /\ shutdown, todo |-> {},
                 stayed |-> Listing(k, t), hit |-> {}]
<1>1. r \in Running /\ job' = [job EXCEPT ![j] = r]
  BY RegistryType, ListingType, ConstantsAssumption DEF Running, Begin
<1>2. About(r) = [kind |-> k, target |-> t, msg |-> m,
                  stayed |-> {c \in Match[t] : Shown(k, status[c])}, hit |-> {}]
  BY DEF About, Listing
<1> HIDE DEF r
<1>3. [i \in Job |-> About(job'[i])] = [[i \in Job |-> About(job[i])] EXCEPT ![j] = About(r)]
  BY <1>1, TaskOne
<1>4. About(job[j]) = Promise!Nothing
  BY Nothing DEF Founded, Settled, Busy
<1> QED
  BY <1>2, <1>3, <1>4 DEF Promise!Ask

LEMMA KeepsTell ==
    ASSUME Typed, Founded, NEW j \in Job, NEW call \in job[j].todo, Give(j, call)
    PROVE  \E c \in Container, n \in 1 .. 2 : Promise!Tell(j, c, n)
<1> DEFINE r == [job[j] EXCEPT !.pc = "wait"]
<1>1. /\ job[j] \in Running /\ job[j].pc = "call" /\ job' = [job EXCEPT ![j] = r]
      /\ status' = status /\ applied' = applied
      /\ orders' = orders \cup {[by |-> j, msg |-> job[j].msg, call |-> call,
                                 op |-> Registry[job[j].kind].op]}
  BY DEF Typed, TypeOK, Give
<1>2. r \in Running /\ About(r) = About(job[j])
  BY <1>1 DEF Running, About
<1> HIDE DEF r
<1>3. [i \in Job |-> About(job'[i])] = [i \in Job |-> About(job[i])]
  BY <1>1, <1>2, TaskOne
<1>4. call \in Call /\ call = [at |-> call.at, n |-> call.n]
      /\ call.at \in Container /\ call.n \in 1 .. 2
  BY <1>1 DEF Running, Call
<1>5. call.at \in Match[job[j].target] /\ call.n \in 1 .. Registry[job[j].kind].calls
  BY <1>1 DEF Founded, Settled, Called
<1>6. About(job[j]) # Promise!Nothing /\ Promise!OrdersOf(j) = {}
  BY <1>1, Something, OwesNone DEF Busy
<1>7. Promise!Tell(j, call.at, call.n)
  BY <1>1, <1>3, <1>4, <1>5, <1>6, AboutFields DEF Promise!Tell
<1> QED
  BY <1>4, <1>7

LEMMA KeepsEnd ==
    ASSUME Typed, NEW j \in Job, job[j].pc \in Busy, Reply(j)
    PROVE  About(job[j]) # Promise!Nothing /\ Promise!End(j)
<1>1. [i \in Job |-> About(job'[i])]
         = [[i \in Job |-> About(job[i])] EXCEPT ![j] = About(Idle)]
  BY IdleType, TaskOne DEF Reply
<1> QED
  BY <1>1, Something, Nothing DEF Promise!End

\* Success is answered only where the promise allows it.
LEMMA KeepsSucceed ==
    ASSUME Typed, Thorough, NEW j \in Job, Finish(j)
    PROVE  Promise!Succeed(j)
<1>1. job[j].pc = "call" /\ job[j].todo = {} /\ UNCHANGED <<status, orders, applied>>
      /\ Reply(j)
  BY DEF Finish
<1>2. Promise!AllIsDone(About(job[j]))
  BY <1>1, AboutFields DEF Thorough, Planned, Called, Promise!AllIsDone
<1>3. About(job[j]) # Promise!Nothing /\ Promise!End(j) /\ Promise!OrdersOf(j) = {}
  BY <1>1, KeepsEnd, OwesNone DEF Busy
<1> QED
  BY <1>1, <1>2, <1>3 DEF Promise!Succeed

LEMMA KeepsFail ==
    ASSUME Typed, NEW j \in Job, ListFails(j) \/ GiveUp(j)
    PROVE  Promise!Fail(j)
<1>1. job[j].pc \in Busy /\ Reply(j) /\ status' = status /\ applied' = applied
  BY DEF ListFails, GiveUp, Busy
<1>2. About(job[j]) # Promise!Nothing /\ Promise!End(j)
  BY <1>1, KeepsEnd
<1>3. orders' = Disown(j)
  <2>1. CASE ListFails(j)
    <3>1. \A o \in orders : o.by # j
      BY <2>1, OwesNone DEF ListFails, Promise!OrdersOf
    <3> QED
      BY <2>1, <3>1 DEF ListFails, Disown
  <2>2. CASE GiveUp(j)
    BY <2>2 DEF GiveUp
  <2> QED
    BY <2>1, <2>2
<1>4. Disown(j) = (orders \ Promise!OrdersOf(j)) \cup
                  {[o EXCEPT !.by = None] : o \in {p \in Promise!OrdersOf(j) : p.msg # 0}}
  BY DEF Disown, Promise!OrdersOf
<1> QED
  BY <1>1, <1>2, <1>3, <1>4 DEF Promise!Fail

\* What a job is about when container c gets status s.
LEMMA AboutNoted ==
    ASSUME Typed, NEW j \in Job, NEW c \in Container, NEW s \in Status
    PROVE  About(Noted(j, c, s)) =
              [About(job[j]) EXCEPT !.stayed = {d \in @ : d = c => Shown(job[j].kind, s)}]
<1> DEFINE n == Noted(j, c, s)
<1>1. /\ n.kind = job[j].kind /\ n.target = job[j].target
      /\ n.msg = job[j].msg /\ n.hit = job[j].hit
      /\ n.stayed = IF c \in job[j].stayed /\ ~ Shown(job[j].kind, s)
                    THEN job[j].stayed \ {c} ELSE job[j].stayed
  BY NotedType DEF Typed
<1> HIDE DEF n
<1>2. n.stayed = {d \in job[j].stayed : d = c => Shown(job[j].kind, s)}
  BY <1>1
<1>3. About(n) = [About(job[j]) EXCEPT
                      !.stayed = {d \in @ : d = c => Shown(job[j].kind, s)}]
  BY <1>1, <1>2 DEF About
<1> QED
  BY <1>3 DEF n

LEMMA ChangedIsNoted ==
    ASSUME Typed, NEW j \in Job, NEW c \in Container, NEW s \in Status
    PROVE  About(Noted(j, c, s)) = Promise!Changed(j, c, s)
<1>1. About(job[j]).kind = job[j].kind
  BY AboutFields
<1> QED
  BY <1>1, AboutNoted DEF Promise!Changed

LEMMA KeepsDo ==
    ASSUME Typed, Orderly, NEW o \in orders, Perform(o)
    PROVE  Promise!Do(o)
<1>1. PICK s \in Status :
          /\ s = After(o.op, status[o.call.at])
          /\ status' = [status EXCEPT ![o.call.at] = s]
          /\ \A j \in Job :
                job'[j] = IF j # o.by THEN Noted(j, o.call.at, s)
                          ELSE IF job'[j] = Idle THEN Idle ELSE Dealt(o, s)
  BY PerformJob DEF Typed
<1>2. o.call.at \in Container /\ o.msg \in Nat /\ applied \in Nat /\ TypeOK
  BY DEF Typed, TypeOK, Order, Call
<1>3. o.msg # 0 => o.msg >= applied
  BY <1>2 DEF Orderly, Sequenced
<1>4. applied' = IF o.msg # 0 THEN o.msg ELSE applied
  <2>1. applied' = IF o.msg > applied THEN o.msg ELSE applied
    BY DEF Perform
  <2> QED
    BY <1>2, <1>3, <2>1
<1>5. \A j \in Job : About(Noted(j, o.call.at, s)) = Promise!Changed(j, o.call.at, s)
  BY <1>2, ChangedIsNoted
<1>6. ASSUME NEW j \in Job, j # o.by
      PROVE  About(job'[j]) = Promise!Changed(j, o.call.at, s)
  <2>1. job'[j] = Noted(j, o.call.at, s)
    BY <1>1, <1>6
  <2> QED
    BY <1>5, <2>1
<1>7. ASSUME o.by \in Job, job'[o.by] # Idle
      PROVE  About(job'[o.by]) =
                [Promise!Changed(o.by, o.call.at, s) EXCEPT !.hit = @ \cup {o.call.at}]
  <2> DEFINE d == Dealt(o, s)
             n == Noted(o.by, o.call.at, s)
  <2>1. job'[o.by] = d
    BY <1>1, <1>7
  <2>2. /\ d.kind = job[o.by].kind /\ d.target = job[o.by].target
        /\ d.msg = job[o.by].msg /\ d.stayed = n.stayed
        /\ d.hit = job[o.by].hit \cup {o.call.at}
    BY <1>2, <1>7, DealtType
  <2>3. /\ n.kind = job[o.by].kind /\ n.target = job[o.by].target
        /\ n.msg = job[o.by].msg /\ n.hit = job[o.by].hit
    BY <1>2, <1>7, NotedType
  <2>4. About(n) = Promise!Changed(o.by, o.call.at, s)
    BY <1>5, <1>7
  <2> HIDE DEF d, n
  <2>5. About(d) = [About(n) EXCEPT !.hit = @ \cup {o.call.at}]
    BY <2>2, <2>3 DEF About
  <2> QED
    BY <2>1, <2>4, <2>5
<1>8. Possible(o.op, status[o.call.at]) /\ orders' = orders \ {o}
  BY DEF Perform
<1> DEFINE after(fails) == [i \in Job |->
              IF i # o.by THEN Promise!Changed(i, o.call.at, s)
              ELSE IF fails THEN Promise!Nothing
              ELSE [Promise!Changed(i, o.call.at, s) EXCEPT !.hit = @ \cup {o.call.at}]]
<1>9. \E fails \in BOOLEAN : [i \in Job |-> About(job'[i])] = after(fails)
  <2>1. CASE o.by \in Job /\ job'[o.by] # Idle
    <3>1. [i \in Job |-> About(job'[i])] = after(FALSE)
      BY <1>6, <1>7, <2>1
    <3> QED
      BY <3>1
  <2>2. CASE o.by \in Job => job'[o.by] = Idle
    <3>1. [i \in Job |-> About(job'[i])] = after(TRUE)
      BY <1>6, <2>2, Nothing
    <3> QED
      BY <3>1
  <2> QED
    BY <2>1, <2>2
<1> QED
  BY <1>1, <1>3, <1>4, <1>8, <1>9 DEF Promise!Do

LEMMA KeepsDoNot ==
    ASSUME Typed, NEW o \in orders, Refuse(o)
    PROVE  Promise!DoNot(o)
<1>1. \A j \in Job : job'[j] = IF j = o.by THEN Idle ELSE job[j]
  BY DEF Refuse
<1> QED
  BY <1>1, Nothing DEF Refuse, Promise!DoNot

LEMMA KeepsElsewhere ==
    ASSUME Typed, NEW c \in Container, NEW s \in Status, Elsewhere(c, s)
    PROVE  Promise!Elsewhere(c, s)
<1>1. \A j \in Job : About(job'[j]) = Promise!Changed(j, c, s)
  BY ChangedIsNoted DEF Elsewhere
<1> QED
  BY <1>1 DEF Elsewhere, Promise!Elsewhere

\* The steps the promise does not see.
LEMMA KeepsStill ==
    ASSUME Typed,
           \/ \E j \in Job : List(j) \/ Attach(j) \/ HangUp(j)
           \/ \E m \in waiting : Drop(m)
           \/ Leave \/ Publish \/ Shutdown \/ UNCHANGED vars
    PROVE  UNCHANGED Promise!vars
<1> USE SubscriberIsJob
<1>1. CASE (\E m \in waiting : Drop(m)) \/ Publish \/ UNCHANGED vars
  BY <1>1 DEF Drop, Publish, vars, Promise!vars
<1>2. ASSUME NEW j \in Job,
             \/ List(j) \/ Attach(j) \/ HangUp(j)
             \/ j = Subscriber /\ (Leave \/ Shutdown)
      PROVE  UNCHANGED Promise!vars
  <2>1. UNCHANGED <<status, orders, applied>>
    BY <1>2 DEF List, Attach, HangUp, Leave, Shutdown
  <2>2. /\ job \in [Job -> Running] /\ job[j] \in Running
        /\ \A i \in Job : i # j => job'[i] = job[i]
        /\ About(job'[j]) = About(job[j])
    <3>1. job \in [Job -> Running] /\ job[j] \in Running
      BY DEF Typed, TypeOK
    <3>2. \A i \in Job : i # j => job'[i] = job[i]
      BY <1>2, <3>1 DEF List, Attach, HangUp, Leave, Shutdown
    <3>3. /\ job'[j].kind = job[j].kind /\ job'[j].target = job[j].target
          /\ job'[j].msg = job[j].msg /\ job'[j].stayed = job[j].stayed
          /\ job'[j].hit = job[j].hit
      <4>1. CASE List(j)
        <5>1. PICK plan \in Plans(job[j].kind, Listing(job[j].kind, job[j].target)) :
                  job' = [job EXCEPT ![j] = [job[j] EXCEPT !.pc = "call", !.todo = plan]]
          BY <4>1 DEF List
        <5> QED
          BY <3>1, <5>1 DEF Running
      <4>2. CASE Attach(j) \/ HangUp(j)
        BY <3>1, <4>2 DEF Attach, HangUp, Running
      <4>3. CASE j = Subscriber /\ (Leave \/ Shutdown)
        BY <3>1, <4>3 DEF Leave, Shutdown, Running
      <4> QED
        BY <1>2, <4>1, <4>2, <4>3
    <3>4. About(job'[j]) = About(job[j])
      BY <3>3 DEF About
    <3> QED
      BY <3>1, <3>2, <3>4
  <2>3. [i \in Job |-> About(job'[i])] = [i \in Job |-> About(job[i])]
    BY <2>2
  <2> QED
    BY <2>1, <2>3 DEF Promise!vars
<1> QED
  BY <1>1, <1>2

LEMMA KeepsStep ==
    ASSUME Typed, Thorough, Orderly, Founded, [Next]_vars
    PROVE  [Promise!Next]_(Promise!vars)
<1> USE SubscriberIsJob
<1>1. CASE \/ \E j \in Job : List(j) \/ Attach(j) \/ HangUp(j)
           \/ \E m \in waiting : Drop(m)
           \/ Leave \/ Publish \/ Shutdown \/ UNCHANGED vars
  BY <1>1, KeepsStill
<1>2. CASE \E j \in Client, k \in Kind, t \in Target : Accept(j, k, t)
  <2>1. PICK j \in Client, k \in Kind, t \in Target : Accept(j, k, t)
    BY <1>2
  <2>2. Promise!Ask(j, k, t, 0) /\ 0 \in 0 .. MaxMessages
    BY <2>1, KeepsAsk, ConstantsAssumption DEF Accept
  <2> QED
    BY <2>2 DEF Promise!Next
<1>3. CASE \E m \in waiting, k \in Kind, t \in Target : Take(m, k, t)
  <2>1. PICK m \in waiting, k \in Kind, t \in Target : Take(m, k, t)
    BY <1>3
  <2>2. m \in 0 .. MaxMessages
    BY ConstantsAssumption DEF Typed, TypeOK, Orderly, Sequenced, Founded
  <2>3. Promise!Ask(Subscriber, k, t, m)
    BY <2>1, <2>2, KeepsAsk DEF Take
  <2> QED
    BY <2>2, <2>3 DEF Promise!Next
<1>4. CASE \E j \in Job : \E call \in job[j].todo : Give(j, call)
  BY <1>4, KeepsTell DEF Promise!Next
<1>5. CASE \E j \in Job : Finish(j)
  BY <1>5, KeepsSucceed DEF Promise!Next
<1>6. CASE \E j \in Job : ListFails(j) \/ GiveUp(j)
  BY <1>6, KeepsFail DEF Promise!Next
<1>7. CASE \E o \in orders : Perform(o) \/ Refuse(o)
  BY <1>7, KeepsDo, KeepsDoNot DEF Promise!Next
<1>8. CASE \E c \in Container, s \in Status : Elsewhere(c, s)
  BY <1>8, KeepsElsewhere DEF Promise!Next
<1> QED
  BY <1>1, <1>2, <1>3, <1>4, <1>5, <1>6, <1>7, <1>8 DEF Next, CallStep

LEMMA KeepsInit == Init => Promise!Init
<1> SUFFICES ASSUME Init
             PROVE  Promise!Init
  OBVIOUS
<1>1. \A j \in Job : About(job[j]) = Promise!Nothing
  BY Nothing DEF Init
<1> QED
  BY <1>1 DEF Init, Promise!Init

\* The routes, the receiver and the actions do nothing that the promise does
\* not allow, and answer success only where it allows one.
THEOREM KeepsPromise == Spec => PromiseKept
<1> DEFINE IInv == Typed /\ Thorough /\ Orderly /\ Founded
<1>1. Init => IInv /\ Promise!Init
  BY TypedInit, ThoroughInit, OrderlyInit, FoundedInit, KeepsInit
<1>2. IInv /\ [Next]_vars => IInv'
  BY TypedNext, ThoroughNext, OrderlyNext, FoundedNext
<1>3. IInv /\ [Next]_vars => [Promise!Next]_(Promise!vars)
  BY KeepsStep
<1>4. IInv /\ [Next]_vars => [\A j \in Job : Finish(j) => Promise!Succeed(j)]_vars
  BY KeepsSucceed
<1> QED
  BY <1>1, <1>2, <1>3, <1>4, PTL DEF Spec, PromiseKept, Promise!Spec

=============================================================================
