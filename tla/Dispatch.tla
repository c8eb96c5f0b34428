------------------------------ MODULE Dispatch -----------------------------
(***************************************************************************)
(* The commands and queries about containers: the container routes of the  *)
(* HTTP API (internal/api/handlers.go), the receiver of the Redis channel  *)
(* (internal/pubsub) and the actions both of them look up                  *)
(* (internal/actions).                                                     *)
(*                                                                         *)
(* A job lists the containers its target selects and then calls Docker,    *)
(* once or more for each or for the first of them.  Jobs of HTTP clients   *)
(* run side by side; the subscriber runs one job in its receiving loop.    *)
(* The context of a job ends when its client hangs up or, for the          *)
(* subscriber, at the shutdown.                                            *)
(*                                                                         *)
(* Docker is the environment.  It carries an order out some time after it  *)
(* was given, also when whoever gave it has gone; and containers are       *)
(* started, stopped, created and removed by others at any time.  The       *)
(* connection to Docker does not break while Docker lives.  Actions that   *)
(* need more than one kind of call are not in this module, nor is the      *)
(* reading of a request: one that is not understood begins no job.         *)
(***************************************************************************)
EXTENDS Naturals, FiniteSets

CONSTANTS
    Container,   \* the containers of the daemon, present or not
    Target,      \* what a job may name: an id, a part of a name, everything
    Match,       \* Match[t]: the containers whose id or name has t in it
    Client,      \* the slots for HTTP requests
    Subscriber,  \* the job of the receiving loop
    None,        \* nobody, no target
    Kind,        \* the kinds of jobs that are asked for
    MaxMessages  \* bound: how many messages are published

Job == Client \cup {Subscriber}

(* The registry, and the two queries of the API beside it.  all: stopped    *)
(* containers are listed too.  each: every container of the listing, else   *)
(* the first.  calls: how often Docker is called for it.  strict: an exit   *)
(* code other than 0 is an error.  top stands for stats as well, exec for   *)
(* the actions of execGeneric and postsuperFlagged, execText for those that *)
(* answer with the output; for inspectOne the whole id is the target.       *)
Action(all, each, op, calls, strict) ==
    [all |-> all, each |-> each, op |-> op, calls |-> calls, strict |-> strict]

Registry ==
    [start      |-> Action(TRUE,  TRUE,  "start",   1, FALSE),
     stop       |-> Action(TRUE,  TRUE,  "stop",    1, FALSE),
     restart    |-> Action(TRUE,  TRUE,  "restart", 1, FALSE),
     top        |-> Action(TRUE,  FALSE, "look",    1, FALSE),
     exec       |-> Action(FALSE, FALSE, "exec",    1, TRUE),
     execText   |-> Action(FALSE, FALSE, "exec",    1, FALSE),
     deliver    |-> Action(FALSE, FALSE, "exec",    2, FALSE),
     inspectOne |-> Action(FALSE, FALSE, "look",    1, FALSE),
     inspectRun |-> Action(FALSE, TRUE,  "look",    1, FALSE),
     inspectAll |-> Action(TRUE,  TRUE,  "look",    1, FALSE)]

ASSUME ConstantsAssumption ==
    /\ Match \in [Target -> SUBSET Container]
    /\ Subscriber \notin Client
    /\ None \notin Job \cup Target \cup Container
    /\ Kind \subseteq DOMAIN Registry
    /\ MaxMessages \in Nat

VARIABLES
    status,   \* Docker: each container
    orders,   \* Docker: what it has been told to do and has not done yet
    job,      \* the goroutines that run a job
    waiting,  \* the messages received and not yet taken, by number
    sent,     \* how many messages have been published
    applied,  \* history: the newest message Docker has done something for
    shutdown  \* the context of the service has ended

vars == <<status, orders, job, waiting, sent, applied, shutdown>>

\* A container that is removed does not come back: ids are not used again.
Status == {"new", "stopped", "running", "removed"}
Ops == {"start", "stop", "restart", "exec", "look"}

\* One call of a job: the n-th for container at.
Call == [at: Container, n: 1 .. 2]

\* by is None when nobody waits for the order any more.
Order == [by: Job \cup {None}, msg: Nat, op: Ops, call: Call]

\* stayed and hit are history: the containers that a listing would have shown
\* ever since the job began, and those Docker has dealt with for it.
Running == [pc: {"idle", "list", "call", "wait", "read", "off"},
            kind: DOMAIN Registry \cup {"none"}, target: Target \cup {None},
            msg: Nat, cut: BOOLEAN, todo: SUBSET Call,
            stayed: SUBSET Container, hit: SUBSET Container]

TypeOK ==
    /\ status \in [Container -> Status]
    /\ orders \subseteq Order
    /\ job \in [Job -> Running]
    /\ waiting \subseteq Nat
    /\ sent \in Nat
    /\ applied \in Nat
    /\ shutdown \in BOOLEAN

Idle ==
    [pc |-> "idle", kind |-> "none", target |-> None, msg |-> 0,
     cut |-> FALSE, todo |-> {}, stayed |-> {}, hit |-> {}]

Init ==
    /\ status \in [Container -> Status]
    /\ orders = {}
    /\ job = [j \in Job |-> Idle]
    /\ waiting = {}
    /\ sent = 0
    /\ applied = 0
    /\ shutdown = FALSE

-----------------------------------------------------------------------------
(* How a job begins                                                        *)

Shown(kind, s) ==
    \/ s = "running"
    \/ s = "stopped" /\ Registry[kind].all

Listing(kind, target) == {c \in Match[target] : Shown(kind, status[c])}

Begin(j, kind, target, msg) ==
    job' = [job EXCEPT ![j] =
        [pc |-> "list", kind |-> kind, target |-> target, msg |-> msg,
         cut |-> j = Subscriber /\ shutdown, todo |-> {},
         stayed |-> Listing(kind, target), hit |-> {}]]

\* handleContainerPost and the two queries, for a request that is understood.
Accept(j, kind, target) ==
    /\ job[j].pc = "idle"
    /\ Begin(j, kind, target, 0)
    /\ UNCHANGED <<status, orders, waiting, sent, applied, shutdown>>

\* What becomes of the orders of j when j goes.  What a client has left
\* behind is one of the things that happen elsewhere.
Disown(j) ==
    {o \in orders : o.by # j} \cup
    {[o EXCEPT !.by = None] : o \in {p \in orders : p.by = j /\ p.msg # 0}}

\* Variant: a message is handled in a goroutine of its own, the loop goes on.
TakeAhead(m, kind, target) ==
    /\ job[Subscriber].pc \in {"idle", "wait"}
    /\ m \in waiting
    /\ \A n \in waiting : m <= n
    /\ waiting' = waiting \ {m}
    /\ Begin(Subscriber, kind, target, m)
    /\ orders' = Disown(Subscriber)
    /\ UNCHANGED <<status, sent, applied, shutdown>>

\* Subscriber.Run takes the next message, also after the shutdown when the
\* select has both to choose from.
Take(m, kind, target) ==
    /\ job[Subscriber].pc = "idle"
    /\ m \in waiting
    /\ \A n \in waiting : m <= n
    /\ waiting' = waiting \ {m}
    /\ Begin(Subscriber, kind, target, m)
    /\ UNCHANGED <<status, orders, sent, applied, shutdown>>

\* Handle drops a message that is malformed or names no action.
Drop(m) ==
    /\ job[Subscriber].pc = "idle"
    /\ m \in waiting
    /\ \A n \in waiting : m <= n
    /\ waiting' = waiting \ {m}
    /\ UNCHANGED <<status, orders, job, sent, applied, shutdown>>

Leave ==
    /\ shutdown
    /\ job[Subscriber].pc = "idle"
    /\ job' = [job EXCEPT ![Subscriber] = [@ EXCEPT !.pc = "off"]]
    /\ UNCHANGED <<status, orders, waiting, sent, applied, shutdown>>

-----------------------------------------------------------------------------
(* How it runs                                                             *)

Reply(j) == job' = [job EXCEPT ![j] = Idle]

\* Variant: only the first container of the listing is dealt with.
PlansFirst(kind, listing) ==
    {{[at |-> c, n |-> n] : n \in 1 .. Registry[kind].calls} : c \in listing}

\* Variant: the calls are counted from 0.
PlansFromZero(kind, listing) ==
    {{[at |-> c, n |-> n] : n \in 0 .. Registry[kind].calls} : c \in listing}

\* The calls that follow a listing, whose order Docker chooses.
Plans(kind, listing) ==
    LET calls(c) == {[at |-> c, n |-> n] : n \in 1 .. Registry[kind].calls}
    IN  IF Registry[kind].each THEN {UNION {calls(c) : c \in listing}}
                               ELSE {calls(c) : c \in listing}

List(j) ==
    /\ job[j].pc = "list"
    /\ ~ job[j].cut
    /\ \E plan \in Plans(job[j].kind, Listing(job[j].kind, job[j].target)) :
          job' = [job EXCEPT ![j] = [@ EXCEPT !.pc = "call", !.todo = plan]]
    /\ UNCHANGED <<status, orders, waiting, sent, applied, shutdown>>

\* Docker fails, or firstContainer finds none.  Here and wherever else a job
\* ends but in Finish, the answer is an error.
ListFails(j) ==
    /\ job[j].pc = "list"
    /\ Reply(j)
    /\ UNCHANGED <<status, orders, waiting, sent, applied, shutdown>>

Give(j, call) ==
    /\ job[j].pc = "call"
    /\ call \in job[j].todo
    /\ ~ job[j].cut
    /\ job' = [job EXCEPT ![j] = [@ EXCEPT !.pc = "wait"]]
    /\ orders' = orders \cup {[by |-> j, msg |-> job[j].msg, call |-> call,
                               op |-> Registry[job[j].kind].op]}
    /\ UNCHANGED <<status, waiting, sent, applied, shutdown>>

\* The command has been started: Exec reads its output to the end.
Attach(j) ==
    /\ job[j].pc = "wait"
    /\ \E o \in orders : o.by = j /\ o.op = "exec"
                            /\ status[o.call.at] = "running"
    /\ job' = [job EXCEPT ![j] = [@ EXCEPT !.pc = "read"]]
    /\ UNCHANGED <<status, orders, waiting, sent, applied, shutdown>>

\* Every call has returned: the answer is a success.
Finish(j) ==
    /\ job[j].pc = "call"
    /\ job[j].todo = {}
    /\ Reply(j)
    /\ UNCHANGED <<status, orders, waiting, sent, applied, shutdown>>

\* Variant: the context of a job is not passed on to Docker's client.
GiveUpNever(j) == FALSE

\* The context is over: a call that has it fails, what Docker was told stands.
GiveUp(j) ==
    /\ job[j].cut
    /\ \/ job[j].pc \in {"list", "wait"}
       \/ job[j].pc = "call" /\ job[j].todo # {}
    /\ Reply(j)
    /\ orders' = Disown(j)
    /\ UNCHANGED <<status, waiting, sent, applied, shutdown>>

-----------------------------------------------------------------------------
(* Docker, the clients and the channel                                     *)

Possible(op, s) ==
    \/ s = "running"
    \/ s = "stopped" /\ op # "exec"

After(op, s) ==
    CASE op \in {"start", "restart"} -> "running"
      [] op = "stop" -> "stopped"
      [] OTHER -> s

\* The history of job j when container c gets status s.
Noted(j, c, s) ==
    [job[j] EXCEPT !.stayed =
        IF c \in @ /\ ~ Shown(job[j].kind, s) THEN @ \ {c} ELSE @]

\* A command somebody waits for is started first.
Started(o) == o.op = "exec" /\ o.by # None => job[o.by].pc = "read"

\* Docker carries an order out; a command may fail in the container then.
\* The exit code is asked for with the context of the job.
Perform(o) ==
    LET c == o.call.at
        s == After(o.op, status[c])
    IN  /\ o \in orders
        /\ Started(o)
        /\ Possible(o.op, status[c])
        /\ orders' = orders \ {o}
        /\ status' = [status EXCEPT ![c] = s]
        /\ applied' = IF o.msg > applied THEN o.msg ELSE applied
        /\ \E exit \in {0, 1} : job' = [j \in Job |->
              IF j # o.by THEN Noted(j, c, s)
              ELSE IF \/ exit # 0 /\ Registry[job[j].kind].strict
                      \/ job[j].pc = "read" /\ job[j].cut
              THEN Idle
              ELSE [Noted(j, c, s) EXCEPT !.pc = "call",
                       !.todo = @ \ {o.call}, !.hit = @ \cup {c}]]
        /\ UNCHANGED <<waiting, sent, shutdown>>

Refuse(o) ==
    /\ o \in orders
    /\ orders' = orders \ {o}
    /\ job' = [j \in Job |-> IF j = o.by THEN Idle ELSE job[j]]
    /\ UNCHANGED <<status, waiting, sent, applied, shutdown>>

\* Somebody else starts, stops, creates or removes a container.
Elsewhere(c, s) ==
    /\ status[c] # "removed"
    /\ s \in Status \ {"new", status[c]}
    /\ status' = [status EXCEPT ![c] = s]
    /\ job' = [j \in Job |-> Noted(j, c, s)]
    /\ UNCHANGED <<orders, waiting, sent, applied, shutdown>>

HangUp(j) ==
    /\ job[j].pc # "idle"
    /\ job' = [job EXCEPT ![j] = [@ EXCEPT !.cut = TRUE]]
    /\ UNCHANGED <<status, orders, waiting, sent, applied, shutdown>>

\* A message may be lost: the subscription is down, or its buffer full.
Publish ==
    /\ sent < MaxMessages
    /\ sent' = sent + 1
    /\ waiting' \in {waiting, waiting \cup {sent'}}
    /\ UNCHANGED <<status, orders, job, applied, shutdown>>

Shutdown ==
    /\ ~ shutdown
    /\ shutdown' = TRUE
    /\ job' = [job EXCEPT ![Subscriber] = [@ EXCEPT !.cut = TRUE]]
    /\ UNCHANGED <<status, orders, waiting, sent, applied>>

-----------------------------------------------------------------------------
CallStep(j) ==
    \/ \E call \in job[j].todo : Give(j, call)
    \/ Finish(j)
    \/ GiveUp(j)

Next ==
    \/ \E j \in Client :
          \/ \E kind \in Kind, target \in Target : Accept(j, kind, target)
          \/ HangUp(j)
    \/ \E m \in waiting :
          \/ \E kind \in Kind, target \in Target : Take(m, kind, target)
          \/ Drop(m)
    \/ Leave
    \/ \E j \in Job : List(j) \/ ListFails(j) \/ Attach(j) \/ CallStep(j)
    \/ \E o \in orders : Perform(o) \/ Refuse(o)
    \/ \E c \in Container, s \in Status : Elsewhere(c, s)
    \/ Publish
    \/ Shutdown

Spec == Init /\ [][Next]_vars

\* The goroutines are scheduled; a select whose context is done for good
\* takes that case in the end.  Docker need not answer, nor a command end.
Fairness ==
    /\ \A j \in Job : WF_vars(CallStep(j))
    /\ SF_vars(Leave)

FairSpec == Spec /\ Fairness

-----------------------------------------------------------------------------
(* Properties                                                              *)

(* Success is answered only when everything was done that was asked for:    *)
(* start, stop, restart and the query of all containers have dealt with     *)
(* each container that was there all along, and anything else with one      *)
(* (lifecycle.go:36-54, actions.go:157-169; DEVIATIONS.md 2.1: nothing to   *)
(* do is a success for start, stop and restart).                            *)
SuccessMeansAll ==
    [][\A j \in Job : Finish(j) =>
          IF Registry[job[j].kind].each THEN job[j].stayed \subseteq job[j].hit
                                        ELSE job[j].hit # {}]_vars

(* What Docker does for messages it does in the order they were published:  *)
(* the subscriber handles one at a time (pubsub.go:74-86), and what a job    *)
(* left behind when it was cut is overtaken by nothing.                     *)
InOrder ==
    [][\A o \in orders : Perform(o) /\ o.msg # 0 => o.msg >= applied]_vars

(* After the shutdown, nothing but a command whose output is still read     *)
(* keeps the subscriber, although Docker may hang (pubsub.go:78-87).        *)
OnlyReadingOutlivesShutdown == shutdown ~> job[Subscriber].pc \in {"off", "read"}

(* pubsub.go:65: "Run receives messages until the context ends."            *)
RunEndsWithContext == shutdown ~> job[Subscriber].pc = "off"

-----------------------------------------------------------------------------
(* The refinement of DispatchPromise: a job is what it is about, for the    *)
(* promise; the channel, contexts, listings, plans and the reading of a     *)
(* command's output are not seen.                                           *)
About(r) == [kind |-> r.kind, target |-> r.target, msg |-> r.msg,
             stayed |-> r.stayed, hit |-> r.hit]

Promise == INSTANCE DispatchPromise WITH task <- [j \in Job |-> About(job[j])]

(* The routes, the receiver and the actions do to containers only what the  *)
(* promise allows, in the order it allows, and a success they answer is one *)
(* of the promise's, with everything done: SuccessMeansAll is part of it    *)
(* (pubsub.go:74-86, lifecycle.go:36-54, actions.go:157-169).               *)
PromiseKept == Promise!Spec /\ [][\A j \in Job : Finish(j) => Promise!Succeed(j)]_vars
============================================================================
