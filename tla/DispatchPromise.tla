--------------------------- MODULE DispatchPromise --------------------------
(***************************************************************************)
(* What the service promises whoever asks it to do something with          *)
(* containers; it has no listing, plan, context or goroutine:              *)
(*                                                                         *)
(*  - Docker is told only what somebody has asked for, about containers    *)
(*    he has named, and one thing at a time for each job;                  *)
(*  - success is answered only when nothing is left to do: each container  *)
(*    that could be dealt with all along has been, or one where one was    *)
(*    asked for, and Docker owes the job nothing;                          *)
(*  - whatever is done for a message is done in the order of messages,     *)
(*    also what a message that failed has left behind;                     *)
(*  - for the rest a job may fail at any time, and containers may change   *)
(*    at any time.                                                         *)
(***************************************************************************)
EXTENDS Naturals

CONSTANTS
    Container, Target, Match, Job, Kind, None, MaxMessages,
    Registry,        \* of each kind: the operation, how often, for each or for one
    Status,          \* of a container
    Shown(_, _),     \* a job of this kind deals with a container of this status
    Possible(_, _),  \* the operation can be done in this status
    After(_, _)      \* the status it leaves

VARIABLES
    status,  \* each container
    orders,  \* what Docker has been told to do and has not done yet
    task,    \* what each job is about
    applied  \* the newest message something has been done for

vars == <<status, orders, task, applied>>

Nothing == [kind |-> "none", target |-> None, msg |-> 0, stayed |-> {}, hit |-> {}]

Init ==
    /\ status \in [Container -> Status]
    /\ orders = {}
    /\ task = [j \in Job |-> Nothing]
    /\ applied = 0

\* stayed: what could be dealt with ever since; hit: what has been.
Ask(j, kind, target, msg) ==
    /\ UNCHANGED <<status, orders, applied>>
    /\ task[j] = Nothing
    /\ task' = [task EXCEPT ![j] =
          [kind |-> kind, target |-> target, msg |-> msg,
           stayed |-> {c \in Match[target] : Shown(kind, status[c])}, hit |-> {}]]

OrdersOf(j) == {o \in orders : o.by = j}

Tell(j, at, n) ==
    /\ task[j] # Nothing
    /\ OrdersOf(j) = {}
    /\ at \in Match[task[j].target]
    /\ n \in 1 .. Registry[task[j].kind].calls
    /\ orders' = orders \cup {[by |-> j, msg |-> task[j].msg,
                               call |-> [at |-> at, n |-> n],
                               op |-> Registry[task[j].kind].op]}
    /\ UNCHANGED <<status, task, applied>>

AllIsDone(t) ==
    IF Registry[t.kind].each THEN t.stayed \subseteq t.hit ELSE t.hit # {}

End(j) == task' = [task EXCEPT ![j] = Nothing]

Succeed(j) ==
    /\ UNCHANGED <<status, orders, applied>>
    /\ task[j] # Nothing
    /\ OrdersOf(j) = {}
    /\ AllIsDone(task[j])
    /\ End(j)

\* What Docker was told for a message stands, in the place of the message,
\* though nobody waits for it.  What it was told for a request may still be
\* done as well, or not, like anything that is done elsewhere.
Fail(j) ==
    /\ task[j] # Nothing
    /\ UNCHANGED <<status, applied>>
    /\ End(j)
    /\ orders' = (orders \ OrdersOf(j)) \cup
                 {[o EXCEPT !.by = None] : o \in {p \in OrdersOf(j) : p.msg # 0}}

\* A container has got status s: what can no longer be dealt with.
Changed(j, c, s) ==
    [task[j] EXCEPT !.stayed = {d \in @ : d = c => Shown(task[j].kind, s)}]

\* What was ordered is done; whoever has ordered it goes on, or fails by it.
Do(o) ==
    LET c == o.call.at
        s == After(o.op, status[c])
    IN  /\ Possible(o.op, status[c])
        /\ o.msg # 0 => o.msg >= applied
        /\ orders' = orders \ {o}
        /\ status' = [status EXCEPT ![c] = s]
        /\ applied' = IF o.msg # 0 THEN o.msg ELSE applied
        /\ \E fails \in BOOLEAN : task' = [j \in Job |->
              IF j # o.by THEN Changed(j, c, s)
              ELSE IF fails THEN Nothing
              ELSE [Changed(j, c, s) EXCEPT !.hit = @ \cup {c}]]

DoNot(o) ==
    /\ orders' = orders \ {o}
    /\ task' = [j \in Job |-> IF j = o.by THEN Nothing ELSE task[j]]
    /\ UNCHANGED <<status, applied>>

Elsewhere(c, s) ==
    /\ status[c] # "removed"
    /\ status' = [status EXCEPT ![c] = s]
    /\ task' = [j \in Job |-> Changed(j, c, s)]
    /\ UNCHANGED <<orders, applied>>

Next ==
    \/ \E c \in Container, s \in Status : Elsewhere(c, s)
    \/ \E o \in orders : Do(o) \/ DoNot(o)
    \/ \E j \in Job :
          \/ \E c \in Container, n \in 1 .. 2 : Tell(j, c, n)
          \/ Succeed(j)
          \/ Fail(j)
          \/ \E kind \in Kind, target \in Target, msg \in 0 .. MaxMessages :
                Ask(j, kind, target, msg)

Spec == Init /\ [][Next]_vars
=============================================================================
