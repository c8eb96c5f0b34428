----------------------- MODULE WorkerPasswordProofs ------------------------
(***************************************************************************)
(* For any number of requests and any hashes: what has been applied is     *)
(* loaded and is in the file, success is answered only for what has been   *)
(* applied, and what is read of a shell is what has arrived.               *)
(*                                                                         *)
(* The argument.  A change is opened, and written, by one shell only, and  *)
(* that shell is gone once a restart has been answered for the change: the *)
(* restart has killed it, and the loop does not take the same hash again.  *)
(* So the file is not touched on behalf of an applied change, and whatever *)
(* else touches it puts another change in its name.                        *)
(*                                                                         *)
(* A shell prints once, to a reader that has been given nothing yet: so    *)
(* what has been read is a beginning of what was sent (SInv).  What can be *)
(* read back of a change was shown by its own cat, after its own echo,     *)
(* which nobody has repeated: so whenever the file is in the name of that  *)
(* change its hash is there (EInv).                                        *)
(***************************************************************************)
EXTENDS WorkerPassword, AttachStreamProofs

Fresh == {"begin", "generate", "generated"}
Underway == {"verify", "verified", "restart"}

\* The functions of the requests, as far as the argument needs them.
Shape ==
    /\ pc \in [Request -> Phase]
    /\ todo = [r \in Request |-> todo[r]]
    /\ writing = [r \in Request |-> writing[r]]
    /\ matched \in [Request -> BOOLEAN]

\* A request that has applied nothing yet stands in no change.
FreshApplied ==
    \A r \in Request : pc[r] \in Fresh => \A c \in applied : c.by # r

\* What is still to be written has not been applied.
TodoNotApplied ==
    \A r \in Request : \A hash \in todo[r] : Change(r, hash) \notin applied

\* What is being applied is not still to be written as well.
WritingNotTodo ==
    \A r \in Request : pc[r] \in Underway => writing[r] \notin todo[r]

\* A shell that has still to write does so for a change not applied.
ShellNotApplied ==
    \A s \in shells : s.next \in {"open", "echo"} => Change(s.by, s.hash) \notin applied

MatchedApplied ==
    \A r \in Request : /\ matched[r] => \E c \in applied : c.by = r
                       /\ pc[r] = "success" => matched[r]

IInv ==
    /\ Shape
    /\ FreshApplied
    /\ TodoNotApplied
    /\ WritingNotTodo
    /\ ShellNotApplied
    /\ AppliedIsLoaded
    /\ MatchedApplied

-----------------------------------------------------------------------------
\* The invariant holds at the beginning: nothing has been applied.
LEMMA Beginning == Init => IInv
<1> SUFFICES ASSUME Init PROVE IInv
    OBVIOUS
<1>1. Shape
    BY DEF Init, Shape, Phase
<1>2. FreshApplied /\ TodoNotApplied /\ ShellNotApplied /\ AppliedIsLoaded
    BY DEF Init, FreshApplied, TodoNotApplied, ShellNotApplied, AppliedIsLoaded
<1>3. WritingNotTodo /\ MatchedApplied
    BY DEF Init, WritingNotTodo, Underway, MatchedApplied
<1>4. QED
    BY <1>1, <1>2, <1>3 DEF IInv

\* Two changes are the same only if request and hash are.
LEMMA ChangeInjective ==
    ASSUME NEW r, NEW g, NEW q, NEW h
    PROVE  Change(r, g) = Change(q, h) <=> r = q /\ g = h
BY DEF Change

\* A reader takes what has arrived.
LEMMA ReceiveKeeps ==
    ASSUME IInv, NEW r \in Request, NEW upTo, Receive(r, upTo)
    PROVE  IInv'
<1> USE DEF Receive, container, reader
<1>1. Shape'
    BY DEF IInv, Shape, Phase, Reading, Answered
<1>2. FreshApplied'
    BY DEF IInv, FreshApplied, Fresh, Shape
<1>3. TodoNotApplied'
    BY DEF IInv, TodoNotApplied, Shape
<1>4. WritingNotTodo'
    BY DEF IInv, WritingNotTodo, Underway, Shape
<1>5. ShellNotApplied'
    BY DEF IInv, ShellNotApplied, Shape
<1>6. AppliedIsLoaded'
    BY DEF IInv, AppliedIsLoaded, Shape
<1>7. MatchedApplied'
    BY DEF IInv, MatchedApplied, Shape
<1>8. QED
    BY <1>1, <1>2, <1>3, <1>4, <1>5, <1>6, <1>7 DEF IInv

\* The reading ends.
LEMMA ReadEndsKeeps ==
    ASSUME IInv, NEW r \in Request, ReadEnds(r)
    PROVE  IInv'
<1> USE DEF ReadEnds, container, reader
<1>1. Shape'
    BY DEF IInv, Shape, Phase, Reading, Answered, Returned
<1>2. FreshApplied'
    BY DEF IInv, FreshApplied, Fresh, Shape, Reading, Returned
<1>3. TodoNotApplied'
    BY DEF IInv, TodoNotApplied, Shape
<1>4. WritingNotTodo'
    BY DEF IInv, WritingNotTodo, Underway, Shape, Reading, Returned
<1>5. ShellNotApplied'
    BY DEF IInv, ShellNotApplied, Shape
<1>6. AppliedIsLoaded'
    BY DEF IInv, AppliedIsLoaded, Shape
<1>7. MatchedApplied'
    BY DEF IInv, MatchedApplied, Shape, Reading, Returned
<1>8. QED
    BY <1>1, <1>2, <1>3, <1>4, <1>5, <1>6, <1>7 DEF IInv

\* A shell is started for the command that makes the hash.
LEMMA BeginKeeps ==
    ASSUME IInv, NEW r \in Request, Begin(r)
    PROVE  IInv'
<1> USE DEF Begin, Exec
<1>1. Shape'
    BY DEF IInv, Shape, Phase, Reading, Answered
<1>2. FreshApplied'
    BY DEF IInv, FreshApplied, Fresh, Shape
<1>3. TodoNotApplied'
    BY DEF IInv, TodoNotApplied, Shape
<1>4. WritingNotTodo'
    BY DEF IInv, WritingNotTodo, Underway, Shape
<1>5. ShellNotApplied'
    BY DEF IInv, ShellNotApplied, FreshApplied, Fresh, Shape, Shell, Change
<1>6. AppliedIsLoaded'
    BY DEF IInv, AppliedIsLoaded, Shape
<1>7. MatchedApplied'
    BY DEF IInv, MatchedApplied, Shape
<1>8. QED
    BY <1>1, <1>2, <1>3, <1>4, <1>5, <1>6, <1>7 DEF IInv

\* There is no container.
LEMMA BeginFailsKeeps ==
    ASSUME IInv, NEW r \in Request, BeginFails(r)
    PROVE  IInv'
<1> USE DEF BeginFails, container, reader
<1>1. Shape'
    BY DEF IInv, Shape, Phase, Reading, Answered
<1>2. FreshApplied'
    BY DEF IInv, FreshApplied, Fresh, Shape
<1>3. TodoNotApplied'
    BY DEF IInv, TodoNotApplied, Shape
<1>4. WritingNotTodo'
    BY DEF IInv, WritingNotTodo, Underway, Shape
<1>5. ShellNotApplied'
    BY DEF IInv, ShellNotApplied, Shape
<1>6. AppliedIsLoaded'
    BY DEF IInv, AppliedIsLoaded, Shape
<1>7. MatchedApplied'
    BY DEF IInv, MatchedApplied, Shape
<1>8. QED
    BY <1>1, <1>2, <1>3, <1>4, <1>5, <1>6, <1>7 DEF IInv

\* The hashes are found: nothing of this request has been applied.
LEMMA GeneratedKeeps ==
    ASSUME IInv, NEW r \in Request, Generated(r)
    PROVE  IInv'
<1> USE DEF Generated, container, reader
<1>1. Shape'
    BY DEF IInv, Shape, Phase, Reading, Answered
<1>2. FreshApplied'
    BY DEF IInv, FreshApplied, Fresh, Shape
<1>3. TodoNotApplied'
    <2> SUFFICES ASSUME NEW q \in Request, NEW hash \in todo'[q]
                 PROVE  Change(q, hash) \notin applied
        BY DEF TodoNotApplied
    <2>1. CASE q = r
        BY <2>1 DEF IInv, FreshApplied, Fresh, Change
    <2>2. CASE q # r
        BY <2>2 DEF IInv, TodoNotApplied, Shape
    <2>3. QED
        BY <2>1, <2>2
<1>4. WritingNotTodo'
    BY DEF IInv, WritingNotTodo, Underway, Shape
<1>5. ShellNotApplied'
    BY DEF IInv, ShellNotApplied, Shape
<1>6. AppliedIsLoaded'
    BY DEF IInv, AppliedIsLoaded, Shape
<1>7. MatchedApplied'
    BY DEF IInv, MatchedApplied, Shape
<1>8. QED
    BY <1>1, <1>2, <1>3, <1>4, <1>5, <1>6, <1>7 DEF IInv

\* A hash is taken from what is to be written, and its shell started.
LEMMA WriteKeeps ==
    ASSUME IInv, NEW r \in Request, NEW hash, Write(r, hash)
    PROVE  IInv'
<1> USE DEF Write, Exec
<1>1. Shape'
    BY DEF IInv, Shape, Phase, Reading, Answered
<1>2. FreshApplied'
    BY DEF IInv, FreshApplied, Fresh, Shape
<1>3. TodoNotApplied'
    BY DEF IInv, TodoNotApplied, Shape
<1>4. WritingNotTodo'
    BY DEF IInv, WritingNotTodo, Underway, Shape
<1>5. ShellNotApplied'
    <2> SUFFICES ASSUME NEW s \in shells', s.next \in {"open", "echo"}
                 PROVE  Change(s.by, s.hash) \notin applied
        BY DEF ShellNotApplied
    <2>1. CASE s \in shells
        BY <2>1 DEF IInv, ShellNotApplied
    <2>2. CASE s = Shell(r, hash, "open")
        BY <2>2 DEF IInv, TodoNotApplied, Shell
    <2>3. QED
        BY <2>1, <2>2
<1>6. AppliedIsLoaded'
    BY DEF IInv, AppliedIsLoaded, Shape
<1>7. MatchedApplied'
    BY DEF IInv, MatchedApplied, Shape
<1>8. QED
    BY <1>1, <1>2, <1>3, <1>4, <1>5, <1>6, <1>7 DEF IInv

\* A hash cannot be written.
LEMMA WriteFailsKeeps ==
    ASSUME IInv, NEW r \in Request, NEW hash, WriteFails(r, hash)
    PROVE  IInv'
<1> USE DEF WriteFails, container, reader
<1>1. Shape'
    BY DEF IInv, Shape, Phase, Reading, Answered
<1>2. FreshApplied'
    BY DEF IInv, FreshApplied, Fresh, Shape
<1>3. TodoNotApplied'
    BY DEF IInv, TodoNotApplied, Shape
<1>4. WritingNotTodo'
    BY DEF IInv, WritingNotTodo, Underway, Shape
<1>5. ShellNotApplied'
    BY DEF IInv, ShellNotApplied, Shape
<1>6. AppliedIsLoaded'
    BY DEF IInv, AppliedIsLoaded, Shape
<1>7. MatchedApplied'
    BY DEF IInv, MatchedApplied, Shape
<1>8. QED
    BY <1>1, <1>2, <1>3, <1>4, <1>5, <1>6, <1>7 DEF IInv

\* What was read back is looked at.
LEMMA VerifiedKeeps ==
    ASSUME IInv, NEW r \in Request, Verified(r)
    PROVE  IInv'
<1> USE DEF Verified, container, reader
<1>1. Shape'
    BY DEF IInv, Shape, Phase, Reading, Answered
<1>2. FreshApplied'
    BY DEF IInv, FreshApplied, Fresh, Shape
<1>3. TodoNotApplied'
    BY DEF IInv, TodoNotApplied, Shape
<1>4. WritingNotTodo'
    BY DEF IInv, WritingNotTodo, Underway, Shape
<1>5. ShellNotApplied'
    BY DEF IInv, ShellNotApplied, Shape
<1>6. AppliedIsLoaded'
    BY DEF IInv, AppliedIsLoaded, Shape
<1>7. MatchedApplied'
    BY DEF IInv, MatchedApplied, Shape
<1>8. QED
    BY <1>1, <1>2, <1>3, <1>4, <1>5, <1>6, <1>7 DEF IInv

\* A restart is answered: no shell is left, and the file is loaded.
LEMMA RestartKeeps ==
    ASSUME IInv, NEW r \in Request, Restart(r)
    PROVE  IInv'
<1> USE DEF Restart, Restarted, reader
<1>1. Shape'
    BY DEF IInv, Shape, Phase, Reading, Answered
<1>2. FreshApplied'
    <2> SUFFICES ASSUME NEW q \in Request, pc'[q] \in Fresh, NEW c \in applied'
                 PROVE  c.by # q
        BY DEF FreshApplied
    <2>1. q # r /\ pc[q] \in Fresh
        BY DEF IInv, Shape, Fresh
    <2>2. CASE c \in applied
        BY <2>1, <2>2 DEF IInv, FreshApplied
    <2>3. CASE c = Change(r, writing[r])
        BY <2>1, <2>3 DEF Change
    <2>4. QED
        BY <2>2, <2>3
<1>3. TodoNotApplied'
    <2> SUFFICES ASSUME NEW q \in Request, NEW hash \in todo[q]
                 PROVE  Change(q, hash) \notin applied'
        BY DEF TodoNotApplied
    <2>1. Change(q, hash) \notin applied
        BY DEF IInv, TodoNotApplied
    <2>2. Change(q, hash) # Change(r, writing[r])
        BY DEF Change, IInv, WritingNotTodo, Underway
    <2>3. QED
        BY <2>1, <2>2
<1>4. WritingNotTodo'
    BY DEF IInv, WritingNotTodo, Underway, Shape
<1>5. ShellNotApplied'
    BY DEF IInv, ShellNotApplied, Shape
<1>6. AppliedIsLoaded'
    BY DEF IInv, AppliedIsLoaded, Shape
<1>7. MatchedApplied'
    <2> SUFFICES ASSUME NEW q \in Request
                 PROVE  /\ matched'[q] => \E c \in applied' : c.by = q
                        /\ pc'[q] = "success" => matched'[q]
        BY DEF MatchedApplied
    <2>1. CASE q = r
        <3>1. Change(r, writing[r]) \in applied' /\ Change(r, writing[r]).by = r
            BY DEF Change
        <3>2. pc'[r] = "apply"
            BY DEF IInv, Shape
        <3>3. QED
            BY <2>1, <3>1, <3>2
    <2>2. CASE q # r
        BY <2>2 DEF IInv, MatchedApplied, Shape
    <2>3. QED
        BY <2>1, <2>2
<1>8. QED
    BY <1>1, <1>2, <1>3, <1>4, <1>5, <1>6, <1>7 DEF IInv

\* A restart fails, with or without having happened.
LEMMA RestartFailsKeeps ==
    ASSUME IInv, NEW r \in Request, RestartFails(r)
    PROVE  IInv'
<1> USE DEF RestartFails, Restarted, reader, container
<1>1. Shape'
    BY DEF IInv, Shape, Phase, Reading, Answered
<1>2. FreshApplied'
    BY DEF IInv, FreshApplied, Fresh, Shape
<1>3. TodoNotApplied'
    BY DEF IInv, TodoNotApplied, Shape
<1>4. WritingNotTodo'
    BY DEF IInv, WritingNotTodo, Underway, Shape
<1>5. ShellNotApplied'
    BY DEF IInv, ShellNotApplied, Shape
<1>6. AppliedIsLoaded'
    BY DEF IInv, AppliedIsLoaded, Shape
<1>7. MatchedApplied'
    BY DEF IInv, MatchedApplied, Shape
<1>8. QED
    BY <1>1, <1>2, <1>3, <1>4, <1>5, <1>6, <1>7 DEF IInv

\* The loop is over.
LEMMA FinishKeeps ==
    ASSUME IInv, NEW r \in Request, Finish(r)
    PROVE  IInv'
<1> USE DEF Finish, container, reader
<1>1. Shape'
    BY DEF IInv, Shape, Phase, Reading, Answered
<1>2. FreshApplied'
    BY DEF IInv, FreshApplied, Fresh, Shape
<1>3. TodoNotApplied'
    BY DEF IInv, TodoNotApplied, Shape
<1>4. WritingNotTodo'
    BY DEF IInv, WritingNotTodo, Underway, Shape
<1>5. ShellNotApplied'
    BY DEF IInv, ShellNotApplied, Shape
<1>6. AppliedIsLoaded'
    BY DEF IInv, AppliedIsLoaded, Shape
<1>7. MatchedApplied'
    BY DEF IInv, MatchedApplied, Shape
<1>8. QED
    BY <1>1, <1>2, <1>3, <1>4, <1>5, <1>6, <1>7 DEF IInv

\* rspamadm prints.
LEMMA RspamadmKeeps ==
    ASSUME IInv, NEW s \in shells, Rspamadm(s)
    PROVE  IInv'
<1> USE DEF Rspamadm, Prints
<1>1. Shape'
    BY DEF IInv, Shape, Phase, Reading, Answered
<1>2. FreshApplied'
    BY DEF IInv, FreshApplied, Fresh, Shape
<1>3. TodoNotApplied'
    BY DEF IInv, TodoNotApplied, Shape
<1>4. WritingNotTodo'
    BY DEF IInv, WritingNotTodo, Underway, Shape
<1>5. ShellNotApplied'
    BY DEF IInv, ShellNotApplied, Shape
<1>6. AppliedIsLoaded'
    BY DEF IInv, AppliedIsLoaded, Shape
<1>7. MatchedApplied'
    BY DEF IInv, MatchedApplied, Shape
<1>8. QED
    BY <1>1, <1>2, <1>3, <1>4, <1>5, <1>6, <1>7 DEF IInv

\* The file is emptied: for a change that has not been applied.
LEMMA OpenKeeps ==
    ASSUME IInv, NEW s \in shells, Open(s)
    PROVE  IInv'
<1> USE DEF Open, Becomes, reader
<1>1. Shape'
    BY DEF IInv, Shape, Phase, Reading, Answered
<1>2. FreshApplied'
    BY DEF IInv, FreshApplied, Fresh, Shape
<1>3. TodoNotApplied'
    BY DEF IInv, TodoNotApplied, Shape
<1>4. WritingNotTodo'
    BY DEF IInv, WritingNotTodo, Underway, Shape
<1>5. ShellNotApplied'
    BY DEF IInv, ShellNotApplied, Shell
<1>6. AppliedIsLoaded'
    BY DEF IInv, AppliedIsLoaded, ShellNotApplied
<1>7. MatchedApplied'
    BY DEF IInv, MatchedApplied, Shape
<1>8. QED
    BY <1>1, <1>2, <1>3, <1>4, <1>5, <1>6, <1>7 DEF IInv

\* The hash is written: for a change that has not been applied.
LEMMA EchoKeeps ==
    ASSUME IInv, NEW s \in shells, Echo(s)
    PROVE  IInv'
<1> USE DEF Echo, Becomes, reader
<1>1. Shape'
    BY DEF IInv, Shape, Phase, Reading, Answered
<1>2. FreshApplied'
    BY DEF IInv, FreshApplied, Fresh, Shape
<1>3. TodoNotApplied'
    BY DEF IInv, TodoNotApplied, Shape
<1>4. WritingNotTodo'
    BY DEF IInv, WritingNotTodo, Underway, Shape
<1>5. ShellNotApplied'
    BY DEF IInv, ShellNotApplied, Shell
<1>6. AppliedIsLoaded'
    BY DEF IInv, AppliedIsLoaded, ShellNotApplied
<1>7. MatchedApplied'
    BY DEF IInv, MatchedApplied, Shape
<1>8. QED
    BY <1>1, <1>2, <1>3, <1>4, <1>5, <1>6, <1>7 DEF IInv

\* The file is shown.
LEMMA CatKeeps ==
    ASSUME IInv, NEW s \in shells, Cat(s)
    PROVE  IInv'
<1> USE DEF Cat, Prints
<1>1. Shape'
    BY DEF IInv, Shape, Phase, Reading, Answered
<1>2. FreshApplied'
    BY DEF IInv, FreshApplied, Fresh, Shape
<1>3. TodoNotApplied'
    BY DEF IInv, TodoNotApplied, Shape
<1>4. WritingNotTodo'
    BY DEF IInv, WritingNotTodo, Underway, Shape
<1>5. ShellNotApplied'
    BY DEF IInv, ShellNotApplied, Shape
<1>6. AppliedIsLoaded'
    BY DEF IInv, AppliedIsLoaded, Shape
<1>7. MatchedApplied'
    BY DEF IInv, MatchedApplied, Shape
<1>8. QED
    BY <1>1, <1>2, <1>3, <1>4, <1>5, <1>6, <1>7 DEF IInv

\* Somebody restarts the container.
LEMMA ElsewhereKeeps ==
    ASSUME IInv, RestartedElsewhere
    PROVE  IInv'
BY DEF RestartedElsewhere, Restarted, reader, IInv, Shape, FreshApplied, TodoNotApplied,
       WritingNotTodo, ShellNotApplied, AppliedIsLoaded, MatchedApplied

\* Every step keeps the invariant.
LEMMA StepKeeps == IInv /\ [Next]_vars => IInv'
<1> SUFFICES ASSUME IInv, [Next]_vars PROVE IInv'
    OBVIOUS
<1>1. CASE \E r \in Request :
              Begin(r) \/ BeginFails(r) \/ ReadEnds(r) \/ Generated(r) \/ Verified(r)
    BY <1>1, BeginKeeps, BeginFailsKeeps, ReadEndsKeeps, GeneratedKeeps, VerifiedKeeps
<1>2. CASE \E r \in Request : \E upTo \in 1 .. Len(Encode(frames[r])) : Receive(r, upTo)
    BY <1>2, ReceiveKeeps
<1>3. CASE \E r \in Request : \E hash \in todo[r] : Write(r, hash) \/ WriteFails(r, hash)
    BY <1>3, WriteKeeps, WriteFailsKeeps
<1>4. CASE \E r \in Request : Restart(r) \/ RestartFails(r) \/ Finish(r)
    BY <1>4, RestartKeeps, RestartFailsKeeps, FinishKeeps
<1>5. CASE \E s \in shells : Rspamadm(s) \/ Open(s) \/ Echo(s) \/ Cat(s)
    BY <1>5, RspamadmKeeps, OpenKeeps, EchoKeeps, CatKeeps
<1>6. CASE RestartedElsewhere
    BY <1>6, ElsewhereKeeps
<1>7. CASE UNCHANGED vars
    BY <1>7 DEF vars, reader, container, IInv, Shape, FreshApplied, TodoNotApplied,
                WritingNotTodo, ShellNotApplied, AppliedIsLoaded, MatchedApplied
<1>8. QED
    BY <1>1, <1>2, <1>3, <1>4, <1>5, <1>6, <1>7 DEF Next

\* The invariant holds in every state.
LEMMA Invariance == Spec => []IInv
<1>1. Init => IInv
    BY Beginning
<1>2. IInv /\ [Next]_vars => IInv'
    BY StepKeeps
<1>3. QED
    BY <1>1, <1>2, PTL DEF Spec

(* Success is answered only for a change that was read back and whose       *)
(* restart was answered (rspamd.go:96-106), and as long as no shell has     *)
(* opened the file since such a change, rspamd runs what is in it.          *)
THEOREM SuccessStaysLoaded == Spec => []AppliedStaysLoaded
<1>1. IInv => AppliedStaysLoaded
    BY DEF IInv, MatchedApplied, SuccessMeansApplied, AppliedStaysLoaded
<1>2. QED
    BY <1>1, Invariance, PTL

-----------------------------------------------------------------------------
(* What is read of the shells.                                              *)

Sent == [kind : {Stdout, Stderr}, payload : Seq(Nat)]
Hashes == {hash \in Seq(Nat) : Len(hash) > 0}
Shells == [by : Request, hash : Seq(Nat), next : {"rspamadm", "open", "echo", "cat"}]

Typed ==
    /\ pc \in [Request -> Phase]
    /\ todo \in [Request -> SUBSET Hashes]
    /\ writing \in [Request -> Seq(Nat)]
    /\ \A r \in Request : pc[r] \in Underway => writing[r] \in Hashes
    /\ frames \in [Request -> Seq(Sent)]
    /\ read \in [Request -> Nat]
    /\ file.bytes \in Seq(Nat)
    /\ \A s \in shells : /\ s \in Shells
                         /\ s.next = "rspamadm" => s.hash = <<>>

ReadBound == \A r \in Request : read[r] <= Len(Encode(frames[r]))

\* Before its hashes are found a request has at most rspamadm running.
OnlyRspamadm ==
    \A s \in shells : pc[s.by] \in Fresh => pc[s.by] # "begin" /\ s.next = "rspamadm"

\* For a change there is one shell at most, and none as long as the change is
\* still to be written.
OneShell ==
    \A s \in shells : s.next # "rspamadm" =>
        /\ s.hash \notin todo[s.by]
        /\ \A t \in shells : t.by = s.by /\ t.hash = s.hash /\ t.next # "rspamadm" => t = s

\* Of a shell that is still there nothing has been sent to its reader.
Unread == \A s \in shells : IsRead(s) => frames[s.by] = <<>> /\ read[s.by] = 0

SInv ==
    /\ Typed
    /\ ReadBound
    /\ OnlyRspamadm
    /\ OneShell
    /\ Unread

-----------------------------------------------------------------------------
\* What the shells send is a stream of the daemon's.
LEMMA SentIsPacket == Seq(Sent) \subseteq Seq(Packet) /\ Sent \subseteq Packet
<1>1. Sent \subseteq Packet
    BY DEF Sent, Packet
<1>2. ASSUME NEW s \in Seq(Sent) PROVE s \in Seq(Packet)
  <2>1. Len(s) \in Nat /\ s \in [1 .. Len(s) -> Sent]
      BY LenProperties
  <2>2. s \in [1 .. Len(s) -> Packet]
      BY <1>1, <2>1
  <2> QED BY <2>1, <2>2
<1> QED BY <1>1, <1>2

\* What they have sent is encoded as a stream of numbers.
LEMMA SentEncoded ==
    ASSUME NEW fs \in Seq(Sent)
    PROVE  /\ Encode(fs) \in Seq(Nat) /\ Len(Encode(fs)) \in Nat
           /\ fs = <<>> => Encode(fs) = <<>> /\ Len(Encode(fs)) = 0
<1>1. fs \in Seq(Packet)
    BY SentIsPacket
<1> QED BY <1>1, EncodeType, EmptySeq

\* Nothing is sent as stdin, so what counts as stdout is what was.
LEMMA SentKinds ==
    ASSUME NEW fs \in Seq(Sent), NEW n
    PROVE  /\ Arrived(fs, n, {Stdin, Stdout}) = Arrived(fs, n, {Stdout})
           /\ Arrived(fs, n, {Stdin, Stdout, Stderr}) = Arrived(fs, n, {Stdout, Stderr})
<1>1. ASSUME NEW i \in DOMAIN fs PROVE fs[i].kind \in {Stdout, Stderr}
  <2>1. i \in 1 .. Len(fs)
      BY LenProperties
  <2>2. fs[i] \in Sent
      BY <2>1, ElementOfSeq
  <2> QED BY <2>2 DEF Sent
<1> DEFINE Of(kinds) == [i \in DOMAIN fs |-> IF fs[i].kind \in kinds
                                             THEN Clipped(fs, i, n) ELSE <<>>]
<1>2. Of({Stdin, Stdout}) = Of({Stdout})
    BY <1>1 DEF Stdin, Stdout, Stderr
<1>3. Of({Stdin, Stdout, Stderr}) = Of({Stdout, Stderr})
    BY <1>1 DEF Stdin, Stdout, Stderr
<1>4. \A kinds : Arrived(fs, n, kinds) = FlattenSeq(Of(kinds))
    BY DEF Arrived
<1> HIDE DEF Of
<1> QED BY <1>2, <1>3, <1>4

\* What a request has got is what has arrived for it.
LEMMA GotIsArrived ==
    ASSUME NEW r, frames[r] \in Seq(Sent), read[r] \in Nat, read[r] <= Len(Encode(frames[r]))
    PROVE  /\ DemuxStdout(Got(r)) = Arrived(frames[r], read[r], {Stdout})
           /\ DemuxStderr(Got(r)) = Arrived(frames[r], read[r], {Stderr})
           /\ DemuxCombined(Got(r)) = Arrived(frames[r], read[r], {Stdout, Stderr})
           /\ DemuxStdout(Got(r)) \in Seq(Nat)
<1>1. frames[r] \in Seq(Packet) /\ Len(Encode(frames[r])) \in Nat
    BY SentIsPacket, SentEncoded
<1>2. read[r] \in 0 .. Len(Encode(frames[r]))
    BY <1>1
<1>3. \A kinds : /\ Payloads(Frames(Got(r)), kinds) = Arrived(frames[r], read[r], kinds)
                 /\ Arrived(frames[r], read[r], kinds) \in Seq(Nat)
    BY <1>1, <1>2, CutStreamIsKept DEF Got
<1> QED BY <1>3, SentKinds DEF DemuxStdout, DemuxStderr, DemuxCombined

\* One frame, and two, are a sequence of frames.
LEMMA TwoInSeq ==
    ASSUME NEW S, NEW a \in S, NEW b \in S
    PROVE  <<a>> \in Seq(S) /\ <<a, b>> \in Seq(S)
OBVIOUS

\* What rspamadm prints.
LEMMA PrintedType ==
    ASSUME NEW r \in Request, NEW output \in Printed(r)
    PROVE  output \in Seq(Sent)
<1> DEFINE line == Hash[r] \o <<NewLine>>
<1>1. line \in Seq(Nat)
  <2>1. Hash[r] \in Seq(Nat) /\ <<NewLine>> \in Seq(Nat)
      BY ConstantsAssumption DEF NewLine
  <2> QED BY <2>1, ConcatProperties
<1> HIDE DEF line
<1>2. \A bytes \in Seq(Nat) : Out(bytes) \in Sent /\ Err(bytes) \in Sent
    BY DEF Out, Err, Frame, Sent
<1>3. ASSUME NEW k \in 1 .. Len(line) - 1
      PROVE  SubSeq(line, 1, k) \in Seq(Nat) /\ SubSeq(line, k + 1, Len(line)) \in Seq(Nat)
  <2>1. Len(line) \in Nat /\ \A i \in 1 .. Len(line) : line[i] \in Nat
      BY <1>1, LenProperties, ElementOfSeq
  <2>2. /\ 1 \in Int /\ k \in Int /\ \A i \in 1 .. k : line[i] \in Nat
        /\ k + 1 \in Int /\ Len(line) \in Int /\ \A i \in k + 1 .. Len(line) : line[i] \in Nat
      BY <2>1
  <2> QED BY <2>2, SubSeqProperties
<1>4. <<Noise>> \in Seq(Nat)
    BY DEF Noise
<1>5. CASE output = <<>>
    BY <1>5, EmptySeq
<1>6. CASE output = <<Out(line)>>
    BY <1>1, <1>2, <1>6
<1>7. CASE output = <<Err(<<Noise>>), Out(line)>>
    BY <1>1, <1>2, <1>4, <1>7, TwoInSeq
<1>8. CASE \E k \in 1 .. Len(line) - 1 :
              output = <<Out(SubSeq(line, 1, k)), Out(SubSeq(line, k + 1, Len(line)))>>
    BY <1>2, <1>3, <1>8, TwoInSeq
<1> QED BY <1>5, <1>6, <1>7, <1>8 DEF Printed, line

\* A hash that is found is not empty.
LEMMA FoundType ==
    ASSUME NEW out \in Seq(Nat)
    PROVE  Found(out) \subseteq Hashes
<1> SUFFICES ASSUME NEW i \in 1 .. Len(out), NEW j \in 1 .. Len(out), i < j
             PROVE  SubSeq(out, i, j) \in Hashes
    BY DEF Found
<1>1. Len(out) \in Nat /\ \A k \in 1 .. Len(out) : out[k] \in Nat
    BY LenProperties, ElementOfSeq
<1>2. i \in Int /\ j \in Int /\ i <= j /\ j - i + 1 > 0 /\ \A k \in i .. j : out[k] \in Nat
    BY <1>1
<1>3. SubSeq(out, i, j) \in Seq(Nat) /\ Len(SubSeq(out, i, j)) = j - i + 1
    BY <1>2, SubSeqProperties
<1> QED BY <1>2, <1>3 DEF Hashes

\* What echo leaves begins with the hash.
LEMMA EchoIncludes ==
    ASSUME NEW hash \in Seq(Nat), NEW bytes \in Seq(Nat)
    PROVE  LET line == hash \o <<Quote>>
               new == line \o SubSeq(bytes, Len(line) + 1, Len(bytes))
           IN  new \in Seq(Nat) /\ Includes(new, hash)
<1> DEFINE line == hash \o <<Quote>>
           rest == SubSeq(bytes, Len(line) + 1, Len(bytes))
           new == line \o rest
<1>1. <<Quote>> \in Seq(Nat) /\ Len(<<Quote>>) = 1 /\ Len(hash) \in Nat
    BY LenProperties DEF Quote
<1>2. /\ line \in Seq(Nat) /\ Len(line) = Len(hash) + 1
      /\ \A k \in 1 .. Len(hash) : line[k] = hash[k]
  <2>1. /\ line \in Seq(Nat) /\ Len(line) = Len(hash) + Len(<<Quote>>)
        /\ \A k \in 1 .. Len(hash) + Len(<<Quote>>) :
              line[k] = IF k <= Len(hash) THEN hash[k] ELSE <<Quote>>[k - Len(hash)]
      BY <1>1, ConcatProperties
  <2> QED BY <1>1, <2>1
<1> HIDE DEF line
<1>3. rest \in Seq(Nat) /\ Len(rest) \in Nat
  <2>1. Len(bytes) \in Nat /\ \A k \in 1 .. Len(bytes) : bytes[k] \in Nat
      BY LenProperties, ElementOfSeq
  <2>2. Len(line) + 1 \in Int /\ Len(bytes) \in Int
        /\ \A k \in Len(line) + 1 .. Len(bytes) : bytes[k] \in Nat
      BY <1>1, <1>2, <2>1
  <2>3. rest \in Seq(Nat)
      BY <2>2, SubSeqProperties
  <2> QED BY <2>3, LenProperties
<1> HIDE DEF rest
<1>4. /\ new \in Seq(Nat) /\ Len(new) = Len(line) + Len(rest)
      /\ \A k \in 1 .. Len(line) + Len(rest) :
            new[k] = IF k <= Len(line) THEN line[k] ELSE rest[k - Len(line)]
    BY <1>2, <1>3, ConcatProperties
<1>5. Len(new) \in Nat /\ Len(hash) <= Len(new) /\ \A k \in 1 .. Len(hash) : new[k] = hash[k]
    BY <1>1, <1>2, <1>3, <1>4
<1> HIDE DEF new
<1>6. SubSeq(new, 1, Len(hash)) = hash
  <2>1. 1 \in Int /\ Len(hash) \in Int /\ \A k \in 1 .. Len(hash) : new[k] \in Nat
      BY <1>1, <1>5, ElementOfSeq
  <2>2. /\ SubSeq(new, 1, Len(hash)) \in Seq(Nat)
        /\ Len(SubSeq(new, 1, Len(hash))) = IF 1 <= Len(hash) THEN Len(hash) - 1 + 1 ELSE 0
        /\ \A k \in 1 .. Len(hash) - 1 + 1 : SubSeq(new, 1, Len(hash))[k] = new[1 + k - 1]
      BY <2>1, SubSeqProperties
  <2> DEFINE sub == SubSeq(new, 1, Len(hash))
  <2>3. sub \in Seq(Nat) /\ Len(sub) = Len(hash)
      BY <1>1, <2>2
  <2>4. \A k \in 1 .. Len(hash) : sub[k] = hash[k]
      BY <1>1, <1>5, <2>2
  <2> HIDE DEF sub
  <2>5. sub = hash
      BY <2>3, <2>4, SeqEqual
  <2> QED BY <2>5 DEF sub
<1>7. 0 \in 0 .. Len(new) - Len(hash) /\ 0 + 1 = 1 /\ 0 + Len(hash) = Len(hash)
    BY <1>1, <1>5
<1>8. Includes(new, hash)
    BY <1>6, <1>7 DEF Includes
<1> QED BY <1>4, <1>8 DEF new, rest, line

\* In nothing there is no hash.
LEMMA NothingFound ==
    ASSUME NEW r, frames[r] = <<>>, read[r] \in Nat, read[r] <= Len(Encode(frames[r])),
           NEW hash \in Hashes
    PROVE  ~Includes(DemuxStdout(Got(r)), hash)
<1>1. frames[r] \in Seq(Sent)
    BY EmptySeq
<1>2. DemuxStdout(Got(r)) = Arrived(<<>>, read[r], {Stdout})
    BY <1>1, GotIsArrived
<1>3. Arrived(<<>>, read[r], {Stdout}) = <<>>
  <2> DEFINE s == [i \in DOMAIN <<>> |->
                      IF <<>>[i].kind \in {Stdout} THEN Clipped(<<>>, i, read[r]) ELSE <<>>]
  <2>1. DOMAIN <<>> = {} /\ s = <<>>
      OBVIOUS
  <2> HIDE DEF s
  <2>2. FlattenSeq(s) = s
      BY <2>1, EmptySeq DEF FlattenSeq
  <2> QED BY <2>1, <2>2 DEF Arrived, s
<1>4. Len(<<>>) = 0 /\ Len(hash) \in Nat /\ Len(hash) > 0
    BY LenProperties DEF Hashes
<1>5. ~ \E i \in 0 .. 0 - Len(hash) : SubSeq(<<>>, i + 1, i + Len(hash)) = hash
    BY <1>4
<1> QED BY <1>2, <1>3, <1>4, <1>5 DEF Includes

-----------------------------------------------------------------------------
\* At the beginning nothing has been sent.
LEMMA SentBeginning == Init => SInv
<1> SUFFICES ASSUME Init PROVE SInv
    OBVIOUS
<1>1. Typed
    BY EmptySeq DEF Init, Typed, Phase, Underway
<1>2. ReadBound
  <2>1. \A r \in Request : frames[r] \in Seq(Sent) /\ frames[r] = <<>> /\ read[r] = 0
      BY EmptySeq DEF Init
  <2>2. \A r \in Request : Len(Encode(frames[r])) = 0
      BY <2>1, SentEncoded
  <2> QED BY <2>1, <2>2 DEF ReadBound
<1>3. OnlyRspamadm /\ OneShell /\ Unread
    BY DEF Init, OnlyRspamadm, OneShell, Unread
<1> QED BY <1>1, <1>2, <1>3 DEF SInv

\* A step that leaves the shells and the readers alone, starts no reading and
\* finds no hash.
LEMMA SentQuiet ==
    ASSUME SInv, Typed', UNCHANGED <<frames, read, shells, writing>>,
           \A q \in Request : /\ pc'[q] \in Fresh \cup Reading => pc'[q] = pc[q] \/ pc[q] = "generate"
                              /\ pc'[q] = "begin" => pc[q] = "begin"
                              /\ pc'[q] \in Reading => pc'[q] = pc[q]
                              /\ todo'[q] \subseteq todo[q]
    PROVE  SInv'
<1>1. \A s \in shells : s.by \in Request
    BY DEF SInv, Typed, Shells
<1>2. ReadBound'
    BY DEF SInv, ReadBound
<1>3. OnlyRspamadm'
    BY <1>1 DEF SInv, OnlyRspamadm, Fresh, Reading
<1>4. OneShell'
    BY <1>1 DEF SInv, OneShell
<1>5. Unread'
    BY <1>1 DEF SInv, Unread, IsRead, Reading
<1> QED BY <1>2, <1>3, <1>4, <1>5 DEF SInv

\* A restart leaves no shell.
LEMMA SentNoShell ==
    ASSUME SInv, Typed', UNCHANGED <<frames, read>>, shells' = {}
    PROVE  SInv'
<1>1. ReadBound'
    BY DEF SInv, ReadBound
<1>2. OnlyRspamadm' /\ OneShell' /\ Unread'
    BY DEF OnlyRspamadm, OneShell, Unread
<1> QED BY <1>1, <1>2 DEF SInv

\* A reader gets only what has been sent, and then the shell is gone.
LEMMA SentReceive ==
    ASSUME SInv, NEW r \in Request, NEW upTo, Receive(r, upTo)
    PROVE  SInv'
<1> USE DEF Receive, container
<1>1. frames[r] \in Seq(Sent) /\ read[r] \in Nat
    BY DEF SInv, Typed
<1>2. Len(Encode(frames[r])) \in Nat
    BY <1>1, SentEncoded
<1>3. upTo \in Nat /\ upTo > 0 /\ upTo <= Len(Encode(frames[r]))
    BY <1>1, <1>2
<1>4. frames[r] # <<>>
    BY <1>1, <1>3, SentEncoded
<1>5. \A q \in Request : read'[q] = IF q = r THEN upTo ELSE read[q]
    BY DEF SInv, Typed
<1>6. Typed'
    BY <1>3 DEF SInv, Typed, Underway
<1>7. ReadBound'
    BY <1>3, <1>5 DEF SInv, ReadBound
<1>8. OnlyRspamadm' /\ OneShell'
    BY DEF SInv, OnlyRspamadm, OneShell
<1>9. Unread'
  <2> SUFFICES ASSUME NEW s \in shells, IsRead(s)
               PROVE  frames[s.by] = <<>> /\ read'[s.by] = 0
      BY DEF Unread, IsRead
  <2>1. frames[s.by] = <<>> /\ read[s.by] = 0 /\ s.by \in Request
      BY DEF SInv, Unread, Typed, Shells
  <2> QED BY <1>4, <1>5, <2>1
<1> QED BY <1>6, <1>7, <1>8, <1>9 DEF SInv

\* A reading ends.
LEMMA SentReadEnds ==
    ASSUME SInv, NEW r \in Request, ReadEnds(r)
    PROVE  SInv'
<1> USE DEF ReadEnds, container, reader
<1>1. pc[r] \in Reading /\ pc' = [pc EXCEPT ![r] = Returned[pc[r]]]
    OBVIOUS
<1>2. Returned["generate"] = "generated" /\ Returned["verify"] = "verified"
    BY DEF Returned
<1>3. \A q \in Request : pc'[q] = IF q = r THEN Returned[pc[r]] ELSE pc[q]
    BY DEF SInv, Typed
<1>4. Typed'
  <2>1. pc' \in [Request -> Phase]
      BY <1>1, <1>2 DEF SInv, Typed, Phase, Reading
  <2>2. \A q \in Request : pc'[q] \in Underway => pc[q] \in Underway
      BY <1>1, <1>2, <1>3 DEF Underway, Reading
  <2> QED BY <2>1, <2>2 DEF SInv, Typed
<1>5. \A q \in Request : /\ pc'[q] \in Fresh \cup Reading => pc'[q] = pc[q] \/ pc[q] = "generate"
                         /\ pc'[q] = "begin" => pc[q] = "begin"
                         /\ pc'[q] \in Reading => pc'[q] = pc[q]
                         /\ todo'[q] \subseteq todo[q]
    BY <1>1, <1>2, <1>3 DEF Fresh, Reading
<1> QED BY <1>4, <1>5, SentQuiet

\* rspamadm is the first shell of a request.
LEMMA SentBegin ==
    ASSUME SInv, NEW r \in Request, Begin(r)
    PROVE  SInv'
<1> USE DEF Begin, Exec
<1> DEFINE new == Shell(r, <<>>, "rspamadm")
<1>1. new \in Shells /\ new.by = r /\ new.hash = <<>> /\ new.next = "rspamadm"
    BY EmptySeq DEF Shell, Shells
<1> HIDE DEF new
<1>2. shells' = shells \cup {new}
    BY DEF new
<1>3. \A q \in Request : /\ pc'[q] = IF q = r THEN "generate" ELSE pc[q]
                         /\ frames'[q] = IF q = r THEN <<>> ELSE frames[q]
                         /\ read'[q] = IF q = r THEN 0 ELSE read[q]
    BY DEF SInv, Typed
<1>4. \A s \in shells : s.by \in Request /\ s.by # r
    BY DEF SInv, Typed, Shells, OnlyRspamadm, Fresh
<1>5. Typed'
  <2>1. pc' \in [Request -> Phase]
      BY DEF SInv, Typed, Phase, Reading
  <2>2. frames' \in [Request -> Seq(Sent)] /\ read' \in [Request -> Nat]
      BY EmptySeq DEF SInv, Typed
  <2>3. \A q \in Request : pc'[q] \in Underway => writing[q] \in Hashes
      BY <1>3 DEF SInv, Typed, Underway
  <2>4. \A s \in shells' : s \in Shells /\ (s.next = "rspamadm" => s.hash = <<>>)
      BY <1>1, <1>2 DEF SInv, Typed
  <2> QED BY <2>1, <2>2, <2>3, <2>4 DEF SInv, Typed
<1>6. ReadBound'
  <2>1. Len(Encode(<<>>)) = 0
      BY EmptySeq, SentEncoded
  <2> QED BY <1>3, <2>1 DEF SInv, ReadBound
<1>7. OnlyRspamadm'
    BY <1>1, <1>2, <1>3, <1>4 DEF SInv, OnlyRspamadm
<1>8. OneShell'
    BY <1>1, <1>2 DEF SInv, OneShell
<1>9. Unread'
  <2> SUFFICES ASSUME NEW s \in shells', IsRead(s)'
               PROVE  frames'[s.by] = <<>> /\ read'[s.by] = 0
      BY DEF Unread
  <2>1. CASE s = new
      BY <1>1, <1>3, <2>1
  <2>2. CASE s \in shells
      BY <1>3, <1>4, <2>2 DEF SInv, Unread, IsRead
  <2> QED BY <1>2, <2>1, <2>2
<1> QED BY <1>5, <1>6, <1>7, <1>8, <1>9 DEF SInv

\* There is no container.
LEMMA SentBeginFails ==
    ASSUME SInv, NEW r \in Request, BeginFails(r)
    PROVE  SInv'
<1> USE DEF BeginFails, container, reader
<1>1. \A q \in Request : pc'[q] = IF q = r THEN "danger" ELSE pc[q]
    BY DEF SInv, Typed
<1>2. Typed'
    BY <1>1 DEF SInv, Typed, Underway, Phase, Answered
<1>3. \A q \in Request : /\ pc'[q] \in Fresh \cup Reading => pc'[q] = pc[q] \/ pc[q] = "generate"
                         /\ pc'[q] = "begin" => pc[q] = "begin"
                         /\ pc'[q] \in Reading => pc'[q] = pc[q]
                         /\ todo'[q] \subseteq todo[q]
    BY <1>1 DEF Fresh, Reading
<1> QED BY <1>2, <1>3, SentQuiet

\* No hash that is found has a shell: there has been rspamadm only.
LEMMA SentGenerated ==
    ASSUME SInv, NEW r \in Request, Generated(r)
    PROVE  SInv'
<1> USE DEF Generated, container, reader
<1>1. DemuxStdout(Got(r)) \in Seq(Nat)
    BY GotIsArrived DEF SInv, Typed, ReadBound
<1>2. Found(DemuxStdout(Got(r))) \subseteq Hashes
    BY <1>1, FoundType
<1>3. \A q \in Request : /\ pc'[q] = IF q = r THEN "apply" ELSE pc[q]
                         /\ q # r => todo'[q] = todo[q]
    BY DEF SInv, Typed
<1>4. Typed'
  <2>1. todo' \in [Request -> SUBSET Hashes]
      BY <1>2 DEF SInv, Typed
  <2>2. pc' \in [Request -> Phase]
      BY DEF SInv, Typed, Phase
  <2>3. \A q \in Request : pc'[q] \in Underway => pc[q] \in Underway
      BY <1>3 DEF Underway
  <2> QED BY <2>1, <2>2, <2>3 DEF SInv, Typed
<1>5. \A s \in shells : s.by \in Request /\ (s.by = r => s.next = "rspamadm")
    BY DEF SInv, Typed, Shells, OnlyRspamadm, Fresh
<1>6. ReadBound'
    BY DEF SInv, ReadBound
<1>7. OnlyRspamadm'
    BY <1>3, <1>5 DEF SInv, OnlyRspamadm, Fresh
<1>8. OneShell'
    BY <1>3, <1>5 DEF SInv, OneShell
<1>9. Unread'
    BY <1>3, <1>5 DEF SInv, Unread, IsRead
<1> QED BY <1>4, <1>6, <1>7, <1>8, <1>9 DEF SInv

\* A hash is taken from what is to be written, so it has no shell yet.
LEMMA SentWrite ==
    ASSUME SInv, NEW r \in Request, NEW hash, Write(r, hash)
    PROVE  SInv'
<1> USE DEF Write, Exec
<1> DEFINE new == Shell(r, hash, "open")
<1>0. hash \in Hashes /\ hash \in Seq(Nat)
    BY DEF SInv, Typed, Hashes
<1>1. new \in Shells /\ new.by = r /\ new.hash = hash /\ new.next = "open"
    BY <1>0 DEF Shell, Shells
<1> HIDE DEF new
<1>2. shells' = shells \cup {new}
    BY DEF new
<1>3. \A q \in Request : /\ pc'[q] = IF q = r THEN "verify" ELSE pc[q]
                         /\ frames'[q] = IF q = r THEN <<>> ELSE frames[q]
                         /\ read'[q] = IF q = r THEN 0 ELSE read[q]
                         /\ writing'[q] = IF q = r THEN hash ELSE writing[q]
                         /\ todo'[q] = IF q = r THEN todo[q] \ {hash} ELSE todo[q]
    BY DEF SInv, Typed
<1>4. \A s \in shells : s.by \in Request /\ (s.by = r /\ s.hash = hash => s.next = "rspamadm")
    BY DEF SInv, Typed, Shells, OneShell
<1>5. Typed'
  <2>1. pc' \in [Request -> Phase]
      BY DEF SInv, Typed, Phase, Reading
  <2>2. frames' \in [Request -> Seq(Sent)] /\ read' \in [Request -> Nat]
      BY EmptySeq DEF SInv, Typed
  <2>3. todo' \in [Request -> SUBSET Hashes] /\ writing' \in [Request -> Seq(Nat)]
      BY <1>0 DEF SInv, Typed
  <2>4. \A q \in Request : pc'[q] \in Underway => writing'[q] \in Hashes
      BY <1>0, <1>3 DEF SInv, Typed, Underway
  <2>5. \A s \in shells' : s \in Shells /\ (s.next = "rspamadm" => s.hash = <<>>)
      BY <1>1, <1>2 DEF SInv, Typed
  <2> QED BY <2>1, <2>2, <2>3, <2>4, <2>5 DEF SInv, Typed
<1> HIDE DEF Write, Exec
<1>6. ReadBound'
  <2>1. Len(Encode(<<>>)) = 0
      BY EmptySeq, SentEncoded
  <2>2. ASSUME NEW q \in Request PROVE read'[q] <= Len(Encode(frames'[q]))
    <3>1. CASE q = r
      <4>1. read'[q] = 0 /\ frames'[q] = <<>>
          BY <1>3, <3>1
      <4> QED BY <2>1, <4>1
    <3>2. CASE q # r
        BY <1>3, <3>2 DEF SInv, ReadBound
    <3> QED BY <3>1, <3>2
  <2> QED BY <2>2 DEF ReadBound
<1>7. OnlyRspamadm'
    BY <1>1, <1>2, <1>3, <1>4 DEF SInv, OnlyRspamadm, Fresh
<1>8. OneShell'
  <2> SUFFICES ASSUME NEW s \in shells', s.next # "rspamadm"
               PROVE  /\ s.hash \notin todo'[s.by]
                      /\ \A t \in shells' :
                            t.by = s.by /\ t.hash = s.hash /\ t.next # "rspamadm" => t = s
      BY DEF OneShell
  <2>1. CASE s = new
      BY <1>1, <1>2, <1>3, <1>4, <2>1
  <2>2. CASE s \in shells
      BY <1>1, <1>2, <1>3, <1>4, <2>2 DEF SInv, OneShell
  <2> QED BY <1>2, <2>1, <2>2
<1>9. Unread'
  <2> SUFFICES ASSUME NEW s \in shells', IsRead(s)'
               PROVE  frames'[s.by] = <<>> /\ read'[s.by] = 0
      BY DEF Unread
  <2>1. CASE s = new
      BY <1>1, <1>3, <2>1
  <2>2. CASE s \in shells
    <3>1. CASE s.by = r
        BY <1>3, <1>4, <2>2, <3>1 DEF IsRead
    <3>2. CASE s.by # r
      <4>1. IsRead(s)
          BY <1>3, <1>4, <2>2, <3>2 DEF IsRead
      <4> QED BY <1>3, <1>4, <2>2, <3>2, <4>1 DEF SInv, Unread
    <3> QED BY <3>1, <3>2
  <2> QED BY <1>2, <2>1, <2>2
<1> QED BY <1>5, <1>6, <1>7, <1>8, <1>9 DEF SInv

\* A hash cannot be written.
LEMMA SentWriteFails ==
    ASSUME SInv, NEW r \in Request, NEW hash, WriteFails(r, hash)
    PROVE  SInv'
<1> USE DEF WriteFails, container, reader
<1>1. \A q \in Request : todo'[q] \subseteq todo[q]
    BY DEF SInv, Typed
<1>2. Typed'
    BY DEF SInv, Typed
<1>3. \A q \in Request : /\ pc'[q] \in Fresh \cup Reading => pc'[q] = pc[q] \/ pc[q] = "generate"
                         /\ pc'[q] = "begin" => pc[q] = "begin"
                         /\ pc'[q] \in Reading => pc'[q] = pc[q]
                         /\ todo'[q] \subseteq todo[q]
    BY <1>1
<1> QED BY <1>2, <1>3, SentQuiet

\* What was read back is looked at.
LEMMA SentVerified ==
    ASSUME SInv, NEW r \in Request, Verified(r)
    PROVE  SInv'
<1> USE DEF Verified, container, reader
<1>1. \A q \in Request : /\ q # r => pc'[q] = pc[q]
                         /\ q = r => pc'[q] \in {"restart", "apply"}
    BY DEF SInv, Typed
<1>2. Typed'
  <2>1. pc' \in [Request -> Phase]
      BY DEF SInv, Typed, Phase
  <2>2. \A q \in Request : pc'[q] \in Underway => pc[q] \in Underway
      BY <1>1 DEF Underway
  <2> QED BY <2>1, <2>2 DEF SInv, Typed
<1>3. \A q \in Request : /\ pc'[q] \in Fresh \cup Reading => pc'[q] = pc[q] \/ pc[q] = "generate"
                         /\ pc'[q] = "begin" => pc[q] = "begin"
                         /\ pc'[q] \in Reading => pc'[q] = pc[q]
                         /\ todo'[q] \subseteq todo[q]
    BY <1>1 DEF Fresh, Reading
<1> QED BY <1>2, <1>3, SentQuiet

\* The container is restarted, or is not.
LEMMA SentRestart ==
    ASSUME SInv, NEW r \in Request, Restart(r) \/ RestartFails(r)
    PROVE  SInv'
<1>1. /\ pc[r] = "restart" /\ pc' = [pc EXCEPT ![r] = "apply"]
      /\ UNCHANGED <<todo, writing, frames, read, file>>
      /\ shells' = {} \/ shells' = shells
    BY DEF Restart, RestartFails, Restarted, reader, container
<1>2. \A q \in Request : pc'[q] = IF q = r THEN "apply" ELSE pc[q]
    BY <1>1 DEF SInv, Typed
<1>3. Typed'
  <2>1. pc' \in [Request -> Phase]
      BY <1>1 DEF SInv, Typed, Phase
  <2>2. \A q \in Request : pc'[q] \in Underway => pc[q] \in Underway
      BY <1>2 DEF Underway
  <2> QED BY <1>1, <2>1, <2>2 DEF SInv, Typed
<1>4. \A q \in Request : /\ pc'[q] \in Fresh \cup Reading => pc'[q] = pc[q] \/ pc[q] = "generate"
                         /\ pc'[q] = "begin" => pc[q] = "begin"
                         /\ pc'[q] \in Reading => pc'[q] = pc[q]
                         /\ todo'[q] \subseteq todo[q]
    BY <1>1, <1>2 DEF Fresh, Reading
<1>5. CASE shells' = {}
    BY <1>1, <1>3, <1>5, SentNoShell
<1>6. CASE shells' = shells
    BY <1>1, <1>3, <1>4, <1>6, SentQuiet
<1> QED BY <1>1, <1>5, <1>6

\* The loop is over.
LEMMA SentFinish ==
    ASSUME SInv, NEW r \in Request, Finish(r)
    PROVE  SInv'
<1> USE DEF Finish, container, reader
<1>1. \A q \in Request : /\ q # r => pc'[q] = pc[q]
                         /\ q = r => pc'[q] \in {"success", "danger"}
    BY DEF SInv, Typed
<1>2. Typed'
  <2>1. pc' \in [Request -> Phase]
      BY DEF SInv, Typed, Phase, Answered
  <2>2. \A q \in Request : pc'[q] \in Underway => pc[q] \in Underway
      BY <1>1 DEF Underway
  <2> QED BY <2>1, <2>2 DEF SInv, Typed
<1>3. \A q \in Request : /\ pc'[q] \in Fresh \cup Reading => pc'[q] = pc[q] \/ pc[q] = "generate"
                         /\ pc'[q] = "begin" => pc[q] = "begin"
                         /\ pc'[q] \in Reading => pc'[q] = pc[q]
                         /\ todo'[q] \subseteq todo[q]
    BY <1>1 DEF Fresh, Reading
<1> QED BY <1>2, <1>3, SentQuiet

\* A shell that prints is gone, and what it prints is read from its beginning.
LEMMA SentPrints ==
    ASSUME SInv, NEW s \in shells, NEW output \in Seq(Sent), Prints(s, output),
           shells' = shells \ {s},
           UNCHANGED <<pc, todo, writing, read, file>>
    PROVE  SInv'
<1>1. s.by \in Request /\ s \in Shells
    BY DEF SInv, Typed, Shells
<1>2. \A q \in Request : frames'[q] = IF IsRead(s) /\ q = s.by THEN output ELSE frames[q]
    BY <1>1 DEF SInv, Typed, Prints
<1>3. Typed'
  <2>1. frames' \in [Request -> Seq(Sent)]
      BY <1>1 DEF SInv, Typed, Prints
  <2> QED BY <2>1 DEF SInv, Typed
<1>4. ReadBound'
  <2> SUFFICES ASSUME NEW q \in Request PROVE read[q] <= Len(Encode(frames'[q]))
      BY DEF ReadBound
  <2>1. CASE IsRead(s) /\ q = s.by
    <3>1. read[q] = 0 /\ frames'[q] = output
        BY <1>2, <2>1 DEF SInv, Unread
    <3>2. Len(Encode(output)) \in Nat
        BY SentEncoded
    <3> QED BY <3>1, <3>2
  <2>2. CASE ~(IsRead(s) /\ q = s.by)
      BY <1>2, <2>2 DEF SInv, ReadBound
  <2> QED BY <2>1, <2>2
<1>5. OnlyRspamadm' /\ OneShell'
    BY DEF SInv, OnlyRspamadm, OneShell
<1>6. Unread'
  <2> SUFFICES ASSUME NEW t \in shells, t # s, IsRead(t)
               PROVE  frames'[t.by] = <<>> /\ read[t.by] = 0
      BY DEF Unread, IsRead
  <2>1. t \in Shells /\ t.by \in Request /\ frames[t.by] = <<>> /\ read[t.by] = 0
      BY DEF SInv, Typed, Shells, Unread
  <2>2. ~(IsRead(s) /\ t.by = s.by)
    <3> SUFFICES ASSUME IsRead(s), t.by = s.by PROVE FALSE
        OBVIOUS
    <3>1. CASE t.next = "rspamadm"
      <4>1. s.next = "rspamadm"
          BY <3>1 DEF IsRead
      <4>2. s.hash = <<>> /\ t.hash = <<>>
          BY <3>1, <4>1 DEF SInv, Typed
      <4> QED BY <1>1, <2>1, <3>1, <4>1, <4>2 DEF Shells
    <3>2. CASE t.next # "rspamadm"
      <4>1. s.next # "rspamadm" /\ t.hash = s.hash
          BY <3>2 DEF IsRead
      <4> QED BY <3>2, <4>1 DEF SInv, OneShell
    <3> QED BY <3>1, <3>2
  <2> QED BY <1>2, <2>1, <2>2
<1> QED BY <1>3, <1>4, <1>5, <1>6 DEF SInv

\* rspamadm prints.
LEMMA SentRspamadm ==
    ASSUME SInv, NEW s \in shells, Rspamadm(s)
    PROVE  SInv'
<1>1. s.by \in Request
    BY DEF SInv, Typed, Shells
<1>2. PICK output \in Printed(s.by) : Prints(s, output)
    BY DEF Rspamadm
<1>3. output \in Seq(Sent)
    BY <1>1, PrintedType
<1> QED BY <1>2, <1>3, SentPrints DEF Rspamadm

\* The file is shown.
LEMMA SentCat ==
    ASSUME SInv, NEW s \in shells, Cat(s)
    PROVE  SInv'
<1>1. <<Out(file.bytes)>> \in Seq(Sent)
  <2>1. Out(file.bytes) \in Sent
      BY DEF SInv, Typed, Out, Frame, Sent
  <2> QED BY <2>1, TwoInSeq
<1> QED BY <1>1, SentPrints DEF Cat

\* A shell goes on: it is the same change's, and as much read as before.
LEMMA SentBecomes ==
    ASSUME SInv, NEW s \in shells, s.next \in {"open", "echo"}, NEW next \in {"echo", "cat"},
           Becomes(s, next), file'.bytes \in Seq(Nat),
           UNCHANGED <<pc, todo, writing, frames, read>>
    PROVE  SInv'
<1> DEFINE new == Shell(s.by, s.hash, next)
<1>1. /\ new \in Shells /\ new.by = s.by /\ new.hash = s.hash /\ new.next = next
      /\ s.by \in Request /\ s.next # "rspamadm" /\ next # "rspamadm"
    BY DEF SInv, Typed, Shells, Shell
<1> HIDE DEF new
<1>2. shells' = (shells \ {s}) \cup {new}
    BY DEF Becomes, new
<1>3. Typed'
  <2>1. \A t \in shells' : t \in Shells /\ (t.next = "rspamadm" => t.hash = <<>>)
      BY <1>1, <1>2 DEF SInv, Typed
  <2> QED BY <2>1 DEF SInv, Typed
<1>4. ReadBound'
    BY DEF SInv, ReadBound
<1>5. OnlyRspamadm'
    BY <1>1, <1>2 DEF SInv, OnlyRspamadm
<1>6. OneShell'
  <2> SUFFICES ASSUME NEW t \in shells', t.next # "rspamadm"
               PROVE  /\ t.hash \notin todo[t.by]
                      /\ \A u \in shells' :
                            u.by = t.by /\ u.hash = t.hash /\ u.next # "rspamadm" => u = t
      BY DEF OneShell
  <2>1. CASE t = new
      BY <1>1, <1>2, <2>1 DEF SInv, OneShell
  <2>2. CASE t \in shells /\ t # s
      BY <1>1, <1>2, <2>2 DEF SInv, OneShell
  <2> QED BY <1>2, <2>1, <2>2
<1>7. Unread'
  <2> SUFFICES ASSUME NEW t \in shells', IsRead(t)
               PROVE  frames[t.by] = <<>> /\ read[t.by] = 0
      BY DEF Unread, IsRead
  <2>1. CASE t = new
    <3>1. IsRead(s)
        BY <1>1, <2>1 DEF IsRead
    <3> QED BY <1>1, <2>1, <3>1 DEF SInv, Unread
  <2>2. CASE t \in shells
      BY <2>2 DEF SInv, Unread
  <2> QED BY <1>2, <2>1, <2>2
<1> QED BY <1>3, <1>4, <1>5, <1>6, <1>7 DEF SInv

\* The file is emptied.
LEMMA SentOpen ==
    ASSUME SInv, NEW s \in shells, Open(s)
    PROVE  SInv'
<1>1. file'.bytes \in Seq(Nat)
    BY EmptySeq DEF Open
<1> QED BY <1>1, SentBecomes DEF Open, reader

\* The hash is written, and is in the file then.
LEMMA SentEcho ==
    ASSUME SInv, NEW s \in shells, Echo(s)
    PROVE  /\ SInv'
           /\ Includes(file'.bytes, s.hash)
<1>1. s.hash \in Seq(Nat) /\ file.bytes \in Seq(Nat)
    BY DEF SInv, Typed, Shells
<1>2. file'.bytes \in Seq(Nat) /\ Includes(file'.bytes, s.hash)
    BY <1>1, EchoIncludes DEF Echo
<1> QED BY <1>2, SentBecomes DEF Echo, reader

\* Every step keeps it.
LEMMA SentKeeps == SInv /\ [Next]_vars => SInv'
<1> SUFFICES ASSUME SInv, [Next]_vars PROVE SInv'
    OBVIOUS
<1>1. CASE \E r \in Request :
              Begin(r) \/ BeginFails(r) \/ ReadEnds(r) \/ Generated(r) \/ Verified(r)
    BY <1>1, SentBegin, SentBeginFails, SentReadEnds, SentGenerated, SentVerified
<1>2. CASE \E r \in Request : \E upTo \in 1 .. Len(Encode(frames[r])) : Receive(r, upTo)
    BY <1>2, SentReceive
<1>3. CASE \E r \in Request : \E hash \in todo[r] : Write(r, hash) \/ WriteFails(r, hash)
    BY <1>3, SentWrite, SentWriteFails
<1>4. CASE \E r \in Request : Restart(r) \/ RestartFails(r) \/ Finish(r)
    BY <1>4, SentRestart, SentFinish
<1>5. CASE \E s \in shells : Rspamadm(s) \/ Open(s) \/ Echo(s) \/ Cat(s)
    BY <1>5, SentRspamadm, SentOpen, SentEcho, SentCat
<1>6. CASE RestartedElsewhere
  <2>1. Typed' /\ UNCHANGED <<frames, read>> /\ shells' = {}
      BY <1>6 DEF RestartedElsewhere, Restarted, reader, SInv, Typed
  <2> QED BY <2>1, SentNoShell
<1>7. CASE UNCHANGED vars
    BY <1>7 DEF vars, SInv, Typed, ReadBound, OnlyRspamadm, OneShell, Unread, IsRead
<1>8. QED
    BY <1>1, <1>2, <1>3, <1>4, <1>5, <1>6, <1>7 DEF Next

-----------------------------------------------------------------------------
(* What is in the file.                                                     *)

\* A change has been written: no shell of it has still to write, and if the
\* file is as the change has left it, its hash is there.
Echoed(r, hash) ==
    /\ \A s \in shells : s.by = r /\ s.hash = hash => s.next \notin {"open", "echo"}
    /\ file.by = Change(r, hash) => Includes(file.bytes, hash)

CatEchoed == \A s \in shells : s.next = "cat" => Echoed(s.by, s.hash)

\* Something can be read back, or was, only of a change that has been written.
ShownEchoed ==
    \A r \in Request : pc[r] \in {"verify", "verified"} /\ frames[r] # <<>>
                           => Echoed(r, writing[r])

RestartEchoed == \A r \in Request : pc[r] = "restart" => Echoed(r, writing[r])

EInv ==
    /\ CatEchoed
    /\ ShownEchoed
    /\ RestartEchoed
    /\ AppliedHasTheHash

FullInv == IInv /\ SInv /\ EInv

\* At the beginning no change is underway.
LEMMA EchoBeginning == Init => EInv
BY DEF Init, EInv, CatEchoed, ShownEchoed, RestartEchoed, AppliedHasTheHash

\* While nothing is written and no shell started, what has been written stays.
LEMMA EchoedStays ==
    ASSUME file' = file, shells' \subseteq shells, NEW r, NEW hash, Echoed(r, hash)
    PROVE  Echoed(r, hash)'
BY DEF Echoed

\* What a step keeps that starts no shell, shows nothing and applies nothing.
LEMMA EchoQuiet ==
    ASSUME FullInv, file' = file, shells' \subseteq shells, writing' = writing,
           \A q \in Request :
              /\ pc'[q] \in {"verify", "verified"} /\ frames'[q] # <<>> =>
                    pc[q] \in {"verify", "verified"} /\ frames[q] # <<>>
              /\ pc'[q] = "restart" => Echoed(q, writing[q]),
           applied' = applied \/ \E r \in Request :
              pc[r] = "restart" /\ applied' = applied \cup {Change(r, writing[r])}
    PROVE  EInv'
<1>1. CatEchoed'
    BY EchoedStays DEF FullInv, EInv, CatEchoed
<1>2. ShownEchoed'
    BY EchoedStays DEF FullInv, EInv, ShownEchoed
<1>3. RestartEchoed'
    BY EchoedStays DEF RestartEchoed
<1>4. AppliedHasTheHash'
  <2>1. CASE applied' = applied
      BY <2>1 DEF FullInv, EInv, AppliedHasTheHash
  <2>2. ASSUME NEW r \in Request, pc[r] = "restart",
               applied' = applied \cup {Change(r, writing[r])}
        PROVE  AppliedHasTheHash'
    <3>1. Echoed(r, writing[r])
        BY <2>2 DEF FullInv, EInv, RestartEchoed
    <3>2. Change(r, writing[r]).hash = writing[r]
        BY DEF Change
    <3>3. file.by = Change(r, writing[r]) => Includes(file.bytes, file.by.hash)
        BY <3>1, <3>2 DEF Echoed
    <3> QED BY <2>2, <3>3 DEF FullInv, EInv, AppliedHasTheHash
  <2> QED BY <2>1, <2>2
<1> QED BY <1>1, <1>2, <1>3, <1>4 DEF EInv

\* The steps of a request other than the start of a shell.
LEMMA EchoRequest ==
    ASSUME FullInv, NEW r \in Request,
           \/ BeginFails(r) \/ ReadEnds(r) \/ Generated(r) \/ Restart(r)
           \/ RestartFails(r) \/ Finish(r)
           \/ \E upTo : Receive(r, upTo)
           \/ \E hash : WriteFails(r, hash)
    PROVE  EInv'
<1>1. /\ file' = file /\ shells' \subseteq shells /\ writing' = writing /\ frames' = frames
      /\ \/ applied' = applied
         \/ pc[r] = "restart" /\ applied' = applied \cup {Change(r, writing[r])}
  <2>1. CASE BeginFails(r) \/ ReadEnds(r) \/ Generated(r) \/ Finish(r)
      BY <2>1 DEF BeginFails, ReadEnds, Generated, Finish, reader, container
  <2>2. CASE Restart(r)
      BY <2>2 DEF Restart, Restarted, reader
  <2>3. CASE RestartFails(r)
      BY <2>3 DEF RestartFails, Restarted, reader, container
  <2>4. CASE \E upTo : Receive(r, upTo)
      BY <2>4 DEF Receive, container
  <2>5. CASE \E hash : WriteFails(r, hash)
      BY <2>5 DEF WriteFails, reader, container
  <2> QED BY <2>1, <2>2, <2>3, <2>4, <2>5
<1>2. pc \in [Request -> Phase]
    BY DEF FullInv, SInv, Typed
<1>3. /\ \A q \in Request : q # r => pc'[q] = pc[q]
      /\ pc'[r] \in {"verify", "verified"} => pc[r] \in {"verify", "verified"}
      /\ pc'[r] # "restart" \/ pc'[r] = pc[r]
  <2>1. CASE ReadEnds(r)
      BY <1>2, <2>1 DEF ReadEnds, Reading, Returned
  <2>2. CASE BeginFails(r) \/ Finish(r)
      BY <1>2, <2>2 DEF BeginFails, Finish
  <2>3. CASE Generated(r) \/ Restart(r) \/ RestartFails(r)
      BY <1>2, <2>3 DEF Generated, Restart, RestartFails
  <2>4. CASE (\E upTo : Receive(r, upTo)) \/ (\E hash : WriteFails(r, hash))
      BY <2>4 DEF Receive, WriteFails
  <2> QED BY <2>1, <2>2, <2>3, <2>4
<1>4. \A q \in Request :
         /\ pc'[q] \in {"verify", "verified"} /\ frames'[q] # <<>> =>
               pc[q] \in {"verify", "verified"} /\ frames[q] # <<>>
         /\ pc'[q] = "restart" => Echoed(q, writing[q])
    BY <1>1, <1>3 DEF FullInv, EInv, RestartEchoed
<1> QED BY <1>1, <1>4, EchoQuiet

\* The hash is found in what was read back: so something was.
LEMMA EchoVerified ==
    ASSUME FullInv, NEW r \in Request, Verified(r)
    PROVE  EInv'
<1>1. /\ pc[r] = "verified"
      /\ UNCHANGED <<file, shells, writing, frames, applied>>
    BY DEF Verified, reader, container
<1>2. \A q \in Request :
         /\ q # r => pc'[q] = pc[q]
         /\ q = r => pc'[q] = IF Includes(DemuxStdout(Got(r)), writing[r])
                              THEN "restart" ELSE "apply"
    BY DEF Verified, FullInv, SInv, Typed
<1>3. pc'[r] = "restart" => Echoed(r, writing[r])
  <2> SUFFICES ASSUME pc'[r] = "restart" PROVE Echoed(r, writing[r])
      OBVIOUS
  <2>1. Includes(DemuxStdout(Got(r)), writing[r])
      BY <1>2
  <2>2. writing[r] \in Hashes /\ read[r] \in Nat /\ read[r] <= Len(Encode(frames[r]))
      BY <1>1 DEF FullInv, SInv, Typed, ReadBound, Underway
  <2>3. frames[r] # <<>>
      BY <2>1, <2>2, NothingFound
  <2> QED BY <1>1, <2>3 DEF FullInv, EInv, ShownEchoed
<1>4. \A q \in Request :
         /\ pc'[q] \in {"verify", "verified"} /\ frames'[q] # <<>> =>
               pc[q] \in {"verify", "verified"} /\ frames[q] # <<>>
         /\ pc'[q] = "restart" => Echoed(q, writing[q])
    BY <1>1, <1>2, <1>3 DEF FullInv, EInv, RestartEchoed
<1> QED BY <1>1, <1>4, EchoQuiet

\* A shell is started: for rspamadm, or for a change that has no shell yet.
LEMMA EchoStart ==
    ASSUME FullInv, NEW r \in Request, Begin(r) \/ \E hash \in todo[r] : Write(r, hash)
    PROVE  EInv'
<1>1. PICK new : /\ shells' = shells \cup {new} /\ new.by = r
                 /\ new.next \in {"rspamadm", "open"}
                 /\ new.next = "open" => new.hash \in todo[r]
                 /\ \A q \in Request : q # r => writing'[q] = writing[q]
  <2>1. writing \in [Request -> Seq(Nat)]
      BY DEF FullInv, SInv, Typed
  <2>2. CASE Begin(r)
    <3> DEFINE new == Shell(r, <<>>, "rspamadm")
    <3>1. shells' = shells \cup {new} /\ writing' = writing
        BY <2>2 DEF Begin, Exec
    <3>2. new.by = r /\ new.next = "rspamadm" /\ new.next # "open"
        BY DEF Shell
    <3> HIDE DEF new
    <3> QED BY <3>1, <3>2
  <2>3. ASSUME NEW hash \in todo[r], Write(r, hash)
        PROVE  \E new : /\ shells' = shells \cup {new} /\ new.by = r
                        /\ new.next \in {"rspamadm", "open"}
                        /\ new.next = "open" => new.hash \in todo[r]
                        /\ \A q \in Request : q # r => writing'[q] = writing[q]
    <3> DEFINE new == Shell(r, hash, "open")
    <3>1. shells' = shells \cup {new} /\ writing' = [writing EXCEPT ![r] = hash]
        BY <2>3 DEF Write, Exec
    <3>2. new.by = r /\ new.next = "open" /\ new.hash = hash
        BY DEF Shell
    <3>3. \A q \in Request : q # r => writing'[q] = writing[q]
        BY <2>1, <3>1
    <3> HIDE DEF new
    <3> QED BY <3>1, <3>2, <3>3
  <2> QED BY <2>2, <2>3
<1>2. file' = file /\ applied' = applied
    BY DEF Begin, Write
<1>3. /\ frames'[r] = <<>> /\ pc'[r] # "restart"
      /\ \A q \in Request : q # r => pc'[q] = pc[q] /\ frames'[q] = frames[q]
    BY DEF Begin, Write, Exec, FullInv, SInv, Typed
<1>4. ASSUME NEW q, NEW hash, Echoed(q, hash), ~(q = r /\ hash \in todo[r])
      PROVE  Echoed(q, hash)'
    BY <1>1, <1>2, <1>4 DEF Echoed
<1>5. CatEchoed'
  <2> SUFFICES ASSUME NEW s \in shells', s.next = "cat" PROVE Echoed(s.by, s.hash)'
      BY DEF CatEchoed
  <2>1. s \in shells
      BY <1>1
  <2>2. ~(s.by = r /\ s.hash \in todo[r])
      BY <2>1 DEF FullInv, SInv, OneShell
  <2> QED BY <1>4, <2>1, <2>2 DEF FullInv, EInv, CatEchoed
<1>6. ShownEchoed'
    BY <1>1, <1>3, <1>4 DEF FullInv, EInv, ShownEchoed
<1>7. RestartEchoed'
    BY <1>1, <1>3, <1>4 DEF FullInv, EInv, RestartEchoed
<1>8. AppliedHasTheHash'
    BY <1>2 DEF FullInv, EInv, AppliedHasTheHash
<1> QED BY <1>5, <1>6, <1>7, <1>8 DEF EInv

\* rspamadm prints: to a request that does not read a file back.
LEMMA EchoRspamadm ==
    ASSUME FullInv, NEW s \in shells, Rspamadm(s)
    PROVE  EInv'
<1>1. /\ file' = file /\ shells' \subseteq shells /\ writing' = writing /\ applied' = applied
      /\ pc' = pc
    BY DEF Rspamadm
<1>2. s.by \in Request /\ frames \in [Request -> Seq(Sent)]
    BY DEF FullInv, SInv, Typed, Shells
<1>3. \A q \in Request : pc[q] # "generate" => frames'[q] = frames[q]
    BY <1>2 DEF Rspamadm, Prints, IsRead
<1>4. \A q \in Request :
         /\ pc'[q] \in {"verify", "verified"} /\ frames'[q] # <<>> =>
               pc[q] \in {"verify", "verified"} /\ frames[q] # <<>>
         /\ pc'[q] = "restart" => Echoed(q, writing[q])
    BY <1>1, <1>3 DEF FullInv, EInv, RestartEchoed
<1> QED BY <1>1, <1>4, EchoQuiet

\* cat shows the file to the one who had it written.
LEMMA EchoCat ==
    ASSUME FullInv, NEW s \in shells, Cat(s)
    PROVE  EInv'
<1>1. /\ file' = file /\ shells' \subseteq shells /\ writing' = writing /\ applied' = applied
      /\ pc' = pc
    BY DEF Cat
<1>2. s.by \in Request /\ frames \in [Request -> Seq(Sent)]
    BY DEF FullInv, SInv, Typed, Shells
<1>3. \A q \in Request : frames'[q] = frames[q] \/ (q = s.by /\ writing[q] = s.hash)
    BY <1>2 DEF Cat, Prints, IsRead
<1>4. Echoed(s.by, s.hash)
    BY DEF FullInv, EInv, CatEchoed, Cat
<1>5. ShownEchoed'
  <2> SUFFICES ASSUME NEW q \in Request, pc[q] \in {"verify", "verified"}, frames'[q] # <<>>
               PROVE  Echoed(q, writing[q])
      BY <1>1, EchoedStays DEF ShownEchoed
  <2> QED BY <1>3, <1>4 DEF FullInv, EInv, ShownEchoed
<1>6. CatEchoed' /\ RestartEchoed' /\ AppliedHasTheHash'
    BY <1>1, EchoedStays DEF FullInv, EInv, CatEchoed, RestartEchoed, AppliedHasTheHash
<1> QED BY <1>5, <1>6 DEF EInv

\* A shell writes: only its own change is written anew, and that one is not
\* applied.
LEMMA EchoWrites ==
    ASSUME FullInv, NEW s \in shells, Open(s) \/ Echo(s)
    PROVE  EInv'
<1>1. /\ s.next \in {"open", "echo"} /\ file'.by = Change(s.by, s.hash)
      /\ UNCHANGED <<pc, writing, frames, applied>>
  <2>1. CASE Open(s)
      BY <2>1 DEF Open, reader
  <2>2. CASE Echo(s)
      BY <2>2 DEF Echo, reader
  <2> QED BY <2>1, <2>2
<1>2. PICK new : /\ shells' = (shells \ {s}) \cup {new} /\ new.by = s.by /\ new.hash = s.hash
                 /\ new.next \in {"echo", "cat"}
                 /\ new.next = "cat" => Echo(s)
  <2>1. ASSUME NEW next
        PROVE  LET new == Shell(s.by, s.hash, next)
               IN  new.by = s.by /\ new.hash = s.hash /\ new.next = next
      BY DEF Shell
  <2>2. CASE Open(s)
    <3>1. shells' = (shells \ {s}) \cup {Shell(s.by, s.hash, "echo")}
        BY <2>2 DEF Open, Becomes
    <3>2. "echo" # "cat"
        OBVIOUS
    <3> QED BY <2>1, <3>1, <3>2
  <2>3. CASE Echo(s)
    <3>1. shells' = (shells \ {s}) \cup {Shell(s.by, s.hash, "cat")}
        BY <2>3 DEF Echo, Becomes
    <3> QED BY <2>1, <2>3, <3>1
  <2> QED BY <2>2, <2>3
<1>3. ASSUME NEW q, NEW hash, Echoed(q, hash) PROVE Echoed(q, hash)'
  <2>1. ~(q = s.by /\ hash = s.hash)
      BY <1>1, <1>3 DEF Echoed
  <2>2. file'.by # Change(q, hash)
      BY <1>1, <2>1, ChangeInjective
  <2>3. \A t \in shells' : t.by = q /\ t.hash = hash => t.next \notin {"open", "echo"}
      BY <1>2, <1>3, <2>1 DEF Echoed
  <2> QED BY <2>2, <2>3 DEF Echoed
<1>4. CatEchoed'
  <2> SUFFICES ASSUME NEW t \in shells', t.next = "cat" PROVE Echoed(t.by, t.hash)'
      BY DEF CatEchoed
  <2>1. CASE t \in shells
      BY <1>3, <2>1 DEF FullInv, EInv, CatEchoed
  <2>2. CASE t = new
    <3>1. Echo(s) /\ t.by = s.by /\ t.hash = s.hash
        BY <1>2, <2>2
    <3>2. Includes(file'.bytes, s.hash)
        BY <3>1, SentEcho DEF FullInv
    <3>3. \A u \in shells' : u.by = s.by /\ u.hash = s.hash => u.next \notin {"open", "echo"}
        BY <1>1, <1>2, <2>2 DEF FullInv, SInv, OneShell
    <3> QED BY <3>1, <3>2, <3>3 DEF Echoed
  <2> QED BY <1>2, <2>1, <2>2
<1>5. ShownEchoed' /\ RestartEchoed'
    BY <1>1, <1>3 DEF FullInv, EInv, ShownEchoed, RestartEchoed
<1>6. AppliedHasTheHash'
    BY <1>1 DEF FullInv, IInv, ShellNotApplied, AppliedHasTheHash
<1> QED BY <1>4, <1>5, <1>6 DEF EInv

\* Every step keeps what is in the file.
LEMMA FileKeeps == FullInv /\ [Next]_vars => EInv'
<1> SUFFICES ASSUME FullInv, [Next]_vars PROVE EInv'
    OBVIOUS
<1>1. CASE \E r \in Request :
              BeginFails(r) \/ ReadEnds(r) \/ Generated(r)
              \/ Restart(r) \/ RestartFails(r) \/ Finish(r)
    BY <1>1, EchoRequest
<1>2. CASE \E r \in Request : \E upTo \in 1 .. Len(Encode(frames[r])) : Receive(r, upTo)
    BY <1>2, EchoRequest
<1>3. CASE \E r \in Request : \E hash \in todo[r] : WriteFails(r, hash)
    BY <1>3, EchoRequest
<1>4. CASE \E r \in Request : Begin(r) \/ \E hash \in todo[r] : Write(r, hash)
    BY <1>4, EchoStart
<1>5. CASE \E r \in Request : Verified(r)
    BY <1>5, EchoVerified
<1>6. CASE \E s \in shells : Rspamadm(s) \/ Open(s) \/ Echo(s) \/ Cat(s)
    BY <1>6, EchoRspamadm, EchoWrites, EchoCat
<1>7. CASE RestartedElsewhere \/ UNCHANGED vars
  <2>1. /\ file' = file /\ shells' \subseteq shells
        /\ UNCHANGED <<pc, writing, frames, applied>>
      BY <1>7 DEF RestartedElsewhere, Restarted, reader, vars
  <2>2. \A q \in Request : pc'[q] = "restart" => Echoed(q, writing[q])
      BY <2>1 DEF FullInv, EInv, RestartEchoed
  <2> QED BY <2>1, <2>2, EchoQuiet
<1>8. QED
    BY <1>1, <1>2, <1>3, <1>4, <1>5, <1>6, <1>7 DEF Next

\* All of it holds in every state.
LEMMA Invariants == Spec => []FullInv
<1>1. Init => FullInv
    BY Beginning, SentBeginning, EchoBeginning DEF FullInv
<1>2. FullInv /\ [Next]_vars => FullInv'
    BY StepKeeps, SentKeeps, FileKeeps DEF FullInv
<1>3. QED
    BY <1>1, <1>2, PTL DEF Spec

(* Of what the shells have sent a request gets, kind by kind, what has      *)
(* arrived, wherever the silence cuts the stream (demux.go:22-57).          *)
THEOREM WhatArrivedIsKept == Spec => []StreamIsKept
<1>1. FullInv => StreamIsKept
  <2> SUFFICES ASSUME FullInv, NEW r \in Request
               PROVE  /\ DemuxStdout(Got(r)) = Arrived(frames[r], read[r], {Stdout})
                      /\ DemuxStderr(Got(r)) = Arrived(frames[r], read[r], {Stderr})
                      /\ DemuxCombined(Got(r)) = Arrived(frames[r], read[r], {Stdout, Stderr})
      BY DEF StreamIsKept
  <2>1. frames[r] \in Seq(Sent) /\ read[r] \in Nat /\ read[r] <= Len(Encode(frames[r]))
      BY DEF FullInv, SInv, Typed, ReadBound
  <2> QED BY <2>1, GotIsArrived
<1>2. QED
    BY <1>1, Invariants, PTL

(* As long as the file is as an applied change has left it, the change's    *)
(* hash is in it (rspamd.go:96-100).                                        *)
THEOREM AppliedIsInTheFile == Spec => []AppliedHasTheHash
<1>1. FullInv => AppliedHasTheHash
    BY DEF FullInv, EInv
<1>2. QED
    BY <1>1, Invariants, PTL
============================================================================
