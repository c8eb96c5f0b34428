--------------------------- MODULE WorkerPassword --------------------------
(***************************************************************************)
(* The change of the rspamd controller's password                          *)
(* (internal/actions/rspamd.go) over the interactive exec of               *)
(* internal/dockerclient/moby.go.                                          *)
(*                                                                         *)
(* A request runs two kinds of shells in the container, one after the      *)
(* other: rspamadm prints a hash; echo writes it into a file and cat shows *)
(* the file.  The reader of a shell's output has no other sign of its end  *)
(* than silence: it stops when nothing has arrived for a while, however    *)
(* much is still to come, and the shell goes on without it.  Time is not   *)
(* measured: the while may be over at any moment.  The container is        *)
(* restarted then, by this request, another one or somebody else, which    *)
(* kills all shells in it and makes rspamd load the file.                  *)
(*                                                                         *)
(* Requests run side by side; each is one call of the action.  The clean-  *)
(* up of the line (blanks, control characters) is left out, "$2$" is one   *)
(* number, and of the file's line only the hash and what follows it stay.  *)
(***************************************************************************)
EXTENDS AttachStream, FiniteSets

CONSTANTS
    Request,  \* the calls of the action
    Hash,     \* Hash[r]: what rspamadm makes of the password of r
    Nobody    \* who has written the file at the beginning

Prefix  == 36   \* "$2$", with which a hash begins
NewLine == 10
Quote   == 34   \* what follows the hash in the file
Noise   == 63   \* what a shell may say on stderr

ASSUME ConstantsAssumption ==
    /\ \A r \in Request : /\ Hash[r] \in Seq(Nat)
                          /\ Len(Hash[r]) > 1
                          /\ Hash[r][1] = Prefix
    /\ Nobody \notin Request

VARIABLES
    pc,       \* where a request is
    todo,     \* the hashes its loop has still to apply
    writing,  \* the one it is applying
    matched,  \* whether one of them has been applied
    frames,   \* what the daemon has sent for the exec that is read
    read,     \* how much of it has been read
    shells,   \* the shells in the container and what they do next
    file,     \* the override file, and which change wrote it last
    running,  \* what rspamd has loaded
    applied   \* history: the changes a restart has been answered for

vars == <<pc, todo, writing, matched, frames, read,
          shells, file, running, applied>>
reader == <<frames, read>>
container == <<shells, file, running>>

Reading == {"generate", "verify"}
Answered == {"success", "danger"}
Phase == {"begin", "generated", "apply", "verified", "restart"} \cup Reading \cup Answered

\* One round of the loop: a request and the hash it has found.
Change(r, hash) == [by |-> r, hash |-> hash]
Initial == Change(Nobody, <<>>)

\* A shell started for a change, and what it does next.
Shell(r, hash, next) == [by |-> r, hash |-> hash, next |-> next]

Got(r) == SubSeq(Encode(frames[r]), 1, read[r])

Init ==
    /\ pc = [r \in Request |-> "begin"]
    /\ todo = [r \in Request |-> {}]
    /\ writing = [r \in Request |-> <<>>]
    /\ matched = [r \in Request |-> FALSE]
    /\ frames = [r \in Request |-> <<>>]
    /\ read = [r \in Request |-> 0]
    /\ shells = {}
    /\ file = [by |-> Initial, bytes |-> <<>>]
    /\ running = <<>>
    /\ applied = {}

-----------------------------------------------------------------------------
(* The interactive exec                                                     *)

\* A shell is started for request r and its reader waits.
Exec(r, hash, next) ==
    /\ shells' = shells \cup {Shell(r, hash, next)}
    /\ frames' = [frames EXCEPT ![r] = <<>>]
    /\ read' = [read EXCEPT ![r] = 0]

\* conn.Read returns what has arrived.
Receive(r, upTo) ==
    /\ pc[r] \in Reading
    /\ upTo \in read[r] + 1 .. Len(Encode(frames[r]))
    /\ read' = [read EXCEPT ![r] = upTo]
    /\ UNCHANGED <<pc, todo, writing, matched, frames, container, applied>>

Returned == [generate |-> "generated", verify |-> "verified"]

\* readUntilIdle returns: nothing has arrived within the window, or the stream
\* is at its end.  The deadline of twice the window that it keeps beside the
\* window is moved whenever the window is, so it never comes first.
ReadEnds(r) ==
    /\ pc[r] \in Reading
    /\ pc' = [pc EXCEPT ![r] = Returned[@]]
    /\ UNCHANGED <<todo, writing, matched, reader, container, applied>>

-----------------------------------------------------------------------------
(* RspamdWorkerPassword and applyRspamdHash                                 *)

\* The hashes in the lines of an output: from the first "$2$" of a line to the
\* line's end, when anything follows it.
Found(out) ==
    LET begins(i) == /\ out[i] = Prefix
                     /\ \A h \in 1 .. i - 1 : out[h] = Prefix =>
                           \E n \in h .. i : out[n] = NewLine
        ends(i, j) == /\ \A n \in i .. j : out[n] # NewLine
                      /\ j < Len(out) => out[j + 1] = NewLine
    IN  {SubSeq(out, p[1], p[2]) :
            p \in {q \in (1 .. Len(out)) \X (1 .. Len(out)) :
                      q[1] < q[2] /\ begins(q[1]) /\ ends(q[1], q[2])}}

Includes(bytes, part) ==
    \E i \in 0 .. Len(bytes) - Len(part) :
        SubSeq(bytes, i + 1, i + Len(part)) = part

\* The container is found and rspamadm started in it.
Begin(r) ==
    /\ pc[r] = "begin"
    /\ pc' = [pc EXCEPT ![r] = "generate"]
    /\ Exec(r, <<>>, "rspamadm")
    /\ UNCHANGED <<todo, writing, matched, file, running, applied>>

\* There is no container, or Docker fails.
BeginFails(r) ==
    /\ pc[r] = "begin"
    /\ pc' = [pc EXCEPT ![r] = "danger"]
    /\ UNCHANGED <<todo, writing, matched, reader, container, applied>>

Generated(r) ==
    /\ pc[r] = "generated"
    /\ pc' = [pc EXCEPT ![r] = "apply"]
    /\ todo' = [todo EXCEPT ![r] = Found(DemuxStdout(Got(r)))]
    /\ UNCHANGED <<writing, matched, reader, container, applied>>

\* The next line with a hash: it is written to the file and the file shown.
Write(r, hash) ==
    /\ pc[r] = "apply"
    /\ hash \in todo[r]
    /\ pc' = [pc EXCEPT ![r] = "verify"]
    /\ todo' = [todo EXCEPT ![r] = @ \ {hash}]
    /\ writing' = [writing EXCEPT ![r] = hash]
    /\ Exec(r, hash, "open")
    /\ UNCHANGED <<matched, file, running, applied>>

WriteFails(r, hash) ==
    /\ pc[r] = "apply"
    /\ hash \in todo[r]
    /\ todo' = [todo EXCEPT ![r] = @ \ {hash}]
    /\ UNCHANGED <<pc, writing, matched, reader, container, applied>>

\* Variant: what was read back is not looked at.
VerifiedUnseen(r) ==
    /\ pc[r] = "verified"
    /\ pc' = [pc EXCEPT ![r] = "restart"]
    /\ UNCHANGED <<todo, writing, matched, reader, container, applied>>

\* The container is restarted only if the file read back has the hash in it.
Verified(r) ==
    /\ pc[r] = "verified"
    /\ pc' = [pc EXCEPT ![r] =
          IF Includes(DemuxStdout(Got(r)), writing[r]) THEN "restart" ELSE "apply"]
    /\ UNCHANGED <<todo, writing, matched, reader, container, applied>>

\* The container stops and starts: its shells are gone, and rspamd loads the
\* file.  The readers of the shells see the end of their streams.
Restarted ==
    /\ shells' = {}
    /\ running' = file.bytes
    /\ UNCHANGED <<reader, file>>

\* Variant: the restart is left to a goroutine.
RestartLater(r) ==
    /\ pc[r] = "restart"
    /\ pc' = [pc EXCEPT ![r] = "apply"]
    /\ matched' = [matched EXCEPT ![r] = TRUE]
    /\ applied' = applied \cup {Change(r, writing[r])}
    /\ UNCHANGED <<todo, writing, reader, container>>

Restart(r) ==
    /\ pc[r] = "restart"
    /\ Restarted
    /\ pc' = [pc EXCEPT ![r] = "apply"]
    /\ matched' = [matched EXCEPT ![r] = TRUE]
    /\ applied' = applied \cup {Change(r, writing[r])}
    /\ UNCHANGED <<todo, writing>>

\* The answer is an error; the container may have been restarted all the same.
RestartFails(r) ==
    /\ pc[r] = "restart"
    /\ Restarted \/ UNCHANGED <<reader, container>>
    /\ pc' = [pc EXCEPT ![r] = "apply"]
    /\ UNCHANGED <<todo, writing, matched, applied>>

Finish(r) ==
    /\ pc[r] = "apply"
    /\ todo[r] = {}
    /\ pc' = [pc EXCEPT ![r] = IF matched[r] THEN "success" ELSE "danger"]
    /\ UNCHANGED <<todo, writing, matched, reader, container, applied>>

-----------------------------------------------------------------------------
(* The container                                                            *)

Out(bytes) == Frame(Stdout, bytes)
Err(bytes) == Frame(Stderr, bytes)

\* rspamadm fails, or prints its line in one frame or in two, or after the
\* shell has complained about something.
Printed(r) ==
    LET line == Hash[r] \o <<NewLine>>
    IN  {<<>>, <<Out(line)>>, <<Err(<<Noise>>), Out(line)>>} \cup
        {<<Out(SubSeq(line, 1, k)), Out(SubSeq(line, k + 1, Len(line)))>> :
            k \in 1 .. Len(line) - 1}

\* Whether the reader of shell s still reads it.
IsRead(s) ==
    \/ s.next = "rspamadm" /\ pc[s.by] = "generate"
    \/ s.next # "rspamadm" /\ pc[s.by] = "verify" /\ writing[s.by] = s.hash

\* Shell s prints: the daemon frames it, for the reader if there is one.
Prints(s, output) ==
    frames' = IF IsRead(s) THEN [frames EXCEPT ![s.by] = output] ELSE frames

Rspamadm(s) ==
    /\ s.next = "rspamadm"
    /\ \E output \in Printed(s.by) : Prints(s, output)
    /\ shells' = shells \ {s}
    /\ UNCHANGED <<pc, todo, writing, matched, read, file,
                   running, applied>>

Becomes(s, next) == shells' = (shells \ {s}) \cup {Shell(s.by, s.hash, next)}

\* The redirection empties the file before echo writes it.
Open(s) ==
    /\ s.next = "open"
    /\ file' = [by |-> Change(s.by, s.hash), bytes |-> <<>>]
    /\ Becomes(s, "echo")
    /\ UNCHANGED <<pc, todo, writing, matched, reader, running, applied>>

\* echo writes from the beginning of the file, over what another shell has
\* written since both of them opened it.
Echo(s) ==
    /\ s.next = "echo"
    /\ LET line == s.hash \o <<Quote>>
       IN  file' = [by |-> Change(s.by, s.hash),
                    bytes |-> line \o SubSeq(file.bytes, Len(line) + 1,
                                             Len(file.bytes))]
    /\ Becomes(s, "cat")
    /\ UNCHANGED <<pc, todo, writing, matched, reader, running, applied>>

Cat(s) ==
    /\ s.next = "cat"
    /\ Prints(s, <<Out(file.bytes)>>)
    /\ shells' = shells \ {s}
    /\ UNCHANGED <<pc, todo, writing, matched, read, file,
                   running, applied>>

\* Somebody else restarts the container.
RestartedElsewhere ==
    /\ Restarted
    /\ UNCHANGED <<pc, todo, writing, matched, applied>>

-----------------------------------------------------------------------------
Next ==
    \/ \E r \in Request :
          \/ Begin(r) \/ BeginFails(r) \/ ReadEnds(r)
          \/ Generated(r) \/ Verified(r)
          \/ \E upTo \in 1 .. Len(Encode(frames[r])) : Receive(r, upTo)
          \/ \E hash \in todo[r] : Write(r, hash) \/ WriteFails(r, hash)
          \/ Restart(r) \/ RestartFails(r) \/ Finish(r)
    \/ \E s \in shells : Rspamadm(s) \/ Open(s) \/ Echo(s) \/ Cat(s)
    \/ RestartedElsewhere

Spec == Init /\ [][Next]_vars

-----------------------------------------------------------------------------
(* Properties                                                               *)

(* If no shell has opened the file since a change whose restart has been    *)
(* answered, rspamd runs what is in it - whatever other requests, restarts  *)
(* that fail, and shells nobody reads any more do meanwhile                 *)
(* (rspamd.go:88-106).                                                      *)
AppliedIsLoaded == file.by \in applied => running = file.bytes

(* And what is in the file then has the hash of the change in it            *)
(* (rspamd.go:96-100).                                                      *)
AppliedHasTheHash == file.by \in applied => Includes(file.bytes, file.by.hash)

(* Success is answered only for a change that was applied (rspamd.go:96-97: *)
(* "Only once the file read back contains the hash does the change count as *)
(* applied").                                                               *)
SuccessMeansApplied ==
    \A r \in Request : pc[r] = "success" => \E c \in applied : c.by = r

(* What who is told of a success can rely on: his change was read back and  *)
(* its restart was answered, and if no shell has opened the file since the  *)
(* change, rspamd runs it.  Nothing keeps others from the file between the  *)
(* two (rspamd.go:98, 102): a shell that opens it then empties it, and the  *)
(* restart loads that, so success does not say that the change was loaded.  *)
AppliedStaysLoaded == SuccessMeansApplied /\ AppliedIsLoaded

(* Wherever the silence cuts the stream, the demultiplexer gives back, kind *)
(* by kind, just the payload that has arrived: no byte of a header, no byte *)
(* of another stream, and of a clipped frame what there is (demux.go:22-57; *)
(* demux.go:20-21 - "everything read up to that point is kept").            *)
StreamIsKept ==
    \A r \in Request :
        /\ DemuxStdout(Got(r)) = Arrived(frames[r], read[r], {Stdout})
        /\ DemuxStderr(Got(r)) = Arrived(frames[r], read[r], {Stderr})
        /\ DemuxCombined(Got(r)) = Arrived(frames[r], read[r], {Stdout, Stderr})
============================================================================
