---------------------------- MODULE AttachStream ---------------------------
(***************************************************************************)
(* The stream of an exec without a terminal, as the Docker daemon frames   *)
(* it and as internal/dockerclient/demux.go takes it apart.                *)
(*                                                                         *)
(* A stream is a sequence of numbers.  The header, eight bytes in the code *)
(* of which the first and the last four mean something, is two numbers     *)
(* here: the kind of the frame and the length of its payload.              *)
(***************************************************************************)
EXTENDS Naturals, SequencesExt

Stdin  == 0
Stdout == 1
Stderr == 2

HeaderLen == 2

Frame(kind, payload) == [kind |-> kind, payload |-> payload]

\* What the daemon sends for a sequence of frames.
Encode(frames) ==
    FlattenSeq([i \in DOMAIN frames |->
        <<frames[i].kind, Len(frames[i].payload)>> \o frames[i].payload])

\* Variant: a frame that is not complete is dropped.
FramesWhole(data) ==
    LET from[i \in 1 .. Len(data) + 1] ==
            LET first == i + HeaderLen
                last  == first + data[i + 1] - 1
            IN  IF \/ Len(data) + 1 - i < HeaderLen
                   \/ data[i] \notin {Stdin, Stdout, Stderr}
                   \/ last > Len(data)
                THEN <<>>
                ELSE <<Frame(data[i], SubSeq(data, first, last))>> \o from[last + 1]
    IN  from[1]

\* The loop of demux and demuxCombined: a header that is cut or not plausible
\* ends it, of a frame that is cut the rest is taken.
Frames(data) ==
    LET from[i \in 1 .. Len(data) + 1] ==
            LET first == i + HeaderLen
                last  == Min({first + data[i + 1] - 1, Len(data)})
            IN  IF \/ Len(data) + 1 - i < HeaderLen
                   \/ data[i] \notin {Stdin, Stdout, Stderr}
                THEN <<>>
                ELSE <<Frame(data[i], SubSeq(data, first, last))>> \o from[last + 1]
    IN  from[1]

Payloads(frames, kinds) ==
    FlattenSeq([i \in DOMAIN frames |->
        IF frames[i].kind \in kinds THEN frames[i].payload ELSE <<>>])

\* stdin frames are never sent; they count as stdout.
DemuxStdout(data) == Payloads(Frames(data), {Stdin, Stdout})
DemuxStderr(data) == Payloads(Frames(data), {Stderr})

DemuxCombined(data) == Payloads(Frames(data), {Stdin, Stdout, Stderr})

-----------------------------------------------------------------------------
\* The payloads of some kinds as far as they are among the first n numbers of
\* the stream: byte k of a frame comes after what is before the frame, and
\* after the frame's header.
Clipped(frames, i, n) ==
    LET place(k) == Len(Encode(SubSeq(frames, 1, i - 1))) + HeaderLen + k
    IN  [k \in {h \in DOMAIN frames[i].payload : place(h) <= n} |->
            frames[i].payload[k]]

Arrived(frames, n, kinds) ==
    FlattenSeq([i \in DOMAIN frames |->
        IF frames[i].kind \in kinds THEN Clipped(frames, i, n) ELSE <<>>])
============================================================================
