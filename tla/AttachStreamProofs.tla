------------------------- MODULE AttachStreamProofs ------------------------
(***************************************************************************)
(* For every sequence of frames, every place at which the stream is cut    *)
(* and every choice of kinds: the reader gives back what has arrived.      *)
(*                                                                         *)
(* The argument.  The definitions recur over data: a flattened sequence    *)
(* over its parts, the reader over the places of the stream.  Each is the  *)
(* choice of a function that satisfies an equation; such a function        *)
(* exists, and its values are the only ones, by induction on a number,     *)
(* which is the induction of SetInduction.  The encoder's concatenations   *)
(* e[0], e[1], ... then say where every frame begins: after i frames the   *)
(* reader stands at Len(e[i]) + 1, and takes what has arrived of the next. *)
(***************************************************************************)
EXTENDS AttachStream, SequenceTheorems, WellFoundedInduction, TLAPS

\* Induction: a set with 0 and, with a number, the next one, has all numbers.
\* The smallest of the missing ones would have a predecessor that is missing.
LEMMA SetInduction ==
    ASSUME NEW S, 0 \in S, \A n \in Nat : n \in S => n + 1 \in S
    PROVE  Nat \subseteq S
<1> DEFINE R == OpToRel(<, Nat)
           T == Nat \ S
<1>1. SUFFICES ASSUME T # {} PROVE FALSE
    OBVIOUS
<1>2. IsWellFoundedOn(R, Nat)
    BY NatLessThanWellFounded
<1>3. T \subseteq Nat
    OBVIOUS
<1> HIDE DEF T, R
<1>4. PICK x \in T : \A y \in T : ~ (<<y, x>> \in R)
    BY <1>1, <1>2, <1>3, WFMin
<1>5. \A y \in T : ~(y < x)
    BY <1>4, <1>3 DEF R, OpToRel
<1>6. x \in Nat /\ x # 0
    BY <1>3 DEF T
<1>7. x - 1 \in Nat /\ x - 1 < x /\ x = (x - 1) + 1
    BY <1>6
<1>8. x - 1 \in S
    BY <1>5, <1>7 DEF T
<1> QED
    BY <1>8, <1>7 DEF T

\* f gives the concatenations of the first 0, 1, ... k sequences of s.
Flattens(f, s, S, k) ==
    /\ f \in [0 .. k -> Seq(S)]
    /\ f[0] = <<>>
    /\ \A i \in 1 .. k : f[i] = f[i - 1] \o s[i]

\* There are such concatenations.
LEMMA FlattensExists ==
    ASSUME NEW S, NEW s \in Seq(Seq(S))
    PROVE  \E f : Flattens(f, s, S, Len(s))
<1> DEFINE T == {k \in Nat : k <= Len(s) => \E f : Flattens(f, s, S, k)}
<1>0. Len(s) \in Nat /\ \A i \in 1 .. Len(s) : s[i] \in Seq(S)
    BY ElementOfSeq, LenProperties
<1>1. 0 \in T
  <2>1. Flattens([i \in 0 .. 0 |-> <<>>], s, S, 0)
      BY EmptySeq DEF Flattens
  <2> QED BY <2>1
<1>2. ASSUME NEW k \in Nat, k \in T PROVE k + 1 \in T
  <2>1. SUFFICES ASSUME k + 1 <= Len(s) PROVE \E f : Flattens(f, s, S, k + 1)
      BY DEF T
  <2>2. k <= Len(s)
      BY <1>0, <2>1
  <2>3. PICK f : Flattens(f, s, S, k)
      BY <1>2, <2>2
  <2> DEFINE g == [i \in 0 .. k + 1 |-> IF i = k + 1 THEN f[k] \o s[k + 1] ELSE f[i]]
  <2>4. f[k] \in Seq(S) /\ s[k + 1] \in Seq(S)
      BY <1>0, <2>1, <2>3 DEF Flattens
  <2>5. f[k] \o s[k + 1] \in Seq(S)
      BY <2>4, ConcatProperties
  <2>6. g \in [0 .. k + 1 -> Seq(S)]
      BY <2>3, <2>5 DEF Flattens
  <2>7. g[0] = <<>>
      BY <2>3 DEF Flattens
  <2>8. ASSUME NEW i \in 1 .. k + 1 PROVE g[i] = g[i - 1] \o s[i]
    <3>1. CASE i = k + 1
      <4>0. k + 1 \in 0 .. k + 1
          OBVIOUS
      <4>1. g[k + 1] = f[k] \o s[k + 1]
          BY ONLY <4>0 DEF g
      <4>2. g[k] = f[k]
          OBVIOUS
      <4>3. i - 1 = k
          BY <3>1
      <4> HIDE DEF g
      <4> QED BY <3>1, <4>1, <4>2, <4>3
    <3>2. CASE i # k + 1
      <4>1. i \in 1 .. k /\ i - 1 \in 0 .. k + 1 /\ i - 1 # k + 1
          BY <3>2
      <4>2. g[i] = f[i] /\ g[i - 1] = f[i - 1]
          BY <3>2, <4>1
      <4> QED BY <2>3, <4>1, <4>2 DEF Flattens
    <3> QED BY <3>1, <3>2
  <2> HIDE DEF g
  <2>9. Flattens(g, s, S, k + 1)
      BY <2>6, <2>7, <2>8 DEF Flattens
  <2> QED BY <2>9
<1> HIDE DEF T
<1>3. Nat \subseteq T
    BY <1>1, <1>2, SetInduction
<1>4. Len(s) \in T /\ Len(s) <= Len(s)
    BY <1>0, <1>3
<1> QED BY <1>4 DEF T

\* As long as the parts are the same, the concatenations are.
LEMMA FlattensUnique ==
    ASSUME NEW S, NEW s \in Seq(Seq(S)), NEW t \in Seq(Seq(S)), NEW k \in Nat,
           NEW m \in Nat, NEW n \in Nat, k <= m, k <= n,
           NEW f, Flattens(f, s, S, m), NEW g, Flattens(g, t, S, n),
           \A i \in 1 .. k : s[i] = t[i]
    PROVE  f[k] = g[k]
<1> DEFINE T == {i \in Nat : i <= k => f[i] = g[i]}
<1>1. 0 \in T
    BY DEF Flattens
<1>2. ASSUME NEW i \in Nat, i \in T PROVE i + 1 \in T
  <2>1. SUFFICES ASSUME i + 1 <= k PROVE f[i + 1] = g[i + 1]
      OBVIOUS
  <2>2. i + 1 \in 1 .. m /\ i + 1 \in 1 .. n /\ i + 1 \in 1 .. k /\ (i + 1) - 1 = i
      BY <2>1
  <2>3. f[i] = g[i]
      BY <1>2, <2>1
  <2>4. f[i + 1] = f[i] \o s[i + 1] /\ g[i + 1] = g[i] \o t[i + 1]
      BY <2>2 DEF Flattens
  <2> QED BY <2>2, <2>3, <2>4
<1> HIDE DEF T
<1>3. k \in T
    BY <1>1, <1>2, SetInduction
<1> QED BY <1>3 DEF T

\* FlattenSeq is the last of the concatenations.
LEMMA FlattenIsLast ==
    ASSUME NEW S, NEW s \in Seq(Seq(S)), NEW f, Flattens(f, s, S, Len(s))
    PROVE  FlattenSeq(s) = f[Len(s)]
<1>0. Len(s) \in Nat /\ \A i \in 1 .. Len(s) : s[i] \in Seq(S)
    BY ElementOfSeq, LenProperties
<1>1. CASE Len(s) = 0
  <2>1. s = <<>> /\ FlattenSeq(s) = s
      BY <1>1, EmptySeq DEF FlattenSeq
  <2> QED BY <1>1, <2>1 DEF Flattens
<1>2. CASE Len(s) # 0
  <2> DEFINE Eq(h) == h = [i \in 1 .. Len(s) |-> IF i = 1 THEN s[i] ELSE h[i - 1] \o s[i]]
             h0 == [i \in 1 .. Len(s) |-> f[i]]
  <2>1. FlattenSeq(s) = (CHOOSE h : Eq(h))[Len(s)]
      BY <1>2 DEF FlattenSeq
  <2>2. Eq(h0)
    <3>1. ASSUME NEW i \in 1 .. Len(s)
          PROVE  h0[i] = IF i = 1 THEN s[i] ELSE h0[i - 1] \o s[i]
      <4>1. f[i] = f[i - 1] \o s[i]
          BY DEF Flattens
      <4>2. CASE i = 1
        <5>1. f[0] = <<>> /\ s[i] \in Seq(S)
            BY <1>0 DEF Flattens
        <5>2. <<>> \o s[i] = s[i]
            BY <5>1, ConcatEmptySeq
        <5>3. i - 1 = 0 /\ h0[i] = f[i]
            BY <4>2
        <5>4. h0[i] = s[i]
            BY <4>1, <5>1, <5>2, <5>3
        <5> QED BY <4>2, <5>4
      <4>3. CASE i # 1
        <5>1. i - 1 \in 1 .. Len(s)
            BY <1>0, <4>3
        <5> QED BY <4>1, <4>3, <5>1
      <4> QED BY <4>2, <4>3
    <3> QED BY <3>1
  <2>3. ASSUME NEW h, Eq(h) PROVE h = h0
    <3> DEFINE T == {i \in Nat : i + 1 <= Len(s) => h[i + 1] = h0[i + 1]}
    <3>1. \A i \in 1 .. Len(s) : h[i] = IF i = 1 THEN s[i] ELSE h[i - 1] \o s[i]
        BY <2>3
    <3>2. \A i \in 1 .. Len(s) : h0[i] = IF i = 1 THEN s[i] ELSE h0[i - 1] \o s[i]
        BY <2>2
    <3> HIDE DEF h0
    <3>3. 0 \in T
        BY <1>0, <1>2, <3>1, <3>2
    <3>4. ASSUME NEW i \in Nat, i \in T PROVE i + 1 \in T
      <4>1. SUFFICES ASSUME (i + 1) + 1 <= Len(s) PROVE h[(i + 1) + 1] = h0[(i + 1) + 1]
          OBVIOUS
      <4>2. h[i + 1] = h0[i + 1] /\ (i + 1) + 1 \in 1 .. Len(s) /\ (i + 1) + 1 # 1
            /\ ((i + 1) + 1) - 1 = i + 1
          BY <1>0, <3>4, <4>1
      <4> QED BY <3>1, <3>2, <4>2
    <3> HIDE DEF T
    <3>5. Nat \subseteq T
        BY <3>3, <3>4, SetInduction
    <3>6. ASSUME NEW i \in 1 .. Len(s) PROVE h[i] = h0[i]
      <4>1. i - 1 \in T /\ (i - 1) + 1 = i
          BY <1>0, <3>5
      <4> QED BY <1>0, <4>1 DEF T
    <3> QED BY <2>3, <3>6 DEF h0
  <2>4. (CHOOSE h : Eq(h)) = h0
    <3> HIDE DEF Eq, h0
    <3> QED BY <2>2, <2>3
  <2>5. Len(s) \in 1 .. Len(s)
      BY <1>0, <1>2
  <2> QED BY <2>1, <2>4, <2>5
<1> QED BY <1>1, <1>2

-----------------------------------------------------------------------------
\* What the reader makes: frames that may be clipped.
Pieces == [kind : Nat, payload : Seq(Nat)]

\* The last place of the frame that begins at place i, whether the reader ends
\* there instead, and the frame, as in Frames.
LastOf(data, i) == Min({i + HeaderLen + data[i + 1] - 1, Len(data)})
Ends(data, i) == \/ Len(data) + 1 - i < HeaderLen
                 \/ data[i] \notin {Stdin, Stdout, Stderr}
FrameAt(data, i) == Frame(data[i], SubSeq(data, i + HeaderLen, LastOf(data, i)))

\* from gives, for each place from m on, the frames that begin there.
ReadsFrom(from, data, m) ==
    /\ from \in [m .. Len(data) + 1 -> Seq(Pieces)]
    /\ \A i \in m .. Len(data) + 1 :
          from[i] = IF Ends(data, i) THEN <<>>
                    ELSE <<FrameAt(data, i)>> \o from[LastOf(data, i) + 1]

\* The reader gets on: a frame ends after the place where it begins.
LEMMA NextIsLater ==
    ASSUME NEW data \in Seq(Nat), NEW i \in 1 .. Len(data) + 1, ~Ends(data, i)
    PROVE  /\ i + 1 \in 1 .. Len(data) /\ data[i] \in Nat /\ data[i + 1] \in Nat
           /\ LastOf(data, i) \in i + 1 .. Len(data)
           /\ LastOf(data, i) = IF i + 1 + data[i + 1] <= Len(data)
                                THEN i + 1 + data[i + 1] ELSE Len(data)
           /\ FrameAt(data, i) \in Pieces
<1>1. Len(data) \in Nat /\ i + 1 \in 1 .. Len(data) /\ i \in 1 .. Len(data)
    BY LenProperties DEF Ends, HeaderLen
<1>2. data[i] \in Nat /\ data[i + 1] \in Nat
    BY <1>1, ElementOfSeq
<1>3. LastOf(data, i) = IF i + 1 + data[i + 1] <= Len(data)
                        THEN i + 1 + data[i + 1] ELSE Len(data)
  <2> DEFINE d == data[i + 1]
             a == i + HeaderLen + d - 1
             b == Len(data)
  <2>0. d \in Nat /\ i \in Nat /\ b \in Nat
      BY <1>1, <1>2
  <2> HIDE DEF d, b
  <2>1. a = i + 1 + d /\ a \in Nat /\ b \in Nat
      BY <2>0 DEF HeaderLen
  <2>2. Min({a, b}) = IF a <= b THEN a ELSE b
    <3> HIDE DEF a, b
    <3> QED BY <2>1 DEF Min
  <2> QED BY <2>1, <2>2 DEF LastOf, b, d
<1>4. LastOf(data, i) \in i + 1 .. Len(data)
    BY <1>1, <1>2, <1>3
<1>5. SubSeq(data, i + HeaderLen, LastOf(data, i)) \in Seq(Nat)
  <2>1. CASE i + HeaderLen <= LastOf(data, i)
    <3>1. i + HeaderLen \in 1 .. Len(data) /\ LastOf(data, i) \in 1 .. Len(data)
        BY <1>1, <1>4, <2>1 DEF HeaderLen
    <3> QED BY <3>1, <1>1, SubSeqProperties
  <2>2. CASE ~(i + HeaderLen <= LastOf(data, i))
    <3>1. i + HeaderLen \in Int /\ LastOf(data, i) \in Int
        BY <1>1, <1>4 DEF HeaderLen
    <3>2. SubSeq(data, i + HeaderLen, LastOf(data, i)) = <<>>
        BY <3>1, <2>2, SubSeqEmpty
    <3> QED BY <3>2, EmptySeq
  <2> QED BY <2>1, <2>2
<1>6. FrameAt(data, i) \in Pieces
    BY <1>2, <1>5 DEF FrameAt, Frame, Pieces
<1> QED BY <1>1, <1>2, <1>3, <1>4, <1>6

\* There is such a function: it is built from the end of the stream.
LEMMA ReadsFromExists ==
    ASSUME NEW data \in Seq(Nat)
    PROVE  \E from : ReadsFrom(from, data, 1)
<1> DEFINE n == Len(data)
           T == {k \in Nat : k <= n => \E from : ReadsFrom(from, data, n + 1 - k)}
<1>0. n \in Nat
    BY LenProperties
<1> HIDE DEF n
<1>1. 0 \in T
  <2> DEFINE f == [i \in n + 1 .. n + 1 |-> <<>>]
  <2>1. f \in [n + 1 .. n + 1 -> Seq(Pieces)]
      BY EmptySeq
  <2>2. \A i \in n + 1 .. n + 1 : Ends(data, i) /\ f[i] = <<>>
      BY <1>0 DEF Ends, HeaderLen, n
  <2> HIDE DEF f
  <2>3. ReadsFrom(f, data, n + 1)
      BY <2>1, <2>2 DEF ReadsFrom, n
  <2>4. n + 1 - 0 = n + 1
      BY <1>0
  <2> QED BY <2>3, <2>4
<1>2. ASSUME NEW k \in Nat, k \in T PROVE k + 1 \in T
  <2>1. SUFFICES ASSUME k + 1 <= n PROVE \E from : ReadsFrom(from, data, n + 1 - (k + 1))
      BY DEF T
  <2>2. k <= n
      BY <1>0, <2>1
  <2>3. PICK f : ReadsFrom(f, data, n + 1 - k)
      BY <1>2, <2>2
  <2> DEFINE j == n - k
             new == IF Ends(data, j) THEN <<>>
                    ELSE <<FrameAt(data, j)>> \o f[LastOf(data, j) + 1]
             g == [i \in j .. n + 1 |-> IF i = j THEN new ELSE f[i]]
  <2>4. j \in 1 .. n /\ n + 1 - k = j + 1 /\ n + 1 - (k + 1) = j
      BY <1>0, <2>1
  <2>5. f \in [j + 1 .. n + 1 -> Seq(Pieces)]
      BY <2>3, <2>4 DEF ReadsFrom, n
  <2> HIDE DEF j
  <2>6. new \in Seq(Pieces)
    <3>1. CASE Ends(data, j)
        BY <3>1, EmptySeq
    <3>2. CASE ~Ends(data, j)
      <4>1. LastOf(data, j) \in j + 1 .. n /\ FrameAt(data, j) \in Pieces
          BY <1>0, <2>4, <3>2, NextIsLater DEF n
      <4>2. f[LastOf(data, j) + 1] \in Seq(Pieces)
        <5>1. LastOf(data, j) + 1 \in j + 1 .. n + 1
            BY <1>0, <2>4, <4>1
        <5> QED BY <5>1, <2>5
      <4>3. <<FrameAt(data, j)>> \in Seq(Pieces)
          BY <4>1
      <4> QED BY <3>2, <4>2, <4>3, ConcatProperties
    <3> QED BY <3>1, <3>2
  <2> HIDE DEF new
  <2>7. g \in [j .. n + 1 -> Seq(Pieces)]
      BY <1>0, <2>4, <2>5, <2>6
  <2>8. ASSUME NEW i \in j .. n + 1
        PROVE  g[i] = IF Ends(data, i) THEN <<>>
                      ELSE <<FrameAt(data, i)>> \o g[LastOf(data, i) + 1]
    <3>1. ~Ends(data, i) => LastOf(data, i) + 1 \in j + 1 .. n + 1
      <4>1. SUFFICES ASSUME ~Ends(data, i) PROVE LastOf(data, i) + 1 \in j + 1 .. n + 1
          OBVIOUS
      <4>2. i \in 1 .. n + 1
          BY <1>0, <2>4
      <4>3. LastOf(data, i) \in i + 1 .. n
          BY <4>1, <4>2, NextIsLater DEF n
      <4> QED BY <1>0, <2>4, <4>2, <4>3
    <3>2. ~Ends(data, i) => g[LastOf(data, i) + 1] = f[LastOf(data, i) + 1]
        BY <1>0, <2>4, <3>1
    <3>3. CASE i = j
        BY <3>2, <3>3, <1>0, <2>4 DEF new
    <3>4. CASE i # j
      <4>1. i \in j + 1 .. n + 1 /\ g[i] = f[i]
          BY <1>0, <2>4, <3>4
      <4>2. f[i] = IF Ends(data, i) THEN <<>>
                   ELSE <<FrameAt(data, i)>> \o f[LastOf(data, i) + 1]
          BY <2>3, <2>4, <4>1 DEF ReadsFrom, n
      <4> HIDE DEF g
      <4> QED BY <3>2, <4>1, <4>2
    <3> QED BY <3>3, <3>4
  <2> HIDE DEF g
  <2>9. ReadsFrom(g, data, j)
      BY <2>7, <2>8 DEF ReadsFrom, n
  <2> QED BY <2>4, <2>9
<1> HIDE DEF T
<1>3. Nat \subseteq T
    BY <1>1, <1>2, SetInduction
<1>4. n \in T /\ n <= n /\ n + 1 - n = 1
    BY <1>0, <1>3
<1> QED BY <1>4 DEF T

\* Frames is its value at the first place: below every place there is one only.
LEMMA FramesIsFirst ==
    ASSUME NEW data \in Seq(Nat), NEW from, ReadsFrom(from, data, 1)
    PROVE  Frames(data) = from[1] /\ Frames(data) \in Seq(Pieces)
<1> DEFINE n == Len(data)
           Eq(h) == h = [i \in 1 .. n + 1 |->
                            IF Ends(data, i) THEN <<>>
                            ELSE <<FrameAt(data, i)>> \o h[LastOf(data, i) + 1]]
           h1 == CHOOSE h : Eq(h)
           T == {k \in Nat : \A i \in 1 .. n + 1 : i + k >= n + 1 => h1[i] = from[i]}
<1>0. n \in Nat
    BY LenProperties
<1>1. Frames(data) = h1[1]
    BY DEF Frames, Ends, FrameAt, LastOf
<1>2. Eq(from)
    BY DEF ReadsFrom
<1>3. Eq(h1)
  <2> HIDE DEF Eq
  <2> QED BY <1>2
<1> HIDE DEF h1
<1>4. \A i \in 1 .. n + 1 :
          h1[i] = IF Ends(data, i) THEN <<>>
                  ELSE <<FrameAt(data, i)>> \o h1[LastOf(data, i) + 1]
    BY <1>3
<1>5. \A i \in 1 .. n + 1 :
          from[i] = IF Ends(data, i) THEN <<>>
                    ELSE <<FrameAt(data, i)>> \o from[LastOf(data, i) + 1]
    BY DEF ReadsFrom
<1>6. \A i \in 1 .. n + 1 : ~Ends(data, i) => LastOf(data, i) \in i + 1 .. n
    BY NextIsLater
<1> HIDE DEF Eq, n
<1>7. 0 \in T
  <2>1. SUFFICES ASSUME NEW i \in 1 .. n + 1, i + 0 >= n + 1 PROVE h1[i] = from[i]
      BY DEF T
  <2>2. i = n + 1
      BY <1>0, <2>1
  <2>3. Ends(data, i)
      BY <1>0, <1>6, <2>2
  <2> QED BY <1>4, <1>5, <2>3
<1>8. ASSUME NEW k \in Nat, k \in T PROVE k + 1 \in T
  <2>1. ASSUME NEW i \in 1 .. n + 1, i + (k + 1) >= n + 1, ~Ends(data, i)
        PROVE  h1[i] = from[i]
    <3> DEFINE l == LastOf(data, i)
    <3>1. l \in i + 1 .. n
        BY <1>6, <2>1
    <3> HIDE DEF l
    <3>2. l + 1 \in 1 .. n + 1 /\ (l + 1) + k >= n + 1
        BY <1>0, <3>1, <2>1
    <3>3. h1[l + 1] = from[l + 1]
        BY <1>8, <3>2
    <3> QED BY <1>4, <1>5, <2>1, <3>3 DEF l
  <2>2. ASSUME NEW i \in 1 .. n + 1, Ends(data, i)
        PROVE  h1[i] = from[i]
      BY <1>4, <1>5, <2>2
  <2> QED BY <2>1, <2>2
<1> HIDE DEF T
<1>9. n \in T
    BY <1>0, <1>7, <1>8, SetInduction
<1>10. h1[1] = from[1]
    BY <1>0, <1>9 DEF T
<1>11. from[1] \in Seq(Pieces)
    BY <1>0 DEF ReadsFrom, n
<1> QED BY <1>1, <1>10, <1>11

-----------------------------------------------------------------------------
\* What the daemon sends, and how it encodes each frame, as in Encode.
Packet == [kind : {Stdin, Stdout, Stderr}, payload : Seq(Nat)]

Wire(frames) == [i \in DOMAIN frames |->
                    <<frames[i].kind, Len(frames[i].payload)>> \o frames[i].payload]

\* A frame on the wire is its kind, the length of its payload and the payload.
LEMMA WireType ==
    ASSUME NEW frames \in Seq(Packet)
    PROVE  /\ Wire(frames) \in Seq(Seq(Nat)) /\ Len(Wire(frames)) = Len(frames)
           /\ Len(frames) \in Nat
           /\ \A i \in 1 .. Len(frames) :
                 LET f == frames[i] IN
                 /\ f \in Packet /\ f.payload \in Seq(Nat) /\ Len(f.payload) \in Nat
                 /\ Wire(frames)[i] \in Seq(Nat)
                 /\ Len(Wire(frames)[i]) = HeaderLen + Len(f.payload)
                 /\ Wire(frames)[i][1] = f.kind
                 /\ Wire(frames)[i][2] = Len(f.payload)
                 /\ \A k \in 1 .. Len(f.payload) : Wire(frames)[i][HeaderLen + k] = f.payload[k]
<1>1. Len(frames) \in Nat /\ DOMAIN frames = 1 .. Len(frames)
    BY LenProperties
<1>2. ASSUME NEW i \in 1 .. Len(frames)
      PROVE  /\ frames[i] \in Packet /\ frames[i].payload \in Seq(Nat)
             /\ Len(frames[i].payload) \in Nat /\ frames[i].kind \in Nat
  <2>1. frames[i] \in Packet
      BY <1>1, ElementOfSeq
  <2>2. frames[i].payload \in Seq(Nat) /\ frames[i].kind \in Nat
      BY <2>1 DEF Packet, Stdin, Stdout, Stderr
  <2> QED BY <2>1, <2>2, LenProperties
<1>3. ASSUME NEW i \in 1 .. Len(frames)
      PROVE  LET f == frames[i] w == Wire(frames)[i] IN
             /\ w \in Seq(Nat)
             /\ Len(w) = HeaderLen + Len(f.payload)
             /\ w[1] = f.kind /\ w[2] = Len(f.payload)
             /\ \A k \in 1 .. Len(f.payload) : w[HeaderLen + k] = f.payload[k]
  <2> DEFINE h == <<frames[i].kind, Len(frames[i].payload)>>
             p == frames[i].payload
  <2>1. h \in Seq(Nat) /\ Len(h) = 2 /\ h[1] = frames[i].kind /\ h[2] = Len(p)
      BY <1>2
  <2>2. p \in Seq(Nat) /\ Len(p) \in Nat
      BY <1>2
  <2>3. Wire(frames)[i] = h \o p
      BY <1>1 DEF Wire
  <2> HIDE DEF h, p
  <2>4. /\ h \o p \in Seq(Nat) /\ Len(h \o p) = Len(h) + Len(p)
        /\ \A k \in 1 .. Len(h) + Len(p) :
              (h \o p)[k] = IF k <= Len(h) THEN h[k] ELSE p[k - Len(h)]
      BY <2>1, <2>2, ConcatProperties
  <2>5. (h \o p)[1] = h[1] /\ (h \o p)[2] = h[2]
      BY <2>1, <2>2, <2>4
  <2>6. ASSUME NEW k \in 1 .. Len(p) PROVE (h \o p)[2 + k] = p[k]
    <3>1. /\ 2 + k \in 1 .. Len(h) + Len(p) /\ ~(2 + k <= Len(h))
          /\ (2 + k) - Len(h) = k
        BY <2>1, <2>2
    <3> QED BY <2>4, <3>1
  <2> QED BY <2>1, <2>3, <2>4, <2>5, <2>6 DEF p, HeaderLen
<1>4. Wire(frames) \in [1 .. Len(frames) -> Seq(Nat)]
    BY <1>1, <1>3 DEF Wire
<1>5. Wire(frames) \in Seq(Seq(Nat)) /\ Len(Wire(frames)) = Len(frames)
  <2> HIDE DEF Wire
  <2> QED BY <1>1, <1>4
<1> QED BY <1>1, <1>2, <1>3, <1>5

\* What is encoded of the first i frames is at the beginning of what is
\* encoded of more of them.
LEMMA FlattensGrows ==
    ASSUME NEW s \in Seq(Seq(Nat)), NEW f, Flattens(f, s, Nat, Len(s)),
           NEW i \in 0 .. Len(s), NEW j \in i .. Len(s)
    PROVE  /\ Len(f[i]) \in Nat /\ Len(f[j]) \in Nat /\ Len(f[i]) <= Len(f[j])
           /\ \A k \in 1 .. Len(f[i]) : f[j][k] = f[i][k]
<1>0. Len(s) \in Nat /\ \A l \in 1 .. Len(s) : s[l] \in Seq(Nat)
    BY ElementOfSeq, LenProperties
<1> DEFINE G(k) == i + k <= Len(s) =>
                      /\ Len(f[i]) <= Len(f[i + k])
                      /\ \A l \in 1 .. Len(f[i]) : f[i + k][l] = f[i][l]
           T == {k \in Nat : G(k)}
<1>1. \A l \in 0 .. Len(s) : f[l] \in Seq(Nat) /\ Len(f[l]) \in Nat
    BY LenProperties DEF Flattens
<1>2. G(0)
    BY <1>0, <1>1
<1>3. ASSUME NEW k \in Nat, G(k) PROVE G(k + 1)
  <2>1. SUFFICES ASSUME i + (k + 1) <= Len(s)
                 PROVE  /\ Len(f[i]) <= Len(f[i + (k + 1)])
                        /\ \A l \in 1 .. Len(f[i]) : f[i + (k + 1)][l] = f[i][l]
      OBVIOUS
  <2>2. /\ i + (k + 1) \in 1 .. Len(s) /\ (i + (k + 1)) - 1 = i + k /\ i + k \in 0 .. Len(s)
      BY <1>0, <2>1
  <2>3. f[i + (k + 1)] = f[i + k] \o s[i + (k + 1)]
      BY <2>2 DEF Flattens
  <2>4. /\ Len(f[i]) <= Len(f[i + k])
        /\ \A l \in 1 .. Len(f[i]) : f[i + k][l] = f[i][l]
      BY <1>0, <1>3, <2>1
  <2> DEFINE a == f[i + k]
             b == s[i + (k + 1)]
  <2>5. a \in Seq(Nat) /\ b \in Seq(Nat) /\ Len(a) \in Nat /\ Len(b) \in Nat
      BY <1>0, <1>1, <2>2, LenProperties
  <2>6. Len(f[i]) \in Nat
      BY <1>1
  <2> HIDE DEF a, b
  <2>7. Len(a \o b) = Len(a) + Len(b) /\ \A l \in 1 .. Len(a) : (a \o b)[l] = a[l]
      BY <2>5
  <2>8. f[i + (k + 1)] = a \o b /\ Len(f[i]) <= Len(a) /\ \A l \in 1 .. Len(f[i]) : a[l] = f[i][l]
      BY <2>3, <2>4 DEF a, b
  <2>9. Len(f[i]) <= Len(a \o b)
      BY <2>5, <2>6, <2>7, <2>8
  <2>10. ASSUME NEW l \in 1 .. Len(f[i]) PROVE (a \o b)[l] = f[i][l]
    <3>1. l \in 1 .. Len(a)
        BY <2>5, <2>6, <2>8
    <3> QED BY <3>1, <2>7, <2>8
  <2> QED BY <2>8, <2>9, <2>10
<1> HIDE DEF G
<1>4. j - i \in Nat /\ G(j - i)
  <2>1. j - i \in Nat
      BY <1>0
  <2>2. 0 \in T /\ \A k \in Nat : k \in T => k + 1 \in T
      BY <1>2, <1>3
  <2> HIDE DEF T
  <2>3. j - i \in T
      BY <2>1, <2>2, SetInduction
  <2> QED BY <2>1, <2>3 DEF T
<1>5. i + (j - i) = j /\ i \in 0 .. Len(s) /\ j \in 0 .. Len(s)
    BY <1>0
<1> QED BY <1>0, <1>1, <1>4, <1>5 DEF G

-----------------------------------------------------------------------------
\* The part of payload p that is among the first n numbers when its frame
\* begins after o of them.
Part(p, o, n) == [k \in {h \in DOMAIN p : o + HeaderLen + h <= n} |-> p[k]]

PartLen(p, o, n) == IF o + HeaderLen + Len(p) <= n THEN Len(p)
                    ELSE IF o + HeaderLen <= n THEN n - (o + HeaderLen) ELSE 0

\* The part is a beginning of the payload.
LEMMA PartType ==
    ASSUME NEW p \in Seq(Nat), NEW o \in Nat, NEW n \in Nat
    PROVE  /\ PartLen(p, o, n) \in 0 .. Len(p)
           /\ Part(p, o, n) \in Seq(Nat)
           /\ Len(Part(p, o, n)) = PartLen(p, o, n)
           /\ \A k \in 1 .. PartLen(p, o, n) : Part(p, o, n)[k] = p[k]
           /\ n < o + HeaderLen => Part(p, o, n) = <<>>
<1>1. Len(p) \in Nat /\ DOMAIN p = 1 .. Len(p) /\ \A k \in 1 .. Len(p) : p[k] \in Nat
    BY LenProperties, ElementOfSeq
<1>2. PartLen(p, o, n) \in 0 .. Len(p)
    BY <1>1 DEF PartLen, HeaderLen
<1>3. {h \in 1 .. Len(p) : o + HeaderLen + h <= n} = 1 .. PartLen(p, o, n)
  <2>1. ASSUME NEW h \in 1 .. Len(p)
        PROVE  o + HeaderLen + h <= n <=> h <= PartLen(p, o, n)
      BY <1>1 DEF PartLen, HeaderLen
  <2> QED BY <1>1, <1>2, <2>1
<1> DEFINE c == PartLen(p, o, n)
<1>4. Part(p, o, n) = [k \in 1 .. c |-> p[k]]
    BY <1>1, <1>3 DEF Part
<1> HIDE DEF c
<1>5. c \in Nat /\ \A k \in 1 .. c : p[k] \in Nat
    BY <1>1, <1>2 DEF c
<1>6. Part(p, o, n) \in [1 .. c -> Nat]
    BY <1>4, <1>5
<1>7. Part(p, o, n) \in Seq(Nat) /\ Len(Part(p, o, n)) = c
    BY <1>5, <1>6
<1>8. \A k \in 1 .. c : Part(p, o, n)[k] = p[k]
    BY <1>4
<1>9. n < o + HeaderLen => c = 0
    BY <1>1 DEF c, PartLen, HeaderLen
<1>10. n < o + HeaderLen => Part(p, o, n) = <<>>
    BY <1>7, <1>9, EmptySeq
<1> QED BY <1>2, <1>7, <1>8, <1>10 DEF c

\* The i-th frame as far as it has arrived.
Arriving(frames, e, n, i) ==
    Frame(frames[i].kind, Part(frames[i].payload, Len(e[i - 1]), n))

\* What the reader is given: the first n numbers of what was encoded.
Cut(data, frames, e, n) ==
    /\ data \in Seq(Nat) /\ Len(data) = n
    /\ n \in 0 .. Len(e[Len(frames)])
    /\ \A k \in 1 .. n : data[k] = e[Len(frames)][k]

\* The place after i frames, and what the reader finds there.
LEMMA FrameOfCut ==
    ASSUME NEW frames \in Seq(Packet), NEW e, Flattens(e, Wire(frames), Nat, Len(frames)),
           NEW n, NEW data, Cut(data, frames, e, n),
           NEW i \in 0 .. Len(frames) - 1, Len(e[i]) <= n
    PROVE  /\ Len(e[i]) \in Nat /\ n \in Nat /\ frames[i + 1].payload \in Seq(Nat)
           /\ Len(e[i + 1]) = Len(e[i]) + HeaderLen + Len(frames[i + 1].payload)
           /\ Ends(data, Len(e[i]) + 1) <=> n < Len(e[i]) + HeaderLen
           /\ ~Ends(data, Len(e[i]) + 1) =>
                 /\ LastOf(data, Len(e[i]) + 1) = IF Len(e[i + 1]) <= n THEN Len(e[i + 1]) ELSE n
                 /\ FrameAt(data, Len(e[i]) + 1) = Arriving(frames, e, n, i + 1)
<1> DEFINE m == Len(frames)
           o == Len(e[i])
           p == frames[i + 1].payload
           w == Wire(frames)[i + 1]
<1>1. /\ m \in Nat /\ i \in 0 .. m /\ i + 1 \in 1 .. m /\ (i + 1) - 1 = i
      /\ Wire(frames) \in Seq(Seq(Nat)) /\ Len(Wire(frames)) = m
    BY WireType
<1>2. /\ frames[i + 1] \in Packet /\ p \in Seq(Nat) /\ Len(p) \in Nat
      /\ w \in Seq(Nat) /\ Len(w) = HeaderLen + Len(p)
      /\ w[1] = frames[i + 1].kind /\ w[2] = Len(p)
      /\ \A k \in 1 .. Len(p) : w[HeaderLen + k] = p[k]
    BY <1>1, WireType
<1>3. e[i] \in Seq(Nat) /\ e[i + 1] = e[i] \o w /\ o \in Nat
    BY <1>1, LenProperties DEF Flattens
<1>4. /\ Len(e[m]) \in Nat /\ n \in Nat
      /\ data \in Seq(Nat) /\ Len(data) = n
      /\ \A k \in 1 .. n : data[k] = e[m][k]
    BY <1>1, LenProperties DEF Flattens, Cut
<1>0. o \in Nat /\ n \in Nat /\ Len(p) \in Nat /\ Len(w) = 2 + Len(p)
    BY <1>2, <1>3, <1>4 DEF HeaderLen
<1>5. /\ Len(e[i + 1]) = o + Len(w)
      /\ \A k \in 1 .. o + Len(w) :
            e[i + 1][k] = IF k <= o THEN e[i][k] ELSE w[k - o]
  <2> HIDE DEF w, o, p, m
  <2>0. e[i] \in Seq(Nat) /\ w \in Seq(Nat)
      BY <1>2, <1>3
  <2>1. /\ Len(e[i] \o w) = Len(e[i]) + Len(w)
        /\ \A k \in 1 .. Len(e[i]) + Len(w) :
              (e[i] \o w)[k] = IF k <= Len(e[i]) THEN e[i][k] ELSE w[k - Len(e[i])]
      BY <2>0, ConcatProperties
  <2> QED BY <1>3, <2>1 DEF o
<1>6. \A k \in 1 .. Len(e[i + 1]) : e[m][k] = e[i + 1][k]
  <2> DEFINE l == i + 1
             W == Wire(frames)
  <2>1. l \in 0 .. Len(W) /\ m \in l .. Len(W)
    <3> HIDE DEF m
    <3> QED BY <1>1
  <2>2. W \in Seq(Seq(Nat)) /\ Flattens(e, W, Nat, Len(W))
      BY <1>1
  <2> HIDE DEF m, o, p, w, l, W
  <2>3. \A k \in 1 .. Len(e[l]) : e[m][k] = e[l][k]
      BY ONLY <2>1, <2>2, FlattensGrows
  <2> QED BY <2>3 DEF l
<1>7. \A k \in 1 .. Len(w) : o + k <= n => data[o + k] = w[k]
  <2>1. SUFFICES ASSUME NEW k \in 1 .. Len(w), o + k <= n PROVE data[o + k] = w[k]
      OBVIOUS
  <2>2. o + k \in 1 .. n /\ o + k \in 1 .. o + Len(w) /\ ~(o + k <= o) /\ (o + k) - o = k
    <3> HIDE DEF o, w, p
    <3> QED BY <1>0, <2>1
  <2>3. data[o + k] = e[m][o + k]
      BY <1>4, <2>2
  <2>4. e[m][o + k] = e[i + 1][o + k]
      BY <1>5, <1>6, <2>2
  <2>5. e[i + 1][o + k] = w[k]
      BY <1>5, <2>2
  <2> QED BY <2>3, <2>4, <2>5
<1> HIDE DEF m, o, p, w
<1>8. n >= o + HeaderLen => data[o + 1] = frames[i + 1].kind /\ data[o + 2] = Len(p)
  <2>1. 1 \in 1 .. Len(w) /\ 2 \in 1 .. Len(w)
      BY <1>0
  <2>2. n >= o + HeaderLen => o + 1 <= n /\ o + 2 <= n
      BY <1>0 DEF HeaderLen
  <2> QED BY <1>2, <1>7, <2>1, <2>2
<1>9. frames[i + 1].kind \in {Stdin, Stdout, Stderr}
    BY <1>2 DEF Packet
<1>10. Ends(data, o + 1) <=> n < o + HeaderLen
  <2>1. Len(data) + 1 - (o + 1) < HeaderLen <=> n < o + HeaderLen
      BY <1>3, <1>4 DEF HeaderLen
  <2>2. n >= o + HeaderLen <=> ~(n < o + HeaderLen)
      BY <1>3, <1>4 DEF HeaderLen
  <2> QED BY <1>8, <1>9, <2>1, <2>2 DEF Ends
<1>11. ASSUME ~Ends(data, o + 1)
       PROVE  /\ LastOf(data, o + 1) = IF Len(e[i + 1]) <= n THEN Len(e[i + 1]) ELSE n
              /\ FrameAt(data, o + 1) = Frame(frames[i + 1].kind, Part(p, o, n))
  <2>1. n >= o + HeaderLen
      BY <1>3, <1>4, <1>10, <1>11 DEF HeaderLen
  <2>2. data[o + 1] = frames[i + 1].kind /\ data[(o + 1) + 1] = Len(p)
    <3>1. (o + 1) + 1 = o + 2
        BY <1>3
    <3> QED BY <1>8, <2>1, <3>1
  <2> DEFINE l == LastOf(data, o + 1)
  <2>3. o + 1 \in 1 .. Len(data) + 1
      BY <1>3, <1>4, <2>1 DEF HeaderLen
  <2>4. l = IF (o + 1) + 1 + Len(p) <= n THEN (o + 1) + 1 + Len(p) ELSE n
      BY <1>4, <1>11, <2>2, <2>3, NextIsLater
  <2>5. Len(e[i + 1]) = (o + 1) + 1 + Len(p)
      BY <1>2, <1>3, <1>5 DEF HeaderLen
  <2>6. l = IF Len(e[i + 1]) <= n THEN Len(e[i + 1]) ELSE n
      BY <2>4, <2>5
  <2>7. l = o + HeaderLen + PartLen(p, o, n)
    <3> HIDE DEF l
    <3>1. CASE o + HeaderLen + Len(p) <= n
        BY <1>0, <2>4, <3>1 DEF PartLen, HeaderLen
    <3>2. CASE ~(o + HeaderLen + Len(p) <= n)
      <4>1. PartLen(p, o, n) = n - (o + 2)
          BY <1>0, <2>1, <3>2 DEF PartLen, HeaderLen
      <4>2. l = n
          BY <1>0, <2>4, <3>2 DEF HeaderLen
      <4> QED BY <1>0, <4>1, <4>2 DEF HeaderLen
    <3> QED BY <3>1, <3>2
  <2>8. PartLen(p, o, n) \in 0 .. Len(p)
      BY <1>2, <1>0, PartType
  <2> HIDE DEF l
  <2> DEFINE s == SubSeq(data, (o + 1) + HeaderLen, l)
  <2>9. /\ s \in Seq(Nat) /\ Len(s) = PartLen(p, o, n)
        /\ \A k \in 1 .. PartLen(p, o, n) : s[k] = p[k]
    <3> DEFINE a == (o + 1) + HeaderLen
    <3>1. a \in Int /\ l \in Int /\ l - a + 1 = PartLen(p, o, n)
          /\ (a <= l <=> PartLen(p, o, n) > 0)
        BY <1>0, <2>7, <2>8 DEF HeaderLen
    <3>2. l <= n
        BY <1>0, <2>4
    <3>3. \A k \in a .. l : data[k] \in Nat
      <4>1. \A k \in a .. l : k \in 1 .. Len(data)
          BY <1>0, <1>4, <3>1, <3>2 DEF HeaderLen
      <4> QED BY <1>4, <4>1, ElementOfSeq
    <3>4. ASSUME NEW k \in 1 .. PartLen(p, o, n) PROVE data[a + k - 1] = p[k]
      <4>1. /\ a + k - 1 = o + (HeaderLen + k) /\ o + (HeaderLen + k) <= n
            /\ HeaderLen + k \in 1 .. Len(w) /\ k \in 1 .. Len(p)
          BY <1>0, <2>7, <2>8, <3>2 DEF HeaderLen
      <4>2. data[o + (HeaderLen + k)] = w[HeaderLen + k]
          BY <1>7, <4>1
      <4> QED BY <1>2, <4>1, <4>2
    <3> HIDE DEF a
    <3>5. /\ SubSeq(data, a, l) \in Seq(Nat)
          /\ Len(SubSeq(data, a, l)) = IF a <= l THEN l - a + 1 ELSE 0
          /\ \A k \in 1 .. l - a + 1 : SubSeq(data, a, l)[k] = data[a + k - 1]
        BY <3>1, <3>3, SubSeqProperties
    <3>6. Len(SubSeq(data, a, l)) = PartLen(p, o, n)
        BY <2>8, <3>1, <3>5
    <3> QED BY <3>1, <3>4, <3>5, <3>6 DEF a
  <2>10. /\ Part(p, o, n) \in Seq(Nat) /\ Len(Part(p, o, n)) = PartLen(p, o, n)
         /\ \A k \in 1 .. PartLen(p, o, n) : Part(p, o, n)[k] = p[k]
      BY <1>2, <1>0, PartType
  <2> HIDE DEF s
  <2>11. s = Part(p, o, n)
      BY <2>9, <2>10, SeqEqual
  <2> QED BY <2>2, <2>6, <2>11 DEF s, l, FrameAt
<1>12. Len(e[i + 1]) = o + HeaderLen + Len(p)
    BY <1>2, <1>3, <1>5 DEF HeaderLen
<1>13. Arriving(frames, e, n, i + 1) = Frame(frames[i + 1].kind, Part(p, o, n))
    BY <1>1 DEF Arriving, o, p
<1> QED BY <1>0, <1>2, <1>10, <1>11, <1>12, <1>13 DEF o, p

\* The reader has taken the first j frames as g, and goes on after l numbers.
Taken(g, from, frames, e, n, j, l) ==
    /\ g \in Seq(Pieces) /\ Len(g) = j
    /\ \A i \in 1 .. j : g[i] = Arriving(frames, e, n, i)
    /\ from[1] = g \o from[l + 1]

\* It is something the reader can make.
LEMMA ArrivingType ==
    ASSUME NEW frames \in Seq(Packet), NEW e, Flattens(e, Wire(frames), Nat, Len(frames)),
           NEW n \in Nat, NEW i \in 1 .. Len(frames)
    PROVE  Arriving(frames, e, n, i) \in Pieces
<1>1. /\ frames[i].kind \in Nat /\ frames[i].payload \in Seq(Nat)
      /\ i - 1 \in 0 .. Len(frames)
  <2>1. frames[i] \in Packet /\ Len(frames) \in Nat
      BY WireType
  <2> QED BY <2>1 DEF Packet, Stdin, Stdout, Stderr
<1>2. Len(e[i - 1]) \in Nat
    BY <1>1, LenProperties DEF Flattens
<1>3. Part(frames[i].payload, Len(e[i - 1]), n) \in Seq(Nat)
    BY <1>1, <1>2, PartType
<1> QED BY <1>1, <1>3 DEF Arriving, Frame, Pieces

\* Concatenation is associative, as it is needed below.
LEMMA ConcatThree ==
    ASSUME NEW S, NEW x \in Seq(S), NEW y \in Seq(S), NEW z \in Seq(S)
    PROVE  x \o (y \o z) = (x \o y) \o z
BY ConcatAssociative, SMTT(30)

\* One more frame can be taken.
OneMore(from, frames, e, n, data, j) ==
    \E h, l : /\ Taken(h, from, frames, e, n, j + 1, l)
              /\ l \in Nat /\ l + 1 \in 1 .. Len(data) + 1
              /\ l = IF Len(e[j + 1]) <= n THEN Len(e[j + 1]) ELSE n

\* Where the reader does not end it can take one.
LEMMA TakesOneMore ==
    ASSUME NEW frames \in Seq(Packet), NEW e, Flattens(e, Wire(frames), Nat, Len(frames)),
           NEW n, NEW data, Cut(data, frames, e, n),
           NEW from, ReadsFrom(from, data, 1),
           NEW j \in 0 .. Len(frames) - 1, Len(e[j]) <= n, ~Ends(data, Len(e[j]) + 1),
           NEW g, Taken(g, from, frames, e, n, j, Len(e[j]))
    PROVE  OneMore(from, frames, e, n, data, j)
<1> DEFINE o == Len(e[j])
           l == LastOf(data, o + 1)
           a == Arriving(frames, e, n, j + 1)
<1>1. Len(frames) \in Nat /\ j + 1 \in 1 .. Len(frames) /\ j \in Nat
    BY WireType
<1>2. /\ o \in Nat /\ n \in Nat /\ FrameAt(data, o + 1) = a
      /\ l = IF Len(e[j + 1]) <= n THEN Len(e[j + 1]) ELSE n
      /\ ~(n < o + HeaderLen)
    BY FrameOfCut
<1>3. a \in Pieces /\ <<a>> \in Seq(Pieces)
    BY <1>1, <1>2, ArrivingType
<1>4. data \in Seq(Nat) /\ Len(data) = n
    BY DEF Cut
<1>5. o + 1 \in 1 .. Len(data) + 1
    BY <1>2, <1>4 DEF HeaderLen
<1>6. l \in Nat /\ l + 1 \in 1 .. Len(data) + 1
  <2>1. l \in o + 1 + 1 .. Len(data)
      BY <1>4, <1>5, NextIsLater
  <2>2. o \in Nat /\ Len(data) \in Nat
      BY <1>2, <1>4
  <2> HIDE DEF l, o
  <2> QED BY ONLY <2>1, <2>2
<1>7. /\ from[o + 1] = <<a>> \o from[l + 1]
      /\ from[l + 1] \in Seq(Pieces)
    BY <1>2, <1>5, <1>6 DEF ReadsFrom
<1>8. g \in Seq(Pieces) /\ Len(g) = j /\ from[1] = g \o from[o + 1]
      /\ \A i \in 1 .. j : g[i] = Arriving(frames, e, n, i)
    BY DEF Taken
<1> DEFINE r == from[l + 1]
           b == <<a>>
<1>9. r \in Seq(Pieces) /\ b \in Seq(Pieces) /\ Len(b) = 1 /\ b[1] = a
      /\ from[1] = g \o (b \o r)
    BY <1>3, <1>7, <1>8
<1> HIDE DEF l, a, o, r, b
<1>10. g \o (b \o r) = (g \o b) \o r
  <2>1. g \in Seq(Pieces) /\ b \in Seq(Pieces) /\ r \in Seq(Pieces)
      BY ONLY <1>8, <1>9
  <2> QED BY ONLY <2>1, ConcatThree, SMTT(30)
<1>11. /\ g \o b \in Seq(Pieces)
       /\ Len(g \o b) = Len(g) + Len(b)
       /\ \A i \in 1 .. Len(g) + Len(b) :
             (g \o b)[i] = IF i <= Len(g) THEN g[i] ELSE b[i - Len(g)]
    BY ONLY <1>8, <1>9, ConcatProperties
<1>12. Len(g \o b) = j + 1
    BY <1>1, <1>8, <1>9, <1>11
<1>13. ASSUME NEW i \in 1 .. j + 1 PROVE (g \o b)[i] = Arriving(frames, e, n, i)
  <2>1. CASE i = j + 1
    <3>1. i \in 1 .. Len(g) + Len(b) /\ ~(i <= Len(g)) /\ i - Len(g) = 1
        BY ONLY <1>1, <1>8, <1>9, <2>1
    <3>2. (g \o b)[i] = b[1]
        BY <1>11, <3>1
    <3> QED BY <1>9, <2>1, <3>2 DEF a
  <2>2. CASE i # j + 1
    <3>1. i \in 1 .. j /\ i \in 1 .. Len(g) + Len(b) /\ i <= Len(g)
        BY <1>1, <1>8, <1>9, <2>2
    <3> QED BY <1>8, <1>11, <3>1
  <2> QED BY <2>1, <2>2
<1>14. Taken(g \o b, from, frames, e, n, j + 1, l)
    BY <1>9, <1>10, <1>11, <1>12, <1>13 DEF Taken, r
<1> QED BY <1>2, <1>6, <1>14 DEF OneMore

\* What the reader gives back of a stream that is cut: the frames as far as
\* they have arrived; nothing has arrived of the others.
LEMMA FramesOfCut ==
    ASSUME NEW frames \in Seq(Packet), NEW e, Flattens(e, Wire(frames), Nat, Len(frames)),
           NEW n, NEW data, Cut(data, frames, e, n)
    PROVE  /\ Frames(data) \in Seq(Pieces)
           /\ Len(Frames(data)) \in 0 .. Len(frames)
           /\ \A i \in 1 .. Len(Frames(data)) :
                 Frames(data)[i] = Arriving(frames, e, n, i)
           /\ \A i \in Len(Frames(data)) + 1 .. Len(frames) :
                 Part(frames[i].payload, Len(e[i - 1]), n) = <<>>
<1> DEFINE m == Len(frames)
<1>0. /\ m \in Nat /\ n \in Nat /\ data \in Seq(Nat) /\ Len(data) = n /\ n <= Len(e[m])
      /\ \A i \in 0 .. m : e[i] \in Seq(Nat) /\ Len(e[i]) \in Nat
  <2>1. m \in Nat
      BY WireType
  <2>2. \A i \in 0 .. m : e[i] \in Seq(Nat) /\ Len(e[i]) \in Nat
      BY <2>1, LenProperties DEF Flattens
  <2> QED BY <2>1, <2>2 DEF Cut
<1>1. PICK from : ReadsFrom(from, data, 1)
    BY <1>0, ReadsFromExists
<1>2. Frames(data) = from[1] /\ Frames(data) \in Seq(Pieces)
    BY <1>0, <1>1, FramesIsFirst
<1> DEFINE T == {j \in Nat : j <= m /\ Len(e[j]) <= n =>
                               \E g : Taken(g, from, frames, e, n, j, Len(e[j]))}
<1>3. 0 \in T
  <2>1. <<>> \o from[1] = from[1]
      BY <1>2, ConcatEmptySeq
  <2>2. Len(e[0]) + 1 = 1
      BY EmptySeq DEF Flattens
  <2>3. Taken(<<>>, from, frames, e, n, 0, Len(e[0]))
      BY <2>1, <2>2, EmptySeq DEF Taken
  <2> QED BY <2>3
<1>4. ASSUME NEW j \in Nat, j \in T PROVE j + 1 \in T
  <2>1. SUFFICES ASSUME j + 1 <= m, Len(e[j + 1]) <= n
                 PROVE  \E g : Taken(g, from, frames, e, n, j + 1, Len(e[j + 1]))
      BY DEF T
  <2>2. j \in 0 .. m - 1 /\ j \in 0 .. m /\ j <= m /\ j + 1 \in 0 .. m /\ j + 1 \in 1 .. m
        /\ (j + 1) - 1 = j
      BY <1>0, <2>1
  <2>3. /\ Wire(frames) \in Seq(Seq(Nat)) /\ Len(Wire(frames)) = m
        /\ Wire(frames)[j + 1] \in Seq(Nat)
        /\ Len(Wire(frames)[j + 1]) = HeaderLen + Len(frames[j + 1].payload)
        /\ Len(frames[j + 1].payload) \in Nat
      BY <2>2, WireType
  <2>4. Len(e[j + 1]) = Len(e[j]) + Len(Wire(frames)[j + 1])
    <3>1. e[j + 1] = e[j] \o Wire(frames)[j + 1]
        BY <2>2 DEF Flattens
    <3>2. e[j] \in Seq(Nat) /\ Wire(frames)[j + 1] \in Seq(Nat)
        BY <1>0, <2>2, <2>3
    <3> QED BY ONLY <3>1, <3>2, ConcatProperties
  <2>5. Len(e[j]) <= n /\ ~(n < Len(e[j]) + HeaderLen)
    <3>1. Len(e[j]) \in Nat /\ Len(e[j + 1]) \in Nat
        BY <1>0, <2>2
    <3> DEFINE a == Len(e[j])
               b == Len(e[j + 1])
               c == Len(frames[j + 1].payload)
    <3>2. a \in Nat /\ b \in Nat /\ c \in Nat /\ n \in Nat /\ b = a + (HeaderLen + c) /\ b <= n
        BY <1>0, <2>1, <2>3, <2>4, <3>1
    <3> HIDE DEF a, b, c
    <3>3. a <= n /\ ~(n < a + HeaderLen)
        BY ONLY <3>2 DEF HeaderLen
    <3> QED BY <3>3 DEF a
  <2>6. PICK g : Taken(g, from, frames, e, n, j, Len(e[j]))
      BY <1>4, <2>2, <2>5
  <2>7. ~Ends(data, Len(e[j]) + 1)
      BY <2>2, <2>5, FrameOfCut
  <2> HIDE DEF T
  <2>8. PICK h, l : /\ Taken(h, from, frames, e, n, j + 1, l)
                    /\ l = IF Len(e[j + 1]) <= n THEN Len(e[j + 1]) ELSE n
    <3>1. OneMore(from, frames, e, n, data, j)
        BY <1>1, <2>2, <2>5, <2>6, <2>7, TakesOneMore
    <3> QED BY <3>1 DEF OneMore
  <2> QED BY <2>1, <2>8
<1> HIDE DEF T
<1>5. Nat \subseteq T
    BY <1>3, <1>4, SetInduction
<1>6. \E j \in 0 .. m : Len(e[j]) <= n /\ (j < m => ~(Len(e[j + 1]) <= n))
  <2>1. SUFFICES ASSUME \A j \in 0 .. m : Len(e[j]) <= n => j < m /\ Len(e[j + 1]) <= n
                 PROVE  FALSE
      OBVIOUS
  <2> DEFINE U == {j \in Nat : j <= m /\ Len(e[j]) <= n}
  <2>2. 0 \in U
      BY <1>0, EmptySeq DEF Flattens
  <2>3. ASSUME NEW j \in Nat, j \in U PROVE j + 1 \in U
      BY <1>0, <2>1, <2>3
  <2> HIDE DEF U
  <2>4. m + 1 \in U
      BY <1>0, <2>2, <2>3, SetInduction
  <2> QED BY <1>0, <2>4 DEF U
<1>7. PICK j \in 0 .. m : Len(e[j]) <= n /\ (j < m => ~(Len(e[j + 1]) <= n))
    BY <1>6
<1>8. PICK g : Taken(g, from, frames, e, n, j, Len(e[j]))
    BY <1>0, <1>5, <1>7 DEF T
<1> DEFINE o == Len(e[j])
<1>9. o \in Nat /\ o <= n /\ o + 1 \in 1 .. Len(data) + 1
    BY <1>0, <1>7
<1>10. ASSUME NEW i \in 1 .. m, n < Len(e[i - 1]) + HeaderLen
       PROVE  Part(frames[i].payload, Len(e[i - 1]), n) = <<>>
  <2>1. i - 1 \in 0 .. m
      BY <1>0
  <2>2. frames[i].payload \in Seq(Nat)
      BY WireType
  <2>3. Len(e[i - 1]) \in Nat
      BY <1>0, <2>1
  <2> QED BY ONLY <1>0, <1>10, <2>2, <2>3, PartType
<1>11. \A i \in j + 2 .. m : Part(frames[i].payload, Len(e[i - 1]), n) = <<>>
  <2>1. SUFFICES ASSUME NEW i \in j + 2 .. m
                 PROVE  Part(frames[i].payload, Len(e[i - 1]), n) = <<>>
      OBVIOUS
  <2>2. /\ i \in 1 .. m /\ i - 1 \in 0 .. m /\ j + 1 \in 0 .. m /\ i - 1 \in j + 1 .. m
        /\ j < m
      BY <1>0
  <2>3. /\ Wire(frames) \in Seq(Seq(Nat)) /\ Len(Wire(frames)) = m
      BY <2>2, WireType
  <2>4. Flattens(e, Wire(frames), Nat, Len(Wire(frames)))
      BY <2>3
  <2>5. Len(e[j + 1]) <= Len(e[i - 1])
    <3>1. j + 1 \in 0 .. Len(Wire(frames)) /\ i - 1 \in j + 1 .. Len(Wire(frames))
        BY <2>2, <2>3
    <3> QED BY ONLY <2>3, <2>4, <3>1, FlattensGrows
  <2>6. Len(e[i - 1]) \in Nat /\ Len(e[j + 1]) \in Nat
      BY <1>0, <2>2
  <2>7. n < Len(e[i - 1]) + HeaderLen
      BY <1>0, <1>7, <2>2, <2>5, <2>6 DEF HeaderLen
  <2> QED BY <1>10, <2>2, <2>7
<1>12. CASE Ends(data, o + 1)
  <2>1. from[o + 1] = <<>>
      BY <1>1, <1>9, <1>12 DEF ReadsFrom
  <2>2. g \in Seq(Pieces) /\ Len(g) = j /\ from[1] = g \o from[o + 1]
        /\ \A i \in 1 .. j : g[i] = Arriving(frames, e, n, i)
      BY <1>8 DEF Taken
  <2>3. g \o <<>> = g
      BY <2>2, ConcatEmptySeq
  <2>4. Frames(data) = g
      BY <1>2, <2>1, <2>2, <2>3
  <2>5. ASSUME j < m PROVE Part(frames[j + 1].payload, Len(e[(j + 1) - 1]), n) = <<>>
    <3>1. j \in 0 .. m - 1 /\ (j + 1) - 1 = j /\ j + 1 \in 1 .. m
        BY <1>0, <2>5
    <3>2. n < o + HeaderLen
        BY <1>7, <1>12, <3>1, FrameOfCut
    <3> QED BY <1>10, <3>1, <3>2
  <2>6. ASSUME NEW i \in j + 1 .. m
        PROVE  Part(frames[i].payload, Len(e[i - 1]), n) = <<>>
    <3>1. CASE i = j + 1
        BY <1>0, <2>5, <3>1
    <3>2. CASE i # j + 1
      <4>1. i \in j + 2 .. m
          BY <1>0, <3>2
      <4> QED BY <1>11, <4>1
    <3> QED BY <3>1, <3>2
  <2>7. Len(Frames(data)) = j /\ j \in 0 .. m
      BY <2>2, <2>4
  <2> QED BY <1>2, <2>2, <2>4, <2>6, <2>7
<1>13. CASE ~Ends(data, o + 1)
  <2>1. j < m
    <3>1. SUFFICES ASSUME j = m PROVE FALSE
        BY <1>0
    <3>2. o = n
        BY <1>0, <1>7, <3>1
    <3> QED BY <1>0, <1>13, <3>2 DEF Ends, HeaderLen
  <2>2. j \in 0 .. m - 1
      BY <1>0, <2>1
  <2>3. PICK h, l : /\ Taken(h, from, frames, e, n, j + 1, l)
                    /\ l = IF Len(e[j + 1]) <= n THEN Len(e[j + 1]) ELSE n
    <3>1. OneMore(from, frames, e, n, data, j)
        BY <1>1, <1>7, <1>8, <1>13, <2>2, TakesOneMore
    <3> QED BY <3>1 DEF OneMore
  <2>4. l = n
      BY <1>7, <2>1, <2>3
  <2>5. from[n + 1] = <<>>
    <3>1. n + 1 \in 1 .. Len(data) + 1 /\ Ends(data, n + 1)
        BY <1>0 DEF Ends, HeaderLen
    <3> QED BY <1>1, <3>1 DEF ReadsFrom
  <2>6. h \in Seq(Pieces) /\ Len(h) = j + 1 /\ from[1] = h \o from[n + 1]
        /\ \A i \in 1 .. j + 1 : h[i] = Arriving(frames, e, n, i)
      BY <2>3, <2>4 DEF Taken
  <2>7. h \o <<>> = h
      BY <2>6, ConcatEmptySeq
  <2>8. Frames(data) = h
      BY <1>2, <2>5, <2>6, <2>7
  <2>9. (j + 1) + 1 = j + 2 /\ j + 1 \in 0 .. m
      BY <1>0, <2>2
  <2> QED BY <1>2, <1>11, <2>6, <2>8, <2>9
<1> QED BY <1>12, <1>13

\* Empty sequences at the end add nothing.
LEMMA FlattenSame ==
    ASSUME NEW S, NEW s \in Seq(Seq(S)), NEW t \in Seq(Seq(S)), Len(s) <= Len(t),
           \A i \in 1 .. Len(s) : s[i] = t[i],
           \A i \in Len(s) + 1 .. Len(t) : t[i] = <<>>
    PROVE  FlattenSeq(s) = FlattenSeq(t) /\ FlattenSeq(t) \in Seq(S)
<1>0. Len(s) \in Nat /\ Len(t) \in Nat
    BY LenProperties
<1>1. PICK f : Flattens(f, s, S, Len(s))
    BY FlattensExists
<1>2. PICK g : Flattens(g, t, S, Len(t))
    BY FlattensExists
<1>3. FlattenSeq(s) = f[Len(s)] /\ FlattenSeq(t) = g[Len(t)]
    BY <1>1, <1>2, FlattenIsLast
<1>4. f[Len(s)] = g[Len(s)]
    BY <1>0, <1>1, <1>2, FlattensUnique
<1> DEFINE T == {k \in Nat : Len(s) + k <= Len(t) => g[Len(s) + k] = g[Len(s)]}
<1>5. 0 \in T
    BY <1>0
<1>6. ASSUME NEW k \in Nat, k \in T PROVE k + 1 \in T
  <2>1. SUFFICES ASSUME Len(s) + (k + 1) <= Len(t)
                 PROVE  g[Len(s) + (k + 1)] = g[Len(s)]
      OBVIOUS
  <2> DEFINE i == Len(s) + (k + 1)
  <2>2. /\ i \in 1 .. Len(t) /\ i \in Len(s) + 1 .. Len(t) /\ i - 1 = Len(s) + k
        /\ i - 1 \in 0 .. Len(t) /\ Len(s) + k <= Len(t)
      BY <1>0, <2>1
  <2> HIDE DEF i
  <2>3. g[i] = g[i - 1] \o <<>> /\ g[i - 1] \in Seq(S)
      BY <1>2, <2>2 DEF Flattens
  <2>4. g[i] = g[i - 1]
      BY <2>3, ConcatEmptySeq
  <2>5. g[Len(s) + k] = g[Len(s)]
      BY <1>6, <2>2
  <2> QED BY <2>2, <2>4, <2>5 DEF i
<1> HIDE DEF T
<1>7. Len(t) - Len(s) \in T
  <2>1. Len(t) - Len(s) \in Nat
      BY <1>0
  <2> QED BY <2>1, <1>5, <1>6, SetInduction
<1>8. g[Len(t)] = g[Len(s)]
  <2>1. Len(s) + (Len(t) - Len(s)) = Len(t)
      BY <1>0
  <2> QED BY <1>0, <1>7, <2>1 DEF T
<1>9. g[Len(t)] \in Seq(S)
  <2>1. g \in [0 .. Len(t) -> Seq(S)]
      BY <1>2 DEF Flattens
  <2>2. Len(t) \in 0 .. Len(t)
      BY <1>0
  <2> QED BY ONLY <2>1, <2>2
<1> QED BY <1>3, <1>4, <1>8, <1>9

\* What is encoded of the first frames.
LEMMA EncodeOfFirst ==
    ASSUME NEW frames \in Seq(Packet), NEW e, Flattens(e, Wire(frames), Nat, Len(frames))
    PROVE  /\ Encode(frames) = e[Len(frames)]
           /\ \A i \in 1 .. Len(frames) : Encode(SubSeq(frames, 1, i - 1)) = e[i - 1]
<1>1. /\ Wire(frames) \in Seq(Seq(Nat)) /\ Len(Wire(frames)) = Len(frames)
      /\ Len(frames) \in Nat
    BY WireType
<1>2. \A s : Encode(s) = FlattenSeq(Wire(s))
    BY DEF Encode, Wire
<1>3. Encode(frames) = e[Len(frames)]
  <2>1. Flattens(e, Wire(frames), Nat, Len(Wire(frames)))
      BY <1>1
  <2>2. FlattenSeq(Wire(frames)) = e[Len(Wire(frames))]
      BY ONLY <1>1, <2>1, FlattenIsLast
  <2> QED BY <1>1, <1>2, <2>2
<1>4. ASSUME NEW i \in 1 .. Len(frames) PROVE Encode(SubSeq(frames, 1, i - 1)) = e[i - 1]
  <2> DEFINE s == SubSeq(frames, 1, i - 1)
             k == i - 1
  <2>1. k \in Nat /\ k <= Len(frames) /\ k \in Int /\ 1 \in Int /\ (1 <= k => k \in 1 .. Len(frames))
      BY <1>1
  <2> HIDE DEF k
  <2>2. \A l \in 1 .. k : frames[l] \in Packet
      BY <1>1, <2>1, ElementOfSeq
  <2>3. /\ SubSeq(frames, 1, k) \in Seq(Packet)
        /\ Len(SubSeq(frames, 1, k)) = IF 1 <= k THEN k - 1 + 1 ELSE 0
        /\ \A l \in 1 .. k - 1 + 1 : SubSeq(frames, 1, k)[l] = frames[1 + l - 1]
      BY <2>1, <2>2, SubSeqProperties
  <2>4. s \in Seq(Packet) /\ Len(s) = k /\ \A l \in 1 .. k : s[l] = frames[l]
      BY <2>1, <2>3 DEF k
  <2> HIDE DEF s
  <2>5. Wire(s) \in Seq(Seq(Nat)) /\ Len(Wire(s)) = k
      BY <2>4, WireType
  <2>6. \A l \in 1 .. k : Wire(s)[l] = Wire(frames)[l]
    <3>1. DOMAIN s = 1 .. k /\ DOMAIN frames = 1 .. Len(frames)
        BY <2>4, LenProperties
    <3> QED BY <1>1, <2>1, <2>4, <3>1 DEF Wire
  <2>7. PICK f : Flattens(f, Wire(s), Nat, k)
      BY <2>5, FlattensExists
  <2>8. FlattenSeq(Wire(s)) = f[k]
    <3>1. Flattens(f, Wire(s), Nat, Len(Wire(s)))
        BY <2>5, <2>7
    <3>2. FlattenSeq(Wire(s)) = f[Len(Wire(s))]
        BY ONLY <2>5, <3>1, FlattenIsLast
    <3> QED BY <2>5, <3>2
  <2>9. f[k] = e[k]
    <3>1. k <= k
        BY <2>1
    <3> DEFINE a == Wire(s)
               b == Wire(frames)
               z == Len(frames)
    <3>2. /\ a \in Seq(Seq(Nat)) /\ b \in Seq(Seq(Nat)) /\ z \in Nat /\ k <= z
          /\ Flattens(f, a, Nat, k) /\ Flattens(e, b, Nat, z)
          /\ \A l \in 1 .. k : a[l] = b[l]
        BY <1>1, <2>1, <2>5, <2>6, <2>7
    <3> HIDE DEF a, b, z
    <3> QED BY ONLY <2>1, <3>1, <3>2, FlattensUnique
  <2> QED BY <1>2, <2>8, <2>9 DEF s, k
<1> QED BY <1>3, <1>4

\* What is encoded is a stream, and of nothing it is empty.
LEMMA EncodeType ==
    ASSUME NEW frames \in Seq(Packet)
    PROVE  /\ Encode(frames) \in Seq(Nat) /\ Len(Encode(frames)) \in Nat
           /\ frames = <<>> => Encode(frames) = <<>>
<1>1. /\ Wire(frames) \in Seq(Seq(Nat)) /\ Len(Wire(frames)) = Len(frames)
      /\ Len(frames) \in Nat
    BY WireType
<1>2. PICK e : Flattens(e, Wire(frames), Nat, Len(frames))
  <2>1. PICK e : Flattens(e, Wire(frames), Nat, Len(Wire(frames)))
      BY <1>1, FlattensExists
  <2> QED BY <1>1, <2>1
<1>3. Encode(frames) = e[Len(frames)]
    BY <1>2, EncodeOfFirst
<1>4. e[Len(frames)] \in Seq(Nat)
    BY <1>1, <1>2 DEF Flattens
<1>5. frames = <<>> => Len(frames) = 0
    BY EmptySeq
<1>6. e[0] = <<>>
    BY <1>2 DEF Flattens
<1> QED BY <1>3, <1>4, <1>5, <1>6, LenProperties

-----------------------------------------------------------------------------
\* Of every stream of the daemon, cut anywhere, the reader gives back the
\* payloads it is asked for as far as they have arrived: nothing is lost that
\* is there, nothing is taken from a header or from a frame of another kind,
\* and the order stays (demux and demuxCombined, internal/dockerclient/demux.go).
THEOREM CutStreamIsKept ==
    ASSUME NEW frames \in Seq(Packet), NEW n \in 0 .. Len(Encode(frames)), NEW kinds
    PROVE  /\ Payloads(Frames(SubSeq(Encode(frames), 1, n)), kinds) = Arrived(frames, n, kinds)
           /\ Arrived(frames, n, kinds) \in Seq(Nat)
<1> DEFINE m == Len(frames)
           data == SubSeq(Encode(frames), 1, n)
           F == Frames(data)
           q == Len(F)
           s == [i \in DOMAIN F |-> IF F[i].kind \in kinds THEN F[i].payload ELSE <<>>]
           t == [i \in DOMAIN frames |->
                    IF frames[i].kind \in kinds THEN Clipped(frames, i, n) ELSE <<>>]
<1>1. Wire(frames) \in Seq(Seq(Nat)) /\ Len(Wire(frames)) = m /\ m \in Nat
    BY WireType
<1>2. PICK e : Flattens(e, Wire(frames), Nat, Len(frames))
  <2>1. PICK e : Flattens(e, Wire(frames), Nat, Len(Wire(frames)))
      BY <1>1, FlattensExists
  <2> QED BY <1>1, <2>1
<1>3. Encode(frames) = e[m] /\ \A i \in 1 .. m : Encode(SubSeq(frames, 1, i - 1)) = e[i - 1]
    BY <1>2, EncodeOfFirst
<1>4. e[m] \in Seq(Nat) /\ Len(e[m]) \in Nat /\ n \in Nat /\ n <= Len(e[m])
  <2>1. e[m] \in Seq(Nat)
      BY <1>1, <1>2 DEF Flattens
  <2> QED BY <1>3, <2>1, LenProperties
<1>5. Cut(data, frames, e, n)
  <2> DEFINE w == e[m]
  <2>1. w \in Seq(Nat) /\ Len(w) \in Nat /\ \A l \in 1 .. n : w[l] \in Nat
      BY <1>4, ElementOfSeq
  <2> HIDE DEF w
  <2>2. /\ SubSeq(w, 1, n) \in Seq(Nat)
        /\ Len(SubSeq(w, 1, n)) = IF 1 <= n THEN n - 1 + 1 ELSE 0
        /\ \A l \in 1 .. n - 1 + 1 : SubSeq(w, 1, n)[l] = w[1 + l - 1]
      BY <1>4, <2>1, SubSeqProperties
  <2>3. Len(SubSeq(w, 1, n)) = n /\ \A l \in 1 .. n : SubSeq(w, 1, n)[l] = w[l]
      BY <1>4, <2>2
  <2> QED BY <1>3, <1>4, <2>2, <2>3 DEF Cut, w
<1> HIDE DEF data
<1>6. /\ F \in Seq(Pieces) /\ q \in 0 .. m
      /\ \A i \in 1 .. q : F[i] = Arriving(frames, e, n, i)
      /\ \A i \in q + 1 .. m : Part(frames[i].payload, Len(e[i - 1]), n) = <<>>
    BY <1>2, <1>5, FramesOfCut
<1> HIDE DEF F
<1>7. DOMAIN F = 1 .. q /\ q \in Nat /\ DOMAIN frames = 1 .. m
    BY <1>6, LenProperties
<1>8. ASSUME NEW i \in 1 .. m
      PROVE  /\ Clipped(frames, i, n) = Part(frames[i].payload, Len(e[i - 1]), n)
             /\ Clipped(frames, i, n) \in Seq(Nat)
  <2>1. Clipped(frames, i, n) = Part(frames[i].payload, Len(e[i - 1]), n)
      BY <1>3 DEF Clipped, Part
  <2>2. frames[i].payload \in Seq(Nat)
      BY WireType
  <2>3. Len(e[i - 1]) \in Nat
    <3>1. i - 1 \in 0 .. m
        BY <1>1
    <3> QED BY <1>2, <3>1, LenProperties DEF Flattens
  <2>4. Part(frames[i].payload, Len(e[i - 1]), n) \in Seq(Nat)
      BY ONLY <1>4, <2>2, <2>3, PartType
  <2> QED BY <2>1, <2>4
<1>9. \A i \in 1 .. q : i \in 1 .. m
    BY <1>1, <1>6, <1>7
<1>10. ASSUME NEW i \in 1 .. q
       PROVE  F[i].kind = frames[i].kind /\ F[i].payload = Clipped(frames, i, n)
  <2>1. i \in 1 .. m /\ F[i] = Arriving(frames, e, n, i)
      BY <1>6, <1>9
  <2>2. Clipped(frames, i, n) = Part(frames[i].payload, Len(e[i - 1]), n)
      BY <1>8, <2>1
  <2> QED BY ONLY <2>1, <2>2 DEF Arriving, Frame
<1>11. t \in Seq(Seq(Nat)) /\ Len(t) = m
  <2>1. t \in [1 .. m -> Seq(Nat)]
      BY <1>7, <1>8, EmptySeq
  <2> HIDE DEF t, m
  <2> QED BY <1>1, <2>1
<1>12. s \in Seq(Seq(Nat)) /\ Len(s) = q
  <2>1. \A i \in 1 .. q : F[i].payload \in Seq(Nat)
      BY <1>8, <1>9, <1>10
  <2>2. s \in [1 .. q -> Seq(Nat)]
      BY <1>7, <2>1, EmptySeq
  <2> HIDE DEF s
  <2> QED BY <1>7, <2>2
<1>13. \A i \in 1 .. q : s[i] = t[i]
    BY <1>7, <1>9, <1>10
<1>14. \A i \in q + 1 .. m : t[i] = <<>>
  <2>1. \A i \in q + 1 .. m : i \in 1 .. m
      BY <1>7
  <2> QED BY <1>6, <1>7, <1>8, <2>1
<1>15. FlattenSeq(s) = Payloads(F, kinds) /\ FlattenSeq(t) = Arrived(frames, n, kinds)
    BY DEF Payloads, Arrived
<1> HIDE DEF s, t
<1>16. FlattenSeq(s) = FlattenSeq(t) /\ FlattenSeq(t) \in Seq(Nat)
  <2>1. Len(s) <= Len(t)
      BY <1>1, <1>6, <1>11, <1>12
  <2>2. \A i \in 1 .. Len(s) : s[i] = t[i]
      BY <1>12, <1>13
  <2>3. \A i \in Len(s) + 1 .. Len(t) : t[i] = <<>>
      BY <1>11, <1>12, <1>14
  <2> QED BY ONLY <1>11, <1>12, <2>1, <2>2, <2>3, FlattenSame
<1> QED BY <1>15, <1>16 DEF F, data
============================================================================
