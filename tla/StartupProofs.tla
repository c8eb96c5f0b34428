--------------------------- MODULE StartupProofs ---------------------------
(***************************************************************************)
(* For whatever the operator may write into the environment and any number *)
(* of moves: the certificate that is served belongs to the key, and a pair *)
(* that was stored is served again until somebody touches it.              *)
(*                                                                         *)
(* The argument.  Load accepts no environment in which both paths are the  *)
(* same (AcceptedPaths), so the second write does not touch what the first *)
(* one has written.  A pair is complete only when both have succeeded in   *)
(* one start; from then on the files hold it, every start on these paths   *)
(* reads it back and so comes to no write.                                 *)
(***************************************************************************)
EXTENDS Startup, TLAPS

Running == Starting \cup {"serving"}

\* What the argument needs of the types.
Shape ==
    /\ \A v \in Variable : env[v] \in Text[v]
    /\ env = [v \in Variable |-> env[v]]
    /\ pc \in {"down", "failed", "serving"} \cup Starting
    /\ disk \in [Path -> Files]
    /\ mem \in [cert : Files, key : Files]
    /\ pairs \in Nat
    /\ reported \subseteq Named
    /\ moves \in 0 .. MaxMoves
    /\ kept # None => kept \in Kept

\* A running service has been accepted by Load.
Accepted == pc \in Running => Reported(env) = {}

\* What is in memory is a pair once it is written, or served.
PairInMemory == pc \in {"writeKey", "writeCert", "serving"} => Matches(mem.cert, mem.key)

PairOf(n) == [cert |-> Certificate(n), key |-> Key(n)]

\* A complete pair is in its files.
CompleteStored ==
    kept # None /\ kept.complete => /\ disk[kept.cert] = Certificate(kept.pair)
                                    /\ disk[kept.key] = Key(kept.pair)

\* The pair that a running service keeps is one of its own paths.
KeptHere ==
    pc \in Running /\ kept # None => kept.cert = cfg.cert /\ kept.key = cfg.key

\* A pair that is kept is read back, so no start comes to write another.
KeptIsRead ==
    /\ pc \in {"readCert", "readKey"} /\ kept # None => kept.complete
    /\ pc = "readKey" /\ kept # None => mem.cert = Certificate(kept.pair)
    /\ pc \in {"generate", "writeKey"} => kept = None

\* Between the two writes the key is in its file, and the pair not complete.
KeyStored ==
    pc = "writeCert" /\ kept # None => /\ ~kept.complete
                                       /\ mem = PairOf(kept.pair)
                                       /\ disk[kept.key] = Key(kept.pair)

\* The pair written is as it was generated.
Generated ==
    pc \in {"writeKey", "writeCert"} => mem = PairOf(mem.key.pair)

\* A start that failed has named what is wrong with the environment as it is.
SaysWhatIsWrong == pc = "failed" => reported = Reported(env) /\ reported # {}

IInv ==
    /\ Shape
    /\ SaysWhatIsWrong
    /\ Accepted
    /\ PairInMemory
    /\ CompleteStored
    /\ KeptHere
    /\ KeptIsRead
    /\ KeyStored
    /\ Generated
    /\ SameCertificate

-----------------------------------------------------------------------------
\* Load accepts no environment in which the certificate's path is the key's.
LEMMA AcceptedPaths ==
    ASSUME NEW e, Reported(e) = {}
    PROVE  Resolved(e).cert # Resolved(e).key
<1> DEFINE checks == Checks(Resolved(e))
<1> SUFFICES ASSUME Resolved(e).cert = Resolved(e).key PROVE FALSE
    OBVIOUS
<1>1. FirstProblem(Resolved(e)) = {}
    BY DEF Reported
<1>2. DOMAIN checks = 1 .. 11
    BY DEF Checks
<1>3. checks[3].fails /\ checks[3].names # {}
    BY DEF Checks, Check
<1>4. checks[1].names # {} /\ checks[2].names # {}
    BY DEF Checks, Check
<1>5. ASSUME NEW i \in 1 .. 11, checks[i].fails, checks[i].names # {},
             \A j \in 1 .. i - 1 : ~checks[j].fails
      PROVE  FALSE
    <2> HIDE DEF checks
    <2>1. i \in {k \in DOMAIN checks :
                     checks[k].fails /\ \A j \in 1 .. k - 1 : ~checks[j].fails}
        BY <1>2, <1>5
    <2>2. QED
        BY <2>1, <1>1, <1>5 DEF FirstProblem, checks
<1> HIDE DEF checks
<1>6. CASE checks[1].fails
    BY <1>4, <1>5, <1>6
<1>7. CASE ~checks[1].fails /\ checks[2].fails
    BY <1>4, <1>5, <1>7
<1>8. CASE ~checks[1].fails /\ ~checks[2].fails
    BY <1>3, <1>5, <1>8
<1>9. QED
    BY <1>6, <1>7, <1>8

\* The paths of the configuration are paths.
LEMMA PathsTyped ==
    ASSUME \A v \in Variable : env[v] \in Text[v]
    PROVE  cfg.cert \in Path /\ cfg.key \in Path
<1>1. "DOCKERAPI_CERT" \in Variable /\ "DOCKERAPI_KEY" \in Variable
    BY DEF Variable, Default
<1>2. Default["DOCKERAPI_CERT"] # Blank /\ Default["DOCKERAPI_KEY"] # Blank
    BY DEF Default, Blank
<1>3. /\ Str(env, "DOCKERAPI_CERT") \in Text["DOCKERAPI_CERT"] \cup {Default["DOCKERAPI_CERT"]}
      /\ Str(env, "DOCKERAPI_KEY") \in Text["DOCKERAPI_KEY"] \cup {Default["DOCKERAPI_KEY"]}
      /\ Str(env, "DOCKERAPI_CERT") # Blank
      /\ Str(env, "DOCKERAPI_KEY") # Blank
    BY <1>1, <1>2 DEF Str
<1>4. cfg.cert = Str(env, "DOCKERAPI_CERT") /\ cfg.key = Str(env, "DOCKERAPI_KEY")
    BY DEF cfg, Resolved
<1>5. QED
    BY <1>3, <1>4 DEF Path

\* The error of Load names variables, or the endpoint.
LEMMA ReportedTyped ==
    ASSUME NEW e
    PROVE  Reported(e) \subseteq Named
<1> DEFINE checks == Checks(Resolved(e))
<1>1. /\ {"DOCKERAPI_STATS_TIMEOUT", "REDIS_DB", "REDIS_SLAVEOF_PORT"} \subseteq Variable
      /\ {"DOCKERAPI_LISTEN", "DOCKERAPI_CERT", "DOCKERAPI_KEY", "DOCKER_HOST"} \subseteq Variable
      /\ {"REDIS_CHANNEL", "LOG_LEVEL", "LOG_FORMAT", "DOCKERAPI_METRICS_LISTEN"} \subseteq Variable
    BY DEF Variable, Default
<1>2. Malformed(e) \subseteq Variable
    BY <1>1 DEF Malformed, IntErrs, DurationErrs
<1>3. \A i \in DOMAIN checks : checks[i].names \subseteq Named
    BY <1>1 DEF Checks, Check, Named
<1>4. FirstProblem(Resolved(e)) \subseteq Named
    <2> HIDE DEF checks
    <2>1. QED
        BY <1>3 DEF FirstProblem, checks
<1>5. QED
    BY <1>2, <1>4 DEF Reported, Named

\* A variable that does not parse is one that is set.
LEMMA MalformedIsSet ==
    ASSUME NEW e, NEW v \in Malformed(e)
    PROVE  e[v] # Blank
<1>1. \A w : \A x \in IntErrs(e, w) : x = w /\ e[w] # Blank
    BY DEF IntErrs
<1>2. \A w : \A x \in DurationErrs(e, w) : x = w /\ e[w] # Blank
    BY DEF DurationErrs
<1>3. \E w : v \in IntErrs(e, w) \/ v \in DurationErrs(e, w)
    BY DEF Malformed
<1>4. QED
    BY <1>1, <1>2, <1>3

\* What a check that fails says.
LEMMA CheckSays ==
    ASSUME NEW fails, NEW names, NEW check, check = Check(fails, names),
           check.fails, NEW v \in check.names
    PROVE  fails /\ v \in names
BY DEF Check

\* No default fails a check: what a failing check names has been set, or is a
\* path and the other path has been set.
LEMMA ProblemIsSet ==
    ASSUME NEW e, NEW i \in DOMAIN Checks(Resolved(e)), Checks(Resolved(e))[i].fails,
           NEW v \in Checks(Resolved(e))[i].names \ {Endpoint}
    PROVE  \/ e[v] # Blank
           \/ /\ v \in {"DOCKERAPI_CERT", "DOCKERAPI_KEY"}
              /\ \E p \in {"DOCKERAPI_CERT", "DOCKERAPI_KEY"} : e[p] # Blank
<1> DEFINE c == Resolved(e)
<1>1. i \in 1 .. 11
    BY DEF Checks
<1>2. CASE i = 1
    <2>1. c.listen = Blank /\ v = "DOCKERAPI_LISTEN"
        <3> DEFINE fails == c.listen = Blank
        <3>1. Checks(c)[1] = Check(fails, {"DOCKERAPI_LISTEN"})
            BY DEF Checks
        <3> HIDE DEF fails
        <3>2. fails /\ v \in {"DOCKERAPI_LISTEN"}
            BY <1>2, <3>1, CheckSays
        <3>3. QED
            BY <3>2 DEF fails
    <2>2. QED
        BY <2>1 DEF Resolved, Str, Default, Blank
<1>3. CASE i = 2
    <2> DEFINE blank == Blank \in {c.cert, c.key}
               paths == {"DOCKERAPI_CERT", "DOCKERAPI_KEY"}
    <2>1. Checks(c)[2] = Check(blank, paths)
        BY DEF Checks
    <2>2. ~blank
        BY DEF Resolved, Str, Default, Blank
    <2> HIDE DEF blank, paths
    <2>3. Check(blank, paths).fails = blank
        BY DEF Check
    <2>4. QED
        BY <1>3, <2>1, <2>2, <2>3
<1>4. CASE i = 3
    <2>1. c.cert = c.key /\ v \in {"DOCKERAPI_CERT", "DOCKERAPI_KEY"}
        <3> DEFINE fails == c.cert = c.key
        <3>1. Checks(c)[3] = Check(fails, {"DOCKERAPI_CERT", "DOCKERAPI_KEY"})
            BY DEF Checks
        <3> HIDE DEF fails
        <3>2. fails /\ v \in {"DOCKERAPI_CERT", "DOCKERAPI_KEY"}
            BY <1>4, <3>1, CheckSays
        <3>3. QED
            BY <3>2 DEF fails
    <2>2. QED
        BY <2>1 DEF Resolved, Str, Default, Blank
<1>5. CASE i = 4
    <2>1. c.docker \notin Schemed /\ v = "DOCKER_HOST"
        <3> DEFINE fails == c.docker \notin Schemed
        <3>1. Checks(c)[4] = Check(fails, {"DOCKER_HOST"})
            BY DEF Checks
        <3> HIDE DEF fails
        <3>2. fails /\ v \in {"DOCKER_HOST"}
            BY <1>5, <3>1, CheckSays
        <3>3. QED
            BY <3>2 DEF fails
    <2>2. QED
        BY <2>1 DEF Resolved, Str, Default, Blank, Schemed
<1>6. CASE i = 5
    <2> DEFINE fails == c.redis[1] \in Bracketed
    <2>1. Checks(c)[5] = Check(fails, {Endpoint})
        BY DEF Checks
    <2> HIDE DEF fails
    <2>2. Checks(c)[5].names = {Endpoint}
        BY <2>1 DEF Check
    <2>3. QED
        BY <1>6, <2>2
<1>7. CASE i = 6
    <2>1. c.channel = Blank /\ v = "REDIS_CHANNEL"
        <3> DEFINE fails == c.channel = Blank
        <3>1. Checks(c)[6] = Check(fails, {"REDIS_CHANNEL"})
            BY DEF Checks
        <3> HIDE DEF fails
        <3>2. fails /\ v \in {"REDIS_CHANNEL"}
            BY <1>7, <3>1, CheckSays
        <3>3. QED
            BY <3>2 DEF fails
    <2>2. QED
        BY <2>1 DEF Resolved, Str, Default, Blank
<1>8. CASE i = 7
    <2>1. c.timeout \notin Positive /\ v = "DOCKERAPI_STATS_TIMEOUT"
        <3> DEFINE fails == c.timeout \notin Positive
        <3>1. Checks(c)[7] = Check(fails, {"DOCKERAPI_STATS_TIMEOUT"})
            BY DEF Checks
        <3> HIDE DEF fails
        <3>2. fails /\ v \in {"DOCKERAPI_STATS_TIMEOUT"}
            BY <1>8, <3>1, CheckSays
        <3>3. QED
            BY <3>2 DEF fails
    <2>2. QED
        BY <2>1 DEF Resolved, Str, Default, Blank, Positive
<1>9. CASE i = 8
    <2>1. c.level \notin {"debug", "info", "warn", "error"} /\ v = "LOG_LEVEL"
        <3> DEFINE fails == c.level \notin {"debug", "info", "warn", "error"}
        <3>1. Checks(c)[8] = Check(fails, {"LOG_LEVEL"})
            BY DEF Checks
        <3> HIDE DEF fails
        <3>2. fails /\ v \in {"LOG_LEVEL"}
            BY <1>9, <3>1, CheckSays
        <3>3. QED
            BY <3>2 DEF fails
    <2>2. c.level = Level(e)
        BY DEF Resolved
    <2>3. e.LOG_LEVEL = Blank => Level(e) \in {"info", "debug"}
        BY DEF Level, Default
    <2>4. QED
        BY <2>1, <2>2, <2>3
<1>10. CASE i = 9
    <2>1. c.format \notin {"python", "json", "text"} /\ v = "LOG_FORMAT"
        <3> DEFINE fails == c.format \notin {"python", "json", "text"}
        <3>1. Checks(c)[9] = Check(fails, {"LOG_FORMAT"})
            BY DEF Checks
        <3> HIDE DEF fails
        <3>2. fails /\ v \in {"LOG_FORMAT"}
            BY <1>10, <3>1, CheckSays
        <3>3. QED
            BY <3>2 DEF fails
    <2>2. c.format = Lower(Str(e, "LOG_FORMAT"))
        BY DEF Resolved
    <2>3. Lower("python") = "python"
        BY DEF Lower
    <2>4. QED
        BY <2>1, <2>2, <2>3 DEF Str, Default
<1>11. CASE i = 10
    <2>1. BadListen(c.listen) /\ v = "DOCKERAPI_LISTEN"
        <3> DEFINE fails == BadListen(c.listen)
        <3>1. Checks(c)[10] = Check(fails, {"DOCKERAPI_LISTEN"})
            BY DEF Checks
        <3> HIDE DEF fails
        <3>2. fails /\ v \in {"DOCKERAPI_LISTEN"}
            BY <1>11, <3>1, CheckSays
        <3>3. QED
            BY <3>2 DEF fails
    <2>2. QED
        BY <2>1 DEF Resolved, Str, Default, Blank, BadListen, Slashed, HostPort
<1>12. CASE i = 11
    <2>1. BadListen(c.metrics) /\ v = "DOCKERAPI_METRICS_LISTEN"
        <3> DEFINE fails == BadListen(c.metrics)
        <3>1. Checks(c)[11] = Check(fails, {"DOCKERAPI_METRICS_LISTEN"})
            BY DEF Checks
        <3> HIDE DEF fails
        <3>2. fails /\ v \in {"DOCKERAPI_METRICS_LISTEN"}
            BY <1>12, <3>1, CheckSays
        <3>3. QED
            BY <3>2 DEF fails
    <2>2. QED
        BY <2>1 DEF Resolved, Str, Default, Blank, BadListen, Slashed, HostPort
<1>13. QED
    BY <1>1, <1>2, <1>3, <1>4, <1>5, <1>6, <1>7, <1>8, <1>9, <1>10, <1>11, <1>12

\* The error of Load names nothing that is left blank, but for the paths.
LEMMA ReportedIsSet ==
    ASSUME NEW e, NEW v \in Reported(e) \ {Endpoint}
    PROVE  \/ e[v] # Blank
           \/ /\ v \in {"DOCKERAPI_CERT", "DOCKERAPI_KEY"}
              /\ \E p \in {"DOCKERAPI_CERT", "DOCKERAPI_KEY"} : e[p] # Blank
<1>1. CASE Malformed(e) # {}
    BY <1>1, MalformedIsSet DEF Reported
<1>2. CASE Malformed(e) = {}
    <2>1. v \in FirstProblem(Resolved(e))
        BY <1>2 DEF Reported
    <2>2. PICK i \in DOMAIN Checks(Resolved(e)) :
              Checks(Resolved(e))[i].fails /\ v \in Checks(Resolved(e))[i].names
        BY <2>1 DEF FirstProblem
    <2>3. QED
        BY <2>2, ProblemIsSet
<1>3. QED
    BY <1>1, <1>2

\* An error that quotes the endpoint names nothing else, and its host is in
\* brackets of its own.
LEMMA EndpointAlone ==
    ASSUME NEW e, Endpoint \in Reported(e)
    PROVE  Reported(e) = {Endpoint} /\ e["REDIS_SLAVEOF_IP"] \in Bracketed
<1> DEFINE c == Resolved(e)
           checks == Checks(c)
           first == {i \in DOMAIN checks :
                        checks[i].fails /\ \A j \in 1 .. i - 1 : ~checks[j].fails}
           joined == c.redis[1] \in Bracketed
<1>1. Endpoint \notin Variable
    BY DEF Endpoint, Variable, Default
<1>2. Malformed(e) \subseteq Variable
    <2>1. {"DOCKERAPI_STATS_TIMEOUT", "REDIS_DB", "REDIS_SLAVEOF_PORT"} \subseteq Variable
        BY DEF Variable, Default
    <2>2. QED
        BY <2>1 DEF Malformed, IntErrs, DurationErrs
<1>3. Reported(e) = FirstProblem(c)
    BY <1>1, <1>2 DEF Reported
<1>4. DOMAIN checks = 1 .. 11
    BY DEF Checks
<1>5. \A i \in DOMAIN checks : i # 5 => checks[i].names \subseteq Variable
    <2>1. /\ {"DOCKERAPI_LISTEN", "DOCKERAPI_CERT", "DOCKERAPI_KEY", "DOCKER_HOST"} \subseteq Variable
          /\ {"REDIS_CHANNEL", "LOG_LEVEL", "LOG_FORMAT", "DOCKERAPI_METRICS_LISTEN"} \subseteq Variable
          /\ "DOCKERAPI_STATS_TIMEOUT" \in Variable
        BY DEF Variable, Default
    <2>2. QED
        BY <2>1 DEF Checks, Check
<1>6. checks[5] = Check(joined, {Endpoint})
    BY DEF Checks
<1>7. checks[5].names = {Endpoint} /\ (checks[5].fails => joined)
    <2> HIDE DEF joined
    <2>1. QED
        BY <1>6 DEF Check
<1>8. FirstProblem(c) = UNION {checks[i].names : i \in first}
    BY DEF FirstProblem
<1> HIDE DEF checks, c, joined
<1>9. 5 \in first /\ first \subseteq 1 .. 11
    BY <1>1, <1>3, <1>4, <1>5, <1>8
<1>10. first = {5}
    <2>1. \A i \in first : i = 5
        BY <1>9
    <2>2. QED
        BY <2>1, <1>9
<1>11. Reported(e) = {Endpoint}
    BY <1>3, <1>7, <1>8, <1>10
<1>12. e["REDIS_SLAVEOF_IP"] \in Bracketed
    <2>1. c.redis[1] \in Bracketed
        BY <1>7, <1>9 DEF joined
    <2>2. c.redis = RedisAddr(e)
        BY DEF c, Resolved
    <2>3. CASE Str(e, "REDIS_SLAVEOF_IP") = Blank
        <3>1. c.redis[1] = "redis-mailcow"
            BY <2>2, <2>3 DEF RedisAddr
        <3>2. QED
            BY <2>1, <3>1 DEF Bracketed
    <2>4. CASE Str(e, "REDIS_SLAVEOF_IP") # Blank
        <3>1. c.redis[1] = Str(e, "REDIS_SLAVEOF_IP")
            BY <2>2, <2>4 DEF RedisAddr
        <3>2. Str(e, "REDIS_SLAVEOF_IP") = e["REDIS_SLAVEOF_IP"]
            BY <2>4 DEF Str, Default, Blank
        <3>3. QED
            BY <2>1, <3>1, <3>2
    <2>5. QED
        BY <2>3, <2>4
<1>13. QED
    BY <1>11, <1>12

LEMMA Beginning == Init => IInv
<1> SUFFICES ASSUME Init PROVE IInv
    OBVIOUS
<1>1. Shape
    <2>1. moves \in 0 .. MaxMoves
        BY ConstantsAssumption DEF Init
    <2>2. \A v \in Variable : env[v] \in Text[v]
        BY ConstantsAssumption DEF Init
    <2>3. QED
        BY <2>1, <2>2 DEF Init, Shape, Files, Absent, File
<1>2. Accepted /\ PairInMemory /\ CompleteStored /\ KeptHere
    BY DEF Init, Accepted, Running, Starting, PairInMemory, CompleteStored, KeptHere
<1>4. SaysWhatIsWrong
    BY DEF Init, SaysWhatIsWrong
<1>3. KeptIsRead /\ KeyStored /\ Generated /\ SameCertificate
    BY DEF Init, KeptIsRead, KeyStored, Generated, SameCertificate
<1>5. QED
    BY <1>1, <1>2, <1>3, <1>4 DEF IInv

\* What a step needs of the invariant before it.
LEMMA Before ==
    ASSUME IInv
    PROVE  /\ cfg.cert \in Path /\ cfg.key \in Path
           /\ pc \in Running => cfg.cert # cfg.key
<1>1. cfg.cert \in Path /\ cfg.key \in Path
    BY PathsTyped DEF IInv, Shape
<1>2. pc \in Running => cfg.cert # cfg.key
    BY AcceptedPaths DEF IInv, Accepted, cfg
<1>3. QED
    BY <1>1, <1>2

\* The operator edits while the service is down.
LEMMA EditKeeps ==
    ASSUME IInv, NEW v \in Variable, NEW text \in Text[v], Edit(v, text)
    PROVE  IInv'
<1> USE DEF Edit, Move
<1>1. Shape'
    <2>1. moves' \in 0 .. MaxMoves
        BY ConstantsAssumption DEF IInv, Shape
    <2>2. QED
        BY <2>1, Before DEF IInv, Shape, Starting, Files, File
<1>2. Accepted'
    BY Before DEF IInv, Accepted, Running, Starting
<1>3. PairInMemory'
    BY Before DEF IInv, PairInMemory
<1>4. CompleteStored'
    BY Before DEF IInv, CompleteStored, Shape, Kept
<1>5. KeptHere'
    BY Before DEF IInv, KeptHere, Running, Starting, cfg
<1>6. KeptIsRead'
    BY Before DEF IInv, KeptIsRead
<1>7. KeyStored'
    BY Before DEF IInv, KeyStored, Shape, Kept
<1>8. Generated'
    BY Before DEF IInv, Generated
<1>9. SameCertificate'
    BY Before DEF IInv, SameCertificate
<1>10. SaysWhatIsWrong'
    BY DEF IInv, SaysWhatIsWrong, Starting
<1>11. QED
    BY <1>1, <1>2, <1>3, <1>4, <1>5, <1>6, <1>7, <1>8, <1>9, <1>10 DEF IInv

\* The operator repairs.
LEMMA RepairKeeps ==
    ASSUME IInv, Repair
    PROVE  IInv'
<1> USE DEF Repair
<1>1. Shape'
    BY ConstantsAssumption DEF IInv, Shape, Starting
<1>2. Accepted'
    BY Before DEF IInv, Accepted, Running, Starting
<1>3. PairInMemory'
    BY Before DEF IInv, PairInMemory
<1>4. CompleteStored'
    BY Before DEF IInv, CompleteStored, Shape, Kept
<1>5. KeptHere'
    BY Before DEF IInv, KeptHere, Running, Starting, cfg
<1>6. KeptIsRead'
    BY Before DEF IInv, KeptIsRead
<1>7. KeyStored'
    BY Before DEF IInv, KeyStored, Shape, Kept
<1>8. Generated'
    BY Before DEF IInv, Generated
<1>9. SameCertificate'
    BY Before DEF IInv, SameCertificate
<1>10. SaysWhatIsWrong'
    BY DEF IInv, SaysWhatIsWrong, Starting
<1>11. QED
    BY <1>1, <1>2, <1>3, <1>4, <1>5, <1>6, <1>7, <1>8, <1>9, <1>10 DEF IInv

\* A file is replaced: what was kept in it is given up.
LEMMA PlaceKeeps ==
    ASSUME IInv, NEW path \in Path, NEW file \in {Absent, Certificate(0), Key(0)}, Place(path, file)
    PROVE  IInv'
<1> USE DEF Place, Move
<1>1. Shape'
    <2>1. moves' \in 0 .. MaxMoves
        BY ConstantsAssumption DEF IInv, Shape
    <2>2. QED
        BY <2>1, Before DEF IInv, Shape, Starting, Files, File, Absent, Certificate, Key, Kept
<1>2. Accepted'
    BY Before DEF IInv, Accepted, Running, Starting
<1>3. PairInMemory'
    BY Before DEF IInv, PairInMemory
<1>4. CompleteStored'
    BY Before DEF IInv, CompleteStored, Shape, Kept
<1>5. KeptHere'
    BY Before DEF IInv, KeptHere, Running, Starting, cfg
<1>6. KeptIsRead'
    BY Before DEF IInv, KeptIsRead
<1>7. KeyStored'
    BY Before DEF IInv, KeyStored, Shape, Kept
<1>8. Generated'
    BY Before DEF IInv, Generated
<1>9. SameCertificate'
    BY Before DEF IInv, SameCertificate
<1>10. SaysWhatIsWrong'
    BY DEF IInv, SaysWhatIsWrong, Starting
<1>11. QED
    BY <1>1, <1>2, <1>3, <1>4, <1>5, <1>6, <1>7, <1>8, <1>9, <1>10 DEF IInv

\* Load fails.
LEMMA StartFailsKeeps ==
    ASSUME IInv, StartFails
    PROVE  IInv'
<1> USE DEF StartFails
<1>1. Shape'
    BY Before, ReportedTyped DEF IInv, Shape, Starting, Files, File
<1>2. Accepted'
    BY Before DEF IInv, Accepted, Running, Starting
<1>3. PairInMemory'
    BY Before DEF IInv, PairInMemory
<1>4. CompleteStored'
    BY Before DEF IInv, CompleteStored, Shape, Kept
<1>5. KeptHere'
    BY Before DEF IInv, KeptHere, Running, Starting, cfg
<1>6. KeptIsRead'
    BY Before DEF IInv, KeptIsRead
<1>7. KeyStored'
    BY Before DEF IInv, KeyStored, Shape, Kept
<1>8. Generated'
    BY Before DEF IInv, Generated
<1>9. SameCertificate'
    BY Before DEF IInv, SameCertificate
<1>10. SaysWhatIsWrong'
    BY DEF IInv, SaysWhatIsWrong, Starting
<1>11. QED
    BY <1>1, <1>2, <1>3, <1>4, <1>5, <1>6, <1>7, <1>8, <1>9, <1>10 DEF IInv

\* Load succeeds; only a complete pair on these paths is still kept.
LEMMA StartKeeps ==
    ASSUME IInv, Start
    PROVE  IInv'
<1> USE DEF Start
<1>1. Shape'
    BY Before DEF IInv, Shape, Starting, Files, File, Absent
<1>2. Accepted'
    BY Before DEF IInv, Accepted, Running, Starting
<1>3. PairInMemory'
    BY Before DEF IInv, PairInMemory
<1>4. CompleteStored'
    BY Before DEF IInv, CompleteStored, Shape, Kept
<1>5. KeptHere'
    BY Before DEF IInv, KeptHere, Running, Starting, cfg
<1>6. KeptIsRead'
    BY Before DEF IInv, KeptIsRead
<1>7. KeyStored'
    BY Before DEF IInv, KeyStored, Shape, Kept
<1>8. Generated'
    BY Before DEF IInv, Generated
<1>9. SameCertificate'
    BY Before DEF IInv, SameCertificate
<1>10. SaysWhatIsWrong'
    BY DEF IInv, SaysWhatIsWrong, Starting
<1>11. QED
    BY <1>1, <1>2, <1>3, <1>4, <1>5, <1>6, <1>7, <1>8, <1>9, <1>10 DEF IInv

\* The certificate is read.
LEMMA ReadCertKeeps ==
    ASSUME IInv, ReadCert
    PROVE  IInv'
<1> USE DEF ReadCert
<1>1. Shape'
    BY Before DEF IInv, Shape, Starting, Files, File
<1>2. Accepted'
    BY Before DEF IInv, Accepted, Running, Starting
<1>3. PairInMemory'
    BY Before DEF IInv, PairInMemory
<1>4. CompleteStored'
    BY Before DEF IInv, CompleteStored, Shape, Kept
<1>5. KeptHere'
    BY Before DEF IInv, KeptHere, Running, Starting, cfg
<1>6. KeptIsRead'
    BY Before DEF IInv, KeptIsRead, CompleteStored, KeptHere, Running, Starting, Shape
<1>7. KeyStored'
    BY Before DEF IInv, KeyStored, Shape, Kept
<1>8. Generated'
    BY Before DEF IInv, Generated
<1>9. SameCertificate'
    BY Before DEF IInv, SameCertificate
<1>10. SaysWhatIsWrong'
    BY DEF IInv, SaysWhatIsWrong, Starting
<1>11. QED
    BY <1>1, <1>2, <1>3, <1>4, <1>5, <1>6, <1>7, <1>8, <1>9, <1>10 DEF IInv

\* The key is read: what is kept matches.
LEMMA ReadKeyKeeps ==
    ASSUME IInv, ReadKey
    PROVE  IInv'
<1> USE DEF ReadKey
<1>1. Shape'
    BY Before DEF IInv, Shape, Starting, Files, File
<1>2. Accepted'
    BY Before DEF IInv, Accepted, Running, Starting
<1>3. PairInMemory'
    BY Before DEF IInv, PairInMemory, Shape
<1>4. CompleteStored'
    BY Before DEF IInv, CompleteStored, Shape, Kept
<1>5. KeptHere'
    BY Before DEF IInv, KeptHere, Running, Starting, cfg
<1>6. KeptIsRead'
    BY Before DEF IInv, KeptIsRead, CompleteStored, KeptHere, Running, Starting, Shape, Matches, Certificate, Key, File
<1>7. KeyStored'
    BY Before DEF IInv, KeyStored, Shape, Kept
<1>8. Generated'
    BY Before DEF IInv, Generated
<1>9. SameCertificate'
    BY Before DEF IInv, KeptIsRead, CompleteStored, KeptHere, Running, Starting, Shape, SameCertificate
<1>10. SaysWhatIsWrong'
    BY DEF IInv, SaysWhatIsWrong, Starting
<1>11. QED
    BY <1>1, <1>2, <1>3, <1>4, <1>5, <1>6, <1>7, <1>8, <1>9, <1>10 DEF IInv

\* A pair is generated; nothing is kept then.
LEMMA GenerateKeeps ==
    ASSUME IInv, Generate
    PROVE  IInv'
<1> USE DEF Generate
<1>1. Shape'
    BY Before DEF IInv, Shape, Starting, Files, File, Certificate, Key
<1>2. Accepted'
    BY Before DEF IInv, Accepted, Running, Starting
<1>3. PairInMemory'
    BY DEF Matches, PairInMemory, Certificate, Key, File
<1>4. CompleteStored'
    BY Before DEF IInv, CompleteStored, Shape, Kept
<1>5. KeptHere'
    BY Before DEF IInv, KeptHere, Running, Starting, cfg
<1>6. KeptIsRead'
    BY Before DEF IInv, KeptIsRead
<1>7. KeyStored'
    BY Before DEF IInv, KeyStored
<1>8. Generated'
    BY DEF Generated, PairOf, Certificate, Key, File
<1>9. SameCertificate'
    BY Before DEF IInv, SameCertificate
<1>10. SaysWhatIsWrong'
    BY DEF IInv, SaysWhatIsWrong, Starting
<1>11. QED
    BY <1>1, <1>2, <1>3, <1>4, <1>5, <1>6, <1>7, <1>8, <1>9, <1>10 DEF IInv

\* The key is written.
LEMMA WriteKeyKeeps ==
    ASSUME IInv, WriteKey
    PROVE  IInv'
<1> USE DEF WriteKey
<1>1. Shape'
    BY Before DEF IInv, Shape, Starting, Files, File, Kept
<1>2. Accepted'
    BY Before DEF IInv, Accepted, Running, Starting
<1>3. PairInMemory'
    BY Before DEF IInv, PairInMemory
<1>4. CompleteStored'
    BY Before DEF IInv, CompleteStored, KeptIsRead
<1>5. KeptHere'
    BY Before DEF IInv, KeptHere, KeptIsRead, cfg
<1>6. KeptIsRead'
    BY Before DEF IInv, KeptIsRead
<1>7. KeyStored'
    BY Before DEF IInv, KeyStored, KeptIsRead, Generated, PairOf, Shape
<1>8. Generated'
    BY Before DEF IInv, Generated
<1>9. SameCertificate'
    BY Before DEF IInv, SameCertificate
<1>10. SaysWhatIsWrong'
    BY DEF IInv, SaysWhatIsWrong, Starting
<1>11. QED
    BY <1>1, <1>2, <1>3, <1>4, <1>5, <1>6, <1>7, <1>8, <1>9, <1>10 DEF IInv

\* The certificate is written, to another file than the key.
LEMMA WriteCertKeeps ==
    ASSUME IInv, WriteCert
    PROVE  IInv'
<1> USE DEF WriteCert
<1>1. Shape'
    BY Before DEF IInv, Shape, Starting, Files, File, Kept
<1>2. Accepted'
    BY Before DEF IInv, Accepted, Running, Starting
<1>3. PairInMemory'
    BY Before DEF IInv, PairInMemory
<1>4. CompleteStored'
    BY Before DEF IInv, CompleteStored, KeyStored, KeptHere, Running, Starting, PairOf, Shape, Kept
<1>5. KeptHere'
    BY Before DEF IInv, KeptHere, Running, Starting, Shape, Kept, cfg
<1>6. KeptIsRead'
    BY Before DEF IInv, KeptIsRead
<1>7. KeyStored'
    BY Before DEF IInv, KeyStored, Shape, Kept
<1>8. Generated'
    BY Before DEF IInv, Generated
<1>9. SameCertificate'
    BY Before DEF IInv, SameCertificate, KeyStored, PairOf, Shape, Kept
<1>10. SaysWhatIsWrong'
    BY DEF IInv, SaysWhatIsWrong, Starting
<1>11. QED
    BY <1>1, <1>2, <1>3, <1>4, <1>5, <1>6, <1>7, <1>8, <1>9, <1>10 DEF IInv

\* A write fails; what is kept is not complete.
LEMMA WriteFailsKeeps ==
    ASSUME IInv, WriteFails
    PROVE  IInv'
<1> USE DEF WriteFails, Target
<1>1. Shape'
    BY Before DEF IInv, Shape, Starting, Files, File, Torn
<1>2. Accepted'
    BY Before DEF IInv, Accepted, Running, Starting
<1>3. PairInMemory'
    BY Before DEF IInv, PairInMemory
<1>4. CompleteStored'
    BY Before DEF IInv, CompleteStored, KeyStored, KeptIsRead, KeptHere, Running, Starting, Shape, Kept
<1>5. KeptHere'
    BY Before DEF IInv, KeptHere, Running, Starting, cfg
<1>6. KeptIsRead'
    BY Before DEF IInv, KeptIsRead
<1>7. KeyStored'
    BY Before DEF IInv, KeyStored, Shape, Kept
<1>8. Generated'
    BY Before DEF IInv, Generated
<1>9. SameCertificate'
    BY Before DEF IInv, SameCertificate, KeyStored, KeptIsRead, PairOf
<1>10. SaysWhatIsWrong'
    BY DEF IInv, SaysWhatIsWrong, Starting
<1>11. QED
    BY <1>1, <1>2, <1>3, <1>4, <1>5, <1>6, <1>7, <1>8, <1>9, <1>10 DEF IInv

\* The process dies.
LEMMA CrashKeeps ==
    ASSUME IInv, Crash
    PROVE  IInv'
<1> USE DEF Crash, Move, Target
<1>1. Shape'
    <2>1. moves' \in 0 .. MaxMoves
        BY ConstantsAssumption DEF IInv, Shape
    <2>2. QED
        BY <2>1, Before DEF IInv, Shape, Starting, Files, File, Torn
<1>2. Accepted'
    BY Before DEF IInv, Accepted, Running, Starting
<1>3. PairInMemory'
    BY Before DEF IInv, PairInMemory
<1>4. CompleteStored'
    BY Before DEF IInv, CompleteStored, KeyStored, KeptIsRead, Shape, Kept
<1>5. KeptHere'
    BY Before DEF IInv, KeptHere, Running, Starting, cfg
<1>6. KeptIsRead'
    BY Before DEF IInv, KeptIsRead
<1>7. KeyStored'
    BY Before DEF IInv, KeyStored, Shape, Kept
<1>8. Generated'
    BY Before DEF IInv, Generated
<1>9. SameCertificate'
    BY Before DEF IInv, SameCertificate
<1>10. SaysWhatIsWrong'
    BY DEF IInv, SaysWhatIsWrong, Starting
<1>11. QED
    BY <1>1, <1>2, <1>3, <1>4, <1>5, <1>6, <1>7, <1>8, <1>9, <1>10 DEF IInv

\* Every step keeps the invariant.
LEMMA StepKeeps == IInv /\ [Next]_vars => IInv'
<1> SUFFICES ASSUME IInv, [Next]_vars PROVE IInv'
    OBVIOUS
<1>1. CASE \E v \in Variable : \E text \in Text[v] : Edit(v, text)
    BY <1>1, EditKeeps
<1>2. CASE Repair
    BY <1>2, RepairKeeps
<1>3. CASE \E path \in Path : \E file \in {Absent, Certificate(0), Key(0)} : Place(path, file)
    BY <1>3, PlaceKeeps
<1>4. CASE ServiceStep
    BY <1>4, StartFailsKeeps, StartKeeps, ReadCertKeeps, ReadKeyKeeps, GenerateKeeps,
       WriteKeyKeeps, WriteCertKeeps, WriteFailsKeeps DEF ServiceStep
<1>5. CASE Crash
    BY <1>5, CrashKeeps
<1>6. CASE UNCHANGED vars
    BY <1>6 DEF vars, cfg, IInv, Shape, Accepted, PairInMemory, CompleteStored, KeptHere,
                KeptIsRead, KeyStored, Generated, SameCertificate, SaysWhatIsWrong
<1>7. QED
    BY <1>1, <1>2, <1>3, <1>4, <1>5, <1>6 DEF Next

\* The invariant holds in every state.
LEMMA Invariance == Spec => []IInv
<1>1. IInv /\ [Next]_vars => IInv'
    BY StepKeeps
<1>2. QED
    BY Beginning, <1>1, PTL DEF Spec

(* Every variable of the model keeps its type: the environment, the files,  *)
(* what is in memory and what is reported.                                  *)
THEOREM TypeCorrect == Spec => []TypeOK
<1>1. IInv => TypeOK
    <2> SUFFICES ASSUME IInv PROVE TypeOK
        OBVIOUS
    <2>1. env \in [Variable -> UNION {Text[v] : v \in Variable}]
        BY DEF IInv, Shape
    <2>2. QED
        BY <2>1 DEF IInv, Shape, TypeOK
<1>2. QED
    BY <1>1, Invariance, PTL

(* Whatever the starts have met, the certificate that is served belongs to  *)
(* the key (tlsgen.go:105-127).                                             *)
THEOREM ServedPairBelongs == Spec => []ServedPairMatches
<1>1. IInv => ServedPairMatches
    BY DEF IInv, PairInMemory, ServedPairMatches
<1>2. QED
    BY <1>1, Invariance, PTL

(* A pair that has been stored is served by every later start on the same   *)
(* paths until somebody touches its files (tlsgen.go:106-110, 129-136).     *)
THEOREM StoredPairIsServed == Spec => []SameCertificate
<1>1. IInv => SameCertificate
    BY DEF IInv
<1>2. QED
    BY <1>1, Invariance, PTL

(* A failed start names all variables that do not parse, at once            *)
(* (load.go:100-101), and never one that is left blank, unless it is a path *)
(* whose default another variable has taken; an error that names only the   *)
(* endpoint comes alone, and of a host in brackets (config.go:104-178): for *)
(* every environment, with texts of any class.                              *)
THEOREM FailuresAreNamed == Spec => []ReportIsExact
<1>1. IInv => ReportIsExact
    <2> SUFFICES ASSUME IInv, pc = "failed" PROVE ReportIsExact
        BY DEF ReportIsExact
    <2>1. reported = Reported(env) /\ reported # {}
        BY DEF IInv, SaysWhatIsWrong
    <2>2. Malformed(env) # {} => reported = Malformed(env)
        BY <2>1 DEF Reported
    <2>3. Malformed(env) = {v \in Variable :
              \/ v = "DOCKERAPI_STATS_TIMEOUT" /\ env[v] \notin {Blank} \cup Durations
              \/ v = "REDIS_DB" /\ env[v] \notin {Blank} \cup (Numbers \ Negative)
              \/ /\ v = "REDIS_SLAVEOF_PORT"
                 /\ env[v] \notin {Blank} \cup (Numbers \ Negative)
                 /\ env.REDIS_SLAVEOF_IP # Blank}
        <3>1. {"DOCKERAPI_STATS_TIMEOUT", "REDIS_DB", "REDIS_SLAVEOF_PORT"} \subseteq Variable
            BY DEF Variable, Default
        <3>2. Str(env, "REDIS_SLAVEOF_IP") = Blank <=> env["REDIS_SLAVEOF_IP"] = Blank
            BY DEF Str, Default, Blank
        <3>3. QED
            BY <3>1, <3>2 DEF Malformed, IntErrs, DurationErrs
    <2>4. \A v \in reported \ {Endpoint} :
              \/ env[v] # Blank
              \/ /\ v \in {"DOCKERAPI_CERT", "DOCKERAPI_KEY"}
                 /\ \E p \in {"DOCKERAPI_CERT", "DOCKERAPI_KEY"} : env[p] # Blank
        BY <2>1, ReportedIsSet
    <2>5. Endpoint \in reported => /\ reported = {Endpoint}
                                  /\ env["REDIS_SLAVEOF_IP"] \in Bracketed
        BY <2>1, EndpointAlone
    <2>6. QED
        BY <2>1, <2>2, <2>3, <2>4, <2>5 DEF ReportIsExact
<1>2. QED
    BY <1>1, Invariance, PTL
============================================================================
