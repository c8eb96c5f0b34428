------------------------------ MODULE Startup ------------------------------
(***************************************************************************)
(* From the environment to the certificate that is served: Load            *)
(* (internal/config) and Ensure (internal/tlsgen) over many starts of the  *)
(* service, with an operator who edits variables, repairs the ones an      *)
(* error names, and puts files of his own where the service has its pair,  *)
(* and with crashes and disks that fail in any moment.                     *)
(*                                                                         *)
(* The environment is read once, at the start; it is edited while the      *)
(* service is down.  What comes between Load and Ensure, Docker and Redis, *)
(* is in Lifecycle.                                                        *)
(***************************************************************************)
EXTENDS Config

CONSTANTS
    Text,      \* Text[v]: what the operator may write for variable v
    MaxMoves,  \* bound on edits, files put in place, crashes and stops
    None

Path == (Text["DOCKERAPI_CERT"] \cup Text["DOCKERAPI_KEY"] \cup
         {Default["DOCKERAPI_CERT"], Default["DOCKERAPI_KEY"]}) \ {Blank}

ASSUME ConstantsAssumption ==
    /\ DOMAIN Text = Variable
    /\ \A v \in Variable : Blank \in Text[v]
    /\ MaxMoves \in Nat

VARIABLES
    env,       \* the environment
    pc,        \* where the process is
    reported,  \* what its last error named
    disk,      \* the files
    mem,       \* the pair in memory: what was read, or generated
    pairs,     \* how many have been generated
    moves,
    kept       \* history: the pair a start has stored, and where

vars == <<env, pc, reported, disk, mem, pairs, moves, kept>>

\* A file: a certificate or a key of a pair, whole; nothing; a part of a file.
\* The operator's own pair is number 0.
File(part, pair) == [part |-> part, pair |-> pair]
Absent == File("absent", 0)
Torn == File("torn", 0)
Certificate(n) == File("certificate", n)
Key(n) == File("key", n)
Files == [part : {"absent", "torn", "certificate", "key"}, pair : Nat]

cfg == Resolved(env)

Starting == {"readCert", "readKey", "generate", "writeKey", "writeCert"}

Kept == [cert : Path, key : Path, pair : Nat, complete : BOOLEAN]

TypeOK ==
    /\ env \in [Variable -> UNION {Text[v] : v \in Variable}]
    /\ \A v \in Variable : env[v] \in Text[v]
    /\ pc \in {"down", "failed", "serving"} \cup Starting
    /\ reported \subseteq Named
    /\ disk \in [Path -> Files]
    /\ mem \in [cert : Files, key : Files]
    /\ pairs \in Nat
    /\ moves \in 0 .. MaxMoves
    /\ kept \in Kept \cup {None}

Init ==
    /\ env = [v \in Variable |-> Blank]
    /\ pc = "down"
    /\ reported = {}
    /\ disk = [p \in Path |-> Absent]
    /\ mem = [cert |-> Absent, key |-> Absent]
    /\ pairs = 0
    /\ moves = 0
    /\ kept = None

-----------------------------------------------------------------------------
(* The operator                                                             *)

Move == moves < MaxMoves /\ moves' = moves + 1

Edit(v, text) ==
    /\ pc = "down"
    /\ Move
    /\ env' = [env EXCEPT ![v] = text]
    /\ UNCHANGED <<pc, reported, disk, mem, pairs, kept>>

\* The variables that the error leads to.  An error that quotes the endpoint
\* names none: the operator has to know where its host comes from.
Suspects == (reported \ {Endpoint}) \cup
            (IF Endpoint \in reported THEN {"REDIS_SLAVEOF_IP"} ELSE {})

\* They are cleared.
Repair ==
    /\ pc = "failed"
    /\ env' = [v \in Variable |-> IF v \in Suspects THEN Blank ELSE env[v]]
    /\ pc' = "down"
    /\ UNCHANGED <<reported, disk, mem, pairs, moves, kept>>

\* A file is removed, or one of the operator's own put in its place, also
\* while the service starts.
Place(path, file) ==
    /\ Move
    /\ disk' = [disk EXCEPT ![path] = file]
    /\ kept' = IF kept # None /\ path \in {kept.cert, kept.key} THEN None ELSE kept
    /\ UNCHANGED <<env, pc, reported, mem, pairs>>

-----------------------------------------------------------------------------
(* The service                                                              *)

StartFails ==
    /\ pc = "down"
    /\ Reported(env) # {}
    /\ pc' = "failed"
    /\ reported' = Reported(env)
    /\ UNCHANGED <<env, disk, mem, pairs, moves, kept>>

Start ==
    /\ pc = "down"
    /\ Reported(env) = {}
    /\ pc' = "readCert"
    /\ reported' = {}
    /\ mem' = [cert |-> Absent, key |-> Absent]
    /\ kept' = IF /\ kept # None
                  /\ kept.complete
                  /\ <<kept.cert, kept.key>> = <<cfg.cert, cfg.key>>
               THEN kept ELSE None
    /\ UNCHANGED <<env, disk, pairs, moves>>

\* tls.LoadX509KeyPair reads one file and then the other.
ReadCert ==
    /\ pc = "readCert"
    /\ mem' = [mem EXCEPT !.cert = disk[cfg.cert]]
    /\ pc' = "readKey"
    /\ UNCHANGED <<env, reported, disk, pairs, moves, kept>>

Matches(cert, key) ==
    /\ cert.part = "certificate"
    /\ key.part = "key"
    /\ cert.pair = key.pair

\* Variant: both files are there and whole, so they are taken.
ReadKeyWhole ==
    /\ pc = "readKey"
    /\ mem' = [mem EXCEPT !.key = disk[cfg.key]]
    /\ pc' = IF mem'.cert.part = "certificate" /\ mem'.key.part = "key"
             THEN "serving" ELSE "generate"
    /\ UNCHANGED <<env, reported, disk, pairs, moves, kept>>

ReadKey ==
    /\ pc = "readKey"
    /\ mem' = [mem EXCEPT !.key = disk[cfg.key]]
    /\ pc' = IF Matches(mem'.cert, mem'.key) THEN "serving" ELSE "generate"
    /\ UNCHANGED <<env, reported, disk, pairs, moves, kept>>

Generate ==
    /\ pc = "generate"
    /\ pairs' = pairs + 1
    /\ mem' = [cert |-> Certificate(pairs'), key |-> Key(pairs')]
    /\ pc' = "writeKey"
    /\ UNCHANGED <<env, reported, disk, moves, kept>>

\* writePair: the key first.
WriteKey ==
    /\ pc = "writeKey"
    /\ disk' = [disk EXCEPT ![cfg.key] = mem.key]
    /\ kept' = IF kept # None THEN kept
               ELSE [cert |-> cfg.cert, key |-> cfg.key, pair |-> mem.key.pair,
                     complete |-> FALSE]
    /\ pc' = "writeCert"
    /\ UNCHANGED <<env, reported, mem, pairs, moves>>

\* Variant: the certificate goes where the key went.
WriteCertMisplaced ==
    /\ pc = "writeCert"
    /\ disk' = [disk EXCEPT ![cfg.key] = mem.cert]
    /\ kept' = IF kept = None THEN None ELSE [kept EXCEPT !.complete = TRUE]
    /\ pc' = "serving"
    /\ UNCHANGED <<env, reported, mem, pairs, moves>>

WriteCert ==
    /\ pc = "writeCert"
    /\ disk' = [disk EXCEPT ![cfg.cert] = mem.cert]
    /\ kept' = IF kept = None THEN None ELSE [kept EXCEPT !.complete = TRUE]
    /\ pc' = "serving"
    /\ UNCHANGED <<env, reported, mem, pairs, moves>>

\* The file that is being written in this phase.
Target == IF pc = "writeKey" THEN cfg.key ELSE cfg.cert

\* A write that fails may leave the file as it was, or a part of it.
WriteFails ==
    /\ pc \in {"writeKey", "writeCert"}
    /\ disk' \in {disk, [disk EXCEPT ![Target] = Torn]}
    /\ pc' = "serving"
    /\ UNCHANGED <<env, reported, mem, pairs, moves, kept>>

\* The process is stopped or dies, also in the middle of a write.
Crash ==
    /\ pc \in {"serving"} \cup Starting
    /\ Move
    /\ \/ UNCHANGED disk
       \/ /\ pc \in {"writeKey", "writeCert"}
          /\ disk' = [disk EXCEPT ![Target] = Torn]
    /\ pc' = "down"
    /\ UNCHANGED <<env, reported, mem, pairs, kept>>

ServiceStep ==
    \/ StartFails \/ Start
    \/ ReadCert \/ ReadKey \/ Generate
    \/ WriteKey \/ WriteCert \/ WriteFails

Next ==
    \/ \E v \in Variable : \E text \in Text[v] : Edit(v, text)
    \/ Repair
    \/ \E path \in Path : \E file \in {Absent, Certificate(0), Key(0)} : Place(path, file)
    \/ ServiceStep
    \/ Crash

Spec == Init /\ [][Next]_vars

\* The service is started again and runs, and the operator repairs what the
\* error names.  Of the disk nothing is assumed.
FairSpec == Spec /\ WF_vars(ServiceStep) /\ WF_vars(Repair)

-----------------------------------------------------------------------------
(* Properties                                                               *)

(* Whatever crashes, torn files and files of others the starts have met,    *)
(* the certificate that is served belongs to the key (tlsgen.go:105-127).   *)
ServedPairMatches == pc = "serving" => Matches(mem.cert, mem.key)

(* A pair that has been stored is served by every later start with the same *)
(* paths, until somebody touches its files or the service is started on     *)
(* other paths (tlsgen.go:106-110, 129-136).                                *)
SameCertificate ==
    pc = "serving" /\ kept # None => mem = [cert |-> Certificate(kept.pair),
                                            key  |-> Key(kept.pair)]

(* A failed start names what is wrong: all variables that do not parse, at  *)
(* once (load.go:100-101), and never one that is left blank, unless it is a *)
(* path whose default another variable has taken (config.go:104-178).  One  *)
(* error names no variable, only the endpoint it quotes, and it comes alone *)
(* and of REDIS_SLAVEOF_IP (config.go:128-130).                             *)
ReportIsExact ==
    pc = "failed" =>
        LET paths == {"DOCKERAPI_CERT", "DOCKERAPI_KEY"}
            numbers == {Blank} \cup (Numbers \ Negative)
            unparsed == {v \in Variable :
                \/ v = "DOCKERAPI_STATS_TIMEOUT" /\ env[v] \notin {Blank} \cup Durations
                \/ v = "REDIS_DB" /\ env[v] \notin numbers
                \/ /\ v = "REDIS_SLAVEOF_PORT" /\ env[v] \notin numbers
                   /\ env.REDIS_SLAVEOF_IP # Blank}
        IN  /\ reported # {}
            /\ unparsed # {} => reported = unparsed
            /\ Endpoint \in reported => /\ reported = {Endpoint}
                                       /\ env.REDIS_SLAVEOF_IP \in Bracketed
            /\ \A v \in reported \ {Endpoint} :
                  \/ env[v] # Blank
                  \/ \E p \in paths : v \in paths /\ env[p] # Blank

(* An operator who does nothing but clear the variables that the error      *)
(* names - and the one that an endpoint it quotes comes from - start after  *)
(* start, arrives at a service that serves, though no file may ever be      *)
(* written (tlsgen.go:103-104).                                             *)
RepairConverges == pc = "failed" ~> pc = "serving"
============================================================================
