------------------------------- MODULE Config ------------------------------
(***************************************************************************)
(* internal/config: what the service makes of its environment.             *)
(*                                                                         *)
(* An environment gives each variable a text; Blank stands for a variable  *)
(* that is not set and for one that is only blanks, which the code takes   *)
(* for the same.  Of a text only the class it belongs to matters: the sets *)
(* below name some of each.  DBROOT and REDISPASS are left out: any text   *)
(* is accepted for them.                                                   *)
(***************************************************************************)
EXTENDS Naturals

Blank == ""

Default == [
    DOCKERAPI_LISTEN         |-> ":443",
    DOCKERAPI_CERT           |-> "/app/dockerapi_cert.pem",
    DOCKERAPI_KEY            |-> "/app/dockerapi_key.pem",
    DOCKER_HOST              |-> "unix:///var/run/docker.sock",
    REDIS_SLAVEOF_IP         |-> Blank,
    REDIS_SLAVEOF_PORT       |-> "6379",
    REDIS_DB                 |-> "0",
    REDIS_CHANNEL            |-> "MC_CHANNEL",
    DOCKERAPI_STATS_TIMEOUT  |-> "30s",
    DOCKERAPI_METRICS_LISTEN |-> ":9394",
    DEV_MODE                 |-> "n",
    LOG_LEVEL                |-> "info",
    LOG_FORMAT               |-> "python"]

Variable == DOMAIN Default

\* What an error may name: variables, or the endpoint as it was joined.
Endpoint == "the Redis endpoint"
Named == Variable \cup {Endpoint}

\* Classes of texts: Atoi and ParseDuration succeed, net.SplitHostPort
\* succeeds, an address has a slash, a Docker host has a scheme that is known,
\* a host has brackets of its own, so that with the port it is no host:port.
Numbers   == {"0", "6379", "-1"}
Negative  == {"-1"}
Durations == {"30s", "0s", "-5s"}
Positive  == {"30s"}
HostPort  == {":443", ":9394", "127.0.0.1:9394", "redis-mailcow:6379"}
Slashed   == {"http://127.0.0.1:9394/metrics"}
Bracketed == {"[fd00::1]"}
Schemed   == {"unix:///var/run/docker.sock", "tcp://docker:2375"}

Lower(text) ==
    CASE text = "INFO" -> "info"
      [] text = "JSON" -> "json"
      [] text = "NO"   -> "no"
      [] OTHER         -> text

Str(env, v) == IF env[v] = Blank THEN Default[v] ELSE env[v]

\* Variant: the error names the text and not the variable.
IntErrsOfText(env, v) ==
    IF env[v] \in {Blank} \cup (Numbers \ Negative) THEN {} ELSE {env[v]}

\* What env.int and env.duration add to the errors.
IntErrs(env, v) ==
    IF env[v] \in {Blank} \cup (Numbers \ Negative) THEN {} ELSE {v}

DurationErrs(env, v) ==
    IF env[v] \in {Blank} \cup Durations THEN {} ELSE {v}

\* Variant: env.int gives up at the first error.
MalformedFirst(env) ==
    LET db == IntErrs(env, "REDIS_DB")
    IN  IF db # {} THEN db ELSE DurationErrs(env, "DOCKERAPI_STATS_TIMEOUT")

\* The variables that do not parse.  The port is looked at only when there is
\* an address it could belong to.
Malformed(env) ==
    DurationErrs(env, "DOCKERAPI_STATS_TIMEOUT") \cup IntErrs(env, "REDIS_DB") \cup
    (IF Str(env, "REDIS_SLAVEOF_IP") = Blank THEN {}
     ELSE IntErrs(env, "REDIS_SLAVEOF_PORT"))

RedisAddr(env) ==
    IF Str(env, "REDIS_SLAVEOF_IP") = Blank THEN <<"redis-mailcow", "6379">>
    ELSE <<Str(env, "REDIS_SLAVEOF_IP"), Str(env, "REDIS_SLAVEOF_PORT")>>

\* LOG_LEVEL wins; without it DEV_MODE decides.
Level(env) ==
    IF env.LOG_LEVEL # Blank THEN Lower(env.LOG_LEVEL)
    ELSE IF Lower(Str(env, "DEV_MODE")) \in {"n", "no"} THEN Default.LOG_LEVEL
         ELSE "debug"

Resolved(env) == [
    listen  |-> Str(env, "DOCKERAPI_LISTEN"),
    cert    |-> Str(env, "DOCKERAPI_CERT"),
    key     |-> Str(env, "DOCKERAPI_KEY"),
    docker  |-> Str(env, "DOCKER_HOST"),
    redis   |-> RedisAddr(env),
    db      |-> Str(env, "REDIS_DB"),
    channel |-> Str(env, "REDIS_CHANNEL"),
    timeout |-> Str(env, "DOCKERAPI_STATS_TIMEOUT"),
    metrics |-> Str(env, "DOCKERAPI_METRICS_LISTEN"),
    level   |-> Level(env),
    format  |-> Lower(Str(env, "LOG_FORMAT"))]

Check(fails, names) == [fails |-> fails, names |-> names]

BadListen(addr) == addr # Blank /\ (addr \in Slashed \/ addr \notin HostPort)

\* The checks of validate, in its order, and what the error names.  That of
\* the endpoint quotes what loadRedis has joined, and no variable.
Checks(cfg) == <<
    Check(cfg.listen = Blank, {"DOCKERAPI_LISTEN"}),
    Check(Blank \in {cfg.cert, cfg.key}, {"DOCKERAPI_CERT", "DOCKERAPI_KEY"}),
    Check(cfg.cert = cfg.key, {"DOCKERAPI_CERT", "DOCKERAPI_KEY"}),
    Check(cfg.docker \notin Schemed, {"DOCKER_HOST"}),
    Check(cfg.redis[1] \in Bracketed, {Endpoint}),
    Check(cfg.channel = Blank, {"REDIS_CHANNEL"}),
    Check(cfg.timeout \notin Positive, {"DOCKERAPI_STATS_TIMEOUT"}),
    Check(cfg.level \notin {"debug", "info", "warn", "error"}, {"LOG_LEVEL"}),
    Check(cfg.format \notin {"python", "json", "text"}, {"LOG_FORMAT"}),
    Check(BadListen(cfg.listen), {"DOCKERAPI_LISTEN"}),
    Check(BadListen(cfg.metrics), {"DOCKERAPI_METRICS_LISTEN"})>>

\* Variant: of a pair in one file only the key is named.
FirstProblemOfKey(cfg) ==
    LET checks == Checks(cfg)
        first  == {i \in DOMAIN checks :
                      checks[i].fails /\ \A j \in 1 .. i - 1 : ~checks[j].fails}
    IN  UNION {checks[i].names : i \in first} \ {"DOCKERAPI_CERT"}

\* validate reports the first problem only.
FirstProblem(cfg) ==
    LET checks == Checks(cfg)
        first  == {i \in DOMAIN checks :
                      checks[i].fails /\ \A j \in 1 .. i - 1 : ~checks[j].fails}
    IN  UNION {checks[i].names : i \in first}

\* What the error of Load names; nothing if it succeeds.
Reported(env) ==
    IF Malformed(env) # {} THEN Malformed(env) ELSE FirstProblem(Resolved(env))
============================================================================
