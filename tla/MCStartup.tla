------------------------------ MODULE MCStartup ----------------------------
(* Startup for TLC: for each variable a text that is good, and the bad ones *)
(* of the repository's tests; and an address in the brackets of a URL.      *)
EXTENDS Startup

MCText == [
    DOCKERAPI_LISTEN         |-> {"", "http://127.0.0.1:9394/metrics"},
    DOCKERAPI_CERT           |-> {"", "/app/dockerapi_key.pem", "/tls/own.pem"},
    DOCKERAPI_KEY            |-> {"", "/tls/own.pem"},
    DOCKER_HOST              |-> {"", "ftp://example.org"},
    REDIS_SLAVEOF_IP         |-> {"", "10.0.0.5", "[fd00::1]"},
    REDIS_SLAVEOF_PORT       |-> {"", "soon", "-1"},
    REDIS_DB                 |-> {"", "-1"},
    REDIS_CHANNEL            |-> {""},
    DOCKERAPI_STATS_TIMEOUT  |-> {"", "soon", "0s"},
    DOCKERAPI_METRICS_LISTEN |-> {"", "9394"},
    DEV_MODE                 |-> {""},
    LOG_LEVEL                |-> {"", "INFO", "chatty"},
    LOG_FORMAT               |-> {"", "yaml"}]
============================================================================
