------------------------- MODULE MCWorkerPassword --------------------------
(* WorkerPassword for TLC: each request's hash is the prefix and two bytes *)
(* of its own.                                                             *)
EXTENDS WorkerPassword

MCHash == [r \in Request |-> <<Prefix, 10 * r + 1, 10 * r + 2>>]
============================================================================
