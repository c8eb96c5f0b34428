---------------------------- MODULE StatsPromise ---------------------------
(***************************************************************************)
(* What the statistics collector promises its callers, with no goroutine,  *)
(* lock or channel in it:                                                  *)
(*                                                                         *)
(*  - for a key there is at most one collection at a time;                 *)
(*  - only a running collection writes a key, it writes in one step, and   *)
(*    it extends the buffer last written (or starts afresh): no sample is  *)
(*    lost to a concurrent writer, none is written behind a newer one;     *)
(*  - a key may expire at any time;                                        *)
(*  - a request is answered once, and with a value only when the key holds *)
(*    one at that moment.                                                  *)
(***************************************************************************)
EXTENDS StatsBuffer

CONSTANTS Key, Request, None

VARIABLES
    running,  \* running[k]: a collection of k is under way
    shown,    \* shown[k]: what a reader of k sees, Absent when it expired
    kept,     \* kept[k]: what was last written under k, expired or not
    pending,  \* pending[q]: the key q asked for, None when q is answered
    reply,    \* reply[q]: what the last request of q came back with
    taken     \* how many samples Docker has taken

vars == <<running, shown, kept, pending, reply, taken>>

Init ==
    /\ running = [k \in Key |-> FALSE]
    /\ shown = [k \in Key |-> Absent]
    /\ kept = [k \in Key |-> Absent]
    /\ pending = [q \in Request |-> None]
    /\ reply = [q \in Request |-> "none"]
    /\ taken = 0

Measure ==
    /\ taken' = taken + 1
    /\ UNCHANGED <<running, shown, kept, pending, reply>>

Begin(k) ==
    /\ ~ running[k]
    /\ running' = [running EXCEPT ![k] = TRUE]
    /\ UNCHANGED <<shown, kept, pending, reply, taken>>

Write(k) ==
    /\ running[k]
    /\ \E base \in {Absent, kept[k]}, s \in 1 .. taken :
          /\ s > Newest(kept[k])
          /\ kept' = [kept EXCEPT ![k] = Extend(base, s)]
          /\ shown' = [shown EXCEPT ![k] = Extend(base, s)]
    /\ UNCHANGED <<running, pending, reply, taken>>

Expire(ks) ==
    /\ shown' = [k \in Key |-> IF k \in ks THEN Absent ELSE shown[k]]
    /\ UNCHANGED <<running, kept, pending, reply, taken>>

End(k) ==
    /\ running[k]
    /\ running' = [running EXCEPT ![k] = FALSE]
    /\ UNCHANGED <<shown, kept, pending, reply, taken>>

Ask(q, k) ==
    /\ pending[q] = None
    /\ pending' = [pending EXCEPT ![q] = k]
    /\ reply' = [reply EXCEPT ![q] = "none"]
    /\ UNCHANGED <<running, shown, kept, taken>>

Answer(q, outcome) ==
    /\ pending[q] # None
    /\ outcome = "value" => shown[pending[q]] # Absent
    /\ pending' = [pending EXCEPT ![q] = None]
    /\ reply' = [reply EXCEPT ![q] = outcome]
    /\ UNCHANGED <<running, shown, kept, taken>>

\* The process dies: its collections and its callers with it, not the cache.
Restart ==
    /\ running' = [k \in Key |-> FALSE]
    /\ pending' = [q \in Request |-> None]
    /\ reply' = [q \in Request |->
                    IF pending[q] = None THEN reply[q] ELSE "error"]
    /\ UNCHANGED <<shown, kept, taken>>

Next ==
    \/ Measure
    \/ \E k \in Key : Begin(k) \/ Write(k) \/ End(k)
    \/ \E ks \in SUBSET Key : Expire(ks)
    \/ \E q \in Request, k \in Key : Ask(q, k)
    \/ \E q \in Request, outcome \in {"value", "error"} : Answer(q, outcome)
    \/ Restart

Spec == Init /\ [][Next]_vars
============================================================================
