----------------------------- MODULE MCDispatch ----------------------------
(* Dispatch for TLC: one container that every target matches and one that   *)
(* only some match.                                                         *)
EXTENDS Dispatch, TLC

CONSTANTS c1, c2, id, name, h1

Matches == [t \in Target |-> IF t = id THEN {c1} ELSE {c1, c2}]
============================================================================
