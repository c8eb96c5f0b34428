---------------------------- MODULE MCLifecycle ----------------------------
(* Lifecycle for TLC: two requests, ticks of five seconds.                  *)
EXTENDS Lifecycle, TLC

CONSTANTS h1, h2

Handlers == {h1, h2}

Symmetry == Permutations(Handlers)
=============================================================================
