-------------------------- MODULE MCStatsCollector -------------------------
(***************************************************************************)
(* Instances of StatsCollector for TLC.  One tick stands for a few         *)
(* seconds; what counts is the order of the spans.  Host: interval 5 s <   *)
(* TTL 10 s < request timeout 30 s < budget 65 s.  Container: interval 5 s *)
(* < timeout 30 s < TTL 60 s < budget 65 s.                                *)
(***************************************************************************)
EXTENDS StatsCollector, TLC

CONSTANTS host, web, q1, q2, r1, r2

\* Requests are alike and so are cells.  For runs without liveness only.
Symmetry == Permutations(Request) \cup Permutations(Refresh)
============================================================================
