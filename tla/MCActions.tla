------------------------------ MODULE MCActions ----------------------------
(* Actions for TLC.  Two users with an inbox each and a folder with         *)
(* "Shared" in its name; two mailboxes with one index, of which one has the *)
(* name in the garbage that the index has, and a third without an index     *)
(* whose name there is that of the first.                                   *)
EXTENDS Actions, TLC

CONSTANTS c1, c2, alice, bob, anyone, Alice, Bob, Bobs, d1, d2, d3

\* Alice and Bob are the users as identifiers; Bobs is a group called bob.
MCUserIs == (alice :> Alice) @@ (bob :> Bob)
MCCut == (Alice :> alice) @@ (Bob :> bob) @@ (Bobs :> bob) @@ (anyone :> Unnamed)

MCSane == [m \in Mailbox |->
              IF m = "a/b/x_index" THEN "abx_index" ELSE "abx"]
MCIndexName == [m \in Mailbox |-> "b@a"]
MCSuffixed == ("abx" :> "abx_index") @@ ("abx_index" :> "abx_index_index")
              @@ ("b@a" :> "b@a_index")
MCBase == ("a/b/x" :> "x") @@ ("a/b/x_index" :> "x_index") @@ ("abx" :> "abx")

Symmetry == Permutations(Call) \cup Permutations(Directory)
============================================================================
