---------------------------- MODULE MCStatusFeed ----------------------------
(* Small instances of StatusFeed for TLC. *)
EXTENDS StatusFeed, TLC

CONSTANTS get, post1, post2

\* One request sends two commands in a row, the other one.
Sizes == post1 :> 2 @@ post2 :> 1
=============================================================================
