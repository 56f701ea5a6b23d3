--------------------------- MODULE MCGitTransport ---------------------------
(* Instances of GitTransport for TLC.                                      *)
EXTENDS GitTransport, TLC

CONSTANTS t1, t2, w1, w2, main, cli, none

\* The workers are alike, and no property is about liveness.
WorkersAlike == Permutations(Worker)
=============================================================================
