---------------------------- MODULE MCTaskRunner -----------------------------
(***************************************************************************)
(* Instances of TaskRunner for TLC.  Tasks a and b contend for the pool;   *)
(* b depends on a where a run says so.                                     *)
(***************************************************************************)
EXTENDS TaskRunner, TLC

CONSTANTS a, b

Workers == Permutations(Worker)

\* a is high and flaky; b is low and may be stopped by a policy verdict.
RankHighLow == a :> 0 @@ b :> 2
NoConstraint == a :> 0 @@ b :> 0
ALater == a :> 1 @@ b :> 0
BExpires == a :> MaxTime + 1 @@ b :> 0
BExpiresLast == a :> MaxTime + 1 @@ b :> MaxTime - 1
BDependsOnA == a :> {} @@ b :> {a}
TwoAttempts == a :> 2 @@ b :> 1
AFlaky == a :> {"ok", "error"} @@ b :> {"ok"}
AnyAnswer == a :> {"ok", "error", "verdict"} @@ b :> {"ok", "verdict"}
=============================================================================
