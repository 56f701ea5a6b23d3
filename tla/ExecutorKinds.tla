---------------------------- MODULE ExecutorKinds ----------------------------
(***************************************************************************)
(* All kinds of the v2 executor that keep state: streams, sessions and the *)
(* cancel table (ExecutorV2) and the file kinds and watches (FileKinds).   *)
(* The two share the worker threads and nothing else, and a behaviour has  *)
(* tasks of one sort only: a bound.                                        *)
(***************************************************************************)
EXTENDS ExecutorV2, FileKinds

KindsInit ==
  /\ Init /\ FileInit
  /\ (asked = {}) # (\A t \in Task : answer[t] = "absent")

KindsNext ==
  \/ asked = {} /\ Next /\ UNCHANGED fileVars
  \/ asked # {} /\ FileNext /\ UNCHANGED vars

KindsSpec == KindsInit /\ [][KindsNext]_<<vars, fileVars>>
=============================================================================
