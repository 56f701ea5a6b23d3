------------------------------ MODULE TaskPool -------------------------------
(***************************************************************************)
(* What the task runner promises, without its threads: a task is out,      *)
(* queued or running; at most Capacity run at once, each id at most once,  *)
(* and only after everything it depends on has succeeded.                  *)
(***************************************************************************)
EXTENDS Integers, FiniteSets

CONSTANTS Task, Capacity, Deps

VARIABLES queued, running, succeeded

poolVars == <<queued, running, succeeded>>

Init == queued = {} /\ running = {} /\ succeeded = {}

\* A task that is neither queued nor running may be submitted.
Accept(t) ==
  /\ t \notin queued \cup running
  /\ queued' = queued \cup {t}
  /\ UNCHANGED <<running, succeeded>>

\* Cancelled, or past their deadline: they leave without running.
Withdraw(ts) ==
  /\ ts \subseteq queued
  /\ queued' = queued \ ts
  /\ UNCHANGED <<running, succeeded>>

Start(t) ==
  /\ t \in queued
  /\ Deps[t] \subseteq succeeded
  /\ Cardinality(running) < Capacity
  /\ queued' = queued \ {t}
  /\ running' = running \cup {t}
  /\ UNCHANGED succeeded

Retire(t) ==
  /\ t \in running
  /\ running' = running \ {t}
  /\ succeeded' \in {succeeded, succeeded \cup {t}}
  /\ UNCHANGED queued

Next ==
  \/ \E t \in Task : Accept(t) \/ Start(t) \/ Retire(t)
  \/ \E ts \in SUBSET queued : Withdraw(ts)

Spec == Init /\ [][Next]_poolVars
=============================================================================
