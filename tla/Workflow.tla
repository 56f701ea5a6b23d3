------------------------------ MODULE Workflow -------------------------------
(***************************************************************************)
(* agent/workflow.py: one packet that carries a plan.  WorkflowRunner.run  *)
(* launches the nodes whose dependencies have resolved on a pool of        *)
(* max_parallel threads and wakes up whenever one of them ends; cancel may *)
(* be called from another thread at any time.                              *)
(*                                                                         *)
(* A plan is what parse_workflow accepts; payloads and the substitution of *)
(* outputs into them are left out, except for when an output exists.       *)
(***************************************************************************)
EXTENDS Naturals, FiniteSets

CONSTANTS
  Node,
  Index,     \* position of each node in the "nodes" list of the packet
  Plans      \* the plans to run: [deps, advisory, failFast, maxParallel]

\* topological_order (Kahn): the nodes left after k rounds of taking away all
\* those whose dependencies are gone.
Remaining(deps) ==
  LET left[k \in 0..Cardinality(Node)] ==
        IF k = 0 THEN Node
        ELSE {n \in left[k - 1] : deps[n] \cap left[k - 1] # {}}
  IN  left

Acyclic(deps) == Remaining(deps)[Cardinality(Node)] = {}

\* parse_workflow: known dependencies, no cycle, max_parallel at least 1 (beyond
\* the number of nodes it makes no difference).
Accepted ==
  {p \in [deps : [Node -> SUBSET Node], advisory : SUBSET Node,
          failFast : BOOLEAN, maxParallel : 1..Cardinality(Node)] :
     Acyclic(p.deps)}

ASSUME WorkflowAssumption ==
  /\ IsFiniteSet(Node)
  /\ Index \in [Node -> Nat]
  /\ \A m, n \in Node : Index[m] = Index[n] => m = n
  /\ Plans \subseteq Accepted

VARIABLES
  plan,       \* the WorkflowSpec of this run
  pc,         \* where run's loop is
  pending,    \* nodes neither launched nor resolved
  inFlight,   \* nodes submitted to the pool, not yet harvested
  finished,   \* those of inFlight whose future is done
  verdict,    \* what the executor answered for each of them
  outcome,    \* outcomes, "none" where the dict has no entry
  stop,       \* stop_launching
  cancelled,  \* the _cancelled event
  ok          \* "ok" of the summary

vars == <<plan, pc, pending, inFlight, finished, verdict, outcome, stop,
          cancelled, ok>>

Outcomes == {"none", "succeeded", "failed", "skipped", "cancelled"}

TypeOK ==
  /\ plan \in Plans
  /\ pc \in {"launch", "check", "wait", "summary", "done"}
  /\ pending \subseteq Node
  /\ inFlight \subseteq Node
  /\ finished \subseteq inFlight
  /\ verdict \in [Node -> {"succeeded", "failed"}]
  /\ outcome \in [Node -> Outcomes]
  /\ stop \in BOOLEAN /\ cancelled \in BOOLEAN /\ ok \in BOOLEAN

Init ==
  /\ plan \in Plans
  /\ pc = "launch"
  /\ pending = Node
  /\ inFlight = {} /\ finished = {}
  /\ verdict = [n \in Node |-> "failed"]
  /\ outcome = [n \in Node |-> "none"]
  /\ stop = FALSE /\ cancelled = FALSE /\ ok = FALSE

Resolved(n) == outcome[n] # "none"

\* Wrong _ready_nodes: one resolved dependency is enough.
ReadyByAny ==
  {n \in pending : plan.deps[n] = {} \/ \E d \in plan.deps[n] : Resolved(d)}

\* _ready_nodes, before the cut to the free slots.
Ready == {n \in pending : \A d \in plan.deps[n] : Resolved(d)}

\* Wrong cut: the nodes already in flight are not counted.
ChosenPerPass ==
  LET ahead(n) == {m \in Ready : Index[m] < Index[n]}
  IN  {n \in Ready : Cardinality(ahead(n)) < plan.maxParallel}

\* ready[:slots]: the first of them in the order of the packet.
Chosen ==
  LET ahead(n) == {m \in Ready : Index[m] < Index[n]}
  IN  {n \in Ready :
         Cardinality(ahead(n)) + Cardinality(inFlight) < plan.maxParallel}

\* _skip_reason is not empty.
Skipped(n) == \E d \in plan.deps[n] : outcome[d] \notin {"none", "succeeded"}

-----------------------------------------------------------------------------
(* The loop of run *)

Launch ==
  /\ pc = "launch"
  /\ pc' = "check"
  /\ IF stop \/ cancelled
     THEN UNCHANGED <<pending, inFlight, outcome>>
     ELSE /\ pending' = pending \ Chosen
          /\ inFlight' = inFlight \cup {n \in Chosen : ~Skipped(n)}
          /\ outcome' = [n \in Node |-> IF n \in Chosen /\ Skipped(n)
                                        THEN "skipped" ELSE outcome[n]]
  /\ UNCHANGED <<plan, finished, verdict, stop, cancelled, ok>>

\* Wrong resolution of the rest of the plan: give up without an outcome.
AbandonRest ==
  /\ pc = "check" /\ inFlight = {}
  /\ pc' = "summary"
  /\ UNCHANGED <<plan, pending, inFlight, finished, verdict, outcome, stop,
                 cancelled, ok>>

\* Nothing in flight: whatever is left is resolved without running.
ResolveRest ==
  /\ pc = "check" /\ inFlight = {}
  /\ pc' = "summary"
  /\ pending' = {}
  /\ outcome' = [n \in Node |->
       IF n \notin pending THEN outcome[n]
       ELSE IF cancelled THEN "cancelled" ELSE "skipped"]
  /\ UNCHANGED <<plan, inFlight, finished, verdict, stop, cancelled, ok>>

\* The summary reads the cancel event once more: its "ok" means no failure that
\* was not advisory, and no cancel by now.
Summarise ==
  /\ pc = "summary"
  /\ pc' = "done"
  /\ ok' = (~cancelled /\ \A n \in Node : outcome[n] = "failed" => n \in plan.advisory)
  /\ UNCHANGED <<plan, pending, inFlight, finished, verdict, outcome, stop,
                 cancelled>>

Wait ==
  /\ pc = "check" /\ inFlight # {}
  /\ pc' = "wait"
  /\ UNCHANGED <<plan, pending, inFlight, finished, verdict, outcome, stop,
                 cancelled, ok>>

\* A node of the batch fails the plan under fail_fast.
Blocking(n) == verdict[n] = "failed" /\ n \notin plan.advisory /\ plan.failFast

\* Wrong harvests: only the last future of the batch decides; the futures of
\* the batch stay in in_flight and are found done again.
HarvestLast ==
  /\ pc = "wait" /\ finished # {}
  /\ pc' = "launch"
  /\ outcome' = [n \in Node |-> IF n \in finished THEN verdict[n] ELSE outcome[n]]
  /\ stop' = \E n \in finished :
               (\A m \in finished : Index[m] <= Index[n]) /\ Blocking(n)
  /\ inFlight' = inFlight \ finished
  /\ finished' = {}
  /\ UNCHANGED <<plan, pending, verdict, cancelled, ok>>
HarvestKeeping ==
  /\ pc = "wait" /\ finished # {}
  /\ pc' = "launch"
  /\ outcome' = [n \in Node |-> IF n \in finished THEN verdict[n] ELSE outcome[n]]
  /\ stop' = (stop \/ \E n \in finished : Blocking(n))
  /\ UNCHANGED <<plan, pending, inFlight, finished, verdict, cancelled, ok>>

\* wait(FIRST_COMPLETED) returns every future done by now.
Harvest ==
  /\ pc = "wait" /\ finished # {}
  /\ pc' = "launch"
  /\ outcome' = [n \in Node |-> IF n \in finished THEN verdict[n] ELSE outcome[n]]
  /\ stop' = (stop \/ \E n \in finished : Blocking(n))
  /\ inFlight' = inFlight \ finished
  /\ finished' = {}
  /\ UNCHANGED <<plan, pending, verdict, cancelled, ok>>

-----------------------------------------------------------------------------
(* The other threads *)

\* _run_node: the executor answers, or raises, which is a failure.
RunNode(n) ==
  /\ n \in inFlight \ finished
  /\ finished' = finished \cup {n}
  /\ \E v \in {"succeeded", "failed"} : verdict' = [verdict EXCEPT ![n] = v]
  /\ UNCHANGED <<plan, pc, pending, inFlight, outcome, stop, cancelled, ok>>

cancel ==
  /\ ~cancelled /\ pc # "done"
  /\ cancelled' = TRUE
  /\ UNCHANGED <<plan, pc, pending, inFlight, finished, verdict, outcome, stop, ok>>

-----------------------------------------------------------------------------
Loop == Launch \/ ResolveRest \/ Summarise \/ Wait \/ Harvest

Next == Loop \/ (\E n \in Node : RunNode(n)) \/ cancel

Spec == Init /\ [][Next]_vars

\* The caller's thread runs, and every node ends: its kind has a timeout.
Fairness == WF_vars(Loop) /\ \A n \in Node : WF_vars(RunNode(n))

FairSpec == Spec /\ Fairness

-----------------------------------------------------------------------------
\* A dependency that has ended with something a dependent may go on from.
Behind(d) ==
  outcome[d] = "succeeded" \/ (outcome[d] = "failed" /\ d \in plan.advisory)

\* A node is handed to the pool only once everything it depends on has run to
\* its end, so each ${nodes.x.y} in it has a value when it is substituted, and
\* none of it failed but where continue_on_error lets a plan go on.  (The code
\* skips the dependents there too; v3_track_c.md:154 lets them run.)
RunsAfterDependencies ==
  \A n \in Node :
    n \in inFlight \/ outcome[n] \in {"succeeded", "failed"} =>
      \A d \in plan.deps[n] : Behind(d)

\* Every node is in one place: waiting, in flight, or in the outcomes; at the
\* end each has an outcome, so the summary's counts add up to the total.
EveryNodeAccounted ==
  /\ \A n \in Node :
       /\ n \in pending => n \notin inFlight /\ ~Resolved(n)
       /\ n \in inFlight => ~Resolved(n)
       /\ n \in pending \cup inFlight \/ Resolved(n)
  /\ pc \in {"summary", "done"} => \A n \in Node : Resolved(n)

\* max_parallel is never exceeded, however the batches of futures end.
ParallelismBounded == Cardinality(inFlight) <= plan.maxParallel

\* fail_fast: once a failure that was not advisory is in the outcomes, nothing
\* is launched any more, whatever else ended in the same batch.
FailFastStops ==
  [][plan.failFast /\ (\E n \in Node \ plan.advisory : outcome[n] = "failed")
       => inFlight' \subseteq inFlight]_vars

\* workflow.py: "a silent hang is the one outcome a workflow must not have".
Terminates == <>(pc = "done")

=============================================================================
