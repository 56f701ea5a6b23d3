----------------------------- MODULE MCWorkflow ------------------------------
(* Instances of Workflow for TLC: nodes a, b, c, d in the order of the packet. *)
EXTENDS Workflow, TLC

CONSTANTS a, b, c, d

IndexAbcd == a :> 1 @@ b :> 2 @@ c :> 3 @@ d :> 4

\* Every graph of a, b and c, with d on its own: while a, b and c wait for each
\* other d keeps a slot busy.
GraphPlans ==
  {p \in [deps : {[n \in Node |-> IF n = d THEN {} ELSE g[n]] :
                     g \in [{a, b, c} -> SUBSET {a, b, c}]},
          advisory : {{}, {a}, {b, c}},
          failFast : BOOLEAN,
          maxParallel : 1..3] : Acyclic(p.deps)}
=============================================================================
