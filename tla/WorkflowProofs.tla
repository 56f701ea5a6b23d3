---------------------------- MODULE WorkflowProofs ---------------------------
(***************************************************************************)
(* Proofs about Workflow, for any number of nodes, every plan, every order *)
(* in which nodes end and a cancel at any time.                            *)
(***************************************************************************)
EXTENDS Workflow, FiniteSetTheorems, TLAPS

\* Types at first ...
LEMMA TypingInit == Init => TypeOK
  BY DEF Init, TypeOK, Outcomes

\* ... and after every step.
LEMMA TypingStep == TypeOK /\ [Next]_vars => TypeOK'
  <1> SUFFICES ASSUME TypeOK, [Next]_vars PROVE TypeOK'
    OBVIOUS
  <1> USE DEF TypeOK, Outcomes
  <1>1. CASE Launch
    BY <1>1 DEF Launch, Chosen, Ready
  <1>2. CASE ResolveRest
    BY <1>2 DEF ResolveRest
  <1>3. CASE Wait
    BY <1>3 DEF Wait
  <1>4. CASE Harvest
    <2>1. stop' \in BOOLEAN
      BY <1>4 DEF Harvest
    <2>2. QED
      BY <1>4, <2>1 DEF Harvest
  <1>5. ASSUME NEW n \in Node, RunNode(n) PROVE TypeOK'
    BY <1>5 DEF RunNode
  <1>6. CASE cancel
    BY <1>6 DEF cancel
  <1>7. CASE UNCHANGED vars
    BY <1>7 DEF vars
  <1>8. CASE Summarise
    <2>1. ok' \in BOOLEAN
      BY <1>8 DEF Summarise
    <2>2. QED
      BY <1>8, <2>1 DEF Summarise
  <1>9. QED
    BY <1>1, <1>2, <1>3, <1>4, <1>5, <1>6, <1>7, <1>8 DEF Next, Loop

\* A node in pending has no outcome yet, so nothing resolved at the end of the
\* run had run before it.
LEMMA AccountedStep ==
  TypeOK /\ EveryNodeAccounted /\ [Next]_vars => EveryNodeAccounted'
  <1> SUFFICES ASSUME TypeOK, EveryNodeAccounted, [Next]_vars
               PROVE  EveryNodeAccounted'
    OBVIOUS
  <1> USE DEF TypeOK, Outcomes, EveryNodeAccounted, Resolved
  <1>1. CASE Launch
    <2>1. Chosen \subseteq pending
      BY DEF Chosen, Ready
    <2>2. QED
      BY <1>1, <2>1 DEF Launch
  <1>2. CASE ResolveRest
    BY <1>2 DEF ResolveRest
  <1>3. CASE Wait
    BY <1>3 DEF Wait
  <1>4. CASE Harvest
    BY <1>4 DEF Harvest
  <1>5. ASSUME NEW n \in Node, RunNode(n) PROVE EveryNodeAccounted'
    BY <1>5 DEF RunNode
  <1>6. CASE cancel
    BY <1>6 DEF cancel
  <1>7. CASE UNCHANGED vars
    BY <1>7 DEF vars
  <1>8. CASE Summarise
    BY <1>8 DEF Summarise
  <1>9. QED
    BY <1>1, <1>2, <1>3, <1>4, <1>5, <1>6, <1>7, <1>8 DEF Next, Loop

\* A step that launches a node has seen its dependencies succeed, and no
\* outcome changes.
LEMMA OrderStep ==
  TypeOK /\ EveryNodeAccounted /\ RunsAfterDependencies /\ [Next]_vars
    => RunsAfterDependencies'
  <1> SUFFICES ASSUME TypeOK, EveryNodeAccounted, RunsAfterDependencies,
                      [Next]_vars
               PROVE  RunsAfterDependencies'
    OBVIOUS
  <1>1. \A n \in Node : plan.deps[n] \subseteq Node
    BY WorkflowAssumption DEF TypeOK, Accepted
  <1> USE <1>1 DEF TypeOK, Outcomes, RunsAfterDependencies, Behind
  <1>2. CASE Launch
    <2>1. \A n \in Chosen : ~Skipped(n) =>
            \A d \in plan.deps[n] : outcome[d] = "succeeded"
      BY DEF Chosen, Ready, Skipped, Resolved
    <2>2. \A n \in Chosen : ~Resolved(n)
      BY DEF Chosen, Ready, EveryNodeAccounted
    <2>3. QED
      BY <1>2, <2>1, <2>2 DEF Launch, Resolved
  <1>3. CASE ResolveRest
    BY <1>3 DEF ResolveRest, EveryNodeAccounted, Resolved
  <1>4. CASE Wait
    BY <1>4 DEF Wait
  <1>5. CASE Harvest
    BY <1>5 DEF Harvest, EveryNodeAccounted, Resolved
  <1>6. ASSUME NEW n \in Node, RunNode(n) PROVE RunsAfterDependencies'
    BY <1>6 DEF RunNode
  <1>7. CASE cancel
    BY <1>7 DEF cancel
  <1>8. CASE UNCHANGED vars
    BY <1>8 DEF vars
  <1>9. CASE Summarise
    BY <1>9 DEF Summarise
  <1>10. QED
    BY <1>2, <1>3, <1>4, <1>5, <1>6, <1>7, <1>8, <1>9 DEF Next, Loop

\* Every node of every plan ends with exactly one outcome.
THEOREM NodesAccounted == Spec => []EveryNodeAccounted
  <1>1. Init => EveryNodeAccounted
    BY DEF Init, EveryNodeAccounted, Resolved
  <1>2. QED
    BY <1>1, TypingInit, TypingStep, AccountedStep, PTL DEF Spec

\* No node of any plan is launched before all it depends on has run to its end,
\* nor behind a failure that continue_on_error does not cover.
THEOREM DependenciesFirst == Spec => []RunsAfterDependencies
  <1>1. Init => RunsAfterDependencies
    BY DEF Init, RunsAfterDependencies
  <1>2. QED
    BY <1>1, NodesAccounted, TypingInit, TypingStep, OrderStep, PTL DEF Spec

-----------------------------------------------------------------------------
\* What makes fail_fast last: the failure and stop_launching are written in the
\* same step, and nothing resets the flag.
FailureStops ==
  plan.failFast /\ (\E n \in Node \ plan.advisory : outcome[n] = "failed") => stop

\* A failure that counts and stop_launching stay together.
LEMMA FailureStopsStep == TypeOK /\ FailureStops /\ [Next]_vars => FailureStops'
  <1> SUFFICES ASSUME TypeOK, FailureStops, [Next]_vars PROVE FailureStops'
    OBVIOUS
  <1> USE DEF TypeOK, Outcomes, FailureStops
  <1>1. CASE Launch
    BY <1>1 DEF Launch
  <1>2. CASE ResolveRest
    BY <1>2 DEF ResolveRest
  <1>3. CASE Wait
    BY <1>3 DEF Wait
  <1>4. CASE Harvest
    BY <1>4 DEF Harvest, Blocking
  <1>5. ASSUME NEW n \in Node, RunNode(n) PROVE FailureStops'
    BY <1>5 DEF RunNode
  <1>6. CASE cancel
    BY <1>6 DEF cancel
  <1>7. CASE UNCHANGED vars
    BY <1>7 DEF vars
  <1>8. CASE Summarise
    BY <1>8 DEF Summarise
  <1>9. QED
    BY <1>1, <1>2, <1>3, <1>4, <1>5, <1>6, <1>7, <1>8 DEF Next, Loop

\* After a failure that counts under fail_fast, no step launches a node.
THEOREM FailFastHolds == Spec => FailFastStops
  <1>1. Init => FailureStops
    BY DEF Init, FailureStops
  <1>2. FailureStops /\ [Next]_vars =>
          [plan.failFast /\ (\E n \in Node \ plan.advisory : outcome[n] = "failed")
             => inFlight' \subseteq inFlight]_vars
    <2> SUFFICES ASSUME FailureStops, [Next]_vars, plan.failFast,
                        \E n \in Node \ plan.advisory : outcome[n] = "failed"
                 PROVE  inFlight' \subseteq inFlight
      OBVIOUS
    <2>1. stop
      BY DEF FailureStops
    <2>2. QED
      BY <2>1 DEF Next, Loop, Launch, ResolveRest, Summarise, Wait, Harvest,
                  RunNode, cancel, vars
  <1>3. QED
    BY <1>1, <1>2, TypingInit, TypingStep, FailureStopsStep, PTL
       DEF Spec, FailFastStops

-----------------------------------------------------------------------------
(* The cap *)

\* The cut counts positions: two chosen nodes have different numbers of ready
\* nodes ahead of them, and each number is below the count of free slots.
LEMMA CutFits ==
  ASSUME TypeOK, ParallelismBounded
  PROVE  /\ IsFiniteSet(Chosen)
         /\ Cardinality(Chosen) + Cardinality(inFlight) <= plan.maxParallel
  <1> DEFINE Ahead(n) == {m \in Ready : Index[m] < Index[n]}
             free == plan.maxParallel - Cardinality(inFlight)
             f == [n \in Chosen |-> Cardinality(Ahead(n)) + 1]
  <1>1. /\ \A n \in Node : Index[n] \in Nat
        /\ \A m, n \in Node : Index[m] = Index[n] => m = n
    BY WorkflowAssumption
  <1>2. plan.maxParallel \in Nat /\ Cardinality(inFlight) \in Nat
    <2>1. IsFiniteSet(inFlight) /\ Cardinality(Node) \in Nat
      BY FS_Subset, FS_CardinalityType, WorkflowAssumption DEF TypeOK
    <2>2. plan.maxParallel \in 1..Cardinality(Node)
      BY WorkflowAssumption DEF TypeOK, Accepted
    <2>3. QED
      BY <2>1, <2>2, FS_CardinalityType
  <1>3. free \in Nat
    BY <1>2 DEF ParallelismBounded
  <1>4. Ready \subseteq Node /\ Chosen \subseteq Ready
    BY DEF Ready, Chosen, TypeOK
  <1>5. \A n \in Node : IsFiniteSet(Ahead(n)) /\ Cardinality(Ahead(n)) \in Nat
    BY <1>4, FS_Subset, FS_CardinalityType, WorkflowAssumption
  <1>6. \A n \in Chosen : Cardinality(Ahead(n)) + Cardinality(inFlight) < plan.maxParallel
    BY DEF Chosen
  <1>7. f \in [Chosen -> 1..free]
    <2> HIDE DEF Ahead
    <2>1. ASSUME NEW n \in Chosen PROVE Cardinality(Ahead(n)) + 1 \in 1..free
      <3>1. n \in Node /\ Cardinality(Ahead(n)) \in Nat
        BY <1>4, <1>5
      <3>2. QED
        BY <1>2, <1>6, <3>1
    <2>2. QED
      BY <2>1
  <1>8. ASSUME NEW m \in Chosen, NEW n \in Chosen, Index[m] < Index[n]
        PROVE  Cardinality(Ahead(m)) < Cardinality(Ahead(n))
    <2>1. Ahead(m) \cup {m} \subseteq Ahead(n) /\ m \notin Ahead(m)
      BY <1>1, <1>4, <1>8
    <2>2. Cardinality(Ahead(m) \cup {m}) = Cardinality(Ahead(m)) + 1
      BY <1>4, <1>5, <2>1, FS_AddElement
    <2>3. Cardinality(Ahead(m) \cup {m}) <= Cardinality(Ahead(n))
      BY <1>4, <1>5, <2>1, FS_Subset
    <2>4. Cardinality(Ahead(m)) \in Nat /\ Cardinality(Ahead(n)) \in Nat
      BY <1>4, <1>5
    <2> HIDE DEF Ahead
    <2>5. QED
      BY <2>2, <2>3, <2>4
  <1>9. \A m, n \in Chosen : f[m] = f[n] => m = n
    <2> SUFFICES ASSUME NEW m \in Chosen, NEW n \in Chosen, m # n
                 PROVE  f[m] # f[n]
      OBVIOUS
    <2>1. Index[m] < Index[n] \/ Index[n] < Index[m]
      BY <1>1, <1>4
    <2>2. Cardinality(Ahead(m)) \in Nat /\ Cardinality(Ahead(n)) \in Nat
      BY <1>4, <1>5
    <2> HIDE DEF Ahead
    <2>3. Cardinality(Ahead(m)) # Cardinality(Ahead(n))
      BY <1>8, <2>1, <2>2
    <2>4. QED
      BY <2>2, <2>3
  <1>10. f \in Injection(Chosen, 1..free)
    BY <1>7, <1>9 DEF Injection, IsInjective
  <1>11. IsFiniteSet(1..free) /\ Cardinality(1..free) = free
    <2> HIDE DEF free
    <2>1. /\ IsFiniteSet(1..free)
          /\ Cardinality(1..free) = IF 1 > free THEN 0 ELSE free - 1 + 1
      BY <1>3, FS_Interval
    <2>2. QED
      BY <1>3, <2>1
  <1>12. IsFiniteSet(Chosen) /\ Cardinality(Chosen) <= free
    BY <1>10, <1>11, FS_Injection
  <1>13. QED
    BY <1>2, <1>12, FS_CardinalityType

\* At most max_parallel nodes are on the thread pool at once.
THEOREM ParallelismKept == Spec => []ParallelismBounded
  <1>0. ASSUME NEW S \in SUBSET Node
        PROVE  IsFiniteSet(S) /\ Cardinality(S) \in Nat
    BY FS_Subset, FS_CardinalityType, WorkflowAssumption
  <1>a. TypeOK => plan.maxParallel \in 1..Cardinality(Node)
    BY WorkflowAssumption DEF TypeOK, Accepted
  <1>1. Init => ParallelismBounded
    <2> SUFFICES ASSUME Init PROVE ParallelismBounded
      OBVIOUS
    <2>1. Cardinality(inFlight) = 0
      BY FS_EmptySet DEF Init
    <2>2. plan.maxParallel \in 1..Cardinality(Node)
      BY <1>a, TypingInit
    <2>3. QED
      BY <2>1, <2>2, <1>0 DEF ParallelismBounded
  <1>2. ASSUME TypeOK, ParallelismBounded, [Next]_vars PROVE ParallelismBounded'
    <2>1. plan' = plan
      BY <1>2 DEF Next, Loop, Launch, ResolveRest, Summarise, Wait, Harvest,
                  RunNode, cancel, vars
    <2>2. CASE inFlight' \subseteq inFlight
      <3>1. Cardinality(inFlight') <= Cardinality(inFlight)
        BY <1>0, <1>2, <2>2, FS_Subset DEF TypeOK
      <3>2. /\ inFlight \in SUBSET Node /\ inFlight' \in SUBSET Node
            /\ Cardinality(Node) \in Nat
        BY <1>0, <1>2, <2>2 DEF TypeOK
      <3>3. QED
        BY <1>0, <1>2, <1>a, <2>1, <3>1, <3>2 DEF ParallelismBounded
    <2>3. CASE inFlight' \subseteq inFlight \cup Chosen
      <3>1. IsFiniteSet(inFlight) /\ IsFiniteSet(Chosen)
        BY <1>0, <1>2, CutFits DEF TypeOK
      <3>2. /\ IsFiniteSet(inFlight \cup Chosen)
            /\ Cardinality(inFlight \cup Chosen) =
                 Cardinality(inFlight) + Cardinality(Chosen)
                   - Cardinality(inFlight \cap Chosen)
        BY <3>1, FS_Union
      <3>3. Cardinality(inFlight') <= Cardinality(inFlight \cup Chosen)
        BY <2>3, <3>2, FS_Subset
      <3>4. /\ Cardinality(inFlight) \in Nat /\ Cardinality(Chosen) \in Nat
            /\ Cardinality(inFlight \cap Chosen) \in Nat
            /\ Cardinality(inFlight') \in Nat
        BY <2>3, <3>1, <3>2, FS_Subset, FS_CardinalityType
      <3>5. plan.maxParallel \in Nat
        BY <1>0, <1>2, <1>a
      <3>6. QED
        BY <1>2, <2>1, <3>2, <3>3, <3>4, <3>5, CutFits DEF ParallelismBounded
    <2>4. CASE Launch
      <3>1. inFlight' \subseteq inFlight \cup Chosen
        BY <2>4 DEF Launch
      <3>2. QED
        BY <2>3, <3>1
    <2>5. CASE ~Launch
      <3>1. inFlight' \subseteq inFlight
        BY <1>2, <2>5 DEF Next, Loop, ResolveRest, Summarise, Wait, Harvest,
                          RunNode, cancel, vars
      <3>2. QED
        BY <2>2, <3>1
    <2>6. QED
      BY <2>4, <2>5
  <1>3. QED
    BY <1>1, <1>2, TypingInit, TypingStep, PTL DEF Spec
=============================================================================
