------------------------------ MODULE ExecutorV3 ------------------------------
(***************************************************************************)
(* agent/executor_v3.py puts the agent-native kinds together: a task that  *)
(* spawns or awaits children (Delegation), and one that lets a model drive *)
(* the executor (LlmLoop) in the thread it was given.  `iddo-harness ask`  *)
(* runs the other loop in a process of its own, without tasks.             *)
(***************************************************************************)
EXTENDS Delegation, LlmLoop

allVars == <<vars, llmVars>>

\* (One llm_task at a time, and one policy file where no model runs: bounds.)
V3Init ==
  /\ Init /\ LlmInit
  /\ driver = (IF \A t \in Task : pc[t] = "absent" THEN "ask" ELSE "task")
  /\ (\E t \in Task : pc[t] # "absent" /\ Does[t] # "llm") => policy = CHOOSE f \in Files : TRUE

\* _llm_task begins, and answers when the loop is over.
LlmBegins(t) ==
  /\ pc[t] = "run" /\ Does[t] = "llm" /\ Start /\ UNCHANGED vars

LlmEnds(t) ==
  /\ pc[t] = "run" /\ Does[t] = "llm" /\ phase = "done"
  /\ End(t, IF stop = "final" THEN "ok" ELSE "failed")
  /\ UNCHANGED <<runs, depth, chain, next, watch, llmVars>>

Ask ==
  \/ driver = "ask" /\ Start
  \/ LlmStep
  \/ \E b \in Slot : HealthCheck(b)

V3Next ==
  \/ Next /\ UNCHANGED llmVars
  \/ Ask /\ UNCHANGED vars
  \/ \E t \in Task : LlmBegins(t) \/ LlmEnds(t)

\* The threads of the pool as in Delegation; a model answers or fails.
V3Fairness ==
  /\ \A t \in Task :
       /\ WF_allVars(Step(t) /\ UNCHANGED llmVars)
       /\ WF_allVars(TimesOut(t) /\ UNCHANGED llmVars)
       /\ WF_allVars(LlmBegins(t) \/ LlmEnds(t))
  /\ WF_allVars(LlmStep /\ UNCHANGED vars)

V3Spec == V3Init /\ [][V3Next]_allVars /\ V3Fairness
=============================================================================
