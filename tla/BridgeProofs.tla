---------------------------- MODULE BridgeProofs -----------------------------
(***************************************************************************)
(* Proofs about the runner, the bridge, and what is written on it.         *)
(*                                                                         *)
(* About TaskRunner (Spec), for every set of tasks, every finite pool,     *)
(* every schedule, retry policy and executor answer, with or without a     *)
(* reporter that raises.  About Bridge (BridgeSpec), for every set of      *)
(* packets and cancel packets and any number of restarts: a step of the    *)
(* bridge is a step of the runner, leaves the runner alone, or is a        *)
(* restart, so the lemmas of the first part serve the second.  About       *)
(* Envelope, whatever its constants: an envelope survives being written    *)
(* and read, and every task that came in one can be answered in one.       *)
(***************************************************************************)
EXTENDS Bridge, Envelope, FiniteSetTheorems, TLAPS

\* How the control points relate to the data each of them works on.
Shape ==
  /\ mainPc = "spawn" <=> picked # NoTask
  /\ \A w \in Worker : pc[w] = "none" <=> task[w] = NoTask
  /\ \A w \in Worker : pc[w] \in {"losing", "backoff"} =>
       result[w].status = "error" /\ attempt[w] < MaxAttempts[task[w]]

-----------------------------------------------------------------------------
(* Types and shape *)

\* max_concurrent_tasks is a number.
LEMMA PoolSize == MaxConcurrent \in Nat
  BY FS_CardinalityType, RunnerAssumption DEF MaxConcurrent

\* Every queue operation keeps the queue well typed.
LEMMA QueueTyping ==
  ASSUME QueueTypeOK, now' \in 0..MaxTime,
         \/ \E t \in Task : add(t) \/ remove(t) \/ pop(t)
         \/ \E t \in Task, ok \in BOOLEAN : mark_completed(t, ok)
         \/ drain_expired
         \/ UNCHANGED queueVars
  PROVE  QueueTypeOK'
  <1>1. ASSUME NEW t \in Task, add(t) PROVE QueueTypeOK'
    BY <1>1 DEF add, QueueTypeOK
  <1>2. ASSUME NEW t \in Task, remove(t) PROVE QueueTypeOK'
    BY <1>2 DEF remove, Unlist, QueueTypeOK
  <1>3. ASSUME NEW t \in Task, pop(t) PROVE QueueTypeOK'
    BY <1>3 DEF pop, Unlist, QueueTypeOK
  <1>4. ASSUME NEW t \in Task, NEW ok \in BOOLEAN, mark_completed(t, ok)
        PROVE  QueueTypeOK'
    BY <1>4 DEF mark_completed, QueueTypeOK
  <1>5. CASE drain_expired
    BY <1>5 DEF drain_expired, Unlist, QueueTypeOK
  <1>6. CASE UNCHANGED queueVars
    BY <1>6 DEF queueVars, QueueTypeOK
  <1>7. QED
    BY <1>1, <1>2, <1>3, <1>4, <1>5, <1>6

\* Types and shape at first.
LEMMA TypingInit == Init => TypeOK /\ Shape
  <1>1. Init => QueueTypeOK
    BY ScheduleAssumption DEF Init, MemoryInit, QueueInit, QueueTypeOK
  <1>2. Init => TypeOK
    BY <1>1, PoolSize
    DEF Init, MemoryInit, TypeOK, MainPcs, WorkerPcs, Result, NoResult, Status
  <1>3. Init => Shape
    BY DEF Init, MemoryInit, Shape
  <1>4. QED
    BY <1>2, <1>3

\* An executor answer is a Result whose status was allowed for the task.
LEMMA AnswerTyping ==
  ASSUME NEW t \in Task, NEW r \in ExecutorResults(t)
  PROVE  r \in Result
  BY DEF ExecutorResults

\* A step of a live worker is a step on a real task.
LEMMA WorkerHasTask ==
  ASSUME TypeOK, Shape, NEW w \in Worker, WorkerStep(w)
  PROVE  task[w] \in Task /\ Live(w)
  BY DEF WorkerStep, ExecutorReturns, SendAttempt, EndBackoff, Settle, Report,
         MarkCompleted, ForgetCancel, NotifyFinished, WorkerCrashes,
         Deregister, ReleaseSlot, TypeOK, Shape, Live

\* Every step keeps the types ...
LEMMA TypingStep ==
  ASSUME TypeOK, Shape, [Next]_runnerVars
  PROVE  TypeOK'
  <1> USE RunnerAssumption, PoolSize
          DEF mainVars, registryVars, flagVars, workerVars, bridgeVars
  <1>0. QueueTypeOK
    BY DEF TypeOK
  <1>a. slots \in Nat /\ inFlight \in Int /\ attempt \in [Worker -> Nat]
    BY DEF TypeOK
  <1>1. ASSUME NEW t \in Task, submit(t) PROVE TypeOK'
    <2>1. QueueTypeOK'
      BY <1>0, <1>1, QueueTyping DEF submit, QueueTypeOK
    <2>2. QED
      BY <1>1, <2>1 DEF submit, TypeOK
  <1>2. ASSUME NEW t \in Task, handle_cancel(t) PROVE TypeOK'
    <2>1. QueueTypeOK'
      BY <1>0, <1>2, QueueTyping DEF handle_cancel, QueueTypeOK
    <2>2. QED
      BY <1>2, <2>1 DEF handle_cancel, ReturnOrDie, Publish, WriteResults, Drop, TypeOK, MainPcs
  <1>3. CASE ReportExpired
    <2>1. QueueTypeOK'
      BY <1>0, <1>3, QueueTyping DEF ReportExpired, QueueTypeOK
    <2>2. QED
      BY <1>0, <1>3, <2>1
      DEF ReportExpired, Publish, WriteResults, PublishSome, Expired, TypeOK, QueueTypeOK, MainPcs
  <1>4. CASE AcquireSlot
    <2>1. QueueTypeOK'
      BY <1>0, <1>4, QueueTyping DEF AcquireSlot, QueueTypeOK
    <2>2. slots' \in Nat
      BY <1>a, <1>4 DEF AcquireSlot
    <2>3. QED
      BY <1>4, <2>1, <2>2 DEF AcquireSlot, TypeOK, MainPcs
  <1>5. CASE NextTaskDrain
    <2>1. QueueTypeOK'
      BY <1>0, <1>5, QueueTyping DEF NextTaskDrain, QueueTypeOK
    <2>2. QED
      BY <1>0, <1>5, <2>1
      DEF NextTaskDrain, Drop, Expired, TypeOK, QueueTypeOK, MainPcs
  <1>6. CASE NextTaskPick
    <2>1. NextUp \subseteq Task
      BY <1>0 DEF NextUp, Eligible, QueueTypeOK
    <2>2. QueueTypeOK'
      BY <1>0, <1>6, <2>1, QueueTyping DEF NextTaskPick, QueueTypeOK
    <2>3. slots' \in Nat
      BY <1>a, <1>6 DEF NextTaskPick
    <2>4. QED
      BY <1>6, <2>1, <2>2, <2>3 DEF NextTaskPick, TypeOK, MainPcs
  <1>7. CASE Spawn
    <2>1. QueueTypeOK'
      BY <1>0, <1>7, QueueTyping DEF Spawn, QueueTypeOK
    <2>2. picked \in Task
      BY <1>7 DEF Spawn, TypeOK, Shape
    <2>3. inFlight' \in Int
      BY <1>a, <1>7 DEF Spawn
    <2>4. attempt' \in [Worker -> Nat]
      BY <1>a, <1>7 DEF Spawn
    <2>5. pc' \in [Worker -> WorkerPcs] /\ task' \in [Worker -> Task \cup {NoTask}]
      <3>1. pc \in [Worker -> WorkerPcs] /\ task \in [Worker -> Task \cup {NoTask}]
        BY DEF TypeOK
      <3>2. "exec" \in WorkerPcs
        BY DEF WorkerPcs
      <3>3. QED
        BY <1>7, <2>2, <3>1, <3>2 DEF Spawn
    <2>6. QED
      BY <1>7, <2>1, <2>2, <2>3, <2>4, <2>5 DEF Spawn, TypeOK, MainPcs
  <1>8. ASSUME NEW w \in Worker, WorkerStep(w) PROVE TypeOK'
    <2>1. task[w] \in Task
      BY <1>8, WorkerHasTask
    <2>2. QueueTypeOK'
      <3>1. now' \in 0..MaxTime
        BY <1>0, <1>8
        DEF QueueTypeOK, WorkerStep, ExecutorReturns, SendAttempt, EndBackoff,
            Settle, Report, MarkCompleted, ForgetCancel, NotifyFinished,
            WorkerCrashes, Deregister, ReleaseSlot
      <3>2. CASE MarkCompleted(w)
        BY <1>0, <2>1, <3>1, <3>2, QueueTyping
        DEF MarkCompleted, OutcomeOk, TypeOK
      <3>3. CASE ~MarkCompleted(w)
        BY <1>0, <1>8, <3>1, <3>3, QueueTyping
        DEF WorkerStep, ExecutorReturns, SendAttempt, EndBackoff, Settle,
            Report, ForgetCancel, NotifyFinished, WorkerCrashes, Deregister,
            ReleaseSlot
      <3>4. QED
        BY <3>2, <3>3
    <2>3. CASE ExecutorReturns(w)
      <3>1. PICK r \in Result :
              /\ result' = [result EXCEPT ![w] = r]
              /\ Goto(w, IF should_retry(w, r) THEN "losing" ELSE "settle")
        BY <2>1, <2>3, AnswerTyping DEF ExecutorReturns
      <3>2. QED
        BY <2>2, <2>3, <3>1 DEF ExecutorReturns, Goto, TypeOK, WorkerPcs
    <2>4. CASE SendAttempt(w)
      BY <2>2, <2>4 DEF SendAttempt, Goto, TypeOK, WorkerPcs
    <2>5. CASE EndBackoff(w)
      <3>1. attempt' \in [Worker -> Nat]
        BY <1>a, <2>5 DEF EndBackoff
      <3>2. QED
        BY <2>2, <2>5, <3>1 DEF EndBackoff, Goto, TypeOK, WorkerPcs
    <2>6. CASE Settle(w)
      BY <2>2, <2>6 DEF Settle, Goto, TypeOK, WorkerPcs
    <2>7. CASE Report(w)
      <3>1. published' \in [Task -> {"none", "ok", "not ok"}]
        BY <2>7 DEF Report, Publish, WriteResults, Drop, TypeOK
      <3>2. waiting' \subseteq Task /\ lost' \subseteq Task
        BY <2>1, <2>7 DEF Report, Publish, WriteResults, Drop, TypeOK
      <3>3. QED
        BY <2>2, <2>7, <3>1, <3>2 DEF Report, Goto, TypeOK, WorkerPcs
    <2>8. CASE MarkCompleted(w)
      BY <2>2, <2>8 DEF MarkCompleted, Goto, TypeOK, WorkerPcs
    <2>9. CASE ForgetCancel(w)
      BY <2>2, <2>9 DEF ForgetCancel, Goto, TypeOK, WorkerPcs
    <2>10. CASE NotifyFinished(w)
      BY <2>2, <2>10 DEF NotifyFinished, Goto, TypeOK, WorkerPcs
    <2>11. CASE WorkerCrashes(w)
      BY <2>1, <2>2, <2>11 DEF WorkerCrashes, Goto, Drop, TypeOK, WorkerPcs
    <2>12. CASE Deregister(w)
      <3>1. inFlight' \in Int
        BY <1>a, <2>12 DEF Deregister
      <3>2. QED
        BY <2>2, <2>12, <3>1 DEF Deregister, Goto, TypeOK, WorkerPcs
    <2>13. CASE ReleaseSlot(w)
      <3>1. slots' \in Nat /\ attempt' \in [Worker -> Nat]
        BY <1>a, <2>13 DEF ReleaseSlot
      <3>2. NoResult \in Result
        BY DEF NoResult, Result, Status
      <3>3. QED
        BY <2>2, <2>13, <3>1, <3>2 DEF ReleaseSlot, Goto, TypeOK, WorkerPcs
    <2>14. QED
      BY <1>8, <2>3, <2>4, <2>5, <2>6, <2>7, <2>8, <2>9, <2>10, <2>11, <2>12,
         <2>13 DEF WorkerStep
  <1>9. CASE ClockTick
    <2>1. QueueTypeOK'
      BY <1>0, <1>9, ScheduleAssumption
      DEF ClockTick, Tick, QueueTypeOK, queueVars
    <2>2. QED
      BY <1>9, <2>1 DEF ClockTick, TypeOK
  <1>10. CASE UNCHANGED runnerVars
    BY <1>10 DEF runnerVars, queueVars, TypeOK, QueueTypeOK
  <1>11. QED
    BY <1>1, <1>2, <1>3, <1>4, <1>5, <1>6, <1>7, <1>8, <1>9, <1>10
    DEF Next, Pump

\* ... and what a worker's place says of its task and answer.
LEMMA ShapeStep ==
  ASSUME TypeOK, Shape, [Next]_runnerVars
  PROVE  Shape'
  <1> USE RunnerAssumption
          DEF mainVars, registryVars, flagVars, workerVars, bridgeVars
  <1>1. ASSUME NEW t \in Task, submit(t) \/ handle_cancel(t) PROVE Shape'
    BY <1>1 DEF submit, handle_cancel, ReturnOrDie, Shape
  <1>2. CASE ReportExpired \/ AcquireSlot \/ NextTaskDrain
    BY <1>2 DEF ReportExpired, AcquireSlot, NextTaskDrain, Shape
  <1>3. CASE NextTaskPick
    BY <1>3 DEF NextTaskPick, NextUp, Eligible, TypeOK, QueueTypeOK, Shape
  <1>4. CASE Spawn
    BY <1>4 DEF Spawn, TypeOK, Shape
  <1>5. ASSUME NEW w \in Worker, WorkerStep(w) PROVE Shape'
    <2>1. task[w] \in Task
      BY <1>5, WorkerHasTask
    <2>2. CASE ExecutorReturns(w)
      BY <2>1, <2>2 DEF ExecutorReturns, Goto, should_retry, TypeOK, Shape
    <2>3. CASE EndBackoff(w)
      BY <2>1, <2>3 DEF EndBackoff, Goto, TypeOK, Shape
    <2>4. CASE ReleaseSlot(w)
      BY <2>4 DEF ReleaseSlot, Goto, TypeOK, Shape
    <2>5. CASE SendAttempt(w)
      BY <2>1, <2>5 DEF SendAttempt, Goto, TypeOK, Shape
    <2>6. CASE \/ Settle(w) \/ Report(w) \/ MarkCompleted(w) \/ ForgetCancel(w)
               \/ NotifyFinished(w) \/ WorkerCrashes(w) \/ Deregister(w)
      <3>1. UNCHANGED <<mainPc, picked, task, attempt>>
        BY <2>6 DEF Settle, Report, MarkCompleted, ForgetCancel,
                    NotifyFinished, WorkerCrashes, Deregister
      <3>2. /\ \A v \in Worker \ {w} : pc'[v] = pc[v]
            /\ pc[w] # "none" /\ pc'[w] \notin {"none", "losing", "backoff"}
        BY <2>6 DEF Settle, Report, MarkCompleted, ForgetCancel,
                    NotifyFinished, WorkerCrashes, Deregister, Goto, TypeOK
      <3>3. result' = result
        BY <2>6 DEF Settle, Report, MarkCompleted, ForgetCancel,
                    NotifyFinished, WorkerCrashes, Deregister
      <3>4. QED
        BY <3>1, <3>2, <3>3 DEF Shape
    <2>7. QED
      BY <1>5, <2>2, <2>3, <2>4, <2>5, <2>6 DEF WorkerStep
  <1>6. CASE ClockTick \/ UNCHANGED runnerVars
    BY <1>6 DEF ClockTick, runnerVars, Shape
  <1>7. QED
    BY <1>1, <1>2, <1>3, <1>4, <1>5, <1>6 DEF Next, Pump

\* TypeOK is invariant: no schedule of the threads corrupts a variable's type.
THEOREM TypeCorrect == Spec => [](TypeOK /\ Shape)
  BY TypingInit, TypingStep, ShapeStep, PTL DEF Spec

-----------------------------------------------------------------------------
(* One id, one run *)

\* The steps of a worker that leave it in, or out of, the phases _known_ids
\* protects, and touch neither the queue nor the main thread.
Quiet(w) ==
  \/ ExecutorReturns(w) \/ SendAttempt(w) \/ EndBackoff(w) \/ Settle(w)
  \/ Report(w) \/ ForgetCancel(w) \/ NotifyFinished(w) \/ WorkerCrashes(w)
  \/ Deregister(w) \/ ReleaseSlot(w)

\* A quiet step of a worker touches neither the queue nor another worker.
LEMMA QuietStep ==
  ASSUME TypeOK, NEW w \in Worker, Quiet(w)
  PROVE  /\ UNCHANGED <<queueVars, mainPc, picked>>
         /\ \A v \in Worker \ {w} : pc'[v] = pc[v] /\ task'[v] = task[v]
         /\ pc'[w] \in Protected => pc[w] \in Protected /\ task'[w] = task[w]
         /\ pc'[w] \in Unreported => pc[w] \in Unreported
  <1> USE DEF Goto, Protected, Unreported, TypeOK, mainVars, workerVars
  <1>1. CASE ExecutorReturns(w)
    BY <1>1 DEF ExecutorReturns
  <1>2. CASE SendAttempt(w) \/ EndBackoff(w) \/ Settle(w)
    BY <1>2 DEF SendAttempt, EndBackoff, Settle
  <1>3. CASE Report(w) \/ ForgetCancel(w) \/ NotifyFinished(w)
    BY <1>3 DEF Report, ForgetCancel, NotifyFinished
  <1>4. CASE WorkerCrashes(w) \/ Deregister(w) \/ ReleaseSlot(w)
    BY <1>4 DEF WorkerCrashes, Deregister, ReleaseSlot
  <1>5. QED
    BY <1>1, <1>2, <1>3, <1>4 DEF Quiet

\* Every step keeps an id with one worker, or in the queue, or in the hands of pump.
LEMMA ExclusiveStep ==
  ASSUME TypeOK, Shape, ExclusiveRun, [Next]_runnerVars
  PROVE  ExclusiveRun'
  <1> USE DEF mainVars, workerVars
  <1>1. ASSUME NEW t \in Task, submit(t) PROVE ExclusiveRun'
    BY <1>1, RunnerAssumption DEF submit, add, TypeOK, Shape, ExclusiveRun
  <1>2. ASSUME NEW t \in Task, handle_cancel(t) PROVE ExclusiveRun'
    BY <1>2 DEF handle_cancel, remove, Unlist, ExclusiveRun
  <1>3. CASE ReportExpired
    BY <1>3 DEF ReportExpired, drain_expired, Unlist, Expired, ExclusiveRun
  <1>4. CASE AcquireSlot
    BY <1>4 DEF AcquireSlot, queueVars, ExclusiveRun
  <1>5. CASE NextTaskDrain
    BY <1>5 DEF NextTaskDrain, drain_expired, Unlist, Expired, ExclusiveRun
  <1>6. CASE NextTaskPick
    <2>1. UNCHANGED <<known, pc, task>>
      BY <1>6 DEF NextTaskPick, pop, queueVars
    <2>2. CASE \E t \in NextUp : pop(t) /\ picked' = t
      <3>1. PICK t \in entries : entries' = entries \ {t} /\ picked' = t
        BY <2>2 DEF NextUp, Eligible, pop, Unlist
      <3>2. QED
        BY <2>1, <3>1 DEF ExclusiveRun
    <2>3. CASE UNCHANGED <<queueVars, picked>>
      BY <2>1, <2>3 DEF ExclusiveRun, queueVars
    <2>4. QED
      BY <1>6, <2>2, <2>3 DEF NextTaskPick
  <1>7. CASE Spawn
    <2>1. picked # NoTask
      BY <1>7 DEF Spawn, Shape
    <2>2. PICK w \in Worker :
            /\ pc' = [pc EXCEPT ![w] = "exec"]
            /\ task' = [task EXCEPT ![w] = picked]
      BY <1>7 DEF Spawn
    <2>3. picked' = NoTask /\ UNCHANGED queueVars
      BY <1>7 DEF Spawn
    <2>4. \A v \in Worker \ {w} : pc'[v] = pc[v] /\ task'[v] = task[v]
      BY <2>2 DEF TypeOK
    <2>5. task'[w] = picked
      BY <2>2 DEF TypeOK
    <2>6. \A v \in Worker : pc'[v] \in Protected => task'[v] # NoTask
      BY <2>1, <2>4, <2>5 DEF Shape, Protected, Unreported
    <2>7. QED
      BY <2>1, <2>3, <2>4, <2>5, <2>6 DEF ExclusiveRun, queueVars
  <1>8. ASSUME NEW w \in Worker, Quiet(w) PROVE ExclusiveRun'
    BY <1>8, QuietStep DEF ExclusiveRun, queueVars
  <1>9. ASSUME NEW w \in Worker, MarkCompleted(w) PROVE ExclusiveRun'
    <2>1. \A v \in Worker : task'[v] = task[v]
      BY <1>9 DEF MarkCompleted
    <2>2. pc[w] \in Protected /\ pc'[w] \notin Protected
      BY <1>9 DEF MarkCompleted, Goto, Protected, Unreported, TypeOK
    <2>3. \A v \in Worker \ {w} : pc'[v] = pc[v]
      BY <1>9 DEF MarkCompleted, Goto, TypeOK
    <2>4. known' = known \ {task[w]} /\ UNCHANGED <<entries, picked>>
      BY <1>9 DEF MarkCompleted, mark_completed
    <2>5. QED
      BY <2>1, <2>2, <2>3, <2>4 DEF ExclusiveRun
  <1>10. CASE ClockTick \/ UNCHANGED runnerVars
    BY <1>10 DEF ClockTick, Tick, runnerVars, queueVars, ExclusiveRun
  <1>11. \A w \in Worker : WorkerStep(w) => Quiet(w) \/ MarkCompleted(w)
    BY DEF WorkerStep, Quiet
  <1>12. Next => \/ \E t \in Task : submit(t) \/ handle_cancel(t)
                 \/ Pump \/ ClockTick \/ \E w \in Worker : WorkerStep(w)
    BY RunnerAssumption DEF Next
  <1>13. QED
    BY <1>1, <1>2, <1>3, <1>4, <1>5, <1>6, <1>7, <1>8, <1>9, <1>10, <1>11, <1>12
    DEF Pump

\* The executor never works on one id twice at once: _known_ids, kept from
\* add until mark_completed, is what makes re-fetching a packet harmless.
THEOREM OneRunPerTask == Spec => []ExclusiveRun
  <1>1. Init => ExclusiveRun
    BY DEF Init, MemoryInit, QueueInit, ExclusiveRun, Protected, Unreported
  <1>2. QED
    BY <1>1, TypeCorrect, ExclusiveStep, PTL DEF Spec

-----------------------------------------------------------------------------
(* Every accepted task is answered once *)

\* What is in progress, spelt out for this state ...
LEMMA InProgressIff ==
  \A x : x \in InProgress <=>
    \/ x \in entries
    \/ x = picked /\ x # NoTask
    \/ \E w \in Worker : pc[w] \in Unreported /\ x = task[w]
  BY DEF InProgress

\* ... and for the next.
LEMMA InProgressIffPrime ==
  \A x : x \in InProgress' <=>
    \/ x \in entries'
    \/ x = picked' /\ x # NoTask
    \/ \E w \in Worker : pc'[w] \in Unreported /\ x = task'[w]
  BY DEF InProgress

\* A run stops owing its result only by reporting it or by crashing.
LEMMA OwingStep ==
  ASSUME TypeOK, NEW w \in Worker, Quiet(w), ~Report(w), ~WorkerCrashes(w)
  PROVE  /\ pc[w] \in Unreported =>
              pc'[w] \in Unreported /\ task'[w] = task[w]
         /\ UNCHANGED bridgeVars
  BY DEF Quiet, ExecutorReturns, SendAttempt, EndBackoff, Settle, ForgetCancel,
         NotifyFinished, Deregister, ReleaseSlot, Goto, Unreported, TypeOK,
         bridgeVars

\* No step answers an id the runner still holds, or forgets one it owes.
LEMMA AnsweredStep ==
  ASSUME TypeOK, Shape, ExclusiveRun, AnsweredOnce, [Next]_runnerVars
  PROVE  AnsweredOnce'
  <1>0. Unreported \subseteq Protected
    BY DEF Protected
  <1>a. \A w \in Worker : pc[w] \in Unreported => task[w] \notin entries
    BY <1>0 DEF ExclusiveRun
  <1> USE InProgressIff, InProgressIffPrime DEF AnsweredOnce
  <1>1. ASSUME NEW t \in Task, submit(t) PROVE AnsweredOnce'
    <2>1. UNCHANGED <<picked, pc, task, lost>>
      BY <1>1 DEF submit, mainVars, workerVars
    <2>2. CASE t \in known
      BY <1>1, <2>1, <2>2 DEF submit, add
    <2>3. CASE t \notin known
      BY <1>1, <2>1, <2>3 DEF submit, add
    <2>4. QED
      BY <2>2, <2>3
  <1>2. ASSUME NEW t \in Task, handle_cancel(t) PROVE AnsweredOnce'
    <2>1. UNCHANGED <<picked, pc, task>> /\ entries' = entries \ {t}
      BY <1>2 DEF handle_cancel, remove, Unlist, mainVars, workerVars
    <2>2. CASE t \in entries /\ (Publish({t}, "not ok") \/ Drop({t}))
      <3>1. \/ waiting' = waiting \ {t} /\ lost' = lost \ {t}
            \/ waiting' = waiting /\ lost' = lost \cup {t}
        BY <2>2 DEF Publish, Drop
      <3>2. \A w \in Worker : pc[w] \in Unreported => task[w] # t
        BY <1>a, <2>2
      <3>3. picked # NoTask => picked # t
        BY <2>2 DEF ExclusiveRun
      <3>4. QED
        BY <2>1, <3>1, <3>2, <3>3
    <2>3. CASE Drop({t} \cap entries)
      BY <2>1, <2>3 DEF Drop
    <2>4. QED
      BY <1>2, <2>2, <2>3 DEF handle_cancel
  <1>3. CASE ReportExpired
    <2>1. UNCHANGED <<picked, pc, task>> /\ entries' = entries \ Expired
      BY <1>3 DEF ReportExpired, drain_expired, Unlist, workerVars
    <2>2. PICK told \in SUBSET Expired :
            /\ waiting' = waiting \ told
            /\ lost' = (lost \ told) \cup (Expired \ told)
      <3>1. CASE Publish(Expired, "not ok")
        BY <3>1 DEF Publish
      <3>2. CASE \E told \in SUBSET Expired \ {Expired} : PublishSome(told, Expired)
        BY <3>2 DEF PublishSome
      <3>3. QED
        BY <1>3, <3>1, <3>2 DEF ReportExpired
    <2>3. Expired \subseteq entries
      BY DEF Expired
    <2>4. \A w \in Worker : pc[w] \in Unreported => task[w] \notin Expired
      BY <1>a, <2>3
    <2>5. picked # NoTask => picked \notin Expired
      BY <2>3 DEF ExclusiveRun
    <2>6. QED
      BY <2>1, <2>2, <2>4, <2>5
  <1>4. CASE AcquireSlot
    BY <1>4 DEF AcquireSlot, queueVars, workerVars, bridgeVars
  <1>5. CASE NextTaskDrain
    BY <1>5
    DEF NextTaskDrain, drain_expired, Unlist, Expired, Drop, workerVars
  <1>6. CASE NextTaskPick
    <2>1. UNCHANGED <<pc, task, waiting, lost>>
      BY <1>6 DEF NextTaskPick, workerVars, bridgeVars
    <2>2. CASE \E t \in NextUp : pop(t) /\ picked' = t
      <3>1. PICK t \in entries : entries' = entries \ {t} /\ picked' = t
        BY <2>2 DEF NextUp, Eligible, pop, Unlist
      <3>2. t # NoTask
        BY <3>1, RunnerAssumption DEF TypeOK, QueueTypeOK
      <3>3. picked = NoTask
        BY <1>6 DEF NextTaskPick, Shape
      <3>4. QED
        BY <2>1, <3>1, <3>2, <3>3
    <2>3. CASE UNCHANGED <<queueVars, picked>>
      BY <2>1, <2>3 DEF queueVars
    <2>4. QED
      BY <1>6, <2>2, <2>3 DEF NextTaskPick
  <1>7. CASE Spawn
    <2>1. picked # NoTask /\ picked' = NoTask
      BY <1>7 DEF Spawn, Shape
    <2>2. PICK w \in Worker :
            /\ pc[w] = "none"
            /\ pc' = [pc EXCEPT ![w] = "exec"]
            /\ task' = [task EXCEPT ![w] = picked]
      BY <1>7 DEF Spawn
    <2>3. \A v \in Worker \ {w} : pc'[v] = pc[v] /\ task'[v] = task[v]
      BY <2>2 DEF TypeOK
    <2>4. task'[w] = picked /\ pc'[w] \in Unreported /\ pc[w] \notin Unreported
      BY <2>2 DEF TypeOK, Unreported
    <2>5. UNCHANGED <<entries, waiting, lost>>
      BY <1>7 DEF Spawn, queueVars, bridgeVars
    <2>6. QED
      BY <2>1, <2>3, <2>4, <2>5
  <1>8. ASSUME NEW w \in Worker, WorkerStep(w) PROVE AnsweredOnce'
    <2>1. CASE Quiet(w) /\ ~Report(w) /\ ~WorkerCrashes(w)
      BY <2>1, QuietStep, OwingStep DEF bridgeVars, queueVars
    <2>2. CASE MarkCompleted(w)
      <3>1. UNCHANGED <<entries, picked, task, waiting, lost>>
        BY <2>2 DEF MarkCompleted, mark_completed, mainVars, bridgeVars
      <3>2. pc[w] \notin Unreported /\ pc'[w] \notin Unreported
        BY <2>2 DEF MarkCompleted, Goto, Unreported, TypeOK
      <3>3. \A v \in Worker \ {w} : pc'[v] = pc[v]
        BY <2>2 DEF MarkCompleted, Goto, TypeOK
      <3>4. QED
        BY <3>1, <3>2, <3>3
    <2>3. CASE Report(w) \/ WorkerCrashes(w)
      <3>1. UNCHANGED <<entries, picked>> /\
            \A v \in Worker \ {w} : pc'[v] = pc[v] /\ task'[v] = task[v]
        BY <2>3, QuietStep DEF Quiet, queueVars
      <3>2. pc[w] \in Unreported /\ pc'[w] \notin Unreported
        BY <2>3 DEF Report, WorkerCrashes, Goto, Unreported, TypeOK
      <3>3. task[w] \notin entries /\ task[w] # picked
        BY <1>0, <3>2 DEF ExclusiveRun
      <3>4. \A v \in Worker \ {w} : pc[v] \in Unreported => task[v] # task[w]
        BY <1>0, <3>2 DEF ExclusiveRun
      <3>5. \/ waiting' = waiting \ {task[w]} /\ lost' = lost \ {task[w]}
            \/ waiting' = waiting /\ lost' = lost \cup {task[w]}
        BY <2>3 DEF Report, WorkerCrashes, Publish, Drop
      <3>6. QED
        BY <3>1, <3>2, <3>3, <3>4, <3>5
    <2>4. QED
      BY <1>8, <2>1, <2>2, <2>3 DEF WorkerStep, Quiet
  <1>9. CASE ClockTick \/ UNCHANGED runnerVars
    BY <1>9 DEF ClockTick, Tick, runnerVars, queueVars, mainVars, workerVars,
                bridgeVars
  <1>10. Next => \/ \E t \in Task : submit(t) \/ handle_cancel(t)
                 \/ Pump \/ ClockTick \/ \E w \in Worker : WorkerStep(w)
    BY RunnerAssumption DEF Next
  <1>11. QED
    BY <1>1, <1>2, <1>3, <1>4, <1>5, <1>6, <1>7, <1>8, <1>9, <1>10 DEF Pump

\* No accepted task is answered twice, and none is forgotten except where the
\* code drops it (lost): next_task's own drain, a reporter that raises in a
\* worker, in handle_cancel or in _report_expired, a stream without a sink
\* (stopped or not), and a cancel behind a still registered worker.
THEOREM EveryTaskAnswered == Spec => []AnsweredOnce
  <1>1. Init => AnsweredOnce
    BY DEF Init, MemoryInit, QueueInit, AnsweredOnce, InProgress, Unreported
  <1>2. QED
    BY <1>1, TypeCorrect, OneRunPerTask, AnsweredStep, PTL DEF Spec

-----------------------------------------------------------------------------
(* Retries, and results before dependants *)

\* A thread that has not started has made no attempt.
Unstarted == \A w \in Worker : pc[w] = "none" => attempt[w] = 0

\* An idle thread has attempt 0 after every step.
LEMMA UnstartedStep ==
  ASSUME TypeOK, Unstarted, [Next]_runnerVars
  PROVE  Unstarted'
  <1> USE DEF TypeOK, Unstarted, mainVars, workerVars
  <1>1. ASSUME NEW t \in Task, submit(t) \/ handle_cancel(t) PROVE Unstarted'
    BY <1>1 DEF submit, handle_cancel
  <1>2. CASE ReportExpired \/ AcquireSlot \/ NextTaskDrain \/ NextTaskPick
    BY <1>2 DEF ReportExpired, AcquireSlot, NextTaskDrain, NextTaskPick
  <1>3. CASE Spawn
    BY <1>3 DEF Spawn
  <1>4. ASSUME NEW w \in Worker, WorkerStep(w) PROVE Unstarted'
    <2>1. pc[w] # "none" /\ \A v \in Worker \ {w} :
                              pc'[v] = pc[v] /\ attempt'[v] = attempt[v]
      BY <1>4 DEF WorkerStep, ExecutorReturns, SendAttempt, EndBackoff, Settle,
                  Report, MarkCompleted, ForgetCancel, NotifyFinished,
                  WorkerCrashes, Deregister, ReleaseSlot, Goto
    <2>2. pc'[w] = "none" => attempt'[w] = 0
      BY <1>4 DEF WorkerStep, ExecutorReturns, SendAttempt, EndBackoff, Settle,
                  Report, MarkCompleted, ForgetCancel, NotifyFinished,
                  WorkerCrashes, Deregister, ReleaseSlot, Goto
    <2>3. QED
      BY <2>1, <2>2
  <1>5. CASE ClockTick \/ UNCHANGED runnerVars
    BY <1>5 DEF ClockTick, runnerVars
  <1>6. QED
    BY <1>1, <1>2, <1>3, <1>4, <1>5, RunnerAssumption DEF Next, Pump

\* A retry follows a retryable failure, is within max_attempts, and is not made
\* for a task cancelled meanwhile.
THEOREM RetriesDisciplined == Spec => RetryDiscipline
  <1>1. Init => Unstarted
    BY DEF Init, MemoryInit, Unstarted
  <1>2. ASSUME TypeOK, Shape, Unstarted, [Next]_runnerVars,
               NEW w \in Worker, attempt'[w] > attempt[w], attempt[w] > 0
        PROVE  /\ result[w].status = "error"
               /\ task[w] \notin cancelled
               /\ attempt'[w] <= MaxAttempts[task[w]]
    <2>0. attempt[w] \in Nat /\ attempt'[w] \in Nat
      BY <1>2, TypingStep DEF TypeOK
    <2>1. EndBackoff(w)
      <3>1. attempt'[w] # attempt[w] /\ attempt[w] # 0 /\ attempt'[w] # 0
        BY <1>2, <2>0
      <3>2. ~Spawn
        BY <1>2, <3>1 DEF Spawn, Unstarted, TypeOK
      <3>3. ~ReleaseSlot(w)
        BY <1>2, <3>1 DEF ReleaseSlot, TypeOK
      <3>4. QED
        BY <1>2, <3>1, <3>2, <3>3
        DEF Next, Pump, submit, handle_cancel, ReportExpired, AcquireSlot,
            NextTaskDrain, NextTaskPick, WorkerStep, ExecutorReturns,
            SendAttempt, EndBackoff, Settle, Report, MarkCompleted,
            ForgetCancel, NotifyFinished, WorkerCrashes, Deregister,
            ReleaseSlot, ClockTick, TypeOK, mainVars, workerVars, runnerVars
    <2>2. MaxAttempts[task[w]] \in Nat
      <3>1. pc[w] = "backoff"
        BY <2>1 DEF EndBackoff
      <3>2. task[w] \in Task
        BY <1>2, <3>1 DEF TypeOK, Shape
      <3>3. QED
        BY <3>2, RunnerAssumption
    <2>3. attempt'[w] = attempt[w] + 1 /\ task[w] \notin cancelled
      <3>1. attempt' # attempt
        BY <1>2, <2>0
      <3>2. /\ task[w] \notin cancelled
            /\ attempt' = [attempt EXCEPT ![w] = attempt[w] + 1]
        BY <2>1, <3>1 DEF EndBackoff
      <3>3. QED
        BY <1>2, <3>2 DEF TypeOK
    <2>4. result[w].status = "error" /\ attempt[w] < MaxAttempts[task[w]]
      BY <1>2, <2>1 DEF EndBackoff, Shape
    <2>5. QED
      BY <2>0, <2>2, <2>3, <2>4
  <1>3. TypeOK /\ Shape /\ Unstarted /\ [Next]_runnerVars =>
          [\A w \in Worker : attempt'[w] > attempt[w] /\ attempt[w] > 0 =>
             /\ result[w].status = "error"
             /\ task[w] \notin cancelled
             /\ attempt'[w] <= MaxAttempts[task[w]]]_runnerVars
    BY <1>2
  <1>4. QED
    BY <1>1, <1>3, TypeCorrect, UnstartedStep, PTL DEF Spec, RetryDiscipline

\* The phases between an answer of the executor and the end of mark_completed.
Answered == {"losing", "backoff", "settle", "report", "complete"}

\* A run about to be recorded as successful has its ok result on the bridge,
\* unless it is one whose stream the executor may close itself.
ResultStands ==
  \A w \in Worker :
    /\ pc[w] \in Answered /\ result[w].final_chunk => task[w] \in Streamed
    /\ pc[w] = "complete" /\ OutcomeOk(w) =>
         published[task[w]] = "ok" \/ task[w] \in Streamed

\* What a step of w does to the result of its own run.
LEMMA ResultOfRun ==
  ASSUME TypeOK, Shape, ResultStands, NEW w \in Worker, WorkerStep(w)
  PROVE  /\ pc'[w] \in Answered /\ result'[w].final_chunk => task'[w] \in Streamed
         /\ pc'[w] = "complete" /\ OutcomeOk(w)' =>
              published'[task'[w]] = "ok" \/ task'[w] \in Streamed
  <1> USE DEF ResultStands, TypeOK, Goto, workerVars, bridgeVars
  <1>1. CASE ExecutorReturns(w)
    <2>1. PICK r \in ExecutorResults(task[w]) :
            /\ result' = [result EXCEPT ![w] = r]
            /\ pc'[w] \in {"losing", "settle"}
      BY <1>1 DEF ExecutorReturns
    <2>2. r.final_chunk => task[w] \in Streamed
      BY DEF ExecutorResults
    <2>3. task' = task
      BY <1>1 DEF ExecutorReturns
    <2>4. QED
      BY <2>1, <2>2, <2>3
  <1>2. CASE SendAttempt(w) \/ EndBackoff(w) \/ Settle(w)
    BY <1>2 DEF SendAttempt, EndBackoff, Settle, Answered
  <1>3. CASE Report(w)
    <2>1. task[w] \in Task /\ pc[w] = "report"
      BY <1>3, WorkerHasTask DEF WorkerStep, Report
    <2>2. UNCHANGED <<task, result, cut>>
      BY <1>3 DEF Report
    <2>3. result[w].final_chunk => task[w] \in Streamed
      BY <2>1 DEF Answered
    <2>4. ~result[w].final_chunk /\ result[w].status = "ok" =>
            published'[task[w]] = "ok"
      BY <1>3, <2>1 DEF Report, Publish, WriteResults
    <2>5. QED
      BY <2>2, <2>3, <2>4 DEF OutcomeOk
  <1>4. CASE \/ MarkCompleted(w) \/ ForgetCancel(w) \/ NotifyFinished(w)
             \/ WorkerCrashes(w) \/ Deregister(w) \/ ReleaseSlot(w)
    <2>1. pc'[w] \notin Answered
      BY <1>4 DEF MarkCompleted, ForgetCancel, NotifyFinished, WorkerCrashes,
                  Deregister, ReleaseSlot, Answered
    <2>2. QED
      BY <2>1 DEF Answered
  <1>5. QED
    BY <1>1, <1>2, <1>3, <1>4 DEF WorkerStep

\* Nobody else overwrites a published result before mark_completed.
LEMMA ResultStandsStep ==
  ASSUME TypeOK, Shape, ExclusiveRun, ResultStands, [Next]_runnerVars
  PROVE  ResultStands'
  <1> USE DEF workerVars, bridgeVars
  <1>0. "complete" \in Protected
    BY DEF Protected
  \* A result published for other ids leaves a protected run's result alone.
  <1>1. ASSUME NEW ts \in SUBSET entries, UNCHANGED workerVars,
               UNCHANGED published \/ WriteResults(ts, "not ok")
        PROVE  ResultStands'
    <2>1. \A w \in Worker : pc[w] = "complete" =>
            task[w] \in Task /\ task[w] \notin ts
      BY <1>0 DEF ExclusiveRun, TypeOK, Shape
    <2>2. \A w \in Worker : pc[w] = "complete" =>
            published'[task[w]] = published[task[w]]
      BY <1>1, <2>1 DEF WriteResults, TypeOK
    <2>3. QED
      BY <1>1, <2>2 DEF ResultStands, OutcomeOk
  <1>2. ASSUME NEW t \in Task, submit(t) \/ handle_cancel(t) PROVE ResultStands'
    <2>1. UNCHANGED workerVars
      BY <1>2 DEF submit, handle_cancel
    <2>2. UNCHANGED published \/ (t \in entries /\ WriteResults({t}, "not ok"))
      BY <1>2 DEF submit, handle_cancel, Publish, Drop
    <2>3. QED
      BY <1>1, <2>1, <2>2
  <1>3. CASE ReportExpired \/ AcquireSlot \/ NextTaskDrain \/ NextTaskPick
             \/ ClockTick \/ UNCHANGED runnerVars
    <2>1. UNCHANGED workerVars
      BY <1>3 DEF ReportExpired, AcquireSlot, NextTaskDrain, NextTaskPick,
                  ClockTick, runnerVars
    <2>2. UNCHANGED published \/ \E ts \in SUBSET Expired : WriteResults(ts, "not ok")
      BY <1>3 DEF ReportExpired, AcquireSlot, NextTaskDrain, NextTaskPick,
                  ClockTick, runnerVars, Publish, PublishSome, Drop
    <2>3. Expired \subseteq entries
      BY DEF Expired
    <2>4. PICK ts \in SUBSET entries : UNCHANGED published \/ WriteResults(ts, "not ok")
      BY <2>2, <2>3
    <2>5. QED
      BY <1>1, <2>1, <2>4
  <1>4. CASE Spawn
    <2>1. PICK w \in Worker : /\ pc' = [pc EXCEPT ![w] = "exec"]
                              /\ task' = [task EXCEPT ![w] = picked]
      BY <1>4 DEF Spawn
    <2>2. UNCHANGED <<result, cut, published>>
      BY <1>4 DEF Spawn
    <2>3. QED
      BY <2>1, <2>2 DEF ResultStands, OutcomeOk, Answered, TypeOK
  <1>5. ASSUME NEW w \in Worker, WorkerStep(w) PROVE ResultStands'
    <2>1. \A v \in Worker \ {w} : /\ pc'[v] = pc[v] /\ task'[v] = task[v]
                                  /\ result'[v] = result[v] /\ cut'[v] = cut[v]
      BY <1>5 DEF WorkerStep, ExecutorReturns, SendAttempt, EndBackoff, Settle,
                  Report, MarkCompleted, ForgetCancel, NotifyFinished,
                  WorkerCrashes, Deregister, ReleaseSlot, Goto, TypeOK
    <2>2. \A v \in Worker \ {w} :
            pc[v] = "complete" => published'[task[v]] = published[task[v]]
      <3>1. CASE Report(w)
        <4>1. pc[w] \in Protected
          BY <3>1 DEF Report, Protected, Unreported
        <4>2. \A v \in Worker \ {w} :
                pc[v] = "complete" => task[v] \in Task \ {task[w]}
          BY <1>0, <4>1 DEF ExclusiveRun, TypeOK, Shape
        <4>3. QED
          BY <3>1, <4>2 DEF Report, Publish, WriteResults, Drop, TypeOK
      <3>2. CASE ~Report(w)
        BY <1>5, <3>2 DEF WorkerStep, ExecutorReturns, SendAttempt, EndBackoff,
                          Settle, MarkCompleted, ForgetCancel, NotifyFinished,
                          WorkerCrashes, Drop, Deregister, ReleaseSlot
      <3>3. QED
        BY <3>1, <3>2
    <2>3. QED
      BY <1>5, <2>1, <2>2, ResultOfRun DEF ResultStands, OutcomeOk
  <1>6. Next => \/ \E t \in Task : submit(t) \/ handle_cancel(t)
                \/ Pump \/ ClockTick \/ \E w \in Worker : WorkerStep(w)
    BY RunnerAssumption DEF Next
  <1>7. QED
    BY <1>2, <1>3, <1>4, <1>5, <1>6 DEF Pump

\* A dependant is released only behind an ok result that its producer can read.
THEOREM ResultsPrecedeDone == Spec => OkResultBeforeDone
  <1>1. Init => ResultStands
    BY DEF Init, MemoryInit, ResultStands, Answered
  <1>2. ASSUME ResultStands, [Next]_runnerVars, NEW t \in completed' \ completed
        PROVE  published[t] = "ok" \/ t \in Streamed
    <2>1. PICK w \in Worker : MarkCompleted(w)
      BY <1>2 DEF Next, Pump, submit, add, handle_cancel, remove, ReportExpired,
                  drain_expired, AcquireSlot, NextTaskDrain, NextTaskPick, pop,
                  Spawn, WorkerStep, ExecutorReturns, SendAttempt, EndBackoff,
                  Settle, Report, ForgetCancel, NotifyFinished, WorkerCrashes,
                  Deregister, ReleaseSlot, ClockTick, Tick, queueVars, runnerVars
    <2>2. pc[w] = "complete" /\ OutcomeOk(w) /\ t = task[w]
      BY <1>2, <2>1 DEF MarkCompleted, mark_completed
    <2>3. QED
      BY <1>2, <2>2 DEF ResultStands
  <1>3. ResultStands /\ [Next]_runnerVars =>
          [\A t \in completed' \ completed :
             published[t] = "ok" \/ t \in Streamed]_runnerVars
    BY <1>2
  <1>4. QED
    BY <1>1, <1>3, TypeCorrect, OneRunPerTask, ResultStandsStep, PTL
       DEF Spec, OkResultBeforeDone

-----------------------------------------------------------------------------
(* The semaphore of TaskRunner, counted; dependencies; and the proof that  *)
(* TaskRunner implements TaskPool.                                         *)

LiveWorkers == {w \in Worker : Live(w)}
RegisteredWorkers == {w \in Worker : pc[w] \in Registered}
Carried == IF mainPc \in {"drain", "pick", "spawn"} THEN 1 ELSE 0

-----------------------------------------------------------------------------
(* The slots of the pool *)

\* Counting workers: any set of them is finite, and grows or shrinks by one.
LEMMA CountWorkers ==
  ASSUME NEW S \in SUBSET Worker
  PROVE  /\ Cardinality(S) \in Nat
         /\ Cardinality(S) <= MaxConcurrent
         /\ \A w \in Worker \ S : Cardinality(S \cup {w}) = Cardinality(S) + 1
         /\ \A w \in S : Cardinality(S \ {w}) = Cardinality(S) - 1
  <1>1. IsFiniteSet(S) /\ Cardinality(S) <= MaxConcurrent
    BY FS_Subset, RunnerAssumption DEF MaxConcurrent
  <1>2. \A w \in Worker \ S : Cardinality(S \cup {w}) = Cardinality(S) + 1
    BY <1>1, FS_AddElement
  <1>3. \A w \in S : Cardinality(S \ {w}) = Cardinality(S) - 1
    BY <1>1, FS_RemoveElement
  <1>4. QED
    BY <1>1, <1>2, <1>3, FS_CardinalityType

\* A slot is taken with the worker that will give it back, and given back with it.
LEMMA SlotsStep ==
  ASSUME TypeOK, Shape, SlotsAccounted, [Next]_runnerVars
  PROVE  SlotsAccounted'
  <1>0. /\ slots \in Nat /\ inFlight \in Int
        /\ LiveWorkers \in SUBSET Worker /\ RegisteredWorkers \in SUBSET Worker
        /\ Cardinality(LiveWorkers) \in Nat
        /\ Cardinality(RegisteredWorkers) \in Nat
    BY CountWorkers DEF TypeOK, LiveWorkers, RegisteredWorkers
  <1>1. /\ slots + Cardinality(LiveWorkers) + Carried = MaxConcurrent
        /\ inFlight = Cardinality(RegisteredWorkers)
    BY DEF SlotsAccounted, LiveWorkers, RegisteredWorkers, Carried
  <1>2. SUFFICES /\ slots' + Cardinality(LiveWorkers') + Carried' = MaxConcurrent
                 /\ inFlight' = Cardinality(RegisteredWorkers')
    BY DEF SlotsAccounted, LiveWorkers, RegisteredWorkers, Carried
  <1> USE DEF mainVars, registryVars, workerVars
  <1>3. ASSUME UNCHANGED <<slots, inFlight, pc>>, Carried' = Carried
        PROVE  /\ slots' + Cardinality(LiveWorkers') + Carried' = MaxConcurrent
               /\ inFlight' = Cardinality(RegisteredWorkers')
    BY <1>1, <1>3 DEF LiveWorkers, RegisteredWorkers, Live
  <1>4. ASSUME NEW t \in Task, submit(t) \/ handle_cancel(t)
        PROVE  UNCHANGED <<slots, inFlight, pc>> /\ Carried' = Carried
    BY <1>4 DEF submit, handle_cancel, ReturnOrDie, Carried
  <1>5. CASE ReportExpired \/ NextTaskDrain
    <2>1. UNCHANGED <<slots, inFlight, pc>> /\ Carried' = Carried
      BY <1>5 DEF ReportExpired, NextTaskDrain, Carried
    <2>2. QED
      BY <1>3, <2>1
  <1>6. CASE AcquireSlot
    <2>1. inFlight' = inFlight /\ pc' = pc
      BY <1>6 DEF AcquireSlot
    <2>2. \/ slots' = slots /\ Carried' = Carried
          \/ slots' = slots - 1 /\ Carried = 0 /\ Carried' = 1
      BY <1>6 DEF AcquireSlot, Carried
    <2>3. LiveWorkers' = LiveWorkers /\ RegisteredWorkers' = RegisteredWorkers
      BY <2>1 DEF LiveWorkers, RegisteredWorkers, Live
    <2>4. /\ Cardinality(LiveWorkers') = Cardinality(LiveWorkers)
          /\ Cardinality(RegisteredWorkers') = Cardinality(RegisteredWorkers)
      BY <2>3
    <2>5. slots' + Cardinality(LiveWorkers') + Carried' = MaxConcurrent
      BY <1>0, <1>1, <2>1, <2>2, <2>4
    <2>6. inFlight' = Cardinality(RegisteredWorkers')
      BY <1>1, <2>1, <2>4
    <2>7. QED
      BY <2>5, <2>6
  <1>7. CASE NextTaskPick
    <2>1. inFlight' = inFlight /\ pc' = pc
      BY <1>7 DEF NextTaskPick
    <2>2. \/ slots' = slots /\ Carried' = Carried
          \/ slots' = slots + 1 /\ Carried = 1 /\ Carried' = 0
      BY <1>7 DEF NextTaskPick, Carried
    <2>3. LiveWorkers' = LiveWorkers /\ RegisteredWorkers' = RegisteredWorkers
      BY <2>1 DEF LiveWorkers, RegisteredWorkers, Live
    <2>4. /\ Cardinality(LiveWorkers') = Cardinality(LiveWorkers)
          /\ Cardinality(RegisteredWorkers') = Cardinality(RegisteredWorkers)
      BY <2>3
    <2>5. slots' + Cardinality(LiveWorkers') + Carried' = MaxConcurrent
      BY <1>0, <1>1, <2>1, <2>2, <2>4
    <2>6. inFlight' = Cardinality(RegisteredWorkers')
      BY <1>1, <2>1, <2>4
    <2>7. QED
      BY <2>5, <2>6
  <1>8. CASE Spawn
    <2>1. PICK w \in Worker : pc[w] = "none" /\ pc' = [pc EXCEPT ![w] = "exec"]
      BY <1>8 DEF Spawn
    <2>2. /\ LiveWorkers' = LiveWorkers \cup {w} /\ w \notin LiveWorkers
          /\ RegisteredWorkers' = RegisteredWorkers \cup {w}
          /\ w \notin RegisteredWorkers
      BY <2>1 DEF LiveWorkers, RegisteredWorkers, Live, Registered, Protected,
                  Unreported, TypeOK
    <2>3. /\ Cardinality(LiveWorkers') = Cardinality(LiveWorkers) + 1
          /\ Cardinality(RegisteredWorkers') = Cardinality(RegisteredWorkers) + 1
      BY <1>0, <2>2, CountWorkers
    <2>4. Carried = 1 /\ Carried' = 0 /\ slots' = slots /\ inFlight' = inFlight + 1
      BY <1>8 DEF Spawn, Carried
    <2>5. QED
      BY <1>0, <1>1, <2>3, <2>4
  <1>9. ASSUME NEW w \in Worker, WorkerStep(w),
               ~Deregister(w), ~ReleaseSlot(w), ~WorkerCrashes(w)
        PROVE  /\ UNCHANGED <<slots, inFlight>> /\ Carried' = Carried
               /\ LiveWorkers' = LiveWorkers
               /\ RegisteredWorkers' = RegisteredWorkers
    <2>1. UNCHANGED <<slots, inFlight, mainPc>>
      BY <1>9 DEF WorkerStep, ExecutorReturns, SendAttempt, EndBackoff, Settle,
                  Report, MarkCompleted, ForgetCancel, NotifyFinished
    <2>2. /\ pc[w] \in Registered /\ pc'[w] \in Registered
          /\ \A v \in Worker \ {w} : pc'[v] = pc[v]
      BY <1>9 DEF WorkerStep, ExecutorReturns, SendAttempt, EndBackoff, Settle,
                  Report, MarkCompleted, ForgetCancel, NotifyFinished, Goto,
                  Registered, Protected, Unreported, TypeOK
    <2>3. "none" \notin Registered
      BY DEF Registered, Protected, Unreported
    <2>4. QED
      BY <2>1, <2>2, <2>3 DEF Carried, LiveWorkers, RegisteredWorkers, Live
  <1>10. ASSUME NEW w \in Worker, WorkerCrashes(w)
         PROVE  /\ UNCHANGED <<slots, inFlight>> /\ Carried' = Carried
                /\ LiveWorkers' = LiveWorkers
                /\ RegisteredWorkers' = RegisteredWorkers
    BY <1>10 DEF WorkerCrashes, Goto, Carried, LiveWorkers, RegisteredWorkers,
                 Live, Registered, Protected, Unreported, TypeOK
  <1>11. ASSUME NEW w \in Worker, Deregister(w)
         PROVE  /\ slots' + Cardinality(LiveWorkers') + Carried' = MaxConcurrent
                /\ inFlight' = Cardinality(RegisteredWorkers')
    <2>1. /\ LiveWorkers' = LiveWorkers
          /\ RegisteredWorkers' = RegisteredWorkers \ {w}
          /\ w \in RegisteredWorkers
      BY <1>11 DEF Deregister, Goto, LiveWorkers, RegisteredWorkers, Live,
                   Registered, Protected, Unreported, TypeOK
    <2>2. Cardinality(RegisteredWorkers') = Cardinality(RegisteredWorkers) - 1
      BY <1>0, <2>1, CountWorkers
    <2>3. slots' = slots /\ Carried' = Carried /\ inFlight' = inFlight - 1
      BY <1>11 DEF Deregister, Carried
    <2>4. QED
      BY <1>0, <1>1, <2>1, <2>2, <2>3
  <1>12. ASSUME NEW w \in Worker, ReleaseSlot(w)
         PROVE  /\ slots' + Cardinality(LiveWorkers') + Carried' = MaxConcurrent
                /\ inFlight' = Cardinality(RegisteredWorkers')
    <2>1. /\ LiveWorkers' = LiveWorkers \ {w} /\ w \in LiveWorkers
          /\ RegisteredWorkers' = RegisteredWorkers
      BY <1>12 DEF ReleaseSlot, Goto, LiveWorkers, RegisteredWorkers, Live,
                   Registered, Protected, Unreported, TypeOK
    <2>2. Cardinality(LiveWorkers') = Cardinality(LiveWorkers) - 1
      BY <1>0, <2>1, CountWorkers
    <2>3. slots' = slots + 1 /\ Carried' = Carried /\ inFlight' = inFlight
      BY <1>12 DEF ReleaseSlot, Carried
    <2>4. Carried \in Nat
      BY DEF Carried
    <2>5. QED
      BY <1>0, <1>1, <2>1, <2>2, <2>3, <2>4
  <1>13. CASE ClockTick \/ UNCHANGED runnerVars
    <2>1. UNCHANGED <<slots, inFlight, pc>> /\ Carried' = Carried
      BY <1>13 DEF ClockTick, runnerVars, Carried
    <2>2. QED
      BY <1>3, <2>1
  <1>14. ASSUME NEW w \in Worker, WorkerStep(w)
         PROVE  /\ slots' + Cardinality(LiveWorkers') + Carried' = MaxConcurrent
                /\ inFlight' = Cardinality(RegisteredWorkers')
    BY <1>1, <1>9, <1>10, <1>11, <1>12, <1>14
  <1>15. Next => \/ \E t \in Task : submit(t) \/ handle_cancel(t)
                 \/ Pump \/ ClockTick \/ \E w \in Worker : WorkerStep(w)
    BY RunnerAssumption DEF Next
  <1>16. QED
    BY <1>3, <1>4, <1>5, <1>6, <1>7, <1>8, <1>13, <1>14, <1>15 DEF Pump

\* The pool never exceeds max_concurrent_tasks and never leaks a slot, even
\* when the reporter raises in the middle of a run.
THEOREM PoolAccounted == Spec => []SlotsAccounted
  <1>1. Init => SlotsAccounted
    <2>1. ASSUME Init
          PROVE  {w \in Worker : Live(w)} = {}
                 /\ {w \in Worker : pc[w] \in Registered} = {}
      BY <2>1 DEF Init, MemoryInit, Live, Registered, Protected, Unreported
    <2>2. ASSUME Init PROVE mainPc = "idle" /\ slots = MaxConcurrent /\ inFlight = 0
      BY <2>2 DEF Init, MemoryInit
    <2>3. QED
      BY <2>1, <2>2, FS_EmptySet, PoolSize DEF SlotsAccounted
  <1>2. QED
    BY <1>1, TypeCorrect, SlotsStep, PTL DEF Spec

-----------------------------------------------------------------------------
(* Dependencies *)

\* What runs, spelt out for this state ...
LEMMA RunningIff ==
  \A x : x \in Running <=>
    \/ x = picked /\ x # NoTask
    \/ \E w \in Worker : pc[w] \in Protected /\ x = task[w]
  BY DEF Running

\* ... and for the next.
LEMMA RunningIffPrime ==
  \A x : x \in Running' <=>
    \/ x = picked' /\ x # NoTask
    \/ \E w \in Worker : pc'[w] \in Protected /\ x = task'[w]
  BY DEF Running

\* Only NextTaskPick puts a task in Running; every other step keeps the set or
\* takes one task out of it, and only mark_completed touches _completed.
LEMMA RunningStep ==
  ASSUME TypeOK, Shape, ExclusiveRun, [Next]_runnerVars, ~NextTaskPick
  PROVE  \/ Running' = Running /\ completed' = completed
         \/ \E w \in Worker :
              /\ task[w] \in Running
              /\ Running' = Running \ {task[w]}
              /\ completed' \in {completed, completed \cup {task[w]}}
              /\ entries' = entries
  <1> USE RunningIff, RunningIffPrime
  <1>1. ASSUME NEW t \in Task, submit(t) \/ handle_cancel(t)
        PROVE  Running' = Running /\ completed' = completed
    <2>1. UNCHANGED <<picked, pc, task, completed>>
      BY <1>1 DEF submit, add, handle_cancel, remove, mainVars, workerVars
    <2>2. QED
      BY <2>1
  <1>2. ASSUME ReportExpired \/ AcquireSlot \/ NextTaskDrain
        PROVE  Running' = Running /\ completed' = completed
    BY <1>2 DEF ReportExpired, AcquireSlot, NextTaskDrain, drain_expired,
                queueVars, mainVars, workerVars
  <1>3. ASSUME Spawn PROVE Running' = Running /\ completed' = completed
    <2>1. picked # NoTask /\ picked' = NoTask /\ completed' = completed
      BY <1>3 DEF Spawn, Shape, queueVars
    <2>2. PICK w \in Worker :
            /\ pc[w] = "none"
            /\ pc' = [pc EXCEPT ![w] = "exec"]
            /\ task' = [task EXCEPT ![w] = picked]
      BY <1>3 DEF Spawn
    <2>3. \A v \in Worker \ {w} : pc'[v] = pc[v] /\ task'[v] = task[v]
      BY <2>2 DEF TypeOK
    <2>4. task'[w] = picked /\ pc'[w] \in Protected /\ pc[w] \notin Protected
      BY <2>2 DEF TypeOK, Protected, Unreported
    <2>5. QED
      BY <2>1, <2>3, <2>4
  <1>4. ASSUME NEW w \in Worker, Quiet(w), ~WorkerCrashes(w)
        PROVE  Running' = Running /\ completed' = completed
    <2>1. pc[w] \in Protected => pc'[w] \in Protected
      BY <1>4 DEF Quiet, ExecutorReturns, SendAttempt, EndBackoff, Settle,
                  Report, ForgetCancel, NotifyFinished, Deregister, ReleaseSlot,
                  Goto, Protected, Unreported, TypeOK
    <2>2. QED
      BY <1>4, <2>1, QuietStep DEF queueVars
  <1>5. ASSUME NEW w \in Worker, WorkerCrashes(w) \/ MarkCompleted(w)
        PROVE  /\ task[w] \in Running
               /\ Running' = Running \ {task[w]}
               /\ completed' \in {completed, completed \cup {task[w]}}
               /\ entries' = entries
    <2>1. pc[w] \in Protected /\ pc'[w] \notin Protected
      BY <1>5 DEF WorkerCrashes, MarkCompleted, Goto, Protected, Unreported,
                  TypeOK
    <2>2. \A v \in Worker \ {w} :
            /\ pc'[v] = pc[v]
            /\ pc[v] \in Protected => task'[v] = task[v]
      BY <1>5 DEF WorkerCrashes, MarkCompleted, Goto, TypeOK
    <2>3. /\ picked' = picked /\ entries' = entries
          /\ completed' \in {completed, completed \cup {task[w]}}
      BY <1>5 DEF WorkerCrashes, MarkCompleted, mark_completed, queueVars,
                  mainVars
    <2>4. /\ task[w] # picked
          /\ \A v \in Worker \ {w} : pc[v] \in Protected => task[v] # task[w]
      BY <2>1 DEF ExclusiveRun
    <2>5. task[w] # NoTask
      BY <2>1 DEF Shape, Protected, Unreported
    <2>6. QED
      BY <2>1, <2>2, <2>3, <2>4
  <1>6. ASSUME ClockTick \/ UNCHANGED runnerVars
        PROVE  Running' = Running /\ completed' = completed
    BY <1>6 DEF ClockTick, Tick, runnerVars, queueVars, mainVars, workerVars
  <1>7. \A w \in Worker : WorkerStep(w) => Quiet(w) \/ MarkCompleted(w)
    BY DEF WorkerStep, Quiet
  <1>8. Next => \/ \E t \in Task : submit(t) \/ handle_cancel(t)
                \/ Pump \/ ClockTick \/ \E w \in Worker : WorkerStep(w)
    BY RunnerAssumption DEF Next
  <1>9. CASE \E w \in Worker : WorkerCrashes(w) \/ MarkCompleted(w)
    BY <1>5, <1>9
  <1>10. CASE ~\E w \in Worker : WorkerCrashes(w) \/ MarkCompleted(w)
    BY <1>1, <1>2, <1>3, <1>4, <1>6, <1>7, <1>8, <1>10 DEF Pump
  <1>11. QED
    BY <1>9, <1>10

\* What NextTaskPick does to the pool: nothing, or one eligible task starts.
LEMMA PickStep ==
  ASSUME TypeOK, Shape, NextTaskPick
  PROVE  /\ completed' = completed
         /\ \/ Running' = Running /\ entries' = entries
            \/ \E t \in entries : /\ Deps[t] \subseteq completed
                                  /\ entries' = entries \ {t}
                                  /\ Running' = Running \cup {t}
  <1> USE RunningIff, RunningIffPrime
  <1>1. picked = NoTask /\ UNCHANGED <<pc, task>>
    BY DEF NextTaskPick, Shape, workerVars
  <1>2. CASE \E t \in NextUp : pop(t) /\ picked' = t
    <2>1. PICK t \in entries : /\ Deps[t] \subseteq completed
                               /\ entries' = entries \ {t} /\ picked' = t
                               /\ completed' = completed
      BY <1>2 DEF NextUp, Eligible, dependencies_met, pop, Unlist
    <2>2. t # NoTask
      BY RunnerAssumption DEF TypeOK, QueueTypeOK
    <2>3. Running' = Running \cup {t}
      BY <1>1, <2>1, <2>2
    <2>4. QED
      BY <2>1, <2>3
  <1>3. CASE UNCHANGED <<queueVars, picked>>
    BY <1>1, <1>3 DEF queueVars
  <1>4. QED
    BY <1>2, <1>3 DEF NextTaskPick

\* depends_on holds at the pick, and _completed never shrinks, so it still holds
\* when the executor runs the task and on each of its retries.
THEOREM DependenciesMet == Spec => []DependenciesRan
  <1>1. Init => DependenciesRan
    BY DEF Init, MemoryInit, DependenciesRan, Running, Protected, Unreported
  <1>2. ASSUME TypeOK, Shape, ExclusiveRun, DependenciesRan, [Next]_runnerVars
        PROVE  DependenciesRan'
    <2>1. CASE NextTaskPick
      BY <1>2, <2>1, PickStep DEF DependenciesRan
    <2>2. CASE ~NextTaskPick
      BY <1>2, <2>2, RunningStep DEF DependenciesRan
    <2>3. QED
      BY <2>1, <2>2
  <1>3. QED
    BY <1>1, <1>2, TypeCorrect, OneRunPerTask, PTL DEF Spec

-----------------------------------------------------------------------------
(* TaskRunner implements TaskPool *)

\* While pump holds a slot for the task it is about to take, another worker can
\* still be live, but fewer than the pool has: running has room for one more.
LEMMA RoomToStart ==
  ASSUME TypeOK, Shape, SlotsAccounted, NextTaskPick
  PROVE  Cardinality(Running) < MaxConcurrent
  <1> DEFINE P == {w \in Worker : pc[w] \in Protected}
             f == [w \in P |-> task[w]]
  <1>1. P \subseteq LiveWorkers
    BY DEF LiveWorkers, Live, Protected, Unreported
  <1>2. IsFiniteSet(LiveWorkers) /\ IsFiniteSet(P)
    BY <1>1, FS_Subset, RunnerAssumption DEF LiveWorkers
  <1>3. Cardinality(P) <= Cardinality(LiveWorkers)
    BY <1>1, <1>2, FS_Subset
  <1>4. picked = NoTask
    BY DEF NextTaskPick, Shape
  <1>5. f \in Surjection(P, Running)
    <2>1. Running = {task[w] : w \in P}
      BY <1>4 DEF Running
    <2>2. QED
      BY <2>1 DEF Surjection
  <1>6. Cardinality(Running) <= Cardinality(P) /\ IsFiniteSet(Running)
    BY <1>2, <1>5, FS_Surjection
  <1>7. slots + Cardinality(LiveWorkers) + 1 = MaxConcurrent /\ slots \in Nat
    BY DEF SlotsAccounted, LiveWorkers, NextTaskPick, TypeOK
  <1>8. /\ Cardinality(Running) \in Nat /\ Cardinality(P) \in Nat
        /\ Cardinality(LiveWorkers) \in Nat
    BY <1>2, <1>6, FS_CardinalityType
  <1>9. QED
    BY <1>3, <1>6, <1>7, <1>8, PoolSize

\* Every step of the runner is one of the pool, or stutters.
LEMMA PoolStep ==
  ASSUME TypeOK, Shape, ExclusiveRun, SlotsAccounted, [Next]_runnerVars
  PROVE  [Pool!Next]_(Pool!poolVars)
  <1>0. entries \subseteq Task /\ Running \subseteq Task
    <2>1. \A w \in Worker : pc[w] \in Protected => task[w] \in Task
      BY DEF TypeOK, Shape, Protected, Unreported
    <2>2. QED
      BY <2>1 DEF TypeOK, QueueTypeOK, Running
  <1>1. CASE NextTaskPick
    <2>1. CASE \E t \in entries : /\ Deps[t] \subseteq completed
                                  /\ entries' = entries \ {t}
                                  /\ Running' = Running \cup {t}
      <3>1. completed' = completed /\ Cardinality(Running) < MaxConcurrent
        BY <1>1, PickStep, RoomToStart
      <3>2. PICK t \in entries : /\ Deps[t] \subseteq completed
                                 /\ entries' = entries \ {t}
                                 /\ Running' = Running \cup {t}
        BY <2>1
      <3>3. Pool!Start(t)
        BY <3>1, <3>2 DEF Pool!Start, Cardinality, Pool!Cardinality
      <3>4. QED
        BY <1>0, <3>3 DEF Pool!Next
    <2>2. QED
      BY <1>1, <2>1, PickStep DEF Pool!poolVars
  <1>2. CASE ~NextTaskPick /\ \E w \in Worker :
               /\ task[w] \in Running
               /\ Running' = Running \ {task[w]}
               /\ completed' \in {completed, completed \cup {task[w]}}
               /\ entries' = entries
    <2>1. PICK w \in Worker : Pool!Retire(task[w]) /\ task[w] \in Running
      BY <1>2 DEF Pool!Retire
    <2>2. QED
      BY <1>0, <2>1 DEF Pool!Next
  <1>3. CASE ~NextTaskPick /\ Running' = Running /\ completed' = completed
    <2>1. CASE entries' = entries
      BY <1>3, <2>1 DEF Pool!poolVars
    <2>2. CASE entries' # entries /\ \E t \in Task : submit(t)
      <3>1. PICK t \in Task : submit(t)
        BY <2>2
      <3>2. t \notin known /\ entries' = entries \cup {t}
        BY <2>2, <3>1 DEF submit, add
      <3>3. t \notin entries \cup Running
        BY <3>2, RunningIff DEF ExclusiveRun
      <3>4. Pool!Accept(t)
        BY <1>3, <3>2, <3>3 DEF Pool!Accept
      <3>5. QED
        BY <3>4 DEF Pool!Next
    <2>3. CASE \E ts \in SUBSET entries : entries' = entries \ ts
      <3>1. PICK ts \in SUBSET entries : Pool!Withdraw(ts)
        BY <1>3, <2>3 DEF Pool!Withdraw
      <3>2. QED
        BY <3>1 DEF Pool!Next
    <2>4. ASSUME NEW t \in Task, handle_cancel(t)
          PROVE  \E ts \in SUBSET entries : entries' = entries \ ts
      <3>1. entries' = entries \ (entries \cap {t})
        BY <2>4 DEF handle_cancel, remove, Unlist
      <3>2. QED
        BY <3>1
    <2>5. CASE ReportExpired \/ NextTaskDrain
      <3>1. entries' = entries \ Expired /\ Expired \subseteq entries
        BY <2>5 DEF ReportExpired, NextTaskDrain, drain_expired, Unlist, Expired
      <3>2. QED
        BY <2>3, <3>1
    <2>6. CASE AcquireSlot \/ Spawn \/ ClockTick \/ UNCHANGED runnerVars
      <3>1. entries' = entries
        BY <2>6 DEF AcquireSlot, Spawn, ClockTick, Tick, runnerVars, queueVars
      <3>2. QED
        BY <2>1, <3>1
    <2>7. ASSUME NEW w \in Worker, WorkerStep(w) PROVE entries' = entries
      <3>1. CASE Quiet(w)
        BY <3>1, QuietStep DEF queueVars
      <3>2. CASE MarkCompleted(w)
        BY <3>2 DEF MarkCompleted, mark_completed
      <3>3. QED
        BY <2>7, <3>1, <3>2 DEF WorkerStep, Quiet
    <2>8. Next => \/ \E t \in Task : submit(t) \/ handle_cancel(t)
                  \/ Pump \/ ClockTick \/ \E w \in Worker : WorkerStep(w)
      BY RunnerAssumption DEF Next
    <2>9. QED
      BY <1>3, <2>1, <2>2, <2>3, <2>4, <2>5, <2>6, <2>7, <2>8 DEF Pump
  <1>4. QED
    BY <1>1, <1>2, <1>3, RunningStep

\* Threads, retries, cancels and crashes implement the plain pool: at most
\* MaxConcurrent tasks run, each once, after everything it depends on.
THEOREM RunnerImplementsPool == Spec => ImplementsPool
  <1>1. Init => Pool!Init
    BY DEF Init, MemoryInit, QueueInit, Pool!Init, Running, Protected, Unreported
  <1>2. QED
    BY <1>1, TypeCorrect, OneRunPerTask, PoolAccounted, PoolStep, PTL
       DEF Spec, ImplementsPool, Pool!Spec

-----------------------------------------------------------------------------
(* The bridge *)

\* A stream is closed by the executor only for a task that may be streamed.
StreamsNamed ==
  \A w \in Worker :
    pc[w] \in Answered /\ result[w].final_chunk => task[w] \in Streamed

\* Between _report and mark_done / mark_failed the result is on the bridge.
Reported ==
  \A w \in Worker :
    pc[w] \in {"complete", "forget", "notify"} =>
      published[task[w]] # "none" \/ task[w] \in Streamed

\* A path that still exists is one fetch_pending_tasks would list again.
FreshListed ==
  /\ \A t \in batchFresh \cup queueFresh : file[t] \in Listed
  /\ \A w \in workerFresh : file[task[w]] \in Listed

-----------------------------------------------------------------------------
(* The runner's part of a step *)

\* To the runner, every step of the bridge is one of its own, a stutter or a restart.
LEMMA RunnerOrRestart ==
  ASSUME [BridgeNext]_vars
  PROVE  [Next]_runnerVars \/ Restart
  <1>1. ASSUME NEW t \in Task, PushPacket(t) PROVE UNCHANGED runnerVars
    BY <1>1 DEF PushPacket
  <1>2. ASSUME NEW t \in CancelTargets, PushCancel(t) PROVE UNCHANGED runnerVars
    BY <1>2 DEF PushCancel
  <1>3. CASE MainLoop
    BY <1>3 DEF MainLoop, Fetch, SubmitFetched, CancelFetched, StartPump,
                ContinuePump, Next, Pump
  <1>4. ASSUME NEW w \in Worker, MarkFile(w) \/ WorkerElse(w) PROVE Next
    BY <1>4 DEF MarkFile, WorkerElse, Next, WorkerStep
  <1>5. CASE BridgeTick
    BY <1>5 DEF BridgeTick, Next
  <1>6. CASE UNCHANGED vars
    BY <1>6 DEF vars
  <1>7. QED
    BY <1>1, <1>2, <1>3, <1>4, <1>5, <1>6 DEF BridgeNext

\* A restart forgets what is not a file, and no more.
LEMMA RunnerTyping ==
  ASSUME TypeOK, Shape, [BridgeNext]_vars
  PROVE  TypeOK' /\ Shape'
  <1>1. CASE [Next]_runnerVars
    BY <1>1, TypingStep, ShapeStep
  <1>2. CASE Restart
    <2>1. NoResult \in Result
      BY DEF NoResult, Result, Status
    <2>2. QueueTypeOK'
      BY <1>2 DEF Restart, TypeOK, QueueTypeOK
    <2>3. TypeOK'
      <3>1. UNCHANGED bridgeVars /\ slots' = MaxConcurrent /\ inFlight' = 0
        BY <1>2 DEF Restart
      <3>2. slots' \in Nat /\ inFlight' \in Int
        BY <3>1, PoolSize
      <3>3. attempt' \in [Worker -> Nat]
        BY <1>2 DEF Restart
      <3>4. QED
        BY <1>2, <2>1, <2>2, <3>1, <3>2, <3>3
        DEF Restart, TypeOK, bridgeVars, MainPcs, WorkerPcs
    <2>4. Shape'
      BY <1>2 DEF Restart, Shape
    <2>5. QED
      BY <2>3, <2>4
  <1>3. QED
    BY <1>1, <1>2, RunnerOrRestart

\* What a step of w does to the registers of the other workers: nothing.
LEMMA OthersWait ==
  ASSUME TypeOK, NEW w \in Worker, WorkerStep(w)
  PROVE  \A v \in Worker \ {w} :
           /\ pc'[v] = pc[v] /\ task'[v] = task[v] /\ result'[v] = result[v]
  BY DEF WorkerStep, ExecutorReturns, SendAttempt, EndBackoff, Settle,
         Report, MarkCompleted, ForgetCancel, NotifyFinished, WorkerCrashes,
         Deregister, ReleaseSlot, Goto, TypeOK

\* Outside a worker's steps and Spawn, no worker's registers change.
LEMMA WorkersWait ==
  ASSUME \/ \E t \in Task : submit(t) \/ handle_cancel(t)
         \/ ReportExpired \/ AcquireSlot \/ NextTaskDrain \/ NextTaskPick
         \/ ClockTick \/ UNCHANGED runnerVars
  PROVE  UNCHANGED <<pc, task, result>>
  BY DEF submit, handle_cancel, ReportExpired, AcquireSlot, NextTaskDrain,
         NextTaskPick, ClockTick, runnerVars, workerVars

\* A started worker carries the picked task.
LEMMA SpawnStarts ==
  ASSUME TypeOK, Spawn
  PROVE  \E w \in Worker :
           /\ pc[w] = "none" /\ pc'[w] = "exec" /\ task'[w] = picked
           /\ {v \in Worker : pc[v] # pc'[v]} = {w}
           /\ \A v \in Worker \ {w} : pc'[v] = pc[v] /\ task'[v] = task[v]
           /\ result' = result
  <1>1. PICK w \in Worker :
          /\ pc[w] = "none"
          /\ pc' = [pc EXCEPT ![w] = "exec"]
          /\ task' = [task EXCEPT ![w] = picked]
    BY DEF Spawn
  <1>2. /\ pc'[w] = "exec" /\ task'[w] = picked
        /\ \A v \in Worker \ {w} : pc'[v] = pc[v] /\ task'[v] = task[v]
    BY <1>1 DEF TypeOK
  <1>3. {v \in Worker : pc[v] # pc'[v]} = {w}
    BY <1>1, <1>2
  <1>4. result' = result
    BY DEF Spawn
  <1>5. QED
    BY <1>1, <1>2, <1>3, <1>4

-----------------------------------------------------------------------------
(* The runner's history, across restarts *)

\* A published result is replaced, never taken back.
LEMMA PublishedStays ==
  ASSUME TypeOK, [BridgeNext]_vars, NEW t \in Task, published[t] # "none"
  PROVE  published'[t] # "none"
  <1>1. \/ UNCHANGED published
        \/ \E ts \in SUBSET Task, v \in {"ok", "not ok"} : WriteResults(ts, v)
    <2>1. CASE Restart
      BY <2>1 DEF Restart, bridgeVars
    <2>2. ASSUME NEW u \in Task, submit(u) PROVE UNCHANGED published
      BY <2>2 DEF submit
    <2>3. ASSUME NEW u \in Task, handle_cancel(u)
          PROVE  UNCHANGED published \/ WriteResults({u}, "not ok")
      BY <2>3 DEF handle_cancel, Publish, Drop
    <2>4. CASE Pump
      <3>1. Expired \subseteq Task
        BY DEF Expired, TypeOK, QueueTypeOK
      <3>2. QED
        BY <2>4, <3>1 DEF Pump, ReportExpired, AcquireSlot, NextTaskDrain, Drop,
                   Publish, PublishSome, NextTaskPick, Spawn, bridgeVars
    <2>5. ASSUME NEW w \in Worker, WorkerStep(w)
          PROVE  \/ UNCHANGED published
                 \/ \E v \in {"ok", "not ok"} :
                      WriteResults({task[w]} \cap Task, v)
      <3>1. CASE Report(w)
        <4>1. CASE UNCHANGED published
          BY <4>1
        <4>2. CASE WriteResults({task[w]}, IF result[w].status = "ok" THEN "ok" ELSE "not ok")
          BY <4>2, RunnerAssumption DEF WriteResults, TypeOK
        <4>3. QED
          BY <3>1, <4>1, <4>2 DEF Report, Publish, Drop
      <3>2. CASE ~Report(w)
        BY <2>5, <3>2 DEF WorkerStep, ExecutorReturns, SendAttempt, EndBackoff,
                   Settle, MarkCompleted, ForgetCancel, NotifyFinished,
                   WorkerCrashes, Deregister, ReleaseSlot, Drop, bridgeVars
      <3>3. QED
        BY <3>1, <3>2
    <2>6. CASE ClockTick \/ UNCHANGED runnerVars
      BY <2>6 DEF ClockTick, runnerVars, bridgeVars
    <2>7. QED
      BY <2>1, <2>2, <2>3, <2>4, <2>5, <2>6, RunnerOrRestart, RunnerAssumption
      DEF Next
  <1>2. QED
    BY <1>1 DEF WriteResults, TypeOK
-----------------------------------------------------------------------------
(* Streams and reports *)

\* Only the executor's answer sets final_chunk, and a restart clears it.
LEMMA StreamsNamedStep ==
  ASSUME TypeOK, Shape, StreamsNamed, [BridgeNext]_vars
  PROVE  StreamsNamed'
  <1>1. CASE Restart
    BY <1>1 DEF Restart, StreamsNamed, Answered
  <1>2. ASSUME UNCHANGED <<pc, task, result>> PROVE StreamsNamed'
    BY <1>2 DEF StreamsNamed
  <1>3. CASE Spawn
    BY <1>3, SpawnStarts DEF StreamsNamed, Answered
  <1>4. ASSUME NEW w \in Worker, WorkerStep(w) PROVE StreamsNamed'
    <2>1. pc'[w] \in Answered /\ result'[w].final_chunk => task'[w] \in Streamed
      <3>1. CASE ExecutorReturns(w)
        <4>1. PICK r \in ExecutorResults(task[w]) :
                result' = [result EXCEPT ![w] = r]
          BY <3>1 DEF ExecutorReturns
        <4>2. r.final_chunk => task[w] \in Streamed
          BY DEF ExecutorResults
        <4>3. task' = task
          BY <3>1 DEF ExecutorReturns
        <4>4. QED
          BY <4>1, <4>2, <4>3 DEF TypeOK
      <3>2. CASE SendAttempt(w) \/ EndBackoff(w) \/ Settle(w) \/ Report(w)
        BY <3>2 DEF SendAttempt, EndBackoff, Settle, Report, StreamsNamed, Answered
      <3>3. CASE \/ MarkCompleted(w) \/ ForgetCancel(w) \/ NotifyFinished(w)
                 \/ WorkerCrashes(w) \/ Deregister(w) \/ ReleaseSlot(w)
        BY <3>3 DEF MarkCompleted, ForgetCancel, NotifyFinished, WorkerCrashes,
                    Deregister, ReleaseSlot, Goto, TypeOK, Answered
      <3>4. QED
        BY <1>4, <3>1, <3>2, <3>3 DEF WorkerStep
    <2>2. QED
      BY <1>4, <2>1, OthersWait DEF StreamsNamed
  <1>5. QED
    BY <1>1, <1>2, <1>3, <1>4, RunnerOrRestart, WorkersWait, RunnerAssumption
    DEF Next, Pump

\* What comes after the report comes with its result.
LEMMA ReportedStep ==
  ASSUME TypeOK, Shape, StreamsNamed, Reported, [BridgeNext]_vars
  PROVE  Reported'
  <1>1. CASE Restart
    BY <1>1 DEF Restart, Reported
  <1>2. \A v \in Worker : pc[v] # "none" => task[v] \in Task
    BY DEF TypeOK, Shape
  <1>3. \A t \in Task : published[t] # "none" => published'[t] # "none"
    BY PublishedStays
  <1>4. ASSUME UNCHANGED <<pc, task, result>> PROVE Reported'
    BY <1>2, <1>3, <1>4 DEF Reported
  <1>5. CASE Spawn
    BY <1>2, <1>3, <1>5, SpawnStarts DEF Reported
  <1>6. ASSUME NEW w \in Worker, WorkerStep(w) PROVE Reported'
    <2>1. task[w] \in Task
      BY <1>6, WorkerHasTask
    <2>2. pc'[w] \in {"complete", "forget", "notify"} =>
            published'[task'[w]] # "none" \/ task'[w] \in Streamed
      <3>1. CASE Report(w)
        <4>1. pc[w] \in Answered /\ task' = task
          BY <3>1 DEF Report, Answered
        <4>2. CASE result[w].final_chunk
          BY <4>1, <4>2 DEF StreamsNamed
        <4>3. CASE ~result[w].final_chunk
          BY <2>1, <3>1, <4>1, <4>3 DEF Report, Publish, WriteResults
        <4>4. QED
          BY <4>2, <4>3
      <3>2. CASE MarkCompleted(w) \/ ForgetCancel(w)
        <4>1. pc[w] \in {"complete", "forget", "notify"} /\ task' = task
          BY <3>2 DEF MarkCompleted, ForgetCancel
        <4>2. QED
          BY <1>3, <2>1, <4>1 DEF Reported
      <3>3. CASE ~Report(w) /\ ~MarkCompleted(w) /\ ~ForgetCancel(w)
        BY <1>6, <3>3 DEF WorkerStep, ExecutorReturns, SendAttempt, EndBackoff,
                   Settle, NotifyFinished, WorkerCrashes, Deregister,
                   ReleaseSlot, Goto, TypeOK
      <3>4. QED
        BY <3>1, <3>2, <3>3
    <2>3. QED
      BY <1>2, <1>3, <1>6, <2>2, OthersWait DEF Reported
  <1>7. QED
    BY <1>1, <1>4, <1>5, <1>6, RunnerOrRestart, WorkersWait, RunnerAssumption
    DEF Next, Pump

-----------------------------------------------------------------------------
(* The files and their copies in memory *)

\* A step of the bridge keeps the runner's types and its own.
LEMMA BridgeTyping ==
  ASSUME BridgeTypeOK, Shape, [BridgeNext]_vars
  PROVE  BridgeTypeOK'
  <1> USE BridgeAssumption, RunnerAssumption
          DEF fileVars, batchVars, pathVars, bridgeLoopVars
  <1>0. TypeOK /\ TypeOK'
    BY RunnerTyping DEF BridgeTypeOK
  <1>1. ASSUME NEW t \in Task, PushPacket(t) PROVE BridgeTypeOK'
    <2>1. UNCHANGED <<entries, picked, pc>>
      BY <1>1 DEF PushPacket, runnerVars, queueVars, mainVars, workerVars
    <2>2. QED
      BY <1>0, <1>1, <2>1 DEF PushPacket, BridgeTypeOK, Live
  <1>2. ASSUME NEW t \in CancelTargets, PushCancel(t) PROVE BridgeTypeOK'
    <2>1. UNCHANGED <<entries, picked, pc>>
      BY <1>2 DEF PushCancel, runnerVars, queueVars, mainVars, workerVars
    <2>2. QED
      BY <1>0, <1>2, <2>1 DEF PushCancel, BridgeTypeOK, Live
  <1>3. CASE Fetch
    <2>1. UNCHANGED <<entries, picked, pc>>
      BY <1>3 DEF Fetch, runnerVars, queueVars, mainVars, workerVars
    <2>2. QED
      BY <1>0, <1>3, <2>1 DEF Fetch, BridgeTypeOK, Live
  <1>4. ASSUME NEW t \in Task, SubmitFetched(t) PROVE BridgeTypeOK'
    <2>1. /\ entries \subseteq entries' /\ UNCHANGED <<picked, pc>>
          /\ t \notin known => t \in entries'
      BY <1>4 DEF SubmitFetched, submit, add, mainVars, workerVars
    <2>2. QED
      BY <1>0, <1>4, <2>1 DEF SubmitFetched, BridgeTypeOK, Live
  <1>5. ASSUME NEW t \in CancelTargets, CancelFetched(t) PROVE BridgeTypeOK'
    <2>1. entries' = entries \ {t} /\ UNCHANGED <<picked, pc>>
      BY <1>5 DEF CancelFetched, handle_cancel, remove, Unlist, mainVars, workerVars
    <2>2. QED
      BY <1>0, <1>5, <2>1 DEF CancelFetched, BridgeTypeOK, Live
  <1>6. CASE StartPump
    <2>1. entries' = entries \ Expired /\ UNCHANGED <<picked, pc>>
      BY <1>6 DEF StartPump, ReportExpired, drain_expired, Unlist, workerVars
    <2>2. QED
      BY <1>0, <1>6, <2>1 DEF StartPump, BridgeTypeOK, Live
  <1>7. CASE ContinuePump
    <2>1. queueFresh' \subseteq entries' \cup ({picked'} \ {NoTask})
      <3>1. CASE AcquireSlot
        BY <1>7, <3>1 DEF ContinuePump, AcquireSlot, NextTaskPick, NextTaskDrain,
                          Spawn, queueVars, BridgeTypeOK
      <3>2. CASE NextTaskPick
        <4>1. queueFresh' = queueFresh
          BY <1>7, <3>2 DEF ContinuePump, NextTaskPick, NextTaskDrain, Spawn
        <4>2. entries \cup ({picked} \ {NoTask})
                \subseteq entries' \cup ({picked'} \ {NoTask})
          <5>1. CASE \E t \in NextUp : pop(t) /\ picked' = t
            <6>1. PICK t \in entries : entries' = entries \ {t} /\ picked' = t
              BY <5>1 DEF NextUp, Eligible, pop, Unlist
            <6>2. t # NoTask /\ picked = NoTask
              BY <1>0, <3>2, <6>1 DEF NextTaskPick, Shape, TypeOK, QueueTypeOK
            <6>3. QED
              BY <6>1, <6>2
          <5>2. CASE UNCHANGED <<queueVars, picked>>
            BY <5>2 DEF queueVars
          <5>3. QED
            BY <3>2, <5>1, <5>2 DEF NextTaskPick
        <4>3. QED
          BY <4>1, <4>2 DEF BridgeTypeOK
      <3>3. CASE NextTaskDrain
        BY <1>7, <3>3 DEF ContinuePump, AcquireSlot, NextTaskPick, NextTaskDrain,
                          Spawn, drain_expired, Unlist, BridgeTypeOK
      <3>4. CASE Spawn
        BY <1>7, <3>4 DEF ContinuePump, AcquireSlot, NextTaskPick, NextTaskDrain,
                          Spawn, queueVars, BridgeTypeOK
      <3>5. QED
        BY <1>7, <3>1, <3>2, <3>3, <3>4 DEF ContinuePump
    <2>2. workerFresh' \subseteq {w \in Worker : Live(w)'}
      <3>1. CASE Spawn
        <4>1. workerFresh' \subseteq workerFresh \cup {w \in Worker : pc[w] # pc'[w]}
          BY <1>7, <3>1 DEF ContinuePump, AcquireSlot, NextTaskPick, NextTaskDrain,
                            Spawn
        <4>2. QED
          BY <1>0, <3>1, <4>1, SpawnStarts DEF BridgeTypeOK, Live
      <3>2. CASE ~Spawn
        BY <1>7, <3>2 DEF ContinuePump, AcquireSlot, NextTaskPick, NextTaskDrain,
                          workerVars, BridgeTypeOK, Live
      <3>3. QED
        BY <3>1, <3>2
    <2>3. QED
      BY <1>0, <1>7, <2>1, <2>2 DEF ContinuePump, BridgeTypeOK, Live
  <1>8. ASSUME NEW w \in Worker, MarkFile(w) PROVE BridgeTypeOK'
    <2>1. UNCHANGED <<entries, picked, task>>
      BY <1>8 DEF MarkFile, NotifyFinished, queueVars, mainVars
    <2>2. pc'[w] = "exit" /\ \A v \in Worker \ {w} : pc'[v] = pc[v]
      BY <1>0, <1>8 DEF MarkFile, NotifyFinished, Goto, TypeOK
    <2>3. file' \in [Task -> {"none", "pending", "failed", "done"}]
      BY <1>8 DEF MarkFile, BridgeTypeOK
    <2>4. queueFresh' \subseteq queueFresh /\ workerFresh' \subseteq workerFresh
      BY <1>8 DEF MarkFile
    <2>5. QED
      BY <1>0, <1>8, <2>1, <2>2, <2>3, <2>4 DEF MarkFile, BridgeTypeOK, Live
  <1>9. ASSUME NEW w \in Worker, WorkerElse(w) PROVE BridgeTypeOK'
    <2>1. UNCHANGED <<entries, picked>>
      BY <1>9 DEF WorkerElse, WorkerStep, ExecutorReturns, SendAttempt,
                  EndBackoff, Settle, Report, MarkCompleted, mark_completed,
                  ForgetCancel, NotifyFinished, WorkerCrashes, Deregister,
                  ReleaseSlot, queueVars, mainVars
    <2>2. \A v \in Worker \ {w} : pc'[v] = pc[v]
      BY <1>0, <1>9, OthersWait DEF WorkerElse
    <2>3. workerFresh' \subseteq {v \in Worker : Live(v)'}
      BY <1>9, <2>2 DEF WorkerElse, BridgeTypeOK, Live
    <2>4. QED
      BY <1>0, <1>9, <2>1, <2>3 DEF WorkerElse, BridgeTypeOK, Live
  <1>10. CASE Restart
    BY <1>0, <1>10 DEF Restart, BridgeTypeOK, Live
  <1>11. CASE BridgeTick \/ UNCHANGED vars
    BY <1>0, <1>11 DEF BridgeTick, ClockTick, Tick, vars, runnerVars, queueVars,
                mainVars, workerVars, BridgeTypeOK, Live
  <1>12. QED
    BY <1>1, <1>2, <1>3, <1>4, <1>5, <1>6, <1>7, <1>8, <1>9, <1>10, <1>11
    DEF BridgeNext, MainLoop

\* Fetching copies listed packets only; a rename makes every copy of its path stale.
LEMMA FreshListedStep ==
  ASSUME BridgeTypeOK, Shape, FreshListed, [BridgeNext]_vars
  PROVE  FreshListed'
  <1> USE DEF fileVars, batchVars, pathVars, bridgeLoopVars
  <1>0. TypeOK
    BY DEF BridgeTypeOK
  <1>1. ASSUME NEW t \in Task, PushPacket(t) PROVE FreshListed'
    <2>1. \A u \in Task : file[u] \in Listed => file'[u] = file[u]
      BY <1>1 DEF PushPacket, BridgeTypeOK, Listed
    <2>2. batchFresh \cup queueFresh \subseteq Task
      BY <1>0 DEF BridgeTypeOK, TypeOK, QueueTypeOK
    <2>3. \A w \in workerFresh : task[w] \in Task
      BY <1>0 DEF BridgeTypeOK, TypeOK, Shape, Live
    <2>4. UNCHANGED <<batchFresh, queueFresh, workerFresh, task>>
      BY <1>1 DEF PushPacket, runnerVars, workerVars
    <2>5. QED
      BY <2>1, <2>2, <2>3, <2>4 DEF FreshListed
  <1>2. ASSUME NEW t \in CancelTargets, PushCancel(t) PROVE FreshListed'
    BY <1>2 DEF PushCancel, runnerVars, workerVars, FreshListed
  <1>3. CASE Fetch
    BY <1>3 DEF Fetch, runnerVars, workerVars, FreshListed
  <1>4. ASSUME NEW t \in Task, SubmitFetched(t) PROVE FreshListed'
    BY <1>4 DEF SubmitFetched, submit, workerVars, FreshListed
  <1>5. ASSUME NEW t \in CancelTargets, CancelFetched(t) PROVE FreshListed'
    BY <1>5 DEF CancelFetched, handle_cancel, workerVars, FreshListed
  <1>6. CASE StartPump
    BY <1>6 DEF StartPump, ReportExpired, workerVars, FreshListed
  <1>7. CASE ContinuePump
    <2>1. UNCHANGED <<file, batchFresh>> /\ queueFresh' \subseteq queueFresh
      BY <1>7 DEF ContinuePump
    <2>2. CASE Spawn
      <3>1. PICK w \in Worker :
              /\ pc[w] = "none" /\ task'[w] = picked
              /\ {v \in Worker : pc[v] # pc'[v]} = {w}
              /\ \A v \in Worker \ {w} : task'[v] = task[v]
        BY <1>0, <2>2, SpawnStarts
      <3>2. w \notin workerFresh
        BY <3>1 DEF BridgeTypeOK, Live
      <3>3. workerFresh' = IF picked \in queueFresh THEN workerFresh \cup {w}
                                                    ELSE workerFresh
        BY <1>7, <2>2, <3>1 DEF ContinuePump, AcquireSlot, NextTaskPick,
                                NextTaskDrain, Spawn
      <3>4. workerFresh \subseteq Worker
        BY DEF BridgeTypeOK
      <3>5. QED
        BY <2>1, <3>1, <3>2, <3>3, <3>4 DEF FreshListed
    <2>3. CASE ~Spawn
      BY <1>7, <2>1, <2>3 DEF ContinuePump, AcquireSlot, NextTaskPick,
                              NextTaskDrain, workerVars, FreshListed
    <2>4. QED
      BY <2>2, <2>3
  <1>8. ASSUME NEW w \in Worker, MarkFile(w) PROVE FreshListed'
    <2>1. task' = task
      BY <1>8 DEF MarkFile, NotifyFinished
    <2>2. CASE w \in workerFresh
      <3>1. \A u \in Task \ {task[w]} : file'[u] = file[u]
        BY <1>8, <2>2 DEF MarkFile, BridgeTypeOK
      <3>2. /\ batchFresh' = batchFresh \ {task[w]}
            /\ queueFresh' = queueFresh \ {task[w]}
            /\ workerFresh' = {v \in workerFresh : task[v] # task[w]}
        BY <1>8, <2>2 DEF MarkFile
      <3>3. batchFresh \cup queueFresh \subseteq Task
        BY <1>0 DEF BridgeTypeOK, TypeOK, QueueTypeOK
      <3>4. \A v \in workerFresh : task[v] \in Task
        BY <1>0 DEF BridgeTypeOK, TypeOK, Shape, Live
      <3>5. QED
        BY <2>1, <3>1, <3>2, <3>3, <3>4 DEF FreshListed
    <2>3. CASE w \notin workerFresh
      BY <1>8, <2>1, <2>3 DEF MarkFile, FreshListed
    <2>4. QED
      BY <2>2, <2>3
  <1>9. ASSUME NEW w \in Worker, WorkerElse(w) PROVE FreshListed'
    <2>1. \A v \in Worker \ {w} : task'[v] = task[v]
      BY <1>0, <1>9, OthersWait DEF WorkerElse
    <2>2. pc'[w] # "none" => task'[w] = task[w]
      BY <1>0, <1>9 DEF WorkerElse, WorkerStep, ExecutorReturns, SendAttempt,
                  EndBackoff, Settle, Report, MarkCompleted, ForgetCancel,
                  NotifyFinished, WorkerCrashes, Deregister, ReleaseSlot, Goto,
                  TypeOK
    <2>3. workerFresh \subseteq Worker
      BY DEF BridgeTypeOK
    <2>4. QED
      BY <1>9, <2>1, <2>2, <2>3 DEF WorkerElse, FreshListed
  <1>10. CASE Restart
    BY <1>10 DEF Restart, FreshListed
  <1>11. CASE BridgeTick \/ UNCHANGED vars
    BY <1>11 DEF BridgeTick, ClockTick, vars, runnerVars, workerVars, FreshListed
  <1>12. QED
    BY <1>1, <1>2, <1>3, <1>4, <1>5, <1>6, <1>7, <1>8, <1>9, <1>10, <1>11
    DEF BridgeNext, MainLoop

-----------------------------------------------------------------------------
(* The renames *)

\* A packet leaves the listed names only by mark_done or mark_failed.
LEMMA OnlyMarkRenames ==
  ASSUME BridgeTypeOK, [BridgeNext]_vars, NEW t \in Task, file'[t] # file[t]
  PROVE  \/ file[t] = "none" /\ file'[t] = "pending"
         \/ \E w \in workerFresh : MarkFile(w) /\ task[w] = t
  <1> USE DEF fileVars, bridgeLoopVars
  <1>1. CASE \E u \in Task : PushPacket(u)
    BY <1>1 DEF PushPacket, BridgeTypeOK
  <1>2. CASE \E w \in Worker : MarkFile(w)
    BY <1>2 DEF MarkFile, BridgeTypeOK
  <1>3. CASE ~(\E u \in Task : PushPacket(u)) /\ ~(\E w \in Worker : MarkFile(w))
    BY <1>3 DEF BridgeNext, PushCancel, MainLoop, Fetch, SubmitFetched,
         CancelFetched, StartPump, ContinuePump, WorkerElse, Restart,
         BridgeTick, vars
  <1>4. QED
    BY <1>1, <1>2, <1>3

\* Only mark_done and mark_failed write such a name, after the report.
LEMMA AnsweredBeforeRenamedStep ==
  ASSUME BridgeTypeOK, Shape, Reported, AnsweredBeforeRenamed, [BridgeNext]_vars
  PROVE  AnsweredBeforeRenamed'
  <1> SUFFICES ASSUME NEW t \in Task \ Streamed, file'[t] \in {"failed", "done"}
               PROVE  published'[t] # "none"
    BY DEF AnsweredBeforeRenamed
  <1>0. TypeOK
    BY DEF BridgeTypeOK
  <1>1. CASE file'[t] = file[t]
    BY <1>0, <1>1, PublishedStays DEF AnsweredBeforeRenamed
  <1>2. CASE file'[t] # file[t]
    <2>1. PICK w \in workerFresh : MarkFile(w) /\ task[w] = t
      BY <1>2, OnlyMarkRenames
    <2>2. w \in Worker /\ pc[w] = "notify"
      BY <2>1 DEF MarkFile, NotifyFinished, BridgeTypeOK
    <2>3. published[t] # "none"
      BY <2>1, <2>2 DEF Reported
    <2>4. QED
      BY <1>0, <2>3, PublishedStays
  <1>3. QED
    BY <1>1, <1>2

\* What holds in every state of the agent, restarts included.
BridgeInv ==
  BridgeTypeOK /\ Shape /\ StreamsNamed /\ Reported /\ FreshListed
    /\ AnsweredBeforeRenamed

\* All of it is inductive together.
LEMMA BridgeInvariant == BridgeSpec => []BridgeInv
  <1>1. BridgeInit => BridgeInv
    <2> SUFFICES ASSUME BridgeInit PROVE BridgeInv
      OBVIOUS
    <2>1. TypeOK /\ Shape
      BY TypingInit DEF BridgeInit
    <2>2. /\ \A w \in Worker : pc[w] = "none"
          /\ file = [t \in Task |-> "none"]
      BY DEF BridgeInit, Init, MemoryInit
    <2>3. BridgeTypeOK
      BY <2>1, BridgeAssumption DEF BridgeInit, LoopInit, BridgeTypeOK
    <2>4. QED
      BY <2>1, <2>2, <2>3 DEF BridgeInit, LoopInit, BridgeInv, StreamsNamed,
                              Answered, Reported, FreshListed, AnsweredBeforeRenamed
  <1>2. BridgeInv /\ [BridgeNext]_vars => BridgeInv'
    BY RunnerTyping, BridgeTyping, StreamsNamedStep, ReportedStep,
       FreshListedStep, AnsweredBeforeRenamedStep DEF BridgeInv, BridgeTypeOK
  <1>3. QED
    BY <1>1, <1>2, PTL DEF BridgeSpec

\* The variables of the loop stay what main.py and the poller make of them: in
\* particular a copy with a live path is a queued task or a running one.
THEOREM BridgeTypeCorrect == BridgeSpec => []BridgeTypeOK
  BY BridgeInvariant, PTL DEF BridgeInv

\* A crash before the rename re-runs a packet and never loses it: a packet is
\* renamed only when its result is on the bridge, unless its executor streams.
THEOREM AnswersComeFirst == BridgeSpec => []AnsweredBeforeRenamed
  BY BridgeInvariant, PTL DEF BridgeInv

\* Once a packet is done- no stale copy of it, from before or after a restart,
\* turns it back.
THEOREM DoneStays == BridgeSpec => DoneIsFinal
  <1>1. BridgeInv /\ [BridgeNext]_vars =>
          [\A t \in Task : file[t] = "done" => file'[t] = "done"]_vars
    <2> SUFFICES ASSUME BridgeInv, [BridgeNext]_vars,
                        NEW t \in Task, file[t] = "done", file'[t] # "done"
                 PROVE  FALSE
      OBVIOUS
    <2>1. PICK w \in workerFresh : MarkFile(w) /\ task[w] = t
      BY OnlyMarkRenames DEF BridgeInv
    <2>2. file[t] \in Listed
      BY <2>1 DEF BridgeInv, FreshListed
    <2>3. QED
      BY <2>2 DEF Listed
  <1>2. QED
    BY <1>1, BridgeInvariant, PTL DEF BridgeSpec, DoneIsFinal

-----------------------------------------------------------------------------
(* Envelopes *)

\* An optional member that is held as None is not written, and any other is
\* written as it is: reading it again gives what was held.
LEMMA HeldWritten ==
  ASSUME NEW x
  PROVE  /\ Held(Written(Held(x))) = Held(x)
         /\ \A t \in {"str", "object"} : Optional(x, t) => Optional(Written(Held(x)), t)
         /\ IntOk(x) => IntOk(Written(Held(x)))
  BY DEF Held, Written, None, Nil, Missing, Optional, IntOk

\* The members of an envelope one by one: accepted again, and read the same.
LEMMA IdentityAgain ==
  ASSUME NEW i, IdentityOk(i), i.provisional \in Value
  PROVE  LET j == WrittenIdentity(HeldIdentity(i)) IN
         IdentityOk(j) /\ HeldIdentity(j) = HeldIdentity(i)
<1> DEFINE was == IF Absent(i.provisional) THEN BoolValue("0") ELSE i.provisional
           put == IF was.is = "0" THEN Missing ELSE was
           j == WrittenIdentity(HeldIdentity(i))
<1>1. /\ was.type = "bool" /\ put.type \in {"absent", "bool"}
      /\ (IF Absent(put) THEN BoolValue("0") ELSE put) = was
  BY DEF IdentityOk, BoolValue, Missing, Absent, Value
<1>2. j = [type |-> "object", self |-> i.self, canonical |-> i.canonical,
           display_name |-> Written(Held(i.display_name)), raw |-> Written(Held(i.raw)),
           provisional |-> put]
  BY DEF HeldIdentity, WrittenIdentity
<1>3. IdentityOk(j)
  BY <1>1, <1>2, HeldWritten DEF IdentityOk
<1>4. HeldIdentity(j) = HeldIdentity(i)
  BY <1>1, <1>2, HeldWritten DEF HeldIdentity
<1> QED
  BY <1>3, <1>4

\* What is held of a reply address is written as something held the same.
LEMMA ReplyAgain ==
  ASSUME NEW r, ReplyOk(r)
  PROVE  LET j == WrittenReply(HeldReply(r)) IN
         ReplyOk(j) /\ HeldReply(j) = HeldReply(r)
  BY HeldWritten DEF WrittenReply, HeldReply, ReplyOk

\* The same of a rate limit ...
LEMMA RateLimitAgain ==
  ASSUME NEW l, RateLimitOk(l)
  PROVE  LET j == WrittenRateLimit(HeldRateLimit(l)) IN
         RateLimitOk(j) /\ HeldRateLimit(j) = HeldRateLimit(l)
<1>1. CASE None(l)
  BY <1>1 DEF WrittenRateLimit, HeldRateLimit, RateLimitOk, None, Nil, Missing
<1>2. CASE ~None(l)
  <2> DEFINE j == WrittenRateLimit(HeldRateLimit(l))
  <2>1. j = [type |-> "object", max_per_hour |-> Written(Held(l.max_per_hour)),
             min_interval_s |-> Written(Held(l.min_interval_s))]
    BY <1>2 DEF WrittenRateLimit, HeldRateLimit
  <2> HIDE DEF j
  <2>2. RateLimitOk(j)
    BY <1>2, <2>1, HeldWritten DEF RateLimitOk
  <2>3. HeldRateLimit(j) = HeldRateLimit(l)
    BY <1>2, <2>1, HeldWritten DEF HeldRateLimit, None
  <2> QED
    BY <2>2, <2>3 DEF j
<1> QED
  BY <1>1, <1>2

\* ... and of the audit member.
LEMMA AuditAgain ==
  ASSUME NEW a, AuditOk(a)
  PROVE  LET j == WrittenAudit(HeldAudit(a)) IN
         AuditOk(j) /\ HeldAudit(j) = HeldAudit(a)
<1>1. CASE None(a)
  BY <1>1 DEF WrittenAudit, HeldAudit, AuditOk, None, Nil, Missing
<1>2. CASE ~None(a)
  <2> DEFINE j == WrittenAudit(HeldAudit(a))
  <2>1. j = [type |-> "object", decision |-> Written(Held(a.decision)),
             reason |-> Written(Held(a.reason))]
    BY <1>2 DEF WrittenAudit, HeldAudit
  <2> HIDE DEF j
  <2>2. AuditOk(j)
    BY <1>2, <2>1, HeldWritten DEF AuditOk
  <2>3. HeldAudit(j) = HeldAudit(a)
    BY <1>2, <2>1, HeldWritten DEF HeldAudit, None
  <2> QED
    BY <2>2, <2>3 DEF j
<1> QED
  BY <1>1, <1>2

\* What parse_envelope accepts and serialize writes, it accepts again, as the
\* same envelope: an optional member that is missing, null or false comes back
\* as what it was taken for (amp.py:139, "so it round-trips losslessly").
THEOREM RoundTrip ==
  ASSUME NEW p, NEW strict \in BOOLEAN, p.identity.provisional \in Value, Accepts(p, strict)
  PROVE  LET q == Serialized(Parsed(p)) IN
         Accepts(q, strict) /\ Parsed(q) = Parsed(p)
<1> DEFINE q == Serialized(Parsed(p))
<1>1. /\ q.v = p.v /\ q.id = p.id /\ q.ts = p.ts /\ q.direction = p.direction
      /\ q.channel = p.channel
      /\ q.source = [type |-> "object", brick |-> p.source.brick, instance |-> p.source.instance]
      /\ q.identity = WrittenIdentity(HeldIdentity(p.identity))
      /\ q.payload = [type |-> "object", tag |-> p.payload.tag, body |-> p.payload.body]
      /\ q.reply = WrittenReply(HeldReply(p.reply))
      /\ q.rate_limit = WrittenRateLimit(HeldRateLimit(p.rate_limit))
      /\ q.audit = WrittenAudit(HeldAudit(p.audit))
  BY DEF Serialized, Parsed
<1>2. /\ IdentityOk(q.identity) /\ HeldIdentity(q.identity) = HeldIdentity(p.identity)
      /\ ReplyOk(q.reply) /\ HeldReply(q.reply) = HeldReply(p.reply)
      /\ RateLimitOk(q.rate_limit) /\ HeldRateLimit(q.rate_limit) = HeldRateLimit(p.rate_limit)
      /\ AuditOk(q.audit) /\ HeldAudit(q.audit) = HeldAudit(p.audit)
  BY <1>1, IdentityAgain, ReplyAgain, RateLimitAgain, AuditAgain DEF Accepts
<1> HIDE DEF q
<1>3. SourceOk(q.source) /\ PayloadOk(q.payload) /\ Coherent(q)
  <2>1. SourceOk(q.source)
    <3>1. q.source = [type |-> "object", brick |-> p.source.brick, instance |-> p.source.instance]
      BY <1>1
    <3>2. IsString(p.source.brick) /\ IsString(p.source.instance)
      BY DEF Accepts, SourceOk
    <3> QED
      BY <3>1, <3>2 DEF SourceOk
  <2>2. q.payload = [type |-> "object", tag |-> p.payload.tag, body |-> p.payload.body]
    BY <1>1
  <2>3. PayloadOk(p.payload) /\ Coherent(p)
    BY DEF Accepts
  <2>4. PayloadOk(q.payload)
    BY <2>2, <2>3 DEF PayloadOk
  <2>5. q.payload.tag = p.payload.tag /\ q.direction = p.direction
    BY <1>1
  <2>6. Coherent(q)
    BY <2>3, <2>5 DEF Coherent
  <2> QED
    BY <2>1, <2>4, <2>6
<1>4. Accepts(q, strict)
  BY <1>1, <1>2, <1>3 DEF Accepts
<1>5. Parsed(q) = Parsed(p)
  BY <1>1, <1>2 DEF Parsed
<1> QED
  BY <1>4, <1>5 DEF q

\* A member left out where None is allowed.
LEMMA LeftOut == None(Missing)
  BY DEF None, Missing

\* A member that is absent or null passes the check of an optional one.
LEMMA NoneIsOk ==
  ASSUME NEW x, None(x)
  PROVE  RateLimitOk(x) /\ AuditOk(x) /\ Optional(x, "str")
  BY DEF RateLimitOk, AuditOk, Optional

\* A string is held as it is; values of strings are strings.
LEMMA Strings ==
  ASSUME NEW x
  PROVE  /\ IsString(x) => Held(x) = x /\ Optional(x, "str")
         /\ IsString(StringValue(x)) /\ StringValue(x).is = x
  BY DEF Held, None, Optional, IsString, StringValue

\* The reporter never fails to build its envelope for a task whose packet was
\* accepted, and the answer goes to the address the packet gave, in its
\* channel, naming its id unless that was empty (reporter.py:95-110).
THEOREM EveryTaskCanBeAnswered ==
  ASSUME NEW p, IsTask(p), NEW instance, IsString(instance),
         NEW outcome, outcome.type = "object", outcome.ok.type = "bool", ~Absent(outcome.task_id),
         NewId \in Uuid, Now \in Stamp, "brick:iddo-harness" \in Canonical
  PROVE  LET e == TaskOf(p).envelope
             a == Answer(e, instance, outcome)
         IN /\ Accepts(a, TRUE)
            /\ Parsed(a).reply.to_address = p.reply.to_address
            /\ Parsed(a).channel = p.channel
            /\ p.id.is # "" => Parsed(a).reply.reply_to_id = p.id
<1> DEFINE e == TaskOf(p).envelope
           a == Answer(e, instance, outcome)
<1>1. /\ IsString(p.id) /\ IsString(p.channel) /\ p.channel.is # "" /\ ReplyOk(p.reply)
  BY DEF IsTask, Accepts
<1>2. /\ e.id = p.id /\ e.channel = p.channel
      /\ e.reply.to_channel = p.reply.to_channel /\ e.reply.to_address = p.reply.to_address
  BY DEF TaskOf, Parsed, HeldReply
<1>3. /\ a.v = [type |-> "int", is |-> "1"] /\ a.id = StringValue(NewId) /\ a.ts = StringValue(Now)
      /\ a.direction = StringValue("outbound") /\ a.channel = p.channel
      /\ a.reply = [type |-> "object", to_channel |-> p.reply.to_channel,
                    to_address |-> p.reply.to_address,
                    reply_to_id |-> IF p.id.is = "" THEN Missing ELSE p.id]
      /\ a.rate_limit = Missing /\ a.audit = Missing
  BY <1>2 DEF Answer
<1>4. SourceOk(a.source)
  BY DEF Answer, SourceOk, StringValue, IsString
<1>5. IdentityOk(a.identity)
  BY DEF Answer, IdentityOk, CanonicalOk, StringValue, IsString, BoolValue, Missing, Optional, None
<1>6. PayloadOk(a.payload) /\ Coherent(a)
  BY DEF Answer, PayloadOk, Coherent, StringValue, IsString
<1> DEFINE to == IF p.id.is = "" THEN Missing ELSE p.id
<1> HIDE DEF a
<1>7. a.reply = [type |-> "object", to_channel |-> p.reply.to_channel,
                 to_address |-> p.reply.to_address, reply_to_id |-> to]
  BY <1>3
<1>8. Optional(to, "str") /\ (p.id.is # "" => Held(to) = p.id)
  BY <1>1, LeftOut, NoneIsOk, Strings
<1> HIDE DEF to
<1>9. ReplyOk(a.reply)
  <2>1. IsString(p.reply.to_channel) /\ CanonicalOk(p.reply.to_address)
    BY <1>1 DEF ReplyOk
  <2>2. /\ a.reply.type = "object" /\ a.reply.to_channel = p.reply.to_channel
        /\ a.reply.to_address = p.reply.to_address /\ a.reply.reply_to_id = to
    BY <1>7
  <2> QED
    BY <1>8, <2>1, <2>2 DEF ReplyOk
<1>10. RateLimitOk(a.rate_limit) /\ AuditOk(a.audit)
  BY <1>3, LeftOut, NoneIsOk
<1>11. a.v.type = "int" /\ a.v.is = "1"
  <2>1. a.v = [type |-> "int", is |-> "1"]
    BY <1>3
  <2> QED
    BY <2>1
<1>12. /\ IsString(a.id) /\ a.id.is \in Uuid
       /\ IsString(a.ts) /\ a.ts.is \in Stamp
       /\ IsString(a.direction) /\ IsString(a.channel) /\ a.channel.is # ""
  <2>1. /\ a.id = StringValue(NewId) /\ a.ts = StringValue(Now)
        /\ a.direction = StringValue("outbound") /\ a.channel = p.channel
    BY <1>3
  <2> QED
    BY <1>1, <2>1, Strings
<1>13. Accepts(a, TRUE)
  BY <1>4, <1>5, <1>6, <1>9, <1>10, <1>11, <1>12 DEF Accepts
<1>14. Parsed(a).channel = p.channel /\ Parsed(a).reply = HeldReply(a.reply)
  BY <1>3 DEF Parsed
<1>15. HeldReply(a.reply).to_address = p.reply.to_address /\ HeldReply(a.reply).reply_to_id = Held(to)
  BY <1>7 DEF HeldReply
<1> QED
  BY <1>8, <1>13, <1>14, <1>15 DEF a
=============================================================================
