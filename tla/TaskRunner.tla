----------------------------- MODULE TaskRunner ------------------------------
(***************************************************************************)
(* agent/runner.py: the queue of agent/taskqueue.py drained by a bounded   *)
(* pool of worker threads, with retries and cancellation.                  *)
(*                                                                         *)
(* One main thread calls submit, the cancel handler and pump (main.py's    *)
(* loop); every started task has a worker thread of its own, live until it *)
(* releases its semaphore slot.  A worker and the main thread interleave   *)
(* at every lock, every call out (executor, reporter, on_finished) and     *)
(* every sleep.                                                            *)
(***************************************************************************)
EXTENDS TaskQueue, FiniteSets

CONSTANTS
  Worker,         \* worker threads: as many as max_concurrent_tasks
  MaxAttempts,    \* retry.max_attempts of each task
  Answers,        \* the statuses Executor.run may answer for each task
  Streamed,       \* tasks whose executor may set metadata.final_chunk
  ReporterFails,  \* TRUE when a reporter call may raise (disk, signer), and
                  \* then writes nothing
  CancelTargets,  \* the ids cancel packets name
  NoTask

MaxConcurrent == Cardinality(Worker)

\* Result.ok and Result.decision, as far as the runner tells them apart:
\* verdict is any decision of NON_RETRYABLE_DECISIONS but cancelled.
Status == {"ok", "error", "verdict", "cancelled"}

Result == [status : Status, final_chunk : BOOLEAN]
NoResult == [status |-> "error", final_chunk |-> FALSE]

ASSUME RunnerAssumption ==
  /\ Worker # {} /\ IsFiniteSet(Worker)
  /\ MaxAttempts \in [Task -> Nat \ {0}]
  /\ Answers \in [Task -> SUBSET {"ok", "error", "verdict"}]
  /\ Streamed \subseteq Task
  /\ CancelTargets \subseteq Task
  /\ ReporterFails \in BOOLEAN
  /\ NoTask \notin Task

VARIABLES
  mainPc,     \* where the main thread is: idle (between calls), inside pump,
              \* or dead: an exception has left submit or pump
  picked,     \* pump's local `task`, between next_task and _spawn
  slots,      \* value of the _slots semaphore
  inFlight,   \* _in_flight
  workers,    \* keys of the _workers dict
  cancelled,  \* _cancelled
  stopping,   \* ids ExecutorV2.stop was called for (ExecutorV2._cancelled)
  pc,         \* where each worker thread is in work / run_task
  task,       \* run_task's task
  attempt,    \* run_task's attempt
  result,     \* run_task's result
  cut,        \* run_task's cancelled, computed after the retry loop
  published,  \* results/<id>.json on the bridge: "none", "ok" or "not ok"
  waiting,    \* history: ids accepted and not answered since
  lost        \* history: ids accepted that the code gave up without a result

mainVars == <<mainPc, picked, slots>>
registryVars == <<inFlight, workers>>
flagVars == <<cancelled, stopping>>
workerVars == <<pc, task, attempt, result, cut>>
bridgeVars == <<published, waiting, lost>>
runnerVars ==
  <<now, queueVars, mainVars, registryVars, flagVars, workerVars, bridgeVars>>

MainPcs == {"idle", "slot", "drain", "pick", "spawn", "dead"}

\* work() and run_task() in program order.
WorkerPcs == {"none", "exec", "losing", "backoff", "settle", "report",
              "complete", "forget", "notify", "exit", "release"}

\* The phases in which the run still owes its producer a result.
Unreported == {"exec", "losing", "backoff", "settle", "report"}

\* The phases in which _known_ids still protects the id.
Protected == Unreported \cup {"complete"}

\* Between _spawn and the finally block's `_in_flight -= 1`.
Registered == Protected \cup {"forget", "notify", "exit"}

Live(w) == pc[w] # "none"
Running == {task[w] : w \in {v \in Worker : pc[v] \in Protected}}
               \cup ({picked} \ {NoTask})

TypeOK ==
  /\ QueueTypeOK
  /\ mainPc \in MainPcs
  /\ picked \in Task \cup {NoTask}
  /\ slots \in Nat
  /\ inFlight \in Int
  /\ workers \subseteq Task
  /\ cancelled \subseteq Task
  /\ stopping \subseteq Task
  /\ pc \in [Worker -> WorkerPcs]
  /\ task \in [Worker -> Task \cup {NoTask}]
  /\ attempt \in [Worker -> Nat]
  /\ result \in [Worker -> Result]
  /\ cut \in [Worker -> BOOLEAN]
  /\ published \in [Task -> {"none", "ok", "not ok"}]
  /\ waiting \subseteq Task
  /\ lost \subseteq Task

MemoryInit ==
  /\ QueueInit
  /\ mainPc = "idle"
  /\ picked = NoTask
  /\ slots = MaxConcurrent
  /\ inFlight = 0
  /\ workers = {}
  /\ cancelled = {}
  /\ stopping = {}
  /\ pc = [w \in Worker |-> "none"]
  /\ task = [w \in Worker |-> NoTask]
  /\ attempt = [w \in Worker |-> 0]
  /\ result = [w \in Worker |-> NoResult]
  /\ cut = [w \in Worker |-> FALSE]

Init ==
  /\ now = 0
  /\ MemoryInit
  /\ published = [t \in Task |-> "none"]
  /\ waiting = {}
  /\ lost = {}

-----------------------------------------------------------------------------
(* Publishing *)

\* A result file for each id in ts reaches the bridge.
WriteResults(ts, verdict) ==
  published' = [t \in Task |-> IF t \in ts THEN verdict ELSE published[t]]

\* A result for every id in ts.
Publish(ts, verdict) ==
  /\ WriteResults(ts, verdict)
  /\ waiting' = waiting \ ts
  /\ lost' = lost \ ts

\* A failed result for the ids in told; the rest of owed never gets one.
PublishSome(told, owed) ==
  /\ WriteResults(told, "not ok")
  /\ waiting' = waiting \ told
  /\ lost' = (lost \ told) \cup (owed \ told)

\* The ids in ts leave the runner and nothing is written for them.
Drop(ts) == lost' = lost \cup ts /\ UNCHANGED <<published, waiting>>

-----------------------------------------------------------------------------
(* The main thread: submit, cancel, pump *)

submit(t) ==
  /\ mainPc = "idle"
  /\ add(t)
  /\ waiting' = IF t \in known THEN waiting ELSE waiting \cup {t}
  /\ UNCHANGED <<now, mainVars, registryVars, flagVars, workerVars,
                 published, lost>>

\* The main thread makes its last reporter call of a handler: it comes back to
\* its loop, or the call raises and nothing in submit, pump or the loop of
\* main.py catches that.
ReturnOrDie ==
  \/ mainPc' = "idle"
  \/ ReporterFails /\ mainPc' = "dead"

\* handle_cancel for target t: what it does to the target, then the cancel
\* packet's own result, of which only the exception matters here.
\* One step: only the main thread queues and dequeues, and no worker acts for an
\* id that is queued, so the workers' steps commute with those of the handler.
\* A target pulled out of the queue while an old worker of the same id is
\* still registered takes the executor branch, and gets no result.
handle_cancel(t) ==
  /\ mainPc = "idle"
  /\ cancelled' = cancelled \cup {t}
  /\ remove(t)
  /\ \/ /\ t \in entries /\ t \notin workers
        /\ Publish({t}, "not ok") /\ ReturnOrDie
        /\ UNCHANGED stopping
     \/ /\ t \in entries /\ t \notin workers
        /\ ReporterFails
        /\ Drop({t}) /\ mainPc' = "dead"
        /\ UNCHANGED stopping
     \/ /\ t \notin entries \/ t \in workers
        /\ stopping' = stopping \cup {t}
        /\ Drop({t} \cap entries) /\ ReturnOrDie
  /\ UNCHANGED <<now, picked, slots, registryVars, workerVars>>

\* Wrong _report_expired: entries are drained and nobody is told.
ForgetExpired ==
  /\ mainPc = "idle"
  /\ mainPc' = "slot"
  /\ drain_expired
  /\ UNCHANGED <<now, picked, slots, registryVars, flagVars, workerVars, bridgeVars>>

\* pump, _report_expired: the entries drained here are reported one by one; a
\* call that raises leaves pump, and the entries not yet told are in no queue.
ReportExpired ==
  /\ mainPc = "idle"
  /\ drain_expired
  /\ \/ mainPc' = "slot" /\ Publish(Expired, "not ok")
     \/ /\ ReporterFails
        /\ mainPc' = "dead"
        /\ \E told \in SUBSET Expired \ {Expired} : PublishSome(told, Expired)
  /\ UNCHANGED <<now, picked, slots, registryVars, flagVars, workerVars>>

\* Wrong acquire: a slot is taken without looking whether one is free.
TakeSlot ==
  /\ mainPc = "slot"
  /\ mainPc' = "drain"
  /\ slots' = slots - 1
  /\ UNCHANGED <<now, queueVars, picked, registryVars, flagVars, workerVars,
                 bridgeVars>>

AcquireSlot ==
  /\ mainPc = "slot"
  /\ \/ /\ slots > 0
        /\ slots' = slots - 1
        /\ mainPc' = "drain"
     \/ /\ slots = 0
        /\ mainPc' = "idle"
        /\ UNCHANGED slots
  /\ UNCHANGED <<now, queueVars, picked, registryVars, flagVars, workerVars,
                 bridgeVars>>

\* next_task's own drain_expired: its answer is thrown away.
NextTaskDrain ==
  /\ mainPc = "drain"
  /\ mainPc' = "pick"
  /\ drain_expired
  /\ Drop(Expired)
  /\ UNCHANGED <<now, picked, slots, registryVars, flagVars, workerVars>>

NextTaskPick ==
  /\ mainPc = "pick"
  /\ \/ \E t \in NextUp :
          /\ pop(t)
          /\ picked' = t
          /\ mainPc' = "spawn"
          /\ UNCHANGED slots
     \/ /\ Eligible = {}
        /\ slots' = slots + 1
        /\ mainPc' = "idle"
        /\ UNCHANGED <<queueVars, picked>>
  /\ UNCHANGED <<now, registryVars, flagVars, workerVars, bridgeVars>>

\* _spawn, and the new thread's way to its first executor.run: attempt 1 is
\* made without looking at _cancelled.
Spawn ==
  /\ mainPc = "spawn"
  /\ mainPc' = "slot"
  /\ picked' = NoTask
  /\ workers' = workers \cup {picked}
  /\ inFlight' = inFlight + 1
  /\ \E w \in Worker :
       /\ pc[w] = "none"
       /\ pc' = [pc EXCEPT ![w] = "exec"]
       /\ task' = [task EXCEPT ![w] = picked]
       /\ attempt' = [attempt EXCEPT ![w] = 1]
  /\ UNCHANGED <<now, queueVars, slots, flagVars, result, cut, bridgeVars>>

-----------------------------------------------------------------------------
(* A worker thread *)

Goto(w, label) == pc' = [pc EXCEPT ![w] = label]

\* _should_retry, and attempts left.
should_retry(w, r) ==
  /\ r.status = "error"
  /\ task[w] \notin cancelled
  /\ attempt[w] < MaxAttempts[task[w]]

\* What the executor may answer: "cancelled" only once stop was called.
ExecutorResults(t) ==
  {r \in Result :
     /\ r.status \in Answers[t] \/ (r.status = "cancelled" /\ t \in stopping)
     /\ r.final_chunk => t \in Streamed /\ r.status # "verdict"}

\* executor.run returns (or raises: an error result).  It may have consumed
\* the stop flag (ExecutorV2.clear_cancel) or left it behind.
ExecutorReturns(w) ==
  /\ pc[w] = "exec"
  /\ \E r \in ExecutorResults(task[w]) :
       /\ result' = [result EXCEPT ![w] = r]
       /\ Goto(w, IF should_retry(w, r) THEN "losing" ELSE "settle")
  /\ stopping' \in {stopping, stopping \ {task[w]}}
  /\ UNCHANGED <<now, queueVars, mainVars, registryVars, cancelled,
                 task, attempt, cut, bridgeVars>>

\* reporter.send_attempt for a losing attempt.
SendAttempt(w) ==
  /\ pc[w] = "losing"
  /\ Goto(w, "backoff")
  /\ UNCHANGED <<now, queueVars, mainVars, registryVars, flagVars,
                 task, attempt, result, cut, bridgeVars>>

\* Wrong loops: is_cancelled is not asked again; the attempt is not counted.
EndBackoffBlindly(w) ==
  /\ pc[w] = "backoff"
  /\ attempt' = [attempt EXCEPT ![w] = @ + 1]
  /\ Goto(w, "exec")
  /\ UNCHANGED <<now, queueVars, mainVars, registryVars, flagVars,
                 task, result, cut, bridgeVars>>

EndBackoffUncounted(w) ==
  /\ pc[w] = "backoff"
  /\ Goto(w, IF task[w] \in cancelled THEN "settle" ELSE "exec")
  /\ UNCHANGED <<now, queueVars, mainVars, registryVars, flagVars,
                 task, attempt, result, cut, bridgeVars>>

\* The backoff sleep ends; a cancellation that landed meanwhile ends the run.
EndBackoff(w) ==
  /\ pc[w] = "backoff"
  /\ \/ /\ task[w] \in cancelled
        /\ Goto(w, "settle")
        /\ UNCHANGED attempt
     \/ /\ task[w] \notin cancelled
        /\ attempt' = [attempt EXCEPT ![w] = @ + 1]
        /\ Goto(w, "exec")
  /\ UNCHANGED <<now, queueVars, mainVars, registryVars, flagVars,
                 task, result, cut, bridgeVars>>

\* After the loop: is the outcome a cancellation?
Settle(w) ==
  /\ pc[w] = "settle"
  /\ cut' = [cut EXCEPT ![w] =
               task[w] \in cancelled \/ result[w].status = "cancelled"]
  /\ Goto(w, "report")
  /\ UNCHANGED <<now, queueVars, mainVars, registryVars, flagVars,
                 task, attempt, result, bridgeVars>>

\* Wrong Outcome.status: whatever was not cancelled counts as done.
OutcomeUncut(w) == ~cut[w]

\* Outcome.status = "ok"
OutcomeOk(w) == ~cut[w] /\ result[w].status = "ok"

\* Wrong _report: a cancelled run is taken to have closed its own stream.
ReportUnlessCut(w) ==
  /\ pc[w] = "report"
  /\ IF cut[w] THEN UNCHANGED bridgeVars
     ELSE Publish({task[w]}, IF result[w].status = "ok" THEN "ok" ELSE "not ok")
  /\ Goto(w, "complete")
  /\ UNCHANGED <<now, queueVars, mainVars, registryVars, flagVars,
                 task, attempt, result, cut>>

\* _report: skipped when the executor says it closed the stream itself; the
\* executor main.py builds has no chunk_sink, so that stream went nowhere.
Report(w) ==
  /\ pc[w] = "report"
  /\ \/ /\ ~result[w].final_chunk
        /\ Publish({task[w]}, IF result[w].status = "ok" THEN "ok" ELSE "not ok")
     \/ /\ result[w].final_chunk
        /\ Drop({task[w]})
  /\ Goto(w, "complete")
  /\ UNCHANGED <<now, queueVars, mainVars, registryVars, flagVars,
                 task, attempt, result, cut>>

MarkCompleted(w) ==
  /\ pc[w] = "complete"
  /\ mark_completed(task[w], OutcomeOk(w))
  /\ Goto(w, "forget")
  /\ UNCHANGED <<now, mainVars, registryVars, flagVars,
                 task, attempt, result, cut, bridgeVars>>

ForgetCancel(w) ==
  /\ pc[w] = "forget"
  /\ cancelled' = cancelled \ {task[w]}
  /\ Goto(w, "notify")
  /\ UNCHANGED <<now, queueVars, mainVars, registryVars, stopping,
                 task, attempt, result, cut, bridgeVars>>

\* on_finished(outcome), main.py's mark_done / mark_failed.
NotifyFinished(w) ==
  /\ pc[w] = "notify"
  /\ Goto(w, "exit")
  /\ UNCHANGED <<now, queueVars, mainVars, registryVars, flagVars,
                 task, attempt, result, cut, bridgeVars>>

\* Wrong work(): no finally block, the thread dies with its slot.
WorkerDies(w) ==
  /\ ReporterFails
  /\ pc[w] \in {"losing", "report"}
  /\ Goto(w, "none")
  /\ Drop({task[w]})
  /\ task' = [task EXCEPT ![w] = NoTask]
  /\ UNCHANGED <<now, queueVars, mainVars, registryVars, flagVars,
                 attempt, result, cut>>

\* A reporter call raises: work() logs it and goes to its finally block, so
\* the id stays in _known_ids and in _cancelled.
WorkerCrashes(w) ==
  /\ ReporterFails
  /\ pc[w] \in {"losing", "settle", "report"}
  /\ pc[w] = "settle" => attempt[w] > 1
  /\ pc[w] = "report" => ~result[w].final_chunk
  /\ Goto(w, "exit")
  /\ Drop({task[w]})
  /\ UNCHANGED <<now, queueVars, mainVars, registryVars, flagVars,
                 task, attempt, result, cut>>

\* work()'s finally: drop the registration, then release the slot.
Deregister(w) ==
  /\ pc[w] = "exit"
  /\ workers' = workers \ {task[w]}
  /\ inFlight' = inFlight - 1
  /\ Goto(w, "release")
  /\ UNCHANGED <<now, queueVars, mainVars, flagVars,
                 task, attempt, result, cut, bridgeVars>>

ReleaseSlot(w) ==
  /\ pc[w] = "release"
  /\ slots' = slots + 1
  /\ Goto(w, "none")
  /\ task' = [task EXCEPT ![w] = NoTask]
  /\ attempt' = [attempt EXCEPT ![w] = 0]
  /\ result' = [result EXCEPT ![w] = NoResult]
  /\ cut' = [cut EXCEPT ![w] = FALSE]
  /\ UNCHANGED <<now, queueVars, mainPc, picked, registryVars, flagVars,
                 bridgeVars>>

-----------------------------------------------------------------------------
Pump == ReportExpired \/ AcquireSlot \/ NextTaskDrain \/ NextTaskPick \/ Spawn

WorkerStep(w) ==
  \/ ExecutorReturns(w) \/ SendAttempt(w) \/ EndBackoff(w) \/ Settle(w)
  \/ Report(w) \/ MarkCompleted(w) \/ ForgetCancel(w) \/ NotifyFinished(w)
  \/ WorkerCrashes(w) \/ Deregister(w) \/ ReleaseSlot(w)

ClockTick == Tick /\ UNCHANGED <<mainVars, registryVars, flagVars, workerVars,
                                 bridgeVars>>

Next ==
  \/ \E t \in Task : submit(t)
  \/ \E t \in CancelTargets : handle_cancel(t)
  \/ Pump
  \/ \E w \in Worker : WorkerStep(w)
  \/ ClockTick

Spec == Init /\ [][Next]_runnerVars

\* The main loop calls pump on every cycle and every thread is scheduled;
\* executor.run returns because every kind has a timeout.
Fairness == WF_runnerVars(Pump) /\ \A w \in Worker : WF_runnerVars(WorkerStep(w))

FairSpec == Spec /\ Fairness

-----------------------------------------------------------------------------
(* Safety *)

\* The semaphore is the only bound on the pool (_slots, runner.py): a slot is
\* free, carried by pump, or held by exactly one live worker, and _in_flight
\* counts the workers that have not yet deregistered.
SlotsAccounted ==
  /\ slots + Cardinality({w \in Worker : Live(w)})
       + (IF mainPc \in {"drain", "pick", "spawn"} THEN 1 ELSE 0) = MaxConcurrent
  /\ inFlight = Cardinality({w \in Worker : pc[w] \in Registered})

\* One id, one run: while a run has not passed mark_completed its id is in
\* _known_ids and neither queued nor picked nor run by another worker, so the
\* executor never works on the same id twice at once.
ExclusiveRun ==
  /\ \A w \in Worker : pc[w] \in Protected =>
       task[w] \in known \ entries /\ task[w] # picked
  /\ \A v, w \in Worker :
       pc[v] \in Protected /\ pc[w] \in Protected /\ task[v] = task[w] => v = w
  /\ entries \subseteq known
  /\ picked # NoTask => picked \in known \ entries

\* Ids the runner holds and has not answered.
InProgress ==
  entries \cup ({picked} \ {NoTask})
    \cup {task[w] : w \in {v \in Worker : pc[v] \in Unreported}}

\* Every accepted task is answered exactly once: a producer waits only for an
\* id the runner still holds or has given up (lost), and an id the runner holds
\* has not been answered yet.
AnsweredOnce ==
  /\ waiting \subseteq InProgress \cup lost
  /\ InProgress \subseteq waiting

\* depends_on: whatever is picked or runs has all its dependencies recorded as
\* successful, however late they were queued.
DependenciesRan ==
  \A t \in Running : Deps[t] \subseteq completed

-----------------------------------------------------------------------------
(* Action properties *)

\* A dependant is unblocked (mark_completed) only once an ok result of that id
\* is on the bridge, unless the executor claimed to have streamed it.
OkResultBeforeDone ==
  [][\A t \in completed' \ completed :
       published[t] = "ok" \/ t \in Streamed]_runnerVars

\* A retry starts only after a retryable failure, within max_attempts, and not
\* once the task is cancelled, even if the cancel landed during the backoff.
RetryDiscipline ==
  [][\A w \in Worker : attempt'[w] > attempt[w] /\ attempt[w] > 0 =>
       /\ result[w].status = "error"
       /\ task[w] \notin cancelled
       /\ attempt'[w] <= MaxAttempts[task[w]]]_runnerVars

-----------------------------------------------------------------------------
(* Refinement *)

Pool == INSTANCE TaskPool WITH
  Capacity <- MaxConcurrent, queued <- entries, running <- Running,
  succeeded <- completed

\* The threads, retries, cancellations and crashes above keep the promise of
\* TaskPool: its running tasks are those picked or not yet past mark_completed.
ImplementsPool == Pool!Spec

-----------------------------------------------------------------------------
(* Liveness *)

\* A high task whose dependencies have succeeded is not starved: whatever else
\* is submitted, it leaves the queue (it runs, or it is cancelled), unless a
\* reporter that raised in the main thread has ended the agent.
HighNeverStarves ==
  \A t \in Task :
    (t \in entries /\ Rank[t] = HighRank /\ Deps[t] \subseteq completed
       /\ now >= NotBefore[t]) ~> (t \notin entries \/ mainPc = "dead")

\* Every run ends and gives its slot back, crashed or not.
SlotsComeBack == \A w \in Worker : Live(w) ~> ~Live(w)
=============================================================================
