# A specification of iddo-harness

iddo-harness is an agent that polls a git repository (the *bridge*) for task
packets, runs them on this machine under a policy, and pushes results back. This
directory holds TLA+ modules of its core, the TLC configurations that check them
and the proofs TLAPS checks. Everything is translated from the code under
`src/agent`; `PROJECT.json` maps each definition to the lines it stands for.

## The system

| component | state it keeps | operations | talks to |
|---|---|---|---|
| `taskqueue.py` | entries with rank and arrival number, `_known_ids`, `_completed` | add, remove, drain_expired, next_task, mark_completed | called by the runner from several threads, under its own lock |
| `runner.py` | semaphore of slots, `_workers`, `_in_flight`, `_cancelled` | submit, cancel, pump, run_task | queue, executor, reporter, `on_finished` |
| `main.py` | none of its own | loop: scan confirmations, fetch, submit, pump | everything |
| `poller.py` | the file names under `tasks/` | fetch_pending_tasks, scan_pending, mark_done, mark_failed | bridge working copy |
| `executor.py`, `executor_v2.py`, `executor_v3.py` | stop flags, handles, sessions, watches | run, stop, resume_after_confirm | policy, confirmation queue, chunk sink |
| `reporter.py`, `reporter_v2.py` | files under `results/` | send, send_attempt, send_error, send_chunk | bridge working copy, under `GIT_PUSH_LOCK` |
| `confirm.py`, `approval.py` | pending, approved and denied files, here and on the bridge | create, respond, check_response, sweep_timeouts | workers, main thread, CLI, humans elsewhere |
| `workflow.py` | pending nodes, futures, outcomes | run, cancel | executor, one thread pool per plan |
| `subtasks.py` | records, events and futures by id | spawn, spawn_many, await_tasks | executor, one bounded pool |
| `scheduler.py` | schedules, one JSON file | add, remove, set_enabled, due, run_due, mark_fired, save, load | v3 kinds, a ticker thread |
| `audit.py`, `secrets_vault.py` | a chain of hashes in a file that rotates; an encrypted store | record, verify_chain; set, get, delete, resolve | every component, and the CLI's own process |
| `memory.py` | one SQLite table of entries that may expire | set, get, list, delete | the memory kinds, from several threads |
| `ws_bridge.py` | the chunk sink it lends to the shared executor | execute | executor, a remote client |
| `llm_task.py`, `llm_loop.py`, `llm_router.py` | the transcript; the health of each backend | run, route, check_all_once | executor, policy, backends |
| `policy.py`, `policy_lint.py` | a policy file | decide, lint | every executor |
| `amp.py` | none | parse_envelope, serialize, build_envelope | poller, reporter |

The remaining files (metrics, health, sandbox, signing, configuration, handshake,
templates, CLI, installers) hold no protocol between concurrent parties;
`PROJECT.json` lists each with the reason it is left out.

What makes the behaviour hard:

- **Threads that overlap at their edges.** A run ends in five steps (publish,
  `mark_completed`, forget the cancel, rename the packet, deregister) and the main
  thread may queue the same id again between any two of them.
- **Packets are never claimed.** `fetch_pending_tasks` lists everything that is not
  `done-`, on every cycle; only `_known_ids` keeps an id from being queued twice,
  and it forgets an id as soon as its result is out.
- **Crashes.** Files survive a restart, `_completed`, `_cancelled` and the queue do not;
  a kill may come in the middle of a line of the audit log or of the schedules' file.
- **Files as messages between parties without a lock**: workers park requests,
  the CLI and humans elsewhere answer, a sweep denies, a scan collects.
- **One working copy, four writers.** Reporters and the poller take `GIT_PUSH_LOCK`,
  the pull and the confirmation queue do not; a git call that fails is passed over.
- **Check, then act.** Sessions, their cap, the cancel flag, the size of a file, a
  row's expiry are looked at in one step and relied on in a later one.
- **Threads that wait for threads of the same pool** (`await_tasks`).
- **Batches.** The workflow loop wakes up with any set of finished nodes.

What would make each correct is listed below with the runs; `PROJECT.json`
"hazards" gives each risk at its line.

## Modules

| module | models | state and actions against the code |
|---|---|---|
| `TaskQueue` | `taskqueue.py` | one step per locked method. `older` stands for the order of `seq`. Rank, not_before, deadline and depends_on are constants per task: what `parse_schedule` read. |
| `TaskRunner` (extends `TaskQueue`) | `runner.py` | the main thread's place in `pump` (`mainPc`; `dead` once an exception has left `submit` or `pump`), a program counter per worker in `run_task` and `work()`. Every lock, call out and sleep separates two steps. |
| `TaskPool` | the promise | queued, running, succeeded; at most Capacity run, each once, after its dependencies. `TaskRunner` implements it (`ImplementsPool`) with *running* = picked or not yet past `mark_completed`. |
| `Bridge` (extends `TaskRunner`) | `main.py` loop, `poller.py` | names of packet files, the batch being submitted, and for each copy of a Task in memory whether its `source_path` still exists. `Restart` resets everything that is not a file. |
| `Confirm` | `confirm.py`, `approval.py`, `scan_pending`, the resume loop | three sets of response files (local queue, working copy, remote), the files parked with the age of their `created_ts`, those among them that cannot be read, and the scan file by file. |
| `Workflow` | `workflow.py` | a plan chosen among those `parse_workflow` accepts, the loop of `run` with one step for each pass, each node's thread, and cancel. |
| `GitTransport` | every `git` call of `reporter.py`, `poller.py`, `confirm.py`; `locks.py` | working copy, index, branch, the remote as last fetched, and the remote as sets of files; parking, report (or none, for a stream), renaming to `done-` or `failed-`, each with its write, lock, add, commit and push. A call on the index fails when it meets another's `index.lock`; a push or a pull may fail at any time. |
| `ExecutorV2` | streams, sessions, `stop`, resume and shutdown of `executor_v2.py`; `build_execute` of `ws_bridge.py` | `_running`, `_cancelled`, `sessions`, the processes that live, the chunk sink. A step ends where another thread can see what it touched. |
| `FileKinds` | `patch_file`, `write_file`, `read_file_chunked`, watches | files of tokens with an mtime; reading, backing up, truncating, writing, each page, each snapshot and each recorded event are steps. |
| `ExecutorKinds` (extends both) | the v2 executor's kinds that keep state | the two share worker threads and nothing else; a behaviour has tasks of one sort. |
| `Delegation` | `subtasks.py`, `_spawn_task`, `_await_tasks` | records, threads of the pool, the events an await caught at its start and the one the end of a run sets, the depth a child gets. |
| `LlmLoop` (extends `Policy`) | `llm_task.py`, `llm_loop.py`, `llm_router.py`, `llm_client.py` | one run of either loop: route, ask with retries, a turn of tool calls one by one, halts. |
| `ExecutorV3` (extends `Delegation`, `LlmLoop`) | `executor_v3.py` | an `llm_task` begins and ends in the thread it was given. |
| `Policy` | `policy.py`, the executors' gates, `policy_lint.py` | operators: `Decide`, `Gate`, what lint finds and its exit code. `decide` goes by the pattern, lint by what it folds it to (`Fold`). |
| `Scheduler` | `scheduler.py` | the registry, a snapshot per thread, the temporary and the final file, the ticker's list of what is due, crash and load. |
| `AuditedVault` | `audit.py`, `secrets_vault.py` | the lines of the log and of each day's archive, the agent's lock, the command line beside it, the store; kills, and records and rotations that fail. |
| `MemoryStore` | `memory.py` | rows with expiry, and each operation's statements as steps. |
| `Envelope` | `amp.py`, the task of a packet, the answer of the reporter | operators over JSON values. |

Each `MC` module gives the constants of its module values for TLC. Operators whose
comment begins with *Wrong* are variants of the definition after them, as a plausible
bug would leave it; nothing uses them but the check that each property notices.

Some variables record history only: `waiting` and `lost` (what producers are owed),
in `Confirm` `asked`, `said` and `ran`, in `ExecutorV2` `heard`, `finals`, `crossed` and `listed`, in
`FileKinds` `gone`, `met`, `recorded`, `handed`, `told` and `picture`, in `Scheduler`
`fired`, in `AuditedVault` `returned`, `failed`, `met` and `clashed`, in `Delegation` `chain`.

Abstractions to know about:

- A result is `ok`, `error` (retryable), `verdict` (a decision that is not
  retried) or `cancelled`, plus the `final_chunk` flag. Output and messages are gone.
- The executor answers anything its kind may answer; `cancelled` only after
  `stop` was called. It may consume the stop flag or leave it behind.
- `handle_cancel` is one step. Between its lock regions only workers can act;
  none of them queues or dequeues, and none acts for an id that is in the queue,
  so their steps commute with the handler's.
- Of a cancel packet's own result only the exception it may raise is kept; `wait_idle`
  and `--once` are left out.
- Contents are tokens: a file in `GitTransport` is there or not, in `FileKinds` a
  sequence of tokens, an audit hash is the number of its record, a policy pattern is
  the set it matches and the pattern lint folds it to, a cron expression the minutes it names.
- In `Delegation` an id is not a root's and a child's at the same time, and
  `ExecutorV3` runs one model at a time.
- In `Bridge` and `Confirm` git is transparent: a file written is a file
  published. A pull brings answers of other machines at any time.
- In `Confirm` the packet of a `Polled` task stays under a `failed-` name and is
  fetched again, so it is parked again at any time; other requests are asked once.

## Runs

| run | instance | shows |
|---|---|---|
| `runner_core` | 2 tasks, 2 workers, clock 0..1, a high and flaky, b low, depends on a, may expire; cancels of a | `TypeOK`, `ExclusiveRun` (no id runs twice at once or is queued while it runs), `DependenciesRan`, `AnsweredOnce`, `OkResultBeforeDone`, `ImplementsPool` |
| `runner_live` | 1 worker, clock 0..2, a high from instant 1, b low, streamed, waiting for a and expiring last; a may be stopped by a verdict; the reporter may raise in any call, also of the main thread | `SlotsAccounted`, `RetryDiscipline`, `HighNeverStarves`, `SlotsComeBack` |
| `bridge_core` | 2 packets, 1 worker, clock 0..1, 1 restart; a succeeds unless it is cancelled or expires, b fails for ever | `AnsweredBeforeRenamed`, `DoneIsFinal`, `PacketAnswered` |
| `confirm_core` | 1 polled and 1 one-off request, answers on both sides, 1 mishap (an aborted scan, a torn file, a removal that fails) | `RunsOnlyWithConsent`, `ApprovalHonoured`, `UnansweredIsDenied` |
| `workflow_core` | 450 plans of 4 nodes (every graph of 3, a 4th on its own), any verdicts, cancel at any time | `RunsAfterDependencies`, `EveryNodeAccounted`, `ParallelismBounded`, `FailFastStops`, `Terminates` |
| `executor_core` | 2 local threads, 2 remote, main; 7 batches of 3 remote streams, a local one, 3 opens, a close, a write, cap of 1 session; or 2 workers, 2 files, 5 jobs, a watch with a buffer of 1 | `StopHonoured`, `NothingUnreachable`, `SessionsBounded`, `FinalFrame`, `EventsAccounted`, `PagesComplete`, `OverwrittenIsKept` |
| `transport_core` | 2 workers, 2 packets (one may be parked or streamed), pull, command line, producers; pushes and pulls may fail | `DoneImpliesResult`, `PacketKept` |
| `delegate_core` | 2 spawning roots, 2 awaits in a circle, a leaf, a pool of 2, one id spawned twice; or one model with 3 turns, 4 policies | `PoolHasRoom`, `ChildrenEnd`, `TranscriptComplete` |
| `schedule_core` | 2 ids, 4 sorts of schedule, 2 calls of a worker, a ticker, 3 minutes, 1 crash | `CadenceKept` |
| `vault_core` | 2 threads, the command line beside them, 1 secret, 3 records, 2 days, 1 kill, 1 failed record | `ChainSound`, `RecordsKept` |

Deadlock is checked except where the program may really stop: `run` of a workflow
returns, a batch of tasks is done, the bounded clock and the bounded calls end, the
main thread died of an exception (`workflow_core`, `executor_core`, `delegate_*`,
`schedule_core`, `vault_core`, `memory_race`, `runner_live`).

Two runs show where the code and a sentence of the repository part ways; each
checks the one property that sentence states, and PROJECT.json "findings" quotes it.

| run | the code does |
|---|---|
| `delegate_depth` | a node of a workflow or template is built without a depth, so the chain of spawns above a task exceeds `max_depth` |
| `memory_race` | a read that found an expired row deletes the value another task stored before its delete |

### Seen while modelling, and not given a run

The modules show these too; the definition that models each is named.

*Runner and bridge.* A deadline that passes between `pump`'s sweep and `next_task`'s
is dropped without a result, where `runner.py:320` says "reported rather than silently
dropped" (`NextTaskDrain`). `_workers` is keyed by id, so the end of an old run
unregisters a new one and `wait_idle` returns while it executes (`Deregister`). A
packet cancelled while queued keeps its name, is fetched again and runs (`remove`,
`Fetch`). main builds the queue without a `ResultIndex`, so a dependency that succeeded
before a restart never counts, against `taskqueue.py:190` (`Restart`). A `failed-`
packet is listed and runs again on each cycle, and so does a copy fetched just before
its packet became `done-` (`poller.py:154`, where `cli.py:256` counts neither as
pending). A task queued again behind its own unfinished worker and then cancelled gets
no result (`runner.py:154`). A result marked `final_chunk` is reported by nobody, since
`main.py:97` sets no chunk sink (`runner.py:311`), and its packet is renamed all the
same: `OkResultBeforeDone`, `AnsweredBeforeRenamed` and `DoneImpliesResult` leave
streams out. A reporter that raises in the main thread, for a cancel (`runner.py:226`)
or an expired entry (`runner.py:350`), ends the agent: entries already drained get no
result (`ReportExpired`, `ReturnOrDie`), and what `HighNeverStarves` promises ends there.

*Confirmations.* The pending file is removed before the task is resumed, so an approval
collected by a scan that then fails is lost for a one-off request, against
`approval.py:14-15` (`CollectOne`, `Abort`). Each refetch of a parked packet rewrites
`created_ts`, so a request the main loop fetches again never times out, against
`docs/troubleshooting.md:198` (`create`): `UnansweredIsDenied` speaks of requests asked
once. A pending file that cannot be read is passed over by each sweep and each scan and
never closed (`SweepOne`, `CollectOne`). Response files stay, so an approval answers a
later request of its id too; `RunsOnlyWithConsent` goes by the id.
An approval written after the timeout's denial revives the task (`confirm.py:193`
against `approval.py:289-291`); `ApprovalHonoured` asks nothing for such an answer,
neither way. `resume_after_confirm` does not look at the cancel
flag first, and the task it gets has no envelope (`poller.py`'s `scan_pending` builds
it without one), so the answer to an AMP packet is not AMP.

*Workflow.* With `fail_fast` off, a node without dependencies may be skipped when skips
fill the pass it waited for (`Chosen`; `tests/test_workflow.py:390` expects otherwise).
Dependents of a failed `continue_on_error` node are skipped (`workflow.py:423` against
`docs/v3_track_c.md:154`, "dependents run anyway"); `RunsAfterDependencies` allows what
the document says, so it would hold of a `run` that followed it, and does not state
that they run. A node's `timeout_sec` is parsed and not read.

*Git.* `locks.py` says its lock serialises every git mutation; the pull and
`confirm.py` do not take it (`Locking`). A pull that git refuses, for diverged branches
or for what lies in the working copy, is passed over; then one rejected push stops all
later ones until someone intervenes, as `docs/troubleshooting.md:100-104` tells. Whether
that happens depends on git's version and settings, so no run claims that a result
arrives: `DoneImpliesResult` and `PacketKept` say what is true of the remote however
far it lags behind.

*Executor.* Two reapers raise `KeyError` on each other's session (`ReapForget`,
`ReapDrop`). The cap on sessions can be exceeded by the opens under way together
(`SessionsBounded` states by how many). `shutdown` closes the sessions it finds in the
table; one whose open is under way is inserted after that and outlives it, where
`executor_v2.py:966` says every session and watch is closed (`Shutdown`, `Insert`):
`NothingUnreachable` asks it of those in `listed`. `v2`, `v3` and the scheduler are built lazily
without a lock, so two first calls may build two. Two remote tasks that overlap restore
each other's sink and may leave a stale one behind (`TakeSink`, `Restore`); the chunks
of a task then go to another task's client under that task's id, and so do those of a
local stream beside a remote call (`EmitFinal`), against `executor_v2.py:458` ("exactly
one final chunk per task either way"): `FinalFrame` is stated for the calls that nothing
`crossed`, and fails for the others.
`build_execute` also calls `send_chunk`, which the v1 Reporter that main passes does not have.
`patch_file` writes in place: a reader may find the file empty, and two backups of one
second overwrite each other (`Truncate`, `Backup`). Changes between the answer of
`watch_start` and the first snapshot are no events (`FirstSnapshot`).

*Delegation.* `await_tasks` with `require_all = false` waits for the first id of its
list before it looks at the others, though its docstring says it returns as soon as one
finishes (`Turn`). `spawn_many` raises at a refusal and the ids already started are lost,
against its docstring (`Spawn`). An id spawned again between the record of its last run
and that run's `set()` (`subtasks.py:249`, `258`) has its event set while it is queued,
and who waits for the last run waits until the timeout (`Ring`). `llm_task` runs the rest of a turn's tools after one
that halts (`Tool`).

*The others.* Nothing in the agent calls `Scheduler.start` or `run_due`
(`executor_v3.py:153-158` only builds it), so what `schedule_task` registers never
fires, against `docs/v3_track_c.md:199` and `scheduler.py:9-11`. The ticker of `Scheduler`
stands for an embedder's, and no run claims that a schedule fires. A crash between a dispatch and the save of
`mark_fired` fires a one-shot again; concurrent saves may overwrite a newer file by an
older one or tear the temporary one (`Snapshot` to `Replace`). The command line and the
agent each chain onto the last hash they read, so the audit log forks (`audit.py:308`
speaks of one process), and when both rotate, the one that comes late may overwrite
the archive or unlink a file of the new day (`Copy`, `Unlink`); `met` and `clashed` note
the two cases. Concurrent commands on the store lose an update. `record` swallows its
failures (`audit.py:192-194`) and the vault goes on (`secrets_vault.py:355-365`), so a
secret may be used without a record of it (`Fail`). A line written after a torn one
becomes part of it, and no reader returns it (`WithLine`); `verify_chain` stops at the
torn line. `memory.set` reads the clock before it takes the lock,
so `created_at` may exceed `updated_at`. Lint folds
case and separators of a pattern (`policy_lint.py:88-90`), `decide` does so for allowed
paths only: a rule lint calls dead may decide, a protected path lint finds in no_touch in
another spelling is not refused, and an auto rule whose path is also blocked, which
"never applies", does apply to the root itself. The theorems about `Policy` state what is
left. A packet of
direction outbound in `tasks/` becomes a task of kind `shell`; `"v": true` is taken for 1;
a packet that does not parse is logged on every cycle and never renamed.

### Bounds

- *Two tasks.* The hazards of the runner concern one id overlapping with itself,
  or one task and another it waits for or competes with. *Two workers* are needed
  for an id's old and new run to overlap, and one more would wait for a third task;
  workers are interchangeable (symmetry in `runner_core`, where no liveness is checked).
- `MaxTime` is the last instant of the clock; one tick is enough to be before and
  after a deadline or a not_before.
- `MaxRestarts` 1: memory is lost entirely, so a second crash starts from a state a
  first one could start from. `MaxMishaps` 1 likewise for scans and files, `MaxCrashes` 1
  for the scheduler and the audit log, `MaxFailures` 1 for its records: a torn line may
  come of either, so one can meet another.
- `Says` bounds what humans answer: both verdicts for a, an approval for b.
- `Timeout` counts ticks of age and saturates. One tick separates fresh from stale.
- Three nodes a, b, c with every acyclic graph between them include chain, fork,
  join and independence; the fourth, on its own, can hold a slot of the pool while
  several of the others become ready at once. Caps go from 1 to 3.
- The retry counter is bounded by `max_attempts` itself.
- `executor_core`: three opens and a cap of one let two threads reap, open and overshoot
  at once; `Batches` lists the mixes, each of them with any order and any moment of stop
  and shutdown. Three remote streams on two threads let two calls overlap and a third
  start from the stale sink they leave. A page holds two tokens of a file of three; a
  buffer of one overflows with the second event; `MaxEdits` 1 and `MaxPolls` 2 bound other programs and snapshots, two
  seconds tell backups apart or not.
- `transport_core`: a packet is pushed once; two packets and two workers let a commit
  carry another's files. Workers are interchangeable (symmetry; no liveness is checked).
  Any call may fail, any number of times.
- `delegate_core`: a pool of two with three candidates fills up with two blocked awaits.
  `MaxRuns` 2 lets an id be spawned again while an await still holds its old event, and
  before the old run has set it.
- `schedule_core`: three minutes hold a fire, a missed slot and the next; two calls of the
  worker suffice to add and then replace, pause or remove during a dispatch.
- `vault_core`: three records over one midnight give a chain, a rotation and a chain after
  it, and both processes at every step of it; threads are interchangeable (symmetry).
- `memory_race`: two tasks, one key, three ticks.

### Fairness

- `TaskRunner`: weak fairness of the pump, which the main loop calls on every
  cycle, and of every worker thread. A worker inside `executor.run` gets there
  because each kind has a timeout. Submissions, cancels and the clock are not fair,
  and the main thread may die.
- `Bridge`: the same for the main loop and the workers. Pushes, restarts and the
  clock are not fair.
- `Confirm`: the scan (main loop) and time; the refetch of a polled packet. Humans
  are not fair, nobody has to answer.
- `Workflow`: the caller's thread, and each node's thread, with the same reason as
  for the runner. Cancel is not fair.
- `Delegation`, `ExecutorV3`: a thread goes on until its task has answered, an await
  until its timeout; a model answers or its client gives up after its retries.
- `GitTransport`, `Scheduler`, `ExecutorV2`, `FileKinds`, `AuditedVault`, `MemoryStore`:
  safety only, no fairness.

## Proofs

TLAPS proves, for every value of the constants that satisfies the named
assumptions (which TLC evaluates on the instances above):

| theorem | module | argument |
|---|---|---|
| `TypeCorrect` | `BridgeProofs` | `TypeOK` is inductive with `Shape`: a live worker has a task, an idle one none, pump carries a task exactly when it is about to spawn one, and a worker that reports a losing attempt or backs off had a retryable error and attempts left |
| `OneRunPerTask`: `[]ExclusiveRun` | `BridgeProofs` | `ExclusiveRun` is inductive on top of `TypeOK /\ Shape`; the step that matters is `Spawn`, where the picked id is known, not queued, and so run by nobody |
| `EveryTaskAnswered`: `[]AnsweredOnce` | `BridgeProofs` | needs `ExclusiveRun`: a result published for a run must not answer the same id queued again; what `ReportExpired` drained and could not report is in `lost` |
| `RetriesDisciplined`: `RetryDiscipline` | `BridgeProofs` | `Shape` says what the last answer was while a worker backs off; `Unstarted`, that an idle thread has attempt 0, so that the first attempt is not taken for a retry |
| `ResultsPrecedeDone`: `OkResultBeforeDone` | `BridgeProofs` | needs `ResultStands`: between the report and `mark_completed` the published result is not overwritten, because by `ExclusiveRun` nobody else answers that id |
| `PoolAccounted`: `[]SlotsAccounted` | `BridgeProofs` | cardinalities of the sets of live and registered workers change by one per step, by lemma `CountWorkers` |
| `DependenciesMet`: `[]DependenciesRan` | `BridgeProofs` | only `NextTaskPick` adds to the running tasks, and `_completed` never shrinks (`RunningStep`, `PickStep`) |
| `RunnerImplementsPool`: `ImplementsPool` | `BridgeProofs` | step by step: each step maps to one of `TaskPool` or to a stutter; `RoomToStart` derives the bound on running tasks from `SlotsAccounted` |
| `AnswersComeFirst`: `[]AnsweredBeforeRenamed` | `BridgeProofs` | a step of the bridge is a step of the runner, a stutter to it, or a restart (`RunnerOrRestart`), so the runner's lemmas are used again; `BridgeInv` adds that the result is out between the report and the rename (`Reported`), that only a stream may do without (`StreamsNamed`), and `FreshListed` |
| `DoneStays`: `DoneIsFinal` | `BridgeProofs` | `FreshListed`: a copy whose path exists holds a name `fetch_pending_tasks` lists, and `done-` is none, so a rename never starts from one |
| `ConsentedRuns`: `[]RunsOnlyWithConsent` | `ConfirmProofs` | strengthened by: every approval file, in any of the three places, and every collected approval is of a task some human approved |
| `NodesAccounted`: `[]EveryNodeAccounted` | `WorkflowProofs` | pending, in flight and resolved partition the nodes |
| `DependenciesFirst`: `[]RunsAfterDependencies` | `WorkflowProofs` | uses `NodesAccounted`: an outcome never changes, so a dependency that succeeded stays so; a failure of one with `continue_on_error` would do, and the code does not use it |
| `FailFastHolds`: `FailFastStops` | `WorkflowProofs` | `FailureStops`: a failure that counts and `stop_launching` are written in the same step, and nothing resets the flag |
| `ParallelismKept`: `[]ParallelismBounded` | `WorkflowProofs` | `CutFits`: chosen nodes have different numbers of ready nodes ahead of them, so they inject into the free slots |
| `DoneHasResult`: `[]DoneImpliesResult` | `GitTransportProofs` | results are never removed from anywhere, so what holds a `done-` packet that nobody streams can lack its result only in the working copy, where the worker writes it before the rename, or raises and renames nothing; `IInv` says so of tree, index, branch and remote, and that each holds the results of the next (`CheckoutKeeps`, `MergeKeeps`) |
| `PacketSurvives`: `PacketKept` | `GitTransportProofs` | a packet comes into the working copy by a pull only, so what tree, index and branch have of packets came with the base (`Rooted`); on those the remote has nothing new (`Fresh`), so neither a merge nor a push can lose one (`CheckoutSingle`) |
| `RoomForQueued`: `[]PoolHasRoom` | `ExecutorV3Proofs` | at most `MaxActive` children are in flight, since `spawn` counts them under the lock; a queued one is in flight and does not run (`BoundLeavesRoom`) |
| `TranscriptIsComplete`: `[]TranscriptComplete` | `ExecutorV3Proofs` | while the tools of a turn run, exactly those before the next one are answered (`LoopInv`) |
| `StopIsHonoured`: `[]StopHonoured` | `ExecutorKindsProofs` | `FlagSeen`: a stream that is to stop has answered so, or a thread at work on it will look at the flag again, or has found it set; `Shape` (who works on which task, at which place of which method) says that there is such a thread and one only |
| `SessionsReachable`: `[]NothingUnreachable` | `ExecutorKindsProofs` | inductive with `Shape` and `SessionsKnown`; the cases are reaping, opening, closing and shutdown, each of which kills before it forgets or holds the process meanwhile; `Shape` keeps what `shutdown` listed (`ListedStep`) |
| `SessionsStayBounded`: `[]SessionsBounded` | `ExecutorKindsProofs` | `RoomKept`: sessions and the threads about to insert one are together within the bound; who looks at the cap is an opener not yet counted |
| `OneFinalFrame`: `[]FinalFrame` | `ExecutorKindsProofs` | `SinkOwned`: the sink is that of the one remote call under way, or of calls that overlapped; `FramesCounted`: how many final frames a call has sent at each place of its method |
| `BackupsSuffice`: `[]OverwrittenIsKept` | `ExecutorKindsProofs` | `FileKept`: two writers on one file are noted in `met` (`MeetingsNoted`), and what an unmet patch is about to overwrite is the text it backed up (`BackedUp`) |
| `PagesAddUp`: `[]PagesComplete` | `ExecutorKindsProofs` | `PagesKept`: the pages are a prefix of the text the mtime belongs to (`PagesFollow`), because each change has an mtime of its own (`FileTyped`); `Adjacent` puts two pieces of a sequence together |
| `NoEventUnaccounted`: `[]EventsAccounted` | `ExecutorKindsProofs` | `WatchKept`: recording and handing out move an event along one list (`MoveOne`); replaying a diff of two snapshots leads from the files of the one to those of the other (`DiffTells`) |
| `CadenceHolds`: `CadenceKept` | `SchedulerProofs` | `CadenceInv`: an object that is not being dispatched has rested since each of its dispatches: its next time is past that one by the interval, or it is spent (`Paced`); so what `run_due` lists may be dispatched again (`BatchReady`), no object twice (`BatchOnce`), and the number of an object tells it from its successors under the same id (`Numbered`) |
| `RecordsStay`, `ChainStaysSound`: `[]RecordsKept`, `[]ChainSound` | `AuditedVaultProofs` | `VaultInv`: two that make a record at once are of two processes and in `met` (`Calls`), so one that is not in `met` appends to the line it read (`FilesSound`); only days that are over are archived (`OldDays`); and until both rotate at once, what is copied over is in the log and what is to be unlinked is in the archive, but for records in `met` (`Kept`) |
| `DeadRulesDecideNothing` | `ExecutorV3Proofs` | a dead rule's pattern is in the section checked before its own, if no two patterns of the file fold to one; for a rule on paths, if no_touch matches as a glob what it matches as a root |
| `DestructiveIsAsked` | `ExecutorV3Proofs` | what lint does not call an error has no auto rule whose folded pattern matches a destructive command; folding must not lose such a match |
| `SystemPathIsBlocked` | `ExecutorV3Proofs` | a policy lint is silent about has some spelling of every protected pattern in no-touch, which is checked first |
| `RoundTrip` | `BridgeProofs` | member by member: what is held of an optional member is written back as something held the same |
| `EveryTaskCanBeAnswered` | `BridgeProofs` | the answer's own members pass each check, and those it copies have passed it |

The assumptions: `ScheduleAssumption` and `RunnerAssumption` (finite sets of workers,
`max_attempts` at least 1, the order of ranks), `BridgeAssumption` and `ConfirmAssumption`,
`WorkflowAssumption` (finitely many nodes), `TransportAssumption`,
`SchedulerAssumption` (finitely many ids), `ExecutorAssumption` and `FileAssumption` (finitely many threads, tasks and files; a page, a buffer and a second of at
least one), `VaultAssumption` (finitely many threads and secrets, the CLI is none of the
threads), `DelegationAssumption` (finitely many tasks) and `LlmAssumption`. `Envelope` and
`Policy` have none; TLC evaluates `EnvelopesTravel`, both envelope theorems on sample
packets, with `bridge_core`.

Two of the theorems about `Policy` have hypotheses beside these: that `decide` and lint
take the patterns of the file for the same ones, as the theorem's comment spells out. They are
needed, and the comment gives the pattern that shows it.

The type invariants of the runner, `Bridge`, `Confirm`, `Workflow`, `ExecutorV2` and
`AuditedVault` are proved as part of the inductive ones. Of `GitTransport`, `FileKinds`,
`Scheduler`, `Delegation` and `LlmLoop` the proofs type only what they need (`Control`,
`FileTyped`, `WatchShape`, `TypedParts`); their own are there for the reader.

### Functions defined by recursion

`patch_file`, the diff of two snapshots and the replay of events are folds over
sequences. The library's induction theorems take an operator as their parameter,
which the installed provers cannot instantiate; `ExecutorKindsProofs` argues by a
least counterexample instead, since `WFMin` of the library takes a set and a relation:
a set of naturals has a least element (`LeastNumber`), a set of finite sets one of which
no other is a part (`SmallestSet`). So two functions that agree step by step agree
(`Agree`), and the partial results of a fold extend to the whole (`FoldsExist`).
`FlattenTyping`, `ReplayAppend`, `SetToSeqElements` and `DiffTells` are what the proofs
about files use of it: they characterise the folds of this model, no more.

### Only model-checked

Every safety and action property of the passing runs has its theorem. What is left:

- Liveness, out of the prover's reach: `HighNeverStarves`, `SlotsComeBack`,
  `PacketAnswered`, `ApprovalHonoured`, `UnansweredIsDenied`, `Terminates`, `ChildrenEnd`.
- The findings, and everything about `MemoryStore`.

## Not modelled

- Metrics, health endpoints, sandbox, signing, configuration, handshake, templates,
  installers and the CLI's argument handling: no state that two steps of two parties
  share, or cryptography and I/O.
- `reporter_v2.py`: only tests construct it.
- The v2 kinds that are one system call (processes, http, grep, glob, system
  information), the socket and event loop of `ws_bridge.py`, the providers behind
  `llm_task`.
- Of the runner, what a cancel packet's own result says, `wait_idle` and `--once`.
- Delivery over git, and the firing of schedules: see above.

## What could come next

The refinement of an abstract specification by `Bridge` or `Confirm`, and runs with `--once`. The number of runs is kept small: one per question, and the
divergences listed above without a run gave way to components that had none.
