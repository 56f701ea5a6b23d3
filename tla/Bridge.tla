------------------------------- MODULE Bridge --------------------------------
(***************************************************************************)
(* main.py's loop and agent/poller.py around the task runner: packets are  *)
(* files of the bridge repository, fetched on every cycle, submitted one   *)
(* by one, and renamed by the worker that settles them.  The process may   *)
(* be killed and restarted at any point; the files survive, the queue and  *)
(* everything else in memory do not.                                       *)
(*                                                                         *)
(* A fetched Task carries the path its packet had; mark_done and           *)
(* mark_failed do nothing once that path is gone, so each copy in memory   *)
(* is fresh (the path still exists) or stale.                              *)
(***************************************************************************)
EXTENDS TaskRunner

CONSTANT MaxRestarts   \* bound: how often the process is killed

ASSUME BridgeAssumption == MaxRestarts \in Nat

VARIABLES
  file,           \* name of each packet: "none", "pending", "failed", "done"
  cancelFiles,    \* targets of the cancel packets in tasks/
  loop,           \* what main.py's loop does next
  batch,          \* ids fetched and not yet submitted
  cancelBatch,    \* targets of the cancel packets fetched and not yet handled
  batchFresh,     \* ids of batch whose source_path still exists
  queueFresh,     \* queued (or picked) ids whose source_path still exists
  workerFresh,    \* workers whose task's source_path still exists
  restarts

fileVars == <<file, cancelFiles>>
batchVars == <<batch, cancelBatch, batchFresh>>
pathVars == <<queueFresh, workerFresh>>
bridgeLoopVars ==
  <<fileVars, loop, batchVars, pathVars, restarts>>
vars == <<runnerVars, bridgeLoopVars>>

Listed == {"pending", "failed"}   \* the names fetch_pending_tasks picks up

BridgeTypeOK ==
  /\ TypeOK
  /\ file \in [Task -> {"none", "pending", "failed", "done"}]
  /\ cancelFiles \subseteq CancelTargets
  /\ loop \in {"fetch", "submit", "pump"}
  /\ batchFresh \subseteq batch /\ batch \subseteq Task
  /\ cancelBatch \subseteq CancelTargets
  /\ queueFresh \subseteq entries \cup ({picked} \ {NoTask})
  /\ workerFresh \subseteq {w \in Worker : Live(w)}
  /\ restarts \in 0..MaxRestarts

LoopInit ==
  /\ loop = "fetch"
  /\ batch = {}
  /\ cancelBatch = {}
  /\ batchFresh = {}
  /\ queueFresh = {}
  /\ workerFresh = {}

BridgeInit ==
  /\ Init
  /\ LoopInit
  /\ file = [t \in Task |-> "none"]
  /\ cancelFiles = {}
  /\ restarts = 0

-----------------------------------------------------------------------------
(* The producer *)

PushPacket(t) ==
  /\ file[t] = "none"
  /\ file' = [file EXCEPT ![t] = "pending"]
  /\ UNCHANGED <<runnerVars, cancelFiles, loop, batchVars, pathVars, restarts>>

PushCancel(t) ==
  /\ t \notin cancelFiles
  /\ cancelFiles' = cancelFiles \cup {t}
  /\ UNCHANGED <<runnerVars, file, loop, batchVars, pathVars, restarts>>

-----------------------------------------------------------------------------
(* The main loop *)

\* Wrong fetch: packets are renamed when they are picked up.
FetchAndClaim ==
  /\ loop = "fetch"
  /\ loop' = "submit"
  /\ batch' = {t \in Task : file[t] \in Listed}
  /\ batchFresh' = batch'
  /\ cancelBatch' = cancelFiles
  /\ file' = [t \in Task |-> IF t \in batch' THEN "done" ELSE file[t]]
  /\ UNCHANGED <<runnerVars, cancelFiles, pathVars, restarts>>

\* fetch_pending_tasks: only names starting with "done-" are left out.
Fetch ==
  /\ loop = "fetch"
  /\ loop' = "submit"
  /\ batch' = {t \in Task : file[t] \in Listed}
  /\ batchFresh' = batch'
  /\ cancelBatch' = cancelFiles
  /\ UNCHANGED <<runnerVars, fileVars, pathVars, restarts>>

\* runner.submit_all, one packet at a time, in the order of their file names.
SubmitFetched(t) ==
  /\ loop = "submit"
  /\ t \in batch
  /\ submit(t)
  /\ batch' = batch \ {t}
  /\ batchFresh' = batchFresh \ {t}
  /\ queueFresh' = IF t \in batchFresh \ known THEN queueFresh \cup {t} ELSE queueFresh
  /\ UNCHANGED <<fileVars, loop, cancelBatch, workerFresh, restarts>>

\* A cancel packet is handled on the spot; nothing renames its file.
CancelFetched(t) ==
  /\ loop = "submit"
  /\ t \in cancelBatch
  /\ handle_cancel(t)
  /\ cancelBatch' = cancelBatch \ {t}
  /\ queueFresh' = queueFresh \ {t}
  /\ UNCHANGED <<fileVars, loop, batch, batchFresh, workerFresh, restarts>>

StartPump ==
  /\ loop = "submit" /\ batch = {} /\ cancelBatch = {}
  /\ loop' = "pump"
  /\ ReportExpired
  /\ queueFresh' = queueFresh \ Expired
  /\ UNCHANGED <<fileVars, batchVars, workerFresh, restarts>>

ContinuePump ==
  /\ loop = "pump"
  /\ \/ (AcquireSlot \/ NextTaskPick) /\ UNCHANGED pathVars
     \/ NextTaskDrain /\ queueFresh' = queueFresh \ Expired /\ UNCHANGED workerFresh
     \/ /\ Spawn
        /\ queueFresh' = queueFresh \ {picked}
        /\ workerFresh' = IF picked \in queueFresh
                          THEN workerFresh \cup {w \in Worker : pc[w] # pc'[w]}
                          ELSE workerFresh
  /\ loop' = IF mainPc' = "idle" THEN "fetch" ELSE "pump"
  /\ UNCHANGED <<fileVars, batchVars, restarts>>

-----------------------------------------------------------------------------
(* The workers *)

\* Wrong mark_done / mark_failed: rename whatever name the packet has by now.
MarkFileBlindly(w) ==
  /\ NotifyFinished(w)
  /\ file' = [file EXCEPT ![task[w]] = IF OutcomeOk(w) THEN "done" ELSE "failed"]
  /\ batchFresh' = batchFresh \ {task[w]}
  /\ queueFresh' = queueFresh \ {task[w]}
  /\ workerFresh' = {v \in workerFresh : task[v] # task[w]}
  /\ UNCHANGED <<cancelFiles, loop, batch, cancelBatch, restarts>>

\* mark_done / mark_failed: rename the packet if its path still exists; every
\* other copy of that Task in memory then points to a file that is gone.
MarkFile(w) ==
  /\ NotifyFinished(w)
  /\ IF w \in workerFresh
     THEN /\ file' = [file EXCEPT ![task[w]] = IF OutcomeOk(w) THEN "done" ELSE "failed"]
          /\ batchFresh' = batchFresh \ {task[w]}
          /\ queueFresh' = queueFresh \ {task[w]}
          /\ workerFresh' = {v \in workerFresh : task[v] # task[w]}
     ELSE UNCHANGED <<file, batchFresh, pathVars>>
  /\ UNCHANGED <<cancelFiles, loop, batch, cancelBatch, restarts>>

\* Every other step of a worker leaves the files alone.
WorkerElse(w) ==
  /\ WorkerStep(w)
  /\ pc[w] # "notify"
  /\ workerFresh' = IF pc'[w] = "none" THEN workerFresh \ {w} ELSE workerFresh
  /\ UNCHANGED <<fileVars, loop, batchVars, queueFresh, restarts>>

-----------------------------------------------------------------------------
\* The process is killed and started again: what is not a file is gone.
Restart ==
  /\ restarts < MaxRestarts
  /\ restarts' = restarts + 1
  /\ entries' = {} /\ older' = {} /\ known' = {} /\ completed' = {}
  /\ mainPc' = "idle" /\ picked' = NoTask /\ slots' = MaxConcurrent
  /\ inFlight' = 0 /\ workers' = {} /\ cancelled' = {} /\ stopping' = {}
  /\ pc' = [w \in Worker |-> "none"]
  /\ task' = [w \in Worker |-> NoTask]
  /\ attempt' = [w \in Worker |-> 0]
  /\ result' = [w \in Worker |-> NoResult]
  /\ cut' = [w \in Worker |-> FALSE]
  /\ loop' = "fetch" /\ batch' = {} /\ cancelBatch' = {} /\ batchFresh' = {}
  /\ queueFresh' = {} /\ workerFresh' = {}
  /\ UNCHANGED <<now, bridgeVars, fileVars>>

BridgeTick == ClockTick /\ UNCHANGED bridgeLoopVars

MainLoop ==
  \/ Fetch
  \/ \E t \in Task : SubmitFetched(t)
  \/ \E t \in CancelTargets : CancelFetched(t)
  \/ StartPump
  \/ ContinuePump

BridgeNext ==
  \/ \E t \in Task : PushPacket(t)
  \/ \E t \in CancelTargets : PushCancel(t)
  \/ MainLoop
  \/ \E w \in Worker : MarkFile(w) \/ WorkerElse(w)
  \/ Restart
  \/ BridgeTick

BridgeSpec == BridgeInit /\ [][BridgeNext]_vars

BridgeFairness ==
  /\ WF_vars(MainLoop)
  /\ \A w \in Worker : WF_vars(MarkFile(w) \/ WorkerElse(w))

BridgeFairSpec == BridgeSpec /\ BridgeFairness

-----------------------------------------------------------------------------
(* Properties of the code as it is *)

\* A packet is renamed only by a worker that has already put a result on the
\* bridge: a crash before the rename re-runs the packet, it never loses it.
AnsweredBeforeRenamed ==
  \A t \in Task \ Streamed : file[t] \in {"failed", "done"} => published[t] # "none"

\* mark_done / mark_failed act on the path the task was fetched from: a stale
\* copy never renames, so once a packet is done- no later run turns it back.
DoneIsFinal == [][\A t \in Task : file[t] = "done" => file'[t] = "done"]_vars

\* A packet pushed to tasks/ is eventually answered in results/, restarts or
\* not, when no priority, dependency or deadline sets it apart.
PacketAnswered ==
  \A t \in Task : file[t] = "pending" ~> published[t] # "none"

=============================================================================
