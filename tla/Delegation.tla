----------------------------- MODULE Delegation -----------------------------
(***************************************************************************)
(* agent/subtasks.py and the spawn_task and await_tasks kinds of           *)
(* agent/executor_v3.py: tasks that start children on one bounded thread   *)
(* pool, and block in a thread of that pool until children end.            *)
(*                                                                         *)
(* A root task runs in a worker of the task runner, a child in a thread of *)
(* the pool.  The manager's lock makes a step of each of its methods; an   *)
(* await reads events it caught at its start and the records it finds at   *)
(* its end.  A spawn may be a node of a workflow or of a template, which   *)
(* builds its task without a depth.                                        *)
(***************************************************************************)
EXTENDS Naturals, Sequences, FiniteSets

CONSTANTS
  Task,
  Batches,    \* bound: the sets of root tasks that may arrive together
  Does,       \* "leaf", "spawn", "await" or "llm" of each task
  Names,      \* the children a spawn starts, the ids an await waits for
  Waits,      \* spawns whose payload says await
  AnyOf,      \* awaits with require_all = false
  InFlow,     \* workflow and run_template tasks, whose one node spawns
  MaxActive,  \* max_active: children in flight, and threads of the pool
  MaxDepth,   \* max_depth
  MaxRuns     \* bound: how often an id is spawned

ASSUME DelegationAssumption ==
  /\ IsFiniteSet(Task) /\ Batches \subseteq SUBSET Task
  /\ Does \in [Task -> {"leaf", "spawn", "await", "llm"}]
  /\ Names \in [Task -> Seq(Task)]
  /\ Waits \subseteq Task /\ AnyOf \subseteq Task /\ InFlow \subseteq Task
  /\ MaxActive \in Nat \ {0} /\ MaxDepth \in Nat \ {0} /\ MaxRuns \in Nat

VARIABLES
  record,   \* the state of each SubtaskRecord; "none" when there is none
  runs,     \* how many times each id was spawned
  depth,    \* SubTask.depth; 0 for a root
  chain,    \* how many spawns lie above each task
  pc,       \* where the thread that runs each task is
  next,     \* the position of spawn_many, or of await_tasks, in the list
  watch,    \* await_tasks' events: the run of each id it waits for, or 0
  rung,     \* the events that are set, each as an id and its run
  late,     \* threads that recorded the end of a run and set no event yet
  leaving,  \* threads that set one, and are not back in the pool yet
  answer    \* what each task's Result says

threads == <<rung, late, leaving>>
vars == <<record, runs, depth, chain, pc, next, watch, threads, answer>>

Unfinished == {"queued", "running"}
InFlight == {t \in Task : record[t] \in Unfinished}

DelegationTypeOK ==
  /\ record \in [Task -> Unfinished \cup {"none", "succeeded", "failed"}]
  /\ runs \in [Task -> Nat] /\ depth \in [Task -> Nat] /\ chain \in [Task -> Nat]
  /\ pc \in [Task -> {"absent", "ready", "queued", "run", "wait", "block", "off"}]
  /\ next \in [Task -> Nat \ {0}] /\ watch \in [Task -> [Task -> Nat]]
  /\ rung \cup late \cup leaving \subseteq Task \X Nat
  /\ answer \in [Task -> {"none", "ok", "failed", "bad_request"}]

Init ==
  /\ record = [t \in Task |-> "none"] /\ runs = [t \in Task |-> 0]
  /\ depth = [t \in Task |-> 0] /\ chain = [t \in Task |-> 0] /\ next = [t \in Task |-> 1]
  /\ \E b \in Batches : pc = [t \in Task |-> IF t \in b THEN "ready" ELSE "absent"]
  /\ watch = [t \in Task |-> [c \in Task |-> 0]]
  /\ rung = {} /\ late = {} /\ leaving = {}
  /\ answer = [t \in Task |-> "none"]

-----------------------------------------------------------------------------
Child(t) == runs[t] > 0
Busy == Cardinality({t \in Task : record[t] = "running"}) + Cardinality(late \cup leaving)

\* A worker of the task runner takes a root task.
StartRoot(t) ==
  /\ pc[t] = "ready" /\ pc' = [pc EXCEPT ![t] = "run"]
  /\ UNCHANGED <<record, runs, depth, chain, next, watch, threads, answer>>

\* _run: a thread of the pool takes a child.
TakeChild(t) ==
  /\ pc[t] = "queued" /\ Busy < MaxActive
  /\ pc' = [pc EXCEPT ![t] = "run"]
  /\ record' = [record EXCEPT ![t] = "running"]
  /\ UNCHANGED <<runs, depth, chain, next, watch, threads, answer>>

\* The Result of a task; for a child, _run writes it to the record.
End(t, a) ==
  /\ answer' = [answer EXCEPT ![t] = a]
  /\ IF Child(t)
       THEN /\ record' = [record EXCEPT ![t] = IF a = "ok" THEN "succeeded" ELSE "failed"]
            /\ late' = late \cup {<<t, runs[t]>>}
       ELSE UNCHANGED <<record, late>>
  /\ pc' = [pc EXCEPT ![t] = "off"] /\ UNCHANGED <<rung, leaving>>

\* Then, the lock taken again, it sets the event the id has now: a run of the
\* same id that was spawned in between finds its own set, and whoever waits for
\* the run that ended is not woken.  The thread goes back to the pool.
Ring(t) ==
  \E n \in 1 .. runs[t] :
    /\ <<t, n>> \in late /\ late' = late \ {<<t, n>>}
    /\ rung' = rung \cup {<<t, runs[t]>>} /\ leaving' = leaving \cup {<<t, n>>}
    /\ UNCHANGED <<record, runs, depth, chain, pc, next, watch, answer>>

Leave(t) ==
  \E n \in 1 .. runs[t] :
    /\ <<t, n>> \in leaving /\ leaving' = leaving \ {<<t, n>>}
    /\ UNCHANGED <<record, runs, depth, chain, pc, next, watch, rung, late, answer>>

\* A kind that runs to its end in its own thread.
Leaf(t) ==
  /\ pc[t] = "run" /\ Does[t] = "leaf"
  /\ \E a \in {"ok", "failed"} : End(t, a)
  /\ UNCHANGED <<runs, depth, chain, next, watch>>

\* A node of a workflow is built without a depth: it is a root again.
DepthOf(t) == IF t \in InFlow THEN 0 ELSE depth[t]

\* spawn's refusals: too deep, in flight already, too many in flight.
AdmitsUnlocked(t, c) ==
  /\ DepthOf(t) + 1 <= MaxDepth /\ c \notin InFlight
  /\ Cardinality({x \in Task : record[x] = "running"}) < MaxActive

Admits(t, c) ==
  /\ DepthOf(t) + 1 <= MaxDepth /\ c \notin InFlight
  /\ Cardinality(InFlight) < MaxActive

\* (An id is not a root's and a child's at the same time: a bound.)
\* spawn_many starts one child after the other; a refusal is raised through
\* it, and answered as a bad request without the children that did start.
Spawn(t) ==
  LET c == Names[t][next[t]] IN
  /\ pc[t] = "run" /\ Does[t] = "spawn" /\ next[t] <= Len(Names[t])
  /\ IF Admits(t, c)
       THEN /\ runs[c] < MaxRuns /\ pc[c] \in {"absent", "off"}
            /\ record' = [record EXCEPT ![c] = "queued"]
            /\ runs' = [runs EXCEPT ![c] = @ + 1]
            /\ depth' = [depth EXCEPT ![c] = DepthOf(t) + 1]
            /\ chain' = [chain EXCEPT ![c] = chain[t] + 1]
            /\ pc' = [pc EXCEPT ![c] = "queued"]
            /\ next' = [next EXCEPT ![t] = @ + 1, ![c] = 1]
            /\ UNCHANGED <<watch, threads, answer>>
       ELSE End(t, IF t \in InFlow THEN "failed" ELSE "bad_request") /\ UNCHANGED <<runs, depth, chain, next, watch>>

Named(t) == {Names[t][i] : i \in 1 .. Len(Names[t])}

\* The ids that have a record are waited for, one after the other, each by
\* the event of its run at that moment.
BeginWait(t) ==
  /\ watch' = [watch EXCEPT ![t] = [c \in Task |-> IF c \in Named(t) THEN runs[c] ELSE 0]]
  /\ next' = [next EXCEPT ![t] = 1]
  /\ pc' = [pc EXCEPT ![t] = "wait"]
  /\ UNCHANGED <<record, threads, answer>>

\* All children started: the answer is their ids, or the await begins.
Spawned(t) ==
  /\ pc[t] = "run" /\ Does[t] = "spawn" /\ next[t] > Len(Names[t])
  /\ IF t \in Waits THEN BeginWait(t)
     ELSE End(t, "ok") /\ UNCHANGED <<watch, next>>
  /\ UNCHANGED <<runs, depth, chain>>

Await(t) ==
  /\ pc[t] = "run" /\ Does[t] = "await"
  /\ IF Names[t] = <<>> THEN End(t, "ok") /\ UNCHANGED <<watch, next>>
     ELSE BeginWait(t)
  /\ UNCHANGED <<runs, depth, chain>>

Known(t) == {c \in Task : watch[t][c] > 0}
Set(c, n) == n = 0 \/ <<c, n>> \in rung
AnyFinished(t) == \E c \in Known(t) : record[c] \notin Unfinished

\* await_tasks' answer: the records as they are now.
Awaited(t) ==
  /\ End(t, IF Known(t) = Named(t) /\ \A c \in Known(t) : record[c] = "succeeded"
              THEN "ok" ELSE "failed")
  /\ UNCHANGED <<runs, depth, chain, next, watch>>

\* One turn of await_tasks' loop; require_all = false looks for a finished
\* child only here, between two events.
Turn(t) ==
  /\ pc[t] = "wait"
  /\ IF next[t] > Len(Names[t]) \/ (t \in AnyOf /\ AnyFinished(t)) THEN Awaited(t)
     ELSE /\ pc' = [pc EXCEPT ![t] = "block"]
          /\ UNCHANGED <<record, runs, depth, chain, next, watch, threads, answer>>

Woken(t) ==
  /\ pc[t] = "block" /\ Set(Names[t][next[t]], watch[t][Names[t][next[t]]])
  /\ pc' = [pc EXCEPT ![t] = "wait"]
  /\ next' = [next EXCEPT ![t] = @ + 1]
  /\ UNCHANGED <<record, runs, depth, chain, watch, threads, answer>>

TimesOutNever(t) == FALSE /\ UNCHANGED vars
TimesOut(t) == pc[t] = "block" /\ Awaited(t)

Step(t) ==
  \/ StartRoot(t) \/ TakeChild(t) \/ Ring(t) \/ Leave(t) \/ Leaf(t)
  \/ Spawn(t) \/ Spawned(t) \/ Await(t) \/ Turn(t) \/ Woken(t)

Next == \E t \in Task : Step(t) \/ TimesOut(t)

\* A thread goes on until its task has answered, an await until its timeout.
Fairness == \A t \in Task : WF_vars(Step(t)) /\ WF_vars(TimesOut(t))

Spec == Init /\ [][Next]_vars /\ Fairness

-----------------------------------------------------------------------------
(* A queued child finds a thread: however awaits are nested, those blocked *)
(* in threads of the pool never hold all of them while a child is queued.  *)
PoolHasRoom ==
  \A c \in Task : record[c] = "queued" =>
    Cardinality({t \in Task : record[t] = "running"}) < MaxActive

(* Every child ends, even in a circle of awaits.                           *)
ChildrenEnd == \A c \in Task : (record[c] = "queued") ~> (record[c] \notin Unfinished)

(* "max_depth stops a template that spawns itself" (subtasks.py:16): no    *)
(* task has more than max_depth spawns above it.                           *)
ChainBounded == \A c \in Task : chain[c] <= MaxDepth
=============================================================================
