----------------------------- MODULE ExecutorV2 -----------------------------
(***************************************************************************)
(* agent/executor_v2.py: streamed commands, live shell sessions, and the   *)
(* cancel table (_running, _cancelled) that stop() reads from another      *)
(* thread; agent/ws_bridge.py's build_execute, which lends one chunk sink  *)
(* of the shared executor to each remote task.                             *)
(*                                                                         *)
(* Local and remote threads call run; the main thread calls stop, resumes  *)
(* confirmed tasks and shuts the executor down.  A step ends where another *)
(* thread can see or change what it touched: _running_lock, the sessions   *)
(* dict, the process itself, the sink.                                     *)
(***************************************************************************)
EXTENDS Naturals, FiniteSets

CONSTANTS
  Local, Remote,  \* worker threads: of TaskRunner, of the websocket bridge
  Main,           \* the main thread
  Task,
  Batches,        \* bound: the sets of tasks that may arrive together
  Kind,           \* "stream", "open", "write" or "close" of each task
  Session,        \* the opening task whose session id a write or close names
  Via,            \* tasks that arrive over the socket
  Verdicts,       \* what the policy may say of each task
  StopTargets,    \* the ids stop() is called with
  Mortal,         \* bound: tasks whose process may exit by itself
  MaxSessions,    \* max_sessions
  NoTask

Thread == Local \cup Remote \cup {Main}
Opening == {t \in Task : Kind[t] = "open"}
Streaming == {t \in Task : Kind[t] = "stream"}

ASSUME ExecutorAssumption ==
  /\ Main \notin Local \cup Remote /\ Local \cap Remote = {}
  /\ IsFiniteSet(Thread) /\ IsFiniteSet(Task) /\ NoTask \notin Task
  /\ Batches \subseteq SUBSET Task
  /\ Kind \in [Task -> {"stream", "open", "write", "close"}]
  /\ Session \in [Task -> Opening \cup {NoTask}]
  /\ Via \subseteq Task /\ StopTargets \subseteq Task /\ Mortal \subseteq Task
  /\ Verdicts \in [Task -> SUBSET {"auto", "confirm", "block"}]
  /\ \A t \in Task : Kind[t] = "close" => Verdicts[t] = {"auto"}
  /\ MaxSessions \in Nat

VARIABLES
  pc, job,      \* where each thread is, and the task in its hands
  doomed,       \* the sessions _reap_sessions or shutdown still has to close
  cut,          \* the stream's local `cancelled`
  late,         \* the stream's local `timed_out`
  answer,       \* the decision each task's Result carried
  running,      \* keys of _running; the handle is the process the task opened
  cancelled,    \* _cancelled
  sessions,     \* sessions, each named by the task that opened it
  alive,        \* processes that have not exited
  sink, saved,  \* chunk_sink and each remote call's `previous`
  finals,       \* history: final frames the client of each remote task was sent
  crossed,      \* history: remote tasks whose call another call's chunk or sink met
  heard,        \* history: tasks stop() flagged before their last look at it
  listed        \* history: the sessions shutdown found in the table

callVars == <<pc, job, doomed, cut, late, answer>>
tableVars == <<running, cancelled, sessions, alive>>
sinkVars == <<sink, saved, finals, crossed>>
vars == <<callVars, tableVars, sinkVars, heard, listed>>

-----------------------------------------------------------------------------
Answer == {"absent", "none", "parked", "block", "denied", "ok", "failed", "unstarted",
           "timeout", "cancelled", "cut", "error"}

\* The places a thread can be; a stream has not looked at the flag for the
\* last time in those of BeforeRecheck.
BeforeRecheck == {"launch", "register", "pump", "recheck"}
Place == BeforeRecheck \cup
         {"idle", "finish", "clear", "restore", "reap", "close", "forget",
          "drop", "spawn", "insert", "get", "type", "pop", "shut", "unlist",
          "stop", "sweep", "down"}

TypeOK ==
  /\ pc \in [Thread -> Place]
  /\ job \in [Thread -> Task \cup {NoTask}]
  /\ doomed \in [Thread -> SUBSET Opening]
  /\ cut \in [Thread -> BOOLEAN] /\ late \in [Thread -> BOOLEAN]
  /\ answer \in [Task -> Answer]
  /\ running \subseteq Task /\ cancelled \subseteq Task
  /\ sessions \subseteq Opening /\ alive \subseteq Task
  /\ sink \in Task \cup {NoTask} /\ saved \in [Remote -> Task \cup {NoTask}]
  /\ finals \in [Task -> Nat] /\ crossed \subseteq Task
  /\ heard \subseteq Task /\ listed \subseteq Opening

Init ==
  /\ pc = [w \in Thread |-> "idle"] /\ job = [w \in Thread |-> NoTask]
  /\ doomed = [w \in Thread |-> {}]
  /\ cut = [w \in Thread |-> FALSE] /\ late = [w \in Thread |-> FALSE]
  /\ \E b \in Batches :
       answer = [t \in Task |-> IF t \in b THEN "none" ELSE "absent"]
  /\ running = {} /\ cancelled = {} /\ sessions = {} /\ alive = {}
  /\ sink = NoTask /\ saved = [r \in Remote |-> NoTask]
  /\ finals = [t \in Task |-> 0] /\ crossed = {}
  /\ heard = {} /\ listed = {}

-----------------------------------------------------------------------------
Up == pc[Main] # "down"
At(w, p) == Up /\ pc[w] = p
Go(w, p) == pc' = [pc EXCEPT ![w] = p]
Held(t) == \E w \in Thread : job[w] = t /\ pc[w] # "stop"

\* The handler's return; a remote call still has its sink to give back.
Return(w, t, a) ==
  /\ answer' = [answer EXCEPT ![t] = a]
  /\ IF w \in Remote
       THEN Go(w, "restore") /\ UNCHANGED job
       ELSE Go(w, "idle") /\ job' = [job EXCEPT ![w] = NoTask]

\* _emit of a final chunk: the client the sink belongs to gets it, whichever
\* task it is of.
EmitFinal(t) ==
  /\ IF sink = NoTask THEN UNCHANGED finals
                      ELSE finals' = [finals EXCEPT ![sink] = @ + 1]
  /\ crossed' = crossed \cup ({sink} \ {t, NoTask})
  /\ UNCHANGED <<sink, saved>>

\* The first step of each kind's _exec method, the gate cleared.
First(k) ==
  CASE k = "stream" -> "launch"
    [] k \in {"open", "write"} -> "reap"
    [] k = "close" -> "pop"

\* build_execute puts its sink on the executor and remembers the one it found.
TakeSink(w, t) ==
  LET under == {job[r] : r \in Remote} \ {NoTask} IN
  /\ sink' = t /\ saved' = [saved EXCEPT ![w] = sink]
  /\ crossed' = IF under = {} THEN crossed ELSE crossed \cup under \cup {t}
  /\ UNCHANGED finals

\* run: a flagged task is answered at once, the gate blocks or parks it (a
\* write is blocked or let through, a close is not asked about).
Run(w, t) ==
  /\ At(w, "idle") /\ w # Main /\ (t \in Via <=> w \in Remote)
  /\ answer[t] = "none" /\ ~Held(t)
  /\ IF w \in Remote THEN TakeSink(w, t) ELSE UNCHANGED sinkVars
  /\ UNCHANGED <<doomed, cut, late, running, sessions, alive, heard, listed>>
  /\ IF t \in cancelled
       THEN /\ cancelled' = cancelled \ {t}
            /\ answer' = [answer EXCEPT ![t] = "cancelled"]
            /\ IF w \in Remote
                 THEN Go(w, "restore") /\ job' = [job EXCEPT ![w] = t]
                 ELSE UNCHANGED <<pc, job>>
       ELSE /\ UNCHANGED cancelled
            /\ \E v \in Verdicts[t] :
                 IF v = "block" \/ (v = "confirm" /\ Kind[t] \in {"stream", "open"})
                   THEN /\ answer' = [answer EXCEPT ![t] =
                                        IF v = "block" THEN "block" ELSE "parked"]
                        /\ IF w \in Remote
                             THEN Go(w, "restore") /\ job' = [job EXCEPT ![w] = t]
                             ELSE UNCHANGED <<pc, job>>
                   ELSE /\ Go(w, First(Kind[t])) /\ job' = [job EXCEPT ![w] = t]
                        /\ UNCHANGED answer

\* resume_after_confirm, on the main thread: it does not look at _cancelled.
Resume(t) ==
  /\ At(Main, "idle") /\ answer[t] = "parked" /\ ~Held(t)
  /\ \/ /\ answer' = [answer EXCEPT ![t] = "denied"] /\ UNCHANGED <<pc, job>>
     \/ /\ answer' = [answer EXCEPT ![t] = "none"]
        /\ Go(Main, First(Kind[t])) /\ job' = [job EXCEPT ![Main] = t]
  /\ UNCHANGED <<doomed, cut, late, tableVars, sinkVars, heard, listed>>

-----------------------------------------------------------------------------
(* _exec_shell_stream.                                                     *)
Launch(w) ==
  LET t == job[w] IN
  /\ At(w, "launch")
  /\ UNCHANGED <<doomed, cut, late, running, cancelled, sessions, heard, listed>>
  /\ \/ Return(w, t, "unstarted") /\ EmitFinal(t) /\ UNCHANGED alive
     \/ Go(w, "register") /\ alive' = alive \cup {t} /\ UNCHANGED <<job, answer, sinkVars>>

\* _register_running: the process of a stream, or the session of an open.
Register(w) ==
  LET t == job[w] IN
  /\ At(w, "register") /\ running' = running \cup {t}
  /\ IF Kind[t] = "stream" THEN Go(w, "pump") /\ UNCHANGED <<job, answer>>
                           ELSE Return(w, t, "ok")
  /\ UNCHANGED <<doomed, cut, late, cancelled, sessions, alive, sinkVars, heard, listed>>

\* The read loop ends by the flag, by the deadline or when both pipes are at
\* EOF; the chunks it emits before are not told apart.
Pump(w) ==
  LET t == job[w] IN
  /\ At(w, "pump") /\ UNCHANGED <<job, doomed, answer, tableVars, sinkVars, heard, listed>>
  /\ \/ t \in cancelled /\ cut' = [cut EXCEPT ![w] = TRUE] /\ Go(w, "recheck")
        /\ UNCHANGED late
     \/ t \notin cancelled /\ late' = [late EXCEPT ![w] = TRUE] /\ Go(w, "recheck")
        /\ UNCHANGED cut
     \/ t \notin cancelled /\ t \notin alive /\ Go(w, "recheck")
        /\ UNCHANGED <<cut, late>>

RecheckNever(w) ==
  /\ At(w, "recheck") /\ Go(w, "finish")
  /\ UNCHANGED <<job, doomed, cut, late, answer, tableVars, sinkVars, heard, listed>>

\* The flag is read once more: stop() may have ended the loop by killing the
\* process.
Recheck(w) ==
  /\ At(w, "recheck") /\ Go(w, "finish")
  /\ cut' = [cut EXCEPT ![w] = @ \/ job[w] \in cancelled]
  /\ UNCHANGED <<job, doomed, late, answer, tableVars, sinkVars, heard, listed>>

\* The process is killed or waited for, and leaves the cancel table.
Finish(w) ==
  LET t == job[w] IN
  /\ At(w, "finish") /\ Go(w, "clear")
  /\ alive' = alive \ {t} /\ running' = running \ {t}
  /\ UNCHANGED <<job, doomed, cut, late, answer, cancelled, sessions, sinkVars, heard, listed>>

\* clear_cancel for a stream that was cut, the final chunk, the Result.
Clear(w) ==
  LET t == job[w] IN
  /\ At(w, "clear") /\ EmitFinal(t)
  /\ IF cut[w] THEN cancelled' = cancelled \ {t} /\ Return(w, t, "cut")
     ELSE /\ UNCHANGED cancelled
          /\ IF late[w] THEN Return(w, t, "timeout")
                        ELSE \E a \in {"ok", "failed"} : Return(w, t, a)
  /\ cut' = [cut EXCEPT ![w] = FALSE] /\ late' = [late EXCEPT ![w] = FALSE]
  /\ UNCHANGED <<doomed, running, sessions, alive, heard, listed>>

-----------------------------------------------------------------------------
(* Sessions.  The dead and the idle ones are listed, then each is closed,  *)
(* its handles forgotten and its entry deleted; an entry another thread    *)
(* took away meanwhile is a KeyError, which run answers as an error.       *)
AfterReap(w) == IF Kind[job[w]] = "open" THEN "spawn" ELSE "get"

\* A thread that is about to insert or remove an entry may do so under the
\* comprehension that lists them, which then raises.
ChangesTable(v) == pc[v] \in {"insert", "drop", "pop", "sweep"}

Reap(w) ==
  /\ At(w, "reap")
  /\ \/ /\ \E idle \in SUBSET (sessions \cap alive) :
             doomed' = [doomed EXCEPT ![w] = (sessions \ alive) \cup idle]
        /\ Go(w, IF doomed'[w] = {} THEN AfterReap(w) ELSE "close")
        /\ UNCHANGED <<job, answer>>
     \/ /\ \E v \in Thread \ {w} : ChangesTable(v)
        /\ Return(w, job[w], "error") /\ UNCHANGED doomed
  /\ UNCHANGED <<cut, late, tableVars, sinkVars, heard, listed>>

\* One session at a time: doomed keeps the one at hand until it is dropped.
Victim(w) == CHOOSE s \in doomed[w] : TRUE

CloseNothing(w) ==
  /\ At(w, "close") /\ Go(w, "forget")
  /\ UNCHANGED <<job, doomed, cut, late, answer, tableVars, sinkVars, heard, listed>>

ReapClose(w) ==
  /\ At(w, "close") /\ Go(w, "forget")
  /\ alive' = IF Victim(w) \in sessions THEN alive \ {Victim(w)} ELSE alive
  /\ UNCHANGED <<job, doomed, cut, late, answer, running, cancelled, sessions, sinkVars, heard, listed>>

ReapForget(w) ==
  LET s == Victim(w) IN
  /\ At(w, "forget")
  /\ IF s \in sessions
       THEN Go(w, "drop") /\ running' = running \ {s} /\ UNCHANGED <<job, doomed, answer>>
       ELSE /\ Return(w, job[w], "error") /\ UNCHANGED running
            /\ doomed' = [doomed EXCEPT ![w] = {}]
  /\ UNCHANGED <<cut, late, cancelled, sessions, alive, sinkVars, heard, listed>>

ReapDrop(w) ==
  LET s == Victim(w) IN
  /\ At(w, "drop")
  /\ IF s \in sessions
       THEN /\ sessions' = sessions \ {s}
            /\ doomed' = [doomed EXCEPT ![w] = @ \ {s}]
            /\ Go(w, IF doomed'[w] = {} THEN AfterReap(w) ELSE "close")
            /\ UNCHANGED <<job, answer>>
       ELSE /\ Return(w, job[w], "error") /\ UNCHANGED sessions
            /\ doomed' = [doomed EXCEPT ![w] = {}]
  /\ UNCHANGED <<cut, late, running, cancelled, alive, sinkVars, heard, listed>>

SpawnAtLimit(w) ==
  LET t == job[w] IN
  /\ At(w, "spawn") /\ Cardinality(sessions) <= MaxSessions
  /\ alive' = alive \cup {t} /\ Go(w, "insert")
  /\ UNCHANGED <<job, doomed, cut, late, answer, running, cancelled, sessions, sinkVars, heard, listed>>

\* The cap is looked at, then the process is started (which may raise).
Spawn(w) ==
  LET t == job[w] IN
  /\ At(w, "spawn")
  /\ \/ Return(w, t, "failed") /\ UNCHANGED alive
     \/ /\ Cardinality(sessions) < MaxSessions
        /\ alive' = alive \cup {t} /\ Go(w, "insert") /\ UNCHANGED <<job, answer>>
  /\ UNCHANGED <<doomed, cut, late, running, cancelled, sessions, sinkVars, heard, listed>>

Insert(w) ==
  /\ At(w, "insert") /\ Go(w, "register")
  /\ sessions' = sessions \cup {job[w]}
  /\ UNCHANGED <<job, doomed, cut, late, answer, running, cancelled, alive, sinkVars, heard, listed>>

\* _exec_session_write: the session found may be closed before it is typed at.
Get(w) ==
  /\ At(w, "get")
  /\ IF Session[job[w]] \in sessions THEN Go(w, "type") /\ UNCHANGED <<job, answer>>
                                     ELSE Return(w, job[w], "failed")
  /\ UNCHANGED <<doomed, cut, late, tableVars, sinkVars, heard, listed>>

Type(w) ==
  /\ At(w, "type")
  /\ Return(w, job[w], IF Session[job[w]] \in alive THEN "ok" ELSE "failed")
  /\ UNCHANGED <<doomed, cut, late, tableVars, sinkVars, heard, listed>>

\* _session_close: popped, closed, its handles forgotten.
Pop(w) ==
  LET s == Session[job[w]] IN
  /\ At(w, "pop")
  /\ IF s \in sessions
       THEN Go(w, "shut") /\ sessions' = sessions \ {s} /\ UNCHANGED <<job, answer>>
       ELSE Return(w, job[w], "failed") /\ UNCHANGED sessions
  /\ UNCHANGED <<doomed, cut, late, running, cancelled, alive, sinkVars, heard, listed>>

Shut(w) ==
  /\ At(w, "shut") /\ Go(w, "unlist")
  /\ alive' = alive \ {Session[job[w]]}
  /\ UNCHANGED <<job, doomed, cut, late, answer, running, cancelled, sessions, sinkVars, heard, listed>>

Unlist(w) ==
  /\ At(w, "unlist") /\ Return(w, job[w], "ok")
  /\ running' = running \ {Session[job[w]]}
  /\ UNCHANGED <<doomed, cut, late, cancelled, sessions, alive, sinkVars, heard, listed>>

-----------------------------------------------------------------------------
ClosedItself(t) ==
  t \in Streaming /\ answer[t] \in {"ok", "failed", "unstarted", "timeout", "cut"}

RestoreTwice(w) ==
  LET t == job[w] IN
  /\ At(w, "restore") /\ Go(w, "idle") /\ job' = [job EXCEPT ![w] = NoTask]
  /\ sink' = saved[w] /\ finals' = [finals EXCEPT ![t] = @ + 1]
  /\ UNCHANGED <<doomed, cut, late, answer, tableVars, saved, crossed, heard, listed>>

\* build_execute's finally block puts back what it found, and closes the
\* stream itself unless the Result says that the kind did.
Restore(w) ==
  LET t == job[w] IN
  /\ At(w, "restore") /\ Go(w, "idle") /\ job' = [job EXCEPT ![w] = NoTask]
  /\ sink' = saved[w]
  /\ finals' = [finals EXCEPT ![t] = IF ClosedItself(t) THEN @ ELSE @ + 1]
  /\ UNCHANGED <<doomed, cut, late, answer, tableVars, saved, crossed, heard, listed>>

\* stop: the flag and the handle under the lock, then the kill outside it.
Stop(t) ==
  /\ At(Main, "idle") /\ cancelled' = cancelled \cup {t}
  /\ IF t \in running THEN Go(Main, "stop") /\ job' = [job EXCEPT ![Main] = t]
                      ELSE UNCHANGED <<pc, job>>
  /\ heard' = IF \E w \in Thread : job[w] = t /\ pc[w] \in BeforeRecheck
                THEN heard \cup {t} ELSE heard
  /\ UNCHANGED <<doomed, cut, late, answer, running, sessions, alive, sinkVars, listed>>

StopKill ==
  /\ At(Main, "stop") /\ alive' = alive \ {job[Main]}
  /\ Go(Main, "idle") /\ job' = [job EXCEPT ![Main] = NoTask]
  /\ UNCHANGED <<doomed, cut, late, answer, running, cancelled, sessions, sinkVars, heard, listed>>

\* shutdown, after wait_idle's 30 s: calls may still be under way.  Each
\* session listed is popped and closed, then the tables are cleared and main
\* returns; its worker threads are daemons.
Shutdown ==
  /\ At(Main, "idle") /\ Go(Main, "sweep")
  /\ doomed' = [doomed EXCEPT ![Main] = sessions] /\ listed' = sessions
  /\ UNCHANGED <<job, cut, late, answer, tableVars, sinkVars, heard>>

Sweep ==
  /\ At(Main, "sweep")
  /\ UNCHANGED <<job, cut, late, answer, sinkVars, heard, listed>>
  /\ IF doomed[Main] = {}
       THEN /\ Go(Main, "down") /\ running' = {} /\ cancelled' = {}
            /\ UNCHANGED <<doomed, sessions, alive>>
       ELSE LET s == Victim(Main) IN
            /\ doomed' = [doomed EXCEPT ![Main] = @ \ {s}]
            /\ sessions' = sessions \ {s}
            /\ alive' = IF s \in sessions THEN alive \ {s} ELSE alive
            /\ UNCHANGED <<pc, running, cancelled>>

\* A process exits by itself.
Exit(t) ==
  /\ Up /\ t \in alive \cap Mortal /\ alive' = alive \ {t}
  /\ UNCHANGED <<callVars, running, cancelled, sessions, sinkVars, heard, listed>>

Step(w) ==
  \/ Launch(w) \/ Register(w) \/ Pump(w) \/ Recheck(w) \/ Finish(w) \/ Clear(w)
  \/ Reap(w) \/ ReapClose(w) \/ ReapForget(w) \/ ReapDrop(w)
  \/ Spawn(w) \/ Insert(w) \/ Get(w) \/ Type(w)
  \/ Pop(w) \/ Shut(w) \/ Unlist(w)

Next ==
  \/ \E w \in Thread : Step(w) \/ (\E t \in Task : Run(w, t))
  \/ \E w \in Remote : Restore(w)
  \/ \E t \in Task : Resume(t) \/ Exit(t)
  \/ \E t \in StopTargets : Stop(t)
  \/ StopKill \/ Shutdown \/ Sweep

Spec == Init /\ [][Next]_vars

-----------------------------------------------------------------------------
(* A stream that stop() flagged before its last look at the flag never     *)
(* answers as if it had run its course: the check after the loop catches   *)
(* a flag that made the loop end by killing the process.                   *)
StopHonoured ==
  \A t \in heard \cap Streaming : answer[t] \notin {"ok", "failed", "timeout"}

(* A session's process that still runs can be reached: through the table   *)
(* of sessions, or by the thread that is opening or closing it.  Reaping   *)
(* by two threads at once leaves no process behind.  Nor does shutdown of  *)
(* those it listed, once main has returned, but for one that a close task  *)
(* had taken and not yet killed; a session whose open was under way beside *)
(* shutdown is not listed, and outlives it (executor_v2.py:966 promises to *)
(* close every one).                                                       *)
NothingUnreachable ==
  \A s \in Opening \cap alive :
    \/ s \in sessions /\ (Up \/ s \notin listed)
    \/ \E w \in Thread : pc[w] = "insert" /\ job[w] = s
    \/ \E w \in Thread : pc[w] = "shut" /\ Session[job[w]] = s

\* The threads that may find themselves in _exec_session_open.
Openers ==
  {w \in Thread : \E t \in Opening :
     CASE w \in Local -> t \notin Via
       [] w \in Remote -> t \in Via
       [] OTHER -> "confirm" \in Verdicts[t]}

(* The cap is looked at before the session is inserted: it can be exceeded *)
(* by the opens that were under way together, and by no more.              *)
SessionsBounded ==
  sessions # {} => Cardinality(sessions) <= MaxSessions + Cardinality(Openers) - 1

(* A remote call that no other remote call overlapped, and no chunk of a   *)
(* local stream fell into, sent its client exactly one final frame once it *)
(* is over, whether the kind streams or not, ended, was cut or was parked; *)
(* calls that did overlap before it and left a stale sink do not matter.   *)
FinalFrame ==
  \A t \in Via \ crossed :
    /\ finals[t] <= 1
    /\ (answer[t] \notin {"absent", "none"} /\ \A r \in Remote : job[r] # t) => finals[t] = 1
=============================================================================
