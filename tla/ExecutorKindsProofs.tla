------------------------- MODULE ExecutorKindsProofs -------------------------
(***************************************************************************)
(* The executor's kinds, for any number of threads, tasks, sessions, files *)
(* and jobs, whatever the policy says and whenever stop and shutdown come. *)
(*                                                                         *)
(* Who holds a task and at which place of which kind's method (Shape) is   *)
(* proved first; the properties of streams, sessions and the sink rest on  *)
(* it.  The file kinds share no variable with them; their part follows,    *)
(* with what it needs to know of recursion and of sequences.               *)
(***************************************************************************)
EXTENDS ExecutorKinds, FiniteSetTheorems, SequenceTheorems, TLAPS

\* The places of each kind's method, in which its task has no answer yet.
PlacesOf(k) ==
  CASE k = "stream" -> {"launch", "register", "pump", "recheck", "finish", "clear"}
    [] k = "open" -> {"reap", "close", "forget", "drop", "spawn", "insert", "register"}
    [] k = "write" -> {"reap", "close", "forget", "drop", "get", "type"}
    [] k = "close" -> {"pop", "shut", "unlist"}

Resting == {"idle", "sweep", "down"}
MainOnly == {"stop", "sweep", "down"}
Working == Place \ (Resting \cup MainOnly \cup {"restore"})

\* Which tasks may reach a thread.
Reaches(w, t) ==
  /\ w \in Local => t \notin Via
  /\ w \in Remote => t \in Via
  /\ w = Main => "confirm" \in Verdicts[t]

Shape ==
  /\ \A w \in Thread : pc[w] \in Resting <=> job[w] = NoTask
  /\ \A w \in Thread : pc[w] \in MainOnly => w = Main
  /\ \A w \in Thread : pc[w] \in Working =>
       pc[w] \in PlacesOf(Kind[job[w]]) /\ answer[job[w]] = "none"
  /\ \A w \in Thread : pc[w] = "restore" =>
       w \in Remote /\ answer[job[w]] \notin {"absent", "none"}
  /\ \A w \in Thread : pc[w] \in Working \cup {"restore"} => Reaches(w, job[w])
  /\ \A w, v \in Thread :
       pc[w] \in Working \cup {"restore"} /\ pc[v] \in Working \cup {"restore"}
         /\ job[w] = job[v] => w = v
  /\ \A t \in Task : answer[t] = "parked" =>
       "confirm" \in Verdicts[t] /\ Kind[t] \in {"stream", "open"}

\* What a step of a working thread does to its own place, task and answer.
Final == Answer \ {"absent", "none", "parked"}

Moves(w) ==
  /\ Up /\ pc[w] \in Working
  /\ \/ \E p \in PlacesOf(Kind[job[w]]) : Go(w, p) /\ UNCHANGED <<job, answer>>
     \/ \E a \in Final : Return(w, job[w], a)

-----------------------------------------------------------------------------
\* The four kinds, and the places of their methods.
LEMMA Kinds ==
  /\ \A t \in Task : Kind[t] \in {"stream", "open", "write", "close"}
  /\ \A t \in Task : PlacesOf(Kind[t]) \subseteq Working
  /\ \A t \in Task : First(Kind[t]) \in PlacesOf(Kind[t])
  /\ Working \subseteq Place
<1>1. \A t \in Task : Kind[t] \in {"stream", "open", "write", "close"}
  BY ExecutorAssumption
<1> QED
  BY <1>1 DEF PlacesOf, Working, Place, BeforeRecheck, Resting, MainOnly, First

\* Each step of a method stays in the method, or answers.
LEMMA StepMoves ==
  ASSUME TypeOK, Shape, NEW w \in Thread, Step(w)
  PROVE  Moves(w)
<1> DEFINE k == Kind[job[w]]
<1>1. job[w] \in Task \cup {NoTask} /\ pc[w] \in Place
  BY DEF TypeOK
<1>2. pc[w] \in Working => job[w] \in Task /\ k \in {"stream", "open", "write", "close"} /\ pc[w] \in PlacesOf(k)
  BY <1>1, Kinds DEF Shape, Working, Resting
<1> USE <1>1, <1>2 DEF Moves, Final, Answer, At, Go, Working, Place, BeforeRecheck, Resting, MainOnly
<1>3. ASSUME Launch(w) \/ Register(w) PROVE Moves(w)
  BY <1>3 DEF Launch, Register, PlacesOf
<1>4. ASSUME Pump(w) \/ Recheck(w) \/ Finish(w) PROVE Moves(w)
  BY <1>4 DEF Pump, Recheck, Finish, PlacesOf
<1>5. ASSUME Clear(w) PROVE Moves(w)
  BY <1>5 DEF Clear, PlacesOf
<1>6. ASSUME Reap(w) \/ ReapClose(w) PROVE Moves(w)
  BY <1>6 DEF Reap, ReapClose, AfterReap, PlacesOf
<1>7. ASSUME ReapForget(w) \/ ReapDrop(w) PROVE Moves(w)
  BY <1>7 DEF ReapForget, ReapDrop, AfterReap, PlacesOf
<1>8. ASSUME Spawn(w) \/ Insert(w) PROVE Moves(w)
  BY <1>8 DEF Spawn, Insert, PlacesOf
<1>9. ASSUME Get(w) \/ Type(w) PROVE Moves(w)
  BY <1>9 DEF Get, Type, PlacesOf
<1>10. ASSUME Pop(w) \/ Shut(w) \/ Unlist(w) PROVE Moves(w)
  BY <1>10 DEF Pop, Shut, Unlist, PlacesOf
<1> QED
  BY <1>3, <1>4, <1>5, <1>6, <1>7, <1>8, <1>9, <1>10 DEF Step

\* Going on in one's own method keeps the shape.
LEMMA MovesKeep ==
  ASSUME TypeOK, Shape, NEW w \in Thread, Moves(w)
  PROVE  Shape'
<1> DEFINE k == Kind[job[w]]
<1>1. /\ pc \in [Thread -> Place] /\ job \in [Thread -> Task \cup {NoTask}]
      /\ answer \in [Task -> Answer]
      /\ pc[w] \in Working /\ job[w] \in Task /\ answer[job[w]] = "none"
      /\ pc[w] \in PlacesOf(k)
  BY DEF TypeOK, Moves, Shape, Working, Resting
<1>2. CASE \E p \in PlacesOf(k) : Go(w, p) /\ UNCHANGED <<job, answer>>
  <2>1. PICK p \in PlacesOf(k) : Go(w, p) /\ UNCHANGED <<job, answer>>
    BY <1>2
  <2>2. p \in Working /\ p \notin Resting \cup MainOnly \cup {"restore"}
    BY <1>1, Kinds DEF Working
  <2>3. pc'[w] = p /\ \A v \in Thread \ {w} : pc'[v] = pc[v]
    BY <1>1, <2>1 DEF Go
  <2>4. pc[w] \notin Resting \cup MainOnly \cup {"restore"}
    BY <1>1 DEF Working
  <2>5. \A v \in Thread :
          /\ pc'[v] \in Working <=> pc[v] \in Working
          /\ pc'[v] \in Resting <=> pc[v] \in Resting
          /\ pc'[v] \in MainOnly <=> pc[v] \in MainOnly
          /\ pc'[v] = "restore" <=> pc[v] = "restore"
    BY <1>1, <2>2, <2>3, <2>4
  <2>6. \A v \in Thread : pc'[v] \in Working => pc'[v] \in PlacesOf(Kind[job[v]])
    BY <2>3, <2>5 DEF Shape
  <2> HIDE DEF k
  <2> QED
    BY <2>1, <2>5, <2>6 DEF Shape, Reaches
<1>3. CASE \E a \in Final : Return(w, job[w], a)
  <2>1. PICK a \in Final : Return(w, job[w], a)
    BY <1>3
  <2>2. /\ answer'[job[w]] = a /\ a \notin {"absent", "none", "parked"}
        /\ \A t \in Task \ {job[w]} : answer'[t] = answer[t]
        /\ \A v \in Thread \ {w} : pc'[v] = pc[v] /\ job'[v] = job[v]
    BY <1>1, <2>1 DEF Return, Go, Final
  <2>3. \/ w \in Remote /\ pc'[w] = "restore" /\ job'[w] = job[w]
        \/ w \notin Remote /\ pc'[w] = "idle" /\ job'[w] = NoTask
    BY <1>1, <2>1 DEF Return, Go
  <2>4. \A v \in Thread \ {w} : pc[v] \in Working \cup {"restore"} => job[v] # job[w]
    BY <1>1 DEF Shape
  <2>5. NoTask \notin Task
    BY ExecutorAssumption
  <2>6. \A v \in Thread : pc[v] \in Working \cup {"restore"} => job[v] \in Task
    BY <1>1 DEF Shape, Working, Resting
  <2> QED
    BY <1>1, <2>2, <2>3, <2>4, <2>5, <2>6 DEF Shape, Reaches, Working, Resting, MainOnly
<1> QED
  BY <1>2, <1>3 DEF Moves

\* A thread that takes a task nobody holds, at the first place of its method.
LEMMA TakesKeep ==
  ASSUME TypeOK, Shape, NEW w \in Thread, NEW t \in Task,
         pc[w] = "idle", ~Held(t), Reaches(w, t),
         pc' = [pc EXCEPT ![w] = First(Kind[t])], job' = [job EXCEPT ![w] = t],
         answer' = [answer EXCEPT ![t] = "none"]
  PROVE  Shape'
<1> DEFINE p == First(Kind[t])
<1>1. /\ pc \in [Thread -> Place] /\ job \in [Thread -> Task \cup {NoTask}]
      /\ answer \in [Task -> Answer] /\ t # NoTask
  BY ExecutorAssumption DEF TypeOK
<1>2. p \in Working /\ p \in PlacesOf(Kind[t]) /\ p \notin Resting \cup MainOnly \cup {"restore"}
  BY Kinds DEF Working
<1>3. /\ pc'[w] = p /\ job'[w] = t /\ answer'[t] = "none"
      /\ \A v \in Thread \ {w} : pc'[v] = pc[v] /\ job'[v] = job[v]
      /\ \A u \in Task \ {t} : answer'[u] = answer[u]
  BY <1>1
<1>4. \A v \in Thread : pc[v] \in Working \cup {"restore"} => job[v] # t
  BY DEF Held, Working, MainOnly
<1>5. \A v \in Thread : pc[v] \in Working \cup {"restore"} => job[v] \in Task
  BY <1>1 DEF Shape, Working, Resting
<1> HIDE DEF p
<1> QED
  BY <1>1, <1>2, <1>3, <1>4, <1>5 DEF Shape, Reaches

\* The other steps that touch a thread's place.
LEMMA RunKeeps ==
  ASSUME TypeOK, Shape, NEW w \in Thread, NEW t \in Task, Run(w, t)
  PROVE  Shape'
<1>1. /\ pc \in [Thread -> Place] /\ job \in [Thread -> Task \cup {NoTask}]
      /\ answer \in [Task -> Answer] /\ t # NoTask
      /\ pc[w] = "idle" /\ answer[t] = "none" /\ ~Held(t) /\ w # Main
      /\ t \in Via <=> w \in Remote
      /\ Local \cap Remote = {} /\ w \in Local \cup Remote
  BY ExecutorAssumption DEF TypeOK, Run, At, Thread
<1>2. Reaches(w, t)
  BY <1>1 DEF Reaches
<1>3. CASE Go(w, First(Kind[t])) /\ job' = [job EXCEPT ![w] = t] /\ UNCHANGED answer
  <2>1. answer' = [answer EXCEPT ![t] = "none"]
    BY <1>1, <1>3
  <2> QED
    BY <1>1, <1>2, <1>3, <2>1, TakesKeep DEF Go
<1>4. ASSUME NEW a \in {"cancelled", "block", "parked"},
             a = "parked" => "confirm" \in Verdicts[t] /\ Kind[t] \in {"stream", "open"},
             answer' = [answer EXCEPT ![t] = a],
             IF w \in Remote THEN Go(w, "restore") /\ job' = [job EXCEPT ![w] = t]
                             ELSE UNCHANGED <<pc, job>>
      PROVE  Shape'
  <2>1. \A v \in Thread : pc[v] \in Working \cup {"restore"} => job[v] # t /\ job[v] \in Task
    BY <1>1 DEF Shape, Held, Working, MainOnly, Resting
  <2>2. /\ answer'[t] = a /\ a \notin {"absent", "none"}
        /\ \A u \in Task \ {t} : answer'[u] = answer[u]
    BY <1>1, <1>4
  <2>3. CASE w \in Remote
    <3>1. pc'[w] = "restore" /\ job'[w] = t /\ \A v \in Thread \ {w} : pc'[v] = pc[v] /\ job'[v] = job[v]
      BY <1>1, <1>4, <2>3 DEF Go
    <3> QED
      BY <1>1, <1>2, <1>4, <2>1, <2>2, <2>3, <3>1 DEF Shape, Reaches, Working, Resting, MainOnly
  <2>4. CASE w \notin Remote
    <3>1. pc' = pc /\ job' = job
      BY <1>4, <2>4
    <3> QED
      BY <1>1, <1>4, <2>1, <2>2, <3>1 DEF Shape, Reaches
  <2> QED
    BY <2>3, <2>4
<1>5. CASE t \in cancelled
  BY <1>4, <1>5 DEF Run
<1>6. CASE t \notin cancelled
  <2>1. PICK v \in Verdicts[t] :
          IF v = "block" \/ (v = "confirm" /\ Kind[t] \in {"stream", "open"})
            THEN /\ answer' = [answer EXCEPT ![t] = IF v = "block" THEN "block" ELSE "parked"]
                 /\ IF w \in Remote THEN Go(w, "restore") /\ job' = [job EXCEPT ![w] = t]
                                    ELSE UNCHANGED <<pc, job>>
            ELSE Go(w, First(Kind[t])) /\ job' = [job EXCEPT ![w] = t] /\ UNCHANGED answer
    BY <1>6 DEF Run
  <2> DEFINE a == IF v = "block" THEN "block" ELSE "parked"
  <2>2. CASE v = "block" \/ (v = "confirm" /\ Kind[t] \in {"stream", "open"})
    <3>1. a \in {"cancelled", "block", "parked"}
      OBVIOUS
    <3>2. a = "parked" => "confirm" \in Verdicts[t] /\ Kind[t] \in {"stream", "open"}
      BY <2>2
    <3>3. answer' = [answer EXCEPT ![t] = a]
      BY <2>1, <2>2
    <3> QED
      BY <1>4, <2>1, <2>2, <3>1, <3>2, <3>3
  <2> QED
    BY <1>3, <2>1, <2>2
<1> QED
  BY <1>5, <1>6

\* So does handing a parked task to the main thread ...
LEMMA ResumeKeeps ==
  ASSUME TypeOK, Shape, NEW t \in Task, Resume(t)
  PROVE  Shape'
<1>1. /\ pc \in [Thread -> Place] /\ job \in [Thread -> Task \cup {NoTask}]
      /\ answer \in [Task -> Answer] /\ Main \in Thread /\ Main \notin Local \cup Remote
      /\ pc[Main] = "idle" /\ answer[t] = "parked" /\ ~Held(t)
  BY ExecutorAssumption DEF TypeOK, Resume, At, Thread
<1>2. CASE answer' = [answer EXCEPT ![t] = "denied"] /\ UNCHANGED <<pc, job>>
  <2>1. answer'[t] = "denied" /\ \A u \in Task \ {t} : answer'[u] = answer[u]
    BY <1>1, <1>2
  <2>2. \A v \in Thread : pc[v] \in Working \cup {"restore"} => job[v] # t /\ job[v] \in Task
    BY <1>1 DEF Shape, Held, Working, MainOnly, Resting
  <2> QED
    BY <1>2, <2>1, <2>2 DEF Shape, Reaches
<1>3. CASE /\ answer' = [answer EXCEPT ![t] = "none"]
           /\ Go(Main, First(Kind[t])) /\ job' = [job EXCEPT ![Main] = t]
  <2>1. Reaches(Main, t)
    BY <1>1 DEF Reaches, Shape
  <2> QED
    BY <1>1, <1>3, <2>1, TakesKeep DEF Go
<1> QED
  BY <1>2, <1>3 DEF Resume

\* ... and whatever changes no thread's task.
LEMMA RestKeeps ==
  ASSUME TypeOK, Shape,
         \/ \E w \in Remote : Restore(w)
         \/ \E t \in Task : Stop(t) \/ Exit(t)
         \/ StopKill \/ Shutdown \/ Sweep
         \/ UNCHANGED vars
  PROVE  Shape'
<1>1. /\ pc \in [Thread -> Place] /\ job \in [Thread -> Task \cup {NoTask}]
      /\ Main \in Thread /\ Main \notin Local \cup Remote /\ Remote \subseteq Thread /\ NoTask \notin Task
  BY ExecutorAssumption DEF TypeOK, Thread
<1>2. ASSUME UNCHANGED <<pc, job, answer>> PROVE Shape'
  BY <1>2 DEF Shape, Reaches
<1>3. ASSUME NEW w \in Thread, NEW p, NEW t,
             w = Main \/ p = "idle", p \in Resting \/ p = "stop", p \in Resting <=> t = NoTask,
             pc' = [pc EXCEPT ![w] = p], job' = [job EXCEPT ![w] = t], UNCHANGED answer
      PROVE  Shape'
  <2>1. pc'[w] = p /\ job'[w] = t /\ \A v \in Thread \ {w} : pc'[v] = pc[v] /\ job'[v] = job[v]
    BY <1>1, <1>3
  <2>2. p \notin Working \cup {"restore"} /\ (p = "idle" => p \notin MainOnly)
    BY <1>3 DEF Working, Resting, MainOnly
  <2> QED
    BY <1>3, <2>1, <2>2 DEF Shape, Reaches
<1>4. ASSUME NEW w \in Remote, Restore(w) PROVE Shape'
  BY <1>1, <1>3, <1>4 DEF Restore, Go, Resting
<1>5. ASSUME NEW t \in Task, Stop(t) PROVE Shape'
  <2>1. CASE t \in running
    BY <1>1, <1>3, <1>5, <2>1 DEF Stop, Go, Resting
  <2>2. CASE t \notin running
    BY <1>2, <1>5, <2>2 DEF Stop
  <2> QED
    BY <2>1, <2>2
<1>6. CASE StopKill
  BY <1>1, <1>3, <1>6 DEF StopKill, Go, Resting
<1>7. ASSUME Shutdown \/ Sweep PROVE Shape'
  <2>1. job[Main] = NoTask
    BY <1>1, <1>7 DEF Shape, Shutdown, Sweep, At, Resting
  <2>2. job' = [job EXCEPT ![Main] = NoTask] /\ UNCHANGED answer
    BY <1>1, <1>7, <2>1 DEF Shutdown, Sweep
  <2>3. \/ pc' = [pc EXCEPT ![Main] = "sweep"] \/ pc' = [pc EXCEPT ![Main] = "down"]
        \/ pc' = pc /\ job' = job
    BY <1>7 DEF Shutdown, Sweep, Go
  <2> QED
    BY <1>1, <1>2, <1>3, <2>2, <2>3 DEF Resting
<1>8. ASSUME NEW t \in Task, Exit(t) PROVE Shape'
  BY <1>2, <1>8 DEF Exit, callVars
<1>9. CASE UNCHANGED vars
  BY <1>2, <1>9 DEF vars, callVars
<1> QED
  BY <1>4, <1>5, <1>6, <1>7, <1>8, <1>9

\* So every step keeps it.
LEMMA ShapeStep ==
  ASSUME TypeOK, Shape, [Next]_vars
  PROVE  Shape'
  BY StepMoves, MovesKeep, RunKeeps, ResumeKeeps, RestKeeps, ExecutorAssumption DEF Next

\* What each place says of the kind of the task.
LEMMA KindAt ==
  ASSUME TypeOK, Shape, NEW w \in Thread
  PROVE  /\ pc[w] \in Working => job[w] \in Task
         /\ pc[w] \in {"launch", "pump", "recheck", "finish", "clear"} => job[w] \in Streaming
         /\ pc[w] \in {"spawn", "insert"} => job[w] \in Opening
         /\ pc[w] = "register" => job[w] \in Streaming \cup Opening
         /\ pc[w] \in {"reap", "close", "forget", "drop"} => Kind[job[w]] \in {"open", "write"}
         /\ pc[w] \in {"pop", "shut", "unlist"} => Kind[job[w]] = "close"
         /\ pc[w] \in {"get", "type"} => Kind[job[w]] = "write"
<1>1. pc[w] \in Working => job[w] \in Task
  BY DEF TypeOK, Shape, Working, Resting
<1>2. pc[w] \in Working => pc[w] \in PlacesOf(Kind[job[w]])
  BY DEF Shape
<1>3. pc[w] \in Working => Kind[job[w]] \in {"stream", "open", "write", "close"}
  BY <1>1, Kinds
<1> QED
  BY <1>1, <1>2, <1>3 DEF PlacesOf, Working, Place, BeforeRecheck, Resting, MainOnly, Streaming, Opening

\* Types and shape at first.
LEMMA TypingInit == Init => TypeOK /\ Shape
<1> SUFFICES ASSUME Init PROVE TypeOK /\ Shape
  OBVIOUS
<1>1. PICK b \in Batches : answer = [t \in Task |-> IF t \in b THEN "none" ELSE "absent"]
  BY DEF Init
<1>2. TypeOK
  BY <1>1, ExecutorAssumption DEF Init, TypeOK, Place, BeforeRecheck, Answer
<1>3. \A w \in Thread : pc[w] = "idle" /\ job[w] = NoTask
  BY DEF Init
<1>4. \A t \in Task : answer[t] # "parked"
  BY <1>1
<1> QED
  BY <1>2, <1>3, <1>4 DEF Shape, Working, Resting, MainOnly

\* Places, tasks and answers stay in their sets.
LEMMA CallTyping ==
  ASSUME TypeOK, Shape, NEW w \in Thread, Moves(w)
  PROVE  /\ pc' \in [Thread -> Place] /\ job' \in [Thread -> Task \cup {NoTask}]
         /\ answer' \in [Task -> Answer]
<1>1. /\ pc \in [Thread -> Place] /\ job \in [Thread -> Task \cup {NoTask}]
      /\ answer \in [Task -> Answer] /\ job[w] \in Task
  BY KindAt DEF TypeOK, Moves
<1>2. \A p \in PlacesOf(Kind[job[w]]) : p \in Place
  BY <1>1, Kinds
<1>3. {"restore", "idle"} \subseteq Place
  BY DEF Place
<1> QED
  BY <1>1, <1>2, <1>3 DEF Moves, Return, Go, Final

\* A thread's step keeps the types ...
LEMMA StepTyping ==
  ASSUME TypeOK, Shape, NEW w \in Thread, Step(w)
  PROVE  TypeOK'
<1>1. /\ pc' \in [Thread -> Place] /\ job' \in [Thread -> Task \cup {NoTask}]
      /\ answer' \in [Task -> Answer]
  BY StepMoves, CallTyping
<1>2. /\ pc[w] \in Working => job[w] \in Task
      /\ pc[w] = "insert" => job[w] \in Opening
  BY KindAt
<1>3. pc[w] \in Working
  BY StepMoves DEF Moves
<1> USE <1>1, <1>2, <1>3 DEF TypeOK, tableVars, sinkVars, At
<1>4. ASSUME NEW t \in Task, EmitFinal(t)
      PROVE  /\ sink' \in Task \cup {NoTask} /\ saved' \in [Remote -> Task \cup {NoTask}]
             /\ finals' \in [Task -> Nat] /\ crossed' \subseteq Task
  BY <1>4 DEF EmitFinal
<1>5. ASSUME Launch(w) PROVE TypeOK'
  BY <1>4, <1>5 DEF Launch
<1>6. ASSUME Register(w) \/ Pump(w) \/ Recheck(w) \/ Finish(w) PROVE TypeOK'
  BY <1>6 DEF Register, Pump, Recheck, Finish
<1>7. ASSUME Clear(w) PROVE TypeOK'
  BY <1>4, <1>7 DEF Clear
<1>8. ASSUME Reap(w) \/ ReapClose(w) \/ ReapForget(w) \/ ReapDrop(w) PROVE TypeOK'
  BY <1>8 DEF Reap, ReapClose, ReapForget, ReapDrop
<1>9. ASSUME Spawn(w) \/ Insert(w) PROVE TypeOK'
  BY <1>9 DEF Spawn, Insert
<1>10. ASSUME Get(w) \/ Type(w) \/ Pop(w) \/ Shut(w) \/ Unlist(w) PROVE TypeOK'
  BY <1>10 DEF Get, Type, Pop, Shut, Unlist
<1> QED
  BY <1>5, <1>6, <1>7, <1>8, <1>9, <1>10 DEF Step

\* ... and so does every other step.
LEMMA TypingStep ==
  ASSUME TypeOK, Shape, [Next]_vars
  PROVE  TypeOK'
<1>1. /\ Main \in Thread /\ Remote \subseteq Thread /\ StopTargets \subseteq Task
      /\ \A t \in Task : First(Kind[t]) \in Place
  BY ExecutorAssumption, Kinds DEF Thread
<1> USE <1>1 DEF TypeOK, tableVars, sinkVars, callVars, At, Go, Place
<1>2. ASSUME NEW w \in Thread, NEW t \in Task, Run(w, t) PROVE TypeOK'
  <2>1. /\ sink' \in Task \cup {NoTask} /\ saved' \in [Remote -> Task \cup {NoTask}]
        /\ finals' \in [Task -> Nat] /\ crossed' \subseteq Task
    <3>1. \A r \in Remote : job[r] \in Task \cup {NoTask}
      OBVIOUS
    <3>2. CASE w \in Remote
      <4> DEFINE under == {job[r] : r \in Remote} \ {NoTask}
      <4>1. TakeSink(w, t)
        BY <1>2, <3>2 DEF Run
      <4>2. under \subseteq Task
        BY <3>1
      <4>3. crossed' = crossed \/ crossed' = crossed \cup under \cup {t}
        BY <4>1 DEF TakeSink
      <4>4. sink' = t /\ saved' = [saved EXCEPT ![w] = sink] /\ finals' = finals
        BY <4>1 DEF TakeSink
      <4> QED
        BY <3>2, <4>2, <4>3, <4>4
    <3>3. CASE w \notin Remote
      BY <1>2, <3>3 DEF Run
    <3> QED
      BY <3>2, <3>3
  <2>2. /\ pc' \in [Thread -> Place] /\ job' \in [Thread -> Task \cup {NoTask}]
    BY <1>2 DEF Run
  <2>3. answer' \in [Task -> Answer] /\ cancelled' \subseteq Task
    BY <1>2 DEF Run, Answer
  <2> QED
    BY <1>2, <2>1, <2>2, <2>3 DEF Run
<1>3. ASSUME NEW t \in Task, Resume(t) PROVE TypeOK'
  BY <1>3 DEF Resume, Answer
<1>4. ASSUME NEW w \in Remote, Restore(w) PROVE TypeOK'
  <2>1. job[w] \in Task
    BY <1>4 DEF Restore, Shape, Resting
  <2> QED
    BY <1>4, <2>1 DEF Restore
<1>5. ASSUME NEW t \in Task, Stop(t) \/ Exit(t) PROVE TypeOK'
  BY <1>5 DEF Stop, Exit
<1>6. CASE StopKill
  BY <1>6 DEF StopKill
<1>7. CASE Shutdown
  BY <1>7 DEF Shutdown
<1>8. CASE Sweep
  BY <1>8 DEF Sweep
<1>9. CASE UNCHANGED vars
  BY <1>9 DEF vars
<1> QED
  BY <1>2, <1>3, <1>4, <1>5, <1>6, <1>7, <1>8, <1>9, StepTyping DEF Next

-----------------------------------------------------------------------------
(* Sessions *)

\* A session is named by its opening task, which opens it once: before, the
\* task is young and nobody can have come across the session.
Young(t) ==
  /\ answer[t] \in {"absent", "none", "parked"}
  /\ \A w \in Thread : pc[w] = "register" => job[w] # t

\* What a thread closes it took from the table, and what it goes on to drop
\* from the table it has killed, or another thread took it away meanwhile.
SessionsKnown ==
  /\ \A s \in sessions : ~Young(s)
  /\ \A w \in Thread : \A s \in doomed[w] : ~Young(s)
  /\ \A w \in Thread : pc[w] \in {"close", "forget", "drop"} => doomed[w] # {}
  /\ \A w \in Thread : pc[w] \in {"forget", "drop"} => Victim(w) \notin sessions \cap alive

\* A live process is in the table, or with the thread that opens or closes it.
InReach ==
  \A s \in Opening \cap alive :
    \/ s \in sessions
    \/ \E w \in Thread : pc[w] = "insert" /\ job[w] = s
    \/ \E w \in Thread : pc[w] = "shut" /\ Session[job[w]] = s

\* Of what shutdown has listed, the table has what it still has to close.
ListedGoes ==
  /\ \A s \in listed : ~Young(s)
  /\ \A s \in listed \cap sessions \cap alive : pc[Main] = "sweep" /\ s \in doomed[Main]

\* Once opened, a session is never young again.
LEMMA YoungShrinks ==
  ASSUME TypeOK, Shape, [Next]_vars, NEW s \in Opening, Young(s)'
  PROVE  Young(s)
<1>1. /\ pc \in [Thread -> Place] /\ job \in [Thread -> Task \cup {NoTask}]
      /\ answer \in [Task -> Answer] /\ s \in Task /\ Kind[s] = "open" /\ NoTask \notin Task
  BY ExecutorAssumption DEF TypeOK, Opening
<1>2. SUFFICES /\ answer[s] \in {"absent", "none", "parked"}
               /\ \A w \in Thread : pc[w] = "register" /\ job[w] = s =>
                    answer'[s] \in Final \/ (pc'[w] = "register" /\ job'[w] = s)
  BY DEF Young, Final
<1>3. answer'[s] \notin Final
  BY DEF Young, Final
<1>4. ASSUME UNCHANGED <<pc, job, answer>> PROVE <1>2!1
  BY <1>3, <1>4 DEF Young
<1>5. ASSUME NEW w \in Thread, Step(w) PROVE <1>2!1
  <2>1. Moves(w) /\ job[w] \in Task /\ pc[w] \in Working /\ answer[job[w]] = "none"
    BY <1>5, StepMoves, KindAt DEF Moves, Shape
  <2>2. answer[s] \in {"absent", "none", "parked"}
    <3>1. s # job[w] => answer'[s] = answer[s]
      BY <1>1, <2>1 DEF Moves, Return
    <3> QED
      BY <2>1, <3>1 DEF Young
  <2>3. ASSUME NEW v \in Thread, pc[v] = "register", job[v] = s, v # w
        PROVE  pc'[v] = "register" /\ job'[v] = s
    BY <1>1, <2>1, <2>3 DEF Moves, Return, Go
  <2>4. ASSUME pc[w] = "register", job[w] = s
        PROVE  answer'[s] \in Final
    <3>1. Register(w)
      BY <1>5, <2>4 DEF Step, Launch, Pump, Recheck, Finish, Clear, Reap, ReapClose, ReapForget,
                        ReapDrop, Spawn, Insert, Get, Type, Pop, Shut, Unlist, At
    <3>2. Return(w, s, "ok")
      BY <1>1, <2>4, <3>1 DEF Register
    <3> QED
      BY <1>1, <3>2 DEF Return, Final, Answer
  <2> QED
    BY <2>2, <2>3, <2>4
<1>6. ASSUME NEW w \in Thread, NEW t \in Task, Run(w, t) PROVE <1>2!1
  <2>1. pc[w] = "idle" /\ answer[t] = "none"
    BY <1>6 DEF Run, At
  <2>2. \A v \in Thread \ {w} : pc'[v] = pc[v] /\ job'[v] = job[v]
    BY <1>1, <1>6 DEF Run, Go
  <2>3. \A u \in Task \ {t} : answer'[u] = answer[u]
    BY <1>1, <1>6 DEF Run
  <2> QED
    BY <1>1, <1>3, <2>1, <2>2, <2>3 DEF Young
<1>7. ASSUME NEW t \in Task, Resume(t) PROVE <1>2!1
  <2>1. pc[Main] = "idle" /\ answer[t] = "parked"
    BY <1>7 DEF Resume, At
  <2>2. \A v \in Thread \ {Main} : pc'[v] = pc[v] /\ job'[v] = job[v]
    BY <1>1, <1>7 DEF Resume, Go
  <2>3. \A u \in Task \ {t} : answer'[u] = answer[u]
    BY <1>1, <1>7 DEF Resume
  <2> QED
    BY <1>1, <1>3, <2>1, <2>2, <2>3 DEF Young
<1>8. ASSUME NEW w \in Thread, pc[w] # "register", UNCHANGED answer,
             \A v \in Thread \ {w} : pc'[v] = pc[v] /\ job'[v] = job[v]
      PROVE  <1>2!1
  BY <1>3, <1>8 DEF Young
<1>9. ASSUME NEW w \in Remote, Restore(w) PROVE <1>2!1
  BY <1>1, <1>8, <1>9 DEF Restore, At, Go, Thread
<1>10. ASSUME NEW t \in Task, Stop(t) PROVE <1>2!1
  BY <1>1, <1>8, <1>10 DEF Stop, At, Go, Thread
<1>11. ASSUME StopKill \/ Shutdown \/ Sweep PROVE <1>2!1
  BY <1>1, <1>8, <1>11 DEF StopKill, Shutdown, Sweep, At, Go, Thread
<1>12. ASSUME UNCHANGED vars \/ \E t \in Task : Exit(t) PROVE <1>2!1
  BY <1>4, <1>12 DEF vars, callVars, Exit
<1> QED
  BY <1>5, <1>6, <1>7, <1>9, <1>10, <1>11, <1>12, ExecutorAssumption DEF Next

\* Places at which a thread has a session in its hands.
Handling == {"close", "forget", "drop", "insert", "shut"}

\* A step that handles no session.
LEMMA SessionsFrame ==
  ASSUME TypeOK, Shape, SessionsKnown, InReach, [Next]_vars,
         sessions' = sessions, doomed' = doomed, alive' \subseteq alive \cup (Task \ Opening),
         \A w \in Thread : \/ pc'[w] = pc[w] /\ job'[w] = job[w]
                           \/ pc'[w] \notin Handling /\ pc[w] \notin Handling
  PROVE  SessionsKnown' /\ InReach'
<1>1. sessions \subseteq Opening /\ \A w \in Thread : doomed[w] \subseteq Opening
  BY DEF TypeOK
<1>2. \A s \in Opening : Young(s)' => Young(s)
  BY YoungShrinks
<1>3. \A w \in Thread : Victim(w)' = Victim(w)
  BY DEF Victim
<1>4. /\ \A s \in sessions' : ~Young(s)'
      /\ \A w \in Thread : \A s \in doomed'[w] : ~Young(s)'
  BY <1>1, <1>2 DEF SessionsKnown
<1>5. \A w \in Thread : pc'[w] \in {"close", "forget", "drop"} => doomed'[w] # {}
  BY DEF SessionsKnown, Handling
<1>6. ASSUME NEW w \in Thread, pc'[w] \in {"forget", "drop"}
      PROVE  Victim(w)' \notin sessions' \cap alive'
  <2>1. pc[w] \in {"forget", "drop"} /\ Victim(w) \notin sessions \cap alive
    BY <1>6 DEF SessionsKnown, Handling
  <2> QED
    BY <1>1, <1>3, <2>1
<1>7. InReach'
  <2>1. \A s \in Opening \cap alive' : s \in Opening \cap alive
    OBVIOUS
  <2> QED
    BY <2>1 DEF InReach, Handling
<1> QED
  BY <1>4, <1>5, <1>6, <1>7 DEF SessionsKnown

\* The victim a thread is at was listed, and was opened before.
LEMMA VictimListed ==
  ASSUME TypeOK, SessionsKnown, NEW w \in Thread, doomed[w] # {}
  PROVE  Victim(w) \in doomed[w] /\ Victim(w) \in Opening /\ ~Young(Victim(w))
  BY DEF TypeOK, SessionsKnown, Victim

\* Reaping forgets a session only once its process is dead.
LEMMA ReapKeeps ==
  ASSUME TypeOK, Shape, SessionsKnown, InReach, [Next]_vars, NEW w \in Thread,
         Reap(w) \/ ReapClose(w) \/ ReapForget(w) \/ ReapDrop(w)
  PROVE  SessionsKnown' /\ InReach'
<1>1. /\ pc \in [Thread -> Place] /\ job \in [Thread -> Task \cup {NoTask}]
      /\ sessions \subseteq Opening /\ doomed \in [Thread -> SUBSET Opening]
  BY DEF TypeOK
<1>2. \A s \in Opening : Young(s)' => Young(s)
  BY YoungShrinks
<1>3. \A v \in Thread \ {w} :
        /\ pc'[v] = pc[v] /\ job'[v] = job[v] /\ doomed'[v] = doomed[v] /\ Victim(v)' = Victim(v)
  BY <1>1 DEF Reap, ReapClose, ReapForget, ReapDrop, Return, Go, Victim
<1>4. pc[w] \in Working /\ pc[w] \notin {"insert", "shut"} /\ pc'[w] \notin {"insert", "shut"}
  BY <1>1 DEF Reap, ReapClose, ReapForget, ReapDrop, Return, Go, At, AfterReap, Working, Place,
              Resting, MainOnly
<1>5. alive' \subseteq alive /\ sessions' \subseteq sessions
  BY DEF Reap, ReapClose, ReapForget, ReapDrop, tableVars
<1>6. doomed'[w] \subseteq doomed[w] \cup sessions
  BY <1>1 DEF Reap, ReapClose, ReapForget, ReapDrop
<1>7. /\ \A s \in sessions' : ~Young(s)'
      /\ \A v \in Thread : \A s \in doomed'[v] : ~Young(s)'
  BY <1>1, <1>2, <1>3, <1>5, <1>6 DEF SessionsKnown
<1>8. pc'[w] \in {"close", "forget", "drop"} => doomed'[w] # {}
  BY <1>1 DEF Reap, ReapClose, ReapForget, ReapDrop, Return, Go, At, AfterReap, SessionsKnown
<1>9. pc'[w] \in {"forget", "drop"} => Victim(w)' \notin sessions' \cap alive'
  <2>1. CASE Reap(w) \/ ReapDrop(w)
    BY <1>1, <2>1 DEF Reap, ReapDrop, Return, Go, AfterReap
  <2>2. CASE ReapClose(w)
    BY <2>2 DEF ReapClose, Victim
  <2>3. CASE ReapForget(w)
    BY <1>1, <2>3 DEF ReapForget, Return, Go, At, SessionsKnown, Victim
  <2> QED
    BY <2>1, <2>2, <2>3
<1>10. \A v \in Thread \ {w} : pc'[v] \in {"forget", "drop"} => Victim(v)' \notin sessions' \cap alive'
  BY <1>3, <1>5 DEF SessionsKnown
<1>11. InReach'
  <2>1. \A s \in Opening \cap alive' : s \in sessions \ sessions' => FALSE
    <3>1. CASE ReapDrop(w)
      BY <3>1 DEF ReapDrop, At, SessionsKnown
    <3>2. CASE sessions' = sessions
      BY <3>2
    <3> QED
      BY <3>1, <3>2 DEF Reap, ReapClose, ReapForget, tableVars
  <2> QED
    BY <1>3, <1>4, <1>5, <2>1 DEF InReach
<1> QED
  BY <1>3, <1>7, <1>8, <1>9, <1>10, <1>11 DEF SessionsKnown

\* A spawned process is with its thread until it is in the table.
LEMMA OpenKeeps ==
  ASSUME TypeOK, Shape, SessionsKnown, InReach, [Next]_vars, NEW w \in Thread,
         Spawn(w) \/ Insert(w)
  PROVE  SessionsKnown' /\ InReach'
<1> DEFINE t == job[w]
<1>1. /\ pc \in [Thread -> Place] /\ job \in [Thread -> Task \cup {NoTask}]
      /\ sessions \subseteq Opening /\ doomed \in [Thread -> SUBSET Opening]
      /\ answer \in [Task -> Answer]
  BY DEF TypeOK
<1>2. \A s \in Opening : Young(s)' => Young(s)
  BY YoungShrinks
<1>3. pc[w] \in Working /\ pc[w] \in {"spawn", "insert"} /\ t \in Opening /\ answer[t] = "none"
  BY KindAt DEF Spawn, Insert, At, Shape, Working, Place, Resting, MainOnly
<1>4. \A v \in Thread : pc[v] = "register" => job[v] # t
  BY <1>3 DEF Shape, Working, Place, BeforeRecheck, Resting, MainOnly
<1>5. Young(t)
  BY <1>3, <1>4 DEF Young
<1>6. doomed' = doomed /\ \A v \in Thread : Victim(v)' = Victim(v)
  BY DEF Spawn, Insert, Victim
<1>7. /\ \A v \in Thread \ {w} : pc'[v] = pc[v] /\ job'[v] = job[v]
      /\ pc'[w] \notin {"close", "forget", "drop", "shut"}
  BY <1>1, <1>3 DEF Spawn, Insert, Return, Go
<1>8. CASE Spawn(w)
  <2>1. sessions' = sessions /\ alive' \subseteq alive \cup {t}
    BY <1>8 DEF Spawn
  <2>2. t \notin sessions /\ \A v \in Thread : t \notin doomed[v]
    BY <1>5 DEF SessionsKnown
  <2>3. \A v \in Thread : pc'[v] \in {"forget", "drop"} => Victim(v)' \notin sessions' \cap alive'
    BY <1>6, <1>7, <2>1, <2>2 DEF SessionsKnown
  <2>4. t \in alive' \ alive => pc'[w] = "insert" /\ job'[w] = t
    BY <1>1, <1>8 DEF Spawn, Go
  <2>5. InReach'
    BY <1>3, <1>7, <1>8, <2>1, <2>4 DEF InReach, Spawn, At
  <2> QED
    BY <1>1, <1>2, <1>6, <1>7, <2>1, <2>3, <2>5 DEF SessionsKnown
<1>9. CASE Insert(w)
  <2>1. sessions' = sessions \cup {t} /\ alive' = alive /\ pc'[w] = "register" /\ job' = job
    BY <1>1, <1>9 DEF Insert, Go
  <2>2. ~Young(t)'
    BY <2>1 DEF Young
  <2>3. \A v \in Thread : t \notin doomed[v]
    BY <1>5 DEF SessionsKnown
  <2>4. \A v \in Thread : pc'[v] \in {"forget", "drop"} => Victim(v)' \notin sessions' \cap alive'
    <3> SUFFICES ASSUME NEW v \in Thread, pc'[v] \in {"forget", "drop"}
                 PROVE  Victim(v) \notin sessions' \cap alive'
      BY <1>6
    <3>1. pc[v] \in {"forget", "drop"}
      BY <1>7, <2>1
    <3>2. Victim(v) # t /\ Victim(v) \notin sessions \cap alive
      BY <3>1, <1>5, VictimListed DEF SessionsKnown
    <3> QED
      BY <2>1, <3>2
  <2>5. InReach'
    BY <1>7, <1>9, <2>1 DEF InReach, Insert, At
  <2>6. \A s \in sessions' : ~Young(s)'
    BY <1>1, <1>2, <2>1, <2>2 DEF SessionsKnown
  <2> QED
    BY <1>1, <1>2, <1>6, <1>7, <2>4, <2>5, <2>6 DEF SessionsKnown
<1> QED
  BY <1>8, <1>9

\* A popped session is with its thread until its process is dead.
LEMMA CloseKeeps ==
  ASSUME TypeOK, Shape, SessionsKnown, InReach, [Next]_vars, NEW w \in Thread,
         Pop(w) \/ Shut(w)
  PROVE  SessionsKnown' /\ InReach'
<1> DEFINE s == Session[job[w]]
<1>1. /\ pc \in [Thread -> Place] /\ job \in [Thread -> Task \cup {NoTask}]
      /\ sessions \subseteq Opening /\ doomed \in [Thread -> SUBSET Opening]
  BY DEF TypeOK
<1>2. \A u \in Opening : Young(u)' => Young(u)
  BY YoungShrinks
<1>3. doomed' = doomed /\ \A v \in Thread : Victim(v)' = Victim(v)
  BY DEF Pop, Shut, Victim
<1>4. /\ \A v \in Thread \ {w} : pc'[v] = pc[v] /\ job'[v] = job[v]
      /\ pc'[w] \notin {"close", "forget", "drop", "insert"}
      /\ pc[w] \in {"pop", "shut"}
  BY <1>1 DEF Pop, Shut, Return, Go, At
<1>5. sessions' \subseteq sessions /\ alive' \subseteq alive
  BY DEF Pop, Shut
<1>6. SessionsKnown'
  BY <1>1, <1>2, <1>3, <1>4, <1>5 DEF SessionsKnown
<1>7. CASE Pop(w)
  <2>1. alive' = alive
    BY <1>7 DEF Pop
  <2>2. \A u \in sessions \ sessions' : pc'[w] = "shut" /\ Session[job'[w]] = u
    BY <1>1, <1>7 DEF Pop, Go
  <2> QED
    BY <1>4, <1>6, <1>7, <2>1, <2>2 DEF InReach, Pop, At
<1>8. CASE Shut(w)
  <2>1. sessions' = sessions /\ alive' = alive \ {s}
    BY <1>8 DEF Shut
  <2> QED
    BY <1>4, <1>6, <1>8, <2>1 DEF InReach, Shut, At
<1> QED
  BY <1>7, <1>8

\* Shutdown kills every process of the table it empties.
LEMMA SweepKeeps ==
  ASSUME TypeOK, Shape, SessionsKnown, InReach, [Next]_vars, Shutdown \/ Sweep
  PROVE  SessionsKnown' /\ InReach'
<1>1. /\ pc \in [Thread -> Place] /\ Main \in Thread
      /\ sessions \subseteq Opening /\ doomed \in [Thread -> SUBSET Opening]
  BY DEF TypeOK, Thread
<1>2. \A s \in Opening : Young(s)' => Young(s)
  BY YoungShrinks
<1>3. /\ \A w \in Thread \ {Main} : pc'[w] = pc[w] /\ doomed'[w] = doomed[w] /\ Victim(w)' = Victim(w)
      /\ job' = job
  BY <1>1 DEF Shutdown, Sweep, Go, Victim
<1>4. pc'[Main] \notin Handling /\ pc[Main] \notin Handling
  BY <1>1 DEF Shutdown, Sweep, Go, At, Handling
<1>5. doomed'[Main] \subseteq doomed[Main] \cup sessions
  BY <1>1 DEF Shutdown, Sweep
<1>6. sessions' \subseteq sessions /\ alive' \subseteq alive /\ alive' \cap (sessions \ sessions') = {}
  BY DEF Shutdown, Sweep, tableVars
<1>7. SessionsKnown'
  <2>1. \A s \in sessions' : ~Young(s)'
    BY <1>1, <1>2, <1>6 DEF SessionsKnown
  <2>2. \A w \in Thread : \A s \in doomed'[w] : ~Young(s)'
    BY <1>1, <1>2, <1>3, <1>5 DEF SessionsKnown
  <2>3. \A w \in Thread : pc'[w] \in {"close", "forget", "drop"} =>
          doomed'[w] # {} /\ (pc'[w] # "close" => Victim(w)' \notin sessions' \cap alive')
    BY <1>3, <1>4, <1>6 DEF SessionsKnown, Handling
  <2> QED
    BY <2>1, <2>2, <2>3 DEF SessionsKnown
<1>8. InReach'
  BY <1>3, <1>4, <1>6 DEF InReach, Handling
<1> QED
  BY <1>7, <1>8

\* So no step loses a live process.
LEMMA SessionsStep ==
  ASSUME TypeOK, Shape, SessionsKnown, InReach, [Next]_vars
  PROVE  SessionsKnown' /\ InReach'
<1>1. /\ pc \in [Thread -> Place] /\ job \in [Thread -> Task \cup {NoTask}]
      /\ Main \in Thread /\ Remote \subseteq Thread
  BY DEF TypeOK, Thread
<1>2. \A t \in Task : First(Kind[t]) \notin Handling
  BY Kinds DEF First, Handling
<1>3. Streaming \cap Opening = {} /\ Streaming \subseteq Task
  BY DEF Streaming, Opening
<1>4. ASSUME NEW w \in Thread,
             Launch(w) \/ Register(w) \/ Pump(w) \/ Recheck(w) \/ Finish(w) \/ Clear(w)
      PROVE  SessionsKnown' /\ InReach'
  <2>1. /\ pc[w] \notin Handling /\ pc'[w] \notin Handling
        /\ \A v \in Thread \ {w} : pc'[v] = pc[v] /\ job'[v] = job[v]
    BY <1>1, <1>4 DEF Launch, Register, Pump, Recheck, Finish, Clear, Return, Go, At, Handling
  <2>2. sessions' = sessions /\ doomed' = doomed
    BY <1>4 DEF Launch, Register, Pump, Recheck, Finish, Clear, tableVars
  <2>3. alive' \subseteq alive \cup (Task \ Opening)
    <3>1. CASE Launch(w)
      <4>1. job[w] \in Streaming
        BY <3>1, KindAt DEF Launch, At
      <4> QED
        BY <1>3, <3>1, <4>1 DEF Launch
    <3> QED
      BY <1>4, <3>1 DEF Register, Pump, Recheck, Finish, Clear, tableVars
  <2> QED
    BY <2>1, <2>2, <2>3, SessionsFrame
<1>5. ASSUME NEW w \in Thread, Get(w) \/ Type(w) \/ Unlist(w)
      PROVE  SessionsKnown' /\ InReach'
  <2>1. /\ pc[w] \notin Handling /\ pc'[w] \notin Handling
        /\ \A v \in Thread \ {w} : pc'[v] = pc[v] /\ job'[v] = job[v]
    BY <1>1, <1>5 DEF Get, Type, Unlist, Return, Go, At, Handling
  <2>2. sessions' = sessions /\ doomed' = doomed /\ alive' = alive
    BY <1>5 DEF Get, Type, Unlist, tableVars
  <2> QED
    BY <2>1, <2>2, SessionsFrame
<1>6. ASSUME NEW w \in Thread, NEW t \in Task, Run(w, t)
      PROVE  SessionsKnown' /\ InReach'
  <2>1. \A v \in Thread : \/ pc'[v] = pc[v] /\ job'[v] = job[v]
                          \/ pc'[v] \notin Handling /\ pc[v] \notin Handling
    BY <1>1, <1>2, <1>6 DEF Run, Go, At, Handling
  <2>2. sessions' = sessions /\ doomed' = doomed /\ alive' = alive
    BY <1>6 DEF Run
  <2> QED
    BY <2>1, <2>2, SessionsFrame
<1>7. ASSUME (\E t \in Task : Resume(t) \/ Stop(t)) \/ StopKill \/ \E w \in Remote : Restore(w)
      PROVE  SessionsKnown' /\ InReach'
  <2>1. \A v \in Thread : \/ pc'[v] = pc[v] /\ job'[v] = job[v]
                          \/ pc'[v] \notin Handling /\ pc[v] \notin Handling
    BY <1>1, <1>2, <1>7 DEF Resume, Stop, StopKill, Restore, Go, At, Handling
  <2>2. sessions' = sessions /\ doomed' = doomed /\ alive' \subseteq alive
    BY <1>7 DEF Resume, Stop, StopKill, Restore, tableVars
  <2> QED
    BY <2>1, <2>2, SessionsFrame
<1>8. ASSUME UNCHANGED vars \/ \E t \in Task : Exit(t)
      PROVE  SessionsKnown' /\ InReach'
  BY <1>8, SessionsFrame DEF vars, callVars, tableVars, Exit
<1> QED
  BY <1>4, <1>5, <1>6, <1>7, <1>8, ReapKeeps, OpenKeeps, CloseKeeps, SweepKeeps,
     ExecutorAssumption DEF Next, Step

\* Shutdown ends when it has closed all that it listed.
LEMMA ListedStep ==
  ASSUME TypeOK, Shape, SessionsKnown, ListedGoes, [Next]_vars
  PROVE  ListedGoes'
<1>1. /\ pc \in [Thread -> Place] /\ job \in [Thread -> Task \cup {NoTask}] /\ Main \in Thread
      /\ sessions \subseteq Opening /\ doomed \in [Thread -> SUBSET Opening]
      /\ listed \subseteq Opening /\ answer \in [Task -> Answer]
      /\ Streaming \cap Opening = {} /\ Main \notin Remote
  BY ExecutorAssumption DEF TypeOK, Thread, Streaming, Opening
<1>2. \A s \in Opening : Young(s)' => Young(s)
  BY YoungShrinks
<1>3. CASE Shutdown
  <2>1. /\ listed' = sessions /\ sessions' = sessions /\ pc'[Main] = "sweep"
        /\ doomed'[Main] = sessions
    BY <1>1, <1>3 DEF Shutdown, Go, tableVars
  <2> QED
    BY <1>1, <1>2, <2>1 DEF ListedGoes, SessionsKnown
<1>4. CASE Sweep
  <2>1. /\ pc[Main] = "sweep" /\ listed' = listed
        /\ sessions' \subseteq sessions /\ alive' \subseteq alive
        /\ doomed[Main] # {} =>
             /\ pc' = pc /\ doomed'[Main] = doomed[Main] \ {Victim(Main)}
             /\ Victim(Main) \notin sessions'
        /\ doomed[Main] = {} => sessions' = sessions /\ alive' = alive
    BY <1>1, <1>4 DEF Sweep, At
  <2> QED
    BY <1>1, <1>2, <2>1 DEF ListedGoes
<1>5. ASSUME listed' = listed, pc[Main] = "sweep" => pc'[Main] = "sweep",
             doomed'[Main] = doomed[Main] \/ pc[Main] # "sweep",
             \A s \in (sessions' \ sessions) \cup (alive' \ alive) : s \in Opening => Young(s)
      PROVE  ListedGoes'
  <2>1. \A s \in listed' : ~Young(s)'
    BY <1>1, <1>2, <1>5 DEF ListedGoes
  <2>2. ASSUME NEW s \in listed \cap sessions' \cap alive' PROVE s \in sessions \cap alive
    BY <1>1, <1>5, <2>2 DEF ListedGoes
  <2> QED
    BY <1>5, <2>1, <2>2 DEF ListedGoes
<1>6. ASSUME NEW w \in Thread, Step(w) PROVE ListedGoes'
  <2>1. pc[w] \in Working /\ pc[w] # "sweep"
    BY <1>6, StepMoves DEF Moves, Working, Resting
  <2>2. pc[Main] = "sweep" => pc'[Main] = "sweep"
    BY <1>1, <1>6, <2>1, StepMoves DEF Moves, Return, Go
  <2>3. listed' = listed
    BY <1>6 DEF Step, Launch, Register, Pump, Recheck, Finish, Clear, Reap, ReapClose, ReapForget,
                ReapDrop, Spawn, Insert, Get, Type, Pop, Shut, Unlist
  <2>4. \A v \in Thread \ {w} : doomed'[v] = doomed[v]
    BY <1>1, <1>6 DEF Step, Launch, Register, Pump, Recheck, Finish, Clear, Reap, ReapClose,
                ReapForget, ReapDrop, Spawn, Insert, Get, Type, Pop, Shut, Unlist
  <2>5. \A s \in (sessions' \ sessions) \cup (alive' \ alive) : s \in Opening => Young(s)
    <3>1. CASE Launch(w)
      BY <1>1, <3>1, KindAt DEF Launch, At, tableVars
    <3>2. CASE Spawn(w) \/ Insert(w)
      <4>1. sessions' \subseteq sessions \cup {job[w]} /\ alive' \subseteq alive \cup {job[w]}
        BY <3>2 DEF Spawn, Insert
      <4>2. pc[w] \in {"spawn", "insert"}
        BY <3>2 DEF Spawn, Insert, At
      <4>3. answer[job[w]] = "none" /\ \A v \in Thread : pc[v] = "register" => job[v] # job[w]
        BY <2>1, <4>2 DEF Shape, Working, Place, BeforeRecheck, Resting, MainOnly
      <4> QED
        BY <4>1, <4>3 DEF Young
    <3>3. CASE ~Launch(w) /\ ~Spawn(w) /\ ~Insert(w)
      <4>1. sessions' \subseteq sessions /\ alive' \subseteq alive
        BY <1>6, <3>3 DEF Step, Register, Pump, Recheck, Finish, Clear, Reap, ReapClose,
                ReapForget, ReapDrop, Get, Type, Pop, Shut, Unlist, tableVars
      <4> QED
        BY <4>1
    <3> QED
      BY <3>1, <3>2, <3>3
  <2>6. doomed'[Main] = doomed[Main] \/ pc[Main] # "sweep"
    BY <1>1, <2>1, <2>4
  <2> QED
    BY <1>5, <2>2, <2>3, <2>5, <2>6
<1>7. ASSUME NEW w \in Thread, NEW t \in Task, Run(w, t) PROVE ListedGoes'
  BY <1>1, <1>5, <1>7 DEF Run, At, Go
<1>8. ASSUME NEW t \in Task, Resume(t) \/ Stop(t) \/ Exit(t) PROVE ListedGoes'
  BY <1>1, <1>5, <1>8 DEF Resume, Stop, Exit, At, Go, tableVars, callVars
<1>9. CASE StopKill
  BY <1>1, <1>5, <1>9 DEF StopKill, At, Go
<1>10. ASSUME NEW w \in Remote, Restore(w) PROVE ListedGoes'
  BY <1>1, <1>5, <1>10 DEF Restore, At, Go, tableVars
<1>11. CASE UNCHANGED vars
  BY <1>1, <1>5, <1>11 DEF vars, callVars, tableVars
<1> QED
  BY <1>3, <1>4, <1>6, <1>7, <1>8, <1>9, <1>10, <1>11, ExecutorAssumption DEF Next

-----------------------------------------------------------------------------
\* The opens that found room and have yet to insert count as well.
Inserting == {w \in Thread : pc[w] = "insert"}

RoomKept ==
  sessions # {} \/ Inserting # {} =>
    Cardinality(sessions) + Cardinality(Inserting) <= MaxSessions + Cardinality(Openers) - 1

\* Only a thread that opens a session is about to insert one.
LEMMA InsertingIsOpening ==
  TypeOK /\ Shape => Inserting \subseteq Openers
<1> SUFFICES ASSUME TypeOK, Shape, NEW w \in Thread, pc[w] = "insert" PROVE w \in Openers
  BY DEF Inserting
<1>1. job[w] \in Opening /\ Reaches(w, job[w])
  BY KindAt DEF Shape, Working, Place, Resting, MainOnly
<1> QED
  BY <1>1, ExecutorAssumption DEF Openers, Reaches, Thread

\* Sets of tasks and of threads are finite and have a size.
LEMMA Counted ==
  ASSUME NEW S \in (SUBSET Task) \cup (SUBSET Thread)
  PROVE  IsFiniteSet(S) /\ Cardinality(S) \in Nat
<1>1. IsFiniteSet(S)
  <2>1. CASE S \in SUBSET Task
    BY <2>1, ExecutorAssumption, FS_Subset
  <2>2. CASE S \in SUBSET Thread
    BY <2>2, ExecutorAssumption, FS_Subset
  <2> QED
    BY <2>1, <2>2
<1> QED
  BY <1>1, FS_CardinalityType

\* Sessions and threads about to insert together keep within the cap and the openers.
LEMMA RoomStep ==
  ASSUME TypeOK, Shape, TypeOK', Shape', RoomKept, [Next]_vars
  PROVE  RoomKept'
<1>1. /\ sessions \in SUBSET Task /\ sessions' \in SUBSET Task
      /\ Inserting \in SUBSET Thread /\ Inserting' \in SUBSET Thread /\ Openers \in SUBSET Thread
      /\ pc \in [Thread -> Place] /\ job \in [Thread -> Task \cup {NoTask}]
  BY DEF TypeOK, Opening, Inserting, Openers
<1>2. /\ \A S \in {sessions, sessions', Inserting, Inserting', Openers} :
           IsFiniteSet(S) /\ Cardinality(S) \in Nat
      /\ MaxSessions \in Nat
  <2> \A S \in (SUBSET Task) \cup (SUBSET Thread) : IsFiniteSet(S) /\ Cardinality(S) \in Nat
    BY Counted
  <2> QED
    BY <1>1, ExecutorAssumption
<1>3. ASSUME sessions' \subseteq sessions, Inserting' \subseteq Inserting PROVE RoomKept'
  <2>1. Cardinality(sessions') <= Cardinality(sessions) /\ Cardinality(Inserting') <= Cardinality(Inserting)
    BY <1>2, <1>3, FS_Subset
  <2>2. sessions' # {} \/ Inserting' # {} => sessions # {} \/ Inserting # {}
    BY <1>3
  <2>3. Openers' = Openers
    BY DEF Openers
  <2> QED
    BY <1>2, <2>1, <2>2, <2>3 DEF RoomKept
<1>4. ASSUME NEW w \in Thread, Spawn(w) PROVE RoomKept'
  <2>1. CASE Cardinality(sessions) < MaxSessions /\ sessions' = sessions
    <3>1. Inserting' \subseteq Openers
      <4>1. (Inserting \subseteq Openers)'
        BY InsertingIsOpening, PTL
      <4> QED
        BY <4>1 DEF Openers
    <3>2. Cardinality(Inserting') <= Cardinality(Openers)
      BY <1>2, <3>1, FS_Subset
    <3>3. Openers' = Openers
      BY DEF Openers
    <3> QED
      BY <1>2, <2>1, <3>2, <3>3 DEF RoomKept
  <2>2. CASE Return(w, job[w], "failed") /\ sessions' = sessions
    <3>1. Inserting' \subseteq Inserting
      BY <1>1, <2>2 DEF Inserting, Return, Go
    <3> QED
      BY <1>3, <2>2, <3>1
  <2> QED
    BY <1>4, <2>1, <2>2 DEF Spawn
<1>5. ASSUME NEW w \in Thread, Insert(w) PROVE RoomKept'
  <2>1. Inserting' = Inserting \ {w} /\ w \in Inserting /\ sessions' = sessions \cup {job[w]}
    BY <1>1, <1>5 DEF Inserting, Insert, Go, At
  <2>2. Cardinality(Inserting') = Cardinality(Inserting) - 1
    BY <1>2, <2>1, FS_RemoveElement
  <2>3. Cardinality(sessions') <= Cardinality(sessions) + 1
    <3>1. Cardinality(sessions \cup {job[w]}) \in {Cardinality(sessions), Cardinality(sessions) + 1}
      BY <1>2, FS_AddElement
    <3> QED
      BY <1>2, <2>1, <3>1
  <2>4. Openers' = Openers
    BY DEF Openers
  <2> QED
    BY <1>2, <2>1, <2>2, <2>3, <2>4 DEF RoomKept
<1>6. ASSUME NEW w \in Thread, Step(w), ~Spawn(w), ~Insert(w) PROVE RoomKept'
  <2>1. sessions' \subseteq sessions
    BY <1>6 DEF Step, Launch, Register, Pump, Recheck, Finish, Clear, Reap, ReapClose, ReapForget,
                ReapDrop, Get, Type, Pop, Shut, Unlist, tableVars
  <2>2. \A v \in Thread : pc'[v] = "insert" => pc[v] = "insert"
    BY <1>1, <1>6 DEF Step, Launch, Register, Pump, Recheck, Finish, Clear, Reap, ReapClose,
                ReapForget, ReapDrop, Get, Type, Pop, Shut, Unlist, AfterReap, Return, Go
  <2> QED
    BY <1>3, <2>1, <2>2 DEF Inserting
<1>7. ASSUME \/ \E w \in Thread, t \in Task : Run(w, t)
             \/ \E w \in Remote : Restore(w)
             \/ \E t \in Task : Resume(t) \/ Exit(t) \/ Stop(t)
             \/ StopKill \/ Shutdown \/ Sweep
             \/ UNCHANGED vars
      PROVE  RoomKept'
  <2>1. sessions' \subseteq sessions
    BY <1>7 DEF Run, Restore, Resume, Exit, Stop, StopKill, Shutdown, Sweep, tableVars, vars
  <2>2. \A t \in Task : First(Kind[t]) # "insert"
    BY Kinds DEF First
  <2>3. \A v \in Thread : pc'[v] = "insert" => pc[v] = "insert"
    BY <1>1, <1>7, <2>2 DEF Run, Restore, Resume, Exit, Stop, StopKill, Shutdown, Sweep, Go,
                            callVars, vars
  <2> QED
    BY <1>3, <2>1, <2>3 DEF Inserting
<1> QED
  BY <1>4, <1>5, <1>6, <1>7, ExecutorAssumption DEF Next

-----------------------------------------------------------------------------
(* Streams *)

\* A stream that was flagged in time answered so, or its thread will: it finds
\* the flag, or has noted that it did.  (Shutdown clears the flags and ends
\* the process.)
Noted(t, w) ==
  /\ job[w] = t
  /\ \/ pc[w] \in BeforeRecheck /\ (t \in cancelled \/ ~Up)
     \/ pc[w] \in {"finish", "clear"} /\ cut[w]

FlagSeen ==
  \A t \in heard \cap Streaming :
    \/ answer[t] \in {"unstarted", "cut"}
    \/ answer[t] = "none" /\ \E w \in Thread : Noted(t, w)

\* Whoever is at a place of a stream's method works on it.
LEMMA NotedWorks ==
  ASSUME NEW w \in Thread, NEW t, Noted(t, w)
  PROVE  pc[w] \in Working
  BY DEF Noted, Working, Place, BeforeRecheck, Resting, MainOnly

\* After a step of a thread, a task that was to stop has seen the flag or will.
LEMMA FlagMoves ==
  ASSUME TypeOK, Shape, FlagSeen, NEW w \in Thread, Step(w), NEW t \in heard \cap Streaming
  PROVE  \/ answer'[t] \in {"unstarted", "cut"}
         \/ answer'[t] = "none" /\ \E v \in Thread : Noted(t, v)'
<1>1. /\ pc \in [Thread -> Place] /\ job \in [Thread -> Task \cup {NoTask}]
      /\ answer \in [Task -> Answer] /\ cut \in [Thread -> BOOLEAN] /\ t \in Task
  BY DEF TypeOK
<1>2. Moves(w) /\ pc[w] \in Working /\ job[w] \in Task /\ answer[job[w]] = "none" /\ Up
  BY StepMoves, KindAt DEF Moves, Shape
<1>3. CASE job[w] # t
  <2>1. answer'[t] = answer[t] /\ (t \in cancelled => t \in cancelled')
    <3>1. answer'[t] = answer[t]
      BY <1>1, <1>2, <1>3 DEF Moves, Return
    <3>2. t \in cancelled => t \in cancelled'
      BY <1>3 DEF Step, Launch, Register, Pump, Recheck, Finish, Clear, Reap, ReapClose, ReapForget,
                  ReapDrop, Spawn, Insert, Get, Type, Pop, Shut, Unlist, tableVars
    <3> QED
      BY <3>1, <3>2
  <2>2. \A v \in Thread \ {w} : pc'[v] = pc[v] /\ job'[v] = job[v] /\ cut'[v] = cut[v]
    <3>1. \A v \in Thread \ {w} : cut'[v] = cut[v]
      BY <1>1 DEF Step, Launch, Register, Pump, Recheck, Finish, Clear, Reap, ReapClose, ReapForget,
                  ReapDrop, Spawn, Insert, Get, Type, Pop, Shut, Unlist
    <3> QED
      BY <1>1, <1>2, <3>1 DEF Moves, Return, Go
  <2>3. ASSUME NEW v \in Thread, Noted(t, v) PROVE Noted(t, v)'
    BY <1>2, <1>3, <2>1, <2>2, <2>3 DEF Noted
  <2> QED
    BY <2>1, <2>3 DEF FlagSeen
<1>4. CASE job[w] = t
  <2>1. \E v \in Thread : Noted(t, v)
    BY <1>2, <1>4 DEF FlagSeen
  <2>2. Noted(t, w)
    BY <1>2, <1>4, <2>1, NotedWorks DEF Noted, Shape
  <2>3. CASE pc[w] = "launch"
    <3>1. Launch(w)
      BY <2>3 DEF Step, Register, Pump, Recheck, Finish, Clear, Reap, ReapClose, ReapForget,
                  ReapDrop, Spawn, Insert, Get, Type, Pop, Shut, Unlist, At
    <3>2. CASE Return(w, t, "unstarted")
      BY <1>1, <3>2 DEF Return
    <3>3. CASE Go(w, "register") /\ UNCHANGED <<job, answer>>
      BY <1>1, <1>2, <1>4, <2>2, <2>3, <3>1, <3>3 DEF Go, Launch, Noted, BeforeRecheck
    <3> QED
      BY <1>4, <3>1, <3>2, <3>3 DEF Launch
  <2>4. CASE pc[w] \in {"register", "pump", "recheck", "finish"}
    <3>1. Register(w) \/ Pump(w) \/ Recheck(w) \/ Finish(w)
      BY <2>4 DEF Step, Launch, Clear, Reap, ReapClose, ReapForget,
                  ReapDrop, Spawn, Insert, Get, Type, Pop, Shut, Unlist, At
    <3>2. Kind[t] = "stream"
      BY DEF Streaming
    <3>3. job' = job /\ answer' = answer
      BY <1>4, <3>1, <3>2 DEF Register, Pump, Recheck, Finish
    <3>4. t \in cancelled => t \in cancelled'
      BY <3>1 DEF Register, Pump, Recheck, Finish, tableVars
    <3>5. CASE pc[w] \in {"register", "pump"}
      <4>1. t \in cancelled /\ pc'[w] \in BeforeRecheck
        BY <1>1, <1>2, <1>4, <2>2, <3>1, <3>2, <3>5
           DEF Noted, Register, Pump, Recheck, Finish, Go, At, BeforeRecheck
      <4> QED
        BY <1>2, <1>4, <3>3, <3>4, <4>1 DEF Noted
    <3>6. CASE pc[w] \in {"recheck", "finish"}
      <4>1. cut'[w] /\ pc'[w] \in {"finish", "clear"}
        BY <1>1, <1>2, <1>4, <2>2, <3>1, <3>6
           DEF Noted, Register, Pump, Recheck, Finish, Go, At, BeforeRecheck
      <4> QED
        BY <1>2, <1>4, <3>3, <4>1 DEF Noted
    <3> QED
      BY <2>4, <3>5, <3>6
  <2>5. CASE pc[w] = "clear"
    <3>1. Clear(w)
      BY <2>5 DEF Step, Launch, Register, Pump, Recheck, Finish, Reap, ReapClose, ReapForget,
                  ReapDrop, Spawn, Insert, Get, Type, Pop, Shut, Unlist, At
    <3>2. cut[w]
      BY <2>2, <2>5 DEF Noted, BeforeRecheck
    <3>3. Return(w, t, "cut")
      BY <1>4, <3>1, <3>2 DEF Clear
    <3> QED
      BY <1>1, <3>3 DEF Return
  <2> QED
    BY <2>2, <2>3, <2>4, <2>5 DEF Noted, BeforeRecheck
<1> QED
  BY <1>3, <1>4

\* So no step makes it forget.
LEMMA FlagStep ==
  ASSUME TypeOK, Shape, FlagSeen, [Next]_vars
  PROVE  FlagSeen'
<1>1. /\ pc \in [Thread -> Place] /\ job \in [Thread -> Task \cup {NoTask}]
      /\ answer \in [Task -> Answer] /\ heard \subseteq Task /\ Main \in Thread /\ Remote \subseteq Thread
  BY DEF TypeOK, Thread
<1>2. \A u, t : \A w \in Thread : Noted(t, w) => pc[w] \in Working /\ pc[w] # "stop"
  BY NotedWorks DEF Working, MainOnly
<1>3. ASSUME NEW w \in Thread, Step(w) PROVE FlagSeen'
  <2>1. heard' = heard
    BY <1>3 DEF Step, Launch, Register, Pump, Recheck, Finish, Clear, Reap, ReapClose, ReapForget,
                ReapDrop, Spawn, Insert, Get, Type, Pop, Shut, Unlist
  <2> QED
    BY <1>3, <2>1, FlagMoves DEF FlagSeen
\* A step that leaves alone who works on a stream and what he noted.
<1>4. ASSUME NEW u \in Task, Up,
             \A t \in heard' \ heard : answer'[t] = "none" /\ \E w \in Thread : Noted(t, w)',
             \A t \in Task \ {u} : answer'[t] = answer[t],
             \A t \in Task \ {u} : t \in cancelled => t \in cancelled' \/ ~Up',
             \A w \in Thread : pc[w] \in Working => pc'[w] = pc[w] /\ job'[w] = job[w] /\ cut'[w] = cut[w],
             answer'[u] = answer[u] \/ (answer[u] \in {"none", "parked"} /\ ~Held(u)),
             (u \in cancelled => u \in cancelled' \/ ~Up') \/ ~Held(u)
      PROVE  FlagSeen'
  <2> SUFFICES ASSUME NEW t \in heard' \cap Streaming
               PROVE  \/ answer'[t] \in {"unstarted", "cut"}
                      \/ answer'[t] = "none" /\ \E w \in Thread : Noted(t, w)'
    BY DEF FlagSeen
  <2>0. t \in Task
    BY DEF Streaming
  <2>1. CASE t \in heard /\ answer[t] = "none"
    <3>1. PICK w \in Thread : Noted(t, w)
      BY <2>1 DEF FlagSeen
    <3>2. pc[w] \in Working /\ job[w] = t /\ Held(t)
      BY <1>2, <3>1 DEF Noted, Held
    <3>3. answer'[t] = answer[t] /\ (t \in cancelled => t \in cancelled' \/ ~Up')
      BY <1>4, <2>0, <3>2
    <3>4. Noted(t, w)'
      BY <1>4, <3>1, <3>2, <3>3 DEF Noted
    <3> QED
      BY <2>1, <3>3, <3>4
  <2>2. CASE t \in heard /\ answer[t] # "none"
    <3>1. answer[t] \in {"unstarted", "cut"}
      BY <2>2 DEF FlagSeen
    <3>2. answer'[t] = answer[t]
      BY <1>4, <2>0, <3>1
    <3> QED
      BY <3>1, <3>2
  <2> QED
    BY <1>4, <2>1, <2>2
<1>5. ASSUME NEW w \in Thread, NEW t \in Task, Run(w, t) PROVE FlagSeen'
  <2>1. heard' = heard /\ answer[t] = "none" /\ ~Held(t) /\ Up
    BY <1>5 DEF Run, At
  <2>2. \A u \in Task \ {t} : answer'[u] = answer[u] /\ (u \in cancelled => u \in cancelled')
    BY <1>1, <1>5 DEF Run
  <2>3. \A v \in Thread : pc[v] \in Working => pc'[v] = pc[v] /\ job'[v] = job[v] /\ cut'[v] = cut[v]
    BY <1>1, <1>5 DEF Run, Go, At, Working, Resting
  <2> QED
    BY <1>4, <2>1, <2>2, <2>3
<1>6. ASSUME NEW t \in Task, Resume(t) PROVE FlagSeen'
  <2>1. heard' = heard /\ answer[t] = "parked" /\ ~Held(t) /\ Up /\ cancelled' = cancelled
    BY <1>6 DEF Resume, At, tableVars
  <2>2. \A u \in Task \ {t} : answer'[u] = answer[u]
    BY <1>1, <1>6 DEF Resume
  <2>3. \A v \in Thread : pc[v] \in Working => pc'[v] = pc[v] /\ job'[v] = job[v] /\ cut'[v] = cut[v]
    BY <1>1, <1>6 DEF Resume, Go, At, Working, Resting
  <2> QED
    BY <1>4, <2>1, <2>2, <2>3
<1>7. ASSUME NEW t \in Task, Stop(t) PROVE FlagSeen'
  <2>1. cancelled' = cancelled \cup {t} /\ answer' = answer /\ cut' = cut /\ Up
    BY <1>7 DEF Stop, At
  <2>2. \A v \in Thread : pc[v] \in Working => pc'[v] = pc[v] /\ job'[v] = job[v]
    BY <1>1, <1>7 DEF Stop, Go, At, Working, Resting
  <2>3. ASSUME NEW u \in heard' \ heard
        PROVE  answer'[u] = "none" /\ \E w \in Thread : Noted(u, w)'
    <3>1. u = t
      BY <1>7 DEF Stop
    <3>2. PICK w \in Thread : job[w] = t /\ pc[w] \in BeforeRecheck
      BY <1>7, <3>1 DEF Stop
    <3>3. pc[w] \in Working
      BY <3>2 DEF Working, Place, BeforeRecheck, Resting, MainOnly
    <3>4. answer[t] = "none" /\ pc'[w] = pc[w] /\ job'[w] = job[w]
      BY <2>2, <3>2, <3>3 DEF Shape
    <3> QED
      BY <2>1, <3>1, <3>2, <3>4 DEF Noted
  <2> QED
    BY <1>4, <2>1, <2>2, <2>3
<1>8. ASSUME StopKill \/ Shutdown \/ Sweep \/ (\E w \in Remote : Restore(w)),
             NEW u \in Task
      PROVE  FlagSeen'
  <2>1. heard' = heard /\ answer' = answer /\ cut' = cut /\ Up
    BY <1>8 DEF StopKill, Shutdown, Sweep, Restore, At
  <2>2. cancelled' = cancelled \/ ~Up'
    BY <1>1, <1>8 DEF StopKill, Shutdown, Sweep, Restore, tableVars, Go, Up
  <2>3. \A v \in Thread : pc[v] \in Working => pc'[v] = pc[v] /\ job'[v] = job[v]
    BY <1>1, <1>8 DEF StopKill, Shutdown, Sweep, Restore, Go, At, Working, Resting, MainOnly
  <2> QED
    BY <1>4, <1>8, <2>1, <2>2, <2>3
<1>9. ASSUME UNCHANGED vars \/ \E t \in Task : Exit(t) PROVE FlagSeen'
  <2>1. UNCHANGED <<heard, answer, cut, pc, job, cancelled>>
    BY <1>9 DEF vars, callVars, tableVars, Exit
  <2> QED
    BY <2>1 DEF FlagSeen, Noted, Up
<1>10. CASE Task = {}
  BY <1>1, <1>10 DEF FlagSeen, Streaming
<1> QED
  BY <1>3, <1>5, <1>6, <1>7, <1>8, <1>9, <1>10, ExecutorAssumption DEF Next

-----------------------------------------------------------------------------
(* The chunk sink *)

\* The sink belongs to the one remote call under way, or to calls that were
\* crossed: those that overlap, and the one whose sink the last of them left.
SinkOwned ==
  /\ sink \notin crossed \cup {NoTask} => \E r \in Remote : job[r] = sink
  /\ \A r \in Remote : job[r] # NoTask =>
       /\ saved[r] \in crossed \cup {NoTask}
       /\ job[r] \notin crossed => sink = job[r]
  /\ \A r, q \in Remote : r # q /\ job[r] # NoTask /\ job[q] # NoTask => job[r] \in crossed

\* How many final frames a call that nothing crossed has sent so far.
FramesCounted ==
  \A t \in Via \ crossed :
    /\ \A r \in Remote : job[r] = t =>
         finals[t] = IF pc[r] = "restore" /\ ClosedItself(t) THEN 1 ELSE 0
    /\ (\A r \in Remote : job[r] # t) =>
         finals[t] = IF answer[t] \in {"absent", "none"}
                          /\ \A w \in Thread : pc[w] \in Working => job[w] # t
                       THEN 0 ELSE 1

\* A method emits its final chunk in the step that answers, if it streams.
LEMMA StepEmits ==
  ASSUME TypeOK, Shape, NEW w \in Thread, Step(w), NEW t \in Task, t = job[w]
  PROVE  \/ EmitFinal(t) /\ ClosedItself(t)' /\ t \in Streaming
         \/ UNCHANGED sinkVars /\ ~ClosedItself(t)'
<1>1. answer \in [Task -> Answer] /\ pc[w] \in Working /\ answer[t] = "none"
  BY StepMoves DEF TypeOK, Moves, Shape
<1>2. \A a \in Answer : Return(w, t, a) => answer'[t] = a
  BY <1>1 DEF Return
<1>3. ASSUME UNCHANGED answer PROVE ~ClosedItself(t)'
  BY <1>1, <1>3 DEF ClosedItself
<1>4. CASE Launch(w)
  <2>1. t \in Streaming
    BY <1>4, KindAt DEF Launch, At
  <2>2. CASE Return(w, t, "unstarted") /\ EmitFinal(t)
    BY <1>2, <2>1, <2>2 DEF ClosedItself, Answer
  <2>3. CASE UNCHANGED <<answer, sinkVars>>
    BY <1>3, <2>3
  <2> QED
    BY <1>4, <2>2, <2>3 DEF Launch
<1>5. CASE Clear(w)
  <2>1. t \in Streaming
    BY <1>5, KindAt DEF Clear, At
  <2>2. PICK a \in {"cut", "timeout", "ok", "failed"} : Return(w, t, a)
    BY <1>5 DEF Clear
  <2>3. answer'[t] = a
    BY <1>2, <2>2 DEF Answer
  <2>4. ClosedItself(t)'
    BY <2>1, <2>3 DEF ClosedItself
  <2> QED
    BY <1>5, <2>1, <2>4 DEF Clear
<1>6. CASE Register(w) \/ Pump(w) \/ Recheck(w) \/ Finish(w)
  <2>1. UNCHANGED sinkVars /\ (UNCHANGED answer \/ t \notin Streaming)
    BY <1>6 DEF Register, Pump, Recheck, Finish, Streaming
  <2>2. t \notin Streaming => ~ClosedItself(t)'
    BY DEF ClosedItself
  <2> QED
    BY <1>3, <2>1, <2>2
<1>7. CASE /\ ~Launch(w) /\ ~Clear(w) /\ ~Register(w) /\ ~Pump(w) /\ ~Recheck(w) /\ ~Finish(w)
  <2>1. UNCHANGED sinkVars
    BY <1>7 DEF Step, Reap, ReapClose, ReapForget, ReapDrop, Spawn, Insert, Get, Type, Pop, Shut, Unlist
  <2>2. pc[w] \in {"reap", "close", "forget", "drop", "spawn", "insert", "get", "type", "pop", "shut", "unlist"}
    BY <1>7 DEF Step, Reap, ReapClose, ReapForget, ReapDrop, Spawn, Insert, Get, Type, Pop, Shut, Unlist, At
  <2>3. t \notin Streaming
    BY <2>2, KindAt DEF Streaming, Opening
  <2>4. ~ClosedItself(t)'
    BY <2>3 DEF ClosedItself
  <2> QED
    BY <2>1, <2>4
<1> QED
  BY <1>4, <1>5, <1>6, <1>7

\* A step of a method leaves the tasks of the remote threads where they are.
LEMMA RemoteStays ==
  ASSUME TypeOK, Shape, NEW w \in Thread, Step(w)
  PROVE  /\ \A r \in Remote : job'[r] = job[r]
         /\ \A v \in Thread \ {w} : pc'[v] = pc[v] /\ job'[v] = job[v]
         /\ \A t \in Task \ {job[w]} : answer'[t] = answer[t]
  BY StepMoves, ExecutorAssumption DEF TypeOK, Moves, Return, Go, Thread

\* Who installed the sink that is in place is known after every step.
LEMMA SinkStep ==
  ASSUME TypeOK, Shape, SinkOwned, [Next]_vars
  PROVE  SinkOwned'
<1>1. /\ job \in [Thread -> Task \cup {NoTask}] /\ saved \in [Remote -> Task \cup {NoTask}]
      /\ Main \notin Remote /\ Remote \subseteq Thread /\ Main \in Thread
      /\ Local \cap Remote = {} /\ NoTask \notin Task
  BY ExecutorAssumption DEF TypeOK, Thread
<1>2. ASSUME UNCHANGED <<sink, saved>>, crossed \subseteq crossed', \A r \in Remote : job'[r] = job[r]
      PROVE  SinkOwned'
  BY <1>2 DEF SinkOwned
<1>3. ASSUME NEW w \in Thread, Step(w) PROVE SinkOwned'
  <2>1. UNCHANGED <<sink, saved>> /\ crossed \subseteq crossed'
    BY <1>3, StepMoves, KindAt, StepEmits DEF EmitFinal, sinkVars, Moves
  <2> QED
    BY <1>2, <1>3, <2>1, RemoteStays
<1>4. ASSUME NEW w \in Thread, NEW t \in Task, Run(w, t) PROVE SinkOwned'
  <2>1. CASE w \notin Remote
    BY <1>1, <1>2, <1>4, <2>1 DEF Run, sinkVars
  <2>2. CASE w \in Remote
    <3> DEFINE under == {job[r] : r \in Remote} \ {NoTask}
    <3>1. /\ sink' = t /\ saved' = [saved EXCEPT ![w] = sink]
          /\ crossed' = IF under = {} THEN crossed ELSE crossed \cup under \cup {t}
      BY <1>4, <2>2 DEF Run, TakeSink
    <3>2. job[w] = NoTask /\ job' = [job EXCEPT ![w] = t]
      BY <1>4, <2>2 DEF Run, At, Shape, Resting
    <3>3. /\ saved'[w] = sink /\ job'[w] = t
          /\ \A r \in Remote \ {w} : saved'[r] = saved[r] /\ job'[r] = job[r]
      BY <1>1, <2>2, <3>1, <3>2
    <3>4. \A r \in Remote : job[r] # NoTask => job[r] \in crossed' /\ t \in crossed'
      BY <3>1
    <3>5. sink \in crossed' \cup {NoTask}
      BY <3>1, <3>4 DEF SinkOwned
    <3>6. crossed \subseteq crossed'
      BY <3>1
    <3> HIDE DEF under
    <3> QED
      BY <1>1, <2>2, <3>1, <3>2, <3>3, <3>4, <3>5, <3>6 DEF SinkOwned
  <2> QED
    BY <2>1, <2>2
<1>5. ASSUME NEW w \in Remote, Restore(w) PROVE SinkOwned'
  <2>1. /\ job[w] # NoTask /\ sink' = saved[w] /\ saved' = saved /\ crossed' = crossed
        /\ job'[w] = NoTask /\ \A r \in Remote \ {w} : job'[r] = job[r]
    BY <1>1, <1>5 DEF Restore, At, Shape, Resting
  <2> QED
    BY <2>1 DEF SinkOwned
<1>6. ASSUME (\E t \in Task : Resume(t) \/ Stop(t) \/ Exit(t)) \/ StopKill \/ Shutdown \/ Sweep \/ UNCHANGED vars
      PROVE  SinkOwned'
  <2>1. UNCHANGED <<sink, saved, crossed>>
    BY <1>6 DEF Resume, Stop, Exit, StopKill, Shutdown, Sweep, vars, sinkVars
  <2>2. \A r \in Remote : job'[r] = job[r]
    BY <1>1, <1>6 DEF Resume, Stop, Exit, StopKill, Shutdown, Sweep, vars, callVars
  <2> QED
    BY <1>2, <2>1, <2>2
<1> QED
  BY <1>3, <1>4, <1>5, <1>6, ExecutorAssumption DEF Next

\* Who holds a remote task, and what a call's count is when nobody does.
LEMMA FramesStep ==
  ASSUME TypeOK, Shape, SinkOwned, FramesCounted, [Next]_vars
  PROVE  FramesCounted'
<1>1. /\ pc \in [Thread -> Place] /\ job \in [Thread -> Task \cup {NoTask}]
      /\ answer \in [Task -> Answer] /\ finals \in [Task -> Nat]
      /\ sink \in Task \cup {NoTask} /\ crossed \subseteq Task
      /\ Main \notin Remote /\ Remote \subseteq Thread /\ Main \in Thread
      /\ Local \cap Remote = {} /\ NoTask \notin Task /\ Via \subseteq Task
  BY ExecutorAssumption DEF TypeOK, Thread
\* A step that does not touch the call: its holder, its answer or its count.
<1>2. ASSUME NEW t \in Via \ crossed', t \notin crossed,
             finals'[t] = finals[t], answer'[t] = answer[t],
             \A r \in Remote : job'[r] = t <=> job[r] = t,
             \A r \in Remote : job[r] = t => (pc'[r] = "restore" <=> pc[r] = "restore"),
             (\E w \in Thread : pc'[w] \in Working /\ job'[w] = t)
               <=> \E w \in Thread : pc[w] \in Working /\ job[w] = t
      PROVE  /\ \A r \in Remote : job'[r] = t =>
                  finals'[t] = IF pc'[r] = "restore" /\ ClosedItself(t)' THEN 1 ELSE 0
             /\ (\A r \in Remote : job'[r] # t) =>
                  finals'[t] = IF answer'[t] \in {"absent", "none"}
                                   /\ \A w \in Thread : pc'[w] \in Working => job'[w] # t
                                THEN 0 ELSE 1
  <2>1. ClosedItself(t)' <=> ClosedItself(t)
    BY <1>2 DEF ClosedItself
  <2> QED
    BY <1>2, <2>1 DEF FramesCounted
<1>3. ASSUME NEW w \in Thread, Step(w) PROVE FramesCounted'
  <2>1. PICK u \in Task : u = job[w]
    BY <1>3, StepMoves, KindAt DEF Moves
  <2>2. /\ pc[w] \in Working /\ answer[u] = "none"
        /\ \A r \in Remote : job'[r] = job[r]
        /\ \A v \in Thread \ {w} : pc'[v] = pc[v] /\ job'[v] = job[v]
        /\ \A t \in Task \ {u} : answer'[t] = answer[t]
    BY <1>3, <2>1, StepMoves, RemoteStays DEF Moves, Shape
  <2>3. \/ job'[w] = u /\ answer'[u] = "none" /\ pc'[w] \in Working
        \/ job'[w] = u /\ answer'[u] \notin {"absent", "none"} /\ pc'[w] = "restore" /\ w \in Remote
        \/ job'[w] = NoTask /\ answer'[u] \notin {"absent", "none"} /\ w \notin Remote
    <3>1. CASE \E p \in PlacesOf(Kind[u]) : Go(w, p) /\ UNCHANGED <<job, answer>>
      BY <1>1, <2>1, <2>2, <3>1, Kinds DEF Go
    <3>2. CASE \E a \in Final : Return(w, u, a)
      BY <1>1, <2>1, <3>2 DEF Return, Go, Final
    <3> QED
      BY <1>3, <2>1, <3>1, <3>2, StepMoves DEF Moves
  <2>4. \/ EmitFinal(u) /\ ClosedItself(u)'
        \/ UNCHANGED sinkVars /\ ~ClosedItself(u)'
    BY <1>3, <2>1, StepEmits
  <2>5. pc[w] \notin {"restore"}
    BY <2>2 DEF Working
  <2> SUFFICES ASSUME NEW t \in Via \ crossed'
               PROVE  /\ \A r \in Remote : job'[r] = t =>
                           finals'[t] = IF pc'[r] = "restore" /\ ClosedItself(t)' THEN 1 ELSE 0
                      /\ (\A r \in Remote : job'[r] # t) =>
                           finals'[t] = IF answer'[t] \in {"absent", "none"}
                                            /\ \A v \in Thread : pc'[v] \in Working => job'[v] # t
                                         THEN 0 ELSE 1
    BY DEF FramesCounted
  <2>6. t \in Task /\ t \notin crossed
    BY <1>1, <2>4 DEF EmitFinal, sinkVars
  <2>7. CASE t # u
    <3>1. finals'[t] = finals[t]
      BY <1>1, <2>4, <2>6, <2>7 DEF EmitFinal, sinkVars
    <3>2. \A r \in Remote : job[r] = t => (pc'[r] = "restore" <=> pc[r] = "restore")
      BY <1>1, <2>1, <2>2, <2>7
    <3>3. (\E v \in Thread : pc'[v] \in Working /\ job'[v] = t)
            <=> \E v \in Thread : pc[v] \in Working /\ job[v] = t
      BY <1>1, <2>1, <2>2, <2>3, <2>6, <2>7
    <3> QED
      BY <1>2, <2>2, <2>6, <2>7, <3>1, <3>2, <3>3
  <2>8. CASE t = u /\ w \in Remote
    <3>1. sink = t /\ \A r \in Remote : job[r] = t => r = w
      BY <1>1, <2>1, <2>6, <2>8 DEF SinkOwned
    <3>2. finals[t] = 0
      BY <2>1, <2>5, <2>6, <2>8 DEF FramesCounted
    <3>3. finals'[t] = IF ClosedItself(t)' THEN 1 ELSE 0
      BY <1>1, <2>4, <2>6, <2>8, <3>1, <3>2 DEF EmitFinal, sinkVars
    <3>4. ClosedItself(t)' => pc'[w] = "restore"
      BY <2>3, <2>8 DEF ClosedItself
    <3> QED
      BY <2>1, <2>2, <2>8, <3>1, <3>3, <3>4
  <2>9. CASE t = u /\ w \notin Remote
    <3>1. \A r \in Remote : job[r] # t
      <4> SUFFICES ASSUME NEW r \in Remote, job[r] = t PROVE FALSE
        OBVIOUS
      <4>1. pc[r] \in Working \cup {"restore"}
        BY <1>1, <2>6 DEF Shape, Working
      <4> QED
        BY <1>1, <2>1, <2>2, <2>9, <4>1 DEF Shape
    <3>2. finals[t] = 1 /\ sink # t
      BY <1>1, <2>1, <2>2, <2>6, <2>9, <3>1 DEF FramesCounted, SinkOwned
    <3>3. finals'[t] = 1
      BY <1>1, <2>4, <2>6, <3>2 DEF EmitFinal, sinkVars
    <3> QED
      BY <2>2, <2>3, <2>9, <3>1, <3>3
  <2> QED
    BY <2>7, <2>8, <2>9
\* A step that moves no worker but one that has nothing in hand.
<1>4. ASSUME NEW w \in Thread, NEW u \in Task \cup {NoTask}, NEW t \in Via \ crossed', t # u, t \notin crossed,
             finals'[t] = finals[t], answer'[t] = answer[t],
             job[w] = NoTask \/ w = Main, pc[w] \notin Working, pc'[w] \in Working => job'[w] = u,
             job'[w] \in {u, job[w]},
             \A v \in Thread \ {w} : pc'[v] = pc[v] /\ job'[v] = job[v]
      PROVE  /\ \A r \in Remote : job'[r] = t =>
                  finals'[t] = IF pc'[r] = "restore" /\ ClosedItself(t)' THEN 1 ELSE 0
             /\ (\A r \in Remote : job'[r] # t) =>
                  finals'[t] = IF answer'[t] \in {"absent", "none"}
                                   /\ \A v \in Thread : pc'[v] \in Working => job'[v] # t
                                THEN 0 ELSE 1
  <2>1. (\E v \in Thread : pc'[v] \in Working /\ job'[v] = t)
          <=> \E v \in Thread : pc[v] \in Working /\ job[v] = t
    BY <1>1, <1>4
  <2>2. t # NoTask
    BY <1>1
  <2>3. \A r \in Remote : job'[r] = t <=> job[r] = t
    BY <1>1, <1>4, <2>2
  <2>4. \A r \in Remote : job[r] = t => (pc'[r] = "restore" <=> pc[r] = "restore")
    BY <1>1, <1>4, <2>2
  <2> QED
    BY <1>2, <1>4, <2>1, <2>3, <2>4
<1>5. ASSUME NEW w \in Thread, NEW u \in Task, Run(w, u) PROVE FramesCounted'
  <2>1. /\ pc[w] = "idle" /\ job[w] = NoTask /\ w # Main /\ answer[u] = "none" /\ ~Held(u)
        /\ u \in Via <=> w \in Remote
        /\ finals' = finals /\ crossed \subseteq crossed'
    BY <1>5 DEF Run, At, TakeSink, Shape, Resting, sinkVars
  <2>2. \/ /\ pc' = [pc EXCEPT ![w] = First(Kind[u])] /\ job' = [job EXCEPT ![w] = u] /\ answer' = answer
        \/ /\ \E a \in {"cancelled", "block", "parked"} : answer' = [answer EXCEPT ![u] = a]
           /\ IF w \in Remote THEN pc' = [pc EXCEPT ![w] = "restore"] /\ job' = [job EXCEPT ![w] = u]
                              ELSE UNCHANGED <<pc, job>>
    BY <1>5 DEF Run, Go
  <2>3. \A v \in Thread \ {w} : pc'[v] = pc[v] /\ job'[v] = job[v]
    BY <1>1, <2>2
  <2>4. \A t \in Task \ {u} : answer'[t] = answer[t]
    BY <1>1, <2>2
  <2>5. job'[w] \in {u, job[w]} /\ pc[w] \notin Working /\ (pc'[w] \in Working => job'[w] = u)
    BY <1>1, <2>1, <2>2 DEF Working, Resting
  <2> SUFFICES ASSUME NEW t \in Via \ crossed'
               PROVE  /\ \A r \in Remote : job'[r] = t =>
                           finals'[t] = IF pc'[r] = "restore" /\ ClosedItself(t)' THEN 1 ELSE 0
                      /\ (\A r \in Remote : job'[r] # t) =>
                           finals'[t] = IF answer'[t] \in {"absent", "none"}
                                            /\ \A v \in Thread : pc'[v] \in Working => job'[v] # t
                                         THEN 0 ELSE 1
    BY DEF FramesCounted
  <2>6. CASE t # u
    BY <1>1, <1>4, <2>1, <2>3, <2>4, <2>5, <2>6
  <2>7. CASE t = u
    <3>1. w \in Remote /\ job'[w] = u
      BY <1>1, <2>1, <2>2, <2>7
    <3>2. \A v \in Thread : job[v] = t => pc[v] \notin Working /\ v \notin Remote
      BY <1>1, <2>1, <2>7 DEF Held, Shape, MainOnly, Working
    <3>3. finals'[t] = 0
      BY <1>1, <2>1, <2>7, <3>2 DEF FramesCounted
    <3>4. pc'[w] = "restore" => answer'[t] \in {"cancelled", "block", "parked"}
      BY <1>1, <2>2, <2>7, Kinds DEF Working
    <3>5. ~(pc'[w] = "restore" /\ ClosedItself(t)')
      BY <3>4 DEF ClosedItself
    <3>6. \A r \in Remote : job'[r] = t => r = w
      BY <1>1, <2>3, <3>2
    <3> QED
      BY <2>7, <3>1, <3>3, <3>5, <3>6
  <2> QED
    BY <2>6, <2>7
<1>6. ASSUME NEW u \in Task, Resume(u) PROVE FramesCounted'
  <2>1. /\ pc[Main] = "idle" /\ answer[u] = "parked" /\ ~Held(u) /\ finals' = finals /\ crossed' = crossed
        /\ pc[Main] \notin Working /\ job[Main] = NoTask
    BY <1>1, <1>6 DEF Resume, At, sinkVars, Working, Resting, Shape
  <2>2. \/ answer' = [answer EXCEPT ![u] = "denied"] /\ UNCHANGED <<pc, job>>
        \/ /\ answer' = [answer EXCEPT ![u] = "none"]
           /\ pc' = [pc EXCEPT ![Main] = First(Kind[u])] /\ job' = [job EXCEPT ![Main] = u]
    BY <1>6 DEF Resume, Go
  <2>3. \A v \in Thread \ {Main} : pc'[v] = pc[v] /\ job'[v] = job[v]
    BY <1>1, <2>2
  <2>4. \A t \in Task \ {u} : answer'[t] = answer[t]
    BY <1>1, <2>2
  <2>5. job'[Main] \in {u, job[Main]} /\ (pc'[Main] \in Working => job'[Main] = u)
    BY <1>1, <2>1, <2>2
  <2> SUFFICES ASSUME NEW t \in Via \ crossed'
               PROVE  /\ \A r \in Remote : job'[r] = t =>
                           finals'[t] = IF pc'[r] = "restore" /\ ClosedItself(t)' THEN 1 ELSE 0
                      /\ (\A r \in Remote : job'[r] # t) =>
                           finals'[t] = IF answer'[t] \in {"absent", "none"}
                                            /\ \A v \in Thread : pc'[v] \in Working => job'[v] # t
                                         THEN 0 ELSE 1
    BY DEF FramesCounted
  <2>6. CASE t # u
    BY <1>1, <1>4, <2>1, <2>3, <2>4, <2>5, <2>6
  <2>7. CASE t = u
    <3>1. \A r \in Remote : job[r] # t /\ job'[r] # t
      BY <1>1, <2>1, <2>3, <2>7 DEF Held, Shape, MainOnly
    <3>2. finals'[t] = 1
      BY <1>1, <2>1, <2>7, <3>1 DEF FramesCounted
    <3>3. \/ answer'[t] = "denied"
          \/ pc'[Main] \in Working /\ job'[Main] = t
      BY <1>1, <2>2, <2>7, Kinds
    <3> QED
      BY <1>1, <3>1, <3>2, <3>3
  <2> QED
    BY <2>6, <2>7
<1>7. ASSUME NEW w \in Remote, Restore(w) PROVE FramesCounted'
  <2>1. PICK u \in Task : u = job[w]
    BY <1>1, <1>7 DEF Restore, At, Shape, Resting
  <2>2. /\ pc[w] = "restore" /\ pc'[w] = "idle" /\ job'[w] = NoTask /\ answer' = answer /\ crossed' = crossed
        /\ finals' = [finals EXCEPT ![u] = IF ClosedItself(u) THEN @ ELSE @ + 1]
        /\ \A v \in Thread \ {w} : pc'[v] = pc[v] /\ job'[v] = job[v]
        /\ answer[u] \notin {"absent", "none"}
    BY <1>1, <1>7, <2>1 DEF Restore, At, Go, Shape
  <2> SUFFICES ASSUME NEW t \in Via \ crossed'
               PROVE  /\ \A r \in Remote : job'[r] = t =>
                           finals'[t] = IF pc'[r] = "restore" /\ ClosedItself(t)' THEN 1 ELSE 0
                      /\ (\A r \in Remote : job'[r] # t) =>
                           finals'[t] = IF answer'[t] \in {"absent", "none"}
                                            /\ \A v \in Thread : pc'[v] \in Working => job'[v] # t
                                         THEN 0 ELSE 1
    BY DEF FramesCounted
  <2>3. CASE t # u
    <3>1. finals'[t] = finals[t] /\ t # NoTask
      BY <1>1, <2>2, <2>3
    <3>2. (\E v \in Thread : pc'[v] \in Working /\ job'[v] = t)
            <=> \E v \in Thread : pc[v] \in Working /\ job[v] = t
      BY <1>1, <2>1, <2>2, <2>3, <3>1
    <3> QED
      BY <1>1, <1>2, <2>1, <2>2, <2>3, <3>1, <3>2
  <2>4. CASE t = u
    <3>1. \A r \in Remote : job[r] = t => r = w
      BY <1>1, <2>1, <2>2, <2>4 DEF SinkOwned
    <3>2. finals'[t] = 1
      BY <1>1, <2>1, <2>2, <2>4 DEF FramesCounted
    <3> QED
      BY <1>1, <2>2, <2>4, <3>1, <3>2
  <2> QED
    BY <2>3, <2>4
<1>8. ASSUME (\E t \in Task : Stop(t)) \/ StopKill \/ Shutdown \/ Sweep PROVE FramesCounted'
  <2>1. /\ finals' = finals /\ crossed' = crossed /\ answer' = answer
        /\ pc[Main] \notin Working /\ (pc'[Main] \notin Working)
        /\ \A v \in Thread \ {Main} : pc'[v] = pc[v] /\ job'[v] = job[v]
    BY <1>1, <1>8 DEF Stop, StopKill, Shutdown, Sweep, At, Go, sinkVars, Working, Resting, MainOnly
  <2>2. \A t \in Via : (\E v \in Thread : pc'[v] \in Working /\ job'[v] = t)
                      <=> \E v \in Thread : pc[v] \in Working /\ job[v] = t
    BY <1>1, <2>1
  <2>3. \A r \in Remote : pc'[r] = pc[r] /\ job'[r] = job[r]
    BY <1>1, <2>1
  <2> QED
    BY <2>1, <2>2, <2>3 DEF FramesCounted, ClosedItself
<1>9. ASSUME UNCHANGED vars \/ \E t \in Task : Exit(t) PROVE FramesCounted'
  <2>1. UNCHANGED <<finals, crossed, answer, pc, job>>
    BY <1>9 DEF vars, callVars, sinkVars, Exit
  <2> QED
    BY <2>1 DEF FramesCounted, ClosedItself
<1> QED
  BY <1>3, <1>5, <1>6, <1>7, <1>8, <1>9, ExecutorAssumption DEF Next

-----------------------------------------------------------------------------
(* The properties *)

\* What is inductive for streams, sessions and the sink together: who holds a task
\* (Shape), which sessions exist, the room under the cap, the flag, the frames.
KindsInv ==
  /\ TypeOK /\ Shape /\ SessionsKnown /\ InReach /\ ListedGoes
  /\ RoomKept /\ FlagSeen /\ SinkOwned /\ FramesCounted

\* The invariant at first ...
LEMMA KindsInvInit == Init => KindsInv
<1> SUFFICES ASSUME Init PROVE KindsInv
  OBVIOUS
<1>1. TypeOK /\ Shape
  BY TypingInit
<1>2. SessionsKnown /\ InReach /\ ListedGoes
  BY DEF Init, SessionsKnown, InReach, ListedGoes
<1>3. RoomKept
  BY DEF Init, RoomKept, Inserting
<1>4. FlagSeen /\ SinkOwned
  BY ExecutorAssumption DEF Init, FlagSeen, SinkOwned, Thread
<1>5. FramesCounted
  <2>1. PICK b \in Batches : answer = [t \in Task |-> IF t \in b THEN "none" ELSE "absent"]
    BY DEF Init
  <2>2. \A w \in Thread : job[w] = NoTask /\ pc[w] \notin Working
    BY DEF Init, Working, Resting
  <2>3. \A t \in Via : finals[t] = 0 /\ answer[t] \in {"absent", "none"} /\ t # NoTask
    BY <2>1, ExecutorAssumption DEF Init
  <2>4. Remote \subseteq Thread
    BY DEF Thread
  <2> QED
    BY <2>2, <2>3, <2>4 DEF FramesCounted
<1> QED
  BY <1>1, <1>2, <1>3, <1>4, <1>5 DEF KindsInv

\* ... after every step ...
LEMMA KindsInvStep == KindsInv /\ [Next]_vars => KindsInv'
<1> SUFFICES ASSUME KindsInv, [Next]_vars PROVE KindsInv'
  OBVIOUS
<1>1. TypeOK' /\ Shape'
  BY TypingStep, ShapeStep DEF KindsInv
<1> QED
  BY <1>1, SessionsStep, ListedStep, RoomStep, FlagStep, SinkStep, FramesStep DEF KindsInv

\* ... and so always, whichever sort of task a behaviour has.
LEMMA KindsInvariant == KindsSpec => []KindsInv
<1>1. [KindsNext]_<<vars, fileVars>> => [Next]_vars
  BY DEF KindsNext
<1> QED
  BY <1>1, KindsInvInit, KindsInvStep, PTL DEF KindsSpec, KindsInit

\* A stream that stop() flagged before its last look at the flag answers that
\* it was cut, or that it never started (executor_v2.py, _exec_shell_stream).
THEOREM StopIsHonoured == KindsSpec => []StopHonoured
<1>1. KindsInv => StopHonoured
  BY DEF KindsInv, FlagSeen, StopHonoured
<1> QED
  BY <1>1, KindsInvariant, PTL

\* Whoever reaps, closes or shuts down, a session's process that runs is in
\* the table or in the hands of a thread, and in the table shutdown leaves only
\* what was opened beside it (executor_v2.py, _reap_sessions and shutdown).
THEOREM SessionsReachable == KindsSpec => []NothingUnreachable
<1>1. KindsInv => NothingUnreachable
  <2> SUFFICES ASSUME KindsInv, NEW s \in Opening \cap alive, s \in sessions, s \in listed
               PROVE  Up
    BY DEF KindsInv, InReach, NothingUnreachable
  <2>1. pc[Main] = "sweep"
    BY DEF KindsInv, ListedGoes
  <2> QED
    BY <2>1 DEF Up
<1> QED
  BY <1>1, KindsInvariant, PTL

\* The cap on sessions is exceeded by no more than the opens under way at once
\* (executor_v2.py, _exec_session_open).
THEOREM SessionsStayBounded == KindsSpec => []SessionsBounded
<1>1. KindsInv => SessionsBounded
  <2> SUFFICES ASSUME KindsInv, sessions # {}
               PROVE  Cardinality(sessions) <= MaxSessions + Cardinality(Openers) - 1
    BY DEF SessionsBounded
  <2>1. sessions \in SUBSET Task /\ Inserting \in SUBSET Thread /\ Openers \in SUBSET Thread
    BY DEF KindsInv, TypeOK, Opening, Inserting, Openers
  <2>2. /\ Cardinality(sessions) \in Nat /\ Cardinality(Inserting) \in Nat /\ Cardinality(Openers) \in Nat
        /\ MaxSessions \in Nat
    BY <2>1, Counted, ExecutorAssumption
  <2>3. Cardinality(sessions) + Cardinality(Inserting) <= MaxSessions + Cardinality(Openers) - 1
    BY DEF KindsInv, RoomKept
  <2> QED
    BY <2>2, <2>3
<1> QED
  BY <1>1, KindsInvariant, PTL

\* A remote call that no other one crossed sends its client exactly one final
\* frame, whatever it did and however it ended (ws_bridge.py, build_execute).
THEOREM OneFinalFrame == KindsSpec => []FinalFrame
<1>1. KindsInv => FinalFrame
  <2> SUFFICES ASSUME KindsInv, NEW t \in Via \ crossed
               PROVE  /\ finals[t] <= 1
                      /\ (answer[t] \notin {"absent", "none"} /\ \A r \in Remote : job[r] # t) => finals[t] = 1
    BY DEF FinalFrame
  <2> QED
    BY DEF KindsInv, FramesCounted
<1> QED
  BY <1>1, KindsInvariant, PTL

-----------------------------------------------------------------------------
(***************************************************************************)
(* The file kinds: backups, pages and watches.                             *)
(***************************************************************************)

\* The places of a worker, and what its job is there.
FilePlace == {"idle", "original", "backup", "truncate", "fill", "stat", "read", "eof"}

\* A worker's job is of the kind its place belongs to.
FileShape ==
  /\ DOMAIN disk = File
  /\ place \in [FileWorker -> FilePlace] /\ DOMAIN task = FileWorker
  /\ DOMAIN mind = FileWorker /\ DOMAIN page = FileWorker
  /\ \A w \in FileWorker : place[w] # "idle" => task[w] \in FileJob
  /\ \A w \in FileWorker : place[w] \in {"original", "backup"} => task[w].kind = "patch"
  /\ \A w \in FileWorker : place[w] \in {"stat", "read", "eof"} => task[w].kind = "read"

\* Two workers that change one file at once are noted.
MeetingsNoted ==
  \A v, w \in FileWorker : v # w /\ v \in Changing(Target(w)) /\ w \in Changing(Target(w))
    => Target(w) \in met

\* What a patch with a backup is about to overwrite has been backed up.
BackedUp ==
  \A w \in FileWorker :
    LET f == Target(w) IN
    /\ place[w] = "truncate" /\ task[w].kind = "patch" /\ task[w].backup
    /\ There(f) /\ f \notin met
    => \E b \in backups : b.file = f /\ b.text = disk[f].text

\* Who met whom, and what is backed up, is known before anything is overwritten.
FileKept == FileShape /\ MeetingsNoted /\ BackedUp /\ OverwrittenIsKept

-----------------------------------------------------------------------------
\* A worker is only where its kind of job takes it.
LEMMA FileShapeStep ==
  ASSUME FileShape, FileNext
  PROVE  FileShape'
<1> USE FileAssumption DEF FileShape, To, In, FilePlace
<1>1. ASSUME NEW w \in FileWorker, NEW j \in FileJob, Take(w, j) PROVE FileShape'
  BY <1>1 DEF Take
<1>2. ASSUME NEW w \in FileWorker, ReadOriginal(w) PROVE FileShape'
  BY <1>2 DEF ReadOriginal
<1>3. ASSUME NEW w \in FileWorker, Backup(w) \/ Truncate(w) PROVE FileShape'
  BY <1>3 DEF Backup, Truncate
<1>4. ASSUME NEW w \in FileWorker, Fill(w) PROVE FileShape'
  BY <1>4 DEF Fill
<1>5. ASSUME NEW w \in FileWorker, Stat(w) \/ ReadPage(w) \/ HavingRead(w) PROVE FileShape'
  <2>1. UNCHANGED <<disk, task, mind>> /\ DOMAIN page' = FileWorker
    BY <1>5 DEF Stat, ReadPage, HavingRead
  <2>2. place[w] \in {"stat", "read", "eof"}
        /\ \E p \in {"idle", "stat", "read", "eof"} : place' = [place EXCEPT ![w] = p]
    <3>1. CASE Stat(w)
      BY <3>1 DEF Stat
    <3>2. CASE ReadPage(w)
      BY <3>2 DEF ReadPage
    <3>3. CASE HavingRead(w)
      BY <3>3 DEF HavingRead
    <3> QED
      BY <1>5, <3>1, <3>2, <3>3
  <2> QED
    BY <2>1, <2>2
<1>6. ASSUME NEW f \in File, Outside(f) PROVE FileShape'
  BY <1>6 DEF Outside
<1>7. CASE NextSecond
  BY <1>7 DEF NextSecond
<1>8. CASE WatchStart \/ FirstSnapshot \/ Poll \/ Record \/ Recorded \/ WatchPoll \/ WatchStop
  BY <1>8 DEF WatchStart, FirstSnapshot, Poll, Record, Recorded, WatchPoll, WatchStop, workVars
<1> QED
  BY <1>1, <1>2, <1>3, <1>4, <1>5, <1>6, <1>7, <1>8 DEF FileNext, WorkStep

\* A worker joins those that change a file only by noting whom it meets.
LEMMA MeetingsNotedStep ==
  ASSUME FileShape, MeetingsNoted, FileNext
  PROVE  MeetingsNoted'
<1> USE DEF FileShape, MeetingsNoted, Changing, Target, To, In
<1>1. ASSUME met \subseteq met', task' = task,
             \A v \in FileWorker : place'[v] \in {"backup", "truncate", "fill"}
               => place[v] \in {"backup", "truncate", "fill"}
      PROVE  MeetingsNoted'
  BY <1>1
<1>2. ASSUME NEW w \in FileWorker, NEW j \in FileJob, Take(w, j) PROVE MeetingsNoted'
  <2>1. /\ met \subseteq met' /\ task'[w] = j
        /\ \A v \in FileWorker \ {w} : place'[v] = place[v] /\ task'[v] = task[v]
    BY <1>2 DEF Take
  <2>2. place'[w] \in {"backup", "truncate", "fill"} => j.kind = "write"
    <3>1. j.kind \in {"patch", "write", "read"}
      BY FileAssumption
    <3>2. j.kind # "write" => place'[w] \in {"original", "stat"}
      BY <1>2, <3>1 DEF Take
    <3> QED
      BY <3>2
  <2>3. j.kind = "write" /\ Changing(j.file) # {} => j.file \in met'
    BY <1>2 DEF Take
  <2> SUFFICES ASSUME NEW u \in FileWorker, NEW v \in FileWorker, u # v,
                      Target(u)' = Target(v)',
                      place'[u] \in {"backup", "truncate", "fill"},
                      place'[v] \in {"backup", "truncate", "fill"}
               PROVE  Target(v)' \in met'
    OBVIOUS
  <2>4. CASE u # w /\ v # w
    BY <2>1, <2>4
  <2>5. CASE u = w
    <3>1. v \in Changing(j.file)
      BY <2>1, <2>5
    <3> QED
      BY <2>1, <2>2, <2>3, <2>5, <3>1
  <2>6. CASE v = w
    <3>1. u \in Changing(j.file)
      BY <2>1, <2>6
    <3> QED
      BY <2>1, <2>2, <2>3, <2>6, <3>1
  <2> QED
    BY <2>4, <2>5, <2>6
<1>3. ASSUME NEW w \in FileWorker, ReadOriginal(w) PROVE MeetingsNoted'
  BY <1>3 DEF ReadOriginal
<1>4. ASSUME NEW w \in FileWorker, Backup(w) \/ Truncate(w) \/ Fill(w) PROVE MeetingsNoted'
  BY <1>1, <1>4 DEF Backup, Truncate, Fill
<1>5. ASSUME NEW w \in FileWorker, Stat(w) \/ ReadPage(w) \/ HavingRead(w) PROVE MeetingsNoted'
  <2>1. CASE Stat(w)
    BY <1>1, <2>1 DEF Stat
  <2>2. CASE ReadPage(w)
    BY <1>1, <2>2 DEF ReadPage
  <2>3. CASE HavingRead(w)
    BY <1>1, <2>3 DEF HavingRead
  <2> QED
    BY <1>5, <2>1, <2>2, <2>3
<1>6. ASSUME NEW f \in File, Outside(f) PROVE MeetingsNoted'
  BY <1>1, <1>6 DEF Outside
<1>7. CASE NextSecond
  BY <1>1, <1>7 DEF NextSecond
<1>8. CASE WatchStart \/ FirstSnapshot \/ Poll \/ Record \/ Recorded \/ WatchPoll \/ WatchStop
  BY <1>1, <1>8 DEF WatchStart, FirstSnapshot, Poll, Record, Recorded, WatchPoll, WatchStop, workVars
<1> QED
  BY <1>2, <1>3, <1>4, <1>5, <1>6, <1>7, <1>8 DEF FileNext, WorkStep

\* A step after which no file's text, no backup and no place to truncate from
\* is new keeps what is backed up.
LEMMA BackedUpStep ==
  ASSUME FileShape, MeetingsNoted, BackedUp, FileNext
  PROVE  BackedUp'
<1> USE FileAssumption DEF FileShape, BackedUp, Target, There, To, In
<1>1. ASSUME met \subseteq met', backups' = backups, UNCHANGED <<task, disk>>,
             \A v \in FileWorker : place'[v] = "truncate" => place[v] = "truncate"
      PROVE  BackedUp'
  BY <1>1
\* Whoever writes to a file meets any other worker that is about to.
<1>2. ASSUME NEW f \in File, met \subseteq met', backups' = backups, task' = task,
             \A g \in File \ {f} : disk'[g] = disk[g],
             \A v \in FileWorker : place'[v] = "truncate" =>
               place[v] = "truncate" /\ (Target(v) = f => f \in met')
      PROVE  BackedUp'
  BY <1>2
<1>3. ASSUME NEW w \in FileWorker, NEW j \in FileJob, Take(w, j) PROVE BackedUp'
  BY <1>3 DEF Take
<1>4. ASSUME NEW w \in FileWorker, ReadOriginal(w) PROVE BackedUp'
  BY <1>4 DEF ReadOriginal
<1>5. ASSUME NEW w \in FileWorker, Backup(w) PROVE BackedUp'
  <2> DEFINE f == Target(w)
             same == {b \in backups : b.file = f /\ b.at = second}
             new == [file |-> f, at |-> second, text |-> disk[f].text]
  <2>1. CASE There(f)
    <3>1. /\ backups' = (backups \ same) \cup {new} /\ UNCHANGED <<disk, task>>
          /\ \A v \in FileWorker \ {w} : place'[v] = place[v]
          /\ met' = IF same # {} THEN met \cup {f} ELSE met
      BY <1>5, <2>1 DEF Backup
    <3>2. new.file = f /\ new.text = disk[f].text
      OBVIOUS
    <3>3. \A b \in backups : b \in backups' \/ b.file \in met'
      BY <3>1
    <3> SUFFICES ASSUME NEW v \in FileWorker,
                        place'[v] = "truncate", task'[v].kind = "patch", task'[v].backup,
                        There(Target(v))', Target(v)' \notin met'
                 PROVE  \E b \in backups' : b.file = Target(v)' /\ b.text = disk'[Target(v)'].text
      OBVIOUS
    <3>4. CASE v = w
      BY <3>1, <3>2, <3>4
    <3>5. CASE v # w
      <4>1. PICK b \in backups : b.file = Target(v) /\ b.text = disk[Target(v)].text
        BY <3>1, <3>5
      <4> QED
        BY <3>1, <3>3, <4>1
    <3> QED
      BY <3>4, <3>5
  <2>2. CASE ~There(f)
    BY <1>1, <1>5, <2>2 DEF Backup
  <2> QED
    BY <2>1, <2>2
<1>6. ASSUME NEW w \in FileWorker, Truncate(w) \/ Fill(w) PROVE BackedUp'
  <2>1. Target(w) \in File
    BY <1>6 DEF Truncate, Fill
  <2>2. \A v \in FileWorker \ {w} : place[v] = "truncate" /\ Target(v) = Target(w) => Target(w) \in met
    BY <1>6 DEF Truncate, Fill, MeetingsNoted, Changing
  <2>3. \A g \in File \ {Target(w)} : disk'[g] = disk[g]
    BY <1>6, <2>1 DEF Truncate, Fill
  <2>4. met' = met /\ backups' = backups /\ task' = task
    BY <1>6 DEF Truncate, Fill
  <2>5. place'[w] # "truncate" /\ \A v \in FileWorker \ {w} : place'[v] = place[v]
    BY <1>6 DEF Truncate, Fill
  <2>6. \A v \in FileWorker : place'[v] = "truncate" =>
          place[v] = "truncate" /\ (Target(v) = Target(w) => Target(w) \in met')
    BY <2>2, <2>4, <2>5
  <2> QED
    BY <1>2, <2>1, <2>3, <2>4, <2>6
<1>7. ASSUME NEW w \in FileWorker, Stat(w) \/ ReadPage(w) \/ HavingRead(w) PROVE BackedUp'
  BY <1>1, <1>7 DEF Stat, ReadPage, HavingRead
<1>8. ASSUME NEW f \in File, Outside(f) PROVE BackedUp'
  <2>1. \A g \in File \ {f} : disk'[g] = disk[g]
    BY <1>8 DEF Outside
  <2> QED
    BY <1>2, <1>8, <2>1 DEF Outside, Changing
<1>9. CASE NextSecond
  BY <1>1, <1>9 DEF NextSecond
<1>10. CASE WatchStart \/ FirstSnapshot \/ Poll \/ Record \/ Recorded \/ WatchPoll \/ WatchStop
  BY <1>1, <1>10 DEF WatchStart, FirstSnapshot, Poll, Record, Recorded, WatchPoll, WatchStop, workVars
<1> QED
  BY <1>3, <1>4, <1>5, <1>6, <1>7, <1>8, <1>9, <1>10 DEF FileNext, WorkStep

\* What is overwritten was backed up, and a backup goes only with its file noted.
LEMMA OverwrittenIsKeptStep ==
  ASSUME FileShape, BackedUp, OverwrittenIsKept, FileNext
  PROVE  OverwrittenIsKept'
<1> USE DEF OverwrittenIsKept
<1>1. ASSUME met \subseteq met', backups' = backups, gone' = gone PROVE OverwrittenIsKept'
  BY <1>1
<1>2. ASSUME NEW w \in FileWorker, NEW j \in FileJob, Take(w, j) PROVE OverwrittenIsKept'
  BY <1>1, <1>2 DEF Take
<1>3. ASSUME NEW w \in FileWorker, ReadOriginal(w) PROVE OverwrittenIsKept'
  BY <1>1, <1>3 DEF ReadOriginal
<1>4. ASSUME NEW w \in FileWorker, Backup(w) PROVE OverwrittenIsKept'
  <2> DEFINE f == Target(w)
             same == {b \in backups : b.file = f /\ b.at = second}
  <2>1. CASE There(f)
    <3>1. backups \ same \subseteq backups' /\ gone' = gone
          /\ met' = IF same # {} THEN met \cup {f} ELSE met
      BY <1>4, <2>1 DEF Backup
    <3>2. \A b \in backups : b \in backups' \/ b.file \in met'
      BY <3>1
    <3> QED
      BY <3>1, <3>2
  <2>2. CASE ~There(f)
    BY <1>1, <1>4, <2>2 DEF Backup
  <2> QED
    BY <2>1, <2>2
<1>5. ASSUME NEW w \in FileWorker, Truncate(w) PROVE OverwrittenIsKept'
  <2> DEFINE f == Target(w)
             new == [file |-> f, text |-> disk[f].text]
  <2>1. backups' = backups /\ met' = met /\ place[w] = "truncate"
    BY <1>5 DEF Truncate, In
  <2>2. CASE task[w].kind = "patch" /\ task[w].backup /\ There(f)
    <3>1. gone' = gone \cup {new}
      BY <1>5, <2>2 DEF Truncate
    <3>2. new.file = f /\ new.text = disk[f].text
      OBVIOUS
    <3>3. f \in met \/ \E b \in backups : b.file = f /\ b.text = disk[f].text
      BY <2>1, <2>2 DEF BackedUp
    <3> QED
      BY <2>1, <3>1, <3>2, <3>3
  <2>3. CASE ~(task[w].kind = "patch" /\ task[w].backup /\ There(f))
    BY <1>5, <2>1, <2>3 DEF Truncate
  <2> QED
    BY <2>2, <2>3
<1>6. ASSUME NEW w \in FileWorker, Fill(w) PROVE OverwrittenIsKept'
  BY <1>1, <1>6 DEF Fill
<1>7. ASSUME NEW w \in FileWorker, Stat(w) \/ ReadPage(w) \/ HavingRead(w) PROVE OverwrittenIsKept'
  BY <1>1, <1>7 DEF Stat, ReadPage, HavingRead
<1>8. ASSUME NEW f \in File, Outside(f) PROVE OverwrittenIsKept'
  BY <1>1, <1>8 DEF Outside
<1>9. CASE NextSecond
  BY <1>1, <1>9 DEF NextSecond
<1>10. CASE WatchStart \/ FirstSnapshot \/ Poll \/ Record \/ Recorded \/ WatchPoll \/ WatchStop
  BY <1>1, <1>10 DEF WatchStart, FirstSnapshot, Poll, Record, Recorded, WatchPoll, WatchStop, workVars
<1> QED
  BY <1>2, <1>3, <1>4, <1>5, <1>6, <1>7, <1>8, <1>9, <1>10 DEF FileNext, WorkStep

\* Nothing has been overwritten at first.
LEMMA FileKeptInit == FileInit => FileKept
<1> SUFFICES ASSUME FileInit PROVE FileKept
  OBVIOUS
<1>1. FileShape
  BY DEF FileInit, FileShape, FilePlace
<1>2. \A w \in FileWorker : place[w] = "idle"
  BY DEF FileInit
<1>3. MeetingsNoted /\ BackedUp
  BY <1>2 DEF MeetingsNoted, Changing, BackedUp
<1>4. OverwrittenIsKept
  BY DEF FileInit, OverwrittenIsKept
<1> QED
  BY <1>1, <1>3, <1>4 DEF FileKept

\* The four parts of FileKept rest on one another.
LEMMA FileKeptStep == FileKept /\ [FileNext]_fileVars => FileKept'
<1> SUFFICES ASSUME FileKept, [FileNext]_fileVars PROVE FileKept'
  OBVIOUS
<1>1. CASE FileNext
  BY <1>1, FileShapeStep, MeetingsNotedStep, BackedUpStep, OverwrittenIsKeptStep DEF FileKept
<1>2. CASE UNCHANGED fileVars
  BY <1>2 DEF fileVars, workVars, FileKept, FileShape, MeetingsNoted, BackedUp, OverwrittenIsKept,
              Changing, Target, There
<1> QED
  BY <1>1, <1>2

\* Whatever a patch with a backup overwrote can be found in a backup, unless
\* another writer had the file at the same time or two backups of it share a
\* second (executor_v2.py, _exec_patch_file).
THEOREM BackupsSuffice == KindsSpec => []OverwrittenIsKept
<1>1. [KindsNext]_<<vars, fileVars>> => [FileNext]_fileVars
  BY DEF KindsNext
<1>2. FileKept => OverwrittenIsKept
  BY DEF FileKept
<1> QED
  BY <1>1, <1>2, FileKeptInit, FileKeptStep, PTL DEF KindsSpec, KindsInit

-----------------------------------------------------------------------------
(* Minimal and greatest elements, and recursion over sets of numbers: what  *)
(* the library folds with, FoldLeft, is a function chosen to satisfy such a *)
(* recursion, so its existence has to be proved before its values are known.*)

\* A set of numbers that is not empty has a least one; an interval's subset
\* that is not empty has a greatest one.
LEMMA LeastNumber ==
  ASSUME NEW S \in SUBSET Nat, S # {}
  PROVE  \E m \in S : \A k \in S : m <= k
<1>1. PICK m \in S : \A k \in S : ~(<<k, m>> \in OpToRel(<, Nat))
  BY NatLessThanWellFounded, WFMin
<1>2. \A k \in S : ~(k < m)
  BY <1>1 DEF OpToRel
<1> QED
  BY <1>2

\* The greatest element of a set of numbers up to n, Max's choice, exists.
LEMMA GreatestOf ==
  ASSUME NEW n \in Nat, NEW s \in SUBSET (1..n), s # {}
  PROVE  Max(s) \in s /\ \A k \in s : k <= Max(s)
<1> DEFINE T == {n - k : k \in s}
<1>1. T \in SUBSET Nat /\ T # {}
  <2>1. \A k \in 1..n : n - k \in Nat
    OBVIOUS
  <2> QED
    BY <2>1
<1>2. PICK m \in T : \A k \in T : m <= k
  BY <1>1, LeastNumber
<1>3. PICK x \in s : m = n - x
  OBVIOUS
<1>4. \A k \in s : x >= k
  <2>1. \A k \in s : n - x <= n - k
    BY <1>2, <1>3
  <2> QED
    BY <2>1
<1> QED
  BY <1>4 DEF Max

\* A set of subsets of a finite set that is not empty has one with no smaller
\* one in it.
LEMMA SmallestSet ==
  ASSUME NEW D, IsFiniteSet(D), NEW T, \A t \in T : t \subseteq D, T # {}
  PROVE  \E s \in T : \A u \in T : u \subseteq s => u = s
<1>1. IsWellFoundedOn(StrictSubsetOrdering(D), SUBSET D)
  BY FS_StrictSubsetOrderingWellFounded, FS_FiniteSubsetsOfFinite
<1>2. PICK s \in T : \A u \in T : ~(<<u, s>> \in StrictSubsetOrdering(D))
  BY <1>1, WFMin
<1>3. \A u \in T : u \subseteq s => u = s
  BY <1>2 DEF StrictSubsetOrdering
<1> QED
  BY <1>3

\* A set of numbers up to n is finite.
LEMMA FiniteRange ==
  ASSUME NEW n \in Nat, NEW s \in SUBSET (1..n)
  PROVE  IsFiniteSet(s)
<1>1. IsFiniteSet(1..n)
  <2>1. 1 \in Int /\ n \in Int
    OBVIOUS
  <2> QED
    BY <2>1, FS_Interval
<1> QED
  BY <1>1, FS_Subset

\* Two functions that agree on a set once they agree on it without its
\* greatest element agree.
LEMMA Agree ==
  ASSUME NEW x, IsFiniteSet(x), \A s \in SUBSET x : s # {} => Max(s) \in s,
         NEW g, NEW h, g[{}] = h[{}],
         \A s \in SUBSET x : s # {} /\ g[s \ {Max(s)}] = h[s \ {Max(s)}] => g[s] = h[s]
  PROVE  g[x] = h[x]
<1> DEFINE Off == {s \in SUBSET x : g[s] # h[s]}
<1> SUFFICES ASSUME Off # {} PROVE FALSE
  OBVIOUS
<1>1. PICK s \in Off : \A r \in Off : r \subseteq s => r = s
  <2>1. \A r \in Off : r \subseteq x
    OBVIOUS
  <2> HIDE DEF Off
  <2> QED
    BY <2>1, SmallestSet
<1>2. s # {}
  OBVIOUS
<1>3. Max(s) \in s
  BY <1>2
<1>4. s \ {Max(s)} \in SUBSET x /\ s \ {Max(s)} \notin Off
  BY <1>1, <1>3
<1> QED
  BY <1>2, <1>4

-----------------------------------------------------------------------------
\* g folds the numbers of each set in X, the greatest last.
FoldsOver(g, X, base, step) ==
  \A u \in X : g[u] = IF u = {} THEN base ELSE step[<<g[u \ {Max(u)}], Max(u)>>]

\* A recursion over the sets of numbers up to n defines a function: one on the
\* proper subsets of a smallest set that had none extends to that set.
LEMMA FoldsExist ==
  ASSUME NEW n \in Nat, NEW R, NEW base \in R, NEW step \in [R \X (1..n) -> R]
  PROVE  \E g \in [SUBSET (1..n) -> R] : FoldsOver(g, SUBSET (1..n), base, step)
<1> DEFINE D == 1..n
           Folded(s) == \E g \in [SUBSET s -> R] : FoldsOver(g, SUBSET s, base, step)
           Bad == {s \in SUBSET D : ~Folded(s)}
<1> SUFFICES ASSUME Bad # {} PROVE FALSE
  OBVIOUS
<1>1. PICK s \in Bad : \A u \in Bad : u \subseteq s => u = s
  <2>1. (\A v \in Bad : v \subseteq D) /\ IsFiniteSet(D)
    BY FiniteRange
  <2> HIDE DEF Bad
  <2> QED
    BY <2>1, SmallestSet
<1> DEFINE G(u) == CHOOSE g \in [SUBSET u -> R] : FoldsOver(g, SUBSET u, base, step)
<1>2. \A u \in SUBSET s : u # s => G(u) \in [SUBSET u -> R] /\ FoldsOver(G(u), SUBSET u, base, step)
  BY <1>1
<1> HIDE DEF G
<1>3. \A u, v \in SUBSET s : u # s /\ v \subseteq u => G(u)[v] = G(v)[v]
  <2> SUFFICES ASSUME NEW u \in SUBSET s, NEW v \in SUBSET s, u # s, v \subseteq u
               PROVE  G(u)[v] = G(v)[v]
    OBVIOUS
  <2>1. FoldsOver(G(u), SUBSET u, base, step) /\ FoldsOver(G(v), SUBSET v, base, step)
    BY <1>2
  <2>2. G(u)[{}] = G(v)[{}]
    BY <2>1 DEF FoldsOver
  <2>3. \A t \in SUBSET v : t # {} /\ G(u)[t \ {Max(t)}] = G(v)[t \ {Max(t)}]
          => G(u)[t] = G(v)[t]
    BY <2>1 DEF FoldsOver
  <2>4. IsFiniteSet(v) /\ \A t \in SUBSET v : t # {} => Max(t) \in t
    BY FiniteRange, GreatestOf
  <2> QED
    BY <2>2, <2>3, <2>4, Agree
<1> DEFINE prior(u) == u \ {Max(u)}
           g == [u \in SUBSET s |-> IF u = {} THEN base
                                    ELSE step[<<G(prior(u))[prior(u)], Max(u)>>]]
<1>4. \A u \in SUBSET s : u # {} =>
        /\ Max(u) \in u /\ Max(u) \in D
        /\ prior(u) \in SUBSET s /\ prior(u) # s
  BY GreatestOf
<1>5. \A u \in SUBSET s : u # {} => G(prior(u))[prior(u)] \in R
  <2>1. \A u \in SUBSET s : u # s => G(u)[u] \in R
    BY <1>2
  <2> QED
    BY <1>4, <2>1
<1>6. g \in [SUBSET s -> R]
  BY <1>4, <1>5
<1>7. \A u \in SUBSET s : u # s => g[u] = G(u)[u]
  <2> SUFFICES ASSUME NEW u \in SUBSET s, u # s PROVE g[u] = G(u)[u]
    OBVIOUS
  <2>1. G(u)[u] = IF u = {} THEN base ELSE step[<<G(u)[prior(u)], Max(u)>>]
    BY <1>2 DEF FoldsOver
  <2>2. u # {} => G(u)[prior(u)] = G(prior(u))[prior(u)]
    BY <1>3, <1>4
  <2> QED
    BY <2>1, <2>2
<1>8. FoldsOver(g, SUBSET s, base, step)
  <2> SUFFICES ASSUME NEW u \in SUBSET s, u # {}
               PROVE  g[u] = step[<<g[prior(u)], Max(u)>>]
    BY DEF FoldsOver
  <2> QED
    BY <1>4, <1>7
<1> QED
  BY <1>1, <1>6, <1>8

\* Without its greatest element 1..k is 1..(k-1).
LEMMA LastOf ==
  ASSUME NEW k \in Nat \ {0}
  PROVE  Max(1..k) = k /\ (1..k) \ {Max(1..k)} = 1..(k-1)
<1>1. 1..k # {} /\ k \in 1..k /\ (1..k) \ {k} = 1..(k-1)
  OBVIOUS
<1>2. Max(1..k) \in 1..k /\ k <= Max(1..k)
  BY <1>1, GreatestOf
<1>3. Max(1..k) = k
  BY <1>2
<1> QED
  BY <1>1, <1>3

-----------------------------------------------------------------------------
(* What patch_file makes of a text is a text *)

\* What Edited gives back: whether the patch applies, and the text it makes.
EditResult == [ok : BOOLEAN, text : Text]

\* Sequences put end to end are a sequence of what they hold.
LEMMA FlattenTyping ==
  ASSUME NEW X, NEW seqs \in Seq(Seq(X))
  PROVE  FlattenSeq(seqs) \in Seq(X)
<1> DEFINE n == Len(seqs)
           R == Seq(X)
           step == [p \in R \X (1..n) |-> p[1] \o seqs[p[2]]]
           F(fl) == [i \in 1..n |-> IF i = 1 THEN seqs[i] ELSE fl[i-1] \o seqs[i]]
           flatten == CHOOSE fl : fl = F(fl)
<1>0. n \in Nat /\ \A i \in 1..n : seqs[i] \in R
  OBVIOUS
<1>1. CASE n = 0
  <2>1. seqs = <<>>
    BY <1>1
  <2> QED
    BY <1>1, <2>1 DEF FlattenSeq
<1>2. CASE n # 0
  <2>1. FlattenSeq(seqs) = flatten[n]
    BY <1>2 DEF FlattenSeq
  <2>2. step \in [R \X (1..n) -> R] /\ <<>> \in R
    BY <1>0
  <2>3. PICK g \in [SUBSET (1..n) -> R] : FoldsOver(g, SUBSET (1..n), <<>>, step)
    <3> HIDE DEF step, n, R
    <3> QED
      BY <1>0, <2>2, FoldsExist
  <2>4. \A i \in 1..n : i \in Nat /\ 1 <= i /\ i <= n
    OBVIOUS
  <2>5. ASSUME NEW i \in 1..n
        PROVE  g[1..i] \in R /\ g[1..(i-1)] \in R /\ g[1..i] = g[1..(i-1)] \o seqs[i]
    <3>1. Max(1..i) = i /\ (1..i) \ {Max(1..i)} = 1..(i-1)
      <4>1. i \in Nat \ {0}
        BY <2>4
      <4> QED
        BY <4>1, LastOf
    <3>2. 1..i \in SUBSET (1..n) /\ 1..(i-1) \in SUBSET (1..n) /\ 1..i # {}
      <4> HIDE DEF n
      <4>1. 1 \in 1..i
        BY <2>4
      <4>2. 1..i # {}
        BY <4>1
      <4>3. 1..i \in SUBSET (1..n) /\ 1..(i-1) \in SUBSET (1..n)
        BY <1>0, <2>4
      <4> QED
        BY <4>2, <4>3
    <3>3. g[1..i] = step[<<g[1..(i-1)], i>>]
      BY <2>3, <3>1, <3>2 DEF FoldsOver
    <3>4. g[1..i] \in R /\ g[1..(i-1)] \in R
      BY <2>3, <3>2
    <3>5. <<g[1..(i-1)], i>> \in R \X (1..n)
      BY <3>4
    <3> QED
      BY <3>3, <3>4, <3>5
  <2> DEFINE fl == [i \in 1..n |-> g[1..i]]
  <2>6. \A i \in 1..n : i # 1 => i-1 \in 1..n
    BY <2>4
  <2>7. \A i \in 1..n : fl[i] = IF i = 1 THEN seqs[i] ELSE fl[i-1] \o seqs[i]
    <3>1. g[1..0] = <<>>
      <4>1. 1..0 = {} /\ {} \in SUBSET (1..n)
        OBVIOUS
      <4>2. g[{}] = <<>>
        BY <2>3, <4>1 DEF FoldsOver
      <4> QED
        BY <4>1, <4>2
    <3>2. ASSUME NEW i \in 1..n, i = 1 PROVE fl[i] = seqs[i]
      <4>1. g[1..1] = g[1..0] \o seqs[1]
        <5>1. g[1..i] = g[1..(i-1)] \o seqs[i]
          BY <2>5
        <5>2. i-1 = 0
          BY <3>2
        <5> QED
          BY <3>2, <5>1, <5>2
      <4>2. seqs[1] \in Seq(X)
        BY <1>0, <3>2
      <4> QED
        BY <3>1, <3>2, <4>1, <4>2
    <3>3. ASSUME NEW i \in 1..n, i # 1 PROVE fl[i] = fl[i-1] \o seqs[i]
      BY <2>5, <2>6, <3>3
    <3> QED
      BY <3>2, <3>3
  <2>8. flatten = F(flatten)
    <3>1. fl = F(fl)
      BY <2>7
    <3> HIDE DEF F
    <3> QED
      BY <3>1
  <2>9. \A i \in 1..n : flatten[i] = IF i = 1 THEN seqs[i] ELSE flatten[i-1] \o seqs[i]
    <3> HIDE DEF flatten
    <3> QED
      BY <2>8
  <2> DEFINE Off == {i \in 1..n : flatten[i] \notin R}
  <2>10. Off = {}
    <3> SUFFICES ASSUME Off # {} PROVE FALSE
      OBVIOUS
    <3>1. Off \in SUBSET Nat
      BY <2>4
    <3>2. PICK i \in Off : \A j \in Off : i <= j
      <4> HIDE DEF Off
      <4> QED
        BY <3>1, LeastNumber
    <3>3. i # 1
      BY <1>0, <2>9
    <3>4. i-1 \in 1..n /\ i-1 \notin Off
      <4>1. i-1 \in 1..n
        BY <2>6, <3>3
      <4>2. ~(i <= i-1)
        BY <2>4
      <4> QED
        BY <3>2, <4>1, <4>2
    <3>5. flatten[i-1] \in R
      BY <3>4
    <3>6. flatten[i] = flatten[i-1] \o seqs[i] /\ seqs[i] \in R
      BY <1>0, <2>9, <3>3
    <3>7. flatten[i] \in R
      <4> HIDE DEF flatten
      <4> QED
        BY <3>5, <3>6
    <3> QED
      BY <3>7
  <2>11. n \in 1..n
    BY <1>0, <1>2
  <2> QED
    BY <2>1, <2>10, <2>11
<1> QED
  BY <1>1, <1>2

\* One edit of a text gives a text.
LEMMA EditTyping ==
  ASSUME NEW r \in EditResult, NEW e \in Edit
  PROVE  Edited(r, e) \in EditResult
<1>1. r.text \in Seq(Token) /\ e.new \in Seq(Token)
  BY DEF EditResult, Edit, Text
<1> DEFINE seqs == [i \in DOMAIN r.text |-> IF r.text[i] = e.old THEN e.new ELSE <<r.text[i]>>]
<1>2. seqs \in Seq(Seq(Token))
  <2>1. \A i \in DOMAIN r.text : <<r.text[i]>> \in Seq(Token)
    BY <1>1
  <2>2. DOMAIN r.text = 1..Len(r.text) /\ Len(r.text) \in Nat
    BY <1>1
  <2> QED
    BY <1>1, <2>1, <2>2
<1>3. Replaced(r.text, e) \in Seq(Token)
  <2> HIDE DEF seqs
  <2>1. FlattenSeq(seqs) \in Seq(Token)
    BY <1>2, FlattenTyping
  <2> QED
    BY <2>1 DEF Replaced, seqs
<1> QED
  BY <1>1, <1>3 DEF Edited, EditResult, Text

\* A whole patch of a text gives a text, or is refused.
LEMMA PatchTyping ==
  ASSUME NEW text \in Text, NEW list \in Seq(Edit)
  PROVE  Patched(text, list) \in EditResult
<1> DEFINE n == Len(list)
           R == EditResult
           base == [ok |-> TRUE, text |-> text]
           step == [p \in R \X (1..n) |-> Edited(p[1], list[p[2]])]
           F(it) == [s \in SUBSET (1..n) |->
                      IF s = {} THEN base ELSE Edited(it[s \ {Max(s)}], list[Max(s)])]
           iter == CHOOSE it : it = F(it)
<1>0. n \in Nat /\ DOMAIN list = 1..n /\ (\A k \in 1..n : list[k] \in Edit) /\ base \in R
  BY DEF EditResult
<1>1. Patched(text, list) = iter[1..n]
  BY <1>0 DEF Patched, FoldLeft, MapThenFoldSet
<1>2. step \in [R \X (1..n) -> R]
  BY <1>0, EditTyping
<1>3. PICK g \in [SUBSET (1..n) -> R] : FoldsOver(g, SUBSET (1..n), base, step)
  <2> HIDE DEF step, n
  <2> QED
    BY <1>0, <1>2, FoldsExist
<1>4. \A s \in SUBSET (1..n) : s # {} => Max(s) \in 1..n /\ s \ {Max(s)} \in SUBSET (1..n)
  <2> HIDE DEF n
  <2> QED
    BY <1>0, GreatestOf
<1>5. \A s \in SUBSET (1..n) :
        g[s] = IF s = {} THEN base ELSE Edited(g[s \ {Max(s)}], list[Max(s)])
  <2> SUFFICES ASSUME NEW s \in SUBSET (1..n)
               PROVE  g[s] = IF s = {} THEN base ELSE Edited(g[s \ {Max(s)}], list[Max(s)])
    OBVIOUS
  <2>1. g[s] = IF s = {} THEN base ELSE step[<<g[s \ {Max(s)}], Max(s)>>]
    BY <1>3 DEF FoldsOver
  <2>2. s # {} => <<g[s \ {Max(s)}], Max(s)>> \in R \X (1..n)
    BY <1>3, <1>4
  <2> QED
    BY <2>1, <2>2
<1>6. iter = F(iter)
  <2>1. g = F(g)
    BY <1>5
  <2> HIDE DEF F
  <2> QED
    BY <2>1
<1>7. \A s \in SUBSET (1..n) :
        iter[s] = IF s = {} THEN base ELSE Edited(iter[s \ {Max(s)}], list[Max(s)])
  <2> HIDE DEF iter
  <2> QED
    BY <1>6
<1>8. iter[1..n] = g[1..n]
  <2>1. iter[{}] = g[{}]
    BY <1>5, <1>7
  <2>2. \A s \in SUBSET (1..n) :
          s # {} /\ iter[s \ {Max(s)}] = g[s \ {Max(s)}] => iter[s] = g[s]
    BY <1>5, <1>7
  <2>3. IsFiniteSet(1..n) /\ \A s \in SUBSET (1..n) : s # {} => Max(s) \in s
    <3> HIDE DEF n
    <3> QED
      BY <1>0, FiniteRange, GreatestOf
  <2> HIDE DEF iter, n
  <2> QED
    BY <2>1, <2>2, <2>3, Agree
<1>9. 1..n \in SUBSET (1..n)
  OBVIOUS
<1>10. g[1..n] \in R
  BY <1>3, <1>9
<1> QED
  <2> HIDE DEF iter
  <2> QED
    BY <1>1, <1>8, <1>10

-----------------------------------------------------------------------------
(* Pages *)

\* What a reader keeps between two calls of read_file.
Page == [offset : Nat, total : Nat, got : Text, since : Nat]

\* Texts are texts, and every change of a file has a time of its own, older than
\* the next: an mtime that is the same names the same text.
FileTyped ==
  /\ writes \in Nat
  /\ disk \in [File -> [text : Text, mtime : Nat]]
  /\ mind \in [FileWorker -> Text] /\ page \in [FileWorker -> Page]
  /\ \A f \in File : disk[f].mtime < writes
  /\ \A w \in FileWorker : page[w].since < writes

\* What a reader has is the file up to where it is, unless the file has
\* changed since its first look.
PagesFollow ==
  \A w \in FileWorker :
    LET file == disk[Target(w)] IN
    place[w] \in {"stat", "read", "eof"} =>
      /\ page[w].offset = Len(page[w].got)
      /\ place[w] # "stat" \/ page[w].offset > 0 => page[w].since # 0
      /\ page[w].since # 0 /\ file.mtime = page[w].since =>
           /\ page[w].offset <= Len(file.text)
           /\ page[w].got = SubSeq(file.text, 1, page[w].offset)
           /\ place[w] = "read" => page[w].total = Len(file.text)
           /\ place[w] = "eof" => page[w].offset = Len(file.text)

\* What is inductive for a reader that follows next_offset.
PagesKept == FileShape /\ FileTyped /\ PagesFollow

\* Adjacent pieces of a sequence make one.
LEMMA Adjacent ==
  ASSUME NEW X, NEW s \in Seq(X), NEW a \in Nat, NEW m \in Nat, a <= m, m <= Len(s)
  PROVE  /\ SubSeq(s, 1, a) \in Seq(X) /\ SubSeq(s, a + 1, m) \in Seq(X)
         /\ Len(SubSeq(s, a + 1, m)) = m - a
         /\ SubSeq(s, 1, a) \o SubSeq(s, a + 1, m) = SubSeq(s, 1, m)
<1> DEFINE front == SubSeq(s, 1, a)
           back == SubSeq(s, a + 1, m)
           joined == SubSeq(s, 1, m)
<1>1. \A i \in 1 .. m : s[i] \in X
  OBVIOUS
<1>2. /\ front \in Seq(X) /\ Len(front) = a
      /\ \A i \in 1 .. a : front[i] = s[i]
  <2>1. \A i \in 1 .. a : s[i] \in X
    BY <1>1
  <2>2. /\ front \in Seq(X) /\ Len(front) = IF 1 <= a THEN a - 1 + 1 ELSE 0
        /\ \A i \in 1 .. a - 1 + 1 : front[i] = s[1 + i - 1]
    BY <2>1, SubSeqProperties
  <2> QED
    BY <2>2
<1>3. /\ back \in Seq(X) /\ Len(back) = m - a
      /\ \A i \in 1 .. m - a : back[i] = s[a + i]
  <2>1. \A i \in a + 1 .. m : s[i] \in X
    BY <1>1
  <2>2. a + 1 \in Int /\ m \in Int
    OBVIOUS
  <2>3. /\ back \in Seq(X) /\ Len(back) = IF a + 1 <= m THEN m - (a + 1) + 1 ELSE 0
        /\ \A i \in 1 .. m - (a + 1) + 1 : back[i] = s[a + 1 + i - 1]
    BY <2>1, <2>2, SubSeqProperties
  <2> QED
    BY <2>3
<1>4. /\ joined \in Seq(X) /\ Len(joined) = m
      /\ \A i \in 1 .. m : joined[i] = s[i]
  <2>1. /\ joined \in Seq(X) /\ Len(joined) = IF 1 <= m THEN m - 1 + 1 ELSE 0
        /\ \A i \in 1 .. m - 1 + 1 : joined[i] = s[1 + i - 1]
    BY <1>1, SubSeqProperties
  <2> QED
    BY <2>1
<1> HIDE DEF front, back, joined
<1>5. /\ front \o back \in Seq(X) /\ Len(front \o back) = Len(front) + Len(back)
      /\ \A i \in 1 .. Len(front) + Len(back) :
           (front \o back)[i] = IF i <= Len(front) THEN front[i] ELSE back[i - Len(front)]
  BY <1>2, <1>3, ConcatProperties
<1>6. Len(front \o back) = m
  BY <1>2, <1>3, <1>5
<1>7. ASSUME NEW i \in 1 .. m PROVE (front \o back)[i] = joined[i]
  <2>1. (front \o back)[i] = IF i <= a THEN front[i] ELSE back[i - a]
    BY <1>2, <1>3, <1>5
  <2>2. CASE i <= a
    BY <1>2, <1>4, <2>1, <2>2
  <2>3. CASE ~(i <= a)
    <3>1. i - a \in 1 .. m - a /\ a + (i - a) = i
      BY <2>3
    <3>2. back[i - a] = s[a + (i - a)]
      BY <1>3, <3>1
    <3> QED
      BY <1>4, <2>1, <2>3, <3>1, <3>2
  <2> QED
    BY <2>2, <2>3
<1>8. front \o back = joined
  BY <1>4, <1>5, <1>6, <1>7, SeqEqual
<1> QED
  BY <1>2, <1>3, <1>8 DEF front, back, joined

\* A piece of a text is a text.
LEMMA SubText ==
  ASSUME NEW text \in Text, NEW a \in Nat, NEW b \in Nat, a >= 1, b <= Len(text)
  PROVE  SubSeq(text, a, b) \in Text
  BY DEF Text

\* Files and copies hold texts, and every change of a file has a new time.
LEMMA FileTypedStep ==
  ASSUME FileShape, FileTyped, FileNext
  PROVE  FileTyped'
<1> USE FileAssumption DEF FileShape, FileTyped, To, In, FilePlace, Target, There
<1>1. ASSUME writes' = writes, disk' = disk, mind' = mind, page' = page PROVE FileTyped'
  BY <1>1
<1>2. ASSUME NEW w \in FileWorker, NEW j \in FileJob, Take(w, j) PROVE FileTyped'
  <2>1. j.text \in Text /\ NoPage \in Page /\ NoPage.since = 0
    BY DEF NoPage, Page, Text
  <2>2. writes > 0
    OBVIOUS
  <2> QED
    BY <1>2, <2>1 DEF Take
<1>3. ASSUME NEW w \in FileWorker, ReadOriginal(w) PROVE FileTyped'
  <2>1. place[w] = "original" /\ disk[Target(w)].text \in Text /\ task[w].edits \in Seq(Edit)
    BY <1>3 DEF ReadOriginal
  <2>2. Patched(disk[Target(w)].text, task[w].edits) \in EditResult
    BY <2>1, PatchTyping
  <2> DEFINE result == Patched(disk[Target(w)].text, task[w].edits)
  <2>3. result.text \in Text
    BY <2>2 DEF EditResult
  <2>4. mind' = mind \/ mind' = [mind EXCEPT ![w] = result.text]
    BY <1>3 DEF ReadOriginal
  <2>5. mind' \in [FileWorker -> Text]
    <3> HIDE DEF result
    <3> QED
      BY <2>3, <2>4
  <2>6. UNCHANGED <<disk, writes, page>>
    BY <1>3 DEF ReadOriginal
  <2> QED
    BY <2>5, <2>6
\* Every change to a file has a time of its own.
<1>4. ASSUME NEW f \in File, NEW t \in Text, NEW m \in {0, writes}, writes' = writes + 1,
             disk' = [disk EXCEPT ![f] = [text |-> t, mtime |-> m]] \/ disk' = disk,
             mind' = mind, page' = page
      PROVE  FileTyped'
  <2>1. writes' \in Nat /\ m \in Nat /\ m < writes'
    BY <1>4
  <2> DEFINE new == [text |-> t, mtime |-> m]
  <2>2. disk' \in [File -> [text : Text, mtime : Nat]]
    <3>1. new \in [text : Text, mtime : Nat]
      BY <2>1
    <3>2. disk' = [disk EXCEPT ![f] = new] \/ disk' = disk
      BY <1>4
    <3> HIDE DEF new
    <3> QED
      BY <3>1, <3>2
  <2>3. \A g \in File : disk'[g].mtime < writes'
    <3>1. \A g \in File : disk[g].mtime \in Nat /\ disk[g].mtime < writes'
      BY <1>4
    <3>2. \A g \in File : disk'[g] = disk[g] \/ disk'[g].mtime = m
      BY <1>4
    <3> QED
      BY <2>1, <3>1, <3>2
  <2>4. \A w \in FileWorker : page'[w].since < writes'
    BY <1>4 DEF Page
  <2> QED
    BY <1>4, <2>1, <2>2, <2>3, <2>4
<1>5. ASSUME NEW w \in FileWorker, Backup(w) \/ HavingRead(w) PROVE FileTyped'
  BY <1>1, <1>5 DEF Backup, HavingRead
<1>6. ASSUME NEW w \in FileWorker, Truncate(w) PROVE FileTyped'
  <2>1. Target(w) \in File /\ <<>> \in Text
    BY <1>6 DEF Truncate, Text
  <2> QED
    BY <1>4, <1>6, <2>1 DEF Truncate
<1>7. ASSUME NEW w \in FileWorker, Fill(w) PROVE FileTyped'
  <2> DEFINE old == disk[Target(w)].text
             tail == IF Len(old) > Len(mind[w]) THEN SubSeq(old, Len(mind[w]) + 1, Len(old)) ELSE <<>>
  <2>1. Target(w) \in File /\ old \in Text /\ mind[w] \in Text
    BY <1>7 DEF Fill
  <2>2. mind[w] \o tail \in Text
    <3> HIDE DEF old
    <3>1. tail \in Text
      BY <2>1 DEF Text
    <3> HIDE DEF tail
    <3> QED
      BY <2>1, <3>1 DEF Text
  <2>3. /\ \/ disk' = [disk EXCEPT ![Target(w)] = [text |-> mind[w] \o tail, mtime |-> writes]]
           \/ disk' = disk
        /\ writes' = writes + 1 /\ mind' = mind /\ page' = page
    BY <1>7 DEF Fill
  <2> HIDE DEF tail
  <2> QED
    BY <1>4, <2>1, <2>2, <2>3
<1>8. ASSUME NEW w \in FileWorker, Stat(w) PROVE FileTyped'
  <2>1. Target(w) \in File /\ disk[Target(w)].text \in Text /\ disk[Target(w)].mtime \in Nat
        /\ page[w] \in Page
    BY <1>8 DEF Stat
  <2>2. UNCHANGED <<disk, writes, mind>>
    BY <1>8 DEF Stat
  <2>3. CASE There(Target(w))
    <3> DEFINE p == [page[w] EXCEPT !.total = Len(disk[Target(w)].text),
                                    !.since = IF page[w].offset = 0 THEN disk[Target(w)].mtime ELSE @]
    <3>1. page' = [page EXCEPT ![w] = p]
      BY <1>8, <2>3 DEF Stat
    <3>2. Len(disk[Target(w)].text) \in Nat
      BY <2>1 DEF Text
    <3>3. p \in Page /\ p.since < writes
      BY <2>1, <3>2 DEF Page
    <3> HIDE DEF p
    <3> QED
      BY <2>2, <3>1, <3>3
  <2>4. CASE ~There(Target(w))
    BY <1>1, <1>8, <2>2, <2>4 DEF Stat
  <2> QED
    BY <2>3, <2>4
<1>9. ASSUME NEW w \in FileWorker, ReadPage(w) PROVE FileTyped'
  <2> DEFINE text == disk[Target(w)].text
             end == page[w].offset + task[w].limit
             raw == SubSeq(text, page[w].offset + 1, IF end < Len(text) THEN end ELSE Len(text))
  <2>1. text \in Text /\ page[w] \in Page /\ task[w].limit \in Nat
    BY <1>9 DEF ReadPage
  <2>2. UNCHANGED <<disk, writes, mind>>
    BY <1>9 DEF ReadPage
  <2>3. CASE There(Target(w))
    <3> DEFINE p == [page[w] EXCEPT !.offset = @ + Len(raw), !.got = @ \o raw]
    <3>1. page' = [page EXCEPT ![w] = p]
      BY <1>9, <2>3 DEF ReadPage
    <3>2. raw \in Text
      <4> HIDE DEF text
      <4>1. page[w].offset \in Nat /\ Len(text) \in Nat /\ end \in Nat
        BY <2>1 DEF Page, Text
      <4> DEFINE b == IF end < Len(text) THEN end ELSE Len(text)
      <4>2. b \in Nat /\ b <= Len(text) /\ page[w].offset + 1 \in Nat /\ page[w].offset + 1 >= 1
        BY <4>1
      <4> HIDE DEF end, b
      <4>3. SubSeq(text, page[w].offset + 1, b) \in Text
        BY <2>1, <4>2, SubText
      <4> QED
        BY <4>3 DEF b
    <3>3. Len(raw) \in Nat
      <4> HIDE DEF raw
      <4> QED
        BY <3>2 DEF Text
    <3> HIDE DEF raw
    <3>4. page[w].offset + Len(raw) \in Nat /\ page[w].got \o raw \in Text
      BY <2>1, <3>2, <3>3 DEF Page, Text
    <3>5. p \in Page /\ p.since = page[w].since
      BY <2>1, <3>4 DEF Page
    <3> HIDE DEF p
    <3> QED
      BY <2>2, <3>1, <3>5
  <2>4. CASE ~There(Target(w))
    BY <1>1, <1>9, <2>2, <2>4 DEF ReadPage
  <2> QED
    BY <2>3, <2>4
<1>10. ASSUME NEW f \in File, Outside(f) PROVE FileTyped'
  <2>1. writes' = writes + 1 /\ mind' = mind /\ page' = page
    BY <1>10 DEF Outside
  <2>2. <<>> \in Text
    BY DEF Text
  <2>3. CASE \E t \in OtherTexts : disk' = [disk EXCEPT ![f] = [text |-> t, mtime |-> writes]]
    BY <1>4, <2>1, <2>3
  <2>4. CASE disk' = [disk EXCEPT ![f] = [text |-> <<>>, mtime |-> 0]]
    BY <1>4, <2>1, <2>2, <2>4
  <2> QED
    BY <1>10, <2>3, <2>4 DEF Outside
<1>11. CASE NextSecond
  BY <1>1, <1>11 DEF NextSecond
<1>12. CASE WatchStart \/ FirstSnapshot \/ Poll \/ Record \/ Recorded \/ WatchPoll \/ WatchStop
  BY <1>1, <1>12 DEF WatchStart, FirstSnapshot, Poll, Record, Recorded, WatchPoll, WatchStop, workVars
<1> QED
  BY <1>2, <1>3, <1>5, <1>6, <1>7, <1>8, <1>9, <1>10, <1>11, <1>12 DEF FileNext, WorkStep

\* A reader goes on from where it was, and a changed file shows a later time.
LEMMA PagesFollowStep ==
  ASSUME FileShape, FileTyped, PagesFollow, FileNext
  PROVE  PagesFollow'
<1> USE FileAssumption DEF FileShape, To, In, Target, There
<1> DEFINE Follows(w) ==
             LET file == disk[Target(w)] IN
             place[w] \in {"stat", "read", "eof"} =>
               /\ page[w].offset = Len(page[w].got)
               /\ place[w] # "stat" \/ page[w].offset > 0 => page[w].since # 0
               /\ page[w].since # 0 /\ file.mtime = page[w].since =>
                    /\ page[w].offset <= Len(file.text)
                    /\ page[w].got = SubSeq(file.text, 1, page[w].offset)
                    /\ place[w] = "read" => page[w].total = Len(file.text)
                    /\ place[w] = "eof" => page[w].offset = Len(file.text)
<1>0. \A w \in FileWorker : Follows(w)
  BY DEF PagesFollow
<1> SUFFICES \A w \in FileWorker : Follows(w)'
  BY DEF PagesFollow
<1>1. ASSUME disk' = disk,
             NEW v \in FileWorker, task'[v] = task[v], page'[v] = page[v], place'[v] = place[v]
      PROVE  Follows(v)'
  BY <1>0, <1>1
\* A worker that is not reading follows nothing.
<1>2. ASSUME NEW v \in FileWorker, place'[v] \notin {"stat", "read", "eof"} PROVE Follows(v)'
  BY <1>2
\* A file that changes no longer has the time of a reader's first look.
<1>3. ASSUME NEW f \in File, \A g \in File \ {f} : disk'[g] = disk[g],
             disk'[f].mtime \in {0, writes} \/ disk'[f] = disk[f],
             NEW v \in FileWorker, task'[v] = task[v], page'[v] = page[v], place'[v] = place[v]
      PROVE  Follows(v)'
  <2>1. CASE place[v] \in {"stat", "read", "eof"}
    <3>1. Target(v) \in File
      BY <2>1
    <3>2. page[v].since < writes /\ page[v].since \in Nat /\ writes \in Nat
      BY DEF FileTyped, Page
    <3>3. CASE disk'[Target(v)] = disk[Target(v)]
      BY <1>0, <1>3, <3>3
    <3>4. CASE disk'[Target(v)] # disk[Target(v)]
      <4>1. disk'[Target(v)].mtime \in {0, writes}
        BY <1>3, <3>1, <3>4
      <4>2. page[v].since = 0 \/ disk'[Target(v)].mtime # page[v].since
        BY <3>2, <4>1
      <4> QED
        BY <1>0, <1>3, <2>1, <4>2
    <3> QED
      BY <3>3, <3>4
  <2>2. CASE place[v] \notin {"stat", "read", "eof"}
    BY <1>2, <1>3, <2>2
  <2> QED
    BY <2>1, <2>2
<1>4. ASSUME NEW w \in FileWorker, NEW j \in FileJob, Take(w, j), NEW v \in FileWorker PROVE Follows(v)'
  <2>1. disk' = disk /\ page' = [page EXCEPT ![w] = NoPage] /\ task' = [task EXCEPT ![w] = j]
        /\ \A u \in FileWorker \ {w} : place'[u] = place[u]
    BY <1>4 DEF Take
  <2>2. place'[w] \notin {"read", "eof"}
    BY <1>4 DEF Take
  <2>3. CASE v = w
    <3>1. page'[v] = NoPage
      BY <2>1, <2>3
    <3> QED
      BY <2>2, <2>3, <3>1 DEF NoPage
  <2>4. CASE v # w
    BY <1>1, <2>1, <2>4
  <2> QED
    BY <2>3, <2>4
<1>5. ASSUME NEW w \in FileWorker, ReadOriginal(w) \/ Backup(w) \/ HavingRead(w),
             NEW v \in FileWorker
      PROVE  Follows(v)'
  <2>1. UNCHANGED <<disk, task, page>> /\ (\A u \in FileWorker \ {w} : place'[u] = place[u])
        /\ place'[w] \notin {"stat", "read", "eof"}
    <3>1. CASE ReadOriginal(w)
      BY <3>1 DEF ReadOriginal
    <3>2. CASE Backup(w)
      BY <3>2 DEF Backup
    <3>3. CASE HavingRead(w)
      BY <3>3 DEF HavingRead
    <3> QED
      BY <1>5, <3>1, <3>2, <3>3
  <2> QED
    BY <1>1, <1>2, <2>1
<1>6. ASSUME NEW w \in FileWorker, Truncate(w) \/ Fill(w), NEW v \in FileWorker PROVE Follows(v)'
  <2>1. Target(w) \in File
    BY <1>6 DEF Truncate, Fill
  <2>2. /\ \A g \in File \ {Target(w)} : disk'[g] = disk[g]
        /\ disk'[Target(w)].mtime = writes \/ disk'[Target(w)] = disk[Target(w)]
    BY <1>6, <2>1 DEF Truncate, Fill
  <2>3. UNCHANGED <<task, page>> /\ (\A u \in FileWorker \ {w} : place'[u] = place[u])
        /\ place'[w] \notin {"stat", "read", "eof"}
    BY <1>6 DEF Truncate, Fill
  <2>4. CASE v = w
    BY <1>2, <2>3, <2>4
  <2>5. CASE v # w
    BY <1>3, <2>1, <2>2, <2>3, <2>5
  <2> QED
    BY <2>4, <2>5
<1>7. ASSUME NEW w \in FileWorker, Stat(w), NEW v \in FileWorker PROVE Follows(v)'
  <2>1. UNCHANGED <<disk, task>> /\ \A u \in FileWorker \ {w} : place'[u] = place[u] /\ page'[u] = page[u]
    BY <1>7 DEF Stat
  <2>2. Target(w) \in File /\ disk[Target(w)].text \in Text /\ page[w] \in Page /\ place[w] = "stat"
        /\ disk[Target(w)].mtime \in Nat
    BY <1>7 DEF Stat, FileTyped
  <2>3. CASE There(Target(w)) /\ v = w
    <3> DEFINE file == disk[Target(w)]
    <3>1. place'[w] = "read" /\ page'[w].offset = page[w].offset /\ page'[w].got = page[w].got
          /\ page'[w].total = Len(file.text)
          /\ page'[w].since = IF page[w].offset = 0 THEN file.mtime ELSE page[w].since
      BY <1>7, <2>2, <2>3 DEF Stat, Page
    <3>2. page[w].offset \in Nat /\ Len(file.text) \in Nat /\ file.text \in Seq(Token) /\ page[w].got \in Seq(Token)
      BY <2>2 DEF Page, Text
    <3>3. CASE page[w].offset = 0
      <4>1. page[w].got = <<>> /\ SubSeq(file.text, 1, 0) = <<>>
        BY <1>0, <2>2, <3>2, <3>3
      <4> QED
        BY <1>0, <2>1, <2>2, <2>3, <3>1, <3>2, <3>3, <4>1
    <3>4. CASE page[w].offset # 0
      BY <1>0, <2>1, <2>2, <2>3, <3>1, <3>2, <3>4
    <3> QED
      BY <3>3, <3>4
  <2>4. CASE ~There(Target(w)) /\ v = w
    BY <1>2, <1>7, <2>4 DEF Stat
  <2>5. CASE v # w
    BY <1>1, <2>1, <2>5
  <2> QED
    BY <2>3, <2>4, <2>5
<1>8. ASSUME NEW w \in FileWorker, ReadPage(w), NEW v \in FileWorker PROVE Follows(v)'
  <2>1. UNCHANGED <<disk, task>> /\ \A u \in FileWorker \ {w} : place'[u] = place[u] /\ page'[u] = page[u]
    BY <1>8 DEF ReadPage
  <2> DEFINE text == disk[Target(w)].text
             end == page[w].offset + task[w].limit
             m == IF end < Len(text) THEN end ELSE Len(text)
             raw == SubSeq(text, page[w].offset + 1, m)
  <2>2. Target(w) \in File /\ text \in Text /\ page[w] \in Page /\ place[w] = "read"
        /\ task[w].limit \in Nat
    BY <1>8 DEF ReadPage, FileTyped
  <2>3. CASE There(Target(w)) /\ v = w
    <3>1. /\ place'[w] = IF page[w].offset + Len(raw) >= page[w].total THEN "eof" ELSE "stat"
          /\ page'[w].offset = page[w].offset + Len(raw) /\ page'[w].got = page[w].got \o raw
          /\ page'[w].since = page[w].since /\ page'[w].total = page[w].total
      <4> DEFINE p == [page[w] EXCEPT !.offset = @ + Len(raw), !.got = @ \o raw]
      <4>1. page' = [page EXCEPT ![w] = p]
            /\ place' = [place EXCEPT ![w] = IF page[w].offset + Len(raw) >= page[w].total THEN "eof" ELSE "stat"]
        BY <1>8, <2>3 DEF ReadPage
      <4>2. w \in DOMAIN page /\ w \in DOMAIN place
        OBVIOUS
      <4> HIDE DEF raw
      <4>3. /\ p.offset = page[w].offset + Len(raw) /\ p.got = page[w].got \o raw
            /\ p.since = page[w].since /\ p.total = page[w].total
        BY <2>2 DEF Page
      <4> HIDE DEF p
      <4> QED
        BY <4>1, <4>2, <4>3
    <3>2. /\ page[w].offset \in Nat /\ page[w].total \in Nat /\ page[w].got \in Seq(Token)
          /\ Len(text) \in Nat /\ text \in Seq(Token) /\ m \in Nat /\ m <= Len(text)
      BY <2>2 DEF Page, Text
    <3> HIDE DEF m
    <3>3. raw \in Seq(Token) /\ Len(raw) \in Nat
      <4>1. page[w].offset + 1 \in Nat /\ page[w].offset + 1 >= 1
        BY <3>2
      <4>2. raw \in Text
        BY <2>2, <3>2, <4>1, SubText
      <4> HIDE DEF raw
      <4> QED
        BY <4>2 DEF Text
    <3>4. Len(page[w].got \o raw) = Len(page[w].got) + Len(raw)
      <4> HIDE DEF raw
      <4> QED
        BY <3>2, <3>3
    <3>5. page'[w].offset = Len(page'[w].got) /\ page'[w].since # 0
      BY <1>0, <2>2, <3>1, <3>4
    <3>6. ASSUME disk[Target(w)].mtime = page[w].since
          PROVE  /\ page'[w].offset = m /\ page'[w].got = SubSeq(text, 1, m)
                 /\ place'[w] # "read" /\ (place'[w] = "eof" => m = Len(text))
      <4>1. /\ page[w].offset <= Len(text) /\ page[w].got = SubSeq(text, 1, page[w].offset)
            /\ page[w].total = Len(text)
        BY <1>0, <2>2, <3>6
      <4>2. page[w].offset <= m
        BY <2>2, <3>2, <4>1 DEF m
      <4>3. SubSeq(text, 1, page[w].offset) \o raw = SubSeq(text, 1, m) /\ Len(raw) = m - page[w].offset
        <5> HIDE DEF text
        <5> QED
          <6>1. \A a, b \in Nat : a <= b /\ b <= Len(text) =>
                  /\ SubSeq(text, 1, a) \o SubSeq(text, a + 1, b) = SubSeq(text, 1, b)
                  /\ Len(SubSeq(text, a + 1, b)) = b - a
            BY <2>2, Adjacent DEF Text
          <6>2. page[w].offset \in Nat /\ m \in Nat /\ page[w].offset <= m /\ m <= Len(text)
            BY <3>2, <4>2
          <6> QED
            BY <6>1, <6>2, Zenon
      <4>4. page'[w].offset = m /\ page'[w].got = SubSeq(text, 1, m)
        <5> HIDE DEF raw, text
        <5> QED
          BY <3>1, <3>2, <3>3, <4>1, <4>3
      <4>5. page[w].offset + Len(raw) = m
        BY <3>2, <4>3
      <4> HIDE DEF raw, text
      <4>6. place'[w] # "read" /\ (place'[w] = "eof" => m = Len(text))
        BY <3>1, <3>2, <4>1, <4>5
      <4> QED
        BY <4>4, <4>6
    <3>7. disk'[Target(w)'] = disk[Target(w)] /\ m <= Len(text)
      BY <2>1, <3>2
    <3> HIDE DEF raw
    <3> QED
      BY <2>3, <3>1, <3>5, <3>6, <3>7
  <2>4. CASE ~There(Target(w)) /\ v = w
    BY <1>2, <1>8, <2>4 DEF ReadPage
  <2>5. CASE v # w
    BY <1>1, <2>1, <2>5
  <2> QED
    BY <2>3, <2>4, <2>5
<1>9. ASSUME NEW f \in File, Outside(f), NEW v \in FileWorker PROVE Follows(v)'
  <2>1. /\ \A g \in File \ {f} : disk'[g] = disk[g]
        /\ disk'[f].mtime \in {0, writes}
    BY <1>9 DEF Outside, FileTyped
  <2>2. UNCHANGED <<task, page, place>>
    BY <1>9 DEF Outside
  <2> QED
    BY <1>3, <2>1, <2>2
<1>10. ASSUME NextSecond, NEW v \in FileWorker PROVE Follows(v)'
  BY <1>1, <1>10 DEF NextSecond
<1>11. ASSUME WatchStart \/ FirstSnapshot \/ Poll \/ Record \/ Recorded \/ WatchPoll \/ WatchStop,
              NEW v \in FileWorker
       PROVE  Follows(v)'
  BY <1>1, <1>11 DEF WatchStart, FirstSnapshot, Poll, Record, Recorded, WatchPoll, WatchStop, workVars
<1> HIDE DEF Follows
<1> QED
  BY <1>4, <1>5, <1>6, <1>7, <1>8, <1>9, <1>10, <1>11 DEF FileNext, WorkStep

\* No page has been read at first.
LEMMA PagesKeptInit == FileInit => PagesKept
<1> SUFFICES ASSUME FileInit PROVE PagesKept
  OBVIOUS
<1>1. FileShape
  BY DEF FileInit, FileShape, FilePlace
<1>2. FileTyped
  <2>1. NoPage \in Page /\ NoPage.since = 0 /\ <<>> \in Text
    BY DEF NoPage, Page, Text
  <2> QED
    BY <2>1, FileAssumption DEF FileInit, FileTyped
<1>3. PagesFollow
  BY DEF FileInit, PagesFollow
<1> QED
  BY <1>1, <1>2, <1>3 DEF PagesKept

\* PagesKept is inductive.
LEMMA PagesKeptStep == PagesKept /\ [FileNext]_fileVars => PagesKept'
<1> SUFFICES ASSUME PagesKept, [FileNext]_fileVars PROVE PagesKept'
  OBVIOUS
<1>1. CASE FileNext
  BY <1>1, FileShapeStep, FileTypedStep, PagesFollowStep DEF PagesKept
<1>2. CASE UNCHANGED fileVars
  BY <1>2 DEF fileVars, workVars, PagesKept, FileShape, FileTyped, PagesFollow, Target
<1> QED
  BY <1>1, <1>2

\* A reader that followed next_offset to eof has the whole file, once, if it
\* has not been written to since the first look (executor_v2.py,
\* _exec_read_chunked).
THEOREM PagesAddUp == KindsSpec => []PagesComplete
<1>1. [KindsNext]_<<vars, fileVars>> => [FileNext]_fileVars
  BY DEF KindsNext
<1>2. PagesKept => PagesComplete
  <2> SUFFICES ASSUME PagesKept, NEW w \in FileWorker, In(w, "eof"),
                      disk[Target(w)].mtime = page[w].since
               PROVE  page[w].got = disk[Target(w)].text
    BY DEF PagesComplete
  <2>1. Target(w) \in File /\ place[w] = "eof"
    BY FileAssumption DEF PagesKept, FileShape, In, Target
  <2>2. page[w].got = SubSeq(disk[Target(w)].text, 1, Len(disk[Target(w)].text))
    BY <2>1 DEF PagesKept, PagesFollow
  <2>3. disk[Target(w)].text \in Seq(Token)
    BY <2>1 DEF PagesKept, FileTyped, Text
  <2> QED
    BY <2>2, <2>3
<1> QED
  BY <1>1, <1>2, PagesKeptInit, PagesKeptStep, PTL DEF KindsSpec, KindsInit

-----------------------------------------------------------------------------
(* Watches *)

\* What _watch_diff reports.
Event == [type : {"created", "modified", "deleted"}, file : File]

\* An event tells of a file of the watch.
LEMMA ToldTyping ==
  ASSUME NEW files \in SUBSET File, NEW e \in Event
  PROVE  Told(files, e) \in SUBSET File
  BY DEF Told, Event

\* Replaying a list is a run: what is known after each of its events.
LEMMA RunExists ==
  ASSUME NEW base \in SUBSET File, NEW list \in Seq(Event)
  PROVE  \E h \in [0..Len(list) -> SUBSET File] :
           /\ h[0] = base /\ \A k \in 1..Len(list) : h[k] = Told(h[k-1], list[k])
           /\ Replay(base, list) = h[Len(list)]
<1> DEFINE n == Len(list)
           R == SUBSET File
           step == [p \in R \X (1..n) |-> Told(p[1], list[p[2]])]
           F(it) == [s \in SUBSET (1..n) |->
                      IF s = {} THEN base ELSE Told(it[s \ {Max(s)}], list[Max(s)])]
           iter == CHOOSE it : it = F(it)
<1>0. n \in Nat /\ DOMAIN list = 1..n /\ \A k \in 1..n : list[k] \in Event
  OBVIOUS
<1>1. Replay(base, list) = iter[1..n]
  BY <1>0 DEF Replay, FoldLeft, MapThenFoldSet
<1>2. step \in [R \X (1..n) -> R]
  BY <1>0, ToldTyping
<1>3. PICK g \in [SUBSET (1..n) -> R] : FoldsOver(g, SUBSET (1..n), base, step)
  <2> HIDE DEF step, n
  <2> QED
    BY <1>0, <1>2, FoldsExist
<1>4. \A s \in SUBSET (1..n) : s # {} => Max(s) \in 1..n /\ s \ {Max(s)} \in SUBSET (1..n)
  <2> HIDE DEF n
  <2> QED
    BY <1>0, GreatestOf
<1>5. \A s \in SUBSET (1..n) :
        g[s] = IF s = {} THEN base ELSE Told(g[s \ {Max(s)}], list[Max(s)])
  <2> SUFFICES ASSUME NEW s \in SUBSET (1..n)
               PROVE  g[s] = IF s = {} THEN base ELSE Told(g[s \ {Max(s)}], list[Max(s)])
    OBVIOUS
  <2>1. g[s] = IF s = {} THEN base ELSE step[<<g[s \ {Max(s)}], Max(s)>>]
    BY <1>3 DEF FoldsOver
  <2>2. s # {} => <<g[s \ {Max(s)}], Max(s)>> \in R \X (1..n)
    BY <1>3, <1>4
  <2> QED
    BY <2>1, <2>2
<1>6. iter = F(iter)
  <2>1. g = F(g)
    BY <1>5
  <2> HIDE DEF F
  <2> QED
    BY <2>1
<1>7. \A s \in SUBSET (1..n) :
        iter[s] = IF s = {} THEN base ELSE Told(iter[s \ {Max(s)}], list[Max(s)])
  <2> HIDE DEF iter
  <2> QED
    BY <1>6
<1>8. iter[1..n] = g[1..n]
  <2>1. iter[{}] = g[{}]
    BY <1>5, <1>7
  <2>2. \A s \in SUBSET (1..n) :
          s # {} /\ iter[s \ {Max(s)}] = g[s \ {Max(s)}] => iter[s] = g[s]
    BY <1>5, <1>7
  <2>3. IsFiniteSet(1..n) /\ \A s \in SUBSET (1..n) : s # {} => Max(s) \in s
    <3> HIDE DEF n
    <3> QED
      BY <1>0, FiniteRange, GreatestOf
  <2> HIDE DEF iter, n
  <2> QED
    BY <2>1, <2>2, <2>3, Agree
<1> DEFINE h == [k \in 0..n |-> g[1..k]]
<1>9. \A k \in 0..n : 1..k \in SUBSET (1..n) /\ g[1..k] \in R
  <2>1. \A k \in 0..n : 1..k \in SUBSET (1..n)
    BY <1>0
  <2> QED
    BY <1>3, <2>1
<1>10. h \in [0..n -> R] /\ h[0] = base /\ h[n] = g[1..n]
  <2>1. 1..0 = {} /\ 0 \in 0..n /\ n \in 0..n
    BY <1>0
  <2>2. g[{}] = base
    BY <1>5
  <2> HIDE DEF n
  <2> QED
    BY <1>9, <2>1, <2>2
<1>11. \A k \in 1..n : h[k] = Told(h[k-1], list[k])
  <2> SUFFICES ASSUME NEW k \in 1..n PROVE h[k] = Told(h[k-1], list[k])
    OBVIOUS
  <2>1. k \in Nat \ {0} /\ k \in 0..n /\ k-1 \in 0..n /\ 1..k # {}
    <3>1. k \in Nat /\ 1 <= k /\ k <= n
      BY <1>0
    <3> HIDE DEF n
    <3>2. 1 \in 1..k
      BY <3>1
    <3>3. 1..k # {}
      BY <3>2
    <3>4. k \in 0..n /\ k-1 \in 0..n
      BY <1>0, <3>1
    <3> QED
      BY <3>1, <3>3, <3>4
  <2>2. Max(1..k) = k /\ (1..k) \ {Max(1..k)} = 1..(k-1)
    BY <2>1, LastOf
  <2>3. g[1..k] = Told(g[1..(k-1)], list[k])
    <3> HIDE DEF n
    <3> QED
      BY <1>5, <1>9, <2>1, <2>2
  <2> QED
    BY <2>1, <2>3
<1> QED
  <2> HIDE DEF h, iter
  <2> QED
    BY <1>1, <1>8, <1>10, <1>11

\* What is known after each event of a list determines what is known at its end.
IsRun(h, files, list) ==
  /\ h \in [0..Len(list) -> SUBSET File]
  /\ h[0] = files
  /\ \A k \in 1..Len(list) : h[k] = Told(h[k-1], list[k])

\* Replay is the last state of the run through the list.
LEMMA RunEnds ==
  ASSUME NEW files \in SUBSET File, NEW list \in Seq(Event), NEW h, IsRun(h, files, list)
  PROVE  Replay(files, list) = h[Len(list)]
<1> DEFINE n == Len(list)
<1>0. n \in Nat
  OBVIOUS
<1>1. PICK g \in [0..n -> SUBSET File] :
        /\ g[0] = files /\ \A k \in 1..n : g[k] = Told(g[k-1], list[k])
        /\ Replay(files, list) = g[n]
  BY RunExists
<1> DEFINE Off == {k \in 0..n : g[k] # h[k]}
<1>2. Off = {}
  <2> HIDE DEF n
  <2> SUFFICES ASSUME Off # {} PROVE FALSE
    OBVIOUS
  <2>1. Off \in SUBSET Nat
    BY <1>0
  <2>2. PICK k \in Off : \A j \in Off : k <= j
    <3> HIDE DEF Off
    <3> QED
      BY <2>1, LeastNumber
  <2>3. k # 0
    BY <1>1 DEF IsRun
  <2>4. k \in Nat /\ k <= n
    BY <1>0
  <2>5. k \in 1..n /\ k-1 \in 0..n /\ ~(k <= k-1)
    BY <1>0, <2>3, <2>4
  <2>6. g[k-1] = h[k-1]
    BY <2>2, <2>5
  <2>7. h[k] = Told(h[k-1], list[k])
    BY <2>5 DEF IsRun, n
  <2> QED
    BY <1>1, <2>5, <2>6, <2>7
<1> QED
  BY <1>0, <1>1, <1>2

\* A replay ends with a set of files.
LEMMA ReplayTyping ==
  ASSUME NEW files \in SUBSET File, NEW list \in Seq(Event)
  PROVE  Replay(files, list) \in SUBSET File
<1>1. PICK g \in [0..Len(list) -> SUBSET File] : Replay(files, list) = g[Len(list)]
  BY RunExists
<1>2. Len(list) \in 0..Len(list)
  OBVIOUS
<1> QED
  BY <1>1, <1>2

\* No events, nothing new.
LEMMA ReplayEmpty ==
  ASSUME NEW files \in SUBSET File
  PROVE  Replay(files, <<>>) = files
<1>1. <<>> \in Seq(Event) /\ Len(<<>>) = 0
  OBVIOUS
<1>2. IsRun([k \in 0..0 |-> files], files, <<>>)
  BY DEF IsRun
<1> QED
  BY <1>1, <1>2, RunEnds

\* A list may be replayed in two parts.
LEMMA ReplayAppend ==
  ASSUME NEW files \in SUBSET File, NEW a \in Seq(Event), NEW b \in Seq(Event)
  PROVE  Replay(files, a \o b) = Replay(Replay(files, a), b)
<1> DEFINE m == Len(a)
           n == Len(b)
<1>0. m \in Nat /\ n \in Nat /\ a \o b \in Seq(Event) /\ Len(a \o b) = m + n
  OBVIOUS
<1>1. PICK g \in [0..m -> SUBSET File] :
        /\ g[0] = files /\ \A k \in 1..m : g[k] = Told(g[k-1], a[k])
        /\ Replay(files, a) = g[m]
  BY RunExists
<1>2. Replay(files, a) \in SUBSET File
  BY ReplayTyping
<1>3. PICK f \in [0..n -> SUBSET File] :
        /\ f[0] = Replay(files, a) /\ \A k \in 1..n : f[k] = Told(f[k-1], b[k])
        /\ Replay(Replay(files, a), b) = f[n]
  BY <1>2, RunExists
<1>4. \A k \in 1..m : (a \o b)[k] = a[k]
  OBVIOUS
<1>5. \A k \in (m+1)..(m+n) : (a \o b)[k] = b[k-m]
  OBVIOUS
<1> DEFINE h == [k \in 0..(m+n) |-> IF k <= m THEN g[k] ELSE f[k-m]]
           ab == a \o b
<1> HIDE DEF m, n
<1>6. h \in [0..(m+n) -> SUBSET File]
  <2> SUFFICES ASSUME NEW k \in 0..(m+n)
               PROVE  (IF k <= m THEN g[k] ELSE f[k-m]) \in SUBSET File
    OBVIOUS
  <2>1. k \in Nat /\ k <= m + n
    BY <1>0
  <2>2. k <= m => k \in 0..m
    BY <1>0, <2>1
  <2>3. ~(k <= m) => k-m \in 0..n
    BY <1>0, <2>1
  <2> QED
    BY <2>2, <2>3
<1>7. h[0] = files /\ h[m+n] = f[n]
  <2>1. 0 \in 0..(m+n) /\ 0 <= m /\ m+n \in 0..(m+n)
    BY <1>0
  <2>2. h[0] = files
    BY <1>1, <2>1
  <2>3. CASE n = 0
    <3>1. m+n = m
      BY <1>0, <2>3
    <3>2. h[m+n] = g[m]
      BY <1>0, <2>1, <3>1
    <3> QED
      BY <1>1, <1>3, <2>2, <2>3, <3>2
  <2>4. CASE n # 0
    <3>1. ~(m+n <= m) /\ (m+n)-m = n
      BY <1>0, <2>4
    <3>2. h[m+n] = f[(m+n)-m]
      BY <2>1, <3>1
    <3> QED
      BY <2>2, <3>1, <3>2
  <2> QED
    BY <2>3, <2>4
<1>8. ASSUME NEW k \in 1..(m+n) PROVE h[k] = Told(h[k-1], ab[k])
  <2> HIDE DEF ab
  <2>0. k \in Nat /\ 1 <= k /\ k <= m+n
    BY <1>0
  <2>1. k \in 0..(m+n) /\ k-1 \in 0..(m+n)
    BY <1>0, <2>0
  <2>2. CASE k <= m
    <3>1. k \in 1..m /\ k-1 <= m
      BY <1>0, <2>0, <2>2
    <3>2. ab[k] = a[k]
      BY <1>4, <3>1 DEF ab
    <3> QED
      BY <1>1, <2>1, <2>2, <3>1, <3>2
  <2>3. CASE ~(k <= m)
    <3>1. k-m \in 1..n /\ k \in (m+1)..(m+n)
      BY <1>0, <2>0, <2>3
    <3>2. ab[k] = b[k-m]
      BY <1>5, <3>1 DEF ab
    <3>3. f[k-m] = Told(f[k-m-1], b[k-m])
      BY <1>3, <3>1
    <3>4. h[k-1] = f[k-m-1]
      <4>1. CASE k = m+1
        <5>1. k-1 = m /\ k-m-1 = 0
          BY <1>0, <4>1
        <5> QED
          BY <1>0, <1>1, <1>3, <2>1, <5>1
      <4>2. CASE k # m+1
        <5>1. ~(k-1 <= m) /\ (k-1)-m = k-m-1
          BY <1>0, <2>0, <2>3, <4>2
        <5> QED
          BY <2>1, <5>1
      <4> QED
        BY <4>1, <4>2
    <3>5. h[k] = f[k-m]
      BY <2>1, <2>3
    <3> QED
      BY <3>2, <3>3, <3>4, <3>5
  <2> QED
    BY <2>2, <2>3
<1>9. IsRun(h, files, ab)
  <2>1. Len(ab) = m+n
    BY <1>0
  <2> HIDE DEF h, ab
  <2> QED
    BY <1>6, <1>7, <1>8, <2>1 DEF IsRun
<1>10. Replay(files, ab) = h[m+n]
  <2>1. ab \in Seq(Event) /\ Len(ab) = m+n
    BY <1>0
  <2> HIDE DEF h, ab
  <2> QED
    BY <1>9, <2>1, RunEnds
<1> QED
  <2> HIDE DEF h
  <2> QED
    BY <1>3, <1>7, <1>10

FilesOf(list) == {list[k].file : k \in 1..Len(list)}

\* Events that tell of files that exist add those files.
LEMMA ReplayPresent ==
  ASSUME NEW files \in SUBSET File, NEW list \in Seq(Event),
         \A k \in 1..Len(list) : list[k].type # "deleted"
  PROVE  Replay(files, list) = files \cup FilesOf(list)
<1> DEFINE n == Len(list)
           h == [k \in 0..n |-> files \cup {list[j].file : j \in 1..k}]
<1>0. n \in Nat /\ \A k \in 1..n : list[k] \in Event
  OBVIOUS
<1>1. h \in [0..n -> SUBSET File] /\ h[0] = files
  <2>1. \A k \in 0..n : \A j \in 1..k : list[j].file \in File
    BY <1>0 DEF Event
  <2>2. 0 \in 0..n
    BY <1>0
  <2> QED
    BY <2>1, <2>2
<1>2. ASSUME NEW k \in 1..n PROVE h[k] = Told(h[k-1], list[k])
  <2>1. k \in 0..n /\ k-1 \in 0..n
    BY <1>0
  <2>2. \A j : j \in 1..k <=> j \in 1..(k-1) \/ j = k
    OBVIOUS
  <2>3. {list[j].file : j \in 1..k} = {list[j].file : j \in 1..(k-1)} \cup {list[k].file}
    BY <2>2
  <2> QED
    BY <2>1, <2>3 DEF Told
<1>3. IsRun(h, files, list)
  <2> HIDE DEF h
  <2> QED
    BY <1>1, <1>2 DEF IsRun
<1>4. Replay(files, list) = h[n]
  <2> HIDE DEF h
  <2> QED
    BY <1>3, RunEnds
<1>5. n \in 0..n
  BY <1>0
<1> QED
  BY <1>4, <1>5 DEF FilesOf

\* Events that tell of deleted files take those files away.
LEMMA ReplayDeleted ==
  ASSUME NEW files \in SUBSET File, NEW list \in Seq(Event),
         \A k \in 1..Len(list) : list[k].type = "deleted"
  PROVE  Replay(files, list) = files \ FilesOf(list)
<1> DEFINE n == Len(list)
           h == [k \in 0..n |-> files \ {list[j].file : j \in 1..k}]
<1>0. n \in Nat
  OBVIOUS
<1>1. h \in [0..n -> SUBSET File] /\ h[0] = files
  <2>1. 0 \in 0..n
    BY <1>0
  <2> QED
    BY <2>1
<1>2. ASSUME NEW k \in 1..n PROVE h[k] = Told(h[k-1], list[k])
  <2>1. k \in 0..n /\ k-1 \in 0..n
    BY <1>0
  <2>2. \A j : j \in 1..k <=> j \in 1..(k-1) \/ j = k
    OBVIOUS
  <2>3. {list[j].file : j \in 1..k} = {list[j].file : j \in 1..(k-1)} \cup {list[k].file}
    BY <2>2
  <2> QED
    BY <2>1, <2>3 DEF Told
<1>3. IsRun(h, files, list)
  <2> HIDE DEF h
  <2> QED
    BY <1>1, <1>2 DEF IsRun
<1>4. Replay(files, list) = h[n]
  <2> HIDE DEF h
  <2> QED
    BY <1>3, RunEnds
<1>5. n \in 0..n
  BY <1>0
<1> QED
  BY <1>4, <1>5 DEF FilesOf

\* A finite set made a sequence keeps its elements.
LEMMA SetToSeqElements ==
  ASSUME NEW S, IsFiniteSet(S)
  PROVE  SetToSeq(S) \in Seq(S) /\ \A x \in S : \E k \in 1..Len(SetToSeq(S)) : SetToSeq(S)[k] = x
<1> DEFINE n == Cardinality(S)
<1>1. n \in Nat /\ ExistsBijection(1..n, S)
  BY FS_CardinalityType
<1>2. \E f \in [1..n -> S] : IsInjective(f)
  BY <1>1 DEF ExistsBijection, Bijection, Injection
<1>3. SetToSeq(S) \in [1..n -> S] /\ IsInjective(SetToSeq(S))
  BY <1>2 DEF SetToSeq
<1> DEFINE q == SetToSeq(S)
<1> HIDE DEF q
<1>4. q \in [1..n -> S] /\ IsInjective(q)
  BY <1>3 DEF q
<1>5. q \in Seq(S) /\ Len(q) = n
  BY <1>1, <1>4
<1>6. q \in Injection(1..n, S)
  BY <1>4 DEF Injection
<1>7. Cardinality(1..n) = n
  <2>1. 1 \in Int /\ n \in Int
    BY <1>1
  <2> HIDE DEF n
  <2>2. Cardinality(1..n) = IF 1 > n THEN 0 ELSE n-1+1
    BY <2>1, FS_Interval
  <2> QED
    BY <1>1, <2>2
<1>8. q \in Surjection(1..n, S)
  BY <1>6, <1>7, FS_Injection
<1>9. \A x \in S : \E k \in 1..n : q[k] = x
  BY <1>8, Zenon DEF Surjection
<1> QED
  BY <1>5, <1>9 DEF q

\* What a client that knew the files of a snapshot knows after the events that
\* tell it from the next one: the files of that (executor_v2.py, _poll_loop).
LEMMA DiffTells ==
  ASSUME NEW old \in [File -> Nat], NEW new \in [File -> Nat]
  PROVE  Diff(old, new) \in Seq(Event) /\ Replay(Existing(old), Diff(old, new)) = Existing(new)
<1> DEFINE changed == {g \in Existing(new) : old[g] # new[g]}
           removed == Existing(old) \ Existing(new)
           c(f) == [type |-> IF old[f] = 0 THEN "created" ELSE "modified", file |-> f]
           d(f) == [type |-> "deleted", file |-> f]
           C == {c(f) : f \in changed}
           D == {d(f) : f \in removed}
<1>1. changed \in SUBSET File /\ removed \in SUBSET File /\ Existing(old) \in SUBSET File
  BY DEF Existing
<1>2. C \in SUBSET Event /\ D \in SUBSET Event
  BY <1>1 DEF Event
<1>3. IsFiniteSet(changed) /\ IsFiniteSet(removed)
  <2> HIDE DEF changed, removed
  <2> QED
    BY <1>1, FileAssumption, FS_Subset
<1>4. IsFiniteSet(C)
  <2> DEFINE m == [f \in changed |-> c(f)]
  <2>1. m \in Surjection(changed, C)
    <3> HIDE DEF changed, c
    <3> QED
      BY DEF Surjection
  <2> HIDE DEF changed, C, m
  <2> QED
    BY <1>3, <2>1, FS_Surjection
<1>5. IsFiniteSet(D)
  <2> DEFINE m == [f \in removed |-> d(f)]
  <2>1. m \in Surjection(removed, D)
    <3> HIDE DEF removed, d
    <3> QED
      BY DEF Surjection
  <2> HIDE DEF removed, D, m
  <2> QED
    BY <1>3, <2>1, FS_Surjection
<1> DEFINE p == SetToSeq(C)
           q == SetToSeq(D)
<1>6. /\ p \in Seq(C) /\ \A x \in C : \E k \in 1..Len(p) : p[k] = x
      /\ q \in Seq(D) /\ \A x \in D : \E k \in 1..Len(q) : q[k] = x
  <2> HIDE DEF C, D
  <2> QED
    BY <1>4, <1>5, SetToSeqElements
<1>7. Diff(old, new) = p \o q
  BY DEF Diff
<1> HIDE DEF p, q
<1>8. p \in Seq(Event) /\ q \in Seq(Event)
  BY <1>2, <1>6
<1>9. Replay(Existing(old), p) = Existing(old) \cup changed
  <2>1. \A k \in 1..Len(p) : p[k] \in C
    BY <1>6
  <2>2. \A k \in 1..Len(p) : p[k].type # "deleted" /\ p[k].file \in changed
    BY <2>1
  <2>3. \A f \in changed : \E k \in 1..Len(p) : p[k].file = f
    <3> SUFFICES ASSUME NEW f \in changed PROVE \E k \in 1..Len(p) : p[k].file = f
      OBVIOUS
    <3>1. c(f) \in C
      OBVIOUS
    <3>2. PICK k \in 1..Len(p) : p[k] = c(f)
      BY <1>6, <3>1
    <3> QED
      BY <3>2
  <2>4. FilesOf(p) = changed
    BY <2>2, <2>3 DEF FilesOf
  <2> HIDE DEF changed, C
  <2> QED
    BY <1>1, <1>8, <2>2, <2>4, ReplayPresent
<1>10. Existing(old) \cup changed \in SUBSET File
  BY <1>1
<1>11. Replay(Existing(old) \cup changed, q) = (Existing(old) \cup changed) \ removed
  <2>1. \A k \in 1..Len(q) : q[k] \in D
    BY <1>6
  <2>2. \A k \in 1..Len(q) : q[k].type = "deleted" /\ q[k].file \in removed
    BY <2>1
  <2>3. \A f \in removed : \E k \in 1..Len(q) : q[k].file = f
    <3> SUFFICES ASSUME NEW f \in removed PROVE \E k \in 1..Len(q) : q[k].file = f
      OBVIOUS
    <3>1. d(f) \in D
      OBVIOUS
    <3>2. PICK k \in 1..Len(q) : q[k] = d(f)
      BY <1>6, <3>1
    <3> QED
      BY <3>2
  <2>4. FilesOf(q) = removed
    BY <2>2, <2>3 DEF FilesOf
  <2> DEFINE known == Existing(old) \cup changed
  <2> HIDE DEF removed, known, D
  <2>5. Replay(known, q) = known \ FilesOf(q)
    BY <1>8, <1>10, <2>2, ReplayDeleted DEF known
  <2> QED
    BY <2>4, <2>5 DEF known
<1>12. (Existing(old) \cup changed) \ removed = Existing(new)
  <2>1. \A f \in File : f \in Existing(old) <=> old[f] # 0
    BY DEF Existing
  <2>2. \A f \in File : f \in Existing(new) <=> new[f] # 0
    BY DEF Existing
  <2>3. Existing(new) \in SUBSET File
    BY DEF Existing
  <2> QED
    BY <1>1, <2>1, <2>2, <2>3
<1>13. Replay(Existing(old), p \o q) = Replay(Replay(Existing(old), p), q)
  BY <1>1, <1>8, ReplayAppend
<1> QED
  <2>1. p \o q \in Seq(Event)
    BY <1>8
  <2> HIDE DEF changed, removed
  <2> QED
    BY <1>7, <1>9, <1>11, <1>12, <1>13, <2>1

-----------------------------------------------------------------------------
\* The counters and lists of a watch; before the first snapshot they are empty.
WatchShape ==
  /\ recorded \in Nat /\ handed \in Nat /\ told \in Nat /\ dropped \in Nat
  /\ events \in Seq(Event) /\ todo \in Seq(Event)
  /\ prev \in [File -> Nat] /\ picture \in SUBSET File
  /\ watching \in {"off", "first"} =>
       /\ events = <<>> /\ todo = <<>>
       /\ recorded = 0 /\ handed = 0 /\ told = 0 /\ dropped = 0
  /\ watching = "wait" => todo = <<>>

\* What is inductive for a watch: the times of FileTyped make a change show.
WatchKept == PagesKept /\ WatchShape /\ EventsAccounted

\* Moving the first event of todo to the buffer, and the first of the buffer to
\* the client, leaves the list of events as it was.
LEMMA MoveOne ==
  ASSUME NEW a \in Seq(Event), NEW b \in Seq(Event), b # <<>>
  PROVE  /\ Append(a, Head(b)) \in Seq(Event) /\ Tail(b) \in Seq(Event)
         /\ Len(Append(a, Head(b))) = Len(a) + 1
         /\ Append(a, Head(b)) \o Tail(b) = a \o b
<1> DEFINE c == Append(a, Head(b))
           d == Tail(b)
<1>1. c \in Seq(Event) /\ d \in Seq(Event)
  OBVIOUS
<1>2. /\ Len(a) \in Nat /\ Len(b) \in Nat \ {0} /\ Len(c) = Len(a) + 1 /\ Len(d) = Len(b) - 1
      /\ \A k \in 1..Len(a) : c[k] = a[k]
      /\ c[Len(a) + 1] = b[1]
      /\ \A k \in 1..Len(d) : d[k] = b[k + 1]
  OBVIOUS
<1> HIDE DEF c, d
<1> DEFINE x == c \o d
           y == a \o b
<1>3. x \in Seq(Event) /\ y \in Seq(Event) /\ Len(x) = Len(a) + Len(b) /\ Len(y) = Len(a) + Len(b)
  <2>1. x \in Seq(Event) /\ Len(x) = Len(c) + Len(d)
    BY <1>1, ConcatProperties
  <2>2. y \in Seq(Event) /\ Len(y) = Len(a) + Len(b)
    BY ConcatProperties
  <2>3. Len(c) + Len(d) = Len(a) + Len(b)
    BY <1>2
  <2> QED
    BY <2>1, <2>2, <2>3
<1>4. ASSUME NEW k \in 1..(Len(a) + Len(b)) PROVE x[k] = y[k]
  <2>0. k \in Nat /\ 1 <= k /\ k <= Len(a) + Len(b)
    BY <1>2
  <2>1. CASE k <= Len(a)
    <3>1. x[k] = c[k] /\ y[k] = a[k]
      BY <1>1, <1>2, <2>0, <2>1
    <3> QED
      BY <1>2, <2>0, <2>1, <3>1
  <2>2. CASE k = Len(a) + 1
    <3>1. x[k] = c[k] /\ y[k] = b[1]
      BY <1>1, <1>2, <2>0, <2>2
    <3> QED
      BY <1>2, <2>2, <3>1
  <2>3. CASE k > Len(a) + 1
    <3>1. x[k] = d[k - (Len(a) + 1)] /\ y[k] = b[k - Len(a)]
      BY <1>1, <1>2, <2>0, <2>3
    <3>2. k - (Len(a) + 1) \in 1..Len(d) /\ k - (Len(a) + 1) + 1 = k - Len(a)
      BY <1>2, <2>0, <2>3
    <3> QED
      BY <1>2, <3>1, <3>2
  <2> QED
    BY <1>2, <2>0, <2>1, <2>2, <2>3
<1>5. x = y
  <2> HIDE DEF x, y
  <2> QED
    BY <1>3, <1>4
<1> QED
  BY <1>1, <1>2, <1>5 DEF c, d

\* Every step of the watch and of its client keeps its account.
LEMMA WatchStep ==
  ASSUME FileTyped, WatchShape, EventsAccounted, FileNext
  PROVE  WatchShape' /\ EventsAccounted'
<1> USE DEF WatchShape, EventsAccounted
<1>0. Snapshot \in [File -> Nat] /\ Existing(Snapshot) \in SUBSET File
  BY DEF FileTyped, Snapshot, Existing
<1>1. ASSUME UNCHANGED watchVars PROVE WatchShape' /\ EventsAccounted'
  BY <1>1 DEF watchVars, Existing
<1>a. watching \in {"wait", "record"} =>
        recorded = handed + told + Len(events) + dropped /\ Len(events) <= MaxBuffer
  OBVIOUS
<1>b. recorded \in Nat /\ handed \in Nat /\ told \in Nat /\ dropped \in Nat /\ Len(events) \in Nat
  OBVIOUS
<1>2. ASSUME NEW w \in FileWorker, WorkStep(w) PROVE UNCHANGED watchVars
  BY <1>2 DEF WorkStep, Take, ReadOriginal, Backup, Truncate, Fill, Stat, ReadPage, HavingRead
<1>3. ASSUME NEW f \in File, Outside(f) PROVE UNCHANGED watchVars
  BY <1>3 DEF Outside
<1>4. CASE NextSecond
  BY <1>1, <1>4 DEF NextSecond
<1>5. CASE WatchStart
  BY <1>5 DEF WatchStart
<1>6. CASE FirstSnapshot
  <2>1. /\ watching' = "wait" /\ prev' = Snapshot /\ picture' = Existing(Snapshot)
        /\ UNCHANGED <<todo, events, dropped, recorded, handed, told>>
        /\ events = <<>> /\ todo = <<>> /\ recorded = 0 /\ handed = 0 /\ told = 0 /\ dropped = 0
    BY <1>6 DEF FirstSnapshot
  <2>2. events' \o todo' = <<>> /\ Len(events') = 0
    BY <2>1
  <2>3. Replay(picture', events' \o todo') = Existing(prev')
    BY <1>0, <2>1, <2>2, ReplayEmpty
  <2>4. Existing(prev)' = Existing(prev')
    BY DEF Existing
  <2>5. WatchShape'
    BY <1>0, <2>1
  <2> QED
    BY <2>1, <2>2, <2>3, <2>4, <2>5, FileAssumption DEF Replay
<1>7. CASE Poll
  <2>1. /\ watching = "wait" /\ watching' = "record" /\ todo' = Diff(prev, Snapshot) /\ prev' = Snapshot
        /\ UNCHANGED <<events, dropped, recorded, handed, told, picture>>
    BY <1>7 DEF Poll
  <2>2. todo' \in Seq(Event) /\ Replay(Existing(prev), todo') = Existing(Snapshot)
    BY <1>0, <2>1, DiffTells
  <2>3. WatchShape'
    BY <1>0, <2>1, <2>2
  <2>4. ASSUME told + dropped = 0 PROVE Replay(picture, events \o todo') = Existing(Snapshot)
    <3>1. events \o todo = events
      BY <2>1
    <3>2. Replay(picture, events) = Existing(prev)
      BY <2>1, <2>4, <3>1
    <3>3. Replay(picture, events \o todo') = Replay(Replay(picture, events), todo')
      BY <2>2, ReplayAppend
    <3> QED
      BY <2>2, <3>2, <3>3
  <2>5. Existing(prev)' = Existing(Snapshot)
    BY <2>1 DEF Existing
  <2> QED
    BY <2>1, <2>3, <2>4, <2>5
<1>8. CASE Record
  <2>1. /\ watching = "record" /\ watching' = watching /\ todo # <<>> /\ todo' = Tail(todo)
        /\ recorded' = recorded + 1 /\ UNCHANGED <<prev, handed, told, picture>>
    BY <1>8 DEF Record
  <2> DEFINE all == Append(events, Head(todo))
  <2>2. /\ all \in Seq(Event) /\ Tail(todo) \in Seq(Event) /\ Len(all) = Len(events) + 1
        /\ all \o Tail(todo) = events \o todo
    BY <2>1, MoveOne
  <2>3. Len(events) \in Nat /\ MaxBuffer \in Nat \ {0}
    BY FileAssumption
  <2>4. Existing(prev)' = Existing(prev)
    BY <2>1 DEF Existing
  <2>5. CASE Len(events) = MaxBuffer
    <3>1. events' = Tail(all) /\ dropped' = dropped + 1
      BY <1>8, <2>5 DEF Record
    <3> HIDE DEF all
    <3>2. events' \in Seq(Event) /\ Len(events') = Len(events)
      BY <2>2, <2>3, <2>5, <3>1
    <3>3. WatchShape'
      BY <2>1, <2>2, <3>1, <3>2
    <3>4. recorded' = handed' + told' + Len(events') + dropped' /\ Len(events') <= MaxBuffer
      <4> DEFINE l == Len(events)
                 l1 == Len(events')
      <4>1. l1 = l /\ l \in Nat /\ recorded = handed + told + l + dropped /\ l <= MaxBuffer
        BY <1>a, <1>b, <2>1, <3>2
      <4> HIDE DEF l, l1
      <4>2. recorded' = handed' + told' + l1 + dropped' /\ l1 <= MaxBuffer
        BY <1>b, <2>1, <3>1, <4>1
      <4> QED
        BY <4>2 DEF l1
    <3>5. told' + dropped' # 0
      BY <2>1, <3>1
    <3> QED
      BY <3>3, <3>4, <3>5
  <2>6. CASE Len(events) # MaxBuffer
    <3>1. events' = all /\ dropped' = dropped
      BY <1>8, <2>6 DEF Record
    <3> HIDE DEF all
    <3>2. WatchShape'
      BY <2>1, <2>2, <3>1
    <3>3. recorded' = handed' + told' + Len(events') + dropped' /\ Len(events') <= MaxBuffer
      <4> DEFINE l == Len(events)
                 l1 == Len(events')
      <4>1. l1 = l + 1 /\ l \in Nat /\ recorded = handed + told + l + dropped /\ l <= MaxBuffer
            /\ l # MaxBuffer
        BY <1>a, <1>b, <2>1, <2>2, <2>6, <3>1
      <4> HIDE DEF l, l1
      <4>2. recorded' = handed' + told' + l1 + dropped' /\ l1 <= MaxBuffer
        BY <1>b, <2>1, <2>3, <3>1, <4>1
      <4> QED
        BY <4>2 DEF l1
    <3>4. events' \o todo' = events \o todo
      BY <2>1, <2>2, <3>1
    <3> QED
      BY <2>1, <2>4, <3>1, <3>2, <3>3, <3>4
  <2> QED
    BY <2>5, <2>6
<1>9. CASE Recorded
  <2>1. /\ watching = "record" /\ watching' = "wait" /\ todo = <<>>
        /\ UNCHANGED <<prev, todo, events, dropped, recorded, handed, told, picture>>
    BY <1>9 DEF Recorded
  <2>2. Existing(prev)' = Existing(prev)
    BY <2>1 DEF Existing
  <2> QED
    BY <2>1, <2>2
<1>10. CASE WatchPoll
  <2> DEFINE n == IF MaxEvents < Len(events) THEN MaxEvents ELSE Len(events)
             out == SubSeq(events, 1, n)
             rest == SubSeq(events, n + 1, Len(events))
  <2>1. /\ watching \in {"first", "wait", "record"} /\ n + dropped > 0
        /\ events' = rest /\ dropped' = 0 /\ handed' = handed + n /\ told' = told + dropped
        /\ picture' = Replay(picture, out) /\ UNCHANGED <<watching, prev, todo, recorded>>
    BY <1>10 DEF WatchPoll
  <2>2. n \in Nat /\ n <= Len(events) /\ Len(events) \in Nat
    BY FileAssumption
  <2> HIDE DEF n
  <2>3. out \in Seq(Event) /\ rest \in Seq(Event) /\ Len(rest) = Len(events) - n /\ out \o rest = events
    <3>1. \A m \in Nat : m <= Len(events) =>
            /\ SubSeq(events, 1, m) \in Seq(Event) /\ SubSeq(events, m+1, Len(events)) \in Seq(Event)
            /\ Len(SubSeq(events, m+1, Len(events))) = Len(events) - m
            /\ SubSeq(events, 1, m) \o SubSeq(events, m+1, Len(events)) = events
      <4>1. events \in Seq(Event)
        OBVIOUS
      <4> HIDE DEF WatchShape, EventsAccounted
      <4>2. \A a, m \in Nat : a <= m /\ m <= Len(events) =>
              /\ SubSeq(events, 1, a) \in Seq(Event) /\ SubSeq(events, a+1, m) \in Seq(Event)
              /\ Len(SubSeq(events, a+1, m)) = m - a
              /\ SubSeq(events, 1, a) \o SubSeq(events, a+1, m) = SubSeq(events, 1, m)
        BY <4>1, Adjacent
      <4>3. Len(events) \in Nat /\ Len(events) <= Len(events) /\ SubSeq(events, 1, Len(events)) = events
        BY <4>1
      <4> QED
        BY <4>2, <4>3, Zenon
    <3> QED
      BY <2>2, <3>1, Zenon
  <2> HIDE DEF out, rest
  <2>4. watching # "first"
    <3>1. watching = "first" => Len(events) = 0 /\ dropped = 0
      OBVIOUS
    <3> QED
      BY <2>1, <2>2, <3>1
  <2>5. WatchShape'
    <3>1. Replay(picture, out) \in SUBSET File
      BY <2>3, ReplayTyping
    <3> QED
      BY <2>1, <2>2, <2>3, <2>4, <3>1
  <2>6. recorded' = handed' + told' + Len(events') + dropped' /\ Len(events') <= MaxBuffer
    <3> DEFINE l == Len(events)
               l1 == Len(events')
    <3>1. l1 = l - n /\ l \in Nat /\ n <= l /\ recorded = handed + told + l + dropped /\ l <= MaxBuffer
      BY <1>a, <1>b, <2>1, <2>2, <2>3, <2>4
    <3> HIDE DEF l, l1
    <3>2. recorded' = handed' + told' + l1 + dropped' /\ l1 <= MaxBuffer
      <4> HIDE DEF WatchShape, EventsAccounted
      <4>1. recorded' = recorded /\ handed' = handed + n /\ told' = told + dropped /\ dropped' = 0
        BY <2>1
      <4>2. MaxBuffer \in Nat
        BY FileAssumption
      <4> QED
        BY <1>b, <2>2, <3>1, <4>1, <4>2
    <3> QED
      BY <3>2 DEF l1
  <2>7. ASSUME told' + dropped' = 0 PROVE Replay(picture', events' \o todo') = Existing(prev)
    <3>1. told + dropped = 0
      BY <2>1, <2>7
    <3>2. Replay(picture, events \o todo) = Existing(prev)
      BY <2>1, <2>4, <3>1
    <3>3. rest \o todo \in Seq(Event) /\ out \o (rest \o todo) = events \o todo
      <4>1. (out \o rest) \o todo = out \o (rest \o todo)
        <5>1. todo \in Seq(Event)
          OBVIOUS
        <5> HIDE DEF WatchShape, EventsAccounted
        <5>2. \A s, t, u \in Seq(Event) : (s \o t) \o u = s \o (t \o u)
          BY ConcatAssociative
        <5> QED
          BY <2>3, <5>1, <5>2, Zenon
      <4>2. rest \o todo \in Seq(Event)
        BY <2>3
      <4> QED
        BY <2>3, <4>1, <4>2
    <3>4. Replay(picture, out \o (rest \o todo)) = Replay(Replay(picture, out), rest \o todo)
      BY <2>3, <3>3, ReplayAppend
    <3> QED
      BY <2>1, <3>2, <3>3, <3>4
  <2>8. Existing(prev)' = Existing(prev)
    BY <2>1 DEF Existing
  <2> QED
    BY <2>5, <2>6, <2>7, <2>8
<1>11. CASE WatchStop
  BY <1>11 DEF WatchStop
<1> QED
  BY <1>1, <1>2, <1>3, <1>4, <1>5, <1>6, <1>7, <1>8, <1>9, <1>10, <1>11 DEF FileNext

\* No watch has been started at first.
LEMMA WatchKeptInit == FileInit => WatchKept
<1> SUFFICES ASSUME FileInit PROVE WatchKept
  OBVIOUS
<1>1. WatchShape /\ EventsAccounted
  BY DEF FileInit, WatchShape, EventsAccounted
<1> QED
  BY <1>1, PagesKeptInit DEF WatchKept

\* WatchKept is inductive.
LEMMA WatchKeptStep == WatchKept /\ [FileNext]_fileVars => WatchKept'
<1> SUFFICES ASSUME WatchKept, [FileNext]_fileVars PROVE WatchKept'
  OBVIOUS
<1>1. PagesKept'
  BY PagesKeptStep DEF WatchKept
<1>2. CASE FileNext
  BY <1>1, <1>2, WatchStep DEF WatchKept, PagesKept
<1>3. CASE UNCHANGED fileVars
  BY <1>1, <1>3 DEF fileVars, watchVars, WatchKept, WatchShape, EventsAccounted, Existing
<1> QED
  BY <1>2, <1>3

\* Every event a watch records is in its buffer, was given out once or was
\* reported as dropped once, and a client told of no drop knows the files of the
\* last snapshot, wherever its polls fell (executor_v2.py, FileWatch).
THEOREM NoEventUnaccounted == KindsSpec => []EventsAccounted
<1>1. [KindsNext]_<<vars, fileVars>> => [FileNext]_fileVars
  BY DEF KindsNext
<1>2. WatchKept => EventsAccounted
  BY DEF WatchKept
<1> QED
  BY <1>1, <1>2, WatchKeptInit, WatchKeptStep, PTL DEF KindsSpec, KindsInit
=============================================================================
