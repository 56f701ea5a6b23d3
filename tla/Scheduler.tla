------------------------------ MODULE Scheduler ------------------------------
(***************************************************************************)
(* agent/scheduler.py: schedules that worker threads add, cancel, pause    *)
(* and resume through the v3 kinds, a ticker thread that dispatches what   *)
(* is due, and the JSON file that every one of them saves.                 *)
(*                                                                         *)
(* Nothing in the agent calls start or run_due: the ticker is that of a    *)
(* program that embeds the scheduler and does.                             *)
(*                                                                         *)
(* A method changes the registry under the lock; save takes its snapshot   *)
(* under the lock again, and writes outside it to one temporary file that  *)
(* it then renames.  A crash loses all but the two files.                  *)
(***************************************************************************)
EXTENDS Naturals, Sequences, FiniteSets, FiniteSetsExt

CONSTANTS
  Id,
  Worker,
  Payloads,      \* what producers schedule: [at, every, slots, max]
  MaxSchedules,  \* MAX_SCHEDULES
  MaxTime,       \* bound: minutes
  MaxOps,        \* bound: calls of the workers
  MaxCrashes     \* bound: crashes of the process

None == 0                                  \* no time; the clock starts at 1
Unset == [at |-> None, every |-> None, slots |-> {}, max |-> 0]
Payload == [at : Nat, every : Nat, slots : SUBSET Nat, max : Nat]

ASSUME SchedulerAssumption ==
  /\ IsFiniteSet(Id) /\ IsFiniteSet(Worker) /\ Payloads \subseteq Payload
  /\ MaxSchedules \in Nat /\ MaxTime \in Nat /\ MaxOps \in Nat /\ MaxCrashes \in Nat

Ticker == "ticker"
Thread == Worker \cup {Ticker}

VARIABLES
  sched,    \* _schedules: the Schedule of each id, or NoSchedule
  now,      \* the clock
  pc,       \* where each thread is
  snap,     \* the snapshot a save has in hand
  handle,   \* where the file that a save has open is by now
  main,     \* schedules.json
  tmp,      \* schedules.json.tmp
  batch,    \* run_due's list: the objects found due, not yet dispatched
  current,  \* the object being dispatched
  ops, crashes,
  fired     \* when each object was last dispatched in this process

vars == <<sched, now, pc, snap, handle, main, tmp, batch, current, ops, crashes, fired>>

NoSchedule == [made |-> 0]

\* A Schedule; "made" tells the objects apart that had the same id.
Schedule(p, on, n, made) ==
  [spec |-> p, enabled |-> on, runs |-> 0, next |-> n, made |-> made]

\* A file: absent, empty, the whole of a snapshot, or a mix of two.
File(state, data) == [state |-> state, data |-> data]
Nothing == [i \in Id |-> NoSchedule]

Registered == {i \in Id : sched[i] # NoSchedule}

-----------------------------------------------------------------------------
(* When a schedule fires next *)

\* parse_schedule: exactly one trigger.
Triggers(p) == (IF p.at # None THEN 1 ELSE 0) + (IF p.every # None THEN 1 ELSE 0)
                 + (IF p.slots # {} THEN 1 ELSE 0)

\* next_cron_time: the first slot strictly after the moment, within the horizon
\* of the clock; otherwise the expression "never fires".
CronNext(p, moment) ==
  LET later == {m \in p.slots : m > moment /\ m <= MaxTime}
  IN IF later = {} THEN None ELSE Min(later)

\* Wrong compute_next_run: from the slot that was missed.
NextFromSlot(s, moment) ==
  IF s.spec.every # None THEN s.next + s.spec.every
  ELSE IF s.spec.at # None THEN s.spec.at ELSE CronNext(s.spec, moment)

\* compute_next_run; None is its ScheduleError.
NextRun(s, moment) ==
  IF s.spec.slots # {} THEN CronNext(s.spec, moment)
  ELSE IF s.spec.every # None THEN moment + s.spec.every ELSE s.spec.at

Exhausted(s) ==
  \/ s.spec.at # None /\ s.runs >= 1
  \/ s.spec.max # 0 /\ s.runs >= s.spec.max

Due(i) ==
  /\ sched[i] # NoSchedule /\ sched[i].enabled /\ ~Exhausted(sched[i])
  /\ sched[i].next # None /\ sched[i].next <= now

-----------------------------------------------------------------------------
(* The workers: schedule_task, schedule_cancel, set_enabled *)

Busy(t, what) == pc' = [pc EXCEPT ![t] = what]

\* A call by an idle worker.
Call(w) == pc[w] = "idle" /\ ops < MaxOps /\ ops' = ops + 1

Same == UNCHANGED <<now, snap, handle, main, tmp, batch, current, crashes, fired>>

\* parse_schedule and add: refused with two triggers, a cron that never fires,
\* or a new id when there are MAX_SCHEDULES; a payload may ask for a paused one.
Add(w, i, p, on) ==
  LET n == NextRun([spec |-> p, next |-> now], now) IN
  /\ Call(w) /\ Same
  /\ IF Triggers(p) = 1 /\ n # None /\ (i \in Registered \/ Cardinality(Registered) < MaxSchedules)
       THEN sched' = [sched EXCEPT ![i] = Schedule(p, on, n, ops + 1)] /\ Busy(w, "save")
       ELSE UNCHANGED <<sched, pc>>

Remove(w, i) ==
  /\ Call(w) /\ Same
  /\ IF i \in Registered
       THEN sched' = [sched EXCEPT ![i] = NoSchedule] /\ Busy(w, "save")
       ELSE UNCHANGED <<sched, pc>>

\* A schedule that is resumed may never fire again: that raises before the save.
SetEnabled(w, i, on) ==
  /\ Call(w) /\ i \in Registered /\ Same
  /\ LET n == IF on /\ sched[i].next = None THEN NextRun(sched[i], now) ELSE sched[i].next IN
     /\ sched' = [sched EXCEPT ![i].enabled = on, ![i].next = n]
     /\ IF on /\ n = None THEN UNCHANGED pc ELSE Busy(w, "save")

-----------------------------------------------------------------------------
(* save, by a worker or by the ticker *)

Snapshot(t) ==
  /\ pc[t] = "save" /\ Busy(t, "open")
  /\ snap' = [snap EXCEPT ![t] = sched]
  /\ UNCHANGED <<sched, now, handle, main, tmp, batch, current, ops, crashes, fired>>

\* write_text opens the temporary file, which another save may have open too ...
Open(t) ==
  /\ pc[t] = "open" /\ Busy(t, "fill")
  /\ tmp' = File("empty", Nothing) /\ handle' = [handle EXCEPT ![t] = "tmp"]
  /\ UNCHANGED <<sched, now, snap, main, batch, current, ops, crashes, fired>>

\* ... and writes from its start, over what another one wrote.
Over(old, t) ==
  {File("whole", snap[t])} \cup
    (IF old.state = "empty" \/ old.data = snap[t] THEN {} ELSE {File("torn", Nothing)})

Fill(t) ==
  /\ pc[t] = "fill" /\ Busy(t, "replace")
  /\ CASE handle[t] = "tmp" -> tmp' \in Over(tmp, t) /\ UNCHANGED main
       [] handle[t] = "main" -> main' \in Over(main, t) /\ UNCHANGED tmp
       [] OTHER -> UNCHANGED <<main, tmp>>
  /\ handle' = [handle EXCEPT ![t] = "closed"]
  /\ UNCHANGED <<sched, now, snap, batch, current, ops, crashes, fired>>

\* tmp.replace: an open file goes with its name; without the temporary file
\* it raises, which is logged.
Replace(t) ==
  /\ pc[t] = "replace" /\ Busy(t, "idle")
  /\ IF tmp.state = "none" THEN UNCHANGED <<main, tmp, handle>>
     ELSE /\ main' = tmp /\ tmp' = File("none", Nothing)
          /\ handle' = [u \in Thread |-> CASE handle[u] = "tmp" -> "main"
                                           [] handle[u] = "main" -> "gone"
                                           [] OTHER -> handle[u]]
  /\ snap' = [snap EXCEPT ![t] = Nothing]
  /\ UNCHANGED <<sched, now, batch, current, ops, crashes, fired>>

Save(t) == Snapshot(t) \/ Open(t) \/ Fill(t) \/ Replace(t)

-----------------------------------------------------------------------------
(* The ticker: run_due *)

Object(i) == [id |-> i, made |-> sched[i].made, spec |-> sched[i].spec]
DueNow == {i \in Id : Due(i)}

\* What sorting the due by their next run may give.
Orders ==
  LET Turn == 1 .. Cardinality(DueNow) IN
  {q \in [Turn -> DueNow] : \A j, k \in Turn : j < k =>
     q[j] # q[k] /\ sched[q[j]].next <= sched[q[k]].next}

\* due, once there is something in it: the objects, soonest first.
FindDue ==
  /\ pc[Ticker] = "idle" /\ batch = <<>> /\ DueNow # {}
  /\ batch' \in {[k \in DOMAIN q |-> Object(q[k])] : q \in Orders}
  /\ UNCHANGED <<sched, now, pc, snap, handle, main, tmp, current, ops, crashes, fired>>

Dispatch ==
  /\ pc[Ticker] = "idle" /\ batch # <<>> /\ Busy(Ticker, "dispatch")
  /\ current' = Head(batch) /\ batch' = Tail(batch)
  /\ fired' = fired \cup {[object |-> Head(batch), at |-> now]}
  /\ UNCHANGED <<sched, now, snap, handle, main, tmp, ops, crashes>>

\* The executor answers, or an exception is caught and noted.
DispatchEnds ==
  /\ pc[Ticker] = "dispatch" /\ Busy(Ticker, "mark")
  /\ UNCHANGED <<sched, now, snap, handle, main, tmp, batch, current, ops, crashes, fired>>

\* mark_fired rolls the object forward, whether or not it is still registered.
Rolled(s) ==
  LET t == [s EXCEPT !.runs = @ + 1]
      n == IF Exhausted(t) THEN None ELSE NextRun(t, now)
  IN [t EXCEPT !.next = n, !.enabled = @ /\ n # None]

MarkFired ==
  /\ pc[Ticker] = "mark" /\ Busy(Ticker, "save")
  /\ sched' = [i \in Id |-> IF sched[i] # NoSchedule /\ Object(i) = current
                              THEN Rolled(sched[i]) ELSE sched[i]]
  /\ UNCHANGED <<now, snap, handle, main, tmp, batch, current, ops, crashes, fired>>

Tick == FindDue \/ Dispatch \/ DispatchEnds \/ MarkFired

-----------------------------------------------------------------------------
Minute == now < MaxTime /\ now' = now + 1
  /\ UNCHANGED <<sched, pc, snap, handle, main, tmp, batch, current, ops, crashes, fired>>

\* load: a file that is missing or not JSON restores nothing.
Loaded ==
  IF main.state # "whole" THEN Nothing
  ELSE [i \in Id |->
         LET s == main.data[i] IN
         IF s = NoSchedule \/ s.next # None \/ ~s.enabled \/ Exhausted(s) THEN s
         ELSE [s EXCEPT !.next = NextRun(s, now), !.enabled = NextRun(s, now) # None]]

\* The process dies and a new one reads the file.
Crash ==
  /\ crashes < MaxCrashes /\ crashes' = crashes + 1
  /\ sched' = Loaded
  /\ pc' = [t \in Thread |-> "idle"]
  /\ snap' = [t \in Thread |-> Nothing]
  /\ handle' = [t \in Thread |-> "closed"]
  /\ batch' = <<>> /\ current' = NoSchedule /\ fired' = {}
  /\ UNCHANGED <<now, main, tmp, ops>>

Init ==
  /\ sched = Nothing /\ now = 1
  /\ pc = [t \in Thread |-> "idle"]
  /\ snap = [t \in Thread |-> Nothing]
  /\ handle = [t \in Thread |-> "closed"]
  /\ main = File("none", Nothing) /\ tmp = main
  /\ batch = <<>> /\ current = NoSchedule
  /\ ops = 0 /\ crashes = 0 /\ fired = {}

Next ==
  \/ \E w \in Worker, i \in Id :
       \/ Remove(w, i)
       \/ \E on \in BOOLEAN :
            SetEnabled(w, i, on) \/ \E p \in Payloads : Add(w, i, p, on)
  \/ \E t \in Thread : Save(t)
  \/ Tick \/ Minute \/ Crash

Spec == Init /\ [][Next]_vars

-----------------------------------------------------------------------------
(* Of a ticker that someone starts: however long a dispatch or a sleep      *)
(* lasts, and whoever edits the registry meanwhile, within one process a    *)
(* one-shot is dispatched once, a cron schedule once per slot, and two      *)
(* dispatches of an interval schedule are at least the interval apart; the  *)
(* slots missed are not replayed (scheduler.py:398).                        *)
CadenceKept ==
  [][pc[Ticker] = "idle" /\ pc'[Ticker] = "dispatch" =>
       \A f \in fired : f.object = current' =>
         /\ f.object.spec.at = None
         /\ now > f.at /\ now >= f.at + f.object.spec.every]_vars
=============================================================================
