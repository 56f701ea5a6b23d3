------------------------------ MODULE TaskQueue ------------------------------
(***************************************************************************)
(* agent/taskqueue.py: the constraint-aware holding pen for pending tasks. *)
(*                                                                         *)
(* Every public method runs under the queue's own lock, so each is one     *)
(* step; the client (TaskRunner) decides when they are called.  A task is  *)
(* its id; the schedule parse_schedule reads off its packet is given by    *)
(* the constants below.  The queue is the one main.py builds: without a    *)
(* ResultIndex and without a dependency_check.                             *)
(***************************************************************************)
EXTENDS Integers

CONSTANTS
  Task,         \* task ids
  Rank,         \* PRIORITY_RANK of each task: 0 high, 1 normal, 2 low
  NotBefore,    \* not_before of each task, 0 when it has none
  Deadline,     \* deadline of each task, beyond MaxTime when it has none
  Deps,         \* depends_on of each task
  MaxTime       \* bound: the last instant the clock reaches

HighRank == 0

ASSUME ScheduleAssumption ==
  /\ Rank \in [Task -> 0..2]
  /\ NotBefore \in [Task -> Nat]
  /\ Deadline \in [Task -> Nat]
  /\ Deps \in [Task -> SUBSET Task]
  /\ MaxTime \in Nat

VARIABLES
  now,          \* what _clock() answers
  entries,      \* ids in _entries
  older,        \* <<a, b>>: both are in _entries and a.seq < b.seq
  known,        \* _known_ids
  completed     \* _completed

queueVars == <<entries, older, known, completed>>

QueueTypeOK ==
  /\ now \in 0..MaxTime
  /\ entries \subseteq Task
  /\ older \subseteq entries \X entries
  /\ known \subseteq Task
  /\ completed \subseteq Task

QueueInit ==
  /\ entries = {}
  /\ older = {}
  /\ known = {}
  /\ completed = {}

-----------------------------------------------------------------------------
(* Reading the queue *)

is_expired(t) == Rank[t] # HighRank /\ now > Deadline[t]

\* Wrong dependencies_met: a dependency counts once it is no longer pending.
dependencies_settled(t) == Deps[t] \cap known = {}

dependencies_met(t) == Deps[t] \subseteq completed

\* Entries for which blocked_reason answers None.
Eligible == {t \in entries : now >= NotBefore[t] /\ dependencies_met(t)}

Expired == {t \in entries : is_expired(t)}

\* Wrong sort_key: the newest first, whatever its band.
PrecedesNewest(a, b) == <<b, a>> \in older

\* sort_key order on two different entries: rank, then arrival.
Precedes(a, b) ==
  \/ Rank[a] < Rank[b]
  \/ Rank[a] = Rank[b] /\ <<a, b>> \in older

\* What next_task answers once the expired entries are gone.
NextUp == {t \in Eligible : \A u \in Eligible \ {t} : Precedes(t, u)}

-----------------------------------------------------------------------------
(* Changing the queue *)

\* Take the ids in gone out of _entries, leaving _known_ids to the caller.
Unlist(gone) ==
  /\ entries' = entries \ gone
  /\ older' = {p \in older : p[1] \notin gone /\ p[2] \notin gone}

\* Wrong add: only an id in _entries is a duplicate, not one that runs.
add_unless_queued(t) ==
  /\ entries' = entries \cup {t}
  /\ older' = IF t \in entries THEN older ELSE older \cup (entries \X {t})
  /\ known' = known \cup {t}
  /\ UNCHANGED completed

\* add: an id already known is a no-op.
add(t) ==
  /\ entries' = IF t \in known THEN entries ELSE entries \cup {t}
  /\ older' = IF t \in known THEN older ELSE older \cup (entries \X {t})
  /\ known' = known \cup {t}
  /\ UNCHANGED completed

\* remove: pull one task out without running it; only a queued id is forgotten.
remove(t) ==
  /\ Unlist({t})
  /\ known' = IF t \in entries THEN known \ {t} ELSE known
  /\ UNCHANGED completed

\* drain_expired: the caller learns the removed entries, which are Expired.
drain_expired ==
  /\ Unlist(Expired)
  /\ known' = known \ Expired
  /\ UNCHANGED completed

\* Wrong pop: next_task only peeks.
peek(t) == t \in entries /\ UNCHANGED queueVars

\* next_task's pop of an eligible entry: the id stays known while it runs.
pop(t) == Unlist({t}) /\ UNCHANGED <<known, completed>>

mark_completed(t, ok) ==
  /\ known' = known \ {t}
  /\ completed' = IF ok THEN completed \cup {t} ELSE completed
  /\ UNCHANGED <<entries, older>>

Tick == now < MaxTime /\ now' = now + 1 /\ UNCHANGED queueVars
=============================================================================
