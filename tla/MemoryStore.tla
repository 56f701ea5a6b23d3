----------------------------- MODULE MemoryStore -----------------------------
(***************************************************************************)
(* agent/memory.py and the memory kinds of agent/executor_v3.py: one table *)
(* of entries that may expire, one SQLite connection, and a lock held for  *)
(* each statement, so that an operation of two statements can be           *)
(* interrupted between them by the tasks of other worker threads.          *)
(***************************************************************************)
EXTENDS Naturals, FiniteSets

CONSTANTS
  Client,      \* worker threads with a memory task
  Namespace,
  Key,
  Ttl,         \* lifetimes a task may ask for, in ticks
  MaxTime      \* bound: the clock

Entry == Namespace \X Key
Never == MaxTime + 1 \* expires_at NULL: after every time the clock shows
Record == [created : Nat, updated : Nat, expires : Nat]
Absent == [created |-> 0, updated |-> 0, expires |-> 0]

VARIABLES
  row,    \* the table: a Record or Absent for each entry
  now,    \* time.time(); starts at 1, so that no record is Absent
  pc,     \* "idle", or what the client is in the middle of
  entry,  \* the entry it works on
  held,   \* the record it has selected or is about to write
  answer  \* the entries its last memory_get or memory_list returned

vars == <<row, now, pc, entry, held, answer>>

TypeOK ==
  /\ row \in [Entry -> Record] /\ now \in 1 .. MaxTime
  /\ pc \in [Client -> {"idle", "set", "selected", "expired"}]
  /\ entry \in [Client -> Entry] /\ held \in [Client -> Record]
  /\ answer \in [Client -> SUBSET Entry]

Init ==
  /\ row = [e \in Entry |-> Absent] /\ now = 1
  /\ pc = [c \in Client |-> "idle"] /\ entry \in [Client -> {CHOOSE e \in Entry : TRUE}]
  /\ held = [c \in Client |-> Absent] /\ answer = [c \in Client |-> {}]

Expired(record) == record.expires <= now
Stored == {e \in Entry : row[e] # Absent}

\* The rows of the entries in E are deleted: DELETE FROM memory WHERE ...
Drop(E) == row' = [e \in Entry |-> IF e \in E THEN Absent ELSE row[e]]

-----------------------------------------------------------------------------
\* memory_set: updated_at and expires_at are computed before the lock is taken ...
BeginSet(c, e, ttl) ==
  /\ pc[c] = "idle" /\ pc' = [pc EXCEPT ![c] = "set"]
  /\ entry' = [entry EXCEPT ![c] = e]
  /\ held' = [held EXCEPT ![c] = [created |-> now, updated |-> now, expires |-> ttl]]
  /\ UNCHANGED <<row, now, answer>>

\* ... and under it the select and the insert, which keeps an old created_at.
CommitSet(c) ==
  /\ pc[c] = "set" /\ pc' = [pc EXCEPT ![c] = "idle"]
  /\ LET e == entry[c] IN
     row' = [row EXCEPT ![e] = [held[c] EXCEPT !.created =
               IF row[e] = Absent THEN held[c].created ELSE row[e].created]]
  /\ UNCHANGED <<now, entry, held, answer>>

delete(c, e) ==
  /\ pc[c] = "idle" /\ Drop({e})
  /\ UNCHANGED <<now, pc, entry, held, answer>>

\* memory_delete with clear_namespace; clear without a namespace has no caller.
clear(c, namespace) ==
  /\ pc[c] = "idle" /\ Drop({namespace} \X Key)
  /\ UNCHANGED <<now, pc, entry, held, answer>>

-----------------------------------------------------------------------------
(* get_record: the select under the lock, the rest without it *)

Select(c, e) ==
  /\ pc[c] = "idle" /\ entry' = [entry EXCEPT ![c] = e]
  /\ held' = [held EXCEPT ![c] = row[e]]
  /\ IF row[e] = Absent
       THEN answer' = [answer EXCEPT ![c] = {}] /\ UNCHANGED pc
       ELSE pc' = [pc EXCEPT ![c] = "selected"] /\ UNCHANGED answer
  /\ UNCHANGED <<row, now>>

CheckExpiry(c) ==
  /\ pc[c] = "selected"
  /\ IF Expired(held[c])
       THEN pc' = [pc EXCEPT ![c] = "expired"] /\ UNCHANGED answer
       ELSE pc' = [pc EXCEPT ![c] = "idle"] /\ answer' = [answer EXCEPT ![c] = {entry[c]}]
  /\ UNCHANGED <<row, now, entry, held>>

\* delete, which takes the lock again and looks at the key only.
DropExpired(c) ==
  /\ pc[c] = "expired" /\ pc' = [pc EXCEPT ![c] = "idle"]
  /\ Drop({entry[c]}) /\ answer' = [answer EXCEPT ![c] = {}]
  /\ UNCHANGED <<now, entry, held>>

\* memory_list: the rows of one namespace or of all, the expired ones hidden and kept.
list(c, namespaces) ==
  /\ pc[c] = "idle"
  /\ answer' = [answer EXCEPT ![c] =
                  {e \in Stored \cap (namespaces \X Key) : ~Expired(row[e])}]
  /\ UNCHANGED <<row, now, pc, entry, held>>

Tick == now < MaxTime /\ now' = now + 1 /\ UNCHANGED <<row, pc, entry, held, answer>>

Next ==
  \/ \E c \in Client :
       \/ \E e \in Entry :
            \/ \E at \in {now + t : t \in Ttl} \cup {Never} : BeginSet(c, e, at)
            \/ delete(c, e) \/ Select(c, e)
       \/ \E n \in Namespace : clear(c, n) \/ list(c, {n})
       \/ list(c, Namespace)
       \/ CommitSet(c) \/ CheckExpiry(c) \/ DropExpired(c)
  \/ Tick

Spec == Init /\ [][Next]_vars

-----------------------------------------------------------------------------
(* A read deletes expired rows only, as get_record's docstring has it       *)
(* (memory.py:228): a value stored between its select and its delete must   *)
(* survive.                                                                 *)
OnlyExpiredDropped ==
  [][\A c \in Client : DropExpired(c) =>
       row[entry[c]] = Absent \/ Expired(row[entry[c]])]_vars
=============================================================================
