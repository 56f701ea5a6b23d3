----------------------------- MODULE AuditedVault -----------------------------
(***************************************************************************)
(* agent/audit.py and agent/secrets_vault.py: the hash-chained audit log   *)
(* that every policy decision and every use of a secret is appended to,    *)
(* its daily rotation, and the vault whose secrets tasks refer to.         *)
(*                                                                         *)
(* The threads of the agent share one AuditLog and its lock.  A command of *)
(* the CLI is a process with an AuditLog and a vault of its own on the     *)
(* same files, whether or not the agent is up.  Either process can be      *)
(* killed between any two steps, also within a copy or an append, and each *)
(* operation on a file may fail.                                           *)
(***************************************************************************)
EXTENDS Naturals, Sequences, FiniteSets

CONSTANTS
  Thread,       \* worker threads of the agent
  Secret,
  MaxRecords,   \* bound: records
  MaxDays,      \* bound: days
  MaxCrashes,   \* bound: kills
  MaxFailures   \* bound: records that fail

Cli == "cli"
Writer == Thread \cup {Cli}

ASSUME VaultAssumption ==
  /\ IsFiniteSet(Thread) /\ {Cli, "free"} \cap Thread = {} /\ IsFiniteSet(Secret)
  /\ MaxRecords \in Nat /\ MaxDays \in Nat \ {0}
  /\ MaxCrashes \in Nat /\ MaxFailures \in Nat

VARIABLES
  log,      \* audit.jsonl: lines [hmac, prev, whole, open]; open has no newline
  logDay,   \* the day of its mtime
  archive,  \* audit-<date>.jsonl.gz of each day
  today,
  vault,    \* the names in the secret store
  up,       \* whether the agent runs
  lock,     \* the AuditLog's lock in the agent: a thread, or "free"
  pc,       \* where each writer is
  job,      \* what it is doing: [what, name]
  seen,     \* the store as it loaded it
  day,      \* the day of the file it is rotating away
  prev,     \* the hash it chains onto
  mine,     \* its record; the hash of a record is its number
  made, crashes,
  returned, \* history: records whose call has returned
  failed,   \* history: those that an exception kept from being written
  met,      \* history: those made while the other process made one too
  clashed   \* history: whether both processes have rotated the file at once

files == <<log, logDay, archive>>
calls == <<pc, job, seen, day, prev, mine>>
history == <<crashes, returned, failed, met, clashed>>
vars == <<files, today, vault, up, lock, calls, made, history>>

NoJob == [what |-> "none", name |-> "none"]
Genesis == 0
Place == {"idle", "load", "save", "lock", "rotate", "copy", "unlink", "last", "append", "use"}

TypeOK ==
  /\ log \in Seq([hmac : Nat, prev : Nat, whole : BOOLEAN, open : BOOLEAN])
  /\ today \in 1 .. MaxDays /\ logDay \in 1 .. MaxDays
  /\ DOMAIN archive = 1 .. MaxDays
  /\ vault \subseteq Secret /\ up \in BOOLEAN /\ lock \in Thread \cup {"free"}
  /\ pc \in [Writer -> Place] /\ seen \in [Writer -> SUBSET Secret]
  /\ day \in [Writer -> 1 .. MaxDays]
  /\ prev \in [Writer -> Nat] /\ mine \in [Writer -> Nat] /\ made \in Nat
  /\ crashes \in 0 .. MaxCrashes /\ returned \subseteq 1 .. made
  /\ failed \subseteq 1 .. made /\ met \subseteq 1 .. made /\ clashed \in BOOLEAN

Init ==
  /\ log = <<>> /\ logDay = 1 /\ today = 1
  /\ archive = [d \in 1 .. MaxDays |-> <<>>]
  /\ vault = {} /\ up = TRUE /\ lock = "free"
  /\ pc = [w \in Writer |-> "idle"] /\ job = [w \in Writer |-> NoJob]
  /\ seen = [w \in Writer |-> {}] /\ day = [w \in Writer |-> 1]
  /\ prev = [w \in Writer |-> Genesis] /\ mine = [w \in Writer |-> 0]
  /\ made = 0 /\ crashes = 0 /\ returned = {} /\ failed = {} /\ met = {} /\ clashed = FALSE

Goto(w, where) == pc' = [pc EXCEPT ![w] = where]

-----------------------------------------------------------------------------
(* What the writers do *)

\* A worker's policy decision, or its reference to a secret (resolve_with,
\* SecretVault.get); a command of the CLI that sets or deletes a secret.
Begin(w, what, n) ==
  /\ pc[w] = "idle" /\ made < MaxRecords
  /\ IF w = Cli THEN what \in {"set", "delete"} ELSE what \in {"decide", "get"} /\ up
  /\ job' = [job EXCEPT ![w] = [what |-> what, name |-> n]]
  /\ Goto(w, IF what = "decide" THEN "lock" ELSE "load")
  /\ UNCHANGED <<files, today, vault, up, lock, seen, day, prev, mine, made, history>>

\* _load; deleting what is not there ends here, without a record.
Load(w) ==
  /\ pc[w] = "load" /\ seen' = [seen EXCEPT ![w] = vault]
  /\ Goto(w, CASE job[w].what = "get" -> "lock"
               [] job[w].what = "delete" /\ job[w].name \notin vault -> "idle"
               [] OTHER -> "save")
  /\ UNCHANGED <<files, today, vault, up, lock, job, day, prev, mine, made, history>>

\* _save, atomic by os.replace.
Save(w) ==
  /\ pc[w] = "save" /\ Goto(w, "lock")
  /\ vault' = IF job[w].what = "set" THEN seen[w] \cup {job[w].name}
              ELSE seen[w] \ {job[w].name}
  /\ UNCHANGED <<files, today, up, lock, job, seen, day, prev, mine, made, history>>

-----------------------------------------------------------------------------
(* AuditLog.record *)

Rotating(w) == pc[w] \in {"copy", "unlink"}
Recording(w) == Rotating(w) \/ pc[w] \in {"rotate", "last", "append"}
Others(w) == IF w = Cli THEN Thread ELSE {Cli}

\* A record is numbered; the other process may be making one.
Number(w) ==
  LET crowd == {v \in Others(w) : Recording(v)} IN
  /\ pc[w] = "lock" /\ Goto(w, "rotate") /\ made < MaxRecords
  /\ made' = made + 1 /\ mine' = [mine EXCEPT ![w] = made + 1]
  /\ met' = IF crowd = {} THEN met ELSE met \cup {made + 1} \cup {mine[v] : v \in crowd}
  /\ UNCHANGED <<files, today, vault, up, job, seen, day, prev, crashes, returned, failed, clashed>>

\* Wrong record: nobody takes the lock.
AcquireNothing(w) == Number(w) /\ UNCHANGED lock

Acquire(w) ==
  /\ Number(w)
  /\ IF w = Cli THEN UNCHANGED lock ELSE lock = "free" /\ lock' = w

\* What a call had in hand is gone with it.
Forget(gone) ==
  /\ job' = [w \in Writer |-> IF w \in gone THEN NoJob ELSE job[w]]
  /\ seen' = [w \in Writer |-> IF w \in gone THEN {} ELSE seen[w]]
  /\ day' = [w \in Writer |-> IF w \in gone THEN 1 ELSE day[w]]
  /\ prev' = [w \in Writer |-> IF w \in gone THEN Genesis ELSE prev[w]]

\* record returns, and a get that found its secret goes on to use it.
Return(w) ==
  /\ Forget({w})
  /\ returned' = returned \cup {mine[w]}
  /\ lock' = IF w = Cli THEN lock ELSE "free"
  /\ Goto(w, IF job[w].what = "get" /\ job[w].name \in seen[w] THEN "use" ELSE "idle")

\* _maybe_rotate finds a file of another day ...
Rotate(w) ==
  /\ pc[w] = "rotate"
  /\ IF log # <<>> /\ logDay < today
       THEN /\ Goto(w, "copy") /\ day' = [day EXCEPT ![w] = logDay]
            /\ clashed' = (clashed \/ \E v \in Others(w) : Rotating(v))
       ELSE Goto(w, "last") /\ UNCHANGED <<day, clashed>>
  /\ UNCHANGED <<files, today, vault, up, lock, job, seen, prev, mine, made,
                 crashes, returned, failed, met>>

\* Wrong _maybe_rotate: the file goes before it is copied.
CopyByMove(w) ==
  /\ pc[w] = "copy" /\ Goto(w, "unlink") /\ log' = <<>>
  /\ UNCHANGED <<logDay, archive, today, vault, up, lock, job, seen, day, prev, mine, made, history>>

\* What a copy that ends early leaves: no archive that can be read.
Spoilt(d) == [archive EXCEPT ![d] = <<>>]

\* ... copies it into the archive; a failure is logged, and the record goes on
\* to the old file ...
Copy(w) ==
  /\ pc[w] = "copy"
  /\ \/ log # <<>> /\ archive' = [archive EXCEPT ![day[w]] = log] /\ Goto(w, "unlink")
     \/ archive' \in {archive, Spoilt(day[w])} /\ Goto(w, "last")
  /\ UNCHANGED <<log, logDay, today, vault, up, lock, job, seen, day, prev, mine, made, history>>

\* ... and unlinks it, with the same way to fail.
Unlink(w) ==
  /\ pc[w] = "unlink" /\ Goto(w, "last") /\ log' \in {log, <<>>}
  /\ UNCHANGED <<logDay, archive, today, vault, up, lock, job, seen, day, prev, mine, made, history>>

\* What a line after the first i chains onto; a tail that is no JSON starts anew.
Link(lines, i) == IF i = 0 \/ ~lines[i].whole THEN Genesis ELSE lines[i].hmac

\* _last_hmac.
LastHmac(w) ==
  /\ pc[w] = "last" /\ Goto(w, "append")
  /\ prev' = [prev EXCEPT ![w] = Link(log, Len(log))]
  /\ UNCHANGED <<files, today, vault, up, lock, job, seen, day, mine, made, history>>

\* A line written after one without a newline becomes part of it, unreadable.
WithLine(line) ==
  IF log # <<>> /\ log[Len(log)].open
    THEN [log EXCEPT ![Len(log)] = [line EXCEPT !.whole = FALSE]]
    ELSE Append(log, line)

\* The line, or what there is of it when it was cut short.
Write(w, whole) ==
  /\ pc[w] = "append" /\ logDay' = today
  /\ log' = WithLine([hmac |-> mine[w], prev |-> prev[w], whole |-> whole, open |-> ~whole])

Finish(w) ==
  /\ Write(w, TRUE) /\ Return(w)
  /\ UNCHANGED <<archive, today, vault, up, mine, made, crashes, failed, met, clashed>>

\* An exception is logged and record returns all the same; of the line a part
\* may be in the file.
Fail(w) ==
  /\ pc[w] \in {"rotate", "last", "append"} /\ Cardinality(failed) < MaxFailures
  /\ failed' = failed \cup {mine[w]} /\ Return(w)
  /\ UNCHANGED <<log, logDay>> \/ Write(w, FALSE)
  /\ UNCHANGED <<archive, today, vault, up, mine, made, crashes, met, clashed>>

\* The command that the secret was substituted into ends.
Used(w) ==
  /\ pc[w] = "use" /\ Goto(w, "idle")
  /\ UNCHANGED <<files, today, vault, up, lock, job, seen, day, prev, mine, made, history>>

-----------------------------------------------------------------------------
\* A process is killed; of a line or of an archive that it was writing a part
\* may be there.
Kill(dead) ==
  /\ crashes < MaxCrashes /\ crashes' = crashes + 1
  /\ \/ UNCHANGED files
     \/ \E w \in dead : Write(w, FALSE) /\ UNCHANGED archive
     \/ \E w \in dead : pc[w] = "copy" /\ archive' = Spoilt(day[w]) /\ UNCHANGED <<log, logDay>>
  /\ pc' = [w \in Writer |-> IF w \in dead THEN "idle" ELSE pc[w]]
  /\ Forget(dead)
  /\ UNCHANGED <<today, vault, mine, made, returned, failed, met, clashed>>

AgentDies == up /\ up' = FALSE /\ lock' = "free" /\ Kill(Thread)
CliDies == pc[Cli] # "idle" /\ Kill({Cli}) /\ UNCHANGED <<up, lock>>

AgentStarts ==
  /\ ~up /\ up' = TRUE
  /\ UNCHANGED <<files, today, vault, lock, calls, made, history>>

Midnight ==
  /\ today < MaxDays /\ today' = today + 1
  /\ UNCHANGED <<files, vault, up, lock, calls, made, history>>

Next ==
  \/ \E w \in Writer :
       \/ \E what \in {"decide", "get", "set", "delete"}, n \in Secret : Begin(w, what, n)
       \/ Load(w) \/ Save(w)
       \/ Acquire(w) \/ Rotate(w) \/ Copy(w) \/ Unlink(w) \/ LastHmac(w)
       \/ Finish(w) \/ Fail(w) \/ Used(w)
  \/ AgentDies \/ CliDies \/ AgentStarts \/ Midnight

Spec == Init /\ [][Next]_vars

-----------------------------------------------------------------------------
\* verify_chain goes through a file as long as this holds of its lines.
Verified(lines, i) == lines[i].whole /\ lines[i].prev = Link(lines, i - 1)

Files == {log} \cup {archive[d] : d \in DOMAIN archive}
Torn(lines) == {i \in DOMAIN lines : ~lines[i].whole}

(* Across rotations, restarts, kills and failures: verify_chain stops at    *)
(* nothing but a line cut short, of which there is at most one in a file    *)
(* for every kill and every failed record, or a record that was made while  *)
(* the other process made one: the lock is per process, and two processes   *)
(* may chain onto the same line (audit.py:308).  One cut does not break the *)
(* chain of the lines after it, though verify_chain stops there.            *)
ChainSound ==
  \A f \in Files :
    /\ \A i \in DOMAIN f : Verified(f, i) \/ i \in Torn(f) \/ f[i].hmac \in met
    /\ Cardinality(Torn(f)) <= crashes + Cardinality(failed)

Readable == UNION {{f[i].hmac : i \in DOMAIN f \ Torn(f)} : f \in Files}
OnTornLine == UNION {{f[i].hmac : i \in Torn(f)} : f \in Files}

(* As long as two processes have not rotated the file at once, a record     *)
(* whose call has returned can be read in a file, and so can the access to  *)
(* a secret that a task uses (secrets_vault.py:280), except for: a record   *)
(* whose own failure was swallowed (audit.py:192), the one that came after  *)
(* a line cut short and became part of it, and one made while the other     *)
(* process made one, whose rotation may unlink it.                          *)
RecordsKept ==
  ~clashed =>
    \A r \in returned \cup {mine[t] : t \in {t \in Thread : pc[t] = "use"}} :
      r \in Readable \cup OnTornLine \cup failed \cup met
=============================================================================
