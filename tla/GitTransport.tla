---------------------------- MODULE GitTransport ----------------------------
(***************************************************************************)
(* The bridge: one git working copy that the worker threads (reporter.py,  *)
(* poller.py), the main thread's pull (poller.py) and the confirmation     *)
(* queue (confirm.py, in this process and in the command line's) change,   *)
(* and the remote that producers push packets to.                          *)
(*                                                                         *)
(* The working copy, the index and the commits are sets of files.  Every   *)
(* git call runs with check=False: one that fails is passed over.  A call  *)
(* fails when the network does (push, pull), or when it meets the          *)
(* index.lock of another: GIT_PUSH_LOCK keeps the reporters and the poller *)
(* apart, but pull and confirm.py do not take it.  Nothing here promises   *)
(* that a result travels: whether a plain `git pull` merges diverged       *)
(* branches is up to git's version and settings.                           *)
(***************************************************************************)
EXTENDS Naturals, FiniteSets

CONSTANTS
  Task, Worker, Main, Cli,
  Parked,       \* tasks the policy may want confirmed
  Streamed,     \* tasks whose executor may send the final chunk itself
  NoTask

Thread == Worker \cup {Main, Cli}
\* "failed" stands for a packet renamed failed-, however often it has been.
Name == {"packet", "failed", "done"}
\* The confirmation queue's files are left out: what counts is that whoever
\* writes one stages and commits what else there is.
File == (Name \cup {"result"}) \X Task
\* What fetch_pending_tasks lists: all that is not called done-.
Waiting(t) == {"packet", "failed"} \X {t}

ASSUME TransportAssumption ==
  /\ Parked \subseteq Task /\ Streamed \subseteq Task /\ NoTask \notin Task
  /\ Main \notin Worker /\ Cli \notin Worker /\ Main # Cli

VARIABLES
  pc, job,     \* where each thread is, and the task it does it for
  phase,       \* what is being written
  lock,        \* GIT_PUSH_LOCK: the set of threads that hold it
  tree, index, head,  \* the working copy
  base,        \* the last commit the working copy and the remote shared
  ahead,       \* commits the remote does not have
  remote, behind      \* the remote, and whether it has commits of others

threadVars == <<pc, job, phase, lock>>
repoVars == <<tree, index, head, base, ahead, remote, behind>>
vars == <<threadVars, repoVars>>

\* A parked task's pending file and its notice, or a report; then the new name
\* of the packet.  The command line writes replies.
Phase == {"park", "notice", "report", "done", "failed", "reply"}

TypeOK ==
  /\ pc \in [Thread -> {"idle", "write", "lock", "add", "commit", "push", "pull"}]
  /\ job \in [Thread -> Task \cup {NoTask}] /\ phase \in [Thread -> Phase]
  /\ lock \subseteq Thread
  /\ \A s \in {tree, index, head, base, remote} : s \subseteq File
  /\ ahead \in BOOLEAN /\ behind \in BOOLEAN

Init ==
  /\ pc = [w \in Thread |-> "idle"] /\ job = [w \in Thread |-> NoTask]
  /\ phase = [w \in Thread |-> "report"] /\ lock = {}
  /\ tree = {} /\ index = {} /\ head = {} /\ base = {} /\ remote = {}
  /\ ahead = FALSE /\ behind = FALSE

-----------------------------------------------------------------------------
Go(w, p) == pc' = [pc EXCEPT ![w] = p]

\* A git process that holds index.lock while it runs.
Indexing(w) == pc[w] \in {"add", "commit", "pull"}
Contended(w) == \E v \in Thread \ {w} : Indexing(v)

\* A producer clones, adds a packet and pushes.
Produce(t) ==
  /\ \A k \in Name : <<k, t>> \notin remote \cup tree
  /\ remote' = remote \cup {<<"packet", t>>} /\ behind' = TRUE
  /\ UNCHANGED <<threadVars, tree, index, head, base, ahead>>

\* The main loop's _sync: a pull, not under the lock.
Sync ==
  /\ pc[Main] = "idle" /\ Go(Main, "pull")
  /\ UNCHANGED <<job, phase, lock, repoVars>>

\* What a three-way merge of head and remote gives.
Merged == (head \cap remote) \cup (head \ base) \cup (remote \ base)

\* new replaces head; what the tree and the index have beside it stays.
Checkout(new) ==
  /\ tree' = (tree \ (head \ new)) \cup (new \ head)
  /\ index' = (index \ (head \ new)) \cup (new \ head)
  /\ head' = new /\ base' = remote /\ behind' = FALSE

\* A pull that fails changes nothing, and so may one that finds the branches
\* diverged: git merges them or refuses to.
Pull ==
  /\ pc[Main] = "pull" /\ Go(Main, "idle")
  /\ UNCHANGED <<job, phase, lock, ahead, remote>>
  /\ \/ behind /\ ~ahead /\ Checkout(remote)
     \/ behind /\ ahead /\ index = head /\ Checkout(Merged)
     \/ UNCHANGED <<tree, index, head, base, behind>>

\* A worker that has run the task of a packet reports it, when it has not to
\* be parked first.  When the executor has sent the final chunk itself, nothing
\* is reported and the packet is renamed.
Begin(w, t) ==
  /\ w \in Worker /\ pc[w] = "idle" /\ Waiting(t) \cap tree # {}
  /\ \A v \in Worker : job[v] # t
  /\ Go(w, "write") /\ job' = [job EXCEPT ![w] = t]
  /\ \E p \in Phase \ {"notice", "reply"} :
       /\ phase' = [phase EXCEPT ![w] = p]
       /\ p = "park" => t \in Parked
       /\ p \in {"done", "failed"} => t \in Streamed
  /\ UNCHANGED <<lock, repoVars>>

\* The command line answers whatever it is asked to, in its own process.
Reply(t) ==
  /\ pc[Cli] = "idle" /\ t \in Parked
  /\ Go(Cli, "write") /\ job' = [job EXCEPT ![Cli] = t]
  /\ phase' = [phase EXCEPT ![Cli] = "reply"]
  /\ UNCHANGED <<lock, repoVars>>

\* Reporter._write and GithubPoller._commit_and_push take GIT_PUSH_LOCK,
\* ConfirmManager._commit_and_push does not.
Locking == {"notice", "report", "done", "failed"}

Finished(w) ==
  /\ Go(w, "idle") /\ job' = [job EXCEPT ![w] = NoTask]
  /\ phase' = [phase EXCEPT ![w] = "report"]

\* Where a thread goes after the push: the notice follows the parking, the
\* renaming follows a report.  To be parked counts as failed.
Then ==
  [park |-> {"notice"}, notice |-> {"failed"}, report |-> {"done", "failed"},
   done |-> {}, failed |-> {}, reply |-> {}]

After(w) ==
  \/ /\ \E p \in Then[phase[w]] : phase' = [phase EXCEPT ![w] = p]
     /\ Go(w, "write") /\ UNCHANGED job
  \/ Then[phase[w]] = {} /\ Finished(w)

\* mark_done and mark_failed do nothing when the path is gone.
Rename(w, t) ==
  \/ Waiting(t) \cap tree = {} /\ Finished(w) /\ UNCHANGED tree
  \/ /\ Waiting(t) \cap tree # {} /\ Go(w, "lock") /\ UNCHANGED <<job, phase>>
     /\ tree' = (tree \ Waiting(t)) \cup {<<phase[w], t>>}

\* The result is written, the packet renamed.  A report that raises ends the
\* run; a copy of a pending file or reply that cannot be written is passed over.
Write(w) ==
  /\ pc[w] = "write" /\ UNCHANGED <<lock, index, head, base, ahead, remote, behind>>
  /\ \/ phase[w] \notin Locking /\ Go(w, "add") /\ UNCHANGED <<job, phase, tree>>
     \/ phase[w] \notin Locking /\ After(w) /\ UNCHANGED tree
     \/ /\ phase[w] \in {"notice", "report"} /\ tree' = tree \cup {<<"result", job[w]>>}
        /\ Go(w, "lock") /\ UNCHANGED <<job, phase>>
     \/ phase[w] \in {"notice", "report"} /\ Finished(w) /\ UNCHANGED tree
     \/ phase[w] \in {"done", "failed"} /\ Rename(w, job[w])

Acquire(w) ==
  /\ pc[w] = "lock" /\ lock = {} /\ lock' = {w} /\ Go(w, "add")
  /\ UNCHANGED <<job, phase, repoVars>>

\* A call that meets another's index.lock changes nothing, and the next runs.
Fails(w) ==
  /\ Contended(w) /\ UNCHANGED <<index, head, ahead>>

\* The files a phase writes or renames.
Own(w) ==
  (IF phase[w] \in {"done", "failed"} THEN Name
   ELSE IF phase[w] \in Locking THEN {"result"} ELSE {}) \X {job[w]}

AddOwn(w) ==
  /\ pc[w] = "add" /\ Go(w, "commit")
  /\ UNCHANGED <<job, phase, lock, tree, head, base, ahead, remote, behind>>
  /\ \/ Fails(w)
     \/ index' = (index \ Own(w)) \cup (tree \cap Own(w))

AddNew(w) ==
  /\ pc[w] = "add" /\ Go(w, "commit")
  /\ UNCHANGED <<job, phase, lock, tree, head, base, ahead, remote, behind>>
  /\ index' = index \cup (tree \cap Own(w))

\* The reporter adds its file, the others the whole tree.
Add(w) ==
  /\ pc[w] = "add" /\ Go(w, "commit")
  /\ UNCHANGED <<job, phase, lock, tree, base, remote, behind>>
  /\ \/ Fails(w)
     \/ /\ index' = IF phase[w] \in {"notice", "report"}
                       THEN index \cup {<<"result", job[w]>>} ELSE tree
        /\ UNCHANGED <<head, ahead>>

\* Only the reporter's commit is refused when there is nothing to commit.
Commit(w) ==
  /\ pc[w] = "commit" /\ Go(w, "push")
  /\ UNCHANGED <<job, phase, lock, tree, index, base, remote, behind>>
  /\ \/ Fails(w)
     \/ IF phase[w] \in {"notice", "report"} /\ index = head
          THEN UNCHANGED <<head, ahead>> ELSE head' = index /\ ahead' = TRUE

\* The remote may take a push that contains its tip, and rejects any other.
Push(w) ==
  /\ pc[w] = "push" /\ After(w) /\ lock' = lock \ {w}
  /\ UNCHANGED <<tree, index, head, behind>>
  /\ \/ ~behind /\ remote' = head /\ base' = head /\ ahead' = FALSE
     \/ UNCHANGED <<remote, base, ahead>>

Step(w) == Write(w) \/ Acquire(w) \/ Add(w) \/ Commit(w) \/ Push(w)

Next ==
  \/ \E t \in Task : Produce(t) \/ Reply(t)
  \/ Sync \/ Pull
  \/ \E w \in Worker, t \in Task : Begin(w, t)
  \/ \E w \in Thread : Step(w)

Spec == Init /\ [][Next]_vars

-----------------------------------------------------------------------------
(* Whoever reads the remote and finds a packet marked done finds its       *)
(* result too, whatever git calls failed or were rejected on the way.  Not *)
(* of a streamed packet: its answer is in its chunks (runner.py:311).      *)
DoneImpliesResult ==
  \A t \in Task \ Streamed : <<"done", t>> \in remote => <<"result", t>> \in remote

(* The remote never loses a packet: each one pushed is there, under its    *)
(* own name or a new one, and under one name only.                         *)
PacketKept ==
  [][\A t \in Task :
       LET here == {k \in Name : <<k, t>> \in remote}
           then == {k \in Name : <<k, t>> \in remote'}
       IN here # {} => Cardinality(then) = 1]_vars
=============================================================================
