-------------------------- MODULE GitTransportProofs --------------------------
(***************************************************************************)
(* Nobody who reads the remote finds a packet done without its result, for *)
(* any number of workers and tasks, whatever calls fail, whether a pull    *)
(* merges or not, and although two of the writers take no lock.  A packet  *)
(* whose executor streams is left out: its last chunk is its answer.       *)
(*                                                                         *)
(* The argument: results are never removed, from anywhere, so what holds a *)
(* done packet can only lack its result where it was made, in the working  *)
(* copy, and there the worker writes the result first.                     *)
(*                                                                         *)
(* Nor does the remote lose a packet (PacketSurvives): a packet enters the *)
(* working copy by a pull only, so whatever has it there is in the common  *)
(* base, and on the packets of the base the remote has nothing new that a  *)
(* merge or a push could overwrite.                                        *)
(***************************************************************************)
EXTENDS GitTransport, FiniteSetTheorems, TLAPS

Places == {"idle", "write", "lock", "add", "commit", "push", "pull"}

Control ==
  /\ pc \in [Thread -> Places] /\ phase \in [Thread -> Phase]
  /\ DOMAIN job = Thread

Backed(s) == \A t \in Task \ Streamed : <<"done", t>> \in s => <<"result", t>> \in s
Within(s, u) == \A t \in Task : <<"result", t>> \in s => <<"result", t>> \in u

\* A worker that reports has written the result, and has one to mark.
Written ==
  \A w \in Thread :
    /\ pc[w] \in {"write", "lock", "add", "commit", "push"} => job[w] \in Task
    /\ pc[w] \in {"lock", "add", "commit", "push"} /\ phase[w] \in {"notice", "report"}
         => <<"result", job[w]>> \in tree
    /\ pc[w] = "write" /\ phase[w] = "done" /\ job[w] \notin Streamed
         => <<"result", job[w]>> \in tree

Nested ==
  /\ Within(base, remote) /\ Within(base, head)
  /\ Within(head, index) /\ Within(index, tree)
  /\ ~ahead => head = base

IInv ==
  /\ Control /\ Written /\ Nested
  /\ Backed(tree) /\ Backed(index) /\ Backed(head) /\ Backed(remote)

-----------------------------------------------------------------------------
\* A checkout of a state that has all results of the last commit, and each
\* done packet with its result, loses no result and keeps what is nested so.
LEMMA CheckoutKeeps ==
  ASSUME NEW new, Nested,
         Backed(tree), Backed(index), Backed(new),
         Within(head, new), Within(remote, new),
         Checkout(new)
  PROVE  /\ Within(tree, tree') /\ Backed(tree') /\ Backed(index') /\ Backed(head')
         /\ Within(head', index') /\ Within(index', tree') /\ Within(base', head')
         /\ base' = remote /\ head' = new
<1>1. /\ tree' = (tree \ (head \ new)) \cup (new \ head)
      /\ index' = (index \ (head \ new)) \cup (new \ head)
      /\ head' = new /\ base' = remote
  BY DEF Checkout
<1>2. Within(head, index) /\ Within(index, tree)
  BY DEF Nested
<1>3. Within(tree, tree') /\ Within(index, index')
  BY <1>1 DEF Within
<1>4. Within(new, index') /\ Within(new, tree')
  BY <1>1, <1>2 DEF Within
<1>5. Backed(tree') /\ Backed(index')
  BY <1>1, <1>3, <1>4 DEF Backed, Within
<1>6. Within(index', tree')
  BY <1>1, <1>2, <1>3, <1>4 DEF Within
<1> QED
  BY <1>1, <1>3, <1>4, <1>5, <1>6

\* A merge has the results of both sides, and no done packet without one.
LEMMA MergeKeeps ==
  ASSUME Nested, Backed(head), Backed(remote)
  PROVE  Backed(Merged) /\ Within(head, Merged) /\ Within(remote, Merged)
<1>1. Within(head, Merged) /\ Within(remote, Merged)
  BY DEF Nested, Within, Merged
<1>2. \A x : x \in Merged => x \in head \/ x \in remote
  BY DEF Merged
<1> QED
  BY <1>1, <1>2 DEF Backed, Within

\* IInv holds at first: there is no file anywhere.
LEMMA Start == Init => IInv
  BY DEF Init, IInv, Control, Places, Phase, Written, Nested, Within, Backed

\* Every step keeps it, one case for each action.
LEMMA Steps == IInv /\ [Next]_vars => IInv'
<1> SUFFICES ASSUME IInv, [Next]_vars PROVE IInv'
  OBVIOUS
<1> USE DEF IInv
<1>1. ASSUME NEW t \in Task, Produce(t) PROVE IInv'
  <2>1. /\ remote' = remote \cup {<<"packet", t>>}
        /\ UNCHANGED <<pc, job, phase, tree, index, head, base, ahead>>
    BY <1>1 DEF Produce, threadVars
  <2>2. Within(base, remote') /\ Backed(remote')
    BY <2>1 DEF Nested, Within, Backed
  <2> QED
    BY <2>1, <2>2 DEF Control, Written, Nested, Within, Backed
<1>2. ASSUME NEW t \in Task, Reply(t) PROVE IInv'
  <2>1. /\ pc' = [pc EXCEPT ![Cli] = "write"] /\ job' = [job EXCEPT ![Cli] = t]
        /\ phase' = [phase EXCEPT ![Cli] = "reply"]
        /\ UNCHANGED <<tree, index, head, base, ahead, remote>>
    BY <1>2 DEF Reply, Go, repoVars
  <2>2. Control'
    BY <2>1 DEF Control, Places, Phase
  <2>3. Written'
    BY <2>1 DEF Control, Written
  <2> QED
    BY <2>1, <2>2, <2>3 DEF Nested, Within, Backed
<1>3. CASE Sync
  <2>1. pc' = [pc EXCEPT ![Main] = "pull"] /\ UNCHANGED <<job, phase, tree, index, head, base, ahead, remote>>
    BY <1>3 DEF Sync, Go, repoVars
  <2>2. Control' /\ Written'
    BY <2>1 DEF Control, Places, Written
  <2> QED
    BY <2>1, <2>2 DEF Nested, Within, Backed
<1>4. CASE Pull
  <2>1. pc' = [pc EXCEPT ![Main] = "idle"] /\ UNCHANGED <<job, phase, ahead, remote>>
    BY <1>4 DEF Pull, Go
  <2>2. Control'
    BY <2>1 DEF Control, Places
  <2>3. \A w \in Thread : pc'[w] \in {"write", "lock", "add", "commit", "push"} => pc'[w] = pc[w]
    BY <2>1 DEF Control
  <2>4. ASSUME Within(tree, tree') PROVE Written'
    BY <2>1, <2>3, <2>4 DEF Written, Within
  <2>5. CASE UNCHANGED <<tree, index, head, base>>
    <3>1. Within(tree, tree')
      BY <2>5 DEF Within
    <3> QED
      BY <2>1, <2>2, <2>4, <2>5, <3>1 DEF Nested, Within, Backed
  <2>6. CASE ~ahead /\ Checkout(remote)
    <3>1. Within(head, remote) /\ Within(remote, remote)
      BY <2>6 DEF Nested, Within
    <3>2. Backed(remote) /\ Nested /\ Backed(tree) /\ Backed(index)
      OBVIOUS
    <3>3. /\ Within(tree, tree') /\ Backed(tree') /\ Backed(index') /\ Backed(head')
          /\ Within(head', index') /\ Within(index', tree') /\ Within(base', head')
          /\ base' = remote /\ head' = remote
      BY <2>6, <3>1, <3>2, CheckoutKeeps
    <3> QED
      BY <2>1, <2>2, <2>4, <3>1, <3>3 DEF Nested, Within, Backed
  <2>7. CASE ahead /\ Checkout(Merged)
    <3>1. Nested /\ Backed(tree) /\ Backed(index) /\ Backed(head) /\ Backed(remote)
      OBVIOUS
    <3>2. Backed(Merged) /\ Within(head, Merged) /\ Within(remote, Merged)
      BY <3>1, MergeKeeps
    <3>3. /\ Within(tree, tree') /\ Backed(tree') /\ Backed(index') /\ Backed(head')
          /\ Within(head', index') /\ Within(index', tree') /\ Within(base', head')
          /\ base' = remote /\ head' = Merged
      BY <2>7, <3>1, <3>2, CheckoutKeeps
    <3> QED
      BY <2>1, <2>2, <2>4, <2>7, <3>3 DEF Nested, Within, Backed
  <2> QED
    BY <1>4, <2>5, <2>6, <2>7 DEF Pull
<1>5. ASSUME NEW w \in Worker, NEW t \in Task, Begin(w, t) PROVE IInv'
  <2>1. /\ pc' = [pc EXCEPT ![w] = "write"] /\ job' = [job EXCEPT ![w] = t]
        /\ UNCHANGED <<tree, index, head, base, ahead, remote>>
    BY <1>5 DEF Begin, Go, repoVars
  <2>2. w \in Thread
    BY DEF Thread
  <2>3. PICK p \in Phase : /\ phase' = [phase EXCEPT ![w] = p]
                           /\ p = "done" => t \in Streamed
    BY <1>5 DEF Begin
  <2>4. Control'
    BY <2>1, <2>2, <2>3 DEF Control, Places
  <2>5. Written'
    BY <2>1, <2>2, <2>3 DEF Control, Written
  <2> QED
    BY <2>1, <2>4, <2>5 DEF Nested, Within, Backed
<1>6. ASSUME NEW w \in Thread, Write(w) PROVE IInv'
  <2>1. pc[w] = "write" /\ job[w] \in Task /\ UNCHANGED <<index, head, base, ahead, remote>>
    BY <1>6 DEF Write, Written
  <2>2. phase[w] \in Phase /\ DOMAIN Then = Phase
    BY DEF Control, Then, Phase
  <2>3. CASE phase[w] \in {"park", "reply"} /\ tree' = tree
    <3>1. \/ pc' = [pc EXCEPT ![w] = "add"] /\ UNCHANGED <<job, phase>>
          \/ /\ pc' = pc /\ job' = job /\ phase[w] = "park"
             /\ phase' = [phase EXCEPT ![w] = "notice"]
          \/ /\ pc' = [pc EXCEPT ![w] = "idle"] /\ job' = [job EXCEPT ![w] = NoTask]
             /\ phase' = [phase EXCEPT ![w] = "report"]
      <4>1. \/ Go(w, "add") /\ UNCHANGED <<job, phase>>
            \/ After(w)
        BY <1>6, <2>3 DEF Write, Locking
      <4>2. CASE After(w)
        BY <2>1, <2>3, <4>2 DEF After, Then, Finished, Go, Control
      <4> QED
        BY <4>1, <4>2 DEF Go
    <3>2. Control'
      BY <3>1 DEF Control, Places, Phase
    <3>3. Written'
      BY <2>1, <2>3, <3>1 DEF Control, Written
    <3> QED
      BY <2>1, <2>3, <3>2, <3>3 DEF Nested, Within, Backed
  <2>4. CASE tree' = tree /\ Finished(w)
    <3>1. /\ pc' = [pc EXCEPT ![w] = "idle"] /\ job' = [job EXCEPT ![w] = NoTask]
          /\ phase' = [phase EXCEPT ![w] = "report"]
      BY <2>4 DEF Finished, Go
    <3>2. Control' /\ Written'
      BY <2>4, <3>1 DEF Control, Places, Phase, Written
    <3> QED
      BY <2>1, <2>4, <3>2 DEF Nested, Within, Backed
  <2>5. CASE /\ phase[w] \in {"done", "failed"} /\ Go(w, "lock") /\ UNCHANGED <<job, phase>>
             /\ tree' = (tree \ Waiting(job[w])) \cup {<<phase[w], job[w]>>}
    <3>1. pc' = [pc EXCEPT ![w] = "lock"] /\ job' = job /\ phase' = phase
      BY <2>5 DEF Go
    <3>2. Control'
      BY <3>1 DEF Control, Places
    <3>3. Within(tree, tree')
      BY <2>5 DEF Within, Waiting
    <3>4. Written'
      BY <2>1, <2>5, <3>1, <3>3 DEF Control, Written, Within
    <3>5. ASSUME NEW t \in Task \ Streamed, <<"done", t>> \in tree'
          PROVE  <<"result", t>> \in tree
      <4>1. CASE <<"done", t>> \in tree
        BY <4>1 DEF Backed
      <4>2. CASE phase[w] = "done" /\ t = job[w]
        BY <2>1, <4>2 DEF Written
      <4> QED
        BY <2>5, <3>5, <4>1, <4>2
    <3>6. Backed(tree')
      BY <3>3, <3>5 DEF Backed, Within
    <3> QED
      BY <2>1, <3>2, <3>3, <3>4, <3>6 DEF Nested, Within, Backed
  <2>6. CASE /\ phase[w] \in {"notice", "report"} /\ Go(w, "lock") /\ UNCHANGED <<job, phase>>
             /\ tree' = tree \cup {<<"result", job[w]>>}
    <3>1. pc' = [pc EXCEPT ![w] = "lock"] /\ job' = job /\ phase' = phase
      BY <2>6 DEF Go
    <3>2. Control'
      BY <3>1 DEF Control, Places
    <3>3. Within(tree, tree') /\ Backed(tree')
      BY <2>6 DEF Within, Backed
    <3>4. Written'
      BY <2>1, <2>6, <3>1, <3>3 DEF Control, Written, Within
    <3> QED
      BY <2>1, <3>2, <3>3, <3>4 DEF Nested, Within, Backed
  <2> QED
    <3>1. CASE phase[w] \in {"park", "reply"}
      BY <1>6, <2>3, <3>1 DEF Write, Locking
    <3>2. CASE phase[w] \in {"notice", "report"}
      BY <1>6, <2>4, <2>6, <3>2 DEF Write, Locking
    <3>3. CASE phase[w] \in {"done", "failed"}
      BY <1>6, <2>4, <2>5, <3>3 DEF Write, Locking, Rename
    <3> QED
      BY <2>2, <3>1, <3>2, <3>3 DEF Phase
<1>7. ASSUME NEW w \in Thread, Acquire(w) PROVE IInv'
  <2>1. /\ pc[w] = "lock" /\ pc' = [pc EXCEPT ![w] = "add"]
        /\ UNCHANGED <<job, phase, tree, index, head, base, ahead, remote>>
    BY <1>7 DEF Acquire, Go, repoVars
  <2>2. Control' /\ Written'
    BY <2>1 DEF Control, Places, Written
  <2> QED
    BY <2>1, <2>2 DEF Nested, Within, Backed
<1>8. ASSUME NEW w \in Thread, Add(w) PROVE IInv'
  <2>1. /\ pc[w] = "add" /\ pc' = [pc EXCEPT ![w] = "commit"]
        /\ UNCHANGED <<job, phase, tree, head, base, ahead, remote>>
    BY <1>8 DEF Add, Go, Fails
  <2>2. Control' /\ Written'
    BY <2>1 DEF Control, Places, Written
  <2>3. \/ index' = index \/ index' = tree
        \/ phase[w] \in {"notice", "report"} /\ index' = index \cup {<<"result", job[w]>>}
    BY <1>8 DEF Add, Fails
  <2>4. phase[w] \in {"notice", "report"} => <<"result", job[w]>> \in tree
    BY <2>1 DEF Written
  <2>5. Backed(index') /\ Within(head, index') /\ Within(index', tree)
    BY <2>3, <2>4 DEF Nested, Within, Backed
  <2> QED
    BY <2>1, <2>2, <2>5 DEF Nested, Within, Backed
<1>9. ASSUME NEW w \in Thread, Commit(w) PROVE IInv'
  <2>1. /\ pc[w] = "commit" /\ pc' = [pc EXCEPT ![w] = "push"]
        /\ UNCHANGED <<job, phase, tree, index, base, remote>>
        /\ (head' = head /\ ahead' = ahead) \/ (head' = index /\ ahead' = TRUE)
    BY <1>9 DEF Commit, Go, Fails
  <2>2. Control' /\ Written'
    BY <2>1 DEF Control, Places, Written
  <2> QED
    BY <2>1, <2>2 DEF Nested, Within, Backed
<1>10. ASSUME NEW w \in Thread, Push(w) PROVE IInv'
  <2>1. /\ pc[w] = "push" /\ After(w) /\ UNCHANGED <<tree, index, head>>
        /\ \/ remote' = head /\ base' = head /\ ahead' = FALSE
           \/ UNCHANGED <<remote, base, ahead>>
    BY <1>10 DEF Push
  <2>2. phase[w] \in Phase /\ job[w] \in Task
    BY <2>1 DEF Control, Written
  <2>3. \/ /\ pc' = [pc EXCEPT ![w] = "write"] /\ job' = job
           /\ \/ phase[w] = "park" /\ phase' = [phase EXCEPT ![w] = "notice"]
              \/ phase[w] = "notice" /\ phase' = [phase EXCEPT ![w] = "failed"]
              \/ /\ phase[w] = "report"
                 /\ \E p \in {"done", "failed"} : phase' = [phase EXCEPT ![w] = p]
        \/ /\ pc' = [pc EXCEPT ![w] = "idle"] /\ job' = [job EXCEPT ![w] = NoTask]
           /\ phase' = [phase EXCEPT ![w] = "report"]
    BY <2>1, <2>2 DEF After, Then, Finished, Go, Phase
  <2>4. Control'
    BY <2>3 DEF Control, Places, Phase
  <2>5. Written'
    BY <2>1, <2>2, <2>3 DEF Control, Written
  <2>6. Nested' /\ Backed(remote)' /\ Backed(head)' /\ Backed(index)' /\ Backed(tree)'
    BY <2>1 DEF Nested, Within, Backed
  <2> QED
    BY <2>4, <2>5, <2>6
<1>11. CASE UNCHANGED vars
  BY <1>11 DEF vars, threadVars, repoVars, Control, Written, Nested, Within, Backed
<1> QED
  BY <1>1, <1>2, <1>3, <1>4, <1>5, <1>6, <1>7, <1>8, <1>9, <1>10, <1>11 DEF Next, Step

\* DoneImpliesResult holds of every behaviour (poller.py:219 renames after
\* reporter.py:56 has sent, over the same working copy).
THEOREM DoneHasResult == Spec => []DoneImpliesResult
<1>1. IInv => DoneImpliesResult
  BY DEF IInv, Backed, DoneImpliesResult
<1> QED
  BY <1>1, Start, Steps, PTL DEF Spec
-----------------------------------------------------------------------------
\* A packet is in s under one of its names, and never under two.
Holds(s, t) == \E k \in Name : <<k, t>> \in s
Single(s) == \A t \in Task, k, l \in Name : <<k, t>> \in s /\ <<l, t>> \in s => k = l
Same(s, u, t) == \A k \in Name : <<k, t>> \in s <=> <<k, t>> \in u

\* What the working copy has came with the base.
Rooted ==
  \A t \in Task :
    /\ Holds(head, t) <=> Holds(base, t)
    /\ Holds(index, t) <=> Holds(base, t)
    /\ Holds(tree, t) <=> Holds(base, t)

\* The remote has what the base has, and packets the base does not know.
Fresh ==
  /\ \A t \in Task : Holds(base, t) => Same(base, remote, t)
  /\ ~behind => base = remote

PacketInv ==
  /\ Rooted /\ Fresh
  /\ Single(tree) /\ Single(index) /\ Single(head) /\ Single(remote)

\* A checkout that agrees with the last commit on the packets it has, and with
\* the remote on the others, leaves every packet under one name.
LEMMA CheckoutSingle ==
  ASSUME NEW new, PacketInv, Single(new), Checkout(new),
         \A t \in Task : IF Holds(base, t) THEN Same(new, head, t) ELSE Same(new, remote, t)
  PROVE  /\ Single(tree') /\ Single(index') /\ Single(head')
         /\ \A t \in Task : /\ Holds(head', t) <=> Holds(base', t)
                            /\ Holds(index', t) <=> Holds(base', t)
                            /\ Holds(tree', t) <=> Holds(base', t)
         /\ base' = remote /\ ~behind'
<1>1. /\ tree' = (tree \ (head \ new)) \cup (new \ head)
      /\ index' = (index \ (head \ new)) \cup (new \ head)
      /\ head' = new /\ base' = remote /\ behind' = FALSE
  BY DEF Checkout
<1>2. ASSUME NEW t \in Task
      PROVE  /\ \A k, l \in Name : <<k, t>> \in tree' /\ <<l, t>> \in tree' => k = l
             /\ \A k, l \in Name : <<k, t>> \in index' /\ <<l, t>> \in index' => k = l
             /\ Holds(head', t) <=> Holds(base', t)
             /\ Holds(index', t) <=> Holds(base', t)
             /\ Holds(tree', t) <=> Holds(base', t)
  <2>1. CASE Holds(base, t)
    <3>1. Same(new, head, t)
      BY <2>1
    <3>2. Same(tree', tree, t) /\ Same(index', index, t) /\ Same(head', head, t)
      BY <1>1, <3>1 DEF Same
    <3>3. Holds(remote, t)
      BY <2>1 DEF PacketInv, Fresh, Same, Holds
    <3> QED
      BY <1>1, <2>1, <3>2, <3>3 DEF PacketInv, Rooted, Single, Same, Holds
  <2>2. CASE ~Holds(base, t)
    <3>1. Same(new, remote, t)
      BY <2>2
    <3>2. ~Holds(head, t) /\ ~Holds(index, t) /\ ~Holds(tree, t)
      BY <2>2 DEF PacketInv, Rooted
    <3>3. Same(tree', remote, t) /\ Same(index', remote, t) /\ Same(head', remote, t)
      BY <1>1, <3>1, <3>2 DEF Same, Holds
    <3> QED
      BY <1>1, <3>3 DEF PacketInv, Single, Same, Holds
  <2> QED
    BY <2>1, <2>2
<1> QED
  BY <1>1, <1>2 DEF Single

\* No packet is anywhere at first.
LEMMA PacketStart == Init => PacketInv
  BY DEF Init, PacketInv, Rooted, Fresh, Single, Holds, Same

\* Every step keeps each packet under one name, and the working copy rooted in the
\* base.
LEMMA PacketSteps == IInv /\ PacketInv /\ [Next]_vars => PacketInv'
<1> SUFFICES ASSUME IInv, PacketInv, [Next]_vars PROVE PacketInv'
  OBVIOUS
<1>1. ASSUME NEW t \in Task, Produce(t) PROVE PacketInv'
  <2>1. /\ remote' = remote \cup {<<"packet", t>>} /\ behind' = TRUE
        /\ UNCHANGED <<tree, index, head, base>>
        /\ ~Holds(remote, t) /\ ~Holds(tree, t)
    BY <1>1 DEF Produce, Holds
  <2>2. ~Holds(base, t)
    BY <2>1 DEF PacketInv, Rooted
  <2>3. ASSUME NEW u \in Task, u # t PROVE Same(remote', remote, u)
    BY <2>1, <2>3 DEF Same
  <2>4. Fresh'
    <3>1. ASSUME NEW u \in Task, Holds(base, u) PROVE Same(base, remote', u)
      <4>1. u # t
        BY <2>2, <3>1
      <4> QED
        BY <2>3, <3>1, <4>1 DEF PacketInv, Fresh, Same
    <3> QED
      BY <2>1, <3>1 DEF Fresh
  <2>5. Single(remote')
    BY <2>1 DEF PacketInv, Single, Holds
  <2> QED
    BY <2>1, <2>4, <2>5 DEF PacketInv, Rooted
<1>2. CASE Pull
  <2>1. remote' = remote
    BY <1>2 DEF Pull
  <2>2. CASE UNCHANGED <<tree, index, head, base, behind>>
    BY <2>1, <2>2 DEF PacketInv, Rooted, Fresh
  <2>3. CASE ~ahead /\ Checkout(remote)
    <3>1. head = base
      BY <2>3 DEF IInv, Nested
    <3>2. \A t \in Task : IF Holds(base, t) THEN Same(remote, head, t) ELSE Same(remote, remote, t)
      BY <3>1 DEF PacketInv, Fresh, Same
    <3>3. Single(remote) /\ Checkout(remote)
      BY <2>3 DEF PacketInv
    <3>4. /\ Single(tree') /\ Single(index') /\ Single(head')
          /\ \A t \in Task : /\ Holds(head', t) <=> Holds(base', t)
                             /\ Holds(index', t) <=> Holds(base', t)
                             /\ Holds(tree', t) <=> Holds(base', t)
          /\ base' = remote /\ ~behind'
      BY <3>2, <3>3, CheckoutSingle
    <3> QED
      BY <2>1, <3>3, <3>4 DEF PacketInv, Rooted, Fresh, Same
  <2>4. CASE Checkout(Merged)
    <3>1. ASSUME NEW t \in Task
          PROVE  IF Holds(base, t) THEN Same(Merged, head, t) ELSE Same(Merged, remote, t)
      <4>1. CASE Holds(base, t)
        <5>1. Same(base, remote, t)
          BY <4>1 DEF PacketInv, Fresh
        <5> QED
          BY <4>1, <5>1 DEF Same, Merged
      <4>2. CASE ~Holds(base, t)
        <5>1. ~Holds(head, t)
          BY <4>2 DEF PacketInv, Rooted
        <5> QED
          BY <4>2, <5>1 DEF Same, Merged, Holds
      <4> QED
        BY <4>1, <4>2
    <3>2. Single(Merged)
      BY <3>1 DEF PacketInv, Single, Same
    <3>3. /\ Single(tree') /\ Single(index') /\ Single(head')
          /\ \A t \in Task : /\ Holds(head', t) <=> Holds(base', t)
                             /\ Holds(index', t) <=> Holds(base', t)
                             /\ Holds(tree', t) <=> Holds(base', t)
          /\ base' = remote /\ ~behind'
      BY <2>4, <3>1, <3>2, CheckoutSingle
    <3> QED
      BY <2>1, <3>3 DEF PacketInv, Rooted, Fresh, Same
  <2> QED
    BY <1>2, <2>2, <2>3, <2>4 DEF Pull
<1>3. ASSUME NEW w \in Thread, Write(w) PROVE PacketInv'
  <2>1. /\ pc[w] = "write" /\ job[w] \in Task /\ phase[w] \in Phase
        /\ UNCHANGED <<index, head, base, remote, behind>>
    BY <1>3 DEF Write, IInv, Written, Control
  <2>2. \/ tree' = tree
        \/ tree' = tree \cup {<<"result", job[w]>>}
        \/ /\ Waiting(job[w]) \cap tree # {} /\ phase[w] \in {"done", "failed"}
           /\ tree' = (tree \ Waiting(job[w])) \cup {<<phase[w], job[w]>>}
    BY <1>3, <2>1 DEF Write, Phase, Locking, Rename
  <2>3. Single(tree') /\ \A t \in Task : Holds(tree', t) <=> Holds(tree, t)
    <3>1. CASE UNCHANGED tree \/ tree' = tree \cup {<<"result", job[w]>>}
      BY <3>1 DEF PacketInv, Single, Holds, Name
    <3>2. CASE /\ Waiting(job[w]) \cap tree # {} /\ phase[w] \in {"done", "failed"}
               /\ tree' = (tree \ Waiting(job[w])) \cup {<<phase[w], job[w]>>}
      <4>1. PICK k \in {"packet", "failed"} : <<k, job[w]>> \in tree
        BY <3>2 DEF Waiting
      <4>2. \A l \in Name : <<l, job[w]>> \in tree => l = k
        BY <2>1, <4>1 DEF PacketInv, Single, Name
      <4>3. \A l \in Name : <<l, job[w]>> \in tree' <=> l = phase[w]
        BY <3>2, <4>1, <4>2 DEF Waiting, Name
      <4>4. \A t \in Task, l \in Name : t # job[w] => (<<l, t>> \in tree' <=> <<l, t>> \in tree)
        BY <3>2 DEF Waiting
      <4>5. Single(tree')
        BY <4>3, <4>4 DEF PacketInv, Single
      <4>6. ASSUME NEW t \in Task PROVE Holds(tree', t) <=> Holds(tree, t)
        <5>1. CASE t = job[w]
          BY <3>2, <4>1, <4>3, <5>1 DEF Holds, Name
        <5>2. CASE t # job[w]
          BY <4>4, <5>2 DEF Holds
        <5> QED
          BY <5>1, <5>2
      <4> QED
        BY <4>5, <4>6
    <3> QED
      BY <2>2, <3>1, <3>2
  <2> QED
    BY <2>1, <2>3 DEF PacketInv, Rooted, Fresh
<1>4. ASSUME NEW w \in Thread, Add(w) PROVE PacketInv'
  <2>1. /\ UNCHANGED <<tree, head, base, remote, behind>>
        /\ index' = index \/ index' = tree \/ index' = index \cup {<<"result", job[w]>>}
    BY <1>4 DEF Add, Fails
  <2>2. Single(index') /\ \A t \in Task : Holds(index', t) <=> Holds(base, t)
    BY <2>1 DEF PacketInv, Rooted, Single, Holds, Name
  <2> QED
    BY <2>1, <2>2 DEF PacketInv, Rooted, Fresh
<1>5. ASSUME NEW w \in Thread, Commit(w) PROVE PacketInv'
  <2>1. UNCHANGED <<tree, index, base, remote, behind>> /\ (head' = head \/ head' = index)
    BY <1>5 DEF Commit, Fails
  <2> QED
    BY <2>1 DEF PacketInv, Rooted, Fresh
<1>6. ASSUME NEW w \in Thread, Push(w) PROVE PacketInv'
  <2>1. /\ UNCHANGED <<tree, index, head, behind>>
        /\ \/ remote' = head /\ base' = head
           \/ UNCHANGED <<remote, base>>
    BY <1>6 DEF Push
  <2>2. CASE UNCHANGED <<remote, base>>
    BY <2>1, <2>2 DEF PacketInv, Rooted, Fresh
  <2>3. CASE remote' = head /\ base' = head
    BY <2>1, <2>3 DEF PacketInv, Rooted, Fresh, Same
  <2> QED
    BY <2>1, <2>2, <2>3
<1>7. ASSUME UNCHANGED repoVars PROVE PacketInv'
  BY <1>7 DEF repoVars, PacketInv, Rooted, Fresh
<1> QED
  BY <1>1, <1>2, <1>3, <1>4, <1>5, <1>6, <1>7
  DEF Next, Step, Sync, Begin, Reply, Acquire, vars

\* One name, and so one file.
LEMMA OneName ==
  ASSUME NEW s, NEW t \in Task, Single(s), Holds(s, t)
  PROVE  Cardinality({k \in Name : <<k, t>> \in s}) = 1
<1>1. PICK k \in Name : <<k, t>> \in s
  BY DEF Holds
<1>2. {l \in Name : <<l, t>> \in s} = {k}
  BY <1>1 DEF Single
<1> QED
  BY <1>2, FS_Singleton

\* PacketKept holds of every behaviour: no push, merge or rename, of however
\* many workers, takes a packet off the remote or shows it under two names
\* (poller.py:219 renames; reporter.py:56 and confirm.py push the same copy).
THEOREM PacketSurvives == Spec => PacketKept
<1>1. ASSUME IInv, PacketInv, [Next]_vars, NEW t \in Task, Holds(remote, t)
      PROVE  Holds(remote', t)
  <2>1. ASSUME NEW u \in Task, Produce(u) PROVE Holds(remote', t)
    BY <1>1, <2>1 DEF Produce, Holds
  <2>2. ASSUME NEW w \in Thread, Push(w) PROVE Holds(remote', t)
    <3>1. remote' = remote \/ (~behind /\ remote' = head)
      BY <2>2 DEF Push
    <3>2. ~behind => Holds(head, t)
      BY <1>1 DEF PacketInv, Fresh, Rooted
    <3> QED
      BY <1>1, <3>1, <3>2
  <2>3. ASSUME UNCHANGED remote PROVE Holds(remote', t)
    BY <1>1, <2>3
  <2> QED
    BY <1>1, <2>1, <2>2, <2>3
    DEF Next, Step, Sync, Begin, Reply, Acquire, Pull, Write, Add, Commit, vars, repoVars
<1>2. IInv /\ PacketInv /\ PacketInv' /\ [Next]_vars
        => [\A t \in Task :
              LET here == {k \in Name : <<k, t>> \in remote}
                  then == {k \in Name : <<k, t>> \in remote'}
              IN here # {} => Cardinality(then) = 1]_vars
  <2> SUFFICES ASSUME IInv, PacketInv, PacketInv', [Next]_vars, NEW t \in Task,
                      {k \in Name : <<k, t>> \in remote} # {}
               PROVE  Cardinality({k \in Name : <<k, t>> \in remote'}) = 1
    OBVIOUS
  <2>1. Holds(remote, t)
    BY DEF Holds
  <2>2. Holds(remote', t)
    BY <1>1, <2>1
  <2>3. Single(remote')
    BY DEF PacketInv
  <2> QED
    BY <2>2, <2>3, OneName
<1> QED
  BY <1>2, Start, Steps, PacketStart, PacketSteps, PTL DEF Spec, PacketKept
=============================================================================
