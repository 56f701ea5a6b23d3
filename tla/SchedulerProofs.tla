--------------------------- MODULE SchedulerProofs ---------------------------
(***************************************************************************)
(* No schedule is dispatched more often than it asks for, for any ids,     *)
(* payloads, workers and crashes.                                          *)
(*                                                                         *)
(* The argument: once the ticker has marked a dispatched object, its next  *)
(* time is past that dispatch by the interval, or it is spent, whoever     *)
(* pauses and resumes it; what run_due found due is therefore due for      *)
(* every earlier dispatch, and time only goes on until its turn comes.     *)
(***************************************************************************)
EXTENDS Scheduler, FiniteSetTheorems, SequenceTheorems, TLAPS

Places == {"idle", "save", "open", "fill", "replace", "dispatch", "mark"}

\* A Schedule as parse_schedule lets it in, and a registry of them.
Valid ==
  {s \in [spec : Payload, enabled : BOOLEAN, runs : Nat, next : Nat, made : Nat] :
     Triggers(s.spec) = 1}
Registry == [Id -> Valid \cup {NoSchedule}]
Thing == [id : Id, made : Nat, spec : Payload]

\* The number of an object is that of the call that made it.
Numbered(r) == \A i \in Id : r[i].made <= ops

TypedParts ==
  /\ sched \in Registry /\ now \in Nat /\ ops \in Nat
  /\ pc \in [Thread -> Places]
  /\ snap \in [Thread -> Registry]
  /\ main.data \in Registry /\ tmp.data \in Registry
  /\ batch \in Seq(Thing)

AllNumbered ==
  /\ Numbered(sched) /\ Numbered(main.data) /\ Numbered(tmp.data)
  /\ \A t \in Thread : Numbered(snap[t])

\* Dispatches are of the past, and of objects that were made.
FiredTyped ==
  \A f \in fired : /\ f.object \in Thing /\ f.object.made <= ops
                   /\ f.at \in Nat /\ f.at <= now
BatchMade == \A k \in DOMAIN batch : batch[k].made <= ops

\* s may not be due before it is time again after a dispatch at m.
Rests(s, m) ==
  /\ s.spec.at # None => s.runs >= 1
  /\ s.spec.at = None => s.next = None \/ (s.next > m /\ s.next >= m + s.spec.every)

\* That is so of every object, except the one that is being dispatched.
Paced ==
  \A f \in fired, i \in Id :
    sched[i] # NoSchedule /\ f.object = Object(i) =>
      \/ pc[Ticker] \in {"dispatch", "mark"} /\ current = f.object
      \/ Rests(sched[i], f.at)

\* o may be dispatched again after f.
Ready(o, f) == o.spec.at = None /\ now > f.at /\ now >= f.at + o.spec.every

BatchReady == \A k \in DOMAIN batch, f \in fired : f.object = batch[k] => Ready(batch[k], f)
BatchOnce == \A j, k \in DOMAIN batch : batch[j] = batch[k] => j = k

CadenceInv ==
  /\ TypedParts /\ AllNumbered /\ FiredTyped /\ BatchMade
  /\ Paced /\ BatchReady /\ BatchOnce

-----------------------------------------------------------------------------
\* A set of numbers that is not empty has a least one.
LEMMA LeastNumber ==
  ASSUME NEW S \in SUBSET Nat, S # {}
  PROVE  \E m \in S : \A k \in S : m <= k
<1>1. PICK m \in S : \A k \in S : ~(<<k, m>> \in OpToRel(<, Nat))
  BY NatLessThanWellFounded, WFMin
<1>2. \A k \in S : ~(k < m)
  BY <1>1 DEF OpToRel
<1> QED
  BY <1>2

\* The next slot is one, later than the moment.
LEMMA SlotLater ==
  ASSUME NEW p \in Payload, NEW m \in Nat
  PROVE  CronNext(p, m) \in Nat /\ (CronNext(p, m) = None \/ CronNext(p, m) > m)
<1> DEFINE later == {x \in p.slots : x > m /\ x <= MaxTime}
<1>1. CASE later = {}
  BY <1>1 DEF CronNext, None
<1>2. CASE later # {}
  <2>1. later \in SUBSET Nat
    BY DEF Payload
  <2>3. \E x \in later : \A y \in later : x <= y
    BY <1>2, <2>1, LeastNumber
  <2>4. Min(later) \in later
    BY <2>3 DEF Min
  <2>5. CronNext(p, m) = Min(later)
    BY <1>2 DEF CronNext
  <2> QED
    BY <2>1, <2>4, <2>5
<1> QED
  BY <1>1, <1>2

\* compute_next_run gives a time past the moment by the interval, or none.
LEMMA NextRunLater ==
  ASSUME NEW s, s.spec \in Payload, Triggers(s.spec) = 1, NEW m \in Nat
  PROVE  /\ NextRun(s, m) \in Nat
         /\ s.spec.at = None => \/ NextRun(s, m) = None
                                \/ NextRun(s, m) > m /\ NextRun(s, m) >= m + s.spec.every
<1>1. s.spec.at \in Nat /\ s.spec.every \in Nat
  BY DEF Payload
<1>2. CASE s.spec.slots # {}
  <2>1. s.spec.every = None
    BY <1>1, <1>2 DEF Triggers, None
  <2>2. NextRun(s, m) = CronNext(s.spec, m)
    BY <1>2 DEF NextRun
  <2>3. CronNext(s.spec, m) \in Nat /\ (CronNext(s.spec, m) = None \/ CronNext(s.spec, m) > m)
    BY SlotLater
  <2> QED
    BY <2>1, <2>2, <2>3 DEF None
<1>3. CASE s.spec.slots = {} /\ s.spec.every # None
  <2>1. NextRun(s, m) = m + s.spec.every
    BY <1>3 DEF NextRun
  <2> QED
    BY <1>1, <1>3, <2>1 DEF None
<1>4. CASE s.spec.slots = {} /\ s.spec.every = None
  <2>1. NextRun(s, m) = s.spec.at
    BY <1>4 DEF NextRun
  <2> QED
    BY <1>1, <2>1
<1> QED
  BY <1>2, <1>3, <1>4

\* What the registry holds under an id is a schedule, or nothing.
LEMMA Held ==
  ASSUME NEW r \in Registry, NEW i \in Id, r[i] # NoSchedule
  PROVE  /\ r[i] \in Valid
         /\ r[i].spec \in Payload /\ Triggers(r[i].spec) = 1 /\ r[i].enabled \in BOOLEAN
         /\ r[i].runs \in Nat /\ r[i].next \in Nat /\ r[i].made \in Nat
  BY DEF Registry, Valid

LEMMA NumberOf ==
  ASSUME NEW r \in Registry, NEW i \in Id
  PROVE  r[i].made \in Nat
  BY DEF Registry, Valid, NoSchedule

LEMMA NothingHeld == Nothing \in Registry /\ (ops \in Nat => Numbered(Nothing))
  BY DEF Nothing, Registry, Numbered, NoSchedule

LEMMA CadenceInit == Init => CadenceInv
<1> SUFFICES ASSUME Init PROVE CadenceInv
  OBVIOUS
<1>1. Nothing \in Registry /\ Numbered(Nothing)
  BY NothingHeld DEF Init
<1>2. TypedParts
  BY <1>1 DEF Init, TypedParts, Places, File
<1>3. AllNumbered
  BY <1>1 DEF Init, AllNumbered, File
<1> QED
  BY <1>2, <1>3 DEF Init, CadenceInv, FiredTyped, BatchMade, Paced, BatchReady, BatchOnce

-----------------------------------------------------------------------------
\* Steps that dispatch nothing and leave the batch alone: what is to be seen of
\* them is the registry, the clock and the number of calls.
LEMMA Undisturbed ==
  ASSUME CadenceInv, TypedParts', fired' = fired, batch' = batch,
         now <= now', ops <= ops'
  PROVE  FiredTyped' /\ BatchMade' /\ BatchReady' /\ BatchOnce'
<1>1. now \in Nat /\ now' \in Nat /\ ops \in Nat /\ ops' \in Nat
  BY DEF CadenceInv, TypedParts
<1>2. FiredTyped'
  BY <1>1 DEF CadenceInv, FiredTyped, Thing
<1>3. \A k \in DOMAIN batch : batch[k] \in Thing
  BY DEF CadenceInv, TypedParts
<1>4. BatchMade'
  BY <1>1, <1>3 DEF CadenceInv, BatchMade, Thing
<1>5. BatchReady'
  <2> SUFFICES ASSUME NEW k \in DOMAIN batch, NEW f \in fired, f.object = batch[k]
               PROVE  Ready(batch[k], f)'
    BY DEF BatchReady
  <2>1. Ready(batch[k], f)
    BY DEF CadenceInv, BatchReady
  <2>2. f.at \in Nat /\ batch[k].spec.every \in Nat
    BY <1>3 DEF CadenceInv, FiredTyped, Thing, Payload
  <2> QED
    BY <1>1, <2>1, <2>2 DEF Ready
<1> QED
  BY <1>2, <1>4, <1>5 DEF CadenceInv, BatchOnce
\* Such a step keeps everything if it leaves each object as it was, or rested,
\* or makes a new one.
LEMMA QuietKeeps ==
  ASSUME CadenceInv, TypedParts', AllNumbered', fired' = fired, batch' = batch,
         now <= now', ops <= ops',
         current' = current, pc[Ticker] \in {"dispatch", "mark"} => pc'[Ticker] = pc[Ticker],
         \A i \in Id :
           \/ sched'[i] = NoSchedule \/ sched'[i] = sched[i]
           \/ sched'[i].made > ops
           \/ /\ sched[i] # NoSchedule /\ Object(i)' = Object(i)
              /\ sched'[i].runs = sched[i].runs
              /\ sched'[i].next = sched[i].next \/ sched'[i].next = NextRun(sched[i], now)
  PROVE  CadenceInv'
<1>1. FiredTyped' /\ BatchMade' /\ BatchReady' /\ BatchOnce'
  BY Undisturbed
<1>2. Paced'
  <2> SUFFICES ASSUME NEW f \in fired, NEW i \in Id,
                      sched'[i] # NoSchedule, f.object = Object(i)'
               PROVE  \/ pc'[Ticker] \in {"dispatch", "mark"} /\ current = f.object
                      \/ Rests(sched'[i], f.at)
    BY DEF Paced
  <2>1. f.object.made <= ops /\ f.object.made = sched'[i].made
    BY DEF CadenceInv, FiredTyped, Object
  <2>2. f.at \in Nat /\ f.at <= now /\ now \in Nat /\ ops \in Nat /\ sched'[i].made \in Nat
    BY NumberOf DEF CadenceInv, FiredTyped, TypedParts, Registry, Valid, NoSchedule
  <2>3. ~(sched'[i].made > ops)
    BY <2>1, <2>2
  <2>4. CASE sched'[i] = sched[i]
    <3>1. sched[i] # NoSchedule /\ f.object = Object(i)
      BY <2>4 DEF Object
    <3> QED
      BY <2>4, <3>1 DEF CadenceInv, Paced
  <2>5. CASE /\ sched[i] # NoSchedule /\ Object(i)' = Object(i)
             /\ sched'[i].runs = sched[i].runs
             /\ sched'[i].next = sched[i].next \/ sched'[i].next = NextRun(sched[i], now)
    <3>1. \/ pc[Ticker] \in {"dispatch", "mark"} /\ current = f.object
          \/ Rests(sched[i], f.at)
      BY <2>5 DEF CadenceInv, Paced
    <3>2. sched'[i].spec = sched[i].spec
      BY <2>5 DEF Object
    <3>3. /\ sched[i].spec \in Payload /\ Triggers(sched[i].spec) = 1
      BY <2>5, Held DEF CadenceInv, TypedParts
    <3>4. /\ NextRun(sched[i], now) \in Nat
          /\ sched[i].spec.at = None => \/ NextRun(sched[i], now) = None
                                        \/ /\ NextRun(sched[i], now) > now
                                           /\ NextRun(sched[i], now) >= now + sched[i].spec.every
      BY <2>2, <3>3, NextRunLater
    <3>5. sched[i].spec.every \in Nat
      BY <3>3 DEF Payload
    <3>6. ASSUME Rests(sched[i], f.at) PROVE Rests(sched'[i], f.at)
      BY <2>2, <2>5, <3>2, <3>4, <3>5, <3>6 DEF Rests
    <3> QED
      BY <3>1, <3>6
  <2> QED
    BY <2>3, <2>4, <2>5
<1> QED
  BY <1>1, <1>2 DEF CadenceInv

\* The workers' calls.
LEMMA CallsKeep ==
  ASSUME CadenceInv, NEW w \in Worker, NEW i \in Id,
         \/ \E p \in Payloads, on \in BOOLEAN : Add(w, i, p, on)
         \/ Remove(w, i)
         \/ \E on \in BOOLEAN : SetEnabled(w, i, on)
  PROVE  CadenceInv'
<1>1. /\ now' = now /\ snap' = snap /\ main' = main /\ tmp' = tmp /\ batch' = batch
      /\ current' = current /\ fired' = fired
      /\ pc[w] = "idle" /\ ops' = ops + 1 /\ ops \in Nat /\ now \in Nat
      /\ pc' = pc \/ pc' = [pc EXCEPT ![w] = "save"]
  BY DEF Add, Remove, SetEnabled, Same, Call, Busy, CadenceInv, TypedParts
<1>2. w \in Thread /\ pc' \in [Thread -> Places]
      /\ (pc[Ticker] \in {"dispatch", "mark"} => pc'[Ticker] = pc[Ticker])
  BY <1>1 DEF Thread, CadenceInv, TypedParts, Places
<1>3. /\ sched' \in Registry
      /\ \A j \in Id : sched'[j].made <= ops + 1
      /\ \A j \in Id :
           \/ sched'[j] = NoSchedule \/ sched'[j] = sched[j]
           \/ sched'[j].made > ops
           \/ /\ sched[j] # NoSchedule /\ Object(j)' = Object(j)
              /\ sched'[j].runs = sched[j].runs
              /\ sched'[j].next = sched[j].next \/ sched'[j].next = NextRun(sched[j], now)
  <2>0. sched \in Registry /\ \A j \in Id : sched[j].made \in Nat /\ sched[j].made <= ops
    BY NumberOf DEF CadenceInv, TypedParts, AllNumbered, Numbered
  <2>1. CASE sched' = sched
    BY <1>1, <2>0, <2>1
  <2>2. CASE sched' = [sched EXCEPT ![i] = NoSchedule]
    BY <1>1, <2>0, <2>2 DEF Registry, NoSchedule
  <2>3. ASSUME NEW p \in Payloads, NEW on \in BOOLEAN, Add(w, i, p, on), sched' # sched PROVE <1>3!:
    <3> DEFINE n == NextRun([spec |-> p, next |-> now], now)
    <3>1. Triggers(p) = 1 /\ sched' = [sched EXCEPT ![i] = Schedule(p, on, n, ops + 1)]
      BY <2>3 DEF Add
    <3>2. p \in Payload
      BY SchedulerAssumption
    <3>3. n \in Nat
      BY <1>1, <3>1, <3>2, NextRunLater
    <3> HIDE DEF n
    <3>4. Schedule(p, on, n, ops + 1) \in Valid /\ Schedule(p, on, n, ops + 1).made = ops + 1
      BY <1>1, <3>1, <3>2, <3>3 DEF Schedule, Valid
    <3>5. /\ sched'[i] = Schedule(p, on, n, ops + 1)
          /\ \A j \in Id : j # i => sched'[j] = sched[j]
      BY <2>0, <3>1 DEF Registry
    <3>6. sched' \in Registry
      BY <2>0, <3>1, <3>4 DEF Registry
    <3>7. \A j \in Id : sched'[j] = sched[j] \/ sched'[j].made = ops + 1
      BY <3>4, <3>5
    <3> QED
      BY <1>1, <2>0, <3>6, <3>7
  <2>4. ASSUME NEW on \in BOOLEAN, SetEnabled(w, i, on) PROVE <1>3!:
    <3> DEFINE n == IF on /\ sched[i].next = None THEN NextRun(sched[i], now) ELSE sched[i].next
    <3>1. sched[i] # NoSchedule /\ sched' = [sched EXCEPT ![i].enabled = on, ![i].next = n]
      BY <2>4 DEF SetEnabled, Registered
    <3>2. /\ sched[i] \in Valid /\ sched[i].spec \in Payload /\ Triggers(sched[i].spec) = 1
          /\ sched[i].next \in Nat
      BY <2>0, <3>1, Held
    <3>3. n \in Nat /\ (n = sched[i].next \/ n = NextRun(sched[i], now))
      BY <1>1, <3>2, NextRunLater
    <3> HIDE DEF n
    <3>4. sched'[i] = [sched[i] EXCEPT !.enabled = on, !.next = n]
      BY <2>0, <3>1 DEF Registry
    <3>5. /\ sched'[i] \in Valid /\ sched'[i].made = sched[i].made /\ sched'[i].spec = sched[i].spec
          /\ sched'[i].runs = sched[i].runs /\ sched'[i].next = n
      BY <3>2, <3>3, <3>4 DEF Valid
    <3>6. \A j \in Id : j # i => sched'[j] = sched[j]
      BY <2>0, <3>1 DEF Registry
    <3>7. sched' \in Registry
      BY <2>0, <3>1, <3>5, <3>6 DEF Registry
    <3>8. Object(i)' = Object(i)
      BY <3>5 DEF Object
    <3>9. \A j \in Id : sched'[j].made <= ops + 1
      BY <1>1, <2>0, <3>5, <3>6
    <3> QED
      BY <3>1, <3>3, <3>5, <3>6, <3>7, <3>8, <3>9
  <2>5. CASE Remove(w, i)
    BY <2>1, <2>2, <2>5 DEF Remove
  <2> QED
    BY <2>1, <2>3, <2>4, <2>5
<1>4. TypedParts'
  BY <1>1, <1>2, <1>3 DEF CadenceInv, TypedParts
<1>5. AllNumbered'
  <2>1. \A r \in Registry : Numbered(r) => \A j \in Id : r[j].made <= ops + 1
    BY <1>1, NumberOf DEF Numbered
  <2>2. \A t \in Thread : snap[t] \in Registry
    BY DEF CadenceInv, TypedParts
  <2> QED
    BY <1>1, <1>3, <2>1, <2>2 DEF CadenceInv, TypedParts, AllNumbered, Numbered
<1> QED
  BY <1>1, <1>2, <1>3, <1>4, <1>5, QuietKeeps
\* A save moves copies of the registry about.
LEMMA SavesKeep ==
  ASSUME CadenceInv, NEW t \in Thread, Save(t)
  PROVE  CadenceInv'
<1>1. /\ UNCHANGED <<sched, now, batch, current, ops, fired>>
      /\ pc[t] \in {"save", "open", "fill", "replace"}
      /\ \E p \in {"open", "fill", "replace", "idle"} : pc' = [pc EXCEPT ![t] = p]
  BY DEF Save, Snapshot, Open, Fill, Replace, Busy
<1>2. pc' \in [Thread -> Places]
      /\ (pc[Ticker] \in {"dispatch", "mark"} => pc'[Ticker] = pc[Ticker])
  BY <1>1 DEF CadenceInv, TypedParts, Places, Thread
<1>3. /\ Nothing \in Registry /\ Numbered(Nothing)
      /\ sched \in Registry /\ Numbered(sched)
      /\ snap[t] \in Registry /\ Numbered(snap[t])
      /\ snap \in [Thread -> Registry] /\ \A u \in Thread : Numbered(snap[u])
      /\ main.data \in Registry /\ Numbered(main.data)
      /\ tmp.data \in Registry /\ Numbered(tmp.data)
  BY NothingHeld DEF CadenceInv, TypedParts, AllNumbered
<1>4. /\ snap' \in [Thread -> Registry] /\ \A u \in Thread : Numbered(snap'[u])
      /\ main'.data \in Registry /\ Numbered(main'.data)
      /\ tmp'.data \in Registry /\ Numbered(tmp'.data)
  <2>1. CASE Snapshot(t)
    BY <1>3, <2>1 DEF Snapshot
  <2>2. CASE Open(t)
    BY <1>3, <2>2 DEF Open, File
  <2>3. CASE Fill(t)
    <3>1. snap' = snap
      BY <2>3 DEF Fill
    <3>2. \A old : \A x \in Over(old, t) : x.data = snap[t] \/ x.data = Nothing
      BY DEF Over, File
    <3>3. /\ tmp' = tmp \/ tmp' \in Over(tmp, t)
          /\ main' = main \/ main' \in Over(main, t)
      BY <2>3 DEF Fill
    <3> QED
      BY <1>3, <3>1, <3>2, <3>3
  <2>4. CASE Replace(t)
    <3>1. /\ snap' = [snap EXCEPT ![t] = Nothing]
          /\ \/ main' = main /\ tmp' = tmp
             \/ main' = tmp /\ tmp' = File("none", Nothing)
      BY <2>4 DEF Replace
    <3> QED
      BY <1>3, <3>1 DEF File
  <2> QED
    BY <2>1, <2>2, <2>3, <2>4 DEF Save
<1>5. TypedParts' /\ AllNumbered'
  BY <1>1, <1>2, <1>3, <1>4 DEF CadenceInv, TypedParts, AllNumbered, Numbered
<1>6. now <= now' /\ ops <= ops'
  BY <1>1 DEF CadenceInv, TypedParts
<1> QED
  BY <1>1, <1>2, <1>5, <1>6, QuietKeeps

\* What is found due has rested since each of its dispatches.
LEMMA FindKeeps ==
  ASSUME CadenceInv, FindDue
  PROVE  CadenceInv'
<1>1. /\ UNCHANGED <<sched, now, pc, snap, main, tmp, current, ops, fired>>
      /\ pc[Ticker] = "idle"
  BY DEF FindDue
<1>2. PICK q \in Orders : batch' = [k \in DOMAIN q |-> Object(q[k])]
  BY DEF FindDue
<1>3. PICK n \in Nat :
        /\ q \in [1 .. n -> DueNow] /\ \A i, j \in 1 .. n : i # j => q[i] # q[j]
  <2>1. IsFiniteSet(DueNow)
    BY SchedulerAssumption, FS_Subset DEF DueNow
  <2>2. Cardinality(DueNow) \in Nat
    BY <2>1, FS_CardinalityType
  <2>3. /\ q \in [1 .. Cardinality(DueNow) -> DueNow]
        /\ \A i, j \in 1 .. Cardinality(DueNow) : i < j => q[i] # q[j]
    BY <1>2 DEF Orders
  <2> QED
    BY <2>2, <2>3
<1>4. DOMAIN q = 1 .. n
  BY <1>3
<1>5. \A k \in 1 .. n : q[k] \in Id /\ Due(q[k])
  BY <1>3 DEF DueNow
<1>6. DOMAIN batch' = 1 .. n /\ \A k \in 1 .. n : batch'[k] = Object(q[k])
  BY <1>2, <1>4
<1>7. sched \in Registry /\ now \in Nat /\ ops \in Nat
  BY DEF CadenceInv, TypedParts
<1>8. \A k \in 1 .. n : /\ sched[q[k]] # NoSchedule /\ Object(q[k]) \in Thing
                        /\ Object(q[k]).made <= ops
  BY <1>5, <1>7, Held DEF Due, Object, Thing, CadenceInv, AllNumbered, Numbered
<1>9. batch' \in Seq(Thing)
  BY <1>3, <1>6, <1>8, <1>2, <1>4
<1>10. BatchMade'
  BY <1>1, <1>6, <1>8 DEF BatchMade
<1>11. BatchOnce'
  <2> SUFFICES ASSUME NEW j \in 1 .. n, NEW k \in 1 .. n, Object(q[j]) = Object(q[k]) PROVE j = k
    BY <1>6 DEF BatchOnce
  <2>1. q[j] = q[k]
    BY DEF Object
  <2> QED
    BY <1>3, <2>1
<1>12. BatchReady'
  <2> SUFFICES ASSUME NEW k \in 1 .. n, NEW f \in fired, f.object = Object(q[k])
               PROVE  Ready(Object(q[k]), f)
    BY <1>1, <1>6 DEF BatchReady, Ready
  <2> DEFINE s == sched[q[k]]
  <2>1. Rests(s, f.at)
    BY <1>1, <1>5, <1>8 DEF CadenceInv, Paced
  <2>2. /\ s.spec \in Payload /\ s.runs \in Nat /\ s.next \in Nat
    BY <1>5, <1>7, <1>8, Held
  <2>3. ~Exhausted(s) /\ s.next # None /\ s.next <= now
    BY <1>5 DEF Due
  <2>4. s.spec.at = None
    BY <2>1, <2>3 DEF Rests, Exhausted
  <2>5. s.next > f.at /\ s.next >= f.at + s.spec.every
    BY <2>1, <2>3, <2>4 DEF Rests
  <2>6. f.at \in Nat /\ s.spec.every \in Nat
    BY <2>2 DEF CadenceInv, FiredTyped, Payload
  <2>7. Object(q[k]).spec = s.spec
    BY DEF Object
  <2> HIDE DEF s
  <2> QED
    BY <1>7, <2>2, <2>3, <2>4, <2>5, <2>6, <2>7 DEF Ready
<1>13. TypedParts' /\ AllNumbered' /\ FiredTyped'
  BY <1>1, <1>9 DEF CadenceInv, TypedParts, AllNumbered, Numbered, FiredTyped
<1>14. Paced'
  BY <1>1 DEF CadenceInv, Paced, Object, Rests
<1> QED
  BY <1>10, <1>11, <1>12, <1>13, <1>14 DEF CadenceInv

\* The others of the batch are other objects.
LEMMA DispatchKeeps ==
  ASSUME CadenceInv, Dispatch
  PROVE  CadenceInv'
<1> DEFINE o == Head(batch)
<1>1. /\ UNCHANGED <<sched, now, snap, main, tmp, ops>>
      /\ pc' = [pc EXCEPT ![Ticker] = "dispatch"] /\ pc[Ticker] = "idle"
      /\ current' = o /\ batch' = Tail(batch) /\ batch # <<>>
      /\ fired' = fired \cup {[object |-> o, at |-> now]}
  BY DEF Dispatch, Busy
<1>2. batch \in Seq(Thing) /\ now \in Nat /\ ops \in Nat /\ pc \in [Thread -> Places]
  BY DEF CadenceInv, TypedParts
<1>3. /\ Len(batch) \in Nat \ {0} /\ o = batch[1] /\ o \in Thing
      /\ Tail(batch) \in Seq(Thing) /\ Len(Tail(batch)) = Len(batch) - 1
      /\ \A k \in 1 .. Len(batch) - 1 : Tail(batch)[k] = batch[k + 1] /\ k + 1 \in DOMAIN batch
      /\ DOMAIN batch = 1 .. Len(batch) /\ DOMAIN Tail(batch) = 1 .. Len(batch) - 1
  BY <1>1, <1>2, HeadTailProperties
<1> HIDE DEF o
<1>4. TypedParts' /\ AllNumbered'
  <2>1. Ticker \in Thread /\ pc' \in [Thread -> Places] /\ pc'[Ticker] = "dispatch"
    BY <1>1, <1>2 DEF Thread, Places
  <2> QED
    BY <1>1, <1>3, <2>1 DEF CadenceInv, TypedParts, AllNumbered, Numbered
<1>5. FiredTyped' /\ BatchMade'
  <2>1. o.made <= ops
    BY <1>3 DEF CadenceInv, BatchMade
  <2> QED
    BY <1>1, <1>2, <1>3, <2>1 DEF CadenceInv, FiredTyped, BatchMade
<1>6. BatchOnce'
  <2> SUFFICES ASSUME NEW j \in 1 .. Len(batch) - 1, NEW k \in 1 .. Len(batch) - 1,
                      Tail(batch)[j] = Tail(batch)[k]
               PROVE  j = k
    BY <1>1, <1>3 DEF BatchOnce
  <2>1. j + 1 = k + 1
    BY <1>3 DEF CadenceInv, BatchOnce
  <2> QED
    BY <1>3, <2>1
<1>7. BatchReady'
  <2> SUFFICES ASSUME NEW k \in 1 .. Len(batch) - 1, NEW f \in fired', f.object = Tail(batch)[k]
               PROVE  Ready(Tail(batch)[k], f)
    BY <1>1, <1>3 DEF BatchReady, Ready
  <2>1. k + 1 \in DOMAIN batch /\ Tail(batch)[k] = batch[k + 1] /\ k + 1 # 1 /\ 1 \in DOMAIN batch
    BY <1>3
  <2>2. batch[k + 1] # o
    BY <1>3, <2>1 DEF CadenceInv, BatchOnce
  <2>3. f \in fired
    BY <1>1, <2>1, <2>2
  <2> QED
    BY <2>1, <2>3 DEF CadenceInv, BatchReady
<1>8. Paced'
  <2> SUFFICES ASSUME NEW f \in fired', NEW i \in Id, sched[i] # NoSchedule, f.object = Object(i)
               PROVE  f.object = o \/ Rests(sched[i], f.at)
    <3>1. pc'[Ticker] = "dispatch"
      BY <1>1, <1>2 DEF Thread
    <3> QED
      BY <1>1, <3>1 DEF Paced, Object, Rests
  <2> QED
    BY <1>1 DEF CadenceInv, Paced
<1> QED
  BY <1>4, <1>5, <1>6, <1>7, <1>8 DEF CadenceInv

\* mark_fired makes the dispatched object rest, if it is still registered.
LEMMA MarkKeeps ==
  ASSUME CadenceInv, MarkFired
  PROVE  CadenceInv'
<1>1. /\ UNCHANGED <<now, snap, main, tmp, batch, current, ops, fired>>
      /\ pc' = [pc EXCEPT ![Ticker] = "save"]
      /\ sched' = [i \in Id |-> IF sched[i] # NoSchedule /\ Object(i) = current
                                  THEN Rolled(sched[i]) ELSE sched[i]]
  BY DEF MarkFired, Busy
<1>2. sched \in Registry /\ now \in Nat /\ ops \in Nat /\ pc \in [Thread -> Places]
  BY DEF CadenceInv, TypedParts
<1>3. ASSUME NEW i \in Id, sched[i] # NoSchedule, Object(i) = current
      PROVE  /\ sched'[i] \in Valid /\ sched'[i].made = sched[i].made
             /\ sched'[i].spec = sched[i].spec
             /\ \A m \in Nat : m <= now => Rests(sched'[i], m)
  <2> DEFINE s == sched[i]
             t == [s EXCEPT !.runs = @ + 1]
             n == IF Exhausted(t) THEN None ELSE NextRun(t, now)
  <2>1. /\ s \in Valid /\ s.spec \in Payload /\ Triggers(s.spec) = 1
        /\ s.runs \in Nat /\ s.enabled \in BOOLEAN
    BY <1>2, <1>3, Held
  <2>2. t \in Valid /\ t.spec = s.spec /\ t.runs = s.runs + 1 /\ t.made = s.made
    BY <2>1 DEF Valid
  <2>3. sched'[i] = [t EXCEPT !.next = n, !.enabled = @ /\ n # None]
    BY <1>1, <1>3 DEF Rolled
  <2>4. /\ n \in Nat
        /\ s.spec.at = None => n = None \/ (n > now /\ n >= now + s.spec.every)
    BY <1>2, <2>1, <2>2, NextRunLater DEF None
  <2> HIDE DEF n, t, s
  <2>5. /\ sched'[i] \in Valid /\ sched'[i].made = t.made /\ sched'[i].spec = t.spec
        /\ sched'[i].runs = t.runs /\ sched'[i].next = n
    BY <2>2, <2>3, <2>4 DEF Valid
  <2>6. s.spec.every \in Nat
    BY <2>1 DEF Payload
  <2>7. ASSUME NEW m \in Nat, m <= now PROVE Rests(sched'[i], m)
    BY <1>2, <2>1, <2>2, <2>4, <2>5, <2>6, <2>7 DEF Rests
  <2> QED
    BY <2>2, <2>5, <2>7 DEF s
<1>4. \A i \in Id : ~(sched[i] # NoSchedule /\ Object(i) = current) => sched'[i] = sched[i]
  BY <1>1
<1>5. sched' \in Registry
  BY <1>1, <1>2, <1>3, <1>4 DEF Registry
<1>6. \A i \in Id : sched'[i].made <= ops
  BY <1>3, <1>4 DEF CadenceInv, AllNumbered, Numbered
<1>7. TypedParts' /\ AllNumbered'
  <2>1. pc' \in [Thread -> Places]
    BY <1>1, <1>2 DEF Places
  <2> QED
    BY <1>1, <1>5, <1>6, <2>1 DEF CadenceInv, TypedParts, AllNumbered, Numbered
<1>8. FiredTyped' /\ BatchMade' /\ BatchReady' /\ BatchOnce'
  BY <1>1, <1>2, <1>7, Undisturbed
<1>9. Paced'
  <2> SUFFICES ASSUME NEW f \in fired, NEW i \in Id, sched'[i] # NoSchedule, f.object = Object(i)'
               PROVE  Rests(sched'[i], f.at)
    BY <1>1 DEF Paced
  <2>1. f.at \in Nat /\ f.at <= now
    BY DEF CadenceInv, FiredTyped
  <2>2. CASE sched[i] # NoSchedule /\ Object(i) = current
    BY <1>3, <2>1, <2>2
  <2>3. CASE ~(sched[i] # NoSchedule /\ Object(i) = current)
    <3>1. sched'[i] = sched[i]
      BY <1>4, <2>3
    <3>2. f.object = Object(i) /\ sched[i] # NoSchedule
      BY <3>1 DEF Object
    <3> QED
      BY <2>3, <3>1, <3>2 DEF CadenceInv, Paced
  <2> QED
    BY <2>2, <2>3
<1> QED
  BY <1>7, <1>8, <1>9 DEF CadenceInv

\* load gives what was saved, with times of its own for what lost them.
LEMMA CrashKeeps ==
  ASSUME CadenceInv, Crash
  PROVE  CadenceInv'
<1>1. /\ UNCHANGED <<now, main, tmp, ops>> /\ sched' = Loaded
      /\ pc' = [t \in Thread |-> "idle"] /\ snap' = [t \in Thread |-> Nothing]
      /\ batch' = <<>> /\ fired' = {}
  BY DEF Crash
<1>2. /\ Nothing \in Registry /\ Numbered(Nothing)
      /\ main.data \in Registry /\ Numbered(main.data) /\ now \in Nat
  BY NothingHeld DEF CadenceInv, TypedParts, AllNumbered
<1>3. Loaded \in Registry /\ Numbered(Loaded)
  <2>1. CASE main.state # "whole"
    BY <1>2, <2>1 DEF Loaded
  <2>2. CASE main.state = "whole"
    <3>1. ASSUME NEW i \in Id
          PROVE  /\ Loaded[i] \in Valid \cup {NoSchedule}
                 /\ Loaded[i].made = main.data[i].made
      <4> DEFINE s == main.data[i]
                 n == NextRun(s, now)
      <4>1. \/ Loaded[i] = s
            \/ s # NoSchedule /\ Loaded[i] = [s EXCEPT !.next = n, !.enabled = n # None]
        BY <2>2 DEF Loaded
      <4>2. CASE Loaded[i] = s
        BY <1>2, <4>2 DEF Registry
      <4>3. CASE s # NoSchedule /\ Loaded[i] = [s EXCEPT !.next = n, !.enabled = n # None]
        <5>1. s \in Valid /\ s.spec \in Payload /\ Triggers(s.spec) = 1
          BY <1>2, <4>3, Held
        <5>2. n \in Nat
          BY <1>2, <5>1, NextRunLater
        <5> HIDE DEF n, s
        <5>3. Loaded[i] \in Valid /\ Loaded[i].made = s.made
          BY <4>3, <5>1, <5>2 DEF Valid
        <5> QED
          BY <5>3 DEF s
      <4> QED
        BY <4>1, <4>2, <4>3
    <3>2. Loaded = [i \in Id |-> Loaded[i]]
      BY <2>2 DEF Loaded
    <3> QED
      BY <1>2, <3>1, <3>2 DEF Registry, Numbered
  <2> QED
    BY <2>1, <2>2
<1> QED
  BY <1>1, <1>2, <1>3 DEF CadenceInv, TypedParts, AllNumbered, Numbered, FiredTyped,
     BatchMade, Paced, BatchReady, BatchOnce, Places

LEMMA CadenceStep == CadenceInv /\ [Next]_vars => CadenceInv'
<1> SUFFICES ASSUME CadenceInv, [Next]_vars PROVE CadenceInv'
  OBVIOUS
<1>1. now \in Nat /\ ops \in Nat
  BY DEF CadenceInv, TypedParts
<1>2. CASE DispatchEnds
  <2>1. /\ UNCHANGED <<sched, now, snap, main, tmp, batch, current, ops, fired>>
        /\ pc' = [pc EXCEPT ![Ticker] = "mark"] /\ pc[Ticker] = "dispatch"
    BY <1>2 DEF DispatchEnds, Busy
  <2>2. pc' \in [Thread -> Places] /\ pc'[Ticker] = "mark"
    BY <2>1 DEF CadenceInv, TypedParts, Places, Thread
  <2>3. TypedParts' /\ AllNumbered'
    BY <2>1, <2>2 DEF CadenceInv, TypedParts, AllNumbered, Numbered
  <2>4. FiredTyped' /\ BatchMade' /\ BatchReady' /\ BatchOnce'
    BY <1>1, <2>1, <2>3, Undisturbed
  <2>5. Paced'
    BY <2>1, <2>2 DEF CadenceInv, Paced, Object, Rests
  <2> QED
    BY <2>3, <2>4, <2>5 DEF CadenceInv
<1>3. CASE Minute
  <2>1. UNCHANGED <<sched, pc, snap, main, tmp, batch, current, ops, fired>> /\ now' = now + 1
    BY <1>3 DEF Minute
  <2>2. TypedParts' /\ AllNumbered'
    BY <1>1, <2>1 DEF CadenceInv, TypedParts, AllNumbered, Numbered
  <2>3. now <= now' /\ ops <= ops' /\ \A i \in Id : sched'[i] = sched[i]
    BY <1>1, <2>1
  <2> QED
    BY <2>1, <2>2, <2>3, QuietKeeps
<1>4. CASE UNCHANGED vars
  <2>1. UNCHANGED <<sched, now, pc, snap, main, tmp, batch, current, ops, fired>>
    BY <1>4 DEF vars
  <2>2. TypedParts' /\ AllNumbered'
    BY <2>1 DEF CadenceInv, TypedParts, AllNumbered, Numbered
  <2>3. now <= now' /\ ops <= ops' /\ \A i \in Id : sched'[i] = sched[i]
    BY <1>1, <2>1
  <2> QED
    BY <2>1, <2>2, <2>3, QuietKeeps
<1> QED
  BY <1>2, <1>3, <1>4, CallsKeep, SavesKeep, FindKeeps, DispatchKeeps, MarkKeeps, CrashKeeps
  DEF Next, Tick

\* CadenceKept holds of every behaviour: whatever is added, paused or replaced
\* during a dispatch, and however late the ticker is, nothing is dispatched
\* twice for one time (scheduler.py:398, mark_fired).
THEOREM CadenceHolds == Spec => CadenceKept
<1>1. CadenceInv /\ [Next]_vars
        => [pc[Ticker] = "idle" /\ pc'[Ticker] = "dispatch" =>
              \A f \in fired : f.object = current' =>
                /\ f.object.spec.at = None
                /\ now > f.at /\ now >= f.at + f.object.spec.every]_vars
  <2> SUFFICES ASSUME CadenceInv, [Next]_vars, pc[Ticker] = "idle", pc'[Ticker] = "dispatch",
                      NEW f \in fired, f.object = current'
               PROVE  /\ f.object.spec.at = None
                      /\ now > f.at /\ now >= f.at + f.object.spec.every
    OBVIOUS
  <2>1. pc \in [Thread -> Places] /\ Ticker \in Thread
    BY DEF CadenceInv, TypedParts, Thread
  <2>2. CASE Dispatch
    <3>1. batch # <<>> /\ current' = Head(batch) /\ batch \in Seq(Thing)
      BY <2>2 DEF Dispatch, CadenceInv, TypedParts
    <3>2. 1 \in DOMAIN batch /\ current' = batch[1]
      BY <3>1
    <3> QED
      BY <3>2 DEF CadenceInv, BatchReady, Ready
  <2>3. ASSUME NEW w \in Worker, NEW i \in Id,
               \/ \E p \in Payloads, on \in BOOLEAN : Add(w, i, p, on)
               \/ Remove(w, i)
               \/ \E on \in BOOLEAN : SetEnabled(w, i, on)
        PROVE  FALSE
    <3>1. pc' = pc \/ pc' = [pc EXCEPT ![w] = "save"]
      BY <2>3 DEF Add, Remove, SetEnabled, Busy
    <3> QED
      BY <2>1, <3>1
  <2>4. ASSUME NEW t \in Thread, Save(t) PROVE FALSE
    <3>1. \E p \in {"open", "fill", "replace", "idle"} : pc' = [pc EXCEPT ![t] = p]
      BY <2>4 DEF Save, Snapshot, Open, Fill, Replace, Busy
    <3> QED
      BY <2>1, <3>1
  <2>5. CASE \/ FindDue \/ DispatchEnds \/ MarkFired
             \/ Minute \/ Crash \/ UNCHANGED vars
    BY <2>1, <2>5 DEF FindDue, DispatchEnds, MarkFired, Minute, Crash, Busy, vars
  <2> QED
    BY <2>2, <2>3, <2>4, <2>5 DEF Next, Tick
<1> QED
  BY <1>1, CadenceInit, CadenceStep, PTL DEF Spec, CadenceKept
=============================================================================
