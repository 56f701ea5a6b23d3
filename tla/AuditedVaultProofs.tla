-------------------------- MODULE AuditedVaultProofs --------------------------
(***************************************************************************)
(* The audit log, for any number of threads, secrets, records, days, kills *)
(* and failures, with commands of the CLI beside the agent.                *)
(*                                                                         *)
(* Two writers that make a record at once are of two processes, and their  *)
(* records are in met.  So what a writer whose record is not in met relies *)
(* on cannot change under it: the line it chains onto.  And what it is to  *)
(* unlink is in the archive but for records in met, unless the other       *)
(* process has written over that archive, which takes both to rotate.      *)
(***************************************************************************)
EXTENDS AuditedVault, FiniteSetTheorems, SequenceTheorems, TLAPS

LineType == [hmac : Nat, prev : Nat, whole : BOOLEAN, open : BOOLEAN]
Days == 1 .. MaxDays

\* The records of the lines that nothing will be added to.
Ended(f) == {f[i].hmac : i \in {i \in DOMAIN f : ~f[i].open}}

JobTyped ==
  /\ job \in [Writer -> [what : {"none", "decide", "get", "set", "delete"}, name : Secret \cup {"none"}]]
  /\ \A w \in Writer : pc[w] \in {"load", "save"} => job[w].name \in Secret

\* Who may make a record at once, and what is known of these records.
Calls ==
  /\ \A t \in Thread : Recording(t) => lock = t
  /\ \A w \in Writer : Recording(w) => mine[w] \in 1 .. made /\ mine[w] \notin returned
  /\ \A w, v \in Writer : Recording(w) /\ Recording(v) /\ w # v =>
       mine[w] # mine[v] /\ mine[w] \in met
  /\ ~clashed => \A w, v \in Writer : Rotating(w) /\ Rotating(v) => w = v
  /\ failed \subseteq returned
  /\ \A w \in Writer : pc[w] = "use" => mine[w] \in returned

\* ChainSound, of one file.
Sound(f) ==
  /\ \A i \in DOMAIN f : Verified(f, i) \/ i \in Torn(f) \/ f[i].hmac \in met
  /\ Cardinality(Torn(f)) <= crashes + Cardinality(failed)

FilesSound ==
  /\ archive \in [Days -> Seq(LineType)]
  /\ \A i \in DOMAIN log : log[i].open => ~log[i].whole
  /\ Sound(log) /\ \A d \in Days : Sound(archive[d])
  /\ \A w \in Writer : pc[w] = "append" => mine[w] \in met \/ prev[w] = Link(log, Len(log))

\* Only days that are over are archived.
OldDays ==
  /\ \A d \in Days : archive[d] # <<>> => d < today
  /\ \A w \in Writer : Rotating(w) => day[w] < today

\* What a copy is made over is in the log, and what is unlinked is in the archive.
Kept ==
  /\ \A r \in returned : \/ r \in Ended(log) \cup failed \cup met
                         \/ \E d \in Days : r \in Ended(archive[d])
  /\ log # <<>> /\ logDay < today => Ended(archive[logDay]) \subseteq Ended(log)
  /\ \A w \in Writer : pc[w] = "copy" => Ended(archive[day[w]]) \subseteq Ended(log)
  /\ \A w \in Writer : pc[w] = "unlink" => Ended(log) \subseteq Ended(archive[day[w]]) \cup met

VaultInv == TypeOK /\ JobTyped /\ Calls /\ FilesSound /\ OldDays /\ (~clashed => Kept)

-----------------------------------------------------------------------------
\* Where a line that is written goes, and what becomes of it.
Glued == log # <<>> /\ log[Len(log)].open
Spot == IF Glued THEN Len(log) ELSE Len(log) + 1
Result(line) == IF Glued THEN [line EXCEPT !.whole = FALSE] ELSE line

\* An append starts a line of its own, or goes on with one that was left open.
LEMMA LineWritten ==
  ASSUME log \in Seq(LineType), NEW line \in LineType
  PROVE  /\ Spot \in Nat \ {0} /\ Result(line) \in LineType
         /\ WithLine(line) \in Seq(LineType) /\ DOMAIN WithLine(line) = 1 .. Spot
         /\ WithLine(line)[Spot] = Result(line)
         /\ \A i \in 1 .. Spot - 1 : i \in DOMAIN log /\ WithLine(line)[i] = log[i]
         /\ \A i \in DOMAIN log : i \in 1 .. Spot - 1 \/ (Glued /\ i = Spot /\ log[i].open)
         /\ ~Glued => Spot - 1 = Len(log)
<1>1. Len(log) \in Nat /\ DOMAIN log = 1 .. Len(log) /\ \A i \in 1 .. Len(log) : log[i] \in LineType
  BY LenProperties, ElementOfSeq
<1>2. [line EXCEPT !.whole = FALSE] \in LineType
  BY DEF LineType
<1>3. log = <<>> <=> Len(log) = 0
  <2>1. log = <<>> => Len(log) = 0
    BY EmptySeq
  <2>2. log # <<>> => Len(log) # 0
    BY EmptySeq
  <2> QED
    BY <2>1, <2>2
<1>4. CASE Glued
  <2>1. Len(log) > 0 /\ Spot = Len(log) /\ Result(line) = [line EXCEPT !.whole = FALSE]
    BY <1>1, <1>3, <1>4 DEF Glued, Spot, Result
  <2>2. WithLine(line) = [log EXCEPT ![Len(log)] = [line EXCEPT !.whole = FALSE]]
    BY <1>4 DEF WithLine, Glued
  <2>3. /\ WithLine(line) \in Seq(LineType) /\ Len(WithLine(line)) = Len(log)
        /\ \A i \in 1 .. Len(log) : WithLine(line)[i] =
             IF i = Len(log) THEN [line EXCEPT !.whole = FALSE] ELSE log[i]
    BY <1>1, <1>2, <2>1, <2>2, ExceptSeq
  <2>4. DOMAIN WithLine(line) = 1 .. Spot
    BY <2>1, <2>3, LenProperties
  <2>5. \A i \in 1 .. Spot - 1 : i \in DOMAIN log /\ WithLine(line)[i] = log[i]
    BY <1>1, <2>1, <2>3
  <2>6. WithLine(line)[Spot] = Result(line)
    <3>1. Len(log) \in 1 .. Len(log)
      BY <1>1, <2>1
    <3> QED
      BY <2>1, <2>3, <3>1
  <2>7. \A i \in DOMAIN log : i \in 1 .. Spot - 1 \/ (Glued /\ i = Spot /\ log[i].open)
    <3>1. \A i \in DOMAIN log : i \in 1 .. Spot - 1 \/ i = Len(log)
      BY <1>1, <2>1
    <3> QED
      BY <1>4, <2>1, <3>1 DEF Glued
  <2> QED
    BY <1>1, <1>2, <1>4, <2>1, <2>3, <2>4, <2>5, <2>6, <2>7
<1>5. CASE ~Glued
  <2>1. WithLine(line) = Append(log, line) /\ Spot = Len(log) + 1 /\ Result(line) = line
    BY <1>5 DEF WithLine, Glued, Spot, Result
  <2>2. /\ WithLine(line) \in Seq(LineType) /\ Len(WithLine(line)) = Len(log) + 1
        /\ WithLine(line)[Len(log) + 1] = line
        /\ \A i \in 1 .. Len(log) : WithLine(line)[i] = log[i]
    BY <1>1, <2>1, AppendProperties
  <2>3. DOMAIN WithLine(line) = 1 .. Spot
    BY <2>1, <2>2, LenProperties
  <2> QED
    BY <1>1, <1>5, <2>1, <2>2, <2>3
<1> QED
  BY <1>4, <1>5

\* The torn lines of a file are finitely many.
LEMMA TornFinite ==
  ASSUME NEW f \in Seq(LineType)
  PROVE  IsFiniteSet(Torn(f)) /\ Cardinality(Torn(f)) \in Nat
<1>1. Len(f) \in Nat /\ DOMAIN f = 1 .. Len(f)
  BY LenProperties
<1>2. IsFiniteSet(1 .. Len(f)) /\ Torn(f) \in SUBSET (1 .. Len(f))
  BY <1>1, FS_Interval DEF Torn
<1> QED
  BY <1>2, FS_Subset, FS_CardinalityType

\* A file with no lines has none that are torn, and no records.
LEMMA EmptyFile == DOMAIN <<>> = {} /\ Torn(<<>>) = {} /\ Ended(<<>>) = {}
<1>1. ASSUME NEW f, f = <<>> PROVE DOMAIN f = {} /\ Torn(f) = {} /\ Ended(f) = {}
  <2>1. DOMAIN f = {}
    BY <1>1
  <2> QED
    BY <2>1 DEF Torn, Ended
<1> QED
  BY <1>1

\* So are the records that failed.
LEMMA FailedFinite ==
  ASSUME TypeOK
  PROVE  IsFiniteSet(failed) /\ Cardinality(failed) \in Nat
<1>1. IsFiniteSet(1 .. made) /\ failed \in SUBSET (1 .. made)
  BY FS_Interval DEF TypeOK
<1> QED
  BY <1>1, FS_Subset, FS_CardinalityType

\* What is sound stays so when there are more kills, failures and meetings.
LEMMA SoundGrows ==
  ASSUME TypeOK, TypeOK', met \subseteq met', crashes <= crashes',
         Cardinality(failed) <= Cardinality(failed'), NEW f \in Seq(LineType), Sound(f)
  PROVE  Sound(f)'
<1>1. Cardinality(Torn(f)) \in Nat /\ Cardinality(failed) \in Nat /\ Cardinality(failed') \in Nat
  <2>1. Cardinality(Torn(f)) \in Nat
    BY TornFinite
  <2>2. Cardinality(failed) \in Nat
    BY FailedFinite
  <2>3. IsFiniteSet(1 .. made') /\ failed' \in SUBSET (1 .. made')
    BY FS_Interval DEF TypeOK
  <2> QED
    BY <2>1, <2>2, <2>3, FS_Subset, FS_CardinalityType
<1>2. crashes \in Nat /\ crashes' \in Nat
  BY DEF TypeOK
<1> QED
  BY <1>1, <1>2 DEF Sound

\* A line cut short adds one to the torn lines, unless it goes onto one; a whole
\* one adds none, and chains onto the line before it.
LEMMA WriteSound ==
  ASSUME TypeOK, FilesSound, NEW w \in Writer, NEW whole \in BOOLEAN, Write(w, whole), met' = met,
         NEW n \in Nat, n >= crashes + Cardinality(failed) + (IF whole THEN 0 ELSE 1),
         n = crashes' + Cardinality(failed')
  PROVE  /\ log' \in Seq(LineType) /\ Sound(log)'
         /\ \A i \in DOMAIN log' : log'[i].open => ~log'[i].whole
         /\ Ended(log) \subseteq Ended(log') /\ Ended(log') \subseteq Ended(log) \cup {mine[w]}
         /\ whole => mine[w] \in Ended(log')
<1> DEFINE line == [hmac |-> mine[w], prev |-> prev[w], whole |-> whole, open |-> ~whole]
           new == Result(line)
<1>1. line \in LineType /\ log' = WithLine(line) /\ log \in Seq(LineType)
  BY DEF TypeOK, Write, LineType
<1>2. /\ new.hmac = mine[w] /\ new.prev = prev[w] /\ new.open = ~whole
      /\ new.whole = (whole /\ ~Glued)
  BY DEF Result
<1> HIDE DEF line, new
<1>3. /\ Spot \in Nat \ {0} /\ new \in LineType
      /\ log' \in Seq(LineType) /\ DOMAIN log' = 1 .. Spot
      /\ log'[Spot] = new
      /\ \A i \in 1 .. Spot - 1 : i \in DOMAIN log /\ log'[i] = log[i]
      /\ \A i \in DOMAIN log : i \in 1 .. Spot - 1 \/ (Glued /\ i = Spot /\ log[i].open)
      /\ ~Glued => Spot - 1 = Len(log)
  BY <1>1, LineWritten DEF new
<1>4. \A i \in DOMAIN log' : i = Spot \/ i \in 1 .. Spot - 1
  BY <1>3
<1>5. Spot \in DOMAIN log' /\ \A i \in 1 .. Spot - 1 : i \in DOMAIN log'
  BY <1>3
<1>6. \A i \in DOMAIN log' : log'[i].open => ~log'[i].whole
  BY <1>2, <1>3, <1>4 DEF FilesSound
<1>7. /\ Ended(log) \subseteq Ended(log') /\ Ended(log') \subseteq Ended(log) \cup {mine[w]}
      /\ whole => mine[w] \in Ended(log')
  BY <1>2, <1>3, <1>4, <1>5 DEF Ended
<1>8. ASSUME NEW i \in DOMAIN log' PROVE Verified(log', i) \/ i \in Torn(log') \/ log'[i].hmac \in met
  <2>1. CASE i \in 1 .. Spot - 1
    <3>1. i \in DOMAIN log /\ log'[i] = log[i]
      BY <1>3, <2>1
    <3>2. Verified(log, i) \/ i \in Torn(log) \/ log[i].hmac \in met
      BY <3>1 DEF FilesSound, Sound
    <3>3. i - 1 = 0 \/ (i - 1 \in 1 .. Spot - 1)
      BY <1>3, <2>1
    <3>4. Link(log', i - 1) = Link(log, i - 1)
      BY <1>3, <3>3 DEF Link
    <3> QED
      BY <1>5, <2>1, <3>1, <3>2, <3>4 DEF Verified, Torn
  <2>2. CASE i = Spot
    <3>1. CASE ~new.whole
      BY <1>3, <1>5, <2>2, <3>1 DEF Torn
    <3>2. CASE new.whole /\ mine[w] \notin met
      <4>1. prev[w] = Link(log, Spot - 1)
        BY <1>2, <1>3, <3>2 DEF FilesSound, Write
      <4>2. Spot - 1 = 0 \/ Spot - 1 \in 1 .. Spot - 1
        BY <1>3
      <4>3. Link(log', Spot - 1) = Link(log, Spot - 1)
        BY <1>3, <4>2 DEF Link
      <4> QED
        BY <1>2, <1>3, <2>2, <3>2, <4>1, <4>3 DEF Verified
    <3> QED
      BY <1>2, <1>3, <2>2, <3>1, <3>2
  <2> QED
    BY <1>4, <2>1, <2>2
<1>9. Cardinality(Torn(log')) <= n
  <2>1. /\ IsFiniteSet(Torn(log)) /\ Cardinality(Torn(log)) \in Nat
        /\ IsFiniteSet(Torn(log')) /\ Cardinality(Torn(log')) \in Nat
    BY <1>1, <1>3, TornFinite
  <2>2. Cardinality(Torn(log)) <= crashes + Cardinality(failed)
    BY DEF FilesSound, Sound
  <2>3. crashes \in Nat /\ Cardinality(failed) \in Nat
    BY FailedFinite DEF TypeOK
  <2>4. Torn(log') \subseteq Torn(log) \cup {Spot}
    BY <1>3, <1>4 DEF Torn
  <2>5. CASE whole
    <3>1. Torn(log') \in SUBSET Torn(log)
      <4>1. CASE Glued
        <5>1. Len(log) \in DOMAIN log /\ Spot = Len(log)
          BY <1>1, <4>1, LenProperties, EmptySeq DEF Glued, Spot
        <5> QED
          BY <2>4, <4>1, <5>1 DEF Torn, Glued, FilesSound
      <4>2. CASE ~Glued
        BY <1>2, <1>3, <2>4, <2>5, <4>2 DEF Torn
      <4> QED
        BY <4>1, <4>2
    <3>2. Cardinality(Torn(log')) <= Cardinality(Torn(log))
      BY <2>1, <3>1, FS_Subset
    <3> QED
      BY <2>1, <2>2, <2>3, <2>5, <3>2
  <2>6. CASE ~whole
    <3>0. /\ IsFiniteSet(Torn(log) \cup {Spot})
          /\ Cardinality(Torn(log) \cup {Spot}) =
               IF Spot \in Torn(log) THEN Cardinality(Torn(log)) ELSE Cardinality(Torn(log)) + 1
      BY <2>1, FS_AddElement
    <3>1. /\ IsFiniteSet(Torn(log) \cup {Spot})
          /\ Cardinality(Torn(log) \cup {Spot}) <= Cardinality(Torn(log)) + 1
      BY <2>1, <3>0
    <3>2. /\ Cardinality(Torn(log')) <= Cardinality(Torn(log) \cup {Spot})
          /\ Cardinality(Torn(log) \cup {Spot}) \in Nat
      BY <2>4, <3>1, FS_Subset, FS_CardinalityType
    <3> QED
      BY <2>1, <2>2, <2>3, <2>6, <3>1, <3>2
  <2> QED
    BY <2>5, <2>6
<1> QED
  BY <1>3, <1>6, <1>7, <1>8, <1>9 DEF Sound
-----------------------------------------------------------------------------
\* Every step that leaves the log a list of lines keeps the types.
LEMMA VaultTyping ==
  ASSUME VaultInv, [Next]_vars, log' \in Seq(LineType)
  PROVE  TypeOK' /\ JobTyped'
<1> USE DEF TypeOK, JobTyped, Goto, LineType, Place, files, calls, history
<1>0. /\ Cli \in Writer /\ today \in Nat /\ MaxDays \in Nat /\ 1 \in 1 .. MaxDays
      /\ made \in Nat /\ crashes \in Nat /\ MaxCrashes \in Nat /\ Genesis \in Nat
      /\ Thread \subseteq Writer /\ NoJob \in [what : {"none", "decide", "get", "set", "delete"}, name : Secret \cup {"none"}]
  BY VaultAssumption DEF VaultInv, Writer, Genesis, NoJob
<1>1. ASSUME NEW w \in Writer, NEW what \in {"decide", "get", "set", "delete"}, NEW n \in Secret,
             Begin(w, what, n)
      PROVE  TypeOK' /\ JobTyped'
  BY <1>1 DEF Begin, VaultInv
<1>2. ASSUME NEW w \in Writer, Load(w) PROVE TypeOK' /\ JobTyped'
  BY <1>2 DEF Load, VaultInv
<1>3. ASSUME NEW w \in Writer, Save(w) PROVE TypeOK' /\ JobTyped'
  BY <1>3 DEF Save, VaultInv
<1>4. ASSUME NEW w \in Writer, Acquire(w) PROVE TypeOK' /\ JobTyped'
  <2> DEFINE crowd == {v \in Others(w) : Recording(v)}
  <2>1. \A v \in crowd : mine[v] \in 1 .. made
    BY <1>0 DEF VaultInv, Calls, Others
  <2>2. \A n \in 1 .. made : n \in 1 .. made + 1
    BY <1>0
  <2>3. made + 1 \in 1 .. made + 1
    BY <1>0
  <2>4. /\ made' = made + 1 /\ pc' = [pc EXCEPT ![w] = "rotate"] /\ mine' = [mine EXCEPT ![w] = made + 1]
        /\ met' = IF crowd = {} THEN met ELSE met \cup {made + 1} \cup {mine[v] : v \in crowd}
    BY <1>4 DEF Acquire, Number
  <2> HIDE DEF crowd
  <2>5. met \subseteq 1 .. made /\ returned \subseteq 1 .. made /\ failed \subseteq 1 .. made
    BY DEF VaultInv
  <2>6. met' \subseteq 1 .. made'
    BY <2>1, <2>2, <2>3, <2>4, <2>5
  <2>7. returned' \subseteq 1 .. made' /\ failed' \subseteq 1 .. made'
    BY <1>4, <2>2, <2>4, <2>5 DEF Acquire, Number
  <2>8. made' \in Nat /\ mine' \in [Writer -> Nat] /\ pc' \in [Writer -> Place]
    BY <1>0, <2>4 DEF VaultInv
  <2>9. lock' \in Thread \cup {"free"}
    BY <1>0, <1>4 DEF Acquire, VaultInv, Writer
  <2>10. JobTyped'
    BY <1>4, <2>4, <2>8 DEF Acquire, Number, VaultInv
  <2> QED
    BY <1>4, <2>6, <2>7, <2>8, <2>9, <2>10 DEF Acquire, Number, VaultInv
<1>5. ASSUME NEW w \in Writer, Rotate(w) PROVE TypeOK' /\ JobTyped'
  BY <1>5 DEF Rotate, VaultInv
<1>6. ASSUME NEW w \in Writer, Copy(w) \/ Unlink(w) PROVE TypeOK' /\ JobTyped'
  <2>1. DOMAIN archive' = 1 .. MaxDays
    BY <1>6 DEF Copy, Unlink, Spoilt, VaultInv
  <2> QED
    BY <1>6, <2>1 DEF Copy, Unlink, VaultInv
<1>7. ASSUME NEW w \in Writer, LastHmac(w) PROVE TypeOK' /\ JobTyped'
  <2>1. Link(log, Len(log)) \in Nat
    <3>0. Len(log) \in Nat
      BY LenProperties DEF VaultInv
    <3>1. CASE Len(log) = 0
      BY <1>0, <3>1 DEF Link
    <3>2. CASE Len(log) # 0
      <4>1. Len(log) \in 1 .. Len(log)
        BY <3>0, <3>2
      <4>2. log[Len(log)] \in LineType
        BY <4>1, ElementOfSeq DEF VaultInv
      <4>3. log[Len(log)].hmac \in Nat
        BY <4>2
      <4> QED
        BY <1>0, <4>3 DEF Link
    <3> QED
      BY <3>1, <3>2
  <2> QED
    BY <1>7, <2>1 DEF LastHmac, VaultInv
<1>8. ASSUME NEW gone \in SUBSET Writer, Forget(gone)
      PROVE  /\ job' \in [Writer -> [what : {"none", "decide", "get", "set", "delete"}, name : Secret \cup {"none"}]]
             /\ \A v \in Writer \ gone : job'[v] = job[v]
             /\ seen' \in [Writer -> SUBSET Secret] /\ day' \in [Writer -> 1 .. MaxDays]
             /\ prev' \in [Writer -> Nat]
  BY <1>0, <1>8 DEF Forget, VaultInv
<1>9. ASSUME NEW w \in Writer, Finish(w) \/ Fail(w) PROVE TypeOK' /\ JobTyped'
  <2>1. mine[w] \in 1 .. made /\ {w} \in SUBSET Writer
    BY <1>9 DEF Finish, Fail, Write, VaultInv, Calls, Recording
  <2>2. Forget({w}) /\ logDay' \in 1 .. MaxDays
    BY <1>9 DEF Finish, Fail, Write, Return, VaultInv
  <2>3. /\ pc' \in [Writer -> Place] /\ pc'[w] \in {"idle", "use"} /\ \A v \in Writer \ {w} : pc'[v] = pc[v]
        /\ lock' \in Thread \cup {"free"} /\ returned' \subseteq 1 .. made /\ failed' \subseteq 1 .. made
    BY <1>9, <2>1 DEF Finish, Fail, Return, VaultInv
  <2>4. JobTyped'
    BY <1>8, <2>1, <2>2, <2>3 DEF VaultInv
  <2>5. UNCHANGED <<archive, today, vault, up, mine, made, crashes, met, clashed>>
    BY <1>9 DEF Finish, Fail
  <2> QED
    BY <1>8, <2>1, <2>2, <2>3, <2>4, <2>5 DEF VaultInv
<1>10. ASSUME NEW w \in Writer, Used(w) PROVE TypeOK' /\ JobTyped'
  BY <1>10 DEF Used, VaultInv
<1>11. ASSUME NEW dead \in SUBSET Writer, Kill(dead), up' \in BOOLEAN, lock' \in Thread \cup {"free"}
       PROVE  TypeOK' /\ JobTyped'
  <2>1. crashes' \in 0 .. MaxCrashes /\ Forget(dead)
    BY <1>0, <1>11 DEF Kill, VaultInv
  <2>2. logDay' \in 1 .. MaxDays /\ DOMAIN archive' = 1 .. MaxDays
    BY <1>11 DEF Kill, Write, Spoilt, VaultInv
  <2>3. pc' \in [Writer -> Place] /\ \A v \in Writer : pc'[v] = IF v \in dead THEN "idle" ELSE pc[v]
    BY <1>11 DEF Kill, VaultInv
  <2>4. JobTyped'
    BY <1>8, <2>1, <2>3 DEF VaultInv
  <2>5. UNCHANGED <<today, vault, mine, made, returned, failed, met, clashed>>
    BY <1>11 DEF Kill
  <2> QED
    BY <1>8, <1>11, <2>1, <2>2, <2>3, <2>4, <2>5 DEF VaultInv
<1>12. CASE AgentDies \/ CliDies
  <2>1. Thread \in SUBSET Writer /\ {Cli} \in SUBSET Writer
    BY <1>0
  <2> QED
    BY <1>11, <1>12, <2>1 DEF AgentDies, CliDies, VaultInv
<1>13. CASE AgentStarts
  BY <1>13 DEF AgentStarts, VaultInv
<1>14. CASE Midnight
  BY <1>0, <1>14 DEF Midnight, VaultInv
<1>15. CASE UNCHANGED vars
  BY <1>15 DEF vars, VaultInv
<1> QED
  BY <1>1, <1>2, <1>3, <1>4, <1>5, <1>6, <1>7, <1>9, <1>10, <1>12, <1>13, <1>14, <1>15 DEF Next

-----------------------------------------------------------------------------
(* What a step leaves as it was *)

\* Calls that return or go on, none that begins to make a record or to rotate.
LEMMA CallsFrame ==
  ASSUME Calls, UNCHANGED <<made, mine, clashed>>, met \subseteq met',
         \A w \in Writer : Recording(w)' => Recording(w) /\ mine[w] \notin returned',
         \A w \in Writer : Rotating(w)' => Rotating(w),
         \A t \in Thread : Recording(t)' => lock' = t,
         failed' \subseteq returned',
         \A w \in Writer : pc'[w] = "use" => mine[w] \in returned'
  PROVE  Calls'
  BY DEF Calls

\* No file is touched, and nobody has come to append.
LEMMA FilesFrame ==
  ASSUME TypeOK, TypeOK', FilesSound, UNCHANGED files, met \subseteq met', crashes <= crashes',
         Cardinality(failed) <= Cardinality(failed'),
         \A w \in Writer : pc'[w] = "append" =>
           pc[w] = "append" /\ mine'[w] = mine[w] /\ prev'[w] = prev[w]
  PROVE  FilesSound'
<1>1. log' = log /\ archive' = archive
  BY DEF files
<1>2. log \in Seq(LineType) /\ \A d \in Days : archive[d] \in Seq(LineType)
  BY DEF TypeOK, LineType, FilesSound
<1>3. \A f \in Seq(LineType) : Sound(f) => Sound(f)'
  BY SoundGrows
<1>4. Sound(log)' /\ \A d \in Days : Sound(archive[d])'
  BY <1>1, <1>2, <1>3 DEF FilesSound, Sound, Verified, Torn, Link
<1> QED
  BY <1>1, <1>4 DEF FilesSound

\* No archive is touched, and nobody has come to rotate.
LEMMA DaysFrame ==
  ASSUME TypeOK, TypeOK', OldDays, archive' = archive, today <= today',
         \A w \in Writer : Rotating(w)' => Rotating(w) /\ day'[w] = day[w]
  PROVE  OldDays'
<1>1. today \in Nat /\ today' \in Nat /\ (\A d \in Days : d \in Nat) /\ \A w \in Writer : day[w] \in Nat
  BY DEF TypeOK, Days
<1> QED
  BY <1>1 DEF OldDays

\* No file is touched, what returns has failed, and nobody has come to copy or unlink.
LEMMA KeptFrame ==
  ASSUME TypeOK, TypeOK', OldDays, Kept, UNCHANGED files, today <= today', met \subseteq met',
         failed \subseteq failed', returned' \subseteq returned \cup failed',
         \A w \in Writer : Rotating(w)' => pc'[w] = pc[w] /\ day'[w] = day[w]
  PROVE  Kept'
<1>1. log' = log /\ archive' = archive /\ logDay' = logDay
  BY DEF files
<1>2. ASSUME log # <<>>, logDay < today' PROVE Ended(archive[logDay]) \subseteq Ended(log)
  <2>1. CASE logDay < today
    BY <1>2, <2>1 DEF Kept
  <2>2. CASE ~(logDay < today)
    <3>1. archive[logDay] = <<>>
      BY <2>2 DEF OldDays, TypeOK, Days
    <3>2. Ended(archive[logDay]) = {}
      BY <3>1 DEF Ended
    <3> QED
      BY <3>2
  <2> QED
    BY <2>1, <2>2
<1>3. \A w \in Writer : pc'[w] = "copy" => Ended(archive[day'[w]]) \subseteq Ended(log)
  BY DEF Kept, Rotating
<1>4. \A w \in Writer : pc'[w] = "unlink" => Ended(log) \subseteq Ended(archive[day'[w]]) \cup met'
  BY DEF Kept, Rotating
<1>5. \A r \in returned' : \/ r \in Ended(log) \cup failed' \cup met'
                           \/ \E d \in Days : r \in Ended(archive[d])
  BY DEF Kept
<1> QED
  BY <1>1, <1>2, <1>3, <1>4, <1>5 DEF Kept

-----------------------------------------------------------------------------
(* The steps *)

Preserved == Calls' /\ FilesSound' /\ OldDays' /\ (~clashed' => Kept')

\* Beginning a call, reading and saving the store, using a secret, a start of the
\* agent and a new day touch no file of the log.
LEMMA QuietKeeps ==
  ASSUME VaultInv, TypeOK', NEW w \in Writer,
         \/ \E what \in {"decide", "get", "set", "delete"}, n \in Secret : Begin(w, what, n)
         \/ Load(w) \/ Save(w) \/ Used(w) \/ AgentStarts \/ Midnight \/ UNCHANGED vars
  PROVE  Preserved
<1>1. /\ UNCHANGED <<files, made, mine, prev, day, lock, history>>
      /\ \A v \in Writer : pc'[v] = pc[v] \/ pc'[v] \in {"load", "save", "lock", "idle"}
  BY DEF Begin, Load, Save, Used, AgentStarts, Midnight, vars, calls, Goto, VaultInv, TypeOK
<1>2. today <= today' /\ Thread \subseteq Writer
  BY DEF Begin, Load, Save, Used, AgentStarts, Midnight, vars, VaultInv, TypeOK, Writer
<1>3. /\ UNCHANGED <<crashes, returned, failed, met, clashed>>
      /\ crashes <= crashes' /\ Cardinality(failed) <= Cardinality(failed')
  <2>1. Cardinality(failed) \in Nat
    BY FailedFinite DEF VaultInv
  <2> QED
    BY <1>1, <2>1 DEF history, VaultInv, TypeOK
<1>4. Calls'
  <2>1. \A v \in Writer : Recording(v)' => Recording(v)
    BY <1>1 DEF Recording, Rotating
  <2>2. \A v \in Writer : Rotating(v)' => Rotating(v)
    BY <1>1 DEF Rotating
  <2>3. \A v \in Writer : pc'[v] = "use" => pc[v] = "use"
    BY <1>1
  <2> QED
    BY <1>1, <1>2, <1>3, <2>1, <2>2, <2>3 DEF VaultInv, Calls
<1>5. FilesSound'
  BY <1>1, <1>3, FilesFrame DEF VaultInv
<1>6. \A v \in Writer : Rotating(v)' => Rotating(v) /\ pc'[v] = pc[v] /\ day'[v] = day[v]
  BY <1>1 DEF Rotating
<1>7. OldDays'
  BY <1>1, <1>2, <1>6, DaysFrame DEF VaultInv, files
<1>8. ~clashed' => Kept'
  BY <1>1, <1>2, <1>3, <1>6, KeptFrame DEF VaultInv
<1> QED
  BY <1>4, <1>5, <1>7, <1>8 DEF Preserved

\* Who takes the lock meets at most the other process.
LEMMA AcquireKeeps ==
  ASSUME VaultInv, TypeOK', NEW w \in Writer, Acquire(w)
  PROVE  Preserved
<1> DEFINE crowd == {v \in Others(w) : Recording(v)}
<1>1. /\ UNCHANGED <<files, prev, day, today, crashes, returned, failed, clashed>>
      /\ pc[w] = "lock" /\ pc' = [pc EXCEPT ![w] = "rotate"]
      /\ made' = made + 1 /\ mine' = [mine EXCEPT ![w] = made + 1]
      /\ IF w = Cli THEN lock' = lock ELSE lock = "free" /\ lock' = w
      /\ met' = IF crowd = {} THEN met ELSE met \cup {made + 1} \cup {mine[v] : v \in crowd}
  BY DEF Acquire, Number, Goto
<1>2. /\ pc \in [Writer -> Place] /\ made \in Nat /\ mine \in [Writer -> Nat]
      /\ returned \subseteq 1 .. made /\ today \in Nat /\ crashes \in Nat
  BY DEF VaultInv, TypeOK
<1>3. Cli \in Writer /\ Thread \subseteq Writer /\ Cli \notin Thread /\ "free" \notin Thread
  BY VaultAssumption DEF Writer
<1>4. /\ pc'[w] = "rotate" /\ mine'[w] = made + 1
      /\ \A v \in Writer \ {w} : pc'[v] = pc[v] /\ mine'[v] = mine[v]
  BY <1>1, <1>2
<1>5. \A v \in Writer \ {w} : Recording(v) => v \in crowd
  <2> SUFFICES ASSUME NEW v \in Writer \ {w}, Recording(v) PROVE v \in crowd
    OBVIOUS
  <2>1. CASE w = Cli
    BY <2>1 DEF Others, Writer
  <2>2. CASE w # Cli
    <3>1. v \notin Thread
      BY <1>1, <1>3, <2>2 DEF VaultInv, Calls
    <3> QED
      BY <2>2, <3>1 DEF Others, Writer
  <2> QED
    BY <2>1, <2>2
<1>6. met \subseteq met' /\ (crowd # {} => made + 1 \in met') /\ \A v \in crowd : mine[v] \in met'
  BY <1>1
<1> HIDE DEF crowd
<1>7. Calls'
  <2>1. \A v \in Writer : Recording(v)' <=> v = w \/ Recording(v)
    BY <1>4 DEF Recording, Rotating
  <2>2. \A v \in Writer : Rotating(v)' => Rotating(v) /\ v # w
    BY <1>4 DEF Rotating
  <2>3. \A t \in Thread : Recording(t)' => lock' = t
    BY <1>1, <1>3, <2>1 DEF VaultInv, Calls
  <2>4. made + 1 \in 1 .. made + 1 /\ made + 1 \notin returned
        /\ \A n \in 1 .. made : n \in 1 .. made + 1 /\ n # made + 1
    BY <1>2
  <2>5. \A v \in Writer : Recording(v)' => mine'[v] \in 1 .. made' /\ mine'[v] \notin returned'
    BY <1>1, <1>4, <2>1, <2>4 DEF VaultInv, Calls
  <2>6. \A u, v \in Writer : Recording(u)' /\ Recording(v)' /\ u # v =>
          mine'[u] # mine'[v] /\ mine'[u] \in met'
    <3> SUFFICES ASSUME NEW u \in Writer, NEW v \in Writer, Recording(u)', Recording(v)', u # v
                 PROVE  mine'[u] # mine'[v] /\ mine'[u] \in met'
      OBVIOUS
    <3>1. CASE u = w
      BY <1>4, <1>5, <1>6, <2>1, <2>4, <3>1 DEF VaultInv, Calls
    <3>2. CASE v = w
      BY <1>4, <1>5, <1>6, <2>1, <2>4, <3>2 DEF VaultInv, Calls
    <3>3. CASE u # w /\ v # w
      BY <1>4, <1>6, <2>1, <3>3 DEF VaultInv, Calls
    <3> QED
      BY <3>1, <3>2, <3>3
  <2>7. \A v \in Writer : pc'[v] = "use" => mine'[v] \in returned'
    BY <1>1, <1>4 DEF VaultInv, Calls
  <2> QED
    BY <1>1, <2>2, <2>3, <2>5, <2>6, <2>7 DEF VaultInv, Calls
<1>8. FilesSound'
  <2>1. \A v \in Writer : pc'[v] = "append" => pc[v] = "append" /\ mine'[v] = mine[v] /\ prev'[v] = prev[v]
    BY <1>1, <1>4
  <2> QED
    BY <1>1, <1>2, <1>6, <2>1, FilesFrame, FailedFinite DEF VaultInv
<1>9. \A v \in Writer : Rotating(v)' => Rotating(v) /\ pc'[v] = pc[v] /\ day'[v] = day[v]
  BY <1>1, <1>4 DEF Rotating
<1>10. OldDays'
  BY <1>1, <1>2, <1>9, DaysFrame DEF VaultInv, files
<1>11. ~clashed' => Kept'
  BY <1>1, <1>2, <1>6, <1>9, KeptFrame DEF VaultInv
<1> QED
  BY <1>7, <1>8, <1>10, <1>11 DEF Preserved

\* Two writers of one process do not make a record at once.
LEMMA OneEach ==
  ASSUME Calls, NEW w \in Writer, NEW v \in Writer, Recording(w), Recording(v), v # w
  PROVE  v \in Others(w)
<1>1. Cli \notin Thread
  BY VaultAssumption
<1> QED
  BY <1>1 DEF Calls, Others, Writer

\* Who begins to rotate while nobody else does has the old file in the log.
LEMMA RotateKeeps ==
  ASSUME VaultInv, TypeOK', NEW w \in Writer, Rotate(w)
  PROVE  Preserved
<1>1. /\ UNCHANGED <<files, today, lock, prev, mine, made, crashes, returned, failed, met>>
      /\ pc[w] = "rotate" /\ \A v \in Writer \ {w} : pc'[v] = pc[v] /\ day'[v] = day[v]
      /\ \/ /\ log # <<>> /\ logDay < today /\ pc'[w] = "copy" /\ day'[w] = logDay
            /\ clashed' = (clashed \/ \E v \in Others(w) : Rotating(v))
         \/ pc'[w] = "last" /\ clashed' = clashed
  BY DEF Rotate, Goto, VaultInv, TypeOK
<1>0. ~clashed' => ~clashed /\ (pc'[w] = "copy" => \A v \in Others(w) : ~Rotating(v))
  <2>1. CASE pc'[w] = "copy"
    BY <1>1, <2>1
  <2>2. CASE pc'[w] = "last"
    BY <1>1, <2>2
  <2> QED
    BY <1>1, <2>1, <2>2
<1>2. today \in Nat /\ crashes \in Nat /\ Thread \subseteq Writer
  BY DEF VaultInv, TypeOK, Writer
<1>3. Calls'
  <2>1. \A v \in Writer : Recording(v)' <=> Recording(v)
    BY <1>1 DEF Recording, Rotating
  <2>2. \A v \in Writer : pc'[v] = "use" => pc[v] = "use"
    BY <1>1
  <2>3. ASSUME ~clashed', NEW u \in Writer, NEW v \in Writer, Rotating(u)', Rotating(v)', u # v
        PROVE  FALSE
    <3>1. \A x \in Writer : Rotating(x)' => Recording(x)
      BY <2>1 DEF Recording
    <3>2. u \in Others(v) /\ v \in Others(u)
      BY <2>3, <3>1, OneEach DEF VaultInv
    <3>3. CASE u = w \/ v = w
      BY <1>0, <1>1, <2>3, <3>2, <3>3 DEF Rotating
    <3>4. CASE u # w /\ v # w
      BY <1>0, <1>1, <2>3, <3>4 DEF VaultInv, Calls, Rotating
    <3> QED
      BY <3>3, <3>4
  <2> QED
    BY <1>1, <1>2, <2>1, <2>2, <2>3 DEF VaultInv, Calls
<1>4. FilesSound'
  <2>1. \A v \in Writer : pc'[v] = "append" => pc[v] = "append" /\ mine'[v] = mine[v] /\ prev'[v] = prev[v]
    BY <1>1
  <2> QED
    BY <1>1, <1>2, <2>1, FilesFrame, FailedFinite DEF VaultInv
<1>5. OldDays'
  <2>1. archive' = archive /\ \A v \in Writer : Rotating(v)' => day'[v] < today
    BY <1>1 DEF VaultInv, OldDays, Rotating, files
  <2> QED
    BY <1>1, <2>1 DEF VaultInv, OldDays
<1>6. ASSUME ~clashed' PROVE Kept'
  <2>1. Kept /\ log' = log /\ archive' = archive /\ logDay' = logDay
    BY <1>0, <1>1, <1>6 DEF VaultInv, files
  <2>2. \A v \in Writer : pc'[v] = "copy" => Ended(archive[day'[v]]) \subseteq Ended(log)
    BY <1>1, <2>1 DEF Kept
  <2>3. \A v \in Writer : pc'[v] = "unlink" => Ended(log) \subseteq Ended(archive[day'[v]]) \cup met
    BY <1>1, <2>1 DEF Kept
  <2> QED
    BY <1>1, <2>1, <2>2, <2>3 DEF Kept
<1> QED
  BY <1>3, <1>4, <1>5, <1>6 DEF Preserved

\* A copy that ends, fails or is cut short is made over nothing that the log lacks.
LEMMA CopyKept ==
  ASSUME VaultInv, Kept, NEW w \in Writer, pc[w] = "copy", ~clashed,
         UNCHANGED <<log, logDay, today, returned, failed, met>>,
         \/ archive' = [archive EXCEPT ![day[w]] = log]
         \/ archive' = Spoilt(day[w]) /\ pc'[w] # "unlink"
         \/ archive' = archive /\ pc'[w] # "unlink",
         pc'[w] # "copy", \A v \in Writer : Rotating(v)' => Rotating(v),
         pc'[w] = "unlink" => day'[w] = day[w]
  PROVE  Kept'
<1>1. day[w] \in Days /\ logDay \in Days /\ DOMAIN archive = Days
  BY DEF VaultInv, TypeOK, Days
<1>2. \A v \in Writer \ {w} : ~Rotating(v)'
  BY DEF VaultInv, Calls, Rotating
<1>3. /\ \A d \in Days : archive'[d] \in {archive[d], log, <<>>}
      /\ \A d \in Days \ {day[w]} : archive'[d] = archive[d]
      /\ pc'[w] = "unlink" => archive'[day[w]] = log
  BY <1>1 DEF Spoilt
<1>4. Ended(archive[day[w]]) \subseteq Ended(log) /\ Ended(<<>>) = {}
  <2>1. Ended(archive[day[w]]) \subseteq Ended(log)
    BY DEF Kept
  <2> QED
    BY <2>1, EmptyFile
<1>5. ASSUME NEW r \in returned
      PROVE  \/ r \in Ended(log) \cup failed \cup met
             \/ \E d \in Days : r \in Ended(archive'[d])
  <2>1. CASE r \in Ended(log) \cup failed \cup met
    BY <2>1
  <2>2. ASSUME NEW d \in Days, r \in Ended(archive[d])
        PROVE  r \in Ended(log) \/ r \in Ended(archive'[d])
    BY <1>3, <1>4, <2>2
  <2> QED
    BY <2>1, <2>2 DEF Kept
<1>6. log # <<>> /\ logDay < today => Ended(archive'[logDay]) \subseteq Ended(log)
  BY <1>1, <1>3, <1>4 DEF Kept
<1>7. \A v \in Writer : /\ pc'[v] # "copy"
                        /\ pc'[v] = "unlink" => Ended(log) \subseteq Ended(archive'[day'[v]]) \cup met
  BY <1>2, <1>3 DEF Rotating
<1> QED
  BY <1>5, <1>6, <1>7 DEF Kept

\* An archive that a copy leaves is the log, nothing, or as it was.
LEMMA CopySound ==
  ASSUME VaultInv, TypeOK', NEW w \in Writer, pc[w] = "copy",
         UNCHANGED <<log, met, mine, failed, today>>, crashes <= crashes',
         archive' \in {[archive EXCEPT ![day[w]] = log], Spoilt(day[w]), archive},
         \A v \in Writer : pc'[v] = "append" => pc[v] = "append" /\ prev'[v] = prev[v],
         \A v \in Writer : Rotating(v)' => Rotating(v) /\ day'[v] = day[v]
  PROVE  FilesSound' /\ OldDays'
<1>1. /\ day[w] \in Days /\ log \in Seq(LineType) /\ <<>> \in Seq(LineType)
      /\ archive \in [Days -> Seq(LineType)] /\ crashes \in Nat
  BY EmptySeq DEF VaultInv, TypeOK, Days, LineType, FilesSound
<1>2. /\ archive' \in [Days -> Seq(LineType)]
      /\ \A d \in Days : archive'[d] \in {archive[d], log, <<>>}
      /\ \A d \in Days \ {day[w]} : archive'[d] = archive[d]
  BY <1>1 DEF Spoilt
<1>3. Cardinality(failed) \in Nat /\ Cardinality(failed) <= Cardinality(failed')
  <2>1. Cardinality(failed) \in Nat
    BY FailedFinite DEF VaultInv
  <2> QED
    BY <2>1
<1>4. \A f \in Seq(LineType) : Sound(f) => Sound(f)'
  BY <1>3, SoundGrows DEF VaultInv
<1>5. Sound(<<>>)
  <2>1. ASSUME NEW f, DOMAIN f = {}, Torn(f) = {} PROVE Sound(f)
    <3>1. Cardinality(Torn(f)) = 0
      BY <2>1, FS_EmptySet
    <3> QED
      BY <1>1, <1>3, <2>1, <3>1 DEF Sound
  <2> QED
    BY <2>1, EmptyFile
<1>6. \A f \in Seq(LineType) : Sound(f)' <=>
        /\ \A i \in DOMAIN f : Verified(f, i) \/ i \in Torn(f) \/ f[i].hmac \in met'
        /\ Cardinality(Torn(f)) <= crashes' + Cardinality(failed')
  BY DEF Sound
<1>7. Sound(log)' /\ \A d \in Days : Sound(archive[d])'
  <2>1. \A d \in Days : \E f \in Seq(LineType) : archive'[d] = f /\ Sound(f)'
    BY <1>1, <1>2, <1>4, <1>5 DEF VaultInv, FilesSound
  <2>2. Sound(log)'
    BY <1>1, <1>4 DEF VaultInv, FilesSound, Sound, Verified, Torn, Link
  <2> QED
    BY <1>6, <2>1, <2>2 DEF Sound
<1>8. FilesSound'
  BY <1>2, <1>7 DEF VaultInv, FilesSound
<1>9. OldDays'
  BY <1>1, <1>2 DEF VaultInv, OldDays, Rotating
<1> QED
  BY <1>8, <1>9

\* A copy goes on to the unlinking, or back to the old file.
LEMMA CopyKeeps ==
  ASSUME VaultInv, TypeOK', NEW w \in Writer, Copy(w)
  PROVE  Preserved
<1>1. /\ UNCHANGED <<log, logDay, today, lock, day, prev, mine, made, history>>
      /\ pc[w] = "copy" /\ \A v \in Writer \ {w} : pc'[v] = pc[v]
      /\ \/ archive' = [archive EXCEPT ![day[w]] = log] /\ pc'[w] = "unlink"
         \/ archive' \in {archive, Spoilt(day[w])} /\ pc'[w] = "last"
  BY DEF Copy, Goto, VaultInv, TypeOK
<1>2. /\ UNCHANGED <<crashes, returned, failed, met, clashed>> /\ crashes <= crashes'
      /\ Thread \subseteq Writer
  BY <1>1 DEF history, VaultInv, TypeOK, Writer
<1>3. \A v \in Writer : /\ Rotating(v)' => Rotating(v)
                        /\ Recording(v)' <=> Recording(v)
                        /\ pc'[v] \in {"append", "use"} => pc'[v] = pc[v]
  BY <1>1 DEF Rotating, Recording
<1>4. Calls'
  BY <1>1, <1>2, <1>3, CallsFrame DEF VaultInv, Calls
<1>5. FilesSound' /\ OldDays'
  BY <1>1, <1>2, <1>3, CopySound
<1>6. ~clashed' => Kept'
  <2>1. ~clashed' => ~clashed /\ Kept
    BY <1>2 DEF VaultInv
  <2>2. pc'[w] # "copy" /\ (pc'[w] = "unlink" => day'[w] = day[w])
    BY <1>1
  <2>3. \/ archive' = [archive EXCEPT ![day[w]] = log]
        \/ archive' = Spoilt(day[w]) /\ pc'[w] # "unlink"
        \/ archive' = archive /\ pc'[w] # "unlink"
    BY <1>1
  <2> QED
    BY <1>1, <1>2, <1>3, <2>1, <2>2, <2>3, CopyKept
<1> QED
  BY <1>4, <1>5, <1>6 DEF Preserved

\* What is unlinked is in the archive; the next record starts a file.
LEMMA UnlinkKeeps ==
  ASSUME VaultInv, TypeOK', NEW w \in Writer, Unlink(w)
  PROVE  Preserved
<1>1. /\ UNCHANGED <<logDay, archive, today, lock, day, prev, mine, made, history>>
      /\ pc[w] = "unlink" /\ pc'[w] = "last" /\ \A v \in Writer \ {w} : pc'[v] = pc[v]
      /\ log' \in {log, <<>>}
  BY DEF Unlink, Goto, VaultInv, TypeOK
<1>2. UNCHANGED <<crashes, returned, failed, met, clashed>> /\ Thread \subseteq Writer
  BY <1>1 DEF history, Writer
<1>3. \A v \in Writer : /\ Rotating(v)' => Rotating(v) /\ pc'[v] = pc[v] /\ v # w
                        /\ Recording(v)' <=> Recording(v)
                        /\ pc'[v] \in {"append", "use"} => pc'[v] = pc[v] /\ v # w
  BY <1>1 DEF Rotating, Recording
<1>4. Calls'
  BY <1>1, <1>2, <1>3, CallsFrame DEF VaultInv, Calls
<1>5. FilesSound'
  <2>1. Sound(log)' /\ \A i \in DOMAIN log' : log'[i].open => ~log'[i].whole
    <3>1. CASE log' = log
      BY <1>2, <3>1 DEF VaultInv, FilesSound, Sound, Verified, Torn, Link
    <3>2. CASE log' = <<>>
      <4>1. DOMAIN log' = {} /\ Torn(log') = {}
        BY <3>2, EmptyFile
      <4>2. crashes \in Nat /\ Cardinality(failed) \in Nat
        <5>1. TypeOK
          BY DEF VaultInv
        <5>2. crashes \in Nat
          BY <5>1 DEF TypeOK
        <5> QED
          BY <5>1, <5>2, FailedFinite
      <4>3. Cardinality(Torn(log')) = 0
        BY <4>1, FS_EmptySet
      <4> QED
        BY <1>2, <4>1, <4>2, <4>3 DEF Sound
    <3> QED
      BY <1>1, <3>1, <3>2
  <2>2. \A d \in Days : Sound(archive[d])'
    BY <1>1, <1>2 DEF VaultInv, FilesSound, Sound, Verified, Torn, Link
  <2>3. \A v \in Writer : pc'[v] = "append" => mine[v] \in met
    BY <1>1, <1>3 DEF VaultInv, Calls, Recording, Rotating
  <2> QED
    BY <1>1, <1>2, <2>1, <2>2, <2>3 DEF VaultInv, FilesSound
<1>6. OldDays'
  BY <1>1, <1>3 DEF VaultInv, OldDays
<1>7. ASSUME ~clashed' PROVE Kept'
  <2>1. Kept /\ ~clashed
    BY <1>2, <1>7 DEF VaultInv
  <2>2. \A v \in Writer : ~Rotating(v)'
    BY <1>1, <1>3, <2>1 DEF VaultInv, Calls, Rotating
  <2>3. Ended(log) \subseteq Ended(archive[day[w]]) \cup met /\ day[w] \in Days
    BY <1>1, <2>1 DEF Kept, VaultInv, TypeOK, Days
  <2>4. Ended(log') = Ended(log) \/ log' = <<>>
    BY <1>1
  <2>5. \A r \in returned : \/ r \in Ended(log') \cup failed \cup met
                            \/ \E d \in Days : r \in Ended(archive[d])
    BY <2>1, <2>3, <2>4 DEF Kept
  <2>6. log' # <<>> /\ logDay < today => Ended(archive[logDay]) \subseteq Ended(log')
    BY <1>1, <2>1 DEF Kept
  <2> QED
    BY <1>1, <1>2, <2>2, <2>5, <2>6 DEF Kept, Rotating
<1> QED
  BY <1>4, <1>5, <1>6, <1>7 DEF Preserved

\* The hash read is that of the line to chain onto.
LEMMA LastHmacKeeps ==
  ASSUME VaultInv, TypeOK', NEW w \in Writer, LastHmac(w)
  PROVE  Preserved
<1>1. /\ UNCHANGED <<files, today, lock, day, mine, made, history>>
      /\ pc[w] = "last" /\ pc'[w] = "append" /\ \A v \in Writer \ {w} : pc'[v] = pc[v] /\ prev'[v] = prev[v]
      /\ prev'[w] = Link(log, Len(log))
  BY DEF LastHmac, Goto, VaultInv, TypeOK
<1>2. /\ UNCHANGED <<log, logDay, archive, crashes, returned, failed, met, clashed>>
      /\ Thread \subseteq Writer /\ today <= today'
  BY <1>1 DEF history, files, Writer, VaultInv, TypeOK
<1>3. \A v \in Writer : /\ Rotating(v)' => Rotating(v) /\ pc'[v] = pc[v] /\ day'[v] = day[v]
                        /\ Recording(v)' <=> Recording(v)
                        /\ pc'[v] = "use" => pc[v] = "use"
  BY <1>1 DEF Rotating, Recording
<1>4. Calls'
  BY <1>1, <1>2, <1>3, CallsFrame DEF VaultInv, Calls
<1>5. FilesSound'
  <2>1. Sound(log)' /\ \A d \in Days : Sound(archive[d])'
    BY <1>2 DEF VaultInv, FilesSound, Sound, Verified, Torn, Link
  <2>2. \A v \in Writer : pc'[v] = "append" => mine[v] \in met \/ prev'[v] = Link(log, Len(log))
    BY <1>1 DEF VaultInv, FilesSound
  <2>3. Link(log, Len(log))' = Link(log, Len(log))
    BY <1>2 DEF Link
  <2> QED
    BY <1>1, <1>2, <2>1, <2>2, <2>3 DEF VaultInv, FilesSound
<1>6. OldDays'
  BY <1>2, <1>3, DaysFrame DEF VaultInv
<1>7. ~clashed' => Kept'
  BY <1>1, <1>2, <1>3, KeptFrame DEF VaultInv
<1> QED
  BY <1>4, <1>5, <1>6, <1>7 DEF Preserved

\* The end of an append, whole or cut short: the others that make a record then
\* are of the other process, and in met.
LEMMA WriteKeeps ==
  ASSUME VaultInv, TypeOK', NEW w \in Writer, NEW whole \in BOOLEAN, Write(w, whole),
         UNCHANGED <<archive, today, mine, met, clashed>>,
         whole \/ crashes' + Cardinality(failed') >= crashes + Cardinality(failed) + 1,
         crashes <= crashes', Cardinality(failed) <= Cardinality(failed'), Cardinality(failed') \in Nat,
         failed \subseteq failed', returned' \subseteq returned \cup {mine[w]},
         mine[w] \in returned' => whole \/ mine[w] \in failed' \cup returned,
         \A v \in Writer : Recording(v)' =>
           Recording(v) /\ v # w /\ pc'[v] = pc[v] /\ prev'[v] = prev[v] /\ day'[v] = day[v]
  PROVE  FilesSound' /\ OldDays' /\ (~clashed' => Kept')
<1> DEFINE n == crashes' + Cardinality(failed')
<1>1. crashes' \in Nat /\ n \in Nat /\ today \in Days /\ pc[w] = "append" /\ logDay' = today
  BY DEF TypeOK, VaultInv, Days, Write
<1>2. /\ log' \in Seq(LineType) /\ Sound(log)'
      /\ \A i \in DOMAIN log' : log'[i].open => ~log'[i].whole
      /\ Ended(log) \subseteq Ended(log') /\ Ended(log') \subseteq Ended(log) \cup {mine[w]}
      /\ whole => mine[w] \in Ended(log')
  <2>1. TypeOK /\ FilesSound
    BY DEF VaultInv
  <2>2. crashes \in Nat /\ Cardinality(failed) \in Nat
    <3>1. crashes \in Nat
      BY <2>1 DEF TypeOK
    <3> QED
      BY <2>1, <3>1, FailedFinite
  <2>3. n >= crashes + Cardinality(failed) + (IF whole THEN 0 ELSE 1)
    BY <1>1, <2>2
  <2> QED
    BY <1>1, <2>1, <2>3, WriteSound
<1>3. \A v \in Writer : Recording(v)' => mine[v] \in met /\ mine[w] \in met
  BY <1>1 DEF VaultInv, Calls, Recording
<1>4. FilesSound'
  <2>1. \A f \in Seq(LineType) : Sound(f) => Sound(f)'
    BY SoundGrows DEF VaultInv
  <2>2. \A d \in Days : Sound(archive[d])'
    BY <2>1 DEF VaultInv, FilesSound, Sound, Verified, Torn, Link
  <2> QED
    BY <1>2, <1>3, <2>2 DEF VaultInv, FilesSound, Recording
<1>5. OldDays'
  BY DEF VaultInv, OldDays, Recording, Rotating
<1>6. ASSUME ~clashed' PROVE Kept'
  <2>1. Kept
    BY <1>6 DEF VaultInv
  <2>2. \A r \in returned' : \/ r \in Ended(log') \cup failed' \cup met
                             \/ \E d \in Days : r \in Ended(archive[d])
    <3> SUFFICES ASSUME NEW r \in returned'
                 PROVE  \/ r \in Ended(log') \cup failed' \cup met
                        \/ \E d \in Days : r \in Ended(archive[d])
      OBVIOUS
    <3>1. CASE r \in returned
      BY <1>2, <2>1, <3>1 DEF Kept
    <3>2. CASE r \notin returned
      BY <1>2, <3>2
    <3> QED
      BY <3>1, <3>2
  <2>3. ~(logDay' < today)
    BY <1>1 DEF Days
  <2>4. \A v \in Writer : pc'[v] = "copy" => Ended(archive[day'[v]]) \subseteq Ended(log')
    BY <1>2, <2>1 DEF Kept, Recording, Rotating
  <2>5. \A v \in Writer : pc'[v] = "unlink" => Ended(log') \subseteq Ended(archive[day'[v]]) \cup met
    BY <1>2, <1>3, <2>1 DEF Kept, Recording, Rotating
  <2> QED
    BY <2>2, <2>3, <2>4, <2>5 DEF Kept
<1> QED
  BY <1>4, <1>5, <1>6

\* record returns: its line is in the log, or it has failed.
LEMMA ReturnKeeps ==
  ASSUME VaultInv, TypeOK', NEW w \in Writer, Finish(w) \/ Fail(w)
  PROVE  Preserved
<1>1. /\ UNCHANGED <<archive, today, mine, made, met, clashed, crashes>>
      /\ Recording(w) /\ ~Rotating(w) /\ Return(w) /\ (failed' = failed \/ failed' = failed \cup {mine[w]})
  BY DEF Finish, Fail, Write, Recording, Rotating
<1>2. /\ pc'[w] \in {"idle", "use"} /\ \A v \in Writer \ {w} : pc'[v] = pc[v]
      /\ \A v \in Writer \ {w} : day'[v] = day[v] /\ prev'[v] = prev[v]
      /\ returned' = returned \cup {mine[w]} /\ lock' = IF w = Cli THEN lock ELSE "free"
  BY <1>1 DEF Return, Forget, Goto, VaultInv, TypeOK
<1>3. \A v \in Writer : /\ Recording(v)' => Recording(v) /\ v # w
                        /\ Rotating(v)' => Rotating(v) /\ v # w
                        /\ v # w => pc'[v] = pc[v] /\ day'[v] = day[v] /\ prev'[v] = prev[v]
  BY <1>2 DEF Recording, Rotating
<1>4. /\ IsFiniteSet(failed) /\ Cardinality(failed) \in Nat /\ mine[w] \notin failed
      /\ crashes \in Nat /\ today \in Nat
  <2>1. mine[w] \notin failed
    BY <1>1 DEF VaultInv, Calls
  <2>2. crashes \in Nat /\ today \in Nat
    BY DEF VaultInv, TypeOK
  <2> QED
    BY <2>1, <2>2, FailedFinite DEF VaultInv
<1>5. failed' = failed \cup {mine[w]} => Cardinality(failed') = Cardinality(failed) + 1
  BY <1>4, FS_AddElement
<1>6. Calls'
  <2>1. Cli \in Writer /\ Thread \subseteq Writer
    BY DEF Writer
  <2>2. \A v \in Writer : Recording(v)' => Recording(v) /\ mine[v] \notin returned'
    BY <1>1, <1>2, <1>3 DEF VaultInv, Calls
  <2>3. \A t \in Thread : Recording(t)' => lock' = t
    BY <1>1, <1>2, <1>3, <2>1 DEF VaultInv, Calls, Writer
  <2>4. failed' \subseteq returned' /\ \A v \in Writer : pc'[v] = "use" => mine[v] \in returned'
    BY <1>1, <1>2 DEF VaultInv, Calls
  <2> QED
    BY <1>1, <1>3, <2>2, <2>3, <2>4, CallsFrame DEF VaultInv
<1>7. ASSUME NEW whole \in BOOLEAN, Write(w, whole),
             IF whole THEN failed' = failed ELSE failed' = failed \cup {mine[w]}
      PROVE  FilesSound' /\ OldDays' /\ (~clashed' => Kept')
  <2>1. \/ whole /\ Cardinality(failed') = Cardinality(failed)
        \/ Cardinality(failed') = Cardinality(failed) + 1
    BY <1>5, <1>7
  <2>2. /\ whole \/ crashes' + Cardinality(failed') >= crashes + Cardinality(failed) + 1
        /\ crashes <= crashes' /\ Cardinality(failed) <= Cardinality(failed') /\ Cardinality(failed') \in Nat
    BY <1>1, <1>4, <2>1
  <2>3. mine[w] \in returned' => whole \/ mine[w] \in failed' \cup returned
    BY <1>7
  <2> QED
    BY <1>1, <1>2, <1>3, <1>7, <2>2, <2>3, WriteKeeps
<1>8. CASE Fail(w) /\ UNCHANGED <<log, logDay>>
  <2>1. UNCHANGED files /\ failed' = failed \cup {mine[w]}
    BY <1>1, <1>8 DEF Fail, files
  <2>2. \A v \in Writer : pc'[v] = "append" => pc[v] = "append" /\ mine'[v] = mine[v] /\ prev'[v] = prev[v]
    BY <1>1, <1>2
  <2>3. FilesSound'
    BY <1>1, <1>4, <1>5, <2>1, <2>2, FilesFrame DEF VaultInv
  <2>4. OldDays'
    BY <1>1, <1>3, <1>4, DaysFrame DEF VaultInv
  <2>5. ~clashed' => Kept'
    BY <1>1, <1>2, <1>3, <1>4, <2>1, KeptFrame DEF VaultInv
  <2> QED
    BY <1>6, <2>3, <2>4, <2>5 DEF Preserved
<1>9. FilesSound' /\ OldDays' /\ (~clashed' => Kept')
  <2>1. CASE Finish(w)
    BY <1>7, <2>1 DEF Finish
  <2>2. CASE Fail(w) /\ Write(w, FALSE)
    BY <1>7, <2>2 DEF Fail
  <2> QED
    BY <1>8, <2>1, <2>2 DEF Fail, Preserved
<1> QED
  BY <1>6, <1>9 DEF Preserved

\* A kill cuts at most one line short, or the copy of an archive.
LEMMA KillKeeps ==
  ASSUME VaultInv, TypeOK', AgentDies \/ CliDies
  PROVE  Preserved
<1>1. PICK dead \in SUBSET Writer : /\ Kill(dead)
                                    /\ lock' = lock \/ dead = Thread
  BY DEF AgentDies, CliDies, Writer
<1>2. /\ UNCHANGED <<today, mine, made, returned, failed, met, clashed>> /\ crashes' = crashes + 1
      /\ \A v \in Writer : IF v \in dead THEN pc'[v] = "idle"
                           ELSE pc'[v] = pc[v] /\ day'[v] = day[v] /\ prev'[v] = prev[v]
  BY <1>1 DEF Kill, Forget
<1>3. /\ crashes \in Nat /\ crashes' \in Nat /\ crashes <= crashes' /\ today \in Nat /\ today <= today'
      /\ Cardinality(failed) \in Nat /\ Cardinality(failed') = Cardinality(failed)
  <2>1. TypeOK /\ crashes \in Nat /\ today \in Nat
    BY DEF VaultInv, TypeOK
  <2> QED
    BY <1>2, <2>1, FailedFinite
<1>4. \A v \in Writer : /\ Rotating(v)' => Rotating(v) /\ v \notin dead
                        /\ Recording(v)' => Recording(v) /\ v \notin dead
                        /\ pc'[v] \in {"append", "use"} => pc'[v] = pc[v] /\ v \notin dead
  BY <1>2 DEF Rotating, Recording
<1>5. Calls'
  <2>1. \A t \in Thread : Recording(t)' => lock' = t
    BY <1>1, <1>4 DEF VaultInv, Calls, Writer
  <2> QED
    BY <1>2, <1>4, <2>1, CallsFrame DEF VaultInv, Calls
<1>6. CASE UNCHANGED files
  <2>1. FilesSound'
    BY <1>2, <1>3, <1>4, <1>6, FilesFrame DEF VaultInv
  <2>2. OldDays'
    BY <1>2, <1>3, <1>4, <1>6, DaysFrame DEF VaultInv, files
  <2>3. ~clashed' => Kept'
    BY <1>2, <1>3, <1>4, <1>6, KeptFrame DEF VaultInv
  <2> QED
    BY <1>5, <2>1, <2>2, <2>3 DEF Preserved
<1>7. ASSUME NEW w \in dead, Write(w, FALSE), UNCHANGED archive
      PROVE  Preserved
  <2>1. w \in Writer /\ \A v \in Writer : Recording(v)' =>
          Recording(v) /\ v # w /\ pc'[v] = pc[v] /\ prev'[v] = prev[v] /\ day'[v] = day[v]
    BY <1>2, <1>4, <1>7
  <2>2. /\ crashes' + Cardinality(failed') >= crashes + Cardinality(failed) + 1
        /\ Cardinality(failed') \in Nat /\ Cardinality(failed) <= Cardinality(failed')
    BY <1>2, <1>3
  <2>3. FilesSound' /\ OldDays' /\ (~clashed' => Kept')
    BY <1>2, <1>3, <1>7, <2>1, <2>2, WriteKeeps
  <2> QED
    BY <1>5, <2>3 DEF Preserved
<1>8. ASSUME NEW w \in dead, pc[w] = "copy", archive' = Spoilt(day[w]), UNCHANGED <<log, logDay>>
      PROVE  Preserved
  <2>1. w \in Writer /\ pc'[w] = "idle"
    BY <1>2, <1>8
  <2>2. FilesSound' /\ OldDays'
    BY <1>2, <1>3, <1>4, <1>8, <2>1, CopySound
  <2>3. ~clashed' => Kept'
    BY <1>2, <1>4, <1>8, <2>1, CopyKept DEF VaultInv
  <2> QED
    BY <1>5, <2>2, <2>3 DEF Preserved
<1> QED
  BY <1>1, <1>6, <1>7, <1>8 DEF Kill

\* VaultInv is inductive.
LEMMA VaultStep ==
  ASSUME VaultInv, [Next]_vars
  PROVE  VaultInv'
<1>1. log' \in Seq(LineType)
  <2>1. log \in Seq(LineType) /\ <<>> \in Seq(LineType)
    BY EmptySeq DEF VaultInv, TypeOK, LineType
  <2>2. ASSUME NEW w \in Writer, NEW whole \in BOOLEAN, Write(w, whole)
        PROVE  log' \in Seq(LineType)
    <3>1. [hmac |-> mine[w], prev |-> prev[w], whole |-> whole, open |-> ~whole] \in LineType
      BY DEF VaultInv, TypeOK, LineType
    <3> QED
      BY <2>1, <2>2, <3>1, LineWritten DEF Write
  <2>3. ASSUME NEW dead \in SUBSET Writer, Kill(dead) PROVE log' \in Seq(LineType)
    BY <2>1, <2>2, <2>3 DEF Kill, files
  <2>4. CASE AgentDies \/ CliDies
    BY <2>3, <2>4 DEF AgentDies, CliDies, Writer
  <2>5. ASSUME NEW w \in Writer, Finish(w) \/ Fail(w) PROVE log' \in Seq(LineType)
    BY <2>1, <2>2, <2>5 DEF Finish, Fail
  <2>6. ASSUME NEW w \in Writer,
               \/ \E what \in {"decide", "get", "set", "delete"}, n \in Secret : Begin(w, what, n)
               \/ Load(w) \/ Save(w) \/ Acquire(w) \/ Rotate(w) \/ Copy(w) \/ Unlink(w) \/ LastHmac(w) \/ Used(w)
        PROVE  log' \in Seq(LineType)
    BY <2>1, <2>6 DEF Begin, Load, Save, Acquire, Number, Rotate, Copy, Unlink, LastHmac, Used, files
  <2>7. CASE AgentStarts \/ Midnight \/ UNCHANGED vars
    BY <2>1, <2>7 DEF AgentStarts, Midnight, vars, files
  <2> QED
    BY <2>4, <2>5, <2>6, <2>7 DEF Next
<1>2. TypeOK' /\ JobTyped'
  BY <1>1, VaultTyping
<1>3. Preserved
  <2>1. Cli \in Writer
    BY DEF Writer
  <2>2. CASE AgentStarts \/ Midnight \/ UNCHANGED vars
    BY <1>2, <2>1, <2>2, QuietKeeps
  <2> QED
    BY <1>2, <2>2, QuietKeeps, AcquireKeeps, RotateKeeps, CopyKeeps, UnlinkKeeps, LastHmacKeeps,
       ReturnKeeps, KillKeeps DEF Next
<1> QED
  BY <1>2, <1>3 DEF Preserved, VaultInv

\* It holds at first: there is no file.
LEMMA VaultInit == Init => VaultInv
<1> SUFFICES ASSUME Init PROVE VaultInv
  OBVIOUS
<1>1. TypeOK /\ JobTyped
  <2>1. log \in Seq([hmac : Nat, prev : Nat, whole : BOOLEAN, open : BOOLEAN])
    BY EmptySeq DEF Init
  <2>2. 1 \in 1 .. MaxDays /\ 0 \in 0 .. MaxCrashes
    BY VaultAssumption
  <2> QED
    BY <2>1, <2>2 DEF Init, TypeOK, JobTyped, NoJob, Genesis, Place
<1>2. Calls
  BY DEF Init, Calls, Recording, Rotating, Writer
<1>3. archive \in [Days -> Seq(LineType)] /\ \A d \in Days : archive[d] = <<>>
  BY EmptySeq DEF Init, Days
<1>4. ASSUME NEW f, f = <<>> PROVE Sound(f)
  <2>1. DOMAIN f = {} /\ Torn(f) = {} /\ failed = {} /\ crashes = 0
    BY <1>4, EmptyFile DEF Init
  <2>2. Cardinality(Torn(f)) = 0 /\ Cardinality(failed) = 0
    BY <2>1, FS_EmptySet
  <2> QED
    BY <2>1, <2>2 DEF Sound
<1>5. FilesSound
  <2>1. log = <<>> /\ DOMAIN log = {}
    BY EmptyFile DEF Init
  <2> QED
    BY <1>3, <1>4, <2>1 DEF Init, FilesSound, Writer
<1>6. OldDays
  BY <1>3 DEF Init, OldDays, Rotating, Writer
<1>7. Kept
  BY DEF Init, Kept, Writer
<1> QED
  BY <1>1, <1>2, <1>5, <1>6, <1>7 DEF VaultInv

\* So it holds of every behaviour.
LEMMA VaultInvariant == Spec => []VaultInv
  BY VaultInit, VaultStep, PTL DEF Spec

\* While no two processes have rotated the file at once, a record whose call has
\* returned is on a line of a file, and so is the access to a secret in use, unless
\* its own append failed or the other process was making a record meanwhile
\* (audit.py, record; secrets_vault.py, get).
THEOREM RecordsStay == Spec => []RecordsKept
<1>1. ASSUME VaultInv, ~clashed,
             NEW r \in returned \cup {mine[t] : t \in {t \in Thread : pc[t] = "use"}}
      PROVE  r \in Readable \cup OnTornLine \cup failed \cup met
  <2>1. r \in returned
    BY <1>1 DEF VaultInv, Calls, Writer
  <2>2. ASSUME NEW f \in Files, r \in Ended(f) PROVE r \in Readable \cup OnTornLine
    <3>1. PICK i \in DOMAIN f : r = f[i].hmac
      BY <2>2 DEF Ended
    <3>2. CASE i \in Torn(f)
      BY <3>1, <3>2 DEF OnTornLine
    <3>3. CASE i \notin Torn(f)
      BY <3>1, <3>3 DEF Readable
    <3> QED
      BY <3>2, <3>3
  <2>3. log \in Files /\ \A d \in Days : archive[d] \in Files
    BY <1>1 DEF Files, VaultInv, TypeOK, Days
  <2> QED
    BY <1>1, <2>1, <2>2, <2>3 DEF VaultInv, Kept
<1>2. VaultInv => RecordsKept
  BY <1>1 DEF RecordsKept
<1> QED
  BY <1>2, VaultInvariant, PTL

\* verify_chain stops at nothing but a line cut short, of which a file has at most
\* one for every kill and every failure, or a record that was made while the other
\* process made one (audit.py, verify_chain).
THEOREM ChainStaysSound == Spec => []ChainSound
<1>1. ASSUME VaultInv, NEW f \in Files PROVE Sound(f)
  BY <1>1 DEF VaultInv, TypeOK, FilesSound, Files, Days
<1>2. VaultInv => ChainSound
  BY <1>1 DEF ChainSound, Sound
<1> QED
  BY <1>2, VaultInvariant, PTL
=============================================================================
