--------------------------- MODULE ExecutorV3Proofs ---------------------------
(***************************************************************************)
(* Two properties of the delegating kinds, for any number of tasks, any    *)
(* nesting of spawns and awaits, any calls, turns and policies.            *)
(*                                                                         *)
(* The pool: a child that is queued is in flight, and not running; at most *)
(* MaxActive are in flight, for a spawn counts them under the lock.  So    *)
(* fewer than MaxActive run.  The transcript: while the tools of a turn    *)
(* run, exactly those before the next one are answered.                    *)
(*                                                                         *)
(* And what the policy all of them ask is worth: what a file that lint     *)
(* accepts promises of the decisions taken from it.                        *)
(***************************************************************************)
EXTENDS ExecutorV3, FiniteSetTheorems, TLAPS

Bounded == Cardinality(InFlight) <= MaxActive

\* What of the records the count of those in flight depends on.
PoolInv ==
  /\ DOMAIN record = Task /\ DOMAIN pc = Task
  /\ \A t \in Task : pc[t] = "queued" => record[t] = "queued"
  /\ Bounded

\* A step that starts nothing: whoever is in flight was before, and a task
\* whose thread is queued stays so.
Quiet ==
  /\ DOMAIN record' = Task /\ DOMAIN pc' = Task
  /\ \A t \in Task : record'[t] \in Unfinished => record[t] \in Unfinished
  /\ \A t \in Task : pc'[t] = "queued" => record'[t] = "queued"

\* The children in flight can be counted, before and after a step.
LEMMA InFlightFinite ==
  /\ IsFiniteSet(InFlight) /\ Cardinality(InFlight) \in Nat
  /\ IsFiniteSet(InFlight') /\ Cardinality(InFlight') \in Nat
<1>1. IsFiniteSet(Task)  BY DelegationAssumption
<1>2. InFlight \in SUBSET Task /\ InFlight' \in SUBSET Task  BY DEF InFlight
<1> QED  BY <1>1, <1>2, FS_Subset, FS_CardinalityType

\* A quiet step keeps the bound.
LEMMA QuietKeeps ==
  ASSUME PoolInv, Quiet
  PROVE  PoolInv'
<1>1. InFlight' \in SUBSET InFlight  BY DEF Quiet, InFlight, Unfinished
<1>2. Cardinality(InFlight') <= Cardinality(InFlight)
  BY <1>1, InFlightFinite, FS_Subset
<1>3. MaxActive \in Nat  BY DelegationAssumption
<1>4. Bounded'  BY <1>2, <1>3, InFlightFinite DEF PoolInv, Bounded
<1> QED  BY <1>4 DEF PoolInv, Quiet

\* The end of a task is quiet.
LEMMA EndIsQuiet ==
  ASSUME PoolInv, NEW t \in Task, NEW a, pc[t] # "queued", End(t, a)
  PROVE  Quiet
BY DEF PoolInv, End, Quiet, Unfinished

\* So is the beginning of an await.
LEMMA WaitIsQuiet ==
  ASSUME PoolInv, NEW t \in Task, BeginWait(t)
  PROVE  Quiet
BY DEF PoolInv, BeginWait, Quiet

\* The one step that starts something counted those in flight first.
LEMMA SpawnKeeps ==
  ASSUME PoolInv, NEW t \in Task, Spawn(t)
  PROVE  PoolInv'
<1> DEFINE c == Names[t][next[t]]
<1>1. CASE ~Admits(t, c)
  <2>1. Quiet  BY <1>1, EndIsQuiet DEF Spawn
  <2> QED  BY <2>1, QuietKeeps
<1>2. CASE Admits(t, c)
  <2>1. /\ record' = [record EXCEPT ![c] = "queued"]
        /\ pc' = [pc EXCEPT ![c] = "queued"]
    BY <1>2 DEF Spawn
  <2>2. InFlight' \in SUBSET (InFlight \cup {c})
    BY <2>1 DEF InFlight, PoolInv, Unfinished
  <2>3. Cardinality(InFlight) < MaxActive  BY <1>2 DEF Admits
  <2>4. /\ IsFiniteSet(InFlight \cup {c})
        /\ Cardinality(InFlight \cup {c}) <= Cardinality(InFlight) + 1
    BY InFlightFinite, FS_AddElement
  <2>5. Cardinality(InFlight \cup {c}) \in Nat  BY <2>4, FS_CardinalityType
  <2>6. Cardinality(InFlight') <= Cardinality(InFlight \cup {c})
    BY <2>2, <2>4, FS_Subset
  <2>7. MaxActive \in Nat  BY DelegationAssumption
  <2>8. Bounded'  BY <2>3, <2>4, <2>5, <2>6, <2>7, InFlightFinite DEF Bounded
  <2>9. /\ DOMAIN record' = Task /\ DOMAIN pc' = Task
        /\ \A x \in Task : pc'[x] = "queued" => record'[x] = "queued"
    BY <2>1 DEF PoolInv
  <2> QED  BY <2>8, <2>9 DEF PoolInv
<1> QED  BY <1>1, <1>2

\* Every step of a task keeps the bound.
LEMMA StepKeeps ==
  ASSUME PoolInv, NEW t \in Task, Step(t) \/ TimesOut(t)
  PROVE  PoolInv'
<1>1. CASE StartRoot(t)
  BY <1>1, QuietKeeps DEF StartRoot, Quiet, PoolInv
<1>2. CASE TakeChild(t)
  BY <1>2, QuietKeeps DEF TakeChild, Quiet, PoolInv, Unfinished
<1>3. CASE Ring(t) \/ Leave(t)
  BY <1>3, QuietKeeps DEF Ring, Leave, Quiet, PoolInv
<1>4. CASE Leaf(t)
  BY <1>4, QuietKeeps, EndIsQuiet DEF Leaf
<1>5. CASE Spawn(t)
  BY <1>5, SpawnKeeps
<1>6. CASE Spawned(t)
  BY <1>6, QuietKeeps, EndIsQuiet, WaitIsQuiet DEF Spawned
<1>7. CASE Await(t)
  BY <1>7, QuietKeeps, EndIsQuiet, WaitIsQuiet DEF Await
<1>8. CASE Turn(t)
  <2>1. CASE Awaited(t)
    BY <1>8, <2>1, QuietKeeps, EndIsQuiet DEF Turn, Awaited
  <2>2. CASE ~Awaited(t)
    BY <1>8, <2>2, QuietKeeps DEF Turn, Quiet, PoolInv
  <2> QED  BY <2>1, <2>2
<1>9. CASE Woken(t)
  BY <1>9, QuietKeeps DEF Woken, Quiet, PoolInv
<1>10. CASE TimesOut(t)
  BY <1>10, QuietKeeps, EndIsQuiet DEF TimesOut, Awaited
<1> QED
  BY <1>1, <1>2, <1>3, <1>4, <1>5, <1>6, <1>7, <1>8, <1>9, <1>10 DEF Step

\* A queued child is in flight and does not run: the bound leaves it room.
LEMMA BoundLeavesRoom ==
  ASSUME PoolInv
  PROVE  PoolHasRoom
<1> SUFFICES ASSUME NEW c \in Task, record[c] = "queued"
             PROVE  Cardinality({t \in Task : record[t] = "running"}) < MaxActive
  BY DEF PoolHasRoom
<1> DEFINE R == {t \in Task : record[t] = "running"}
<1>1. R \in SUBSET InFlight /\ c \in InFlight /\ c \notin R
  BY DEF InFlight, Unfinished
<1>2. IsFiniteSet(R) /\ Cardinality(R) <= Cardinality(InFlight)
  BY <1>1, InFlightFinite, FS_Subset
<1>3. Cardinality(R) # Cardinality(InFlight)
  BY <1>1, InFlightFinite, FS_Subset
<1>4. Cardinality(R) \in Nat /\ MaxActive \in Nat
  BY <1>2, FS_CardinalityType, DelegationAssumption
<1> HIDE DEF R
<1>5. Cardinality(R) < MaxActive
  BY <1>2, <1>3, <1>4, InFlightFinite DEF PoolInv, Bounded
<1> QED  BY <1>5 DEF R

-----------------------------------------------------------------------------
\* What holds of a run of a model between two steps.
LoopInv ==
  /\ halt \in {"none", "confirm_required", "blocked"}
  /\ driver = "ask" /\ phase = "tools" => halt = "none"
  /\ phase \in {"off", "route", "ask"} => answered = DOMAIN turn /\ halt = "none"
  /\ phase = "tools" => at \in 1 .. Len(turn) + 1 /\ answered = 1 .. at - 1
  /\ phase # "done" => stop = "none"
  /\ stop = "final" => halt = "none"
  /\ turn \in Seq(Call)

\* Each step of the loop keeps it.
LEMMA LoopKeeps ==
  ASSUME LoopInv, LlmNext
  PROVE  LoopInv'
<1>0. \A s \in Turns : s \in Seq(Call)  BY LlmAssumption
<1>1. CASE Start  BY <1>1 DEF LoopInv, Start
<1>2. CASE Route  BY <1>2 DEF LoopInv, Route, Stop
<1>3. CASE Retry  BY <1>3 DEF LoopInv, Retry
<1>4. CASE AskFails  BY <1>4 DEF LoopInv, AskFails, Stop
<1>5. CASE AskFinal  BY <1>5 DEF LoopInv, AskFinal, Stop
<1>6. ASSUME NEW s \in Turns, AskTools(s) PROVE LoopInv'
  <2>1. s \in Seq(Call) /\ Len(s) \in Nat  BY <1>0
  <2>2. 1 \in 1 .. Len(s) + 1 /\ {} = 1 .. 1 - 1  BY <2>1
  <2> QED  BY <1>6, <2>1, <2>2 DEF LoopInv, AskTools
<1>7. CASE Tool
  <2> DEFINE o == Outcome(turn[at])
  <2>1. Len(turn) \in Nat /\ at \in 1 .. Len(turn)  BY <1>7 DEF Tool, LoopInv
  <2>2. at + 1 \in 1 .. Len(turn) + 1 /\ answered \cup {at} = 1 .. (at + 1) - 1
    BY <1>7, <2>1 DEF Tool, LoopInv
  <2> HIDE DEF o
  <2>3. CASE driver = "ask" /\ o = "confirm_required"
    BY <1>7, <2>3 DEF Tool, LoopInv, Stop, o
  <2>4. CASE ~(driver = "ask" /\ o = "confirm_required")
    <3>1. /\ at' = at + 1 /\ answered' = answered \cup {at}
          /\ halt' = IF driver = "task" /\ halt = "none" /\ o \in {"blocked", "confirm_required"}
                       THEN o ELSE halt
          /\ UNCHANGED <<phase, stop, driver, turn>> /\ phase = "tools"
      BY <1>7, <2>4 DEF Tool, o
    <3> QED  BY <2>2, <3>1 DEF LoopInv
  <2> QED  BY <2>3, <2>4
<1>8. CASE EndTurn
  <2>1. Len(turn) \in Nat /\ at = Len(turn) + 1 /\ DOMAIN turn = 1 .. Len(turn)
    BY <1>8 DEF EndTurn, LoopInv
  <2>2. answered = DOMAIN turn  BY <1>8, <2>1 DEF EndTurn, LoopInv
  <2> QED  BY <1>8, <2>2 DEF EndTurn, LoopInv, Stop
<1>9. ASSUME NEW b \in Slot, HealthCheck(b) PROVE LoopInv'
  BY <1>9 DEF LoopInv, HealthCheck
<1> QED
  BY <1>1, <1>2, <1>3, <1>4, <1>5, <1>6, <1>7, <1>8, <1>9 DEF LlmNext, LlmStep

-----------------------------------------------------------------------------
\* What a stutter of one half leaves alone.
LEMMA PoolStutters ==
  ASSUME PoolInv, UNCHANGED <<record, pc>>
  PROVE  PoolInv'
BY QuietKeeps DEF PoolInv, Quiet

\* LoopInv speaks of the loop's variables only.
LEMMA LoopStutters ==
  ASSUME LoopInv, UNCHANGED llmVars
  PROVE  LoopInv'
BY DEF LoopInv, llmVars

\* Both hold at first, and every step of the composition keeps both.
LEMMA V3Inductive ==
  /\ V3Init => PoolInv /\ LoopInv
  /\ PoolInv /\ LoopInv /\ [V3Next]_allVars => PoolInv' /\ LoopInv'
<1>1. V3Init => PoolInv /\ LoopInv
  <2> SUFFICES ASSUME V3Init PROVE PoolInv /\ LoopInv  OBVIOUS
  <2>1. InFlight = {}  BY DEF V3Init, Init, InFlight, Unfinished
  <2>2. Cardinality(InFlight) = 0  BY <2>1, FS_EmptySet
  <2>3. Bounded  BY <2>2, DelegationAssumption DEF Bounded
  <2>4. DOMAIN record = Task /\ DOMAIN pc = Task
    BY DEF V3Init, Init
  <2>5. \A t \in Task : pc[t] # "queued"  BY DEF V3Init, Init
  <2>6. PoolInv  BY <2>3, <2>4, <2>5 DEF PoolInv
  <2>7. LoopInv  BY DEF V3Init, LlmInit, LoopInv
  <2> QED  BY <2>6, <2>7
<1>2. ASSUME PoolInv, LoopInv, [V3Next]_allVars PROVE PoolInv' /\ LoopInv'
  <2>1. CASE Next /\ UNCHANGED llmVars
    BY <1>2, <2>1, StepKeeps, LoopStutters DEF Next
  <2>2. CASE Ask /\ UNCHANGED vars
    <3>1. LlmNext  BY <2>2 DEF Ask, LlmNext
    <3>2. UNCHANGED <<record, pc>>  BY <2>2 DEF vars
    <3> QED  BY <1>2, <3>1, <3>2, LoopKeeps, PoolStutters
  <2>3. ASSUME NEW t \in Task, LlmBegins(t) PROVE PoolInv' /\ LoopInv'
    <3>1. LlmNext /\ UNCHANGED <<record, pc>>  BY <2>3 DEF LlmBegins, LlmNext, vars
    <3> QED  BY <1>2, <3>1, LoopKeeps, PoolStutters
  <2>4. ASSUME NEW t \in Task, LlmEnds(t) PROVE PoolInv' /\ LoopInv'
    <3>1. Quiet  BY <1>2, <2>4, EndIsQuiet DEF LlmEnds
    <3>2. UNCHANGED llmVars  BY <2>4 DEF LlmEnds
    <3> QED  BY <1>2, <3>1, <3>2, QuietKeeps, LoopStutters
  <2>5. CASE UNCHANGED allVars
    <3>1. UNCHANGED <<record, pc>> /\ UNCHANGED llmVars  BY <2>5 DEF allVars, vars
    <3> QED  BY <1>2, <3>1, PoolStutters, LoopStutters
  <2> QED  BY <1>2, <2>1, <2>2, <2>3, <2>4, <2>5 DEF V3Next
<1> QED  BY <1>1, <1>2

-----------------------------------------------------------------------------
(* Awaits blocked in threads of the pool never hold all of them while a    *)
(* child is queued: subtasks.py's pool has as many threads as spawn admits *)
(* children in flight.                                                     *)
THEOREM RoomForQueued == V3Spec => []PoolHasRoom
<1>1. PoolInv => PoolHasRoom  BY BoundLeavesRoom
<1> QED  BY <1>1, V3Inductive, PTL DEF V3Spec

(* A model is asked for another turn only with every tool call of the last *)
(* one answered, and never once a call of llm_task halted the run.         *)
THEOREM TranscriptIsComplete == V3Spec => []TranscriptComplete
<1>1. LoopInv => TranscriptComplete  BY DEF LoopInv, TranscriptComplete
<1> QED  BY <1>1, V3Inductive, PTL DEF V3Spec

-----------------------------------------------------------------------------
(* What a policy file that lint accepts promises of the decisions taken    *)
(* from it, for every set of patterns and whatever they match.             *)

\* policy_lint exits with 0 or 1 only for a file whose rules have no error,
\* and whose numbers leave the runner a place and the poller a pause.
LEMMA AcceptedIsClean ==
  ASSUME NEW shape \in BOOLEAN, NEW p \in PolicyFile, NEW s \in Setting,
         ExitCode(shape, p, s) # "error"
  PROVE  LintClean(p) /\ s.interval > 0 /\ s.concurrent > 0
<1>1. LintClean(p) /\ SettingsValid(s)
  BY DEF ExitCode
<1> QED
  BY <1>1 DEF SettingsValid, Setting

\* A rule that lint calls dead really is (block is checked first, and
\* require_confirm before auto_allow, policy_lint.py:278 and :291 against
\* policy.py:83-118): without them all, decide answers every request as
\* before.  Lint cannot know it: it is so where no two rules differ only in
\* case or separators, as decide tells them apart, and, for the rules on paths,
\* where a path that absolute_no_touch has as a root is one it matches
\* as a glob too.  D:\CLAUDE\** in both is an error to lint, "this entry never
\* applies", and yet d:\claude\x is not blocked and may be read.
THEOREM DeadRulesDecideNothing ==
  ASSUME NEW p \in PolicyFile, NEW r,
         \A q1, q2 \in p.block \cup p.noTouch \cup Granted(p) : Fold[q1] = Fold[q2] => q1 = q2,
         \A q \in p.noTouch : \A x \in r.paths : x \in Root[q] => x \in Glob[q]
  PROVE  Decide(WithoutDead(p), r) = Decide(p, r)
<1> DEFINE w == WithoutDead(p)
<1>1. /\ w.block = p.block /\ w.noTouch = p.noTouch
      /\ w.auto = p.auto \ DeadAuto(p) /\ w.confirm = p.confirm \ DeadConfirm(p)
      /\ w.read = p.read \ DeadPaths(p) /\ w.write = p.write \ DeadPaths(p)
  BY DEF WithoutDead, PolicyFile
<1>2. /\ DeadAuto(p) \subseteq p.block \cup p.confirm
      /\ DeadConfirm(p) \subseteq p.block
      /\ DeadPaths(p) \subseteq p.noTouch
  BY DEF DeadAuto, DeadConfirm, DeadPaths, Shadowed, Folded, Granted
<1>3. Blocked(w, r) <=> Blocked(p, r)
  BY <1>1 DEF Blocked
<1>4. CASE Blocked(p, r)
  BY <1>3, <1>4 DEF Decide
<1>5. CASE ~Blocked(p, r)
  <2>1. ~Hit(Glob, p.block, r.command)
    BY <1>5 DEF Blocked
  <2>2. \A q \in DeadPaths(p) : \A x \in r.paths : x \notin Root[q]
    BY <1>2, <1>5 DEF Blocked, Hit
  <2>3. Hit(Glob, w.confirm, r.command) <=> Hit(Glob, p.confirm, r.command)
    BY <1>1, <1>2, <2>1 DEF Hit
  <2>4. \A x \in r.paths : /\ Hit(Root, w.write, x) <=> Hit(Root, p.write, x)
                           /\ Hit(Root, w.read, x) <=> Hit(Root, p.read, x)
    BY <1>1, <2>2 DEF Hit
  <2>5. NeedsConfirm(w, r) <=> NeedsConfirm(p, r)
    BY <2>3, <2>4 DEF NeedsConfirm
  <2>6. CASE NeedsConfirm(p, r)
    BY <1>3, <1>5, <2>5, <2>6 DEF Decide
  <2>7. CASE ~NeedsConfirm(p, r)
    <3>1. ~Hit(Glob, p.confirm, r.command)
      BY <2>7 DEF NeedsConfirm
    <3>2. Hit(Glob, w.auto, r.command) <=> Hit(Glob, p.auto, r.command)
      BY <1>1, <1>2, <2>1, <3>1 DEF Hit
    <3>3. Allowed(w, r) <=> Allowed(p, r)
      BY <2>4, <3>2 DEF Allowed
    <3> QED
      BY <1>3, <2>5, <3>3 DEF Decide
  <2> QED
    BY <2>6, <2>7
<1> QED
  BY <1>4, <1>5

\* Under a policy file lint exits 0 or 1 for, a destructive command that
\* names no read verb runs, through any executor and in any kind that is
\* asked about, only after somebody said yes: the executors never take it for
\* allowed.  ("a policy that auto-allows any of these is a policy that can
\* destroy the host without asking", policy_lint.py:60-61.)  Lint looks at the
\* folded pattern and decide at the pattern: the last assumption is that
\* folding loses none of these commands, all in lower case; only a character
\* class such as [!R] does.
THEOREM DestructiveIsAsked ==
  ASSUME NEW shape \in BOOLEAN, NEW p \in PolicyFile, NEW s \in Setting, NEW r,
         ExitCode(shape, p, s) # "error",
         r.command \in Destructive, r.verb \notin ReadVerbs,
         r.kind \notin Ungated \cup Container \cup {"read_file", "list_dir"},
         \A q \in p.auto : r.command \in Glob[q] => r.command \in Glob[Fold[q]]
  PROVE  Gate(p, r) # "auto"
<1>1. ~AllowsDestructive(p)
  BY AcceptedIsClean DEF LintClean
<1>2. ~Hit(Glob, p.auto, r.command)
  BY <1>1 DEF AllowsDestructive, Folded, Hit
<1>3. ~Allowed(p, r)
  BY <1>2 DEF Allowed
<1>4. Decide(p, r) # "auto"
  BY <1>3 DEF Decide
<1> QED
  BY <1>4 DEF Gate

\* A policy file lint exits 0 for has, for each protected pattern (other than
\* those lint does not miss), a spelling of it such that every request with a
\* path this spelling matches is refused.  More is not so: lint finds
\* /etc/** in /ETC/** (policy_lint.py:332-334), and then decide does not refuse
\* /etc/passwd (policy.py:91).
THEOREM SystemPathIsBlocked ==
  ASSUME NEW shape \in BOOLEAN, NEW p \in PolicyFile, NEW s \in Setting,
         ExitCode(shape, p, s) = "ok",
         NEW q \in Protected \ Unlisted
  PROVE  \E spelling \in Pattern :
           /\ Fold[spelling] = q
           /\ \A r : r.paths \cap Glob[spelling] # {} => Decide(p, r) = "block"
<1>1. LintSilent(p)
  BY DEF ExitCode
<1>2. q \in Folded(p.noTouch)
  BY <1>1 DEF LintSilent, Unprotected
<1>3. PICK spelling \in p.noTouch : Fold[spelling] = q
  BY <1>2 DEF Folded
<1>4. spelling \in Pattern
  BY <1>3 DEF PolicyFile
<1>5. ASSUME NEW r, r.paths \cap Glob[spelling] # {}
      PROVE  Decide(p, r) = "block"
  <2>1. Blocked(p, r)
    BY <1>3, <1>5 DEF Blocked, Hit
  <2> QED
    BY <2>1 DEF Decide
<1> QED
  BY <1>3, <1>4, <1>5
=============================================================================
