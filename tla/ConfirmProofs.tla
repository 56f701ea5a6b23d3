---------------------------- MODULE ConfirmProofs ----------------------------
(* Proofs about Confirm, for any number of requests, answers and aborts. *)
EXTENDS Confirm, TLAPS

\* Every approval on file, in transit or collected goes back to a human.
Consent ==
  /\ \A t \in Task, dir \in {local, bridge, pushed, resolved} :
       <<t, "approved">> \in dir => <<t, "approved">> \in said
  /\ \A t \in ran : <<t, "approved">> \in said

\* Every step keeps the types.
LEMMA TypingStep == TypeOK /\ [Next]_vars => TypeOK'
  <1> SUFFICES ASSUME TypeOK, [Next]_vars PROVE TypeOK'
    OBVIOUS
  <1> USE ConfirmAssumption
          DEF TypeOK, queueVars, answerVars, scanVars, historyVars, Verdict, Mishap
  <1>1. ASSUME NEW t \in Task, create(t) PROVE TypeOK'
    BY <1>1 DEF create
  <1>2. ASSUME NEW t \in Task, NEW v \in Verdict,
               respond(t, v) \/ RespondElsewhere(t, v)
        PROVE  TypeOK'
    BY <1>2 DEF respond, RespondElsewhere
  <1>3. CASE Tick
    BY <1>3 DEF Tick
  <1>4. CASE Sync
    BY <1>4 DEF Sync
  <1>5. ASSUME NEW t \in Task, SweepOne(t) PROVE TypeOK'
    BY <1>5 DEF SweepOne
  <1>6. CASE AutoDeny
    BY <1>6 DEF AutoDeny
  <1>7. CASE StartCollect \/ StartResume \/ EndScan
    BY <1>7 DEF StartCollect, StartResume, EndScan
  <1>8. ASSUME NEW t \in Task, CollectOne(t) PROVE TypeOK'
    <2>1. check_response(t) \subseteq Verdict
      BY DEF check_response
    <2>2. QED
      BY <1>8, <2>1 DEF CollectOne
  <1>9. ASSUME NEW r \in Task \X Verdict, ResumeOne(r) PROVE TypeOK'
    BY <1>9 DEF ResumeOne
  <1>10. CASE Abort
    BY <1>10 DEF Abort
  <1>11. CASE UNCHANGED vars
    BY <1>11 DEF vars
  <1>12. QED
    BY <1>1, <1>2, <1>3, <1>4, <1>5, <1>6, <1>7, <1>8, <1>9, <1>10, <1>11
    DEF Next, Scan

\* An approval is only ever made by a human, or copied from one that was.
LEMMA ConsentStep == TypeOK /\ Consent /\ [Next]_vars => Consent'
  <1> SUFFICES ASSUME TypeOK, Consent, [Next]_vars PROVE Consent'
    OBVIOUS
  <1> USE DEF Consent, queueVars, answerVars, scanVars, historyVars, Mishap
  <1>1. ASSUME NEW t \in Task, create(t) PROVE Consent'
    BY <1>1 DEF create
  <1>2. ASSUME NEW t \in Task, NEW v \in Verdict,
               respond(t, v) \/ RespondElsewhere(t, v)
        PROVE  Consent'
    BY <1>2 DEF respond, RespondElsewhere
  <1>3. CASE Tick \/ Sync \/ StartCollect \/ StartResume \/ EndScan \/ Abort
    BY <1>3 DEF Tick, Sync, StartCollect, StartResume, EndScan, Abort
  <1>4. ASSUME NEW t \in Task, SweepOne(t) PROVE Consent'
    BY <1>4 DEF SweepOne
  <1>5. CASE AutoDeny
    BY <1>5 DEF AutoDeny
  <1>6. ASSUME NEW t \in Task, CollectOne(t) PROVE Consent'
    <2>1. "approved" \in check_response(t) =>
            <<t, "approved">> \in local \cup bridge
      BY DEF check_response
    <2>2. QED
      BY <1>6, <2>1 DEF CollectOne
  <1>7. ASSUME NEW r \in Task \X Verdict, ResumeOne(r) PROVE Consent'
    BY <1>7 DEF ResumeOne
  <1>8. CASE UNCHANGED vars
    BY <1>8 DEF vars
  <1>9. QED
    BY <1>1, <1>2, <1>3, <1>4, <1>5, <1>6, <1>7, <1>8 DEF Next, Scan

\* Whatever the timing of workers, humans, timeouts and aborted scans, a task
\* that needs a confirmation runs only after some human approved its id.
THEOREM ConsentedRuns == Spec => []RunsOnlyWithConsent
  <1>1. Init => TypeOK /\ Consent
    BY ConfirmAssumption DEF Init, TypeOK, Consent
  <1>2. Consent => RunsOnlyWithConsent
    BY DEF Consent, RunsOnlyWithConsent
  <1>3. QED
    BY <1>1, <1>2, TypingStep, ConsentStep, PTL DEF Spec
=============================================================================
