------------------------------- MODULE Confirm -------------------------------
(***************************************************************************)
(* agent/confirm.py and agent/approval.py: tasks the policy wants a human  *)
(* for are parked as files, answered by files, and picked up by the scan   *)
(* main.py makes on every cycle (poller.scan_pending).                     *)
(*                                                                         *)
(* Four parties touch the files and share no lock: workers that park a     *)
(* task, the main thread that scans, the CLI on this machine, and a human  *)
(* elsewhere whose answer arrives with a git pull.                         *)
(***************************************************************************)
EXTENDS Naturals

CONSTANTS
  Task,
  Polled,      \* tasks that come from a packet file: it stays in tasks/ under
               \* a failed- name and is fetched, hence parked, again and again
  Says,        \* bound: the answers <<id, verdict>> humans may give
  Timeout,     \* approval.timeout_seconds, in clock ticks
  MaxMishaps,  \* bound: how often a scan is cut short or a file call fails
  NoTask

ASSUME ConfirmAssumption ==
  /\ Polled \subseteq Task
  /\ Says \subseteq Task \X {"approved", "denied"}
  /\ Timeout \in Nat \ {0}
  /\ MaxMishaps \in Nat
  /\ NoTask \notin Task

Verdict == {"approved", "denied"}

VARIABLES
  parked,     \* ids of the pending-confirm files of the local queue
  torn,       \* those whose file holds no JSON: its write was cut short
  age,        \* time since created_ts of each, saturating at Timeout
  local,      \* response files <<id, verdict>> of the local queue
  bridge,     \* those of the working copy of the bridge repository
  pushed,     \* those a human elsewhere pushed and we have not pulled
  scan,       \* where scan_pending is
  todo,       \* what its loop over the glob still has to visit
  denying,    \* the id sweep_timeouts found unanswered and is about to deny
  resolved,   \* <<id, verdict>> collected, not yet resumed
  mishaps,
  asked,      \* history: ids parked at least once
  said,       \* history: the answers <<id, verdict>> humans gave
  ran         \* history: ids executed after a confirmation

queueVars == <<parked, torn, age>>
answerVars == <<local, bridge, pushed>>
scanVars == <<scan, todo, denying, resolved>>
historyVars == <<asked, said, ran>>
vars == <<queueVars, answerVars, scanVars, mishaps, historyVars>>

TypeOK ==
  /\ torn \subseteq parked /\ parked \subseteq Task
  /\ age \in [Task -> 0..Timeout]
  /\ local \subseteq Task \X Verdict
  /\ bridge \subseteq Task \X Verdict
  /\ pushed \subseteq Task \X Verdict
  /\ scan \in {"idle", "sweep", "collect", "resume"}
  /\ todo \subseteq parked
  /\ denying \in Task \cup {NoTask}
  /\ resolved \subseteq Task \X Verdict
  /\ mishaps \in 0..MaxMishaps
  /\ asked \subseteq Task /\ said \subseteq Task \X Verdict
  /\ ran \subseteq Task

Init ==
  /\ parked = {} /\ torn = {}
  /\ age = [t \in Task |-> 0]
  /\ local = {} /\ bridge = {} /\ pushed = {}
  /\ scan = "idle" /\ todo = {} /\ denying = NoTask /\ resolved = {}
  /\ mishaps = 0
  /\ asked = {} /\ said = {} /\ ran = {}

-----------------------------------------------------------------------------
(* Workers, humans and time *)

Mishap == mishaps < MaxMishaps /\ mishaps' = mishaps + 1

\* create: a worker's executor parks the task.  Doing so again overwrites the
\* file, and created_ts with it.  A full disk or a kill leaves half a file.
create(t) ==
  /\ t \in Polled \/ t \notin asked
  /\ parked' = parked \cup {t}
  /\ age' = [age EXCEPT ![t] = 0]
  /\ asked' = asked \cup {t}
  /\ \/ torn' = torn \ {t} /\ UNCHANGED mishaps
     \/ Mishap /\ torn' = torn \cup {t}
  /\ UNCHANGED <<answerVars, scanVars, said, ran>>

\* respond, from the CLI on this machine: it asks for no pending file.
respond(t, v) ==
  /\ <<t, v>> \in Says
  /\ local' = local \cup {<<t, v>>}
  /\ bridge' = bridge \cup {<<t, v>>}
  /\ said' = said \cup {<<t, v>>}
  /\ UNCHANGED <<queueVars, pushed, scanVars, mishaps, asked, ran>>

\* respond, from another machine that shares the bridge repository.
RespondElsewhere(t, v) ==
  /\ <<t, v>> \in Says
  /\ pushed' = pushed \cup {<<t, v>>}
  /\ said' = said \cup {<<t, v>>}
  /\ UNCHANGED <<queueVars, local, bridge, scanVars, mishaps, asked, ran>>

Tick ==
  /\ \E t \in parked : age[t] < Timeout
  /\ age' = [t \in Task |-> IF t \in parked /\ age[t] < Timeout
                            THEN age[t] + 1 ELSE age[t]]
  /\ UNCHANGED <<parked, torn, answerVars, scanVars, mishaps, historyVars>>

-----------------------------------------------------------------------------
(* scan_pending *)

Sync ==
  /\ scan = "idle"
  /\ scan' = "sweep"
  /\ bridge' = bridge \cup pushed
  /\ todo' = parked
  /\ UNCHANGED <<queueVars, local, pushed, denying, resolved, mishaps, historyVars>>

\* _has_response looks at the local queue only.
HasResponse(t) == \E v \in Verdict : <<t, v>> \in local

\* sweep_timeouts, up to its decision about one file; one it cannot read is
\* passed over, in this sweep and in each.
SweepOne(t) ==
  /\ scan = "sweep" /\ denying = NoTask
  /\ t \in todo
  /\ IF HasResponse(t) \/ t \in torn \/ age[t] < Timeout
     THEN todo' = todo \ {t} /\ UNCHANGED denying
     ELSE denying' = t /\ UNCHANGED todo
  /\ UNCHANGED <<queueVars, answerVars, scan, resolved, mishaps, historyVars>>

\* respond(approve=False) for the file found stale a moment ago.
AutoDeny ==
  /\ scan = "sweep" /\ denying # NoTask
  /\ local' = local \cup {<<denying, "denied">>}
  /\ bridge' = bridge \cup {<<denying, "denied">>}
  /\ todo' = todo \ {denying}
  /\ denying' = NoTask
  /\ UNCHANGED <<queueVars, pushed, scan, resolved, mishaps, asked, said, ran>>

StartCollect ==
  /\ scan = "sweep" /\ todo = {}
  /\ scan' = "collect"
  /\ todo' = parked
  /\ UNCHANGED <<queueVars, answerVars, denying, resolved, mishaps, historyVars>>

\* A wrong check_response: the absence of a denial is enough.
check_no_denial(t) ==
  IF \E dir \in {local, bridge} : <<t, "denied">> \in dir THEN {"denied"} ELSE {"approved"}

\* check_response: the local queue before the bridge, approved before denied.
check_response(t) ==
  LET found(dir) == {v \in Verdict : <<t, v>> \in dir}
      first(vs) == IF "approved" \in vs THEN {"approved"} ELSE vs
  IN  IF found(local) # {} THEN first(found(local)) ELSE first(found(bridge))

\* Wrong collections: the file of a denied request stays; the response is
\* removed with the request.
CollectOneApproved(t) ==
  /\ scan = "collect"
  /\ t \in todo
  /\ todo' = todo \ {t}
  /\ resolved' = resolved \cup ({t} \X check_response(t))
  /\ parked' = IF check_response(t) = {"approved"} THEN parked \ {t} ELSE parked
  /\ torn' = torn \cap parked'
  /\ UNCHANGED <<age, answerVars, scan, denying, mishaps, historyVars>>
CollectOneAndResponse(t) ==
  /\ scan = "collect"
  /\ t \in todo
  /\ todo' = todo \ {t}
  /\ resolved' = resolved \cup ({t} \X check_response(t))
  /\ parked' = IF check_response(t) = {} THEN parked ELSE parked \ {t}
  /\ torn' = torn \cap parked'
  /\ local' = local \ ({t} \X Verdict) /\ bridge' = bridge \ ({t} \X Verdict)
  /\ UNCHANGED <<age, pushed, scan, denying, mishaps, historyVars>>

\* One file of the glob: left for the next scan when there is no answer or it
\* cannot be read, removed otherwise.  A removal that fails is passed over.
CollectOne(t) ==
  /\ scan = "collect"
  /\ t \in todo
  /\ todo' = todo \ {t}
  /\ \/ /\ check_response(t) = {} \/ t \in torn
        /\ UNCHANGED <<parked, resolved, mishaps>>
     \/ /\ check_response(t) # {} /\ t \notin torn
        /\ resolved' = resolved \cup ({t} \X check_response(t))
        /\ \/ parked' = parked \ {t} /\ UNCHANGED mishaps
           \/ Mishap /\ UNCHANGED parked
  /\ UNCHANGED <<torn, age, answerVars, scan, denying, historyVars>>

StartResume ==
  /\ scan = "collect" /\ todo = {}
  /\ scan' = "resume"
  /\ UNCHANGED <<queueVars, answerVars, todo, denying, resolved, mishaps, historyVars>>

\* resume_after_confirm, then reporter.send; nothing removes the response.
ResumeOne(r) ==
  /\ scan = "resume"
  /\ r \in resolved
  /\ resolved' = resolved \ {r}
  /\ ran' = IF r[2] = "approved" THEN ran \cup {r[1]} ELSE ran
  /\ UNCHANGED <<queueVars, answerVars, scan, todo, denying, mishaps,
                 asked, said>>

EndScan ==
  /\ scan = "resume" /\ resolved = {}
  /\ scan' = "idle"
  /\ UNCHANGED <<queueVars, answerVars, todo, denying, resolved, mishaps, historyVars>>

\* A file or reporter error leaves the scan (main.py logs it), or the process
\* dies: what was collected and not yet resumed is gone.
Abort ==
  /\ Mishap /\ scan # "idle"
  /\ scan' = "idle" /\ todo' = {} /\ denying' = NoTask /\ resolved' = {}
  /\ UNCHANGED <<queueVars, answerVars, historyVars>>

-----------------------------------------------------------------------------
Scan ==
  \/ Sync
  \/ \E t \in Task : SweepOne(t)
  \/ AutoDeny
  \/ StartCollect
  \/ \E t \in Task : CollectOne(t)
  \/ StartResume
  \/ \E r \in Task \X Verdict : ResumeOne(r)
  \/ EndScan

Next ==
  \/ \E t \in Task : create(t)
  \/ \E t \in Task, v \in Verdict : respond(t, v) \/ RespondElsewhere(t, v)
  \/ Tick
  \/ Scan
  \/ Abort

Spec == Init /\ [][Next]_vars

\* main.py scans on every cycle, time passes, and the packet of a polled task
\* is fetched again on every cycle, in which case the policy parks it again.
Fairness ==
  /\ WF_vars(Scan) /\ WF_vars(Tick)
  /\ \A t \in Polled : WF_vars(create(t))

FairSpec == Spec /\ Fairness

-----------------------------------------------------------------------------
\* Nothing that needs a confirmation runs unless some human approved that id:
\* timeouts, stale files, races and aborted scans never add up to a yes.
RunsOnlyWithConsent == \A t \in ran : <<t, "approved">> \in said

\* A request whose packet comes back and that was answered yes on this machine,
\* with no denial on file by then, is executed unless a human denies it too: the
\* timeout's denial may land next to the answer, and a scan may be cut short
\* after it collected the request, which is then parked again.  It says nothing
\* of an approval that finds the timeout's denial on file: the code acts on it,
\* approval.py:289 says that it must not.
ApprovalHonoured ==
  \A t \in Polled :
    /\ t \in parked /\ <<t, "approved">> \in local
    /\ <<t, "denied">> \notin local \cup bridge
    ~> t \in ran \/ <<t, "denied">> \in said

\* A request asked once, whose file can be read, is closed at its timeout at the
\* latest, aborted scans and failed removals or not.  Not so one that is parked
\* again on every cycle, which restarts its timeout (confirm.py:118).
UnansweredIsDenied ==
  \A t \in Task \ Polled : t \in parked \ torn ~> t \notin parked

=============================================================================
