------------------------------- MODULE LlmLoop -------------------------------
(***************************************************************************)
(* The two loops that let a model drive the executor: LlmTaskRunner        *)
(* (agent/llm_task.py, the kind llm_task) and LlmDrivenLoop                *)
(* (agent/llm_loop.py, `iddo-harness ask`), which gets its backend from    *)
(* agent/llm_router.py and retries as agent/llm_client.py does.            *)
(*                                                                         *)
(* A turn of the model is a sequence of tool calls; what a call comes to   *)
(* is what the policy's gate decides.                                      *)
(***************************************************************************)
EXTENDS Policy, Sequences

CONSTANTS
  Call,        \* tool calls
  Request,     \* what each asks of the executor: [kind, command, verb, paths]
  Offered,     \* those of an offered tool with arguments that parse
  Turns,       \* bound: the turns a model may take
  Files,       \* the policy files to try
  MaxIterations,
  MaxRetries   \* max_retries of the client

ASSUME LlmAssumption ==
  /\ Offered \subseteq Call /\ Turns \subseteq Seq(Call) \ {<<>>}
  /\ Files \subseteq PolicyFile
  /\ MaxIterations \in Nat \ {0} /\ MaxRetries \in Nat \ {0}

VARIABLES
  driver,     \* "task" for LlmTaskRunner, "ask" for LlmDrivenLoop
  phase,      \* "off", "route", "ask", "tools", or "done"
  iteration,
  turn,       \* the tool calls of the model's last turn
  at,         \* the next of them to run
  answered,   \* those with a tool message in the transcript
  halt,       \* the first decision that stops the run, "none" before
  stop,       \* why the run ended
  policy,
  healthy,    \* _health: what the last check of each backend slot found
  client,     \* the slot route returned
  tries       \* connection errors of this request

llmVars == <<driver, phase, iteration, turn, at, answered, halt, stop, policy,
             healthy, client, tries>>

Slot == {"primary", "secondary"}

LlmTypeOK ==
  /\ driver \in {"task", "ask"}
  /\ phase \in {"off", "route", "ask", "tools", "done"}
  /\ iteration \in 0 .. MaxIterations
  /\ turn \in Seq(Call) /\ at \in 1 .. Len(turn) + 1 /\ answered \subseteq DOMAIN turn
  /\ halt \in {"none", "confirm_required", "blocked"}
  /\ stop \in {"none", "final", "max_iterations", "confirm_required", "blocked",
               "provider_error", "no_backend"}
  /\ policy \in Files
  /\ healthy \in [Slot -> BOOLEAN] /\ client \in Slot \cup {"none"}
  /\ tries \in 0 .. MaxRetries

LlmInit ==
  /\ driver \in {"task", "ask"} /\ phase = "off" /\ iteration = 0
  /\ turn = <<>> /\ at = 1 /\ answered = {}
  /\ halt = "none" /\ stop = "none" /\ policy \in Files
  /\ healthy = [b \in Slot |-> TRUE] /\ client = "none" /\ tries = 0

Stop(why) ==
  phase' = "done" /\ stop' = why

\* run begins; LlmDrivenLoop asks the router first.
Start ==
  /\ phase = "off"
  /\ phase' = IF driver = "ask" THEN "route" ELSE "ask"
  /\ UNCHANGED <<driver, iteration, turn, at, answered, halt, stop, policy,
                 healthy, client, tries>>

\* check_all_once, by the router's thread: one slot after the other.
HealthCheck(b) ==
  /\ driver = "ask" /\ phase \in {"off", "route", "ask"}
  /\ healthy' = [healthy EXCEPT ![b] = ~@]
  /\ UNCHANGED <<driver, phase, iteration, turn, at, answered, halt, stop,
                 policy, client, tries>>

\* route: the primary unless its last check failed, then the secondary.
Route ==
  /\ phase = "route"
  /\ IF healthy["primary"] \/ healthy["secondary"]
       THEN /\ client' = IF healthy["primary"] THEN "primary" ELSE "secondary"
            /\ phase' = "ask" /\ UNCHANGED stop
       ELSE Stop("no_backend") /\ UNCHANGED client
  /\ UNCHANGED <<driver, iteration, turn, at, answered, halt, policy, healthy, tries>>

\* LlmDrivenLoop's client tries a connection that fails max_retries times.
Retry ==
  /\ phase = "ask" /\ driver = "ask" /\ iteration < MaxIterations
  /\ tries + 1 < MaxRetries /\ tries' = tries + 1
  /\ UNCHANGED <<driver, phase, iteration, turn, at, answered, halt, stop,
                 policy, healthy, client>>

\* The provider fails, the last try too or with an answer that is an error.
AskFails ==
  /\ phase = "ask" /\ iteration < MaxIterations
  /\ iteration' = iteration + 1 /\ Stop("provider_error")
  /\ UNCHANGED <<driver, turn, at, answered, halt, policy, healthy, client, tries>>

\* It answers without tool calls ...
AskFinal ==
  /\ phase = "ask" /\ iteration < MaxIterations
  /\ iteration' = iteration + 1 /\ Stop("final") /\ tries' = 0
  /\ UNCHANGED <<driver, turn, at, answered, halt, policy, healthy, client>>

\* ... or with some.
AskTools(t) ==
  /\ phase = "ask" /\ iteration < MaxIterations
  /\ iteration' = iteration + 1 /\ phase' = "tools" /\ tries' = 0
  /\ turn' = t /\ at' = 1 /\ answered' = {}
  /\ UNCHANGED <<driver, halt, stop, policy, healthy, client>>

\* What becomes of a tool call: not offered or not understood, or what the
\* gate decides; a call that runs may still fail.
Outcome(c) ==
  IF c \notin Offered THEN "refused"
  ELSE CASE Gate(policy, Request[c]) = "block" -> "blocked"
         [] Gate(policy, Request[c]) = "confirm" -> "confirm_required"
         [] OTHER -> "ran"

\* Wrong llm_loop: a call that is not understood gets no tool message.
ToolUnanswered ==
  LET o == Outcome(turn[at]) IN
  /\ phase = "tools" /\ at <= Len(turn)
  /\ at' = at + 1
  /\ answered' = IF o = "refused" THEN answered ELSE answered \cup {at}
  /\ halt' = IF halt = "none" /\ o \in {"blocked", "confirm_required"} THEN o ELSE halt
  /\ UNCHANGED <<driver, phase, iteration, turn, stop, policy, healthy, client, tries>>

\* LlmTaskRunner notes the first call that halts, and goes on with the others
\* of the turn; LlmDrivenLoop stops at one that needs a confirmation, and
\* tells the model of one that is blocked.
Tool ==
  LET o == Outcome(turn[at]) IN
  /\ phase = "tools" /\ at <= Len(turn)
  /\ IF driver = "ask" /\ o = "confirm_required"
       THEN Stop(o) /\ halt' = o /\ UNCHANGED <<at, answered>>
       ELSE /\ at' = at + 1 /\ answered' = answered \cup {at}
            /\ halt' = IF driver = "task" /\ halt = "none" /\ o \in {"blocked", "confirm_required"}
                         THEN o ELSE halt
            /\ UNCHANGED <<phase, stop>>
  /\ UNCHANGED <<driver, iteration, turn, policy, healthy, client, tries>>

EndTurn ==
  /\ phase = "tools" /\ at > Len(turn)
  /\ IF halt # "none" THEN Stop(halt)
     ELSE IF iteration = MaxIterations THEN Stop("max_iterations")
     ELSE phase' = "ask" /\ UNCHANGED stop
  /\ UNCHANGED <<driver, iteration, turn, at, answered, halt, policy, healthy, client, tries>>

LlmStep ==
  \/ Route \/ Retry \/ AskFails \/ AskFinal \/ Tool \/ EndTurn
  \/ \E t \in Turns : AskTools(t)

LlmNext == Start \/ LlmStep \/ \E b \in Slot : HealthCheck(b)

LlmSpec == LlmInit /\ [][LlmNext]_llmVars

-----------------------------------------------------------------------------
(* The model is only asked for another turn with a transcript a backend     *)
(* accepts, every tool call of its last turn answered, and never after a    *)
(* call of llm_task was blocked or is waiting for the owner; a run that is  *)
(* final has nothing waiting (llm_task.py:19).                              *)
TranscriptComplete ==
  /\ phase = "ask" => answered = DOMAIN turn /\ halt = "none"
  /\ stop = "final" => halt = "none"
=============================================================================
