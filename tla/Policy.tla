------------------------------- MODULE Policy --------------------------------
(***************************************************************************)
(* agent/policy.py: what the policy file decides about a request, the gate *)
(* the executors put in front of each kind, and what                       *)
(* installer/policy_lint.py says of a policy file.                         *)
(*                                                                         *)
(* A pattern is what the file says, and matches as a glob, case and all,   *)
(* or, where decide uses _path_matches, as a root: that also matches the   *)
(* directory itself and goes by neither case nor separators.  Lint never   *)
(* looks at the pattern itself but at its folded form, so two patterns can *)
(* be one to lint and two to decide.  A section holds a pattern once.      *)
(***************************************************************************)
EXTENDS Integers, FiniteSets

CONSTANTS
  Pattern,
  Glob,         \* the commands and paths fnmatch finds each pattern to match
  Root,         \* the paths _path_matches finds it to match
  Fold,         \* the pattern in lower case, with its separators unified
  Malformed,    \* patterns that are empty, or compile to nothing
  Overbroad,    \* OVERBROAD_PATTERNS
  Protected,    \* PROTECTED_PATHS, folded
  Unlisted,     \* those of them lint does not miss: /sys, /proc, /dev
  Destructive,  \* DESTRUCTIVE_COMMANDS
  Recommended   \* RECOMMENDED_BLOCK_COMMANDS

PolicyFile == [block : SUBSET Pattern, noTouch : SUBSET Pattern,
               confirm : SUBSET Pattern, write : SUBSET Pattern,
               auto : SUBSET Pattern, read : SUBSET Pattern]

ReadVerbs == {"cat", "type", "head", "tail", "read", "read_chunk", "list", "ls",
              "dir", "grep", "glob", "watch_start", "watch_poll"}
WriteVerbs == {"write", "patch", "rm", "del", "mv", "move", "cp", "copy"}

Hit(matching, patterns, x) == \E q \in patterns : x \in matching[q]

Blocked(p, r) ==
  \/ Hit(Glob, p.block, r.command)
  \/ \E x \in r.paths : Hit(Glob, p.noTouch, x)

NeedsConfirm(p, r) ==
  \/ Hit(Glob, p.confirm, r.command)
  \/ r.verb \in WriteVerbs /\ \E x \in r.paths : Hit(Root, p.write, x)

Allowed(p, r) ==
  \/ Hit(Glob, p.auto, r.command)
  \/ r.verb \in ReadVerbs /\ r.paths # {} /\ \A x \in r.paths : Hit(Root, p.read, x)

\* decide: the first that applies, and a confirmation when none does.
Decide(p, r) ==
  IF Blocked(p, r) THEN "block"
  ELSE IF Allowed(p, r) /\ ~NeedsConfirm(p, r) THEN "auto" ELSE "confirm"

\* What the executors make of it: kinds that read the harness's own records
\* and containers are not asked about, a v1 read is only ever blocked.
Ungated == {"memory_get", "memory_list", "handshake", "template_list", "schedule_list", "await_tasks"}
Container == {"workflow", "spawn_task", "run_template", "llm_task"}

Gate(p, r) ==
  IF r.kind \in Ungated \cup Container \/
       (r.kind \in {"read_file", "list_dir"} /\ ~Blocked(p, r))
    THEN "auto" ELSE Decide(p, r)

-----------------------------------------------------------------------------
(* policy_lint *)

\* _normalise, over the patterns of a section.
Folded(patterns) == {Fold[q] : q \in patterns}

\* _check_contradictions: the patterns of one list that another has as well,
\* and those of a list that it has twice, as far as lint can tell.
Shadowed(patterns, others) == {q \in patterns : Fold[q] \in Folded(others)}
Doubled(patterns) == {q \in patterns : Fold[q] \in Folded(patterns \ {q})}

\* Rules of which lint says that they never apply: block is checked first, and
\* require_confirm before auto_allow; a blocked path outranks every path rule.
DeadAuto(p) == Shadowed(p.auto, p.block \cup p.confirm)
DeadConfirm(p) == Shadowed(p.confirm, p.block)
DeadPaths(p) == Shadowed(p.read \cup p.write, p.noTouch)
WithoutDead(p) == [p EXCEPT !.auto = @ \ DeadAuto(p), !.confirm = @ \ DeadConfirm(p),
                            !.read = @ \ DeadPaths(p), !.write = @ \ DeadPaths(p)]

\* _check_dangerous.
Granted(p) == p.auto \cup p.confirm \cup p.read \cup p.write
ReachableSystem(p) == Protected \cap Folded(Granted(p))
AllowsDestructive(p) == \E c \in Destructive : Hit(Glob, Folded(p.auto \cup p.read), c)
Unprotected(p) == Protected \ (Folded(p.noTouch) \cup Unlisted)

\* _check_block_list
Unblocked(p) == {c \in Recommended : ~Hit(Glob, Folded(p.block), c)}

\* _check_settings, over the numbers and names a file gives.
Setting == [interval : Int, concurrent : Int, timeout : Int,
            mode : {"local", "notification", "remote", "other"},
            levels : SUBSET {"none", "light", "strict", "other"}, loopback : BOOLEAN]

SettingsValid(s) ==
  /\ s.interval > 0 /\ s.concurrent >= 1 /\ s.timeout > 0
  /\ s.mode # "other" /\ "other" \notin s.levels

\* The rules have no finding of severity error ...
LintClean(p) ==
  /\ (Granted(p) \cup p.block \cup p.noTouch) \cap Malformed = {}
  /\ p.block # {}
  /\ Shadowed(p.auto, p.block) = {} /\ DeadConfirm(p) = {} /\ DeadPaths(p) = {}
  /\ ReachableSystem(p) = {} /\ ~AllowsDestructive(p)

\* ... and no warning.
LintSilent(p) ==
  /\ p.noTouch # {} /\ Unblocked(p) = {} /\ Unprotected(p) = {}
  /\ Shadowed(p.auto, p.confirm) = {}
  /\ \A part \in DOMAIN p : Doubled(p[part]) = {}
  /\ Folded(Granted(p)) \cap Overbroad = {}

\* exit_code_for what lint_document finds in a document: its shape (sections
\* that are missing or no mappings), its rules and its settings.
ExitCode(shape, p, s) ==
  IF ~shape \/ ~LintClean(p) \/ ~SettingsValid(s) THEN "error"
  ELSE IF ~LintSilent(p) \/ ~s.loopback THEN "warning" ELSE "ok"
=============================================================================
