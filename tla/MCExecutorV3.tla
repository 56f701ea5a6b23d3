---------------------------- MODULE MCExecutorV3 ----------------------------
EXTENDS ExecutorV3

CONSTANTS r1, r2, a, b, d, l, sh, wr, no

MCTask == {r1, r2, a, b, d, l}

\* A circle of awaits, a for b and b for a or d, while r2 starts d and may
\* start a once more; or a model alone, in a task or asked from the CLI.
MCBatches == {{}, {l}, {r1}, {r1, r2}}
MCDoes == [t \in MCTask |->
  CASE t \in {r1, r2} -> "spawn" [] t = d -> "leaf" [] t = l -> "llm" [] OTHER -> "await"]
MCNames == [t \in MCTask |->
  CASE t = r1 -> <<a, b>> [] t = r2 -> <<d, a>> [] t = a -> <<b>> [] t = b -> <<a, d>> [] OTHER -> <<>>]

\* Three tool calls, one of a tool the model was not offered.
MCCall == {sh, wr, no}
MCRequest == [k \in MCCall |->
  [kind |-> IF k = wr THEN "write_file" ELSE "shell", command |-> k,
   verb |-> IF k = wr THEN "write" ELSE "run", paths |-> IF k = wr THEN {"file"} ELSE {}]]
MCTurns == {<<sh>>, <<no, sh>>, <<wr, sh>>}

\* Patterns: one for each command, and one for the path written to.
MCPattern == {"runs", "writes", "files"}
MCFold == [q \in MCPattern |-> q]
MCGlob == [q \in MCPattern |->
  CASE q = "runs" -> {sh} [] q = "writes" -> {wr} [] OTHER -> {"file"}]
MCFile(deny, ask, allow, keep) ==
  [block |-> deny, noTouch |-> keep, confirm |-> ask, write |-> {"files"}, auto |-> allow, read |-> {}]
MCFiles == {MCFile({}, {}, {"runs", "writes"}, {}),
            MCFile({}, {"runs"}, {"runs"}, {}),
            MCFile({"runs"}, {}, {}, {}),
            MCFile({}, {}, {"runs"}, {"files"})}

\* Templates that spawn templates: each is a root again.
NestDoes == [t \in MCTask |-> IF t = d THEN "leaf" ELSE "spawn"]
NestNames == [t \in MCTask |->
  CASE t = r1 -> <<a>> [] t = a -> <<b>> [] t = b -> <<d>> [] t = r2 -> <<b>> [] OTHER -> <<>>]
NestFlow == {r1, a, b}
=============================================================================
