---------------------------- MODULE MCExecutorV2 ----------------------------
(* Instances of ExecutorKinds for TLC.                                     *)
EXTENDS ExecutorKinds

CONSTANTS w1, w2, r1, r2, main, s1, s2, s3, s4, o1, o2, o3, x1, x2, none

MCKind == [t \in {s1, s2, s3, s4} |-> "stream"]
          @@ (o1 :> "open") @@ (o2 :> "open") @@ (o3 :> "open") @@ (x1 :> "close")
          @@ (x2 :> "write")
MCSession == [t \in Task |-> IF t \in {x1, x2} THEN o1 ELSE none]
MCBatches == {{}, {o1, o2, o3}, {s1, o1, o2}, {s1, o1, x1}, {o1, o2, x1, x2},
              {s1, s2, s4}, {s1, s3}}
MCVerdicts == [t \in Task |-> IF t = s1 THEN {"auto", "confirm", "block"} ELSE {"auto"}]

Workers == Permutations({w1, w2}) \cup Permutations({r1, r2})

\* Two files of three tokens.  The edits of grow apply to one of them, those
\* of fail never all do; a page is two tokens long.
MCStartText == [f \in {"f", "g"} |-> IF f = "f" THEN <<"a", "b", "c">> ELSE <<"a", "a">>]
Edits(old, new) == <<[old |-> old, new |-> new, all |-> FALSE]>>
Job(kind, f, list, backup) ==
  [kind |-> kind, file |-> f, edits |-> list, text |-> <<"c">>, limit |-> 2, backup |-> backup]
grow == Job("patch", "f", Edits("a", <<"b", "c">>), TRUE)
cut1 == Job("patch", "f", Edits("c", <<>>), TRUE)
fail == Job("patch", "g", Edits("a", <<"b">>), FALSE)
put == Job("write", "f", <<>>, FALSE)
get == Job("read", "f", <<>>, FALSE)
MCFileJob == {grow, cut1, fail, put, get}
MCFileBatches == {{}, {grow, cut1}, {grow, get}, {put, fail}}
MCOtherTexts == {<<"b">>}
=============================================================================
