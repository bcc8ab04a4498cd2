------------------------------ MODULE MCAgent ------------------------------
(* Agent on small instances: files with two keys, one of which begins with *)
(* the other, and plans that edit, restart and clean up.                   *)
EXTENDS Agent, TLC

CONSTANTS e1, e2

Edit(key, value) == [action_type |-> "EDIT_CONFIG", target |-> TRUE,
                     key |-> key, value |-> value]

Do(type, target) == [action_type |-> type, target |-> target, key |-> "", value |-> ""]

\* heap is edited twice, the second time to a value sed interprets; edited
\* after a restart, and something is cleaned up; an edit of the longer key with
\* a value no sed command takes, behind an action the agent does not know and
\* before a step without its argument.
MCPlans == {
  <<Edit("heap", "4g"), Edit("heap", "8g &")>>,
  <<Do("RESTART", TRUE), Edit("heap", "4g"), Do("DEL_DISK", TRUE)>>,
  <<Do("REBOOT", TRUE), Edit("heap_dump", "/tmp"), Do("RESTART", FALSE)>>}

MCFiles == {
  <<Setting("heap", "1g")>>,
  <<Setting("heap", "1g &")>>,
  <<Setting("heap_dump", "off")>>}

\* No retry yet, or the last one.
FirstTry == {0}

FirstOrLast == {0, 2}

MCKeys == {"", "heap", "heap_dump"}

\* "mixed" is what sed makes of a value with an "&".
MCTexts == {"", "\n", "error", "UNKNOWN", "1g", "4g", "1g &", "8g &", "mixed", "off", "/tmp"}

MCLonger == {<<"heap", "heap_dump">>}

MCSlashed == {"/tmp"}

MCSpecial == {"1g &", "8g &"}

MCWritten == [p \in MCSpecial \X Line |-> "mixed"]

Symmetry == Permutations(Executions)
=============================================================================
