---------------------------- MODULE MCLogFixer ----------------------------
(* LogFixer on small instances: the requests, analyses and faults of each  *)
(* run, chosen in its .cfg.                                                *)
EXTENDS LogFixer, TLC

CONSTANTS r1, r2

\* Requests of every kind overlap freely.
AnyKind == [r \in Requests |-> Kinds]

\* r1 drives the incident, one request at a time; r2 is LC, whose webhooks
\* come when they come.
DriverAndWebhook == [r \in Requests |-> IF r = r1 THEN Kinds \ {"webhook"} ELSE {"webhook"}]

Act(type, target, keyval) == [action_type |-> type, target |-> target, keyval |-> keyval]

Analysis(confident, solutions) == [confident |-> confident, solutions |-> solutions]

Restart     == Act("RESTART", TRUE, FALSE)
ClearMemory == Act("CLEAR_MEMORY", FALSE, FALSE)

\* A plan that can be undone in part, and one that cannot.
TwoSteps  == Analysis(TRUE, <<Restart, ClearMemory>>)
OneStep   == Analysis(TRUE, <<ClearMemory>>)
\* Refused by the validator: an action nobody implements, an edit that does
\* not say what to set, a low confidence.
Reboot    == Analysis(TRUE, <<Act("REBOOT", TRUE, FALSE)>>)
EditWhat  == Analysis(TRUE, <<Act("EDIT_CONFIG", TRUE, FALSE)>>)
Unsure    == Analysis(FALSE, <<ClearMemory>>)
\* Accepted, but no service is named: RESTART fails before it starts.
NoTarget  == Analysis(TRUE, <<Act("RESTART", FALSE, FALSE)>>)

AllResults  == {TwoSteps, OneStep, Reboot, EditWhat, Unsure, NoTarget}
FewResults  == {TwoSteps, Reboot}
GoodResults == {TwoSteps}
PoorResults == {TwoSteps, Unsure}

\* FairSpec with somebody who keeps calling POST /execute whenever it would
\* be accepted, however rarely that is.
EagerSpec == FairSpec /\ \A r \in Requests : SF_vars(Execute(r))

Symmetry == Permutations(Requests)
=============================================================================
