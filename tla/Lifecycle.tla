----------------------------- MODULE Lifecycle -----------------------------
(***************************************************************************)
(* What LogFixer promises about one incident, whoever calls it and in      *)
(* whatever order: the state diagram of the service with its retry rule.   *)
(* An incident is created once, moves along the diagram, every rollback    *)
(* counts exactly one retry before it ends, three counted retries end in   *)
(* ESCALATED and no fewer do, and only a reopening forgets them.           *)
(*                                                                         *)
(* LogFixer, which has the requests, the database sessions and their       *)
(* interleavings, is shown to implement this module (see Documented        *)
(* there) when one request at a time drives the incident.                  *)
(***************************************************************************)
EXTENDS Incident

VARIABLES
  state,    \* the incident's state, "ABSENT" before the first webhook
  retry,    \* retries counted since the incident was created or reopened
  counted   \* the rollback in progress has counted its retry

vars == <<state, retry, counted>>

Init == state = "ABSENT" /\ retry = 0 /\ counted = FALSE

\* One edge of the diagram that leaves the retries alone.
Move(from, to) == state = from /\ state' = to /\ UNCHANGED <<retry, counted>>

Create  == Move("ABSENT", "RECEIVED")

Analyze == Move("RECEIVED", "ANALYZING")

Propose == Move("ANALYZING", "PENDING_APPROVAL")

Reject  == Move("PENDING_APPROVAL", "RECEIVED")

Execute == Move("PENDING_APPROVAL", "EXECUTING")

Resolve == Move("EXECUTING", "RESOLVED")

Fail    == Move("EXECUTING", "ROLLING_BACK")

\* The rollback is done: its retry is counted, once.
Count ==
  /\ state = "ROLLING_BACK"
  /\ ~counted
  /\ retry' = retry + 1
  /\ counted' = TRUE
  /\ UNCHANGED state

\* A counted rollback ends, in RECEIVED or in ESCALATED by the retry rule.
Conclude ==
  /\ state = "ROLLING_BACK"
  /\ counted
  /\ state' = IF retry < RetryLimit THEN "RECEIVED" ELSE "ESCALATED"
  /\ counted' = FALSE
  /\ UNCHANGED retry

Reopen ==
  /\ state = "RESOLVED"
  /\ state' = "RECEIVED"
  /\ retry' = 0
  /\ UNCHANGED counted

Next ==
  \/ Create \/ Analyze \/ Propose \/ Reject \/ Execute \/ Resolve
  \/ Fail \/ Count \/ Conclude \/ Reopen

Spec == Init /\ [][Next]_vars

=============================================================================
