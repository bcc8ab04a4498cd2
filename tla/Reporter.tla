------------------------------ MODULE Reporter ------------------------------
(***************************************************************************)
(* The reports of one incident to LogCollector (LC).  POST /resolve checks *)
(* the transition, commits RESOLVED, refreshes the row and calls           *)
(* report_to_lc, which sends a PATCH of the status, asks for the knowledge *)
(* base article with up to five GETs and appends an addendum to it with a  *)
(* POST.                                                                   *)
(*                                                                         *)
(* Requests overlap as they do in LogFixer: two of them may pass the check *)
(* before either commits, and a webhook that has found the row RESOLVED    *)
(* reopens it later.  The incident may come back and be resolved again     *)
(* while an old report is still at work.  LogFixer ends a report with the  *)
(* answer to the PATCH; here a request can also reach LC after the ten     *)
(* seconds the service waits for the answer.                               *)
(*                                                                         *)
(* Operators named ..._<fault> are faulty variants of the operator that    *)
(* follows them, kept for mutation testing; nothing else uses them.        *)
(***************************************************************************)
EXTENDS Naturals

CONSTANTS
  Requests,    \* the requests to POST /resolve
  Webhooks,    \* LC's webhooks under way at a time (a bound of the model)
  MAX_RETRY    \* GETs of one report

ASSUME WebhooksAssumption == Webhooks \in Nat
ASSUME MaxRetryAssumption == MAX_RETRY \in Nat \ {0}

VARIABLES
  row,       \* [resolved, round, back]: is the row RESOLVED, how often has it
             \* become so, and (history) has LC reopened its incident since?
  hooks,     \* webhooks of LC: sent to the service; those that found the row RESOLVED
  lc,        \* the status LC shows
  article,   \* does LC have an article for the incident?
  addenda,   \* addenda of each request LC has stored
  wire,      \* requests sent to LC and not handled yet
  report     \* what each request is doing

vars == <<row, hooks, lc, article, addenda, wire, report>>

\* What the request awaits next.  "none" before it comes in, "done" after it
\* (also when the process has died under it).
Waiting == {"commit", "refresh", "patch", "get", "post"}

Stages == Waiting \cup {"none", "done"}

Message == [verb : {"PATCH", "POST"}, by : Requests]

\* round is the resolution it reports, attempt the number of the GET under way
\* or last made, ok what report_to_lc returns.
Report == [stage : Stages, round : Nat, attempt : 0 .. MAX_RETRY, ok : BOOLEAN]

NoReport == [stage |-> "none", round |-> 0, attempt |-> 0, ok |-> FALSE]

Init ==
  /\ row = [resolved |-> FALSE, round |-> 0, back |-> FALSE]
  /\ hooks = [sent |-> 0, loaded |-> 0]
  /\ lc = "OPEN"
  /\ article = FALSE
  /\ addenda = [r \in Requests |-> 0]
  /\ wire = {}
  /\ report = [r \in Requests |-> NoReport]

At(r, stage) == report[r].stage = stage

Enter(r, stage) == report' = [report EXCEPT ![r].stage = stage]

Send(verb, r) == wire' = wire \cup {[verb |-> verb, by |-> r]}

\* report_to_lc returns, or the request ends without it.
Return(r, ok) == report' = [report EXCEPT ![r].stage = "done", ![r].ok = ok]

-----------------------------------------------------------------------------
(***************************************************************************)
(* The row.                                                                *)
(***************************************************************************)
\* resolve_incident: transition() loads the row and checks that it may still
\* become RESOLVED.
Resolve(r) ==
  /\ At(r, "none")
  /\ ~row.resolved
  /\ Enter(r, "commit")
  /\ UNCHANGED <<row, hooks, lc, article, addenda, wire>>

\* The UPDATE is committed, whatever the row is by now: a row that another
\* request has resolved meanwhile stays what it is.
Commit(r) ==
  /\ At(r, "commit")
  /\ row' = IF row.resolved THEN row
            ELSE [resolved |-> TRUE, round |-> row.round + 1, back |-> FALSE]
  /\ report' = [report EXCEPT ![r].stage = "refresh", ![r].round = row'.round]
  /\ UNCHANGED <<hooks, lc, article, addenda, wire>>

\* The row is read again, and report_to_lc sends the PATCH.
Refresh(r) ==
  /\ At(r, "refresh")
  /\ Enter(r, "patch")
  /\ Send("PATCH", r)
  /\ UNCHANGED <<row, hooks, lc, article, addenda>>

\* The database raises before or after the commit, and nothing is reported.
\* (A resolve by the Slack button, which reports nothing, ends like this.)
Abort(r) ==
  /\ At(r, "commit") \/ At(r, "refresh")
  /\ Return(r, FALSE)
  /\ UNCHANGED <<row, hooks, lc, article, addenda, wire>>

\* LC sees the error again: it reopens its incident and sends a webhook.
LcReopens ==
  /\ hooks.sent + hooks.loaded < Webhooks
  /\ hooks' = [hooks EXCEPT !.sent = @ + 1]
  /\ lc' = "OPEN"
  /\ row' = [row EXCEPT !.back = TRUE]
  /\ UNCHANGED <<article, addenda, wire, report>>

\* upsert_incident loads the row.  Only one that is RESOLVED is reopened; the
\* webhook may also be lost, or its request end with an exception.
Receive ==
  /\ hooks.sent > 0
  /\ \/ row.resolved /\ hooks' = [sent |-> hooks.sent - 1, loaded |-> hooks.loaded + 1]
     \/ hooks' = [hooks EXCEPT !.sent = @ - 1]
  /\ UNCHANGED <<row, lc, article, addenda, wire, report>>

\* upsert_incident commits the row it has reopened, whatever it is by now.
Reopen ==
  /\ hooks.loaded > 0
  /\ hooks' = [hooks EXCEPT !.loaded = @ - 1]
  /\ row' = [row EXCEPT !.resolved = FALSE]
  /\ UNCHANGED <<lc, article, addenda, wire, report>>

-----------------------------------------------------------------------------
(***************************************************************************)
(* What LC does with a request, at any time after it was sent, and whether *)
(* the answer arrives.  A report that has stopped waiting hears nothing.   *)
(***************************************************************************)
Handles(verb, r) ==
  /\ [verb |-> verb, by |-> r] \in wire
  /\ wire' = wire \ {[verb |-> verb, by |-> r]}

\* The status is changed.  An answer with 200 makes _patch_incident_status
\* return True, and the first GET follows.
LcPatches(r) ==
  /\ Handles("PATCH", r)
  /\ lc' = "RESOLVED"
  /\ \/ At(r, "patch") /\ report' = [report EXCEPT ![r].stage = "get", ![r].attempt = 1]
     \/ UNCHANGED report
  /\ UNCHANGED <<row, hooks, article, addenda>>

\* LC writes the article in its own time.
LcPublishes ==
  /\ ~article
  /\ article' = TRUE
  /\ UNCHANGED <<row, hooks, lc, addenda, wire, report>>

LcAppends(r) ==
  /\ Handles("POST", r)
  /\ addenda' = [addenda EXCEPT ![r] = @ + 1]
  /\ \/ At(r, "post") /\ Return(r, TRUE)
     \/ UNCHANGED report
  /\ UNCHANGED <<row, hooks, lc, article>>

\* The request is lost, or LC answers with another status.
Lost(r) ==
  /\ \E verb \in {"PATCH", "POST"} : Handles(verb, r)
  /\ UNCHANGED <<row, hooks, lc, article, addenda, report>>

-----------------------------------------------------------------------------
(***************************************************************************)
(* The steps of a report.                                                  *)
(***************************************************************************)
GiveUp_GoOn(r) ==
  /\ \/ At(r, "patch") /\ report' = [report EXCEPT ![r].stage = "get", ![r].attempt = 1]
     \/ At(r, "post") /\ Return(r, FALSE)
  /\ UNCHANGED <<row, hooks, lc, article, addenda, wire>>

GiveUp_AssumeStored(r) ==
  /\ At(r, "patch") \/ At(r, "post")
  /\ Return(r, At(r, "post"))
  /\ UNCHANGED <<row, hooks, lc, article, addenda, wire>>

GiveUp_Again(r) ==
  /\ \/ At(r, "patch") /\ Return(r, FALSE) /\ UNCHANGED wire
     \/ At(r, "post") /\ Send("POST", r) /\ UNCHANGED report
  /\ UNCHANGED <<row, hooks, lc, article, addenda>>

\* No answer to the PATCH or the POST within ten seconds, an answer that is
\* not 200, or an exception: the report ends.  LC may still handle the request.
GiveUp(r) ==
  /\ At(r, "patch") \/ At(r, "post")
  /\ Return(r, FALSE)
  /\ UNCHANGED <<row, hooks, lc, article, addenda, wire>>

\* _get_kb_article_id finds the article, and the POST is sent.
Find(r) ==
  /\ At(r, "get")
  /\ article
  /\ Enter(r, "post")
  /\ Send("POST", r)
  /\ UNCHANGED <<row, hooks, lc, article, addenda>>

Miss_Forever(r) ==
  /\ At(r, "get")
  /\ \/ /\ report[r].attempt < MAX_RETRY
        /\ UNCHANGED report
     \/ /\ report[r].attempt = MAX_RETRY
        /\ Return(r, FALSE)
  /\ UNCHANGED <<row, hooks, lc, article, addenda, wire>>

Miss_Late(r) ==
  /\ At(r, "get")
  /\ \/ /\ report[r].attempt <= MAX_RETRY
        /\ report' = [report EXCEPT ![r].attempt = @ + 1]
     \/ /\ report[r].attempt > MAX_RETRY
        /\ Return(r, FALSE)
  /\ UNCHANGED <<row, hooks, lc, article, addenda, wire>>

\* The GET fails or there is no article yet: the next attempt follows three
\* seconds later; there is none after the fifth.
Miss(r) ==
  /\ At(r, "get")
  /\ \/ /\ report[r].attempt < MAX_RETRY
        /\ report' = [report EXCEPT ![r].attempt = @ + 1]
     \/ /\ report[r].attempt = MAX_RETRY
        /\ Return(r, FALSE)
  /\ UNCHANGED <<row, hooks, lc, article, addenda, wire>>

\* The process dies.  No report is resumed, and none can be repeated: POST
\* /resolve is refused from RESOLVED.
Crash ==
  /\ \E r \in Requests : report[r].stage \in Waiting
  /\ report' = [r \in Requests |-> IF report[r].stage \in Waiting
                                  THEN [report[r] EXCEPT !.stage = "done"]
                                  ELSE report[r]]
  /\ hooks' = [hooks EXCEPT !.loaded = 0]
  /\ UNCHANGED <<row, lc, article, addenda, wire>>

\* The request goes on.
Progress(r) == Commit(r) \/ Refresh(r) \/ GiveUp(r) \/ Find(r) \/ Miss(r)

Next ==
  \/ \E r \in Requests : \/ Resolve(r) \/ Progress(r) \/ Abort(r)
                         \/ LcPatches(r) \/ LcAppends(r) \/ Lost(r)
  \/ LcReopens \/ Receive \/ Reopen \/ LcPublishes \/ Crash

Spec == Init /\ [][Next]_vars

\* The database answers or raises, every request has a timeout and every sleep
\* an end, so a request goes on.  LC is not asked to do anything.
FairSpec == Spec /\ \A r \in Requests : WF_vars(Progress(r))

-----------------------------------------------------------------------------
(***************************************************************************)
(* Properties.                                                             *)
(***************************************************************************)
\* Every variable keeps its type; in particular no report makes a GET too many.
TypeOK ==
  /\ row \in [resolved : BOOLEAN, round : Nat, back : BOOLEAN]
  /\ hooks \in [sent : Nat, loaded : Nat]
  /\ lc \in {"OPEN", "RESOLVED"}
  /\ article \in BOOLEAN
  /\ addenda \in [Requests -> Nat]
  /\ wire \subseteq Message
  /\ report \in [Requests -> Report]

\* report_to_lc: however late LC handles its requests, whatever is lost and
\* whenever the process dies, one call never adds its addendum twice.
OncePerReport == \A r \in Requests : addenda[r] <= 1

\* report_to_lc: lcReported = true is the truth, the addendum is stored.
ReportedIsStored == \A r \in Requests : report[r].ok => addenda[r] = 1

\* report_to_lc: an addendum is the last thing LC hears of a resolution.  Once
\* LC has the addendum of the present resolution it shows the incident as
\* RESOLVED, until it sees the error again itself: whatever became of the
\* reports of earlier resolutions, and however many report this one.
AddendumMeansClosed ==
  \A r \in Requests :
    addenda[r] > 0 /\ report[r].round = row.round /\ ~row.back => lc = "RESOLVED"

\* resolve_incident: every request ends, even if LC does nothing.
ReportEnds == \A r \in Requests : report[r].stage \in Waiting ~> At(r, "done")

=============================================================================
