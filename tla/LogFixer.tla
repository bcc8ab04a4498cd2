------------------------------ MODULE LogFixer ------------------------------
(***************************************************************************)
(* The LogFixer service around one incident (one log_hash): its row in     *)
(* lf_incident, the requests in flight, the buttons live in Slack and the  *)
(* status LogCollector (LC) shows.  Rows of different incidents share      *)
(* nothing, so one is enough.                                              *)
(*                                                                         *)
(* A request is a FastAPI handler with a database session of its own; the  *)
(* asyncio loop switches between requests at every await.  What the        *)
(* interleavings turn on is how machine.transition() meets the session:    *)
(*   - the SELECT, the check of ALLOWED_TRANSITIONS and the UPDATE are     *)
(*     three steps, and nothing locks the row between them;                *)
(*   - sessions are built with expire_on_commit=False, so a SELECT in a    *)
(*     session that already holds the object returns that object as it is: *)
(*     a handler's later transitions check what its last refresh() saw;    *)
(*   - a flush writes the columns the session changed and no others.       *)
(* mem is that object, and an action ends where the handler awaits.        *)
(*                                                                         *)
(* Operators named ..._<fault> are faulty variants of the operator that    *)
(* follows them, kept for mutation testing; nothing else uses them.        *)
(***************************************************************************)
EXTENDS Incident, FiniteSets

CONSTANTS
  Requests,    \* requests the service can have in flight
  Serves,      \* which kinds of request each of them may be
  Results,     \* the analyses the language model may come back with
  Faults,      \* may exceptions be raised and may the process die?
  RetryBound   \* no execution starts once the row or a session has this many retries

\* The endpoints, and the three buttons of the Slack endpoint.
Kinds == {"webhook", "analyze", "execute", "resolve",
          "approve", "reject", "slackResolve"}

\* What the request awaits next.
Stages == {"idle", "insert", "reopen", "commit", "refresh", "llm", "notify",
           "run", "undo", "update", "patch"}

ASSUME ServesAssumption  == Serves \in [Requests -> SUBSET Kinds]
ASSUME ResultsAssumption == Results \subseteq AnalysisResult
ASSUME FaultsAssumption  == Faults \in BOOLEAN
ASSUME BoundAssumption   == RetryBound \in Nat

VARIABLES
  row,        \* the incident's row, NoRow before the first webhook
  job,        \* what each request is doing
  slack,      \* the messages in the channel whose buttons are live
  lc,         \* the status LC shows for its incident
  rollbacks   \* history: retries ever counted, up to RetryLimit

vars == <<row, job, slack, lc, rollbacks>>

Job == [kind  : Kinds \cup {"none"},
        stage : Stages,
        goal  : IncidentState \cup {"ABSENT"},   \* target of the transition under way
        mem   : Row,                             \* the LfIncident object of the session
        plan  : Seq(Solution),                   \* solutions to propose or still to run
        undo  : Nat]                             \* length of rollback_cmds

Idle == [kind |-> "none", stage |-> "idle", goal |-> "ABSENT",
         mem |-> NoRow, plan |-> << >>, undo |-> 0]

\* A message with live buttons: [approve | reject] under the proposed
\* solutions, or [resolve] under an execution report.
Message == [kind : {"approval", "report"}, sols : Seq(Solution)]

ApprovalRequest(sols) == [kind |-> "approval", sols |-> sols]

Report == [kind |-> "report", sols |-> << >>]

Button(kind, sols) == IF kind = "slackResolve" THEN Report ELSE ApprovalRequest(sols)

Init ==
  /\ row = NoRow
  /\ job = [r \in Requests |-> Idle]
  /\ slack = {}
  /\ lc = "OPEN"
  /\ rollbacks = 0

-----------------------------------------------------------------------------
(***************************************************************************)
(* A request comes in and its session loads the row.  A request that is    *)
(* refused at once (404, 409) changes nothing and is not a step; nor is a  *)
(* webhook for an open incident, which only updates columns that no        *)
(* handler reads.                                                          *)
(***************************************************************************)
Free(r, kind) == job[r].stage = "idle" /\ kind \in Serves[r]

\* upsert_incident finds no row and adds one to the session.
ReceiveNew(r) ==
  /\ Free(r, "webhook")
  /\ row.state = "ABSENT"
  /\ job' = [job EXCEPT ![r] = [Idle EXCEPT !.kind = "webhook", !.stage = "insert"]]
  /\ UNCHANGED <<row, slack, lc, rollbacks>>

\* LC has seen the error again and has reopened its incident; upsert_incident
\* finds the row RESOLVED and reopens the object it loaded.
ReceiveRecurrence(r) ==
  /\ Free(r, "webhook")
  /\ row.state = "RESOLVED"
  /\ job' = [job EXCEPT ![r] = [Idle EXCEPT !.kind = "webhook", !.stage = "reopen",
                                            !.mem = row]]
  /\ lc' = "OPEN"
  /\ UNCHANGED <<row, slack, rollbacks>>

Begin_Unchecked(r, kind, target, plan) ==
  /\ Free(r, kind)
  /\ row.state # "ABSENT"
  /\ job' = [job EXCEPT ![r] = [Idle EXCEPT !.kind = kind, !.stage = "commit",
                                            !.goal = target, !.plan = plan]]
  /\ UNCHANGED <<row, slack, lc, rollbacks>>

\* transition() as the first thing a request does: the object is loaded now,
\* so the check is made on the row as it is (and it is loaded again by
\* refresh() before anything reads it, so mem need not hold it).
Begin(r, kind, target, plan) ==
  /\ Free(r, kind)
  /\ CanMove(row.state, target)
  /\ job' = [job EXCEPT ![r] = [Idle EXCEPT !.kind = kind, !.stage = "commit",
                                            !.goal = target, !.plan = plan]]
  /\ UNCHANGED <<row, slack, lc, rollbacks>>

Analyze(r) == Begin(r, "analyze", "ANALYZING", << >>)

\* (The bound is the model's: retries are unbounded in the code.)
Execute(r) ==
  /\ row.retry < RetryBound
  /\ \A q \in Requests : job[q].mem.retry < RetryBound
  /\ Begin(r, "execute", "EXECUTING", << >>)

Resolve(r) == Begin(r, "resolve", "RESOLVED", << >>)

\* A button is pressed.  Only the log_hash it carries reaches the handler.
Approve(r) ==
  \E m \in slack : m.kind = "approval" /\ Begin(r, "approve", "EXECUTING", m.sols)

Reject(r) ==
  \E m \in slack : m.kind = "approval" /\ Begin(r, "reject", "RECEIVED", m.sols)

SlackResolve(r) ==
  \E m \in slack : m.kind = "report" /\ Begin(r, "slackResolve", "RESOLVED", m.sols)

Start(r) ==
  \/ ReceiveNew(r) \/ ReceiveRecurrence(r)
  \/ Analyze(r) \/ Execute(r) \/ Resolve(r)
  \/ Approve(r) \/ Reject(r) \/ SlackResolve(r)

-----------------------------------------------------------------------------
(***************************************************************************)
(* The steps of a request in flight.                                       *)
(***************************************************************************)
At(r, stage) == job[r].stage = stage

Becomes(r, j) == job' = [job EXCEPT ![r] = j]

\* The new row is flushed and committed.  log_hash is unique: if another
\* webhook has inserted the row meanwhile, the flush raises IntegrityError
\* and this request ends.
Insert(r) ==
  /\ At(r, "insert")
  /\ row' = IF row.state = "ABSENT" THEN NewRow ELSE row
  /\ Becomes(r, Idle)
  /\ UNCHANGED <<slack, lc, rollbacks>>

\* The reopened incident is committed, whatever the row is by now.
Reopen(r) ==
  /\ At(r, "reopen")
  /\ row' = Reopened(row, job[r].mem)
  /\ Becomes(r, Idle)
  /\ UNCHANGED <<slack, lc, rollbacks>>

\* transition() called later in a handler: the SELECT returns the object the
\* session holds, so the check is made on j.mem.  A refused transition ends
\* the request with 409.
Transitioned(j, target) ==
  IF CanMove(j.mem.state, target)
  THEN [j EXCEPT !.stage = "commit", !.goal = target, !.mem = NoRow]
  ELSE Idle

\* The UPDATE of transition() is committed, whatever the row is by now.
Commit(r) ==
  /\ At(r, "commit")
  /\ row' = [row EXCEPT !.state = job[r].goal]
  /\ job' = [job EXCEPT ![r].stage = "refresh"]
  /\ UNCHANGED <<slack, lc, rollbacks>>

NextStage_NoRollback(kind, goal) ==
  CASE kind = "analyze" /\ goal = "ANALYZING"        -> "llm"
    [] kind = "analyze" /\ goal = "PENDING_APPROVAL" -> "notify"
    [] kind = "execute" /\ goal = "EXECUTING"        -> "run"
    [] kind = "resolve"                              -> "patch"
    [] kind \in {"approve", "reject", "slackResolve"} -> "update"
    [] OTHER                                         -> "idle"

\* Where each handler goes once its transition to goal is through.
NextStage(kind, goal) ==
  CASE kind = "analyze" /\ goal = "ANALYZING"        -> "llm"
    [] kind = "analyze" /\ goal = "PENDING_APPROVAL" -> "notify"
    [] kind = "execute" /\ goal = "EXECUTING"        -> "run"
    [] kind = "execute" /\ goal = "ROLLING_BACK"     -> "undo"
    [] kind = "resolve"                              -> "patch"
    [] kind \in {"approve", "reject", "slackResolve"} -> "update"
    [] OTHER                                         -> "idle"

\* The stages a handler enters with an object it will look at again.
Holding == {"llm", "run", "undo"}

\* refresh() at the end of transition(): the object becomes the row as it is,
\* and execute_incident reads its solutions_json.
Refresh(r) ==
  LET next == NextStage(job[r].kind, job[r].goal) IN
  /\ At(r, "refresh")
  /\ Becomes(r, IF next = "idle" THEN Idle
                ELSE [job[r] EXCEPT !.stage = next, !.goal = "ABSENT",
                        !.mem  = IF next \in Holding THEN row ELSE NoRow,
                        !.plan = IF next = "run" THEN row.sols ELSE @])
  /\ UNCHANGED <<row, slack, lc, rollbacks>>

Analyse_Unconditional(r) ==
  /\ At(r, "llm")
  /\ \E result \in Results :
       /\ row' \in Saved(row, job[r].mem, result.solutions)
       /\ Becomes(r, Transitioned([job[r] EXCEPT !.plan = result.solutions],
                                  "PENDING_APPROVAL"))
  /\ UNCHANGED <<slack, lc, rollbacks>>

\* analyze_incident: the analysis arrives and is saved, valid or not; only a
\* valid one asks for PENDING_APPROVAL.
Analyse(r) ==
  /\ At(r, "llm")
  /\ \E result \in Results :
       /\ row' \in Saved(row, job[r].mem, result.solutions)
       /\ Becomes(r, IF Validate(result)
                     THEN Transitioned([job[r] EXCEPT !.mem.sols = result.solutions,
                                                      !.plan = result.solutions],
                                       "PENDING_APPROVAL")
                     ELSE Idle)
  /\ UNCHANGED <<slack, lc, rollbacks>>

\* send_approval_request, which catches every exception: the message is
\* posted or it is not.  Saving slack_ts is the end of the request.
Notify(r) ==
  /\ At(r, "notify")
  /\ \/ slack' = slack \cup {ApprovalRequest(job[r].plan)}
     \/ UNCHANGED slack
  /\ Becomes(r, Idle)
  /\ UNCHANGED <<row, lc, rollbacks>>

Running(r) == At(r, "run") /\ job[r].plan # << >>

\* The loop of execute_incident meets an action_type nobody registered.
SkipAction(r) ==
  /\ Running(r)
  /\ Head(job[r].plan).action_type \notin Registered
  /\ job' = [job EXCEPT ![r].plan = Tail(@)]
  /\ UNCHANGED <<row, slack, lc, rollbacks>>

\* The action's command ran and exited with 0.
ActionSucceeds(r) ==
  LET sol == Head(job[r].plan) IN
  /\ Running(r)
  /\ sol.action_type \in Registered
  /\ HasArguments(sol)
  /\ job' = [job EXCEPT ![r].plan = Tail(@),
                        ![r].undo = IF Reversible(sol) THEN @ + 1 ELSE @]
  /\ UNCHANGED <<row, slack, lc, rollbacks>>

\* The action lacks an argument, or SSH failed, timed out or exited with
\* non-zero: the loop is left and the rollback begins.
ActionFails(r) ==
  /\ Running(r)
  /\ Head(job[r].plan).action_type \in Registered
  /\ Becomes(r, Transitioned([job[r] EXCEPT !.plan = << >>], "ROLLING_BACK"))
  /\ UNCHANGED <<row, slack, lc, rollbacks>>

\* Every action succeeded: the report is posted, or is not.  The incident
\* stays EXECUTING until somebody resolves it.
SendReport(r) ==
  /\ At(r, "run")
  /\ job[r].plan = << >>
  /\ \/ slack' = slack \cup {Report}
     \/ UNCHANGED slack
  /\ Becomes(r, Idle)
  /\ UNCHANGED <<row, lc, rollbacks>>

\* One command of rollback_actions, last first.  Its result is not looked at.
Undo(r) ==
  /\ At(r, "undo")
  /\ job[r].undo > 0
  /\ job' = [job EXCEPT ![r].undo = @ - 1]
  /\ UNCHANGED <<row, slack, lc, rollbacks>>

\* retry_count is counted on the session's object and committed, and decides
\* where the rollback ends.
CountRetry(r) ==
  LET n == CountedRetry(job[r].mem.retry) IN
  /\ At(r, "undo")
  /\ job[r].undo = 0
  /\ row' = [row EXCEPT !.retry = n]
  /\ Becomes(r, Transitioned([job[r] EXCEPT !.mem.retry = n], RetryTarget(n)))
  /\ rollbacks' = IF rollbacks < RetryLimit THEN rollbacks + 1 ELSE rollbacks
  /\ UNCHANGED <<slack, lc>>

\* update_message takes the buttons off the message that was pressed; a
\* failure is only logged.  (Of two messages with the same text one keeps its
\* buttons: that outcome is the one in which the update fails.)
UpdateMessage(r) ==
  /\ At(r, "update")
  /\ \/ slack' = slack \ {Button(job[r].kind, job[r].plan)}
     \/ UNCHANGED slack
  /\ Becomes(r, Idle)
  /\ UNCHANGED <<row, lc, rollbacks>>

\* report_to_lc sends the PATCH: LC applies it, or fails, or applies it and
\* the answer is lost.
PatchStatus(r) ==
  /\ At(r, "patch")
  /\ lc' \in {"RESOLVED", lc}
  /\ Becomes(r, Idle)
  /\ UNCHANGED <<row, slack, rollbacks>>

\* Whatever the request awaits is answered.
Step(r) ==
  \/ Insert(r) \/ Reopen(r) \/ Commit(r) \/ Refresh(r) \/ Analyse(r) \/ Notify(r)
  \/ SkipAction(r) \/ ActionSucceeds(r) \/ ActionFails(r) \/ SendReport(r)
  \/ Undo(r) \/ CountRetry(r) \/ UpdateMessage(r) \/ PatchStatus(r)

-----------------------------------------------------------------------------
(***************************************************************************)
(* Faults.                                                                 *)
(***************************************************************************)
\* The database or the language model raises and nobody catches it (for a
\* Slack button the handler does, with the same effect): the session is
\* closed, what it had not committed is gone.
Abort(r) ==
  /\ Faults
  /\ \/ job[r].stage \in {"insert", "reopen", "commit", "refresh", "llm"}
     \/ At(r, "undo") /\ job[r].undo = 0
  /\ Becomes(r, Idle)
  /\ UNCHANGED <<row, slack, lc, rollbacks>>

\* The process dies with every request in it.  Nothing resumes them later.
Crash ==
  /\ Faults
  /\ \E r \in Requests : job[r].stage # "idle"
  /\ job' = [r \in Requests |-> Idle]
  /\ UNCHANGED <<row, slack, lc, rollbacks>>

Next ==
  \/ \E r \in Requests : Start(r) \/ Step(r) \/ Abort(r)
  \/ Crash

Spec == Init /\ [][Next]_vars

\* Every await of a handler is bounded by a timeout of its own (SSH, httpx,
\* the OpenAI and Slack clients) and the asyncio loop runs what is ready, so a
\* request in flight goes on.  Nothing makes anybody send a request.
FairSpec == Spec /\ \A r \in Requests : WF_vars(Step(r))

-----------------------------------------------------------------------------
(***************************************************************************)
(* Properties.                                                             *)
(***************************************************************************)
\* Every variable keeps its type; in particular the row's state stays one of
\* the seven states and retry_count a natural number.
TypeOK ==
  /\ row \in Row
  /\ job \in [Requests -> Job]
  /\ slack \subseteq Message
  /\ lc \in {"OPEN", "RESOLVED"}
  /\ rollbacks \in 0 .. RetryLimit

\* Whatever requests overlap and whatever fails, an incident that is ESCALATED
\* has been through three counted rollbacks: execute_incident decides with the
\* retry_count of its own session, which may be stale but never too high.
NoEarlyEscalation == row.state = "ESCALATED" => rollbacks = RetryLimit

\* A solution list somebody could act on: there is one, every action is in
\* the agent's registry, and EDIT_CONFIG says what to set.
WellFormed(sols) ==
  /\ sols # << >>
  /\ \A i \in DOMAIN sols :
       /\ sols[i].action_type \in Registered
       /\ sols[i].action_type = "EDIT_CONFIG" => sols[i].keyval

\* analyze_incident: whatever overlaps and fails, people are only ever asked
\* in Slack to approve a solution list that passed the validator.
ApprovalsAreWellFormed ==
  \A m \in slack : m.kind = "approval" => WellFormed(m.sols)

\* The same of what is stored in the row when approval is awaited and of what
\* execute_incident then runs, which it reads back from the row.  It takes
\* that nobody else writes the row between the analysis and the execution.
PlansAreWellFormed ==
  /\ row.state \in {"PENDING_APPROVAL", "EXECUTING"} => WellFormed(row.sols)
  /\ \A r \in Requests : Running(r) => WellFormed(job[r].plan)

\* The row only moves along ALLOWED_TRANSITIONS, apart from its creation and
\* the reopening of a resolved incident.
OnlyAllowedTransitions ==
  [][ row'.state # row.state =>
        \/ CanMove(row.state, row'.state)
        \/ <<row.state, row'.state>> \in {<<"ABSENT", "RECEIVED">>,
                                          <<"RESOLVED", "RECEIVED">>} ]_vars

\* An incident that is back in RECEIVED has a retry left.
RetryBudget == row.state = "RECEIVED" => row.retry < RetryLimit

\* The request that took the row to ROLLING_BACK and will take it out.
RollsBack(r) ==
  /\ job[r].kind = "execute"
  /\ \/ At(r, "refresh") /\ job[r].goal = "ROLLING_BACK"
     \/ At(r, "undo") /\ job[r].mem.state = "ROLLING_BACK"
     \/ At(r, "commit") /\ job[r].goal \in {"RECEIVED", "ESCALATED"}

\* However requests overlap, a row in ROLLING_BACK has a request at work that
\* will take it out: ROLLING_BACK has no button and no endpoint of its own, so
\* an incident without that request would stay there.
RollbackOwned == row.state = "ROLLING_BACK" => \E r \in Requests : RollsBack(r)

\* Hence every rollback ends, in RECEIVED or ESCALATED or overtaken.
RollbackEnds == row.state = "ROLLING_BACK" ~> row.state # "ROLLING_BACK"

\* The lifecycle LogFixer promises.  A rollback has counted its retry once
\* the request waits for the commit of RECEIVED or ESCALATED.
Documented == INSTANCE Lifecycle WITH
  state   <- row.state,
  retry   <- row.retry,
  counted <- \E r \in Requests : /\ job[r].kind = "execute"
                                 /\ At(r, "commit")
                                 /\ job[r].goal \in {"RECEIVED", "ESCALATED"}

FollowsLifecycle == Documented!Spec

\* With analyses that pass the validator, every analysis ends: a row in
\* ANALYZING moves on, however the requests overlap.
AnalysisEnds == row.state = "ANALYZING" ~> row.state # "ANALYZING"

-----------------------------------------------------------------------------
(***************************************************************************)
(* Claims of the documentation that the code does not keep: README.md says *)
(* which run refutes each of them.                                         *)
(***************************************************************************)
\* An approved incident is executed.
ApprovedIsExecuted ==
  (\E r \in Requests : job[r].kind = "approve" /\ At(r, "update"))
    ~> (\E r \in Requests : At(r, "run"))

\* LC, whose incident counts, never shows RESOLVED for one that LogFixer holds
\* in another state: the PATCH follows the commit of RESOLVED, and LC reopens
\* before the row does.
LcInStep == lc = "RESOLVED" => row.state = "RESOLVED"

=============================================================================
