-------------------------- MODULE LogFixerProofs --------------------------
(***************************************************************************)
(* Theorems about LogFixer, for any set of requests, any kinds of request  *)
(* each may be, any analyses and any bound on the retries.                 *)
(***************************************************************************)
EXTENDS LogFixer, TLAPS

-----------------------------------------------------------------------------
(***************************************************************************)
(* Types of what the actions are built from.                               *)
(***************************************************************************)

\* No solutions are a solution list.
LEMMA EmptyPlan == << >> \in Seq(Solution)
OBVIOUS

\* A log_hash without a row, and a row just inserted, are rows.
LEMMA RowTypes == NoRow \in Row /\ NewRow \in Row
BY DEF NoRow, NewRow, Row, IncidentState

\* A request that has ended is a job.
LEMMA IdleType == Idle \in Job
BY RowTypes DEF Idle, Job, Kinds, Stages

\* The flush of an analysis writes a row.
LEMMA SavedType ==
  ASSUME NEW current \in Row, NEW loaded \in Row, NEW sols \in Seq(Solution),
         NEW saved \in Saved(current, loaded, sols)
  PROVE  /\ saved \in Row
         /\ saved.state = current.state
         /\ saved.retry = current.retry
BY DEF Saved, Row

\* The flush of a reopening writes a row in RECEIVED, and never more retries.
LEMMA ReopenedType ==
  ASSUME NEW current \in Row, NEW loaded \in Row
  PROVE  /\ Reopened(current, loaded) \in Row
         /\ Reopened(current, loaded).state = "RECEIVED"
         /\ Reopened(current, loaded).retry \in {0, current.retry}
BY DEF Reopened, Row, IncidentState

\* A transition asked for later in a handler waits for its commit, or the
\* request ends.
LEMMA TransitionedType ==
  ASSUME NEW j \in Job, NEW target \in IncidentState
  PROVE  Transitioned(j, target) \in Job
BY IdleType, RowTypes DEF Transitioned, Job, Stages

\* After a transition a handler goes on to one of the stages.
LEMMA NextStageType ==
  ASSUME NEW kind, NEW goal
  PROVE  NextStage(kind, goal) \in {"llm", "notify", "run", "undo", "patch", "update", "idle"}
BY DEF NextStage

\* The message a button belongs to is a message.
LEMMA ButtonType ==
  ASSUME NEW kind, NEW sols \in Seq(Solution)
  PROVE  Button(kind, sols) \in Message
BY DEF Button, Report, ApprovalRequest, Message

-----------------------------------------------------------------------------
(***************************************************************************)
(* TypeOK is inductive.                                                    *)
(***************************************************************************)

\* Before the first webhook everything has its type.
LEMMA InitType == Init => TypeOK
BY RowTypes, IdleType DEF Init, TypeOK, RetryLimit

\* A request comes in with a webhook, or with a transition to one of the
\* four states somebody may ask for.
LEMMA StartShape ==
  ASSUME TypeOK, NEW r \in Requests, Start(r)
  PROVE  \/ ReceiveNew(r)
         \/ ReceiveRecurrence(r)
         \/ \E kind \in Kinds \ {"webhook"},
               target \in {"ANALYZING", "EXECUTING", "RESOLVED", "RECEIVED"},
               plan \in Seq(Solution) : Begin(r, kind, target, plan)
<1>0. /\ {"analyze", "execute", "resolve", "approve", "reject", "slackResolve"}
           \subseteq Kinds \ {"webhook"}
      /\ \A m \in slack : m.sols \in Seq(Solution)
  BY DEF Kinds, TypeOK, Message
<1>1. CASE Analyze(r)
  BY <1>0, <1>1, EmptyPlan DEF Analyze
<1>2. CASE Execute(r)
  BY <1>0, <1>2, EmptyPlan DEF Execute
<1>3. CASE Resolve(r)
  BY <1>0, <1>3, EmptyPlan DEF Resolve
<1>4. CASE Approve(r)
  BY <1>0, <1>4 DEF Approve
<1>5. CASE Reject(r)
  BY <1>0, <1>5 DEF Reject
<1>6. CASE SlackResolve(r)
  BY <1>0, <1>6 DEF SlackResolve
<1>7. QED
  BY <1>1, <1>2, <1>3, <1>4, <1>5, <1>6 DEF Start

\* Every request that comes in keeps the types.
LEMMA StartType ==
  ASSUME TypeOK, NEW r \in Requests, Start(r)
  PROVE  TypeOK'
<1>1. CASE ReceiveNew(r)
  <2>1. [Idle EXCEPT !.kind = "webhook", !.stage = "insert"] \in Job
    BY IdleType DEF Job, Kinds, Stages
  <2>2. QED
    BY <1>1, <2>1 DEF ReceiveNew, TypeOK
<1>2. CASE ReceiveRecurrence(r)
  <2>1. [Idle EXCEPT !.kind = "webhook", !.stage = "reopen", !.mem = row] \in Job
    BY IdleType DEF Job, Kinds, Stages, TypeOK
  <2>2. QED
    BY <1>2, <2>1 DEF ReceiveRecurrence, TypeOK
<1>3. ASSUME NEW kind \in Kinds, NEW plan \in Seq(Solution),
             NEW target \in {"ANALYZING", "EXECUTING", "RESOLVED", "RECEIVED"},
             Begin(r, kind, target, plan)
      PROVE  TypeOK'
  <2>1. [Idle EXCEPT !.kind = kind, !.stage = "commit", !.goal = target, !.plan = plan] \in Job
    BY IdleType DEF Job, Stages, IncidentState
  <2>2. QED
    BY <1>3, <2>1 DEF Begin, TypeOK
<1>4. QED
  BY <1>1, <1>2, <1>3, StartShape

\* Every step of a request in flight keeps the types.
LEMMA StepType ==
  ASSUME TypeOK, NEW r \in Requests, Step(r)
  PROVE  TypeOK'
<1>0. job[r] \in Job /\ job[r].mem \in Row /\ job[r].plan \in Seq(Solution)
  BY DEF TypeOK, Job
<1>1. CASE Insert(r)
  BY <1>1, IdleType, RowTypes DEF Insert, Becomes, TypeOK
<1>2. CASE Reopen(r)
  BY <1>0, <1>2, IdleType, ReopenedType DEF Reopen, Becomes, TypeOK
<1>3. CASE Commit(r)
  <2>1. [job[r] EXCEPT !.stage = "refresh"] \in Job
    BY <1>0 DEF Job, Stages
  <2>2. row' \in Row
    BY <1>0, <1>3 DEF Commit, TypeOK, Row, Job
  <2>3. QED
    BY <1>3, <2>1, <2>2 DEF Commit, TypeOK
<1>4. CASE Refresh(r)
  <2> DEFINE next == NextStage(job[r].kind, job[r].goal)
             j == [job[r] EXCEPT !.stage = next, !.goal = "ABSENT",
                     !.mem  = IF next \in Holding THEN row ELSE NoRow,
                     !.plan = IF next = "run" THEN row.sols ELSE @]
  <2>1. next \in Stages
    BY NextStageType DEF Stages
  <2>2. j \in Job
    <3> HIDE DEF next
    <3> QED
      BY <1>0, <2>1, RowTypes DEF Job, Row, TypeOK
  <2>3. job' = [job EXCEPT ![r] = IF next = "idle" THEN Idle ELSE j]
    BY <1>4 DEF Refresh, Becomes
  <2> HIDE DEF j, next
  <2>4. QED
    BY <1>4, <2>2, <2>3, IdleType DEF Refresh, TypeOK
<1>5. CASE Analyse(r)
  <2>1. PICK result \in Results :
          /\ row' \in Saved(row, job[r].mem, result.solutions)
          /\ Becomes(r, IF Validate(result)
                        THEN Transitioned([job[r] EXCEPT !.mem.sols = result.solutions,
                                                         !.plan = result.solutions],
                                          "PENDING_APPROVAL")
                        ELSE Idle)
    BY <1>5 DEF Analyse
  <2>2. result.solutions \in Seq(Solution)
    BY <2>1, ResultsAssumption DEF AnalysisResult
  <2>3. row' \in Row
    BY <1>0, <2>1, <2>2, SavedType DEF TypeOK
  <2>4. [job[r] EXCEPT !.mem.sols = result.solutions, !.plan = result.solutions] \in Job
    BY <1>0, <2>2 DEF Job, Row
  <2>5. Transitioned([job[r] EXCEPT !.mem.sols = result.solutions,
                                    !.plan = result.solutions],
                     "PENDING_APPROVAL") \in Job
    BY <2>4, TransitionedType DEF IncidentState
  <2>6. QED
    BY <1>5, <2>1, <2>3, <2>5, IdleType DEF Analyse, Becomes, TypeOK
<1>6. CASE Notify(r)
  BY <1>0, <1>6, IdleType DEF Notify, Becomes, TypeOK, ApprovalRequest, Message
<1>7. CASE SkipAction(r)
  <2>1. Tail(job[r].plan) \in Seq(Solution)
    BY <1>0, <1>7 DEF SkipAction, Running
  <2>2. [job[r] EXCEPT !.plan = Tail(@)] \in Job
    BY <1>0, <2>1 DEF Job
  <2>3. QED
    BY <1>7, <2>2 DEF SkipAction, TypeOK
<1>8. CASE ActionSucceeds(r)
  <2>1. PICK undo \in {job[r].undo, job[r].undo + 1} :
          job' = [job EXCEPT ![r].plan = Tail(@), ![r].undo = undo]
    BY <1>8 DEF ActionSucceeds
  <2>2. Tail(job[r].plan) \in Seq(Solution)
    BY <1>0, <1>8 DEF ActionSucceeds, Running
  <2>3. undo \in Nat
    BY <1>0, <2>1 DEF Job
  <2>4. [job[r] EXCEPT !.plan = Tail(@), !.undo = undo] \in Job
    BY <1>0, <2>2, <2>3 DEF Job
  <2>5. QED
    BY <1>8, <2>1, <2>4 DEF ActionSucceeds, TypeOK
<1>9. CASE ActionFails(r)
  <2>1. [job[r] EXCEPT !.plan = << >>] \in Job
    BY <1>0, EmptyPlan DEF Job
  <2>2. Transitioned([job[r] EXCEPT !.plan = << >>], "ROLLING_BACK") \in Job
    BY <2>1, TransitionedType DEF IncidentState
  <2>3. QED
    BY <1>9, <2>2 DEF ActionFails, Becomes, TypeOK
<1>10. CASE SendReport(r)
  <2>1. Report \in Message
    BY EmptyPlan DEF Report, Message
  <2>2. slack' \subseteq Message
    BY <1>10, <2>1 DEF SendReport, TypeOK
  <2>3. QED
    BY <1>10, <2>2, IdleType DEF SendReport, Becomes, TypeOK
<1>11. CASE Undo(r)
  <2>1. [job[r] EXCEPT !.undo = @ - 1] \in Job
    BY <1>0, <1>11 DEF Undo, Job
  <2>2. QED
    BY <1>11, <2>1 DEF Undo, TypeOK
<1>12. CASE CountRetry(r)
  <2> DEFINE n == CountedRetry(job[r].mem.retry)
  <2>1. n \in Nat
    BY <1>0 DEF CountedRetry, Row
  <2>2. RetryTarget(n) \in IncidentState
    BY DEF RetryTarget, IncidentState
  <2>3. [job[r] EXCEPT !.mem.retry = n] \in Job
    BY <1>0, <2>1 DEF Job, Row
  <2>4. Transitioned([job[r] EXCEPT !.mem.retry = n], RetryTarget(n)) \in Job
    BY <2>2, <2>3, TransitionedType
  <2>5. [row EXCEPT !.retry = n] \in Row
    BY <2>1 DEF TypeOK, Row
  <2>6. rollbacks' \in 0 .. RetryLimit
    BY <1>12 DEF CountRetry, TypeOK, RetryLimit
  <2>7. QED
    BY <1>12, <2>4, <2>5, <2>6 DEF CountRetry, Becomes, TypeOK
<1>13. CASE UpdateMessage(r)
  BY <1>13, IdleType DEF UpdateMessage, Becomes, TypeOK
<1>14. CASE PatchStatus(r)
  BY <1>14, IdleType DEF PatchStatus, Becomes, TypeOK
<1>15. QED
  BY <1>1, <1>2, <1>3, <1>4, <1>5, <1>6, <1>7, <1>8, <1>9, <1>10, <1>11, <1>12,
     <1>13, <1>14 DEF Step

\* Faults keep the types.
LEMMA FaultType ==
  ASSUME TypeOK, (\E r \in Requests : Abort(r)) \/ Crash
  PROVE  TypeOK'
BY IdleType DEF Abort, Crash, Becomes, TypeOK

\* Every variable always has its type: whatever the requests do, the row's
\* state is one of the seven of IncidentState and retry_count is a natural.
THEOREM TypeCorrect == Spec => []TypeOK
<1>1. Init => TypeOK
  BY InitType
<1>2. TypeOK /\ [Next]_vars => TypeOK'
  <2> SUFFICES ASSUME TypeOK, [Next]_vars
               PROVE  TypeOK'
    OBVIOUS
  <2>1. CASE Next
    BY <2>1, StartType, StepType, FaultType DEF Next
  <2>2. CASE UNCHANGED vars
    BY <2>2 DEF vars, TypeOK
  <2>3. QED
    BY <2>1, <2>2
<1>3. QED
  BY <1>1, <1>2, PTL DEF Spec

-----------------------------------------------------------------------------
(***************************************************************************)
(* No early escalation.  execute_incident decides with the retry_count its *)
(* own session read, which others may have moved since.  What saves the    *)
(* rule is that no copy of retry_count, in the row or in a session, is     *)
(* ever ahead of the rollbacks made.                                       *)
(***************************************************************************)
NotAhead ==
  rollbacks < RetryLimit =>
    /\ row.state # "ESCALATED"
    /\ row.retry =< rollbacks
    /\ \A r \in Requests : job[r].goal # "ESCALATED" /\ job[r].mem.retry =< rollbacks

\* A request that ended holds no retry and no goal.
LEMMA IdleBlank == Idle.goal = "ABSENT" /\ Idle.mem = NoRow /\ NoRow.retry = 0
BY DEF Idle, NoRow

\* NotAhead survives every step that counts no retry, sets no higher
\* retry_count and heads for no escalation.
LEMMA NotAheadFrame ==
  ASSUME TypeOK, NotAhead, NEW r \in Requests, NEW j \in Job,
         job' = [job EXCEPT ![r] = j], UNCHANGED rollbacks,
         j.goal \in {"ABSENT", job[r].goal} \/ j.goal # "ESCALATED",
         j.mem.retry \in {0, row.retry, job[r].mem.retry},
         row'.retry \in {0, row.retry},
         row'.state \in {row.state, job[r].goal} \/ row'.state # "ESCALATED"
  PROVE  NotAhead'
BY DEF NotAhead, TypeOK, RetryLimit

\* No request that comes in disturbs it.
LEMMA NotAheadStart ==
  ASSUME TypeOK, TypeOK', NotAhead, NEW r \in Requests, Start(r)
  PROVE  NotAhead'
<1>0. job'[r] \in Job /\ row.retry \in Nat
  BY DEF TypeOK, Row
<1>1. CASE ReceiveNew(r)
  <2>1. /\ job' = [job EXCEPT ![r] = job'[r]]
        /\ job'[r].goal = "ABSENT" /\ job'[r].mem.retry = 0
    BY <1>1, IdleBlank DEF ReceiveNew, TypeOK, Idle
  <2>2. QED
    BY <1>0, <1>1, <2>1, NotAheadFrame DEF ReceiveNew
<1>2. CASE ReceiveRecurrence(r)
  <2>1. /\ job' = [job EXCEPT ![r] = job'[r]]
        /\ job'[r].goal = "ABSENT" /\ job'[r].mem = row
    BY <1>2 DEF ReceiveRecurrence, TypeOK, Idle
  <2>2. QED
    BY <1>0, <1>2, <2>1, NotAheadFrame DEF ReceiveRecurrence
<1>3. ASSUME NEW kind, NEW target \in {"ANALYZING", "EXECUTING", "RESOLVED", "RECEIVED"},
             NEW plan, Begin(r, kind, target, plan)
      PROVE  NotAhead'
  <2>1. /\ job' = [job EXCEPT ![r] = job'[r]]
        /\ job'[r].goal = target /\ job'[r].mem.retry = 0
    BY <1>3, IdleBlank DEF Begin, TypeOK, Idle
  <2>2. QED
    BY <1>0, <1>3, <2>1, NotAheadFrame DEF Begin
<1>4. QED
  BY <1>1, <1>2, <1>3, StartShape

\* No step of a request in flight disturbs it; CountRetry, the one that
\* counts a retry, also counts the rollback.
LEMMA NotAheadStep ==
  ASSUME TypeOK, TypeOK', NotAhead, NEW r \in Requests, Step(r)
  PROVE  NotAhead'
<1>0. /\ job[r] \in Job /\ job'[r] \in Job
      /\ row \in Row /\ job[r].mem \in Row /\ row.retry \in Nat
  BY DEF TypeOK, Row, Job
<1>1. CASE CountRetry(r)
  <2> DEFINE n == CountedRetry(job[r].mem.retry)
  <2>1. SUFFICES ASSUME rollbacks' < RetryLimit
                 PROVE  NotAhead'
    BY DEF NotAhead
  <2>2. rollbacks < RetryLimit /\ rollbacks' = rollbacks + 1
    BY <1>1, <2>1 DEF CountRetry, TypeOK, RetryLimit
  <2>3. n =< rollbacks' /\ n < RetryLimit
    BY <1>0, <2>1, <2>2 DEF NotAhead, TypeOK, RetryLimit, CountedRetry, Row
  <2>4. job' = [job EXCEPT ![r] = Transitioned([job[r] EXCEPT !.mem.retry = n], "RECEIVED")]
    BY <1>1, <2>3 DEF CountRetry, Becomes, RetryTarget
  <2>5. job'[r].goal # "ESCALATED" /\ job'[r].mem.retry = 0
    BY <1>0, <2>4, IdleBlank DEF Transitioned, TypeOK, Job
  <2>6. row'.state = row.state /\ row'.retry = n
    BY <1>0, <1>1 DEF CountRetry, Row
  <2>7. \A q \in Requests : q # r => job'[q] = job[q]
    BY <2>4 DEF TypeOK
  <2> HIDE DEF n
  <2>8. /\ row.state # "ESCALATED" /\ rollbacks \in Nat
        /\ \A q \in Requests : job[q].goal # "ESCALATED" /\ job[q].mem.retry =< rollbacks
    BY <2>2 DEF NotAhead, TypeOK, RetryLimit
  <2>9. \A q \in Requests : job[q].mem.retry \in Nat
    BY DEF TypeOK, Job, Row
  <2>10. \A q \in Requests : job'[q].goal # "ESCALATED" /\ job'[q].mem.retry =< rollbacks'
    BY <2>2, <2>5, <2>7, <2>8, <2>9
  <2>11. QED
    BY <2>3, <2>6, <2>8, <2>10 DEF NotAhead
<1>2. ASSUME ~CountRetry(r)
      PROVE  /\ job' = [job EXCEPT ![r] = job'[r]]
             /\ UNCHANGED rollbacks
             /\ job'[r].goal \in {"ABSENT", job[r].goal} \/ job'[r].goal # "ESCALATED"
             /\ job'[r].mem.retry \in {0, row.retry, job[r].mem.retry}
             /\ row'.retry \in {0, row.retry}
             /\ row'.state \in {row.state, job[r].goal} \/ row'.state # "ESCALATED"
  <2>1. CASE Insert(r)
    BY <1>0, <2>1, IdleBlank DEF Insert, Becomes, TypeOK, NewRow
  <2>2. CASE Reopen(r)
    BY <1>0, <2>2, IdleBlank, ReopenedType DEF Reopen, Becomes, TypeOK
  <2>3. CASE Commit(r)
    BY <1>0, <2>3 DEF Commit, TypeOK, Row, Job
  <2>4. CASE Refresh(r)
    <3> DEFINE next == NextStage(job[r].kind, job[r].goal)
               j == [job[r] EXCEPT !.stage = next, !.goal = "ABSENT",
                       !.mem  = IF next \in Holding THEN row ELSE NoRow,
                       !.plan = IF next = "run" THEN row.sols ELSE @]
    <3>1. job' = [job EXCEPT ![r] = IF next = "idle" THEN Idle ELSE j]
      BY <2>4 DEF Refresh, Becomes
    <3>2. j.goal = "ABSENT" /\ j.mem \in {row, NoRow}
      <4> HIDE DEF next
      <4> QED
        BY <1>0 DEF Job
    <3> HIDE DEF next, j
    <3>3. job'[r] \in {Idle, j}
      BY <3>1 DEF TypeOK
    <3>4. QED
      BY <1>0, <2>4, <3>1, <3>2, <3>3, IdleBlank DEF Refresh, TypeOK
  <2>5. CASE Analyse(r)
    <3>1. PICK result \in Results :
            /\ row' \in Saved(row, job[r].mem, result.solutions)
            /\ Becomes(r, IF Validate(result)
                          THEN Transitioned([job[r] EXCEPT !.mem.sols = result.solutions,
                                                           !.plan = result.solutions],
                                            "PENDING_APPROVAL")
                          ELSE Idle)
      BY <2>5 DEF Analyse
    <3>2. result.solutions \in Seq(Solution)
      BY <3>1, ResultsAssumption DEF AnalysisResult
    <3>3. job'[r].goal \in {"ABSENT", "PENDING_APPROVAL"} /\ job'[r].mem = NoRow
      BY <1>0, <3>1, IdleBlank DEF Becomes, Transitioned, TypeOK, Job
    <3>4. row'.state = row.state /\ row'.retry = row.retry
      BY <1>0, <3>1, <3>2, SavedType
    <3>5. QED
      BY <1>0, <2>5, <3>1, <3>3, <3>4, IdleBlank DEF Analyse, Becomes, TypeOK
  <2>6. CASE Notify(r) \/ SendReport(r) \/ UpdateMessage(r) \/ PatchStatus(r)
    BY <1>0, <2>6, IdleBlank
       DEF Notify, SendReport, UpdateMessage, PatchStatus, Becomes, TypeOK
  <2>7. CASE SkipAction(r) \/ ActionSucceeds(r) \/ Undo(r)
    <3>1. UNCHANGED <<row, rollbacks>> /\ job' = [job EXCEPT ![r] = job'[r]]
      BY <2>7 DEF SkipAction, ActionSucceeds, Undo, TypeOK
    <3>2. job'[r].goal = job[r].goal /\ job'[r].mem = job[r].mem
      BY <1>0, <2>7 DEF SkipAction, ActionSucceeds, Undo, TypeOK, Job
    <3>3. QED
      BY <3>1, <3>2
  <2>8. CASE ActionFails(r)
    <3>1. job'[r].goal \in {"ABSENT", "ROLLING_BACK"} /\ job'[r].mem = NoRow
      BY <1>0, <2>8, IdleBlank DEF ActionFails, Becomes, Transitioned, TypeOK, Job
    <3>2. QED
      BY <2>8, <3>1, IdleBlank DEF ActionFails, Becomes, TypeOK
  <2>9. QED
    BY <1>2, <2>1, <2>2, <2>3, <2>4, <2>5, <2>6, <2>7, <2>8 DEF Step
<1>3. QED
  BY <1>0, <1>1, <1>2, NotAheadFrame

\* Faults end requests and touch no row.
LEMMA NotAheadFault ==
  ASSUME TypeOK, NotAhead, (\E r \in Requests : Abort(r)) \/ Crash
  PROVE  NotAhead'
<1>1. CASE Crash
  BY <1>1, IdleBlank DEF Crash, NotAhead, TypeOK, RetryLimit
<1>2. ASSUME NEW r \in Requests, Abort(r)
      PROVE  NotAhead'
  BY <1>2, IdleBlank DEF Abort, Becomes, NotAhead, TypeOK, RetryLimit
<1>3. QED
  BY <1>1, <1>2

\* An incident is never ESCALATED before three rollbacks have been counted,
\* however many requests overlap, abort or die.
THEOREM NeverEscalatedEarly == Spec => []NoEarlyEscalation
<1>1. Init => NotAhead
  BY IdleBlank DEF Init, NotAhead, NoRow
<1>2. TypeOK /\ TypeOK' /\ NotAhead /\ [Next]_vars => NotAhead'
  <2> SUFFICES ASSUME TypeOK, TypeOK', NotAhead, [Next]_vars
               PROVE  NotAhead'
    OBVIOUS
  <2>1. CASE Next
    BY <2>1, NotAheadStart, NotAheadStep, NotAheadFault DEF Next
  <2>2. CASE UNCHANGED vars
    BY <2>2 DEF vars, NotAhead
  <2>3. QED
    BY <2>1, <2>2
<1>3. TypeOK /\ NotAhead => NoEarlyEscalation
  BY DEF TypeOK, NotAhead, NoEarlyEscalation, RetryLimit
<1>4. QED
  BY <1>1, <1>2, <1>3, TypeCorrect, PTL DEF Spec

-----------------------------------------------------------------------------
(***************************************************************************)
(* Only validated solutions are put before people.  From the validator to  *)
(* the message the list stays in the request: it is the one written to the *)
(* row, but is not read back from there.                                   *)
(***************************************************************************)
Proposing(r) ==
  \/ At(r, "notify")
  \/ job[r].stage \in {"commit", "refresh"} /\ job[r].goal = "PENDING_APPROVAL"

ProposalsAreWellFormed ==
  /\ ApprovalsAreWellFormed
  /\ \A r \in Requests : Proposing(r) => WellFormed(job[r].plan)

\* What validate() lets through is well formed: the action types it admits
\* are the ones the agent has in its registry.
LEMMA ValidatedIsWellFormed ==
  ASSUME NEW result, Validate(result)
  PROVE  WellFormed(result.solutions)
BY DEF Validate, ValidSolution, WellFormed, VALID_ACTION_TYPES, Registered

\* A handler that comes to send_approval_request has just moved the incident
\* to PENDING_APPROVAL.
LEMMA NotifyAfterProposal ==
  ASSUME NEW kind, NEW goal, NextStage(kind, goal) = "notify"
  PROVE  goal = "PENDING_APPROVAL"
BY DEF NextStage

\* A step of one request after which that request proposes a well-formed
\* list or none, and which posts no approval but such a one, is harmless.
LEMMA ProposalFrame ==
  ASSUME TypeOK, ProposalsAreWellFormed, NEW r \in Requests,
         job' = [job EXCEPT ![r] = job'[r]],
         Proposing(r)' => WellFormed(job'[r].plan),
         \A m \in slack' \ slack : m.kind = "approval" => WellFormed(m.sols)
  PROVE  ProposalsAreWellFormed'
BY DEF ProposalsAreWellFormed, ApprovalsAreWellFormed, Proposing, At, TypeOK

\* No step of a request, coming in or in flight, disturbs it.
LEMMA ProposalStep ==
  ASSUME TypeOK, ProposalsAreWellFormed, NEW r \in Requests, Start(r) \/ Step(r)
  PROVE  ProposalsAreWellFormed'
<1>0. job[r] \in Job
  BY DEF TypeOK
<1>1. ASSUME job' = [job EXCEPT ![r] = job'[r]],
             Proposing(r)' => WellFormed(job'[r].plan),
             \A m \in slack' \ slack : m.kind = "approval" => WellFormed(m.sols)
      PROVE  ProposalsAreWellFormed'
  BY <1>1, ProposalFrame
<1>2. CASE Start(r)
  <2>1. CASE ReceiveNew(r) \/ ReceiveRecurrence(r)
    BY <1>1, <2>1 DEF ReceiveNew, ReceiveRecurrence, Idle, Proposing, At, TypeOK
  <2>2. ASSUME NEW kind, NEW plan,
               NEW target \in {"ANALYZING", "EXECUTING", "RESOLVED", "RECEIVED"},
               Begin(r, kind, target, plan)
        PROVE  ProposalsAreWellFormed'
    BY <1>1, <2>2 DEF Begin, Idle, Proposing, At, TypeOK
  <2>3. QED
    BY <1>2, <2>1, <2>2, StartShape
<1>3. CASE Insert(r) \/ Reopen(r) \/ SendReport(r) \/ UpdateMessage(r) \/ PatchStatus(r)
  BY <1>1, <1>3 DEF Insert, Reopen, SendReport, UpdateMessage, PatchStatus, Becomes,
              Idle, Report, Proposing, At, TypeOK
<1>4. CASE Commit(r)
  BY <1>0, <1>1, <1>4 DEF Commit, ProposalsAreWellFormed, Proposing, At, TypeOK, Job
<1>5. CASE Refresh(r)
  <2> DEFINE next == NextStage(job[r].kind, job[r].goal)
             j == [job[r] EXCEPT !.stage = next, !.goal = "ABSENT",
                     !.mem  = IF next \in Holding THEN row ELSE NoRow,
                     !.plan = IF next = "run" THEN row.sols ELSE @]
  <2>1. /\ job' = [job EXCEPT ![r] = IF next = "idle" THEN Idle ELSE j]
        /\ UNCHANGED slack
    BY <1>5 DEF Refresh, Becomes
  <2>2. next = "notify" => WellFormed(job[r].plan)
    BY <1>5, NotifyAfterProposal DEF Refresh, ProposalsAreWellFormed, Proposing, At
  <2>3. j.stage = next /\ j.goal = "ABSENT" /\ (next = "notify" => j.plan = job[r].plan)
    <3> HIDE DEF next
    <3> QED
      BY <1>0 DEF Job
  <2> HIDE DEF next, j
  <2>4. job'[r] \in {Idle, j}
    BY <2>1 DEF TypeOK
  <2>5. QED
    BY <1>1, <2>1, <2>2, <2>3, <2>4 DEF Proposing, At, TypeOK, Idle
<1>6. CASE Analyse(r)
  <2>1. PICK result \in Results :
          Becomes(r, IF Validate(result)
                     THEN Transitioned([job[r] EXCEPT !.mem.sols = result.solutions,
                                                      !.plan = result.solutions],
                                       "PENDING_APPROVAL")
                     ELSE Idle)
    BY <1>6 DEF Analyse
  <2>2. \/ job'[r] = Idle
        \/ job'[r].plan = result.solutions /\ WellFormed(result.solutions)
    BY <1>0, <2>1, ValidatedIsWellFormed DEF Becomes, Transitioned, TypeOK, Job
  <2>3. QED
    BY <1>1, <1>6, <2>1, <2>2 DEF Analyse, Becomes, Proposing, At, TypeOK, Idle
<1>7. CASE Notify(r)
  <2>1. WellFormed(job[r].plan)
    BY <1>7 DEF Notify, ProposalsAreWellFormed, Proposing
  <2>2. QED
    BY <1>1, <1>7, <2>1 DEF Notify, Becomes, ApprovalRequest, Idle, Proposing, At, TypeOK
<1>8. CASE SkipAction(r) \/ ActionSucceeds(r) \/ Undo(r)
  <2>1. job' = [job EXCEPT ![r] = job'[r]] /\ UNCHANGED slack
    BY <1>8 DEF SkipAction, ActionSucceeds, Undo, TypeOK
  <2>2. job'[r].stage \in {"run", "undo"}
    BY <1>0, <1>8 DEF SkipAction, ActionSucceeds, Undo, Running, At, TypeOK, Job
  <2>3. QED
    BY <1>1, <2>1, <2>2 DEF Proposing, At
<1>9. ASSUME NEW j \in Job, NEW target \in IncidentState \ {"PENDING_APPROVAL"},
             Becomes(r, Transitioned(j, target)), UNCHANGED slack
      PROVE  ProposalsAreWellFormed'
  <2>1. job'[r].goal # "PENDING_APPROVAL" /\ job'[r].stage # "notify"
    BY <1>9 DEF Becomes, Transitioned, Job, Idle, TypeOK
  <2>2. QED
    BY <1>1, <1>9, <2>1 DEF Becomes, Proposing, At, TypeOK
<1>10. CASE ActionFails(r)
  <2>1. [job[r] EXCEPT !.plan = << >>] \in Job
    BY <1>0, EmptyPlan DEF Job
  <2>2. QED
    BY <1>9, <1>10, <2>1 DEF ActionFails, IncidentState
<1>11. CASE CountRetry(r)
  <2> DEFINE n == CountedRetry(job[r].mem.retry)
  <2>1. [job[r] EXCEPT !.mem.retry = n] \in Job
    <3>1. job[r] \in Job /\ job[r].mem \in Row /\ n \in Nat
      BY <1>0 DEF Job, Row, CountedRetry
    <3> HIDE DEF n
    <3>2. [job[r].mem EXCEPT !.retry = n] \in Row
      BY <3>1 DEF Row
    <3>3. QED
      BY <3>1, <3>2 DEF Job
  <2>2. RetryTarget(n) \in IncidentState \ {"PENDING_APPROVAL"}
    BY DEF RetryTarget, IncidentState
  <2>3. QED
    BY <1>9, <1>11, <2>1, <2>2 DEF CountRetry
<1>12. QED
  BY <1>2, <1>3, <1>4, <1>5, <1>6, <1>7, <1>8, <1>10, <1>11 DEF Step

\* Whatever overlaps and whatever fails, nobody is asked in Slack to approve
\* a solution list that the validator would refuse.
THEOREM ApprovalsValidated == Spec => []ApprovalsAreWellFormed
<1>1. Init => ProposalsAreWellFormed
  BY DEF Init, ProposalsAreWellFormed, ApprovalsAreWellFormed, Proposing, At, Idle
<1>2. TypeOK /\ ProposalsAreWellFormed /\ [Next]_vars => ProposalsAreWellFormed'
  <2> SUFFICES ASSUME TypeOK, ProposalsAreWellFormed, [Next]_vars
               PROVE  ProposalsAreWellFormed'
    OBVIOUS
  <2>1. CASE \E r \in Requests : Start(r) \/ Step(r)
    BY <2>1, ProposalStep
  <2>2. CASE (\E r \in Requests : Abort(r)) \/ Crash
    BY <2>2 DEF Abort, Crash, Becomes, Idle, ProposalsAreWellFormed,
                ApprovalsAreWellFormed, Proposing, At, TypeOK
  <2>3. CASE UNCHANGED vars
    BY <2>3 DEF vars, ProposalsAreWellFormed, ApprovalsAreWellFormed, Proposing, At
  <2>4. QED
    BY <2>1, <2>2, <2>3 DEF Next
<1>3. ProposalsAreWellFormed => ApprovalsAreWellFormed
  BY DEF ProposalsAreWellFormed
<1>4. QED
  BY <1>1, <1>2, <1>3, TypeCorrect, PTL DEF Spec

-----------------------------------------------------------------------------
(***************************************************************************)
(* As long as no request aborts and the process lives, a rollback is never *)
(* orphaned, however many requests overlap.                                *)
(***************************************************************************)

\* Only execute_incident runs actions or heads for ROLLING_BACK.
MayRollBack(r) ==
  \/ At(r, "run")
  \/ job[r].stage \in {"commit", "refresh"} /\ job[r].goal = "ROLLING_BACK"

OnlyExecuteRollsBack == \A r \in Requests : MayRollBack(r) => job[r].kind = "execute"

RollbackInv == RollbackOwned /\ OnlyExecuteRollsBack

\* A handler that comes to the loop over the solutions is execute_incident.
LEMMA RunIsExecute ==
  ASSUME NEW kind, NEW goal, NextStage(kind, goal) = "run"
  PROVE  kind = "execute"
BY DEF NextStage

\* After ROLLING_BACK execute_incident goes on to rollback_actions.
LEMMA UndoFollowsRollback == NextStage("execute", "ROLLING_BACK") = "undo"
BY DEF NextStage

\* A step of a request that is not the owner of the rollback, or after which
\* it still is, and that leaves the rest to hold.
LEMMA RollbackFrame ==
  ASSUME TypeOK, RollbackInv, NEW r \in Requests,
         job' = [job EXCEPT ![r] = job'[r]],
         row'.state = "ROLLING_BACK" =>
           RollsBack(r)' \/ (row.state = "ROLLING_BACK" /\ ~RollsBack(r)),
         MayRollBack(r)' => job'[r].kind = "execute"
  PROVE  RollbackInv'
<1>1. RollbackOwned'
  <2>1. SUFFICES ASSUME row'.state = "ROLLING_BACK", ~RollsBack(r)'
                 PROVE  \E q \in Requests : RollsBack(q)'
    BY DEF RollbackOwned
  <2>2. PICK q \in Requests : RollsBack(q) /\ q # r
    BY <2>1 DEF RollbackInv, RollbackOwned
  <2>3. RollsBack(q)'
    BY <2>2 DEF RollsBack, At, TypeOK
  <2>4. QED
    BY <2>3
<1>2. OnlyExecuteRollsBack'
  BY DEF RollbackInv, OnlyExecuteRollsBack, MayRollBack, At, TypeOK
<1>3. QED
  BY <1>1, <1>2 DEF RollbackInv

\* No step of a request, coming in or in flight, orphans a rollback.
LEMMA RollbackStep ==
  ASSUME TypeOK, RollbackInv, NEW r \in Requests, Start(r) \/ Step(r)
  PROVE  RollbackInv'
<1>0. /\ job[r] \in Job /\ job[r].mem \in Row /\ row \in Row
  BY DEF TypeOK, Job
<1>1. ASSUME job' = [job EXCEPT ![r] = job'[r]],
             row'.state = "ROLLING_BACK" =>
               RollsBack(r)' \/ (row.state = "ROLLING_BACK" /\ ~RollsBack(r)),
             MayRollBack(r)' => job'[r].kind = "execute"
      PROVE  RollbackInv'
  BY <1>1, RollbackFrame
<1>2. CASE Start(r)
  <2>1. CASE ReceiveNew(r) \/ ReceiveRecurrence(r)
    BY <1>1, <2>1
       DEF ReceiveNew, ReceiveRecurrence, Idle, Free, RollsBack, MayRollBack, At, TypeOK
  <2>2. ASSUME NEW kind, NEW plan,
               NEW target \in {"ANALYZING", "EXECUTING", "RESOLVED", "RECEIVED"},
               Begin(r, kind, target, plan)
        PROVE  RollbackInv'
    BY <1>1, <2>2 DEF Begin, Idle, Free, RollsBack, MayRollBack, At, TypeOK
  <2>3. QED
    BY <1>2, <2>1, <2>2, StartShape
<1>3. CASE Insert(r) \/ Reopen(r)
  BY <1>0, <1>1, <1>3, ReopenedType
     DEF Insert, Reopen, Becomes, NewRow, Idle, RollsBack, MayRollBack, At, TypeOK
<1>4. CASE \/ Notify(r) \/ SendReport(r) \/ UpdateMessage(r) \/ PatchStatus(r)
  BY <1>1, <1>4 DEF Notify, SendReport, UpdateMessage, PatchStatus, Becomes, Idle,
                    RollsBack, MayRollBack, At, TypeOK
<1>5. CASE Commit(r)
  <2>1. job'[r] = [job[r] EXCEPT !.stage = "refresh"] /\ row'.state = job[r].goal
    BY <1>0, <1>5 DEF Commit, TypeOK, Row
  <2>2. job'[r].stage = "refresh" /\ job'[r].goal = job[r].goal /\ job'[r].kind = job[r].kind
    BY <1>0, <2>1 DEF Job
  <2>3. job[r].goal = "ROLLING_BACK" => job[r].kind = "execute"
    BY <1>5 DEF Commit, RollbackInv, OnlyExecuteRollsBack, MayRollBack, At
  <2>4. QED
    BY <1>1, <1>5, <2>1, <2>2, <2>3 DEF Commit, RollsBack, MayRollBack, At, TypeOK
<1>6. CASE Refresh(r)
  <2> DEFINE next == NextStage(job[r].kind, job[r].goal)
             j == [job[r] EXCEPT !.stage = next, !.goal = "ABSENT",
                     !.mem  = IF next \in Holding THEN row ELSE NoRow,
                     !.plan = IF next = "run" THEN row.sols ELSE @]
  <2>1. /\ job' = [job EXCEPT ![r] = IF next = "idle" THEN Idle ELSE j]
        /\ UNCHANGED row
    BY <1>6 DEF Refresh, Becomes
  <2>2. /\ j.stage = next /\ j.goal = "ABSENT" /\ j.kind = job[r].kind
        /\ next = "undo" => j.mem = row
    <3> HIDE DEF next
    <3> QED
      BY <1>0 DEF Job, Holding
  <2>3. next = "run" => job[r].kind = "execute"
    BY RunIsExecute
  <2>4. RollsBack(r) => next = "undo" /\ job[r].kind = "execute"
    BY <1>6, UndoFollowsRollback DEF Refresh, RollsBack, At
  <2>5. next \notin {"commit", "refresh"}
    BY NextStageType
  <2> HIDE DEF next, j
  <2>6. job'[r] = IF next = "idle" THEN Idle ELSE j
    BY <2>1 DEF TypeOK
  <2>7. QED
    BY <1>1, <2>1, <2>2, <2>3, <2>4, <2>5, <2>6 DEF RollsBack, MayRollBack, At, TypeOK, Idle
<1>7. CASE Analyse(r)
  <2>1. PICK result \in Results :
          /\ row' \in Saved(row, job[r].mem, result.solutions)
          /\ Becomes(r, IF Validate(result)
                        THEN Transitioned([job[r] EXCEPT !.mem.sols = result.solutions,
                                                         !.plan = result.solutions],
                                          "PENDING_APPROVAL")
                        ELSE Idle)
    BY <1>7 DEF Analyse
  <2>2. row'.state = row.state
    BY <1>0, <2>1, SavedType, ResultsAssumption DEF AnalysisResult
  <2>3. \/ job'[r] = Idle
        \/ job'[r].stage = "commit" /\ job'[r].goal = "PENDING_APPROVAL"
    BY <1>0, <2>1 DEF Becomes, Transitioned, TypeOK, Job
  <2>4. QED
    BY <1>1, <1>7, <2>1, <2>2, <2>3
       DEF Analyse, Becomes, RollsBack, MayRollBack, At, TypeOK, Idle
<1>8. CASE SkipAction(r) \/ ActionSucceeds(r)
  <2>1. UNCHANGED row /\ job' = [job EXCEPT ![r] = job'[r]] /\ At(r, "run")
    BY <1>8 DEF SkipAction, ActionSucceeds, Running, TypeOK
  <2>2. job'[r].stage = "run" /\ job'[r].kind = job[r].kind
    BY <1>0, <1>8, <2>1 DEF SkipAction, ActionSucceeds, At, TypeOK, Job
  <2>3. QED
    BY <1>1, <2>1, <2>2 DEF RollbackInv, OnlyExecuteRollsBack, MayRollBack, RollsBack, At
<1>9. CASE Undo(r)
  <2>1. UNCHANGED row /\ job' = [job EXCEPT ![r] = job'[r]] /\ At(r, "undo")
    BY <1>9 DEF Undo, TypeOK
  <2>2. job'[r].stage = "undo" /\ job'[r].kind = job[r].kind /\ job'[r].mem = job[r].mem
    BY <1>0, <1>9 DEF Undo, At, TypeOK, Job
  <2>3. QED
    BY <1>1, <2>1, <2>2 DEF RollsBack, MayRollBack, At
<1>10. CASE ActionFails(r)
  <2>1. At(r, "run") /\ job[r].kind = "execute"
    BY <1>10 DEF ActionFails, Running, RollbackInv, OnlyExecuteRollsBack, MayRollBack
  <2>2. \/ job'[r] = Idle
        \/ job'[r].stage = "commit" /\ job'[r].kind = "execute"
    BY <1>0, <1>10, <2>1 DEF ActionFails, Becomes, Transitioned, TypeOK, Job
  <2>3. QED
    BY <1>1, <1>10, <2>1, <2>2
       DEF ActionFails, Becomes, RollsBack, MayRollBack, At, TypeOK, Idle
<1>11. CASE CountRetry(r)
  <2> DEFINE n == CountedRetry(job[r].mem.retry)
             j == [job[r] EXCEPT !.mem.retry = n]
  <2>1. row'.state = row.state /\ job' = [job EXCEPT ![r] = Transitioned(j, RetryTarget(n))]
    BY <1>0, <1>11 DEF CountRetry, Becomes, Row
  <2>2. RetryTarget(n) \in {"RECEIVED", "ESCALATED"}
    BY DEF RetryTarget
  <2>3. j.kind = job[r].kind /\ j.mem.state = job[r].mem.state
    BY <1>0 DEF Job, Row
  <2>4. RollsBack(r) => CanMove(j.mem.state, RetryTarget(n)) /\ j.kind = "execute"
    BY <1>11, <2>2, <2>3 DEF CountRetry, RollsBack, At, CanMove, ALLOWED_TRANSITIONS
  <2>5. j \in Job
    <3>1. n \in Nat
      BY <1>0 DEF Row, CountedRetry
    <3> HIDE DEF n
    <3>2. QED
      BY <1>0, <3>1 DEF Job, Row
  <2> HIDE DEF n, j
  <2>6. \/ job'[r] = Idle /\ ~RollsBack(r)
        \/ /\ job'[r].stage = "commit" /\ job'[r].goal \in {"RECEIVED", "ESCALATED"}
           /\ job'[r].kind = j.kind
    BY <2>1, <2>2, <2>4, <2>5 DEF Transitioned, TypeOK, Job
  <2>7. QED
    BY <1>1, <2>1, <2>4, <2>6 DEF RollsBack, MayRollBack, At, Idle, TypeOK
<1>12. QED
  BY <1>2, <1>3, <1>4, <1>5, <1>6, <1>7, <1>8, <1>9, <1>10, <1>11 DEF Step

\* Without faults, a row in ROLLING_BACK always has a request at work that is
\* going to take it out of there.
THEOREM RollbackAlwaysOwned == ASSUME Faults = FALSE PROVE Spec => []RollbackOwned
<1>1. Init => RollbackInv
  BY DEF Init, RollbackInv, RollbackOwned, OnlyExecuteRollsBack, MayRollBack, NoRow, At, Idle
<1>2. TypeOK /\ RollbackInv /\ [Next]_vars => RollbackInv'
  <2> SUFFICES ASSUME TypeOK, RollbackInv, [Next]_vars
               PROVE  RollbackInv'
    OBVIOUS
  <2>1. CASE \E r \in Requests : Start(r) \/ Step(r)
    BY <2>1, RollbackStep
  <2>2. CASE UNCHANGED vars
    BY <2>2 DEF vars, RollbackInv, RollbackOwned, OnlyExecuteRollsBack, MayRollBack, RollsBack, At
  <2>3. QED
    BY <2>1, <2>2 DEF Next, Abort, Crash
<1>3. RollbackInv => RollbackOwned
  BY DEF RollbackInv
<1>4. QED
  BY <1>1, <1>2, <1>3, TypeCorrect, PTL DEF Spec

=============================================================================
