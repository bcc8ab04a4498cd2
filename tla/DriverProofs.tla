---------------------------- MODULE DriverProofs ----------------------------
(***************************************************************************)
(* Theorems about LogFixer when one request at a time drives the incident, *)
(* while webhooks come in one at a time beside it: the row follows         *)
(* ALLOWED_TRANSITIONS, only validated plans are run, and, if nothing is   *)
(* raised and the process lives, LogFixer implements Lifecycle.  (With two *)
(* drivers, or two webhooks, the row does not: see OnlyAllowedTransitions.)*)
(***************************************************************************)
EXTENDS LogFixerProofs

-----------------------------------------------------------------------------
\* d is the request that drives the incident, w brings the webhooks.
OneDriver(d, w) ==
  /\ Requests = {d, w}
  /\ d # w
  /\ "webhook" \notin Serves[d]
  /\ Serves[w] \subseteq {"webhook"}

\* A webhook that is going to write has just seen the row it writes.
WebhookInv(w) ==
  /\ job[w].stage \in {"idle", "insert", "reopen"}
  /\ At(w, "insert") => row.state = "ABSENT"
  /\ At(w, "reopen") => row.state = "RESOLVED" /\ job[w].mem = row

\* What each stage of the driver knows of the row.  After the commit of
\* RESOLVED a webhook may reopen it, in every other state nobody else writes.
DriverInv(d) ==
  /\ job[d].stage \notin {"insert", "reopen"}
  /\ At(d, "commit") =>
       /\ CanMove(row.state, job[d].goal)
       /\ job[d].goal = "PENDING_APPROVAL" => WellFormed(row.sols)
  /\ At(d, "refresh") =>
       /\ job[d].goal \in IncidentState
       /\ job[d].goal # "RESOLVED" => row.state = job[d].goal
  /\ At(d, "llm") => row.state = "ANALYZING" /\ job[d].mem = row
  /\ At(d, "run") => /\ row.state = "EXECUTING" /\ job[d].mem = row
                     /\ job[d].plan # << >> => WellFormed(job[d].plan)
  /\ At(d, "undo") => row.state = "ROLLING_BACK" /\ job[d].mem = row

\* The stored plan is one the validator accepted when it is to be approved or run.
StoredPlan == row.state \in {"PENDING_APPROVAL", "EXECUTING"} => WellFormed(row.sols)

\* The inductive invariant.
SerialInv(d, w) == WebhookInv(w) /\ DriverInv(d) /\ StoredPlan

-----------------------------------------------------------------------------
(***************************************************************************)
(* What the actions are for each of the two.                               *)
(***************************************************************************)
\* The driver starts with a transition; an execution with that to EXECUTING.
LEMMA DriverStart ==
  ASSUME TypeOK, NEW d, NEW w, OneDriver(d, w), Start(d)
  PROVE  \E kind \in Kinds \ {"webhook"},
            target \in {"ANALYZING", "EXECUTING", "RESOLVED", "RECEIVED"},
            plan \in Seq(Solution) :
              Begin(d, kind, target, plan) /\ (kind = "execute" => target = "EXECUTING")
<1>0. /\ {"analyze", "execute", "resolve", "approve", "reject", "slackResolve"}
           \subseteq Kinds \ {"webhook"}
      /\ \A m \in slack : m.sols \in Seq(Solution)
  BY DEF Kinds, TypeOK, Message
<1>1. CASE Analyze(d)
  BY <1>0, <1>1, EmptyPlan DEF Analyze
<1>2. CASE Execute(d)
  BY <1>0, <1>2, EmptyPlan DEF Execute
<1>3. CASE Resolve(d)
  BY <1>0, <1>3, EmptyPlan DEF Resolve
<1>4. CASE Approve(d)
  BY <1>0, <1>4 DEF Approve
<1>5. CASE Reject(d)
  BY <1>0, <1>5 DEF Reject
<1>6. CASE SlackResolve(d)
  BY <1>0, <1>6 DEF SlackResolve
<1>7. ~ReceiveNew(d) /\ ~ReceiveRecurrence(d)
  BY DEF OneDriver, ReceiveNew, ReceiveRecurrence, Free
<1>8. QED
  BY <1>1, <1>2, <1>3, <1>4, <1>5, <1>6, <1>7 DEF Start

\* The other request only ever receives webhooks.
LEMMA WebhookShape ==
  ASSUME TypeOK, NEW d, NEW w, OneDriver(d, w), WebhookInv(w), Start(w) \/ Step(w)
  PROVE  ReceiveNew(w) \/ ReceiveRecurrence(w) \/ Insert(w) \/ Reopen(w)
<1>0. w \in Requests
  BY DEF OneDriver
<1>1. CASE Start(w)
  <2>1. ~ \E kind \in Kinds \ {"webhook"} : \E target, plan : Begin(w, kind, target, plan)
    BY DEF Begin, Free, OneDriver
  <2>2. QED
    BY <1>0, <1>1, <2>1, StartShape
<1>2. CASE Step(w)
  BY <1>2 DEF Step, WebhookInv, At, Running, Commit, Refresh, Analyse, Notify, SkipAction,
     ActionSucceeds, ActionFails, SendReport, Undo, CountRetry, UpdateMessage, PatchStatus
<1>3. QED
  BY <1>1, <1>2

\* The stage after a transition tells where it went.
LEMMA GoalOfStage ==
  ASSUME NEW kind, NEW goal
  PROVE  /\ NextStage(kind, goal) = "llm" => goal = "ANALYZING"
         /\ NextStage(kind, goal) = "run" => goal = "EXECUTING"
         /\ NextStage(kind, goal) = "undo" => goal = "ROLLING_BACK"
BY DEF NextStage

\* What is left of a well-formed plan is well formed.
LEMMA RestOfPlan ==
  ASSUME NEW sols \in Seq(Solution), WellFormed(sols), Tail(sols) # << >>
  PROVE  WellFormed(Tail(sols))
<1>1. sols # << >>
  BY DEF WellFormed
<1>2. \A i \in DOMAIN Tail(sols) : i + 1 \in DOMAIN sols /\ Tail(sols)[i] = sols[i + 1]
  BY <1>1
<1>3. QED
  BY <1>2 DEF WellFormed

-----------------------------------------------------------------------------
(***************************************************************************)
(* SerialInv is inductive.                                                 *)
(***************************************************************************)
\* Where the driver leaves the row as it is, or the row is one no webhook is
\* waiting to write, it does not disturb the webhook.
LEMMA DriverFrame ==
  ASSUME TypeOK, NEW d, NEW w, OneDriver(d, w), SerialInv(d, w),
         job' = [job EXCEPT ![d] = job'[d]],
         row' = row \/ row.state \notin {"ABSENT", "RESOLVED"},
         DriverInv(d)', StoredPlan'
  PROVE  SerialInv(d, w)'
<1>1. job'[w] = job[w]
  BY DEF OneDriver, TypeOK
<1>2. WebhookInv(w)'
  BY <1>1 DEF SerialInv, WebhookInv, At
<1>3. QED
  BY <1>2 DEF SerialInv

\* The driver keeps it.
LEMMA DriverStep ==
  ASSUME TypeOK, NEW d, NEW w, OneDriver(d, w), SerialInv(d, w), Start(d) \/ Step(d)
  PROVE  SerialInv(d, w)'
<1>0. /\ d \in Requests /\ row \in Row
      /\ job[d] \in Job /\ job[d].mem \in Row /\ job[d].plan \in Seq(Solution)
      /\ DriverInv(d) /\ StoredPlan
  BY DEF OneDriver, TypeOK, Job, SerialInv
<1>1. ASSUME job' = [job EXCEPT ![d] = job'[d]],
             row' = row \/ row.state \notin {"ABSENT", "RESOLVED"},
             DriverInv(d)', StoredPlan'
      PROVE  SerialInv(d, w)'
  BY <1>1, DriverFrame
<1>2. CASE Start(d)
  <2>1. PICK kind \in Kinds \ {"webhook"},
             target \in {"ANALYZING", "EXECUTING", "RESOLVED", "RECEIVED"},
             plan \in Seq(Solution) : Begin(d, kind, target, plan)
    BY <1>2, DriverStart
  <2>2. /\ row' = row /\ job' = [job EXCEPT ![d] = job'[d]]
        /\ job'[d].stage = "commit" /\ job'[d].goal = target /\ CanMove(row.state, target)
    BY <1>0, <2>1 DEF Begin, Idle, TypeOK
  <2>3. DriverInv(d)' /\ StoredPlan'
    BY <1>0, <2>2 DEF DriverInv, StoredPlan, At
  <2>4. QED
    BY <1>1, <2>2, <2>3
<1>3. CASE Notify(d) \/ SendReport(d) \/ UpdateMessage(d) \/ PatchStatus(d)
  <2>1. row' = row /\ job' = [job EXCEPT ![d] = Idle] /\ job'[d] = Idle
    BY <1>0, <1>3 DEF Notify, SendReport, UpdateMessage, PatchStatus, Becomes, TypeOK
  <2>2. DriverInv(d)' /\ StoredPlan'
    BY <1>0, <2>1 DEF DriverInv, StoredPlan, At, Idle
  <2>3. QED
    BY <1>1, <2>1, <2>2
<1>4. CASE Commit(d)
  <2>1. /\ row' = [row EXCEPT !.state = job[d].goal]
        /\ job' = [job EXCEPT ![d] = job'[d]]
        /\ job'[d] = [job[d] EXCEPT !.stage = "refresh"]
    BY <1>0, <1>4 DEF Commit, TypeOK
  <2>2. /\ row'.state = job[d].goal /\ row'.sols = row.sols
        /\ job'[d].stage = "refresh" /\ job'[d].goal = job[d].goal
    BY <1>0, <2>1 DEF Row, Job
  <2>3. /\ CanMove(row.state, job[d].goal)
        /\ job[d].goal = "PENDING_APPROVAL" => WellFormed(row.sols)
    BY <1>0, <1>4 DEF Commit, DriverInv
  <2>4. /\ job[d].goal \in IncidentState
        /\ row.state \notin {"ABSENT", "RESOLVED"}
        /\ job[d].goal = "EXECUTING" => row.state = "PENDING_APPROVAL"
    BY <2>3 DEF CanMove, ALLOWED_TRANSITIONS, IncidentState
  <2>5. DriverInv(d)' /\ StoredPlan'
    BY <1>0, <2>2, <2>3, <2>4 DEF DriverInv, StoredPlan, At
  <2>6. QED
    BY <1>1, <2>1, <2>4, <2>5
<1>5. CASE Refresh(d)
  <2> DEFINE next == NextStage(job[d].kind, job[d].goal)
             j == [job[d] EXCEPT !.stage = next, !.goal = "ABSENT",
                     !.mem  = IF next \in Holding THEN row ELSE NoRow,
                     !.plan = IF next = "run" THEN row.sols ELSE @]
  <2>1. /\ job' = [job EXCEPT ![d] = IF next = "idle" THEN Idle ELSE j]
        /\ row' = row /\ At(d, "refresh")
    BY <1>5 DEF Refresh, Becomes
  <2>2. /\ next = "llm" => job[d].goal = "ANALYZING"
        /\ next = "run" => job[d].goal = "EXECUTING"
        /\ next = "undo" => job[d].goal = "ROLLING_BACK"
        /\ next \in {"llm", "notify", "run", "undo", "patch", "update", "idle"}
    BY GoalOfStage, NextStageType
  <2>3. job[d].goal # "RESOLVED" => row.state = job[d].goal
    BY <1>0, <2>1 DEF DriverInv
  <2>4. /\ j.stage = next
        /\ next \in {"llm", "run", "undo"} => j.mem = row
        /\ next = "run" => j.plan = row.sols
    <3> HIDE DEF next
    <3> QED
      BY <1>0 DEF Job, Holding
  <2> HIDE DEF next, j
  <2>5. job'[d] = IF next = "idle" THEN Idle ELSE j
    BY <1>0, <2>1 DEF TypeOK
  <2>6. DriverInv(d)' /\ StoredPlan'
    BY <1>0, <2>1, <2>2, <2>3, <2>4, <2>5 DEF DriverInv, StoredPlan, At, Idle
  <2>7. QED
    BY <1>1, <2>1, <2>5, <2>6
<1>6. CASE Analyse(d)
  <2>1. PICK result \in Results :
          /\ row' \in Saved(row, job[d].mem, result.solutions)
          /\ Becomes(d, IF Validate(result)
                        THEN Transitioned([job[d] EXCEPT !.mem.sols = result.solutions,
                                                         !.plan = result.solutions],
                                          "PENDING_APPROVAL")
                        ELSE Idle)
    BY <1>6 DEF Analyse
  <2>2. row.state = "ANALYZING" /\ job[d].mem = row
    BY <1>0, <1>6 DEF Analyse, DriverInv
  <2>3. row'.state = "ANALYZING" /\ row'.sols = result.solutions
    BY <1>0, <2>1, <2>2 DEF Saved, Row
  <2>4. \/ job'[d] = Idle
        \/ /\ job'[d].stage = "commit" /\ job'[d].goal = "PENDING_APPROVAL"
           /\ WellFormed(result.solutions)
    BY <1>0, <2>1, ValidatedIsWellFormed DEF Becomes, Transitioned, TypeOK, Job
  <2>5. DriverInv(d)' /\ StoredPlan'
    BY <2>3, <2>4 DEF DriverInv, StoredPlan, At, Idle, CanMove, ALLOWED_TRANSITIONS
  <2>6. job' = [job EXCEPT ![d] = job'[d]]
    BY <1>0, <2>1 DEF Becomes, TypeOK
  <2>7. QED
    BY <1>1, <2>2, <2>5, <2>6
<1>7. CASE SkipAction(d) \/ ActionSucceeds(d)
  <2>1. /\ row' = row /\ job' = [job EXCEPT ![d] = job'[d]]
        /\ At(d, "run") /\ job[d].plan # << >>
    BY <1>0, <1>7 DEF SkipAction, ActionSucceeds, Running, TypeOK
  <2>2. /\ job'[d].stage = "run" /\ job'[d].mem = job[d].mem
        /\ job'[d].plan = Tail(job[d].plan)
    BY <1>0, <1>7, <2>1 DEF SkipAction, ActionSucceeds, At, TypeOK, Job
  <2>3. row.state = "EXECUTING" /\ job[d].mem = row /\ WellFormed(job[d].plan)
    BY <1>0, <2>1 DEF DriverInv
  <2>4. DriverInv(d)' /\ StoredPlan'
    BY <1>0, <2>1, <2>2, <2>3, RestOfPlan DEF DriverInv, StoredPlan, At
  <2>5. QED
    BY <1>1, <2>1, <2>4
<1>8. CASE ActionFails(d)
  <2>1. row.state = "EXECUTING" /\ job[d].mem = row
    BY <1>0, <1>8 DEF ActionFails, Running, DriverInv
  <2>2. /\ row' = row /\ job' = [job EXCEPT ![d] = job'[d]]
        /\ \/ job'[d] = Idle
           \/ job'[d].stage = "commit" /\ job'[d].goal = "ROLLING_BACK"
    BY <1>0, <1>8 DEF ActionFails, Becomes, Transitioned, TypeOK, Job
  <2>3. DriverInv(d)' /\ StoredPlan'
    BY <1>0, <2>1, <2>2 DEF DriverInv, StoredPlan, At, Idle, CanMove, ALLOWED_TRANSITIONS
  <2>4. QED
    BY <1>1, <2>2, <2>3
<1>9. CASE Undo(d)
  <2>1. row' = row /\ job' = [job EXCEPT ![d] = job'[d]] /\ At(d, "undo")
    BY <1>0, <1>9 DEF Undo, TypeOK
  <2>2. job'[d].stage = "undo" /\ job'[d].mem = job[d].mem
    BY <1>0, <1>9 DEF Undo, At, TypeOK, Job
  <2>3. DriverInv(d)' /\ StoredPlan'
    BY <1>0, <2>1, <2>2 DEF DriverInv, StoredPlan, At
  <2>4. QED
    BY <1>1, <2>1, <2>3
<1>10. CASE CountRetry(d)
  <2> DEFINE n == CountedRetry(job[d].mem.retry)
             j == [job[d] EXCEPT !.mem.retry = n]
  <2>1. /\ row'.state = row.state
        /\ job' = [job EXCEPT ![d] = Transitioned(j, RetryTarget(n))]
    BY <1>0, <1>10 DEF CountRetry, Becomes, Row
  <2>2. row.state = "ROLLING_BACK"
    BY <1>0, <1>10 DEF CountRetry, DriverInv
  <2>3. RetryTarget(n) \in {"RECEIVED", "ESCALATED"}
    BY DEF RetryTarget
  <2>4. j \in Job
    <3>1. n \in Nat
      BY <1>0 DEF Row, CountedRetry
    <3> HIDE DEF n
    <3>2. QED
      BY <1>0, <3>1 DEF Job, Row
  <2> HIDE DEF n, j
  <2>5. /\ job' = [job EXCEPT ![d] = job'[d]]
        /\ \/ job'[d] = Idle
           \/ job'[d].stage = "commit" /\ job'[d].goal \in {"RECEIVED", "ESCALATED"}
    BY <1>0, <2>1, <2>3, <2>4 DEF Transitioned, TypeOK, Job
  <2>6. DriverInv(d)' /\ StoredPlan'
    BY <1>0, <2>1, <2>2, <2>5 DEF DriverInv, StoredPlan, At, Idle, CanMove, ALLOWED_TRANSITIONS
  <2>7. QED
    BY <1>1, <2>2, <2>5, <2>6
<1>11. ~Insert(d) /\ ~Reopen(d)
  BY <1>0 DEF Insert, Reopen, DriverInv, At
<1>12. QED
  BY <1>2, <1>3, <1>4, <1>5, <1>6, <1>7, <1>8, <1>9, <1>10, <1>11 DEF Step

\* So does the webhook, which writes only where the driver has no business.
LEMMA WebhookStep ==
  ASSUME TypeOK, NEW d, NEW w, OneDriver(d, w), SerialInv(d, w), Start(w) \/ Step(w)
  PROVE  SerialInv(d, w)'
<1>0. /\ w \in Requests /\ d \in Requests /\ d # w /\ row \in Row /\ job[w].mem \in Row
      /\ WebhookInv(w) /\ DriverInv(d) /\ StoredPlan
  BY DEF OneDriver, TypeOK, Job, SerialInv
<1>1. CASE ReceiveNew(w)
  <2>1. row' = row /\ row.state = "ABSENT" /\ job'[w].stage = "insert" /\ job'[d] = job[d]
    BY <1>0, <1>1 DEF ReceiveNew, TypeOK, Idle
  <2>2. QED
    BY <1>0, <2>1 DEF SerialInv, WebhookInv, DriverInv, StoredPlan, At
<1>2. CASE ReceiveRecurrence(w)
  <2>1. /\ row' = row /\ row.state = "RESOLVED" /\ job'[d] = job[d]
        /\ job'[w].stage = "reopen" /\ job'[w].mem = row
    BY <1>0, <1>2 DEF ReceiveRecurrence, TypeOK, Idle
  <2>2. QED
    BY <1>0, <2>1 DEF SerialInv, WebhookInv, DriverInv, StoredPlan, At
<1>3. CASE Insert(w) \/ Reopen(w)
  <2>1. /\ row.state \in {"ABSENT", "RESOLVED"} /\ row'.state = "RECEIVED"
        /\ job'[w] = Idle /\ job'[d] = job[d]
    BY <1>0, <1>3, ReopenedType DEF Insert, Reopen, Becomes, NewRow, WebhookInv, TypeOK
  <2>2. WebhookInv(w)' /\ StoredPlan'
    BY <2>1 DEF WebhookInv, StoredPlan, At, Idle
  <2>3. ~At(d, "commit") /\ ~At(d, "llm") /\ ~At(d, "run") /\ ~At(d, "undo")
    BY <1>0, <2>1 DEF DriverInv, CanMove, ALLOWED_TRANSITIONS
  <2>4. At(d, "refresh") => job[d].goal = "RESOLVED"
    BY <1>0, <2>1 DEF DriverInv, IncidentState
  <2>5. DriverInv(d)'
    BY <1>0, <2>1, <2>3, <2>4 DEF DriverInv, At, IncidentState
  <2>6. QED
    BY <2>2, <2>5 DEF SerialInv
<1>4. QED
  BY <1>0, <1>1, <1>2, <1>3, WebhookShape

\* So do faults, after which requests are idle.
LEMMA SerialFault ==
  ASSUME TypeOK, NEW d, NEW w, OneDriver(d, w), SerialInv(d, w),
         (\E r \in Requests : Abort(r)) \/ Crash
  PROVE  SerialInv(d, w)'
<1>0. d \in Requests /\ w \in Requests
  BY DEF OneDriver
<1>1. /\ row' = row
      /\ job'[d] \in {job[d], Idle} /\ job'[w] \in {job[w], Idle}
  BY <1>0 DEF Abort, Crash, Becomes, TypeOK
<1>2. QED
  BY <1>1 DEF SerialInv, WebhookInv, DriverInv, StoredPlan, At, Idle

\* Before the first webhook both requests are idle.
LEMMA SerialInit ==
  ASSUME NEW d, NEW w, OneDriver(d, w), Init
  PROVE  SerialInv(d, w)
BY DEF Init, OneDriver, SerialInv, WebhookInv, DriverInv, StoredPlan, NoRow, Idle, At

\* Every step keeps it.
LEMMA SerialNext ==
  ASSUME TypeOK, NEW d, NEW w, OneDriver(d, w), SerialInv(d, w), [Next]_vars
  PROVE  SerialInv(d, w)'
<1>1. CASE \E r \in Requests : Start(r) \/ Step(r)
  BY <1>1, DriverStep, WebhookStep DEF OneDriver
<1>2. CASE (\E r \in Requests : Abort(r)) \/ Crash
  BY <1>2, SerialFault
<1>3. CASE UNCHANGED vars
  BY <1>3 DEF vars, SerialInv, WebhookInv, DriverInv, StoredPlan, At
<1>4. QED
  BY <1>1, <1>2, <1>3 DEF Next

-----------------------------------------------------------------------------
(***************************************************************************)
(* What holds with faults.                                                 *)
(***************************************************************************)
\* With one driver the invariant always holds, faults or no faults.
LEMMA SerialInvariant ==
  ASSUME NEW d, NEW w, OneDriver(d, w)
  PROVE  Spec => [](TypeOK /\ SerialInv(d, w))
<1>1. Init => SerialInv(d, w)
  BY SerialInit
<1>2. TypeOK /\ SerialInv(d, w) /\ [Next]_vars => SerialInv(d, w)'
  BY SerialNext
<1>3. QED
  BY <1>1, <1>2, TypeCorrect, PTL DEF Spec

\* With one driver, whatever fails or dies, the plan stored when approval is
\* awaited and the plan execute_incident runs passed the validator.
THEOREM PlansValidated ==
  ASSUME NEW d, NEW w, OneDriver(d, w)
  PROVE  Spec => []PlansAreWellFormed
<1>1. TypeOK /\ SerialInv(d, w) => PlansAreWellFormed
  BY DEF OneDriver, SerialInv, DriverInv, WebhookInv, StoredPlan, PlansAreWellFormed, Running, At
<1>2. QED
  BY <1>1, SerialInvariant, PTL

\* The change OnlyAllowedTransitions allows of the row's state.
Allowed(from, to) ==
  \/ CanMove(from, to)
  \/ <<from, to>> \in {<<"ABSENT", "RECEIVED">>, <<"RESOLVED", "RECEIVED">>}

\* A step of the driver leaves the state alone or goes along the table.
LEMMA DriverAllowed ==
  ASSUME TypeOK, NEW d, NEW w, OneDriver(d, w), SerialInv(d, w), Start(d) \/ Step(d)
  PROVE  row'.state = row.state \/ CanMove(row.state, row'.state)
<1>0. /\ d \in Requests /\ row \in Row /\ job[d] \in Job /\ job[d].mem \in Row
      /\ DriverInv(d)
  BY DEF OneDriver, TypeOK, Job, SerialInv
<1>1. CASE Start(d)
  BY <1>0, <1>1, DriverStart DEF Begin
<1>2. CASE Commit(d)
  BY <1>0, <1>2 DEF Commit, DriverInv, Row
<1>3. CASE Analyse(d)
  <2>1. PICK result \in Results : row' \in Saved(row, job[d].mem, result.solutions)
    BY <1>3 DEF Analyse
  <2>2. QED
    BY <1>0, <2>1 DEF Saved, Row
<1>4. CASE CountRetry(d)
  BY <1>0, <1>4 DEF CountRetry, Row
<1>5. ~Insert(d) /\ ~Reopen(d)
  BY <1>0 DEF Insert, Reopen, DriverInv, At
<1>6. QED
  BY <1>1, <1>2, <1>3, <1>4, <1>5 DEF Step, Refresh, Notify, SkipAction, ActionSucceeds,
     ActionFails, SendReport, Undo, UpdateMessage, PatchStatus

\* A webhook leaves the state alone, creates the row or reopens it.
LEMMA WebhookAllowed ==
  ASSUME TypeOK, NEW d, NEW w, OneDriver(d, w), SerialInv(d, w), Start(w) \/ Step(w)
  PROVE  row'.state = row.state \/ Allowed(row.state, row'.state)
<1>0. row \in Row /\ job[w].mem \in Row /\ WebhookInv(w)
  BY DEF OneDriver, TypeOK, Job, SerialInv
<1>1. CASE Insert(w) \/ Reopen(w)
  BY <1>0, <1>1, ReopenedType DEF Insert, Reopen, NewRow, WebhookInv, Allowed
<1>2. CASE ReceiveNew(w) \/ ReceiveRecurrence(w)
  BY <1>2 DEF ReceiveNew, ReceiveRecurrence
<1>3. QED
  BY <1>0, <1>1, <1>2, WebhookShape

\* With one driver, whatever fails or dies, the row moves along
\* ALLOWED_TRANSITIONS, is created and is reopened, and does nothing else.
THEOREM RowFollowsTable ==
  ASSUME NEW d, NEW w, OneDriver(d, w)
  PROVE  Spec => OnlyAllowedTransitions
<1>1. TypeOK /\ SerialInv(d, w) /\ [Next]_vars =>
        [row'.state # row.state => Allowed(row.state, row'.state)]_vars
  <2> SUFFICES ASSUME TypeOK, SerialInv(d, w), Next, row'.state # row.state
               PROVE  Allowed(row.state, row'.state)
    OBVIOUS
  <2>1. CASE \E r \in Requests : Start(r) \/ Step(r)
    BY <2>1, DriverAllowed, WebhookAllowed DEF OneDriver, Allowed
  <2>2. CASE (\E r \in Requests : Abort(r)) \/ Crash
    BY <2>2 DEF Abort, Crash
  <2>3. QED
    BY <2>1, <2>2 DEF Next
<1>2. [][row'.state # row.state => Allowed(row.state, row'.state)]_vars
        => OnlyAllowedTransitions
  BY DEF OnlyAllowedTransitions, Allowed
<1>3. QED
  BY <1>1, <1>2, SerialInvariant, PTL DEF Spec

-----------------------------------------------------------------------------
(***************************************************************************)
(* What holds if no request aborts and the process lives: the driver's     *)
(* retries, and that LogFixer implements Lifecycle.                        *)
(***************************************************************************)
\* The driver has counted the retry of the rollback it is ending.
Counted(d) ==
  job[d].kind = "execute" /\ At(d, "commit") /\ job[d].goal \in {"RECEIVED", "ESCALATED"}

\* Whoever is not ESCALATED has a retry left, but for a rollback that has
\* counted its last one and is on its way there.
RetryInv(d) ==
  /\ row.state = "ABSENT" => row.retry = 0
  /\ row.state # "ESCALATED" /\ ~Counted(d) => row.retry < RetryLimit
  /\ Counted(d) => row.state = "ROLLING_BACK" /\ job[d].goal = RetryTarget(row.retry)

\* The inductive invariant without faults.
CalmInv(d, w) == SerialInv(d, w) /\ RollbackInv /\ RetryInv(d)

(***************************************************************************)
(* What a step does to state, retry_count and the counting of a rollback:  *)
(* nothing, ...                                                            *)
(***************************************************************************)
Stays(d) ==
  /\ row'.state = row.state /\ row'.retry = row.retry
  /\ ~Counted(d) /\ ~Counted(d)'

\* ... or it commits a transition of the driver, ...
Moves(d) ==
  /\ At(d, "commit") /\ CanMove(row.state, job[d].goal)
  /\ row'.state = job[d].goal /\ row'.retry = row.retry
  /\ ~Counted(d)'

\* ... or it counts a retry, ...
Counts(d) ==
  /\ row.state = "ROLLING_BACK" /\ row'.state = row.state
  /\ row'.retry = row.retry + 1
  /\ ~Counted(d)
  /\ Counted(d)' /\ job'[d].goal = RetryTarget(row'.retry)

\* ... or it is a webhook's, which also creates or reopens the row.
Receives(d) ==
  /\ job'[d] = job[d]
  /\ \/ row'.state = row.state /\ row'.retry = row.retry
     \/ row.state \in {"ABSENT", "RESOLVED"} /\ row'.state = "RECEIVED" /\ row'.retry = 0

\* While a row is in ROLLING_BACK it is the driver that rolls it back, so a
\* transition of the driver out of there has counted its retry.
LEMMA DriverRollsBack ==
  ASSUME TypeOK, NEW d, NEW w, OneDriver(d, w), CalmInv(d, w), row.state = "ROLLING_BACK"
  PROVE  RollsBack(d)
BY DEF OneDriver, CalmInv, SerialInv, RollbackInv, RollbackOwned, RollsBack, WebhookInv, At

\* Every step of the driver is one of the first three.
LEMMA DriverMoves ==
  ASSUME TypeOK, NEW d, NEW w, OneDriver(d, w), CalmInv(d, w), Start(d) \/ Step(d)
  PROVE  Stays(d) \/ Moves(d) \/ Counts(d)
<1>0. /\ d \in Requests /\ row \in Row /\ job[d] \in Job /\ job[d].mem \in Row
      /\ DriverInv(d)
  BY DEF OneDriver, TypeOK, Job, CalmInv, SerialInv
<1>1. CASE Start(d)
  <2>1. PICK kind \in Kinds \ {"webhook"},
             target \in {"ANALYZING", "EXECUTING", "RESOLVED", "RECEIVED"},
             plan \in Seq(Solution) :
               Begin(d, kind, target, plan) /\ (kind = "execute" => target = "EXECUTING")
    BY <1>1, DriverStart
  <2>2. /\ row' = row /\ job[d].stage = "idle"
        /\ job'[d].kind = kind /\ job'[d].goal = target
    BY <1>0, <2>1 DEF Begin, Free, Idle, TypeOK
  <2>3. QED
    BY <2>1, <2>2 DEF Stays, Counted, At
<1>2. CASE Notify(d) \/ SendReport(d) \/ UpdateMessage(d) \/ PatchStatus(d)
  <2>1. row' = row /\ job'[d] = Idle /\ ~At(d, "commit")
    BY <1>0, <1>2 DEF Notify, SendReport, UpdateMessage, PatchStatus, Becomes, TypeOK, At
  <2>2. QED
    BY <2>1 DEF Stays, Counted, At, Idle
<1>3. CASE Commit(d)
  <2>1. /\ row'.state = job[d].goal /\ row'.retry = row.retry
        /\ job'[d] = [job[d] EXCEPT !.stage = "refresh"]
    BY <1>0, <1>3 DEF Commit, TypeOK, Row
  <2>2. job'[d].stage = "refresh"
    BY <1>0, <2>1 DEF Job
  <2>3. At(d, "commit") /\ CanMove(row.state, job[d].goal)
    BY <1>0, <1>3 DEF Commit, DriverInv
  <2>4. QED
    BY <2>1, <2>2, <2>3 DEF Moves, Counted, At
<1>4. CASE Refresh(d)
  <2> DEFINE next == NextStage(job[d].kind, job[d].goal)
             j == [job[d] EXCEPT !.stage = next, !.goal = "ABSENT",
                     !.mem  = IF next \in Holding THEN row ELSE NoRow,
                     !.plan = IF next = "run" THEN row.sols ELSE @]
  <2>1. /\ job' = [job EXCEPT ![d] = IF next = "idle" THEN Idle ELSE j]
        /\ row' = row /\ At(d, "refresh")
    BY <1>4 DEF Refresh, Becomes
  <2>2. j.stage = next /\ next # "commit"
    <3>1. next # "commit"
      BY NextStageType
    <3> HIDE DEF next
    <3>2. QED
      BY <1>0, <3>1 DEF Job
  <2> HIDE DEF next, j
  <2>3. job'[d].stage # "commit"
    BY <1>0, <2>1, <2>2 DEF TypeOK, Idle
  <2>4. QED
    BY <2>1, <2>3 DEF Stays, Counted, At
<1>5. CASE Analyse(d)
  <2>1. PICK result \in Results :
          /\ row' \in Saved(row, job[d].mem, result.solutions)
          /\ Becomes(d, IF Validate(result)
                        THEN Transitioned([job[d] EXCEPT !.mem.sols = result.solutions,
                                                         !.plan = result.solutions],
                                          "PENDING_APPROVAL")
                        ELSE Idle)
    BY <1>5 DEF Analyse
  <2>2. row'.state = row.state /\ row'.retry = row.retry
    BY <1>0, <2>1 DEF Saved, Row
  <2>3. job'[d] = Idle \/ job'[d].goal = "PENDING_APPROVAL"
    BY <1>0, <2>1 DEF Becomes, Transitioned, TypeOK, Job
  <2>4. QED
    BY <1>5, <2>2, <2>3 DEF Analyse, Stays, Counted, At, Idle
<1>6. CASE SkipAction(d) \/ ActionSucceeds(d) \/ Undo(d)
  <2>1. row' = row /\ job[d].stage \in {"run", "undo"}
    BY <1>6 DEF SkipAction, ActionSucceeds, Undo, Running, At
  <2>2. job'[d].stage = job[d].stage
    BY <1>0, <1>6 DEF SkipAction, ActionSucceeds, Undo, TypeOK, Job
  <2>3. QED
    BY <2>1, <2>2 DEF Stays, Counted, At
<1>7. CASE ActionFails(d)
  <2>1. row' = row /\ At(d, "run")
    BY <1>7 DEF ActionFails, Running
  <2>2. job'[d] = Idle \/ job'[d].goal = "ROLLING_BACK"
    BY <1>0, <1>7 DEF ActionFails, Becomes, Transitioned, TypeOK, Job
  <2>3. QED
    BY <2>1, <2>2 DEF Stays, Counted, At, Idle
<1>8. CASE CountRetry(d)
  <2> DEFINE n == CountedRetry(job[d].mem.retry)
             j == [job[d] EXCEPT !.mem.retry = n]
  <2>1. At(d, "undo") /\ row.state = "ROLLING_BACK" /\ job[d].mem = row
    BY <1>0, <1>8 DEF CountRetry, DriverInv
  <2>2. job[d].kind = "execute"
    BY <2>1, DriverRollsBack DEF RollsBack
  <2>3. n = row.retry + 1 /\ n \in Nat
    BY <1>0, <2>1 DEF CountedRetry, Row
  <2>4. /\ row'.state = row.state /\ row'.retry = n
        /\ job' = [job EXCEPT ![d] = Transitioned(j, RetryTarget(n))]
    BY <1>0, <1>8 DEF CountRetry, Becomes, Row
  <2>5. j \in Job /\ j.mem.state = "ROLLING_BACK" /\ j.kind = "execute"
    <3> HIDE DEF n
    <3>1. QED
      BY <1>0, <2>1, <2>2, <2>3 DEF Job, Row
  <2>6. RetryTarget(n) \in {"RECEIVED", "ESCALATED"}
    BY DEF RetryTarget
  <2>7. CanMove("ROLLING_BACK", RetryTarget(n))
    BY <2>6 DEF CanMove, ALLOWED_TRANSITIONS
  <2> HIDE DEF n, j
  <2>8. /\ job'[d].stage = "commit" /\ job'[d].goal = RetryTarget(n)
        /\ job'[d].kind = "execute"
    BY <1>0, <2>4, <2>5, <2>6, <2>7 DEF Transitioned, TypeOK, Job
  <2>9. QED
    BY <2>1, <2>3, <2>4, <2>6, <2>8 DEF Counts, Counted, At
<1>9. ~Insert(d) /\ ~Reopen(d)
  BY <1>0 DEF Insert, Reopen, DriverInv, At
<1>10. QED
  BY <1>1, <1>2, <1>3, <1>4, <1>5, <1>6, <1>7, <1>8, <1>9 DEF Step

\* Every step of the other request is the fourth.
LEMMA WebhookMoves ==
  ASSUME TypeOK, NEW d, NEW w, OneDriver(d, w), CalmInv(d, w), Start(w) \/ Step(w)
  PROVE  Receives(d)
<1>0. /\ d \in Requests /\ w \in Requests /\ d # w /\ row \in Row /\ WebhookInv(w)
  BY DEF OneDriver, TypeOK, CalmInv, SerialInv
<1>1. job'[d] = job[d]
  BY <1>0, WebhookShape
     DEF ReceiveNew, ReceiveRecurrence, Insert, Reopen, Becomes, TypeOK
<1>2. CASE ReceiveNew(w) \/ ReceiveRecurrence(w)
  BY <1>1, <1>2 DEF ReceiveNew, ReceiveRecurrence, Receives
<1>3. CASE Insert(w)
  BY <1>0, <1>1, <1>3 DEF Insert, WebhookInv, NewRow, Receives
<1>4. CASE Reopen(w)
  <2>1. row.state = "RESOLVED" /\ row' = Reopened(row, row)
    BY <1>0, <1>4 DEF Reopen, WebhookInv
  <2>2. row'.state = "RECEIVED" /\ row'.retry = 0
    BY <1>0, <2>1 DEF Reopened, Row
  <2>3. QED
    BY <1>1, <2>1, <2>2 DEF Receives
<1>5. QED
  BY <1>0, <1>2, <1>3, <1>4, WebhookShape

\* No step takes the driver beyond its retries.
LEMMA RetryStep ==
  ASSUME TypeOK, NEW d, NEW w, OneDriver(d, w), CalmInv(d, w),
         Stays(d) \/ Moves(d) \/ Counts(d) \/ Receives(d)
  PROVE  RetryInv(d)'
<1>0. row.retry \in Nat /\ RetryInv(d)
  BY DEF TypeOK, Row, CalmInv
<1>1. CASE Stays(d)
  BY <1>0, <1>1 DEF Stays, RetryInv
<1>2. CASE Moves(d)
  <2>1. CASE row.state = "ROLLING_BACK"
    <3>1. Counted(d) /\ job[d].goal = RetryTarget(row.retry)
      BY <1>0, <1>2, <2>1, DriverRollsBack DEF Moves, RollsBack, RetryInv, Counted, At
    <3>2. \/ row'.state = "RECEIVED" /\ row.retry < RetryLimit
          \/ row'.state = "ESCALATED"
      BY <1>0, <1>2, <3>1 DEF Moves, RetryTarget
    <3>3. QED
      BY <1>2, <3>2 DEF Moves, RetryInv
  <2>2. CASE row.state # "ROLLING_BACK"
    <3>1. row.state # "ESCALATED" /\ ~Counted(d) /\ job[d].goal # "ABSENT"
      BY <1>0, <1>2, <2>2 DEF Moves, CanMove, ALLOWED_TRANSITIONS, RetryInv
    <3>2. row.retry < RetryLimit
      BY <1>0, <3>1 DEF RetryInv
    <3>3. QED
      BY <1>2, <3>1, <3>2 DEF Moves, RetryInv
  <2>3. QED
    BY <2>1, <2>2
<1>3. CASE Counts(d)
  BY <1>3 DEF Counts, RetryInv
<1>4. CASE Receives(d)
  <2>1. Counted(d)' <=> Counted(d)
    BY <1>4 DEF Receives, Counted, At
  <2>2. CASE row'.state = row.state /\ row'.retry = row.retry
    BY <1>0, <1>4, <2>1, <2>2 DEF Receives, RetryInv
  <2>3. CASE row.state \in {"ABSENT", "RESOLVED"} /\ row'.state = "RECEIVED" /\ row'.retry = 0
    <3>1. ~Counted(d)
      BY <1>0, <2>3 DEF RetryInv
    <3>2. QED
      BY <2>1, <2>3, <3>1 DEF RetryInv, RetryLimit
  <2>4. QED
    BY <1>4, <2>2, <2>3 DEF Receives
<1>5. QED
  BY <1>1, <1>2, <1>3, <1>4

\* What Lifecycle calls counted.
LEMMA CountedIsDrivers ==
  ASSUME NEW d, NEW w, OneDriver(d, w), SerialInv(d, w)
  PROVE  (\E r \in Requests : /\ job[r].kind = "execute"
                              /\ At(r, "commit")
                              /\ job[r].goal \in {"RECEIVED", "ESCALATED"})
           <=> Counted(d)
BY DEF OneDriver, SerialInv, WebhookInv, Counted, At

\* Every step of LogFixer is a step of Lifecycle or leaves its state alone.
LEMMA LifecycleStep ==
  ASSUME TypeOK, NEW d, NEW w, OneDriver(d, w), CalmInv(d, w), SerialInv(d, w)',
         Stays(d) \/ Moves(d) \/ Counts(d) \/ Receives(d)
  PROVE  [Documented!Next]_(Documented!vars)
<1> DEFINE counted == \E r \in Requests : /\ job[r].kind = "execute"
                                          /\ At(r, "commit")
                                          /\ job[r].goal \in {"RECEIVED", "ESCALATED"}
<1>0. row.retry \in Nat /\ RetryInv(d)
  BY DEF TypeOK, Row, CalmInv
<1>1. /\ counted <=> Counted(d)
      /\ counted' <=> Counted(d)'
  <2>1. counted <=> Counted(d)
    BY CountedIsDrivers DEF CalmInv
  <2>2. counted' <=> Counted(d)'
    BY DEF OneDriver, SerialInv, WebhookInv, Counted, At
  <2>3. QED
    BY <2>1, <2>2
<1>2. CASE Stays(d)
  <2>1. row'.state = row.state /\ row'.retry = row.retry /\ counted' = counted
    BY <1>1, <1>2 DEF Stays
  <2>2. QED
    BY <2>1 DEF Documented!vars
<1>3. CASE Moves(d)
  <2>1. ~counted' /\ row'.retry = row.retry /\ row'.state = job[d].goal
    BY <1>1, <1>3 DEF Moves
  <2>2. CASE row.state = "ROLLING_BACK"
    <3>1. Counted(d) /\ job[d].goal = RetryTarget(row.retry)
      BY <1>0, <1>3, <2>2, DriverRollsBack DEF Moves, RollsBack, RetryInv, Counted, At
    <3>2. counted /\ row'.state = IF row.retry < RetryLimit THEN "RECEIVED" ELSE "ESCALATED"
      BY <1>1, <2>1, <3>1 DEF RetryTarget
    <3>3. Documented!Conclude
      BY <2>1, <2>2, <3>2 DEF Documented!Conclude, Documented!RetryLimit, RetryLimit
    <3>4. QED
      BY <3>3 DEF Documented!Next
  <2>3. CASE row.state # "ROLLING_BACK"
    <3>1. ~counted
      BY <1>0, <1>1, <2>3 DEF RetryInv
    <3>2. counted' = counted /\ row'.retry = row.retry
      BY <2>1, <3>1
    <3>3. \/ row.state = "RECEIVED" /\ row'.state = "ANALYZING"
          \/ row.state = "ANALYZING" /\ row'.state = "PENDING_APPROVAL"
          \/ row.state = "PENDING_APPROVAL" /\ row'.state = "EXECUTING"
          \/ row.state = "PENDING_APPROVAL" /\ row'.state = "RECEIVED"
          \/ row.state = "EXECUTING" /\ row'.state = "RESOLVED"
          \/ row.state = "EXECUTING" /\ row'.state = "ROLLING_BACK"
      BY <1>3, <2>1, <2>3 DEF Moves, CanMove, ALLOWED_TRANSITIONS
    <3> HIDE DEF counted
    <3>4. \/ Documented!Analyze \/ Documented!Propose \/ Documented!Execute
          \/ Documented!Reject \/ Documented!Resolve \/ Documented!Fail
      BY <3>2, <3>3 DEF counted, Documented!Analyze, Documented!Propose, Documented!Execute,
         Documented!Reject, Documented!Resolve, Documented!Fail, Documented!Move
    <3>5. QED
      BY <3>4 DEF Documented!Next
  <2>4. QED
    BY <2>2, <2>3
<1>4. CASE Counts(d)
  <2>1. /\ row.state = "ROLLING_BACK" /\ row'.state = row.state
        /\ row'.retry = row.retry + 1 /\ ~counted /\ counted'
    BY <1>1, <1>4 DEF Counts
  <2>2. Documented!Count
    BY <2>1 DEF Documented!Count
  <2>3. QED
    BY <2>2 DEF Documented!Next
<1>5. CASE Receives(d)
  <2>1. counted' = counted
    <3>1. Counted(d)' <=> Counted(d)
      BY <1>5 DEF Receives, Counted, At
    <3>2. QED
      BY <1>1, <3>1
  <2>2. CASE row'.state = row.state /\ row'.retry = row.retry
    BY <2>1, <2>2 DEF Documented!vars
  <2>3. CASE row.state = "ABSENT" /\ row'.state = "RECEIVED" /\ row'.retry = 0
    <3>1. row'.retry = row.retry
      BY <1>0, <2>3 DEF RetryInv
    <3>2. Documented!Create
      BY <2>1, <2>3, <3>1 DEF Documented!Create, Documented!Move
    <3>3. QED
      BY <3>2 DEF Documented!Next
  <2>4. CASE row.state = "RESOLVED" /\ row'.state = "RECEIVED" /\ row'.retry = 0
    <3>1. Documented!Reopen
      BY <2>1, <2>4 DEF Documented!Reopen
    <3>2. QED
      BY <3>1 DEF Documented!Next
  <2>5. QED
    BY <1>5, <2>2, <2>3, <2>4 DEF Receives
<1>6. QED
  BY <1>2, <1>3, <1>4, <1>5

\* The invariant holds initially, ...
LEMMA CalmInit ==
  ASSUME NEW d, NEW w, OneDriver(d, w), Init
  PROVE  CalmInv(d, w)
<1>1. RollbackInv
  BY DEF Init, RollbackInv, RollbackOwned, OnlyExecuteRollsBack, MayRollBack, NoRow, At, Idle
<1>2. RetryInv(d)
  BY DEF Init, OneDriver, RetryInv, Counted, At, NoRow, Idle, RetryLimit
<1>3. QED
  BY <1>1, <1>2, SerialInit DEF CalmInv

\* ... and every step without a fault keeps it and is a step of Lifecycle.
LEMMA CalmNext ==
  ASSUME TypeOK, Faults = FALSE, NEW d, NEW w, OneDriver(d, w), CalmInv(d, w), [Next]_vars
  PROVE  CalmInv(d, w)' /\ [Documented!Next]_(Documented!vars)
<1>1. SerialInv(d, w)'
  BY SerialNext DEF CalmInv
<1>2. CASE \E r \in Requests : Start(r) \/ Step(r)
  <2>1. PICK r \in Requests : Start(r) \/ Step(r)
    BY <1>2
  <2>2. RollbackInv'
    BY <2>1, RollbackStep DEF CalmInv
  <2>3. Stays(d) \/ Moves(d) \/ Counts(d) \/ Receives(d)
    BY <2>1, DriverMoves, WebhookMoves DEF OneDriver
  <2>4. QED
    BY <1>1, <2>2, <2>3, RetryStep, LifecycleStep DEF CalmInv
<1>3. CASE UNCHANGED vars
  <2>1. RollbackInv' /\ RetryInv(d)'
    BY <1>3 DEF vars, CalmInv, RollbackInv, RollbackOwned, OnlyExecuteRollsBack, MayRollBack,
       RollsBack, RetryInv, Counted, At
  <2>2. UNCHANGED Documented!vars
    BY <1>3 DEF vars, Documented!vars, At
  <2>3. QED
    BY <1>1, <2>1, <2>2 DEF CalmInv
<1>4. QED
  BY <1>2, <1>3 DEF Next, Abort, Crash

\* Without faults and with one driver, an incident in RECEIVED has a retry
\* left: whatever brings it back there, the third rollback does not.
THEOREM RetryLeft ==
  ASSUME Faults = FALSE, NEW d, NEW w, OneDriver(d, w)
  PROVE  Spec => []RetryBudget
<1>1. Init => CalmInv(d, w)
  BY CalmInit
<1>2. TypeOK /\ CalmInv(d, w) /\ [Next]_vars => CalmInv(d, w)'
  BY CalmNext
<1>3. CalmInv(d, w) => RetryBudget
  BY DEF CalmInv, RetryInv, RetryBudget
<1>4. QED
  BY <1>1, <1>2, <1>3, TypeCorrect, PTL DEF Spec

\* Without faults and with one driver LogFixer implements Lifecycle: every
\* rollback counts one retry before it ends, the third and no other escalates,
\* and a reopened incident starts afresh.
THEOREM ImplementsLifecycle ==
  ASSUME Faults = FALSE, NEW d, NEW w, OneDriver(d, w)
  PROVE  Spec => FollowsLifecycle
<1>1. Init => CalmInv(d, w) /\ Documented!Init
  <2>1. Init => Documented!Init
    BY DEF Init, Documented!Init, NoRow, At, Idle
  <2>2. QED
    BY <2>1, CalmInit
<1>2. TypeOK /\ CalmInv(d, w) /\ [Next]_vars
        => CalmInv(d, w)' /\ [Documented!Next]_(Documented!vars)
  BY CalmNext
<1>3. QED
  BY <1>1, <1>2, TypeCorrect, PTL DEF Spec, FollowsLifecycle, Documented!Spec

=============================================================================
