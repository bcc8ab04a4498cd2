----------------------------- MODULE AgentProofs -----------------------------
(***************************************************************************)
(* Agent implements LogFixer: whatever the plans, the files and the        *)
(* commands do, each execute request goes through the steps LogFixer has   *)
(* for one.                                                                *)
(***************************************************************************)
EXTENDS Agent, SequenceTheorems, TLAPS

-----------------------------------------------------------------------------
(***************************************************************************)
(* What the requests look like.                                            *)
(***************************************************************************)
IsSeq(s) == \E S : s \in Seq(S)

\* An entry of exec has its six fields.
Fields == {"phase", "sols", "plan", "backup", "cmds", "retry"}

Shape(e) ==
  /\ DOMAIN e = Fields
  /\ e.phase \in Phases /\ e.sols \in Seq(Step) /\ e.plan \in Seq(Step)
  /\ e.retry \in Nat /\ IsSeq(e.cmds)

\* What each phase knows of the plan and of the commands to undo it.
Consistent(e) ==
  /\ Shape(e)
  /\ e.phase = "accepted" => e.plan = e.sols /\ e.cmds = << >>
  /\ e.phase = "edit" => /\ e.plan # << >>
                         /\ Head(e.plan).action_type = "EDIT_CONFIG"
                         /\ Feasible(Head(e.plan))
  /\ e.phase \in {"commit", "refresh", "undo", "concluded", "reported"} => e.plan = << >>

\* The inductive invariant.
ExecInv ==
  /\ DOMAIN exec = Executions
  /\ \A r \in Executions : Consistent(exec[r])

\* A command more is a command more.
LEMMA OneMore ==
  ASSUME NEW s, IsSeq(s), NEW c
  PROVE  IsSeq(s \o <<c>>) /\ Len(s \o <<c>>) = Len(s) + 1
<1>1. PICK S : s \in Seq(S)
  BY DEF IsSeq
<1>2. s \in Seq(S \cup {c}) /\ <<c>> \in Seq(S \cup {c})
  BY <1>1
<1>3. s \o <<c>> \in Seq(S \cup {c}) /\ Len(s \o <<c>>) = Len(s) + 1
  BY <1>2
<1>4. QED
  BY <1>3 DEF IsSeq

\* None more is none more.
LEMMA NoneMore ==
  ASSUME NEW s, IsSeq(s)
  PROVE  s \o << >> = s /\ Len(s) \in Nat
<1>1. PICK S : s \in Seq(S)
  BY DEF IsSeq
<1>2. QED
  BY <1>1

\* One less is one less.
LEMMA OneLess ==
  ASSUME NEW s, IsSeq(s), s # << >>
  PROVE  IsSeq(Tail(s)) /\ Len(Tail(s)) = Len(s) - 1 /\ Len(s) > 0
<1>1. PICK S : s \in Seq(S)
  BY DEF IsSeq
<1>2. Tail(s) \in Seq(S) /\ Len(Tail(s)) = Len(s) - 1 /\ Len(s) > 0
  BY <1>1
<1>3. QED
  BY <1>2 DEF IsSeq

\* Undoing starts from as many commands as were remembered.
LEMMA AsManyUndone ==
  ASSUME NEW s, IsSeq(s)
  PROVE  IsSeq(RollbackOrder(s)) /\ Len(RollbackOrder(s)) = Len(s)
<1>1. PICK S : s \in Seq(S)
  BY DEF IsSeq
<1>2. RollbackOrder(s) \in Seq(S) /\ Len(RollbackOrder(s)) = Len(s)
  BY <1>1 DEF RollbackOrder, Reverse
<1>3. QED
  BY <1>2 DEF IsSeq

\* RESTART and EDIT_CONFIG remember one command more.
LEMMA RememberOne ==
  ASSUME NEW sol, NEW backup, NEW s, IsSeq(s), Reversible(Abstract(sol)),
         NEW t, t = s \o UndoOf(sol, backup)
  PROVE  IsSeq(t) /\ Len(t) = Len(s) + 1
<1>1. \E c : UndoOf(sol, backup) = <<c>>
  BY DEF UndoOf, Reversible, Abstract
<1>2. QED
  BY <1>1, OneMore

\* The other actions none.
LEMMA RememberNone ==
  ASSUME NEW sol, NEW backup, NEW s, IsSeq(s), ~Reversible(Abstract(sol)),
         NEW t, t = s \o UndoOf(sol, backup)
  PROVE  IsSeq(t) /\ Len(t) = Len(s)
<1>1. UndoOf(sol, backup) = << >>
  BY DEF UndoOf, Reversible, Abstract
<1>2. QED
  BY <1>1, NoneMore

-----------------------------------------------------------------------------
(***************************************************************************)
(* What LogFixer sees.                                                     *)
(***************************************************************************)
\* What Tail is.
LEMMA TailIs ==
  ASSUME NEW S, NEW s \in Seq(S), s # << >>
  PROVE  Tail(s) = [i \in 1 .. Len(s) - 1 |-> s[i + 1]]
<1>1. Tail(s) \in Seq(S) /\ Len(Tail(s)) = Len(s) - 1
  OBVIOUS
<1>2. \A i \in 1 .. Len(s) - 1 : Tail(s)[i] = s[i + 1]
  OBVIOUS
<1>3. Tail(s) \in [1 .. Len(Tail(s)) -> S]
  BY <1>1, LenProperties
<1>4. QED
  BY <1>1, <1>2, <1>3

\* A plan is seen step by step.
LEMMA PlanSeen ==
  ASSUME NEW plan \in Seq(Step)
  PROVE  /\ plan = << >> => AbstractPlan(plan) = << >>
         /\ plan # << >> => /\ AbstractPlan(plan) # << >>
                            /\ Head(AbstractPlan(plan)) = Abstract(Head(plan))
                            /\ Tail(AbstractPlan(plan)) = AbstractPlan(Tail(plan))
<1>1. AbstractPlan(plan) = [i \in 1 .. Len(plan) |-> Abstract(plan[i])]
  BY DEF AbstractPlan
<1>2. AbstractPlan(plan) \in Seq({Abstract(plan[i]) : i \in 1 .. Len(plan)})
  BY <1>1
<1>3. Len(AbstractPlan(plan)) = Len(plan)
  BY <1>1, <1>2
<1>4. ASSUME plan # << >>
      PROVE  /\ AbstractPlan(plan) # << >>
             /\ Head(AbstractPlan(plan)) = Abstract(Head(plan))
             /\ Tail(AbstractPlan(plan)) = AbstractPlan(Tail(plan))
  <2>1. Tail(plan) \in Seq(Step) /\ Len(Tail(plan)) = Len(plan) - 1
    BY <1>4
  <2>2. AbstractPlan(Tail(plan)) = [i \in 1 .. Len(plan) - 1 |-> Abstract(plan[i + 1])]
    BY <1>4, <2>1 DEF AbstractPlan
  <2>3. Tail(AbstractPlan(plan)) = [i \in 1 .. Len(plan) - 1 |-> AbstractPlan(plan)[i + 1]]
    <3>1. AbstractPlan(plan) # << >>
      BY <1>2, <1>3, <1>4
    <3> DEFINE a == AbstractPlan(plan)
    <3>2. Tail(a) = [i \in 1 .. Len(a) - 1 |-> a[i + 1]]
      <4> HIDE DEF a
      <4>1. QED
        BY <1>2, <3>1, TailIs, Zenon DEF a
    <3>3. QED
      BY <1>3, <3>2
  <2>4. \A i \in 1 .. Len(plan) - 1 : AbstractPlan(plan)[i + 1] = Abstract(plan[i + 1])
    BY <1>1
  <2>5. Tail(AbstractPlan(plan)) = AbstractPlan(Tail(plan))
    BY <2>2, <2>3, <2>4
  <2>6. Len(plan) \in Nat /\ Len(plan) > 0 /\ Head(plan) = plan[1]
    BY <1>4
  <2>7. AbstractPlan(plan) # << >> /\ Head(AbstractPlan(plan)) = AbstractPlan(plan)[1]
    BY <1>2, <1>3, <2>6
  <2>8. AbstractPlan(plan)[1] = Abstract(plan[1])
    BY <1>1, <2>6
  <2>9. QED
    BY <2>5, <2>6, <2>7, <2>8
<1>5. QED
  BY <1>2, <1>3, <1>4

\* An execute request in LogFixer.
Request(stage, goal, mem, plan, undo) ==
  [kind |-> "execute", stage |-> stage, goal |-> goal, mem |-> mem,
   plan |-> plan, undo |-> undo]

\* The updates LogFixer makes of one, by name: its stage, its plan and what
\* there is to undo, what a transition writes, what a refresh writes.
Staged(j, s) == [j EXCEPT !.stage = s]

Planned(j, p) == [j EXCEPT !.plan = p]

Counted(j, u) == [j EXCEPT !.undo = u]

Advanced(j, p, u) == [j EXCEPT !.plan = p, !.undo = u]

Moved(j, s, g, m) == [j EXCEPT !.stage = s, !.goal = g, !.mem = m]

Refreshed(j, s, g, m, p) ==
  [j EXCEPT !.stage = s, !.goal = g, !.mem = m, !.plan = p]

\* What they make of it.
LEMMA OneChange ==
  ASSUME NEW s, NEW g, NEW m, NEW p, NEW u, NEW x
  PROVE  /\ Staged(Request(s, g, m, p, u), x) = Request(x, g, m, p, u)
         /\ Planned(Request(s, g, m, p, u), x) = Request(s, g, m, x, u)
         /\ Counted(Request(s, g, m, p, u), x) = Request(s, g, m, p, x)
<1>1. Staged(Request(s, g, m, p, u), x) = Request(x, g, m, p, u)
  BY DEF Request, Staged
<1>2. Planned(Request(s, g, m, p, u), x) = Request(s, g, m, x, u)
  BY DEF Request, Planned
<1>3. Counted(Request(s, g, m, p, u), x) = Request(s, g, m, p, x)
  BY DEF Request, Counted
<1>4. QED
  BY <1>1, <1>2, <1>3

LEMMA TwoChanges ==
  ASSUME NEW s, NEW g, NEW m, NEW p, NEW u, NEW p1, NEW u1
  PROVE  Advanced(Request(s, g, m, p, u), p1, u1) = Request(s, g, m, p1, u1)
<1>1. [Request(s, g, m, p, u) EXCEPT !.plan = p1] = Request(s, g, m, p1, u)
  BY DEF Request
<1>2. [Request(s, g, m, p1, u) EXCEPT !.undo = u1] = Request(s, g, m, p1, u1)
  BY DEF Request
<1>3. QED
  BY <1>1, <1>2 DEF Advanced

LEMMA ThreeChanges ==
  ASSUME NEW s, NEW g, NEW m, NEW p, NEW u, NEW s1, NEW g1, NEW m1
  PROVE  Moved(Request(s, g, m, p, u), s1, g1, m1) = Request(s1, g1, m1, p, u)
<1>1. [Request(s, g, m, p, u) EXCEPT !.stage = s1] = Request(s1, g, m, p, u)
  BY DEF Request
<1>2. [Request(s1, g, m, p, u) EXCEPT !.goal = g1] = Request(s1, g1, m, p, u)
  BY DEF Request
<1>3. [Request(s1, g1, m, p, u) EXCEPT !.mem = m1] = Request(s1, g1, m1, p, u)
  BY DEF Request
<1>4. QED
  BY <1>1, <1>2, <1>3 DEF Moved

LEMMA FourChanges ==
  ASSUME NEW s, NEW g, NEW m, NEW p, NEW u, NEW s1, NEW g1, NEW m1, NEW p1
  PROVE  Refreshed(Request(s, g, m, p, u), s1, g1, m1, p1) = Request(s1, g1, m1, p1, u)
<1>1. [Request(s, g, m, p, u) EXCEPT !.stage = s1] = Request(s1, g, m, p, u)
  BY DEF Request
<1>2. [Request(s1, g, m, p, u) EXCEPT !.goal = g1] = Request(s1, g1, m, p, u)
  BY DEF Request
<1>3. [Request(s1, g1, m, p, u) EXCEPT !.mem = m1] = Request(s1, g1, m1, p, u)
  BY DEF Request
<1>4. [Request(s1, g1, m1, p, u) EXCEPT !.plan = p1] = Request(s1, g1, m1, p1, u)
  BY DEF Request
<1>5. QED
  BY <1>1, <1>2, <1>3, <1>4 DEF Refreshed

\* The request an entry of exec is.
Seen(e, stage, goal, mem) == Request(stage, goal, mem, AbstractPlan(e.plan), Len(e.cmds))

\* The request of each phase.
LEMMA SeenByPhase ==
  ASSUME NEW e
  PROVE  /\ e.phase = "accepted" => JobOf(e) = Seen(e, "refresh", "EXECUTING", NoRow)
         /\ e.phase \in {"run", "edit"} => JobOf(e) = Seen(e, "run", "ABSENT", RowOf(e))
         /\ e.phase = "commit" => JobOf(e) = Seen(e, "commit", "ROLLING_BACK", NoRow)
         /\ e.phase = "refresh" => JobOf(e) = Seen(e, "refresh", "ROLLING_BACK", NoRow)
         /\ e.phase = "undo" => JobOf(e) = Seen(e, "undo", "ABSENT", RowOf(e))
         /\ e.phase = "concluded" =>
              JobOf(e) = Seen(e, "commit", RetryTarget(e.retry), NoRow)
         /\ e.phase = "reported" =>
              JobOf(e) = [Seen(e, "idle", "ABSENT", NoRow) EXCEPT !.kind = "none"]
BY DEF JobOf, StageOf, Seen, Request

\* The row of each phase.
LEMMA RowByPhase ==
  ASSUME NEW e
  PROVE  /\ e.phase \in {"accepted", "run", "edit", "commit", "reported"} =>
              RowOf(e).state = "EXECUTING"
         /\ e.phase \in {"refresh", "undo", "concluded"} =>
              RowOf(e).state = "ROLLING_BACK"
BY DEF RowOf

\* A request of LogFixer becomes what it is seen to become.
LEMMA SeenBecomes ==
  ASSUME NEW r, NEW j, JobOf(exec[r])' = j
  PROVE  Service(r)!Becomes(r, j)
BY DEF Service!Becomes

-----------------------------------------------------------------------------
(***************************************************************************)
(* The steps: what becomes of the entry of exec, and which step of         *)
(* LogFixer that is.                                                       *)
(***************************************************************************)
\* The request r goes from exec[r] to e, by a step of LogFixer or unseen.
GoesTo(r, e) ==
  /\ exec' = [exec EXCEPT ![r] = e]
  /\ Consistent(e)
  /\ JobOf(e) = JobOf(exec[r]) \/ Service(r)!Step(r)

\* The entry of the request, then.
LEMMA EntryThen ==
  ASSUME ExecInv, NEW r \in Executions, NEW e, exec' = [exec EXCEPT ![r] = e]
  PROVE  /\ exec'[r] = e
         /\ JobOf(exec[r])' = JobOf(e)
         /\ RowOf(exec[r])' = RowOf(e)
         /\ Phase(r, "concluded")' <=> e.phase = "concluded"
         /\ \A q \in Executions \ {r} : exec'[q] = exec[q]
<1>1. exec'[r] = e
  BY DEF ExecInv
<1>2. \A q \in Executions \ {r} : exec'[q] = exec[q]
  BY DEF ExecInv
<1>3. JobOf(exec[r])' = JobOf(e) /\ RowOf(exec[r])' = RowOf(e)
  BY <1>1 DEF JobOf, RowOf
<1>4. QED
  BY <1>1, <1>2, <1>3 DEF Phase

\* The solutions are loaded as the transition to EXECUTING is refreshed.
LEMMA LoadStep ==
  ASSUME ExecInv, NEW r \in Executions, Load(r)
  PROVE  \E e : GoesTo(r, e)
<1> DEFINE e == [exec[r] EXCEPT !.phase = "run"]
<1>1. Consistent(exec[r]) /\ exec[r].phase = "accepted"
  BY DEF ExecInv, Load, Phase
<1>2. exec' = [exec EXCEPT ![r] = e]
  BY DEF Load
<1>3. Consistent(e)
  BY <1>1 DEF Consistent, Shape, Fields, Phases
<1>4. /\ e.phase = "run" /\ e.sols = exec[r].sols /\ e.plan = exec[r].sols
      /\ exec[r].plan = exec[r].sols /\ e.cmds = exec[r].cmds /\ e.retry = exec[r].retry
  BY <1>1 DEF Consistent, Shape, Fields
<1> HIDE DEF e
<1>5. RowOf(e) = RowOf(exec[r])
  BY <1>1, <1>4 DEF RowOf
<1>6. /\ JobOf(exec[r]) = Seen(exec[r], "refresh", "EXECUTING", NoRow)
      /\ JobOf(e) = Seen(e, "run", "ABSENT", RowOf(e))
  BY <1>1, <1>4, SeenByPhase
<1>7. JobOf(e) = Refreshed(JobOf(exec[r]), "run", "ABSENT", RowOf(exec[r]),
                           RowOf(exec[r]).sols)
  <2>1. RowOf(exec[r]).sols = AbstractPlan(e.plan)
    BY <1>4 DEF RowOf
  <2>2. JobOf(e) = Request("run", "ABSENT", RowOf(exec[r]), AbstractPlan(e.plan),
                           Len(exec[r].cmds))
    BY <1>4, <1>5, <1>6 DEF Seen
  <2>3. QED
    BY <1>6, <2>1, <2>2, FourChanges DEF Seen
<1>8. Service(r)!Refresh(r)
  <2>1. JobOf(exec[r])' = JobOf(e) /\ RowOf(exec[r])' = RowOf(e)
        /\ ~Phase(r, "concluded")' /\ ~Phase(r, "concluded")
    BY <1>1, <1>2, <1>4, EntryThen DEF Phase
  <2>2. JobOf(exec[r]).kind = "execute" /\ JobOf(exec[r]).stage = "refresh"
        /\ JobOf(exec[r]).goal = "EXECUTING"
    BY <1>6 DEF Seen, Request
  <2>3. QED
    BY <1>5, <1>7, <2>1, <2>2
    DEF Refreshed, Service!Refresh, Service!At, Service!Becomes, Service!NextStage,
        Service!Holding
<1>9. QED
  BY <1>2, <1>3, <1>8 DEF GoesTo, Service!Step

\* An action nobody registered is skipped.
LEMMA SkipStep ==
  ASSUME ExecInv, NEW r \in Executions, Skip(r)
  PROVE  \E e : GoesTo(r, e)
<1> DEFINE e == [exec[r] EXCEPT !.plan = Tail(@)]
<1>1. /\ Consistent(exec[r]) /\ exec[r].phase = "run" /\ exec[r].plan # << >>
      /\ exec[r].plan \in Seq(Step) /\ Head(exec[r].plan).action_type \notin Registered
  BY DEF ExecInv, Skip, Running, Phase, Consistent, Shape
<1>2. exec' = [exec EXCEPT ![r] = e]
  BY DEF Skip
<1>3. Consistent(e)
  <2>1. Tail(exec[r].plan) \in Seq(Step)
    BY <1>1
  <2>2. QED
    BY <1>1, <2>1 DEF Consistent, Shape, Fields, Phases
<1>4. /\ e.phase = "run" /\ e.sols = exec[r].sols /\ e.plan = Tail(exec[r].plan)
      /\ e.cmds = exec[r].cmds /\ e.retry = exec[r].retry
  BY <1>1 DEF Consistent, Shape, Fields
<1> HIDE DEF e
<1>5. RowOf(e) = RowOf(exec[r])
  BY <1>1, <1>4 DEF RowOf
<1>6. /\ JobOf(exec[r]) = Seen(exec[r], "run", "ABSENT", RowOf(exec[r]))
      /\ JobOf(e) = Seen(e, "run", "ABSENT", RowOf(e))
  BY <1>1, <1>4, SeenByPhase
<1>7. /\ AbstractPlan(exec[r].plan) # << >>
      /\ Head(AbstractPlan(exec[r].plan)).action_type = Head(exec[r].plan).action_type
      /\ Tail(AbstractPlan(exec[r].plan)) = AbstractPlan(e.plan)
  <2>1. /\ AbstractPlan(exec[r].plan) # << >>
        /\ Head(AbstractPlan(exec[r].plan)) = Abstract(Head(exec[r].plan))
        /\ Tail(AbstractPlan(exec[r].plan)) = AbstractPlan(Tail(exec[r].plan))
    BY <1>1, PlanSeen
  <2>2. Abstract(Head(exec[r].plan)).action_type = Head(exec[r].plan).action_type
    BY DEF Abstract
  <2>3. QED
    BY <1>4, <2>1, <2>2
<1>8. JobOf(exec[r]).stage = "run" /\ JobOf(exec[r]).plan = AbstractPlan(exec[r].plan)
  BY <1>6 DEF Seen, Request
<1>9. JobOf(e) = Planned(JobOf(exec[r]), Tail(JobOf(exec[r]).plan))
  <2>1. JobOf(e) = Request("run", "ABSENT", RowOf(exec[r]), AbstractPlan(e.plan),
                           Len(exec[r].cmds))
    BY <1>4, <1>5, <1>6 DEF Seen
  <2>2. Planned(JobOf(exec[r]), AbstractPlan(e.plan)) =
          Request("run", "ABSENT", RowOf(exec[r]), AbstractPlan(e.plan), Len(exec[r].cmds))
    BY <1>6, OneChange DEF Seen
  <2>3. QED
    BY <1>7, <1>8, <2>1, <2>2
<1>10. Service(r)!SkipAction(r)
  <2>1. JobOf(exec[r])' = JobOf(e) /\ RowOf(exec[r])' = RowOf(e)
        /\ ~Phase(r, "concluded")' /\ ~Phase(r, "concluded")
    BY <1>1, <1>2, <1>4, EntryThen DEF Phase
  <2>2. QED
    BY <1>1, <1>5, <1>7, <1>8, <1>9, <2>1
    DEF Planned, Registered, Service!SkipAction, Service!Running, Service!At,
        Service!Registered
<1>11. QED
  BY <1>2, <1>3, <1>10 DEF GoesTo, Service!Step

\* EDIT_CONFIG's backup is nothing LogFixer sees.
LEMMA SaveBackupStep ==
  ASSUME ExecInv, NEW r \in Executions, SaveBackup(r)
  PROVE  \E e : GoesTo(r, e)
<1>1. /\ Consistent(exec[r]) /\ exec[r].phase = "run" /\ exec[r].plan # << >>
      /\ Head(exec[r].plan).action_type = "EDIT_CONFIG" /\ Feasible(Head(exec[r].plan))
  BY DEF ExecInv, SaveBackup, Running, Phase
<1>2. PICK backup : exec' = [exec EXCEPT ![r] = [exec[r] EXCEPT !.phase = "edit",
                                                               !.backup = backup]]
  BY DEF SaveBackup
<1> DEFINE e == [exec[r] EXCEPT !.phase = "edit", !.backup = backup]
<1>3. Consistent(e)
  BY <1>1 DEF Consistent, Shape, Fields, Phases
<1>4. /\ e.phase = "edit" /\ e.sols = exec[r].sols /\ e.plan = exec[r].plan
      /\ e.cmds = exec[r].cmds /\ e.retry = exec[r].retry
  BY <1>1 DEF Consistent, Shape, Fields
<1> HIDE DEF e
<1>5. RowOf(e) = RowOf(exec[r])
  BY <1>1, <1>4 DEF RowOf
<1>6. JobOf(e) = JobOf(exec[r])
  <2>1. /\ JobOf(exec[r]) = Seen(exec[r], "run", "ABSENT", RowOf(exec[r]))
        /\ JobOf(e) = Seen(e, "run", "ABSENT", RowOf(e))
    BY <1>1, <1>4, SeenByPhase
  <2>2. QED
    BY <1>4, <1>5, <2>1 DEF Seen
<1>7. exec' = [exec EXCEPT ![r] = e]
  BY <1>2 DEF e
<1>8. QED
  BY <1>3, <1>6, <1>7 DEF GoesTo

\* The command exits with 0, and can or cannot be undone.
LEMMA SucceedStep ==
  ASSUME ExecInv, NEW r \in Executions, Succeed(r)
  PROVE  \E e : GoesTo(r, e)
<1>1. PICK sol \in ToSet(exec[r].plan) :
        /\ Sends(r, sol)
        /\ exec' = [exec EXCEPT ![r] =
                      [exec[r] EXCEPT !.phase = "run", !.plan = Tail(exec[r].plan),
                                      !.backup = NoText,
                                      !.cmds = exec[r].cmds \o UndoOf(sol, exec[r].backup)]]
  BY DEF Succeed
<1> DEFINE u == exec[r].cmds \o UndoOf(sol, exec[r].backup)
           e == [exec[r] EXCEPT !.phase = "run", !.plan = Tail(exec[r].plan),
                                !.backup = NoText, !.cmds = u]
<1>2. /\ Consistent(exec[r]) /\ exec[r].phase \in {"run", "edit"} /\ exec[r].plan # << >>
      /\ exec[r].plan \in Seq(Step) /\ sol = Head(exec[r].plan)
      /\ sol.action_type \in Registered /\ HasArguments(Abstract(sol))
  BY <1>1 DEF ExecInv, Sends, Running, Phase, Consistent, Shape, Feasible, Registered
<1>3. IsSeq(u) /\ Len(u) = IF Reversible(Abstract(sol)) THEN Len(exec[r].cmds) + 1
                                                        ELSE Len(exec[r].cmds)
  <2>1. IsSeq(exec[r].cmds)
    BY <1>2 DEF Consistent, Shape
  <2> DEFINE c == exec[r].cmds
             b == exec[r].backup
  <2>2. IsSeq(c) /\ u = c \o UndoOf(sol, b)
    BY <2>1 DEF u
  <2> HIDE DEF u, b, c
  <2>3. IsSeq(u)
    <3>1. CASE Reversible(Abstract(sol))
      BY <2>2, <3>1, RememberOne, Zenon
    <3>2. CASE ~Reversible(Abstract(sol))
      BY <2>2, <3>2, RememberNone, Zenon
    <3>3. QED
      BY <3>1, <3>2
  <2>4. ASSUME Reversible(Abstract(sol)) PROVE Len(u) = Len(c) + 1
    BY <2>2, <2>4, RememberOne
  <2>5. ASSUME ~Reversible(Abstract(sol)) PROVE Len(u) = Len(c)
    BY <2>2, <2>5, RememberNone
  <2>6. QED
    BY <2>3, <2>4, <2>5 DEF c
<1> HIDE DEF u
<1>4. Consistent(e)
  <2>1. Tail(exec[r].plan) \in Seq(Step)
    BY <1>2
  <2>2. QED
    BY <1>2, <1>3, <2>1 DEF Consistent, Shape, Fields, Phases
<1>5. /\ e.phase = "run" /\ e.sols = exec[r].sols /\ e.plan = Tail(exec[r].plan)
      /\ e.cmds = u /\ e.retry = exec[r].retry
  BY <1>2 DEF Consistent, Shape, Fields
<1>6. exec' = [exec EXCEPT ![r] = e]
  BY <1>1 DEF u
<1> HIDE DEF e
<1>7. RowOf(e) = RowOf(exec[r])
  BY <1>2, <1>5 DEF RowOf
<1>8. /\ JobOf(exec[r]) = Seen(exec[r], "run", "ABSENT", RowOf(exec[r]))
      /\ JobOf(e) = Seen(e, "run", "ABSENT", RowOf(e))
  BY <1>2, <1>5, SeenByPhase
<1>9. /\ AbstractPlan(exec[r].plan) # << >>
      /\ Head(AbstractPlan(exec[r].plan)) = Abstract(sol)
      /\ Tail(AbstractPlan(exec[r].plan)) = AbstractPlan(e.plan)
  BY <1>2, <1>5, PlanSeen
<1>10. /\ JobOf(exec[r]).stage = "run" /\ JobOf(exec[r]).plan = AbstractPlan(exec[r].plan)
       /\ JobOf(exec[r]).undo = Len(exec[r].cmds)
  BY <1>8 DEF Seen, Request
<1>11. JobOf(e) = Advanced(JobOf(exec[r]), Tail(JobOf(exec[r]).plan),
                           IF Reversible(Abstract(sol)) THEN JobOf(exec[r]).undo + 1
                                                        ELSE JobOf(exec[r]).undo)
  <2>1. JobOf(e) = Request("run", "ABSENT", RowOf(exec[r]), AbstractPlan(e.plan), Len(u))
    BY <1>5, <1>7, <1>8 DEF Seen
  <2>2. Advanced(JobOf(exec[r]), AbstractPlan(e.plan), Len(u)) =
          Request("run", "ABSENT", RowOf(exec[r]), AbstractPlan(e.plan), Len(u))
    BY <1>8, TwoChanges DEF Seen
  <2>3. QED
    BY <1>3, <1>9, <1>10, <2>1, <2>2
<1>12. Service(r)!ActionSucceeds(r)
  <2>1. JobOf(exec[r])' = JobOf(e) /\ RowOf(exec[r])' = RowOf(e)
        /\ ~Phase(r, "concluded")' /\ ~Phase(r, "concluded")
    BY <1>2, <1>5, <1>6, EntryThen DEF Phase
  <2>2. Abstract(sol).action_type \in Registered
    BY <1>2 DEF Abstract
  <2>3. QED
    BY <1>2, <1>7, <1>9, <1>10, <1>11, <2>1, <2>2
    DEF Advanced, Registered, HasArguments, Reversible, Service!ActionSucceeds,
        Service!Running, Service!At, Service!Registered, Service!HasArguments,
        Service!Reversible
<1>13. QED
  BY <1>4, <1>6, <1>12 DEF GoesTo, Service!Step

\* An action fails, or its command is given up on: the rollback begins.
LEMMA LeaveStep ==
  ASSUME ExecInv, NEW r \in Executions, Leave(r),
         exec[r].phase \in {"run", "edit"}, exec[r].plan # << >>,
         Head(exec[r].plan).action_type \in Registered
  PROVE  \E e : GoesTo(r, e)
<1> DEFINE e == [exec[r] EXCEPT !.phase = "commit", !.plan = << >>, !.backup = NoText]
<1>1. Consistent(exec[r]) /\ exec[r].plan \in Seq(Step)
  BY DEF ExecInv, Consistent, Shape
<1>2. exec' = [exec EXCEPT ![r] = e]
  BY DEF Leave
<1>3. Consistent(e)
  BY <1>1 DEF Consistent, Shape, Fields, Phases
<1>4. /\ e.phase = "commit" /\ e.sols = exec[r].sols /\ e.plan = << >>
      /\ e.cmds = exec[r].cmds /\ e.retry = exec[r].retry
  BY <1>1 DEF Consistent, Shape, Fields
<1> HIDE DEF e
<1>5. RowOf(e) = RowOf(exec[r]) /\ RowOf(exec[r]).state = "EXECUTING"
  BY <1>1, <1>4 DEF RowOf
<1>6. /\ JobOf(exec[r]) = Seen(exec[r], "run", "ABSENT", RowOf(exec[r]))
      /\ JobOf(e) = Seen(e, "commit", "ROLLING_BACK", NoRow)
  BY <1>4, SeenByPhase
<1>7. /\ AbstractPlan(exec[r].plan) # << >>
      /\ Head(AbstractPlan(exec[r].plan)).action_type \in Registered
      /\ AbstractPlan(e.plan) = << >>
  <2>1. /\ AbstractPlan(exec[r].plan) # << >>
        /\ Head(AbstractPlan(exec[r].plan)) = Abstract(Head(exec[r].plan))
    BY <1>1, PlanSeen
  <2>2. << >> \in Seq(Step)
    OBVIOUS
  <2>3. AbstractPlan(<< >>) = << >>
    BY <2>2, PlanSeen
  <2>4. Abstract(Head(exec[r].plan)).action_type = Head(exec[r].plan).action_type
    BY DEF Abstract
  <2>5. QED
    BY <1>4, <2>1, <2>3, <2>4
<1>8. JobOf(exec[r]).stage = "run" /\ JobOf(exec[r]).plan = AbstractPlan(exec[r].plan)
  BY <1>6 DEF Seen, Request
<1>9. Planned(JobOf(exec[r]), << >>).mem.state = "EXECUTING"
      /\ JobOf(e) = Moved(Planned(JobOf(exec[r]), << >>), "commit", "ROLLING_BACK", NoRow)
  <2>1. Planned(JobOf(exec[r]), << >>) =
          Request("run", "ABSENT", RowOf(exec[r]), << >>, Len(exec[r].cmds))
    BY <1>6, OneChange DEF Seen
  <2>2. Request("run", "ABSENT", RowOf(exec[r]), << >>, Len(exec[r].cmds)).mem = RowOf(exec[r])
    BY DEF Request
  <2>3. Moved(Request("run", "ABSENT", RowOf(exec[r]), << >>, Len(exec[r].cmds)),
              "commit", "ROLLING_BACK", NoRow) =
          Request("commit", "ROLLING_BACK", NoRow, << >>, Len(exec[r].cmds))
    BY ThreeChanges
  <2>4. JobOf(e) = Request("commit", "ROLLING_BACK", NoRow, << >>, Len(exec[r].cmds))
    BY <1>4, <1>6, <1>7 DEF Seen
  <2>5. QED
    BY <1>5, <2>1, <2>2, <2>3, <2>4
<1>10. Service(r)!ActionFails(r)
  <2>1. JobOf(exec[r])' = JobOf(e) /\ RowOf(exec[r])' = RowOf(e)
        /\ ~Phase(r, "concluded")' /\ ~Phase(r, "concluded")
    BY <1>2, <1>4, EntryThen DEF Phase
  <2>2. Service(r)!CanMove("EXECUTING", "ROLLING_BACK")
    BY DEF Service!CanMove, Service!ALLOWED_TRANSITIONS
  <2>3. NoRow = Service(r)!NoRow
    BY DEF NoRow, Service!NoRow
  <2>4. Service(r)!Transitioned(Planned(JobOf(exec[r]), << >>), "ROLLING_BACK") = JobOf(e)
    BY <1>9, <2>2, <2>3 DEF Moved, Service!Transitioned
  <2>5. Service(r)!Becomes(r, Service(r)!Transitioned(Planned(JobOf(exec[r]), << >>),
                                                      "ROLLING_BACK"))
    BY <2>1, <2>4, SeenBecomes
  <2>6. Service(r)!Running(r) /\ Head(JobOf(exec[r]).plan).action_type \in Service(r)!Registered
    BY <1>7, <1>8 DEF Registered, Service!Running, Service!At, Service!Registered
  <2>7. QED
    BY <1>5, <2>1, <2>5, <2>6 DEF Planned, Service!ActionFails
<1>11. QED
  BY <1>2, <1>3, <1>10 DEF GoesTo, Service!Step

\* Everything succeeded and is reported.
LEMMA ReportStep ==
  ASSUME ExecInv, NEW r \in Executions, Report(r)
  PROVE  \E e : GoesTo(r, e)
<1> DEFINE e == [exec[r] EXCEPT !.phase = "reported", !.cmds = << >>]
<1>1. Consistent(exec[r]) /\ exec[r].phase = "run" /\ exec[r].plan = << >>
  BY DEF ExecInv, Report, Phase
<1>2. exec' = [exec EXCEPT ![r] = e]
  BY DEF Report
<1>3. Consistent(e)
  <2>1. << >> \in Seq({})
    OBVIOUS
  <2>2. IsSeq(<< >>)
    BY <2>1 DEF IsSeq
  <2>3. QED
    BY <1>1, <2>2 DEF Consistent, Shape, Fields, Phases
<1>4. /\ e.phase = "reported" /\ e.sols = exec[r].sols /\ e.plan = << >>
      /\ e.cmds = << >> /\ e.retry = exec[r].retry
  BY <1>1 DEF Consistent, Shape, Fields
<1> HIDE DEF e
<1>5. RowOf(e) = RowOf(exec[r])
  BY <1>1, <1>4 DEF RowOf
<1>6. JobOf(exec[r]).stage = "run" /\ JobOf(exec[r]).plan = << >>
  <2>1. << >> \in Seq(Step)
    OBVIOUS
  <2>2. AbstractPlan(<< >>) = << >>
    BY <2>1, PlanSeen
  <2>3. QED
    BY <1>1, <2>2 DEF JobOf, StageOf
<1>7. JobOf(e) = Service(r)!Idle
  <2>1. << >> \in Seq(Step)
    OBVIOUS
  <2>2. AbstractPlan(<< >>) = << >>
    BY <2>1, PlanSeen
  <2>3. JobOf(e) = [kind |-> "none", stage |-> "idle", goal |-> "ABSENT", mem |-> NoRow,
                    plan |-> << >>, undo |-> 0]
    BY <1>4, <2>2 DEF JobOf, StageOf
  <2>4. QED
    BY <2>3 DEF NoRow, Service!NoRow, Service!Idle
<1>8. Service(r)!SendReport(r)
  <2>1. JobOf(exec[r])' = JobOf(e) /\ RowOf(exec[r])' = RowOf(e)
        /\ ~Phase(r, "concluded")' /\ ~Phase(r, "concluded")
    BY <1>1, <1>2, <1>4, EntryThen DEF Phase
  <2>2. Service(r)!Becomes(r, Service(r)!Idle)
    BY <1>7, <2>1, SeenBecomes
  <2>3. QED
    BY <1>5, <1>6, <2>1, <2>2 DEF Service!SendReport, Service!At
<1>9. QED
  BY <1>2, <1>3, <1>8 DEF GoesTo, Service!Step

\* The first await of the transition to ROLLING_BACK.
LEMMA CommitStep ==
  ASSUME ExecInv, NEW r \in Executions, exec[r].phase = "commit",
         exec' = [exec EXCEPT ![r].phase = "refresh"]
  PROVE  \E e : GoesTo(r, e)
<1> DEFINE e == [exec[r] EXCEPT !.phase = "refresh"]
<1>1. Consistent(exec[r])
  BY DEF ExecInv
<1>2. exec' = [exec EXCEPT ![r] = e]
  OBVIOUS
<1>3. Consistent(e)
  BY <1>1 DEF Consistent, Shape, Fields, Phases
<1>4. /\ e.phase = "refresh" /\ e.sols = exec[r].sols /\ e.plan = exec[r].plan
      /\ e.cmds = exec[r].cmds /\ e.retry = exec[r].retry
  BY <1>1 DEF Consistent, Shape, Fields
<1> HIDE DEF e
<1>5. RowOf(e) = [RowOf(exec[r]) EXCEPT !.state = "ROLLING_BACK"]
  BY <1>4 DEF RowOf
<1>6. /\ JobOf(exec[r]) = Seen(exec[r], "commit", "ROLLING_BACK", NoRow)
      /\ JobOf(e) = Seen(e, "refresh", "ROLLING_BACK", NoRow)
  BY <1>4, SeenByPhase
<1>7. /\ JobOf(exec[r]).stage = "commit" /\ JobOf(exec[r]).goal = "ROLLING_BACK"
      /\ JobOf(e) = Staged(JobOf(exec[r]), "refresh")
  <2>1. Staged(JobOf(exec[r]), "refresh") =
          Request("refresh", "ROLLING_BACK", NoRow, AbstractPlan(exec[r].plan),
                  Len(exec[r].cmds))
    BY <1>6, OneChange DEF Seen
  <2>2. QED
    BY <1>4, <1>6, <2>1 DEF Seen, Request
<1>8. Service(r)!Commit(r)
  <2>1. JobOf(exec[r])' = JobOf(e) /\ RowOf(exec[r])' = RowOf(e)
        /\ ~Phase(r, "concluded")' /\ ~Phase(r, "concluded")
    BY <1>2, <1>4, EntryThen DEF Phase
  <2>2. QED
    BY <1>5, <1>7, <2>1 DEF Staged, Service!Commit, Service!At
<1>9. QED
  BY <1>2, <1>3, <1>8 DEF GoesTo, Service!Step

\* The second, and rollback_actions begins.
LEMMA RefreshStep ==
  ASSUME ExecInv, NEW r \in Executions, exec[r].phase = "refresh",
         exec' = [exec EXCEPT ![r].phase = "undo", ![r].cmds = RollbackOrder(exec[r].cmds)]
  PROVE  \E e : GoesTo(r, e)
<1> DEFINE u == RollbackOrder(exec[r].cmds)
           e == [exec[r] EXCEPT !.phase = "undo", !.cmds = u]
<1>1. Consistent(exec[r]) /\ IsSeq(exec[r].cmds)
  BY DEF ExecInv, Consistent, Shape
<1>2. exec' = [exec EXCEPT ![r] = e]
  OBVIOUS
<1>3. IsSeq(u) /\ Len(u) = Len(exec[r].cmds)
  BY <1>1, AsManyUndone
<1> HIDE DEF u
<1>4. Consistent(e)
  BY <1>1, <1>3 DEF Consistent, Shape, Fields, Phases
<1>5. /\ e.phase = "undo" /\ e.sols = exec[r].sols /\ e.plan = exec[r].plan
      /\ e.cmds = u /\ e.retry = exec[r].retry
  BY <1>1 DEF Consistent, Shape, Fields
<1> HIDE DEF e
<1>6. RowOf(e) = RowOf(exec[r])
  BY <1>5 DEF RowOf
<1>7. /\ JobOf(exec[r]) = Seen(exec[r], "refresh", "ROLLING_BACK", NoRow)
      /\ JobOf(e) = Seen(e, "undo", "ABSENT", RowOf(e))
  BY <1>5, SeenByPhase
<1>8. /\ JobOf(exec[r]).kind = "execute" /\ JobOf(exec[r]).stage = "refresh"
      /\ JobOf(exec[r]).goal = "ROLLING_BACK"
      /\ JobOf(exec[r]).plan = AbstractPlan(exec[r].plan)
  BY <1>7 DEF Seen, Request
<1>9. JobOf(e) = Refreshed(JobOf(exec[r]), "undo", "ABSENT", RowOf(exec[r]),
                           JobOf(exec[r]).plan)
  <2>1. Refreshed(JobOf(exec[r]), "undo", "ABSENT", RowOf(exec[r]),
                  AbstractPlan(exec[r].plan)) =
          Request("undo", "ABSENT", RowOf(exec[r]), AbstractPlan(exec[r].plan),
                  Len(exec[r].cmds))
    BY <1>7, FourChanges DEF Seen
  <2>2. QED
    BY <1>3, <1>5, <1>6, <1>7, <1>8, <2>1 DEF Seen
<1>10. Service(r)!Refresh(r)
  <2>1. JobOf(exec[r])' = JobOf(e) /\ RowOf(exec[r])' = RowOf(e)
        /\ ~Phase(r, "concluded")' /\ ~Phase(r, "concluded")
    BY <1>2, <1>5, EntryThen DEF Phase
  <2>2. QED
    BY <1>6, <1>8, <1>9, <2>1
    DEF Refreshed, Service!Refresh, Service!At, Service!Becomes, Service!NextStage,
        Service!Holding
<1>11. QED
  BY <1>2, <1>4, <1>10 DEF GoesTo, Service!Step

\* One command fewer to undo, whatever came of it.
LEMMA UndoStep ==
  ASSUME ExecInv, NEW r \in Executions, Undo(r)
  PROVE  \E e : GoesTo(r, e)
<1> DEFINE e == [exec[r] EXCEPT !.cmds = Tail(@)]
<1>1. /\ Consistent(exec[r]) /\ exec[r].phase = "undo" /\ exec[r].cmds # << >>
      /\ IsSeq(exec[r].cmds)
  BY DEF ExecInv, Undo, Phase, Consistent, Shape
<1>2. exec' = [exec EXCEPT ![r] = e]
  BY DEF Undo
<1>3. IsSeq(Tail(exec[r].cmds)) /\ Len(Tail(exec[r].cmds)) = Len(exec[r].cmds) - 1
      /\ Len(exec[r].cmds) > 0
  BY <1>1, OneLess
<1>4. Consistent(e)
  BY <1>1, <1>3 DEF Consistent, Shape, Fields, Phases
<1>5. /\ e.phase = "undo" /\ e.sols = exec[r].sols /\ e.plan = exec[r].plan
      /\ e.cmds = Tail(exec[r].cmds) /\ e.retry = exec[r].retry
  BY <1>1 DEF Consistent, Shape, Fields
<1> HIDE DEF e
<1>6. RowOf(e) = RowOf(exec[r])
  BY <1>1, <1>5 DEF RowOf
<1>7. /\ JobOf(exec[r]) = Seen(exec[r], "undo", "ABSENT", RowOf(exec[r]))
      /\ JobOf(e) = Seen(e, "undo", "ABSENT", RowOf(e))
  BY <1>1, <1>5, SeenByPhase
<1>8. JobOf(exec[r]).stage = "undo" /\ JobOf(exec[r]).undo = Len(exec[r].cmds)
  BY <1>7 DEF Seen, Request
<1>9. JobOf(e) = Counted(JobOf(exec[r]), JobOf(exec[r]).undo - 1)
  <2>1. Counted(JobOf(exec[r]), Len(exec[r].cmds) - 1) =
          Request("undo", "ABSENT", RowOf(exec[r]), AbstractPlan(exec[r].plan),
                  Len(exec[r].cmds) - 1)
    BY <1>7, OneChange DEF Seen
  <2>2. JobOf(e) = Request("undo", "ABSENT", RowOf(exec[r]), AbstractPlan(exec[r].plan),
                           Len(exec[r].cmds) - 1)
    BY <1>3, <1>5, <1>6, <1>7 DEF Seen
  <2>3. QED
    BY <1>8, <2>1, <2>2
<1>10. Service(r)!Undo(r)
  <2>1. JobOf(exec[r])' = JobOf(e) /\ RowOf(exec[r])' = RowOf(e)
        /\ ~Phase(r, "concluded")' /\ ~Phase(r, "concluded")
    BY <1>1, <1>2, <1>5, EntryThen DEF Phase
  <2>2. QED
    BY <1>3, <1>6, <1>8, <1>9, <2>1 DEF Counted, Service!Undo, Service!At
<1>11. QED
  BY <1>2, <1>4, <1>10 DEF GoesTo, Service!Step

\* The retry is counted on the row and decides where the rollback ends.
LEMMA ConcludeStep ==
  ASSUME ExecInv, NEW r \in Executions, Conclude(r)
  PROVE  \E e : GoesTo(r, e)
<1> DEFINE n == CountedRetry(exec[r].retry)
           e == [exec[r] EXCEPT !.phase = "concluded", !.retry = n]
           k == [RowOf(exec[r]) EXCEPT !.retry = n]
<1>1. Consistent(exec[r]) /\ exec[r].phase = "undo" /\ exec[r].cmds = << >>
  BY DEF ExecInv, Conclude, Phase
<1>2. exec' = [exec EXCEPT ![r] = e]
  BY DEF Conclude
<1>3. n \in Nat /\ n = exec[r].retry + 1
  BY <1>1 DEF Consistent, Shape, CountedRetry
<1> HIDE DEF n
<1>4. Consistent(e)
  BY <1>1, <1>3 DEF Consistent, Shape, Fields, Phases
<1>5. /\ e.phase = "concluded" /\ e.sols = exec[r].sols /\ e.plan = exec[r].plan
      /\ e.cmds = exec[r].cmds /\ e.retry = n
  BY <1>1 DEF Consistent, Shape, Fields
<1> HIDE DEF e
<1>6. /\ RowOf(e) = k /\ k.state = "ROLLING_BACK"
      /\ RowOf(exec[r]).retry = exec[r].retry
  BY <1>1, <1>5 DEF RowOf
<1> HIDE DEF k
<1>7. /\ JobOf(exec[r]) = Seen(exec[r], "undo", "ABSENT", RowOf(exec[r]))
      /\ JobOf(e) = Seen(e, "commit", RetryTarget(n), NoRow)
  BY <1>1, <1>5, SeenByPhase
<1>8. /\ JobOf(exec[r]).stage = "undo" /\ JobOf(exec[r]).undo = 0
      /\ JobOf(exec[r]).mem.retry = exec[r].retry
  BY <1>1, <1>6, <1>7 DEF Seen, Request
<1> DEFINE j == [JobOf(exec[r]) EXCEPT !.mem.retry = n]
<1>9. j = Request("undo", "ABSENT", k, AbstractPlan(exec[r].plan), Len(exec[r].cmds))
  <2>1. [Request("undo", "ABSENT", RowOf(exec[r]), AbstractPlan(exec[r].plan),
                 Len(exec[r].cmds)) EXCEPT !.mem.retry = n] =
          Request("undo", "ABSENT", k, AbstractPlan(exec[r].plan), Len(exec[r].cmds))
    BY DEF Request, k
  <2>2. QED
    BY <1>7, <2>1 DEF Seen
<1> HIDE DEF j
<1>10. j.mem.state = "ROLLING_BACK" /\ JobOf(e) = Moved(j, "commit", RetryTarget(n), NoRow)
  <2>1. Moved(Request("undo", "ABSENT", k, AbstractPlan(exec[r].plan), Len(exec[r].cmds)),
              "commit", RetryTarget(n), NoRow) =
          Request("commit", RetryTarget(n), NoRow, AbstractPlan(exec[r].plan),
                  Len(exec[r].cmds))
    BY ThreeChanges
  <2>2. Request("undo", "ABSENT", k, AbstractPlan(exec[r].plan), Len(exec[r].cmds)).mem = k
    BY DEF Request
  <2>3. QED
    BY <1>5, <1>6, <1>7, <1>9, <2>1, <2>2 DEF Seen
<1>11. Service(r)!CountRetry(r)
  <2>1. JobOf(exec[r])' = JobOf(e) /\ RowOf(exec[r])' = RowOf(e)
        /\ Phase(r, "concluded")' /\ ~Phase(r, "concluded")
    BY <1>1, <1>2, <1>5, EntryThen DEF Phase
  <2>2. /\ Service(r)!CountedRetry(JobOf(exec[r]).mem.retry) = n
        /\ Service(r)!RetryTarget(n) = RetryTarget(n)
        /\ NoRow = Service(r)!NoRow
    BY <1>3, <1>8 DEF NoRow, RetryTarget, RetryLimit, Service!NoRow, Service!CountedRetry,
                      Service!RetryTarget, Service!RetryLimit
  <2>3. Service(r)!CanMove("ROLLING_BACK", RetryTarget(n))
    BY DEF RetryTarget, Service!CanMove, Service!ALLOWED_TRANSITIONS
  <2>4. Service(r)!Transitioned(j, RetryTarget(n)) = JobOf(e)
    BY <1>10, <2>2, <2>3 DEF Moved, Service!Transitioned
  <2>5. Service(r)!Becomes(r, Service(r)!Transitioned(j, RetryTarget(n)))
    BY <2>1, <2>4, SeenBecomes
  <2>6. RowOf(e) = [RowOf(exec[r]) EXCEPT !.retry = n]
    BY <1>6 DEF k
  <2>7. 0 < Service(r)!RetryLimit
    BY DEF Service!RetryLimit
  <2>8. QED
    BY <1>8, <2>1, <2>2, <2>5, <2>6, <2>7 DEF j, Service!CountRetry, Service!At
<1>12. QED
  BY <1>2, <1>4, <1>11 DEF GoesTo, Service!Step

-----------------------------------------------------------------------------
(***************************************************************************)
(* The invariant and the theorem.                                          *)
(***************************************************************************)
\* Every step of the agent leaves exec alone or advances one request.
LEMMA EveryStep ==
  ASSUME ExecInv, Next
  PROVE  UNCHANGED exec \/ \E r \in Executions : \E e : GoesTo(r, e)
<1>1. ASSUME NEW r \in Executions,
             \/ Load(r) \/ Skip(r) \/ SaveBackup(r) \/ Succeed(r) \/ Fail(r) \/ TimeOut(r)
             \/ Report(r) \/ Transition(r) \/ Undo(r) \/ Conclude(r)
      PROVE  \E e : GoesTo(r, e)
  <2>1. ASSUME Fail(r) PROVE \E e : GoesTo(r, e)
    <3>1. /\ Leave(r) /\ exec[r].phase \in {"run", "edit"} /\ exec[r].plan # << >>
          /\ Head(exec[r].plan).action_type \in Registered
      BY <2>1 DEF Fail, Sends, ExecInv, Consistent, Phase, Running, Registered
    <3>2. QED
      BY <3>1, LeaveStep
  <2>2. ASSUME TimeOut(r) PROVE \E e : GoesTo(r, e)
    <3>1. /\ Leave(r) /\ exec[r].phase \in {"run", "edit"} /\ exec[r].plan # << >>
          /\ Head(exec[r].plan).action_type \in Registered
      BY <2>2 DEF TimeOut, Sends, ExecInv, Consistent, Phase, Running, Registered
    <3>2. QED
      BY <3>1, LeaveStep
  <2>3. ASSUME Transition(r) PROVE \E e : GoesTo(r, e)
    <3>1. CASE exec[r].phase = "commit" /\ exec' = [exec EXCEPT ![r].phase = "refresh"]
      BY <3>1, CommitStep
    <3>2. CASE /\ exec[r].phase = "refresh"
               /\ exec' = [exec EXCEPT ![r].phase = "undo",
                                       ![r].cmds = RollbackOrder(exec[r].cmds)]
      BY <3>2, RefreshStep
    <3>3. QED
      BY <2>3, <3>1, <3>2 DEF Transition, Phase
  <2>4. QED
    BY <1>1, <2>1, <2>2, <2>3, LoadStep, SkipStep, SaveBackupStep, SucceedStep, ReportStep,
       UndoStep, ConcludeStep
<1>2. ASSUME LateEffect PROVE UNCHANGED exec
  BY <1>2 DEF LateEffect
<1>3. QED
  BY <1>1, <1>2 DEF Next

\* The entries are what they should be at first.
LEMMA ExecInit ==
  Init => ExecInv
<1> SUFFICES ASSUME Init PROVE ExecInv
  OBVIOUS
<1>1. /\ DOMAIN exec = Executions
      /\ \A r \in Executions : \E p \in Plans, n \in Retries :
           exec[r] = [phase |-> "accepted", sols |-> p, plan |-> p, backup |-> NoText,
                      cmds |-> << >>, retry |-> n]
  BY DEF Init
<1>2. << >> \in Seq({})
  OBVIOUS
<1>3. ASSUME NEW r \in Executions PROVE Consistent(exec[r])
  <2>1. PICK p \in Plans, n \in Retries :
          exec[r] = [phase |-> "accepted", sols |-> p, plan |-> p, backup |-> NoText,
                     cmds |-> << >>, retry |-> n]
    BY <1>1
  <2>2. p \in Seq(Step) /\ n \in Nat /\ IsSeq(<< >>)
    BY <1>2, PlansAssumption, RetriesAssumption DEF IsSeq
  <2>3. QED
    BY <2>1, <2>2 DEF Consistent, Shape, Fields, Phases
<1>4. QED
  BY <1>1, <1>3 DEF ExecInv

\* One request's step leaves the entries what they should be.
LEMMA ExecStep ==
  ASSUME ExecInv, NEW r \in Executions, NEW e, GoesTo(r, e)
  PROVE  ExecInv'
<1>1. exec' = [exec EXCEPT ![r] = e] /\ Consistent(e)
  BY DEF GoesTo
<1>2. exec'[r] = e /\ \A q \in Executions \ {r} : exec'[q] = exec[q]
  BY <1>1, EntryThen
<1>3. DOMAIN exec' = Executions
  BY <1>1 DEF ExecInv
<1>4. \A q \in Executions : Consistent(exec'[q])
  BY <1>1, <1>2 DEF ExecInv
<1>5. QED
  BY <1>3, <1>4 DEF ExecInv

\* ExecInv holds throughout.
LEMMA ExecKept ==
  ExecInv /\ [Next]_vars => ExecInv'
<1> SUFFICES ASSUME ExecInv, [Next]_vars PROVE ExecInv'
  OBVIOUS
<1>1. CASE UNCHANGED exec
  BY <1>1 DEF ExecInv
<1>2. CASE \E r \in Executions : \E e : GoesTo(r, e)
  BY <1>2, ExecStep
<1>3. QED
  BY <1>1, <1>2, EveryStep DEF vars

LEMMA ExecAlways ==
  Spec => []ExecInv
BY ExecInit, ExecKept, PTL DEF Spec

\* ImplementsLogFixer: whatever the plans and the file are, however many
\* requests are at work on the host and whatever becomes of their commands,
\* what execute_incident and the agent do for a request is what LogFixer says
\* a request does.
THEOREM ImplementsService ==
  Spec => ImplementsLogFixer
<1>1. ExecInv /\ [Next]_vars =>
        [\A r \in Executions :
           JobOf(exec'[r]) # JobOf(exec[r]) => Service(r)!Step(r)]_vars
  <2> SUFFICES ASSUME ExecInv, Next, NEW r \in Executions,
                      JobOf(exec'[r]) # JobOf(exec[r])
               PROVE  Service(r)!Step(r)
    BY DEF vars
  <2>1. PICK q \in Executions : \E e : GoesTo(q, e)
    BY EveryStep
  <2>2. PICK e : GoesTo(q, e)
    BY <2>1
  <2>3. exec'[q] = e /\ \A p \in Executions \ {q} : exec'[p] = exec[p]
    BY <2>2, EntryThen DEF GoesTo
  <2>4. q = r
    BY <2>3
  <2>5. QED
    BY <2>2, <2>3, <2>4 DEF GoesTo
<1>2. QED
  BY <1>1, ExecAlways, PTL DEF Spec, ImplementsLogFixer

=============================================================================
