------------------------------- MODULE Agent -------------------------------
(***************************************************************************)
(* The agent (app/agent) and the part of execute_incident that drives it,  *)
(* on one host: a configuration file, a service that reads it when it is   *)
(* (re)started, and the execute requests at work there, each for an        *)
(* incident of its own.                                                    *)
(*                                                                         *)
(* LogFixer knows of an action that it succeeds or fails and of an undo    *)
(* that it happens.  Here the shell commands are modelled by what they do  *)
(* to the file, run_ssh_command by its three outcomes: the command exits   *)
(* with 0; it does not, and has changed nothing or, being a restart, left  *)
(* the service down; or it is given up on, after its timeout or with its   *)
(* connection, and still takes effect, at any later time or never.         *)
(*                                                                         *)
(* Operators named ..._<fault> are faulty variants of the operator that    *)
(* follows them, kept for mutation testing; nothing else uses them.        *)
(***************************************************************************)
EXTENDS Incident, SequencesExt

CONSTANTS
  Executions,  \* the execute requests
  Plans,       \* the solution lists their incidents may hold
  Files,       \* what the configuration file may say at first
  Retries,     \* the retry counts their incidents may have
  Keys,        \* the keys there are, and "" for none
  Texts,       \* the values there are, and "" for none
  Longer,      \* pairs <<k, l>> of keys: l is longer and begins with k
  Slashed,     \* the values sed refuses: with a "/", its delimiter
  Special,     \* the values sed takes and does not write as they are: with
               \* an "&", which stands for the line replaced, or a "\"
  Written      \* what it writes for them in the place of a line

\* One line of the file.  A line that sets no key has the key "".
Line == [key : Keys, value : Texts]

Setting(key, value) == [key |-> key, value |-> value]

\* A SolutionCandidate with what the commands are made of.  A key or a value
\* that is not given is "".
Step == [action_type : STRING, target : BOOLEAN, key : Keys, value : Texts]

ASSUME PlansAssumption   == Plans \subseteq Seq(Step)
ASSUME FilesAssumption   == Files \subseteq Seq(Line)
ASSUME RetriesAssumption == Retries \subseteq Nat
ASSUME TextAssumption    == /\ "" \in Keys
                            /\ {"", "\n", "error", "UNKNOWN"} \subseteq Texts
                            /\ Longer \subseteq Keys \X (Keys \ {""})
                            /\ Slashed \subseteq Texts
                            /\ Special \subseteq Texts \ {"UNKNOWN"}
                            /\ Written \in [Special \X Line -> Texts]

VARIABLES
  host,     \* [file, loaded, up]: the file, what the service read of it last,
            \* and is the service up?
  late,     \* commands that were given up on and may still take effect
  exec,     \* what each execute request is doing
  history   \* what the properties need to know of the past

vars == <<host, late, exec, history>>

Phases == {"accepted", "run", "edit", "commit", "refresh", "undo",
           "concluded", "reported"}

-----------------------------------------------------------------------------
(***************************************************************************)
(* The shell commands.                                                     *)
(***************************************************************************)
\* grep '^key' file: where the lines are that begin with key, so also those of
\* longer keys.
Grep(file, key) ==
  {i \in DOMAIN file : file[i].key = key \/ <<key, file[i].key>> \in Longer}

\* What sed writes for text in the place of a line.
Replaced(text, line) ==
  IF text.value \in Special THEN [text EXCEPT !.value = Written[text.value, line]] ELSE text

\* sed 's/^key=.*/text/' file, where text is one line.
Sed(file, key, text) ==
  [i \in DOMAIN file |-> IF file[i].key = key THEN Replaced(text, file[i]) ELSE file[i]]

\* A text of more than one line, of which nothing but that matters.
SeveralLines == Setting("", "\n")

\* Is text what sed takes for a replacement?  A line break or a slash in it
\* is an error in the expression.
Replacement(text) == text # SeveralLines /\ text.value \notin Slashed

\* backup_cmd: the lines grep finds, or key=UNKNOWN.
Backup(file, key) ==
  CASE Grep(file, key) = {}                       -> Setting(key, "UNKNOWN")
    [] \E i \in DOMAIN file : Grep(file, key) = {i} ->
         file[CHOOSE i \in DOMAIN file : Grep(file, key) = {i}]
    [] OTHER                                      -> SeveralLines

\* When the connection fails the backup is str(e), whose text is no setting.
ErrorText == Setting("", "error")

NoText == Setting("", "")

Edited_NoAppend(file, key, line) == Sed(file, key, line)

\* grep -q && sed || tee -a: the line is appended, as it is, when grep finds
\* nothing, and also when sed fails.
Edited(file, key, line) ==
  IF Grep(file, key) # {} /\ Replacement(line)
  THEN Sed(file, key, line)
  ELSE Append(file, line)

\* The commands: edit and sed (of an undo) with their key and text, restart,
\* and the two that clean up, which concern neither file nor service.
Command == [do : {"edit", "sed", "restart", "clean"}, key : Keys, text : Line]

Restart == [do |-> "restart", key |-> "", text |-> NoText]

Clean == [do |-> "clean", key |-> "", text |-> NoText]

\* What execute() of each action sends.
CommandOf(sol) ==
  CASE sol.action_type = "RESTART"     -> Restart
    [] sol.action_type = "EDIT_CONFIG" ->
         [do |-> "edit", key |-> sol.key, text |-> Setting(sol.key, sol.value)]
    [] OTHER                           -> Clean

UndoOf_NewValue(sol, backup) ==
  CASE sol.action_type = "RESTART"     -> <<Restart>>
    [] sol.action_type = "EDIT_CONFIG" ->
         <<[do |-> "sed", key |-> sol.key, text |-> Setting(sol.key, sol.value)]>>
    [] OTHER                           -> << >>

UndoOf_NoRestart(sol, backup) ==
  IF sol.action_type = "EDIT_CONFIG"
  THEN <<[do |-> "sed", key |-> sol.key, text |-> backup]>>
  ELSE << >>

\* The rollback_cmd of its ActionResult, as a sequence of at most one.
UndoOf(sol, backup) ==
  CASE sol.action_type = "RESTART"     -> <<Restart>>
    [] sol.action_type = "EDIT_CONFIG" -> <<[do |-> "sed", key |-> sol.key, text |-> backup]>>
    [] OTHER                           -> << >>

\* Can the command exit with 0?
Runnable(c) == c.do = "sed" => Replacement(c.text)

\* What a command that runs to its end does to the host.
Effect(h, c) ==
  CASE c.do = "edit"    -> [h EXCEPT !.file = Edited(@, c.key, c.text)]
    [] c.do = "sed" /\ Replacement(c.text)
                        -> [h EXCEPT !.file = Sed(@, c.key, c.text)]
    [] c.do = "restart" -> [h EXCEPT !.loaded = h.file, !.up = TRUE]
    [] OTHER            -> h

-----------------------------------------------------------------------------
\* How LogFixer sees a step of a plan.
Abstract(sol) == [action_type |-> sol.action_type, target |-> sol.target,
                  keyval |-> sol.key # "" /\ sol.value # ""]

\* The argument checks of RESTART and EDIT_CONFIG.  DEL_DISK has none: called
\* without a target it is run all the same, on "None" or where it is.
Feasible(sol) == HasArguments(Abstract(sol))

Init ==
  /\ host \in {[file |-> f, loaded |-> f, up |-> TRUE] : f \in Files}
  /\ late = {}
  /\ exec \in [Executions -> {[phase |-> "accepted", sols |-> p, plan |-> p, backup |-> NoText,
                               cmds |-> << >>, retry |-> n] : p \in Plans, n \in Retries}]
  /\ history = [r \in Executions |-> [host |-> host, others |-> {}, spoiled |-> {},
                                     broken |-> FALSE]]

Phase(r, phase) == exec[r].phase = phase

Values(file, key) == {line.value : line \in {l \in ToSet(file) : l.key = key}}

KeysOf(file) == {line.key : line \in ToSet(file)} \ {""}

\* The keys two files disagree about.
Differs(f, g) == {key \in KeysOf(f) \cup KeysOf(g) : Values(f, key) # Values(g, key)}

\* The host becomes h.  What r remembers becomes own; the others at work there
\* remember what somebody else has changed ("" stands for the service).
Changes(r, h, own) ==
  /\ host' = h
  /\ history' = [q \in Executions |->
       CASE q = r -> own
         [] q # r /\ Phase(q, "accepted") -> history[q]
         [] OTHER -> [history[q] EXCEPT
              !.others = @ \cup Differs(host.file, h.file)
                           \cup IF h.loaded # host.loaded \/ h.up # host.up THEN {""} ELSE {}]]

\* The command takes effect on the host.
Runs(r, c) == Changes(r, Effect(host, c), history[r])

\* It is a restart that exits with another code than 0 and leaves the service
\* down.
FailsToRestart(r, c, own) == c = Restart /\ Changes(r, [host EXCEPT !.up = FALSE], own)

\* The command of r is not heard of: refused, or given up on.
Spoilt(r) ==
  [history[r] EXCEPT !.spoiled = @ \cup {IF Phase(r, "undo") THEN "recovery" ELSE "execution"}]

Spoil(r) == history' = [history EXCEPT ![r] = Spoilt(r)]

GivenUp(r, c) == late' = late \cup {[by |-> r, cmd |-> c]}

\* execute_incident has its incident in EXECUTING and reads its solutions.
Load(r) ==
  /\ Phase(r, "accepted")
  /\ exec' = [exec EXCEPT ![r].phase = "run"]
  /\ history' = [history EXCEPT ![r].host = host]
  /\ UNCHANGED <<host, late>>

Running(r) == Phase(r, "run") /\ exec[r].plan # << >>

Skip(r) ==
  /\ Running(r)
  /\ Head(exec[r].plan).action_type \notin Registered
  /\ exec' = [exec EXCEPT ![r].plan = Tail(@)]
  /\ UNCHANGED <<host, late, history>>

\* EDIT_CONFIG saves what the file says of the key; `_, current_value` drops
\* whether that worked.
SaveBackup(r) ==
  LET sol == Head(exec[r].plan) IN
  /\ Running(r)
  /\ sol.action_type = "EDIT_CONFIG"
  /\ Feasible(sol)
  /\ \/ /\ exec' = [exec EXCEPT ![r].phase = "edit", ![r].backup = Backup(host.file, sol.key)]
        /\ UNCHANGED history
     \/ /\ exec' = [exec EXCEPT ![r].phase = "edit", ![r].backup = ErrorText]
        /\ Spoil(r)
  /\ UNCHANGED <<host, late>>

\* The action's command is sent: for EDIT_CONFIG after the backup, for the
\* others at once.
Sends(r, sol) ==
  /\ sol = Head(exec[r].plan)
  /\ \/ Phase(r, "edit")
     \/ /\ Running(r)
        /\ sol.action_type \in Registered \ {"EDIT_CONFIG"}
        /\ Feasible(sol)

\* It exits with 0; its rollback_cmd is remembered.
Succeed(r) ==
  \E sol \in ToSet(exec[r].plan) :
    /\ Sends(r, sol)
    /\ Runs(r, CommandOf(sol))
    /\ exec' = [exec EXCEPT ![r].phase = "run", ![r].plan = Tail(@), ![r].backup = NoText,
                            ![r].cmds = @ \o UndoOf(sol, exec[r].backup)]
    /\ UNCHANGED late

\* The loop is left for the rollback.
Leave(r) ==
  exec' = [exec EXCEPT ![r].phase = "commit", ![r].plan = << >>, ![r].backup = NoText]

\* An argument is missing or the command exits with another code than 0, and
\* has changed nothing; or a restart has left the service down.  That step's
\* rollback_cmd is not remembered: only that of an earlier restart, if there is
\* one, will bring the service up.
Fail(r) ==
  /\ \/ /\ \/ Phase(r, "edit")
           \/ Running(r) /\ Head(exec[r].plan).action_type \in Registered
        /\ UNCHANGED <<host, history>>
     \/ \E sol \in ToSet(exec[r].plan) :
          /\ Sends(r, sol)
          /\ FailsToRestart(r, CommandOf(sol),
                [history[r] EXCEPT !.broken = Restart \notin ToSet(exec[r].cmds)])
  /\ Leave(r)
  /\ UNCHANGED late

\* The command outlives its timeout or its connection.
TimeOut(r) ==
  \E sol \in ToSet(exec[r].plan) :
    /\ Sends(r, sol)
    /\ GivenUp(r, CommandOf(sol))
    /\ Spoil(r)
    /\ Leave(r)
    /\ UNCHANGED host

Report(r) ==
  /\ Phase(r, "run")
  /\ exec[r].plan = << >>
  /\ exec' = [exec EXCEPT ![r].phase = "reported", ![r].cmds = << >>]
  /\ UNCHANGED <<host, late, history>>

RollbackOrder_Forward(cmds) == cmds

\* reversed(rollback_cmds)
RollbackOrder(cmds) == Reverse(cmds)

\* The two awaits of the transition to ROLLING_BACK, and the call of
\* rollback_actions.
Transition(r) ==
  /\ \/ /\ Phase(r, "commit")
        /\ exec' = [exec EXCEPT ![r].phase = "refresh"]
     \/ /\ Phase(r, "refresh")
        /\ exec' = [exec EXCEPT ![r].phase = "undo", ![r].cmds = RollbackOrder(@)]
  /\ UNCHANGED <<host, late, history>>

\* One command of rollback_actions.  Whatever comes of it, the next one is
\* sent after it.
Undo(r) ==
  LET c == Head(exec[r].cmds) IN
  /\ Phase(r, "undo")
  /\ exec[r].cmds # << >>
  /\ exec' = [exec EXCEPT ![r].cmds = Tail(@)]
  /\ \/ Runnable(c) /\ Runs(r, c) /\ UNCHANGED late
     \/ Spoil(r) /\ UNCHANGED <<host, late>>
     \/ FailsToRestart(r, c, Spoilt(r)) /\ UNCHANGED late
     \/ Runnable(c) /\ GivenUp(r, c) /\ Spoil(r) /\ UNCHANGED host

\* The retry is counted and the last transition asked for.
Conclude(r) ==
  /\ Phase(r, "undo")
  /\ exec[r].cmds = << >>
  /\ exec' = [exec EXCEPT ![r].phase = "concluded", ![r].retry = CountedRetry(@)]
  /\ UNCHANGED <<host, late, history>>

\* A command that was given up on takes effect after all, or is a restart that
\* fails.
LateEffect ==
  \E l \in late :
    /\ Runs(l.by, l.cmd) \/ FailsToRestart(l.by, l.cmd, history[l.by])
    /\ late' = late \ {l}
    /\ UNCHANGED exec

Next ==
  \/ \E r \in Executions :
       \/ Load(r) \/ Skip(r) \/ SaveBackup(r) \/ Succeed(r) \/ Fail(r) \/ TimeOut(r)
       \/ Report(r) \/ Transition(r) \/ Undo(r) \/ Conclude(r)
  \/ LateEffect

Spec == Init /\ [][Next]_vars

-----------------------------------------------------------------------------
(***************************************************************************)
(* Properties.                                                             *)
(***************************************************************************)
Host == [file : Seq(Line), loaded : Seq(Line), up : BOOLEAN]

Past == [host : Host, others : SUBSET Keys, spoiled : SUBSET {"execution", "recovery"},
         broken : BOOLEAN]

\* Every variable of the agent keeps its type.
TypeOK ==
  /\ host \in Host
  /\ late \subseteq [by : Executions, cmd : Command]
  /\ exec \in [Executions -> [phase : Phases, sols : Seq(Step), plan : Seq(Step),
                              backup : Line, cmds : Seq(Command), retry : Nat]]
  /\ history \in [Executions -> Past]

\* A rollback in which every command was answered, of an execution whose
\* commands were.
RolledBack(r) == Phase(r, "concluded") /\ history[r].spoiled = {}

\* The keys a plan's edits concern: their own, and a longer one that grep takes
\* for it.
Touched(sols) ==
  {key \in Keys : \E i \in DOMAIN sols :
     sols[i].action_type = "EDIT_CONFIG" /\ (sols[i].key = key \/ <<sols[i].key, key>> \in Longer)}

\* rollback_actions: such a rollback gives every key that nobody else has
\* changed meanwhile the values it had when the execution began, however
\* often the plan edited it and whoever was at work beside it.  Only a key the
\* file did not have may be left behind, as UNKNOWN; and a key the plan edits
\* whose old value has an "&" or a "\" is set to something, but perhaps to
\* something else, as the old value is not quoted for sed.
KeysRestored ==
  \A r \in Executions : RolledBack(r) =>
    LET before == history[r].host.file IN
    \A key \in Differs(host.file, before) \ history[r].others :
      \/ Values(before, key) = {} /\ Values(host.file, key) = {"UNKNOWN"}
      \/ /\ key \in Touched(exec[r].sols)
         /\ Values(before, key) \cap Special # {}
         /\ Values(host.file, key) # {}

RestartsComeFirst(sols) ==
  \A i, j \in DOMAIN sols :
    sols[i].action_type = "EDIT_CONFIG" /\ sols[j].action_type = "RESTART" => j < i

\* rollback_actions: after such a rollback the service runs with what it ran
\* with before, or with what the file says now that it is restored; provided
\* the plan restarts before it edits, and nobody else has changed anything.
\* (If it restarts after an edit, the undo restarts before the edit is undone,
\* and the service goes on with the edit.)  The service is left down only by
\* the plan's first restart, whose own rollback_cmd is dropped when it fails:
\* after a later one the undo of an earlier one brings it up.
ServiceRestored ==
  \A r \in Executions :
    RolledBack(r) /\ history[r].others = {} /\ RestartsComeFirst(exec[r].sols) =>
      LET before == history[r].host IN
      \/ host.up = before.up /\ host.loaded = before.loaded
      \/ host.up /\ Differs(host.loaded, host.file) = {}
      \/ history[r].broken /\ ~host.up

\* EditConfigAction: an edit that reports success has set the key to the value
\* it was given, whatever the file said; but for a value with an "&" or a "\"
\* that sed has written in the place of another, and for a key the file does
\* not have behind a longer one that grep takes for it.
EditsTakeEffect ==
  [][ \A r \in Executions :
        Phase(r, "edit") /\ exec'[r].phase = "run" =>
          LET sol == Head(exec[r].plan) IN
          \/ sol.value \in Values(host'.file, sol.key)
          \/ sol.value \in Special /\ Values(host.file, sol.key) # {}
          \/ Values(host.file, sol.key) = {} /\ Grep(host.file, sol.key) # {} ]_vars

\* How LogFixer sees the incident and the request of an entry e of exec.
AbstractPlan(plan) == [i \in DOMAIN plan |-> Abstract(plan[i])]

RowOf(e) ==
  [state |-> IF e.phase \in {"accepted", "run", "edit", "commit", "reported"}
             THEN "EXECUTING" ELSE "ROLLING_BACK",
   retry |-> e.retry,
   sols  |-> AbstractPlan(e.sols)]

StageOf(phase) ==
  CASE phase = "accepted"  -> "refresh"
    [] phase = "edit"      -> "run"
    [] phase = "concluded" -> "commit"
    [] phase = "reported"  -> "idle"
    [] OTHER               -> phase

JobOf(e) ==
  [kind  |-> IF e.phase = "reported" THEN "none" ELSE "execute",
   stage |-> StageOf(e.phase),
   goal  |-> CASE e.phase = "accepted"              -> "EXECUTING"
               [] e.phase \in {"commit", "refresh"} -> "ROLLING_BACK"
               [] e.phase = "concluded"             -> RetryTarget(e.retry)
               [] OTHER                             -> "ABSENT",
   mem   |-> IF StageOf(e.phase) \in {"run", "undo"} THEN RowOf(e) ELSE NoRow,
   plan  |-> AbstractPlan(e.plan),
   undo  |-> Len(e.cmds)]

Service(r) == INSTANCE LogFixer WITH
  Requests   <- {r},
  Serves     <- [q \in {r} |-> {"execute"}],
  Results    <- {},
  Faults     <- FALSE,
  RetryBound <- 0,
  row        <- RowOf(exec[r]),
  job        <- [q \in {r} |-> JobOf(exec[r])],
  slack      <- {},
  lc         <- "OPEN",
  rollbacks  <- IF Phase(r, "concluded") THEN 1 ELSE 0

\* Everything the agent does for a request is, seen from LogFixer, a step of
\* that request: what the four actions need, whether they can be undone, and
\* how their failure is followed by the rollback.
ImplementsLogFixer ==
  [][ \A r \in Executions :
        JobOf(exec'[r]) # JobOf(exec[r]) => Service(r)!Step(r) ]_vars

-----------------------------------------------------------------------------
\* The documentation's retry rule: an incident goes back to RECEIVED only from
\* a recovery that succeeded; one that failed is escalated.
FailedRecoveryEscalates ==
  \A r \in Executions :
    Phase(r, "concluded") /\ RetryTarget(exec[r].retry) = "RECEIVED" =>
      "recovery" \notin history[r].spoiled

=============================================================================
