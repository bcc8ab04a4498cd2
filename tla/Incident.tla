------------------------------ MODULE Incident ------------------------------
(***************************************************************************)
(* The data of one LogFixer incident and the pure decisions made about it: *)
(* the states and the transition table of app/status/machine.py, the       *)
(* retry rule of app/api/incident.py, the checks of                        *)
(* app/analyzer/validator.py and what app/agent says of each action type.  *)
(* No variables: Lifecycle and LogFixer both extend this module.           *)
(*                                                                         *)
(* The operators named ..._<fault> are faulty variants of the operator     *)
(* that follows them, kept for mutation testing; nothing else uses them.   *)
(***************************************************************************)
EXTENDS Naturals, Sequences

\* class IncidentState(str, Enum)
IncidentState == {"RECEIVED", "ANALYZING", "PENDING_APPROVAL", "EXECUTING",
                  "RESOLVED", "ROLLING_BACK", "ESCALATED"}

ALLOWED_TRANSITIONS_NoProposal ==
  {<<"RECEIVED", "ANALYZING">>,
   <<"PENDING_APPROVAL", "EXECUTING">>,
   <<"PENDING_APPROVAL", "RECEIVED">>,
   <<"EXECUTING", "RESOLVED">>,
   <<"EXECUTING", "ROLLING_BACK">>,
   <<"ROLLING_BACK", "RECEIVED">>,
   <<"ROLLING_BACK", "ESCALATED">>}

ALLOWED_TRANSITIONS_NoEscalation ==
  {<<"RECEIVED", "ANALYZING">>,
   <<"ANALYZING", "PENDING_APPROVAL">>,
   <<"PENDING_APPROVAL", "EXECUTING">>,
   <<"PENDING_APPROVAL", "RECEIVED">>,
   <<"EXECUTING", "RESOLVED">>,
   <<"EXECUTING", "ROLLING_BACK">>,
   <<"ROLLING_BACK", "RECEIVED">>}

\* The dictionary ALLOWED_TRANSITIONS as a relation. RESOLVED and ESCALATED
\* are the keys with an empty list.
ALLOWED_TRANSITIONS ==
  {<<"RECEIVED", "ANALYZING">>,
   <<"ANALYZING", "PENDING_APPROVAL">>,
   <<"PENDING_APPROVAL", "EXECUTING">>,
   <<"PENDING_APPROVAL", "RECEIVED">>,
   <<"EXECUTING", "RESOLVED">>,
   <<"EXECUTING", "ROLLING_BACK">>,
   <<"ROLLING_BACK", "RECEIVED">>,
   <<"ROLLING_BACK", "ESCALATED">>}

\* transition()'s test `target not in allowed`. An absent row ("ABSENT") has
\* no transition: the 404 and the 409 both end the request.
CanMove(current, target) == <<current, target>> \in ALLOWED_TRANSITIONS

-----------------------------------------------------------------------------
(***************************************************************************)
(* One solution candidate of an analysis. Only what a decision reads is    *)
(* kept: the action type, whether target is given and whether config_key   *)
(* and config_value are both given.                                        *)
(***************************************************************************)
Solution == [action_type : STRING, target : BOOLEAN, keyval : BOOLEAN]

VALID_ACTION_TYPES == {"RESTART", "EDIT_CONFIG", "DEL_DISK", "CLEAR_MEMORY"}

\* What analyze() hands to validate(): is the confidence at least
\* MIN_CONFIDENCE, and the ranked solutions. A reply of the model that does
\* not parse gives confidence 0.0 or no solutions.
AnalysisResult == [confident : BOOLEAN, solutions : Seq(Solution)]

ValidSolution_AnyType(sol) == sol.action_type = "EDIT_CONFIG" => sol.keyval

ValidSolution(sol) ==
  /\ sol.action_type \in VALID_ACTION_TYPES
  /\ sol.action_type = "EDIT_CONFIG" => sol.keyval

\* validate() finds no issue.
Validate(result) ==
  /\ result.confident
  /\ result.solutions # << >>
  /\ \A i \in DOMAIN result.solutions : ValidSolution(result.solutions[i])

\* The argument checks at the head of RestartAction and EditConfigAction; the
\* other two actions run without looking at their arguments.
HasArguments(sol) ==
  /\ sol.action_type = "RESTART" => sol.target
  /\ sol.action_type = "EDIT_CONFIG" => sol.target /\ sol.keyval

\* The keys of _REGISTRY; execute_incident skips a solution of any other type.
Registered == {"RESTART", "EDIT_CONFIG", "DEL_DISK", "CLEAR_MEMORY"}

\* The actions whose successful ActionResult carries a rollback_cmd.
Reversible(sol) == sol.action_type \in {"RESTART", "EDIT_CONFIG"}

-----------------------------------------------------------------------------
(***************************************************************************)
(* The columns of LfIncident that decide anything: state, retry_count and  *)
(* solutions_json. "ABSENT" is the state of a log_hash with no row.        *)
(***************************************************************************)
Row == [state : IncidentState \cup {"ABSENT"},
        retry : Nat,
        sols  : Seq(Solution)]

NoRow == [state |-> "ABSENT", retry |-> 0, sols |-> << >>]

NewRow == [state |-> "RECEIVED", retry |-> 0, sols |-> << >>]

\* retry_count += 1 on the object the session holds.
CountedRetry_Down(n) == n - 1

CountedRetry(n) == n + 1

\* `if incident.retry_count < 3`
RetryLimit == 3

RetryTarget_Early(n) == IF n + 1 < RetryLimit THEN "RECEIVED" ELSE "ESCALATED"

RetryTarget_Late(n) == IF n <= RetryLimit THEN "RECEIVED" ELSE "ESCALATED"

RetryTarget(n) == IF n < RetryLimit THEN "RECEIVED" ELSE "ESCALATED"

\* What the flush of a reopened incident does to the row. The UPDATE names
\* the columns that differ from the ones loaded: state always does,
\* retry_count only when the loaded one was not already 0.
Reopened_KeepRetry(current, loaded) == [current EXCEPT !.state = "RECEIVED"]

Reopened(current, loaded) ==
  [current EXCEPT !.state = "RECEIVED",
                  !.retry = IF loaded.retry = 0 THEN current.retry ELSE 0]

\* What the flush of an analysis may leave in the row.  The UPDATE names
\* solutions_json when its text differs from the one the session loaded: lists
\* that are equal in what is kept of them here may be the same text or not.
Saved(current, loaded, sols) ==
  {[current EXCEPT !.sols = sols]} \cup (IF sols = loaded.sols THEN {current} ELSE {})

=============================================================================
