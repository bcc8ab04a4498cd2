# LogFixer in TLA+

LogFixer receives incidents from LogCollector (LC), has a language model propose
solutions, asks people in Slack to approve them, runs them over SSH, rolls them
back when one fails, and reports to LC. These modules specify what happens to an
incident on the way, check it with TLC on small instances and prove the
central facts with TLAPS for instances of any size. Paths below are relative to
the repository; `app/...` is `src/app/...` seen from the directory above this one.

    tlc -config MCOverlap.cfg MCLogFixer      # and the other .cfg files
    tlapm LogFixerProofs.tla                  # and the other *Proofs modules

## 1. The system

| Component | State it keeps | Operations | Calls |
|---|---|---|---|
| State machine, `app/status/machine.py` | the row of each incident in `lf_incident` (`app/db/models.py`) | `upsert_incident` (create, update, reopen), `transition`, `get_incident` | MariaDB |
| Incident API, `app/api/incident.py` | none; one database session per request (`app/core/dependencies.py`) | webhook, detail, analyze, execute, resolve | state machine, analyzer, agent, Slack, reporter |
| Slack endpoint, `app/api/slack_action.py` | none | approve, reject, resolve buttons | state machine, Slack |
| Slack notification, `app/notification/slack.py` | the messages in the channel and their buttons | post an approval request, post a report, update a message | Slack |
| Analyzer, `app/analyzer` | none | `analyze`, `validate` | retrieval, OpenAI |
| Agent, `app/agent` | the servers it changes | four actions, `rollback_actions`, `run_ssh_command` | SSH |
| Reporter, `app/reporter` | LC's status and knowledge base | PATCH status, GET article (5 tries), POST addendum | LC |
| Scheduler, `app/scheduler` | none | two periodic queries that only log | MariaDB |
| Retrieval, `app/rag` | none | BM25 and kNN searches, rank fusion | Elasticsearch, Qdrant, OpenAI |
| Vector store, `app/vectordb` | three collections | create at start, search, two unused inserts | Qdrant |
| Start, `app/main.py` | none | tables, collections, scheduler | |

The components meet in the row: every endpoint loads it, decides, awaits
something slow and writes it again. LC, Slack users and API clients act whenever
they like. This is where the hard behaviour is.

* **Check, await, write.** `transition()` selects the row, checks
  `ALLOWED_TRANSITIONS` and commits the new state in separate awaits, with no
  lock and no condition on the UPDATE. Two handlers can both pass.
* **Stale objects.** Sessions use `expire_on_commit=False`. A handler that calls
  `transition()` again is checked against the object of its last `refresh()`, and
  the retry count is incremented on that object.
* **Long handlers.** An execution keeps its request open through every SSH
  command; buttons and webhooks arrive meanwhile.
* **Nothing resumes.** If the process dies, or the database or OpenAI raises,
  the row keeps the state of the last commit and no job picks it up.
* **Silent failures.** Slack messages may not be posted, buttons may stay
  live, LC may apply a PATCH whose answer is lost. A command on a server that is given up on
  after its timeout may still take effect, and the failure of a backup or of a
  rollback command is noted by nobody. Values are put into shell commands as they
  are, and sed gives some of them another meaning.

What makes each component correct: the row follows the table and never strands;
exactly three failed executions escalate; a reopened incident starts afresh; only
validated plans are proposed and run; a rollback restores the host, last change
first; LC and the row agree on RESOLVED; the addendum is written once; the fused
ranking is the sum of reciprocal ranks.

`PROJECT.json` lists the components, the hazards at their lines, and for every
definition the lines it stands for.

## 2. Modules

| Module | What it is |
|---|---|
| `Incident` | Pure data: states, transition table, retry rule, validator, what is known of each action, how a flush changes a row. |
| `Lifecycle` | The abstract specification: what is promised about one incident, without requests or sessions. |
| `LogFixer` | The service: one incident, any number of requests in flight, Slack, LC, faults. Implements `Lifecycle` for one driver. |
| `Agent` | The agent on one host: what the commands of a plan and of its rollback do to a file and a service. Implements the execute request of `LogFixer`. |
| `Reporter` | The requests to resolve an incident and their reports to LC: PATCH, GETs, POST, webhooks, and an LC that loses and delays messages. |
| `Analysis` | One run of `analyze()`: the searches, their fusion, the two questions, what is made of the replies. |
| `MCLogFixer`, `MCAgent`, `MCReporter`, `MCAnalysis` | The instances TLC checks. |
| `LogFixerProofs` | Theorems about `LogFixer` under any overlap of requests. |
| `DriverProofs` | Theorems about `LogFixer` with one driver; among them the refinement of `Lifecycle`. |
| `AgentProofs` | `Agent` implements the execute request of `LogFixer`. |
| `RollbackProofs` | What a rollback on a host restores, and that an edit takes effect. |
| `ReporterProofs` | Theorems about the reports. |
| `AnalysisProofs` | What passes the validator. |
| `FusionProofs` | What the fusion puts into the prompts, and the types of `Analysis`. |
| `FoldLemmas` | Facts about recursive functions, sums and orderings of finite sets, for `FusionProofs`. |

How they fit: `LogFixer` takes three things as single choices. What `analyze()`
returns is a member of `Results`, what an action does is to succeed or fail, and
LC hears the PATCH or does not. `Analysis`, `Agent` and `Reporter` open these three up.
`Agent` and `Analysis` extend the same `Incident` as `LogFixer`, so the validator, the
registry and the retry rule are the same definitions; `Agent` instantiates
`LogFixer` and every step it takes for an incident is shown to be a step of
the service's execute request. (It begins after the commit of EXECUTING, so the steps of
the two correspond, not the initial states.)

### LogFixer and the code

`row` is the incident's row, `NoRow` before the first webhook. `job[r]` is the
request `r`: the `kind` of handler, the `stage` (what it awaits next), the `goal`
of the transition under way, `mem` (the `LfIncident` object of its session),
`plan` (the solutions to propose, or still to run) and `undo` (the length of
`rollback_cmds`). `slack` holds the messages whose buttons are live, `lc` the
status LC shows. `rollbacks` is a history variable: retries ever counted, up to 3.

An action ends where the handler awaits:

| Handler | Actions |
|---|---|
| `receive_incident` / `upsert_incident` | `ReceiveNew`, `Insert`; `ReceiveRecurrence`, `Reopen` |
| `transition()` | `Begin` (load and check) or `Transitioned` (check on `mem`), `Commit`, `Refresh` |
| `analyze_incident` | `Analyze`, *transition*, `Analyse` (LLM, validation, save), *transition*, `Notify` |
| `execute_incident` | `Execute`, *transition*, `SkipAction` / `ActionSucceeds` / `ActionFails`, then `SendReport`, or *transition*, `Undo`, `CountRetry`, *transition* |
| `resolve_incident` | `Resolve`, *transition*, `PatchStatus` |
| `handle_slack_action` | `Approve`, `Reject`, `SlackResolve`, *transition*, `UpdateMessage` |
| an uncaught exception; the death of the process | `Abort`; `Crash` |

Decisions a reader may want to check:

* Rows of different incidents share nothing, so there is one.
* `mem` is kept only in the stages in which the handler still reads it (`Holding`).
  After a `Commit` it is loaded again by `Refresh`.
* A flush writes the columns the session changed: `Commit` only `state`,
  `CountRetry` only `retry_count`, `Reopen` the retry count only if the loaded one
  was not 0, `Analyse` the solutions only if their text differs from the one loaded.
  Two lists that are equal in what the model keeps may be different texts, so there
  `Saved` is a set: they are written or not. The last writer of a
  column wins: the service runs MariaDB 11.4 with its default isolation, under
  which a write after a stale read is not refused.
* A refused request (404, 409) and a webhook for an incident that is neither new
  nor RESOLVED change no column that any handler reads, and are not steps.
* The language model's answer and the commit of the analysis are one action; an
  exception in between is `Abort` at stage `llm`.
* A button pressed is a live button; two messages with the same text are one
  member of `slack`. `UpdateMessage` may always leave the button.
* A click on approve carries the incident's key and nothing of the plan.
* The report to LC is the PATCH, handled by LC while LogFixer waits for its answer
  or never. `Reporter` has the rest, and a PATCH that LC handles after the ten
  seconds LogFixer waits. LC reopens its own incident in the step in which the
  service loads the row for the webhook; `Reporter` has the two apart.

### Agent and the code

`host` is the configuration file (a sequence of lines, each with its key), what the
service read of it when it was last started, and whether the service is up. `late` holds the
commands that were given up on and may still run. `exec[r]` is the execute request `r`, each of
an incident of its own: its `phase`, the solutions of its row (`sols`) and those left (`plan`),
the value saved by EDIT_CONFIG (`backup`), `rollback_cmds` (`cmds`; in phase "undo" what is left
of them, in the order in which they are sent) and the `retry` count. `history` serves the
properties only: the host at the start, the keys that others have changed since, whether
something was not answered, and whether the first restart has left the service down.

| Code | Actions |
|---|---|
| `execute_incident`: the loop over the solutions (`incident.py:121`) | `Load`, `Skip` (no such action), `Leave` (a failure ends it), `Report` |
| `EditConfigAction.execute`: backup, then edit | `SaveBackup`; `Succeed`, `Fail`, `TimeOut` in phase "edit" |
| `RestartAction`, `DelDiskAction`, `ClearMemoryAction` | `Succeed`, `Fail`, `TimeOut` in phase "run" |
| `execute_incident`: the transition to ROLLING_BACK | `Transition` |
| `rollback_actions` | `Undo`, once for each command, in the order of `RollbackOrder` |
| `execute_incident`: the retry count and the transition after it | `Conclude` |
| `run_ssh_command` | its outcomes: `Runs`; another exit code, which has changed nothing or is `FailsToRestart`; `GivenUp` with `LateEffect` |

A text is one line of the file; what is none is `SeveralLines` (the output of a grep
that found more than one), `ErrorText` (that of an exception) or `NoText`. The commands are
modelled by what they do, the awkward part included:

* `grep '^key'` also finds longer keys (`Longer`);
* an edit appends when grep finds nothing *or sed fails*, which it does for a value with a
  slash (`Slashed`), its delimiter; what is appended is the value as it is;
* in a value with an `&` or a backslash (`Special`) sed puts something else for them and exits
  with 0. What (`Written`) depends on the value and on the line it replaces, and may be any text. The same
  holds of the old value that `rollback_cmd` puts back: neither is quoted;
* a backup of several lines, or with a slash, makes an undo that sed refuses; a backup over a broken
  connection is the text of the exception;
* a restart that fails may leave the service down. `execute_incident` keeps the `rollback_cmd` of
  actions that succeeded only, so the one RestartAction returns for this case
  (restart.py:33-38) is never sent.

Abstractions: one file and one service for each host; an edit that fails changes nothing, as
neither `sed -i` nor `tee -a` writes half a line; two equal commands given up on by one request
are one member of `late`; cleaning a disk or the memory concerns neither file nor service. The
remote shell is bash, whose `echo` writes its argument as it is. Values have no quotes, which end the
shell's own word; what sed writes in the place of a line is one line; a backslash
that sed takes for a missing group (`\1`) counts as a value sed refuses; keys have no characters
that mean something to grep and sed.

### Reporter and the code

`row` says whether the incident is RESOLVED and how often it has become so, `hooks` how many
webhooks LC has sent and how many of them have found the row RESOLVED and will reopen it.
`report[r]` is the request `r` to POST /resolve, by what it awaits; `wire` holds what LC was sent
and has not handled; `lc`, `article` and `addenda` are LC's.

| Code | Actions |
|---|---|
| `resolve_incident` with `transition()` | `Resolve` (load and check), `Commit`, `Refresh` (and the PATCH is sent), `Abort` |
| `upsert_incident` for a recurrence | `LcReopens` (LC's side), `Receive` (load and check), `Reopen` (commit) |
| `_patch_incident_status`, `_post_addendum` | `LcPatches`, `LcAppends` (LC handles it, with the answer heard or not), `Lost`, `GiveUp` (timeout or an answer that is not 200) |
| `_get_kb_article_id` | `Find` and `Miss`, one GET each |
| the death of the process | `Crash` |

Requests overlap: two may pass the check before either commits, and the second `Commit` leaves
a row that is RESOLVED as it is. Between two resolutions the incident goes through
analysis and execution, which are `LogFixer`'s; here an incident that is not RESOLVED
may be resolved at any time. When LC writes its article (`LcPublishes`) is its own affair.

### Analysis and the code

`found` is what each search answered, `arrived` in which order, `context` the documents
given to the prompts, `cause` and `answer` the replies of the model, `result` what
`analyze()` returns. `Embed` and `Answer` are the searches of `retrieve()`, each answering
when it likes, `Fuse` is `_fuse` in full, `ReplyCause` and `ReplySolutions` the two questions
with the replies that are missing, malformed, or partly of use, `Raise` every exception
nobody catches. The scores are exact, in units of 1/`Scale`, where Python has floats;
confidences are whole hundredths. What a search finds is any of the given lists.

## 3. What is checked

The runs named after `LogFixer`'s requests use `MCLogFixer`, the others the MC module of
their name. `CHECK_DEADLOCK FALSE` everywhere, because everything here does come to rest: an
ESCALATED incident has no request that would be accepted, an incident can strand in
ANALYZING, an execution, the last report and an analysis end.

| Run | Instance | Properties | What it shows |
|---|---|---|---|
| `overlap` | 2 requests of any kind, faults, analyses `TwoSteps` and `Reboot`, `RetryBound` 3 | `TypeOK`, `NoEarlyEscalation`, `ApprovalsAreWellFormed` | holds under every interleaving and fault |
| `driver` | 1 request of any kind but webhooks, 1 webhook, faults, all six analyses, bound 5 | `PlansAreWellFormed`, `OnlyAllowedTransitions` | one driver at a time is enough for the table, even with webhooks beside it, exceptions and crashes |
| `lifecycle` | as `driver`, without faults | `RetryBudget`, `FollowsLifecycle` | refinement of `Lifecycle` |
| `fair` | 2 requests of any kind, no faults, `TwoSteps`, `FairSpec` | `RollbackOwned`, `RollbackEnds`, `AnalysisEnds` | liveness under overlap |
| `agent` | 2 executions on one host, 3 plans, 3 files | `TypeOK`, `KeysRestored`, `ServiceRestored`, `EditsTakeEffect`, `ImplementsLogFixer` | what a rollback restores, and that `LogFixer`'s execute request is implemented |
| `reporter` | 2 requests to resolve, 1 webhook at a time, 5 GETs, `FairSpec` | `TypeOK`, `OncePerReport`, `ReportedIsStored`, `AddendumMeansClosed`, `ReportEnds` | what LC has, whatever is late, lost or interrupted |
| `analysis` | `TopK` 2, lists of up to 4 hits, all replies | `TypeOK`, `RankedBySum`, `ArrivalDoesNotMatter`, `ArticlesAreCited`, `UnreadableIsRefused` | the fusion, and what passes the validator |

**Bounds.** Two requests are what a race needs; the theorems cover any number.
`RetryBound` stops new executions once the row or a session has that many retries
(overlapping requests can push the count up without end); 3 is the least that
reaches ESCALATED, 5 leaves room for incidents that come back from the third retry
after a crash. The analyses are one plan with an action that can be undone and one
that cannot, one of a single step, one the validator accepts and the agent refuses
(RESTART without a target), and one for each way the validator refuses.
`overlap` uses request symmetry (no temporal property is checked there).

`agent` runs two executions, the least that get in each other's way, each with any of
three plans: one key edited twice (only undoing last first restores it), the second time to a
value sed interprets; a restart before an edit with a cleaning after them; and an edit with a
slash of a key that begins with the other key, between an unknown action and a step without its
target. One file has the shorter key, one has it with a value sed interprets, one has the longer key.
Retries are 0 there, and 0 or 2 in `failed_rollback`, on either side of
the limit; `failed_rollback` has one execution. `agent` uses symmetry: its
temporal properties are about single steps. `reporter` has two requests, which overlap or resolve
the incident one after the other, so that a report can be overtaken by the next; webhooks come
one at a time and without end. `analysis` has enough hits for two
places in the prompt, documents shared by the searches, without a key, found twice, and tied, and
two articles of one incident.

**Fairness.** `FairSpec` asks of each request in flight that it goes on. Every
await is bounded by a timeout of its client (SSH 30 s, httpx 10 s, the defaults of
OpenAI and Slack) and the asyncio loop runs what is ready. Nothing is assumed
of callers: no one has to press a button or call an endpoint. `EagerSpec` (only
in `approve_only`) adds a client that keeps calling `/execute`, to show that not
even this helps. `Reporter`'s `FairSpec` asks only that a report that waits gives up or goes
on (timeouts and sleeps are bounded); LC need not do anything.

**Mutants.** Every property of a passing run fails for at least one plausible error
in the code; the faulty operators stand before the ones they vary, named
`..._<fault>`, and `PROJECT.json` pairs them with the properties.

### Where the code departs from its documentation

Each of these runs ends in a violation, whose trace is a behaviour of the code.

| Run | Property | The trace |
|---|---|---|
| `racing_transitions` | `OnlyAllowedTransitions` | two analyze requests pass the check together; the second commits ANALYZING over PENDING_APPROVAL (README.md:34) |
| `approve_only` | `ApprovedIsExecuted` | approve moves to EXECUTING and runs nothing; `/execute` is then refused (slack_action.py:64) |
| `low_confidence` | `AnalysisEnds` | a refused analysis strands in ANALYZING (validator.py:8) |
| `lc_out_of_step` | `LcInStep` | a webhook of LC reopens the row around the PATCH of a resolve: LC shows RESOLVED, the row is RECEIVED (models.py:32) |
| `failed_rollback` | `FailedRecoveryEscalates` | a command of the rollback fails, the incident goes back to RECEIVED (architecture.md:190) |

Other departures are in the models, too, but have no run of their own:

* Two POST /resolve that pass the check together (machine.py:96) both report the one resolution, and
  LC has two addenda for it, though README.md:188 gives RESOLVED no transition: in `Reporter`, two times
  `Resolve` before `Commit`.
* Reject asks for RECEIVED, which the table allows from ROLLING_BACK as well (slack_action.py:72). POST
  /execute leaves the buttons of the approval message live: one pressed while the agent rolls back
  reopens the incident before its recovery is over (architecture.md:188). In `LogFixer`, `Reject` in ROLLING_BACK.
* An old value with an `&` or a backslash is not what a rollback puts back (edit_config.py:38,
  README.md:119), and a new one not what an edit writes (edit_config.py:34): the exceptions of
  `KeysRestored` and `EditsTakeEffect`.

And some are visible in the code or need no more than one step:

* `POST /execute` takes PENDING_APPROVAL to EXECUTING itself, without an approval
  (incident.py:109, architecture.md:6); `POST /resolve` resolves an EXECUTING incident
  without the Slack button (architecture.md:194).
* A resolve by the Slack button never reaches LC (architecture.md:61).
* A restart that fails returns a `rollback_cmd` (restart.py:33-38) that is dropped: only those of
  actions that succeeded are kept (incident.py:135-138). `ServiceRestored` says what that leaves.
* A list of solutions saved by an overlapping analysis is run in the place of the approved one, valid
  or not (incident.py:113); no document says that the approved one is run.
* Nothing in the service calls `analyze_incident`, although incident.py:40 leaves that to
  the scheduler in production.
* LC is called at `.../byhash/...`, the documents say `by-hash` (architecture.md:22, 51, 66).
* The text of an addendum that was found by a search never reaches the prompts: `_fuse`
  keeps other fields. A document found only as a pattern is cited as "".
* A confidence that is missing counts as 0.5 and passes; one above 1 passes too.

## 4. What is proved

Nothing is assumed but the types of the constants (the named ASSUMEs of each module)
and what a theorem states as its hypothesis.

**`LogFixerProofs`**: any set of requests, any kinds, any analyses, any `RetryBound`.

* `TypeCorrect`: `Spec => []TypeOK`. Inductive as it stands; one case per action.
* `NeverEscalatedEarly`: `Spec => []NoEarlyEscalation`, with faults and any
  overlap. Not inductive by itself: a handler escalates because of the copy of
  `retry_count` in its session. The invariant is `NotAhead`: until three rollbacks
  are counted, no copy, in the row or in a session, exceeds the number of rollbacks,
  and nobody is on the way to ESCALATED. `NotAheadFrame` does the quantifier
  once, for the steps that count nothing; `CountRetry` raises one copy and the
  number of rollbacks together.
* `ApprovalsValidated`: `Spec => []ApprovalsAreWellFormed`, with faults and any
  overlap. The invariant follows the list from `validate()` through the transition
  to the message: it stays in the request and is not read back from the row. (The
  list that is *run* is read back; under overlap `PlansAreWellFormed` fails, for one
  driver it is proved below.) `ValidatedIsWellFormed` is where the validator's
  list of action types meets the agent's registry.
* `RollbackAlwaysOwned`: if `Faults = FALSE`, `Spec => []RollbackOwned`, any overlap.
  Beside the property the invariant needs that only `execute_incident` runs actions
  and heads for ROLLING_BACK. This is the safety half of `RollbackEnds`: some
  request is always there to end the rollback; that it is not starved is fairness.

**`DriverProofs`**: one request `d` of any kind but webhooks and one, `w`, that receives
webhooks (`OneDriver`), any analyses and bound. The difficulty is that nothing locks the row:
the driver acts on a copy. `WebhookInv` says what a webhook in flight can do to the row
(insert it, or reopen it once it is RESOLVED), `DriverInv` what the driver knows of the row at each of
its stages, `StoredPlan` that a plan which can be run came from the validator.
Together they are `SerialInv`, which holds with faults. Without faults `RollbackInv` and
`RetryInv` (a row that is not ESCALATED is short of the retry limit, except between the retry
count and the commit that follows from it) strengthen it to `CalmInv`.

* `PlansValidated`, `RowFollowsTable`: with faults, `Spec => []PlansAreWellFormed` and
  `Spec => OnlyAllowedTransitions`.
* `RetryLeft`, `ImplementsLifecycle`: if `Faults = FALSE`, `Spec => []RetryBudget` and
  `Spec => FollowsLifecycle`, the refinement. For `Lifecycle` a
  step changes nothing (`Stays`), commits a transition (`Moves`), counts a retry (`Counts`) or
  takes in a webhook (`Receives`).

**`AgentProofs`**: any plans, files, keys, number of executions.

* `ImplementsService`: `Spec => ImplementsLogFixer`. The invariant `ExecInv` says of each execution
  that its fields have their types, what its plan is before and after the loop, and that an edit
  has its arguments; the backup and the host stay untyped, as no step `LogFixer` sees depends
  on them. The length of `cmds` is the `undo` of `LogFixer`: an action adds a `rollback_cmd`
  exactly where `LogFixer` counts one. One lemma for each action; `EveryStep` puts them together.

**`RollbackProofs`**: the same generality; the plans may edit a key as often as they like, and
the executions get in each other's way as they like.

* `AgentTyped`: `Spec => []TypeOK`. For `backup` and `cmds` to be typed, the texts of
  the shell itself ("UNKNOWN" and the like) must be strings, which is `LiteralAssumption`: true in
  TLA+ and checked by TLC, but not known to the provers.
* `EditTakesEffect`: `Spec => EditsTakeEffect`. `EditedValues` says what an edit does to the values
  of every key of every file, whichever of sed and tee does it and whatever sed makes of the value.
  The exceptions in the property are exactly where the code fails: a value sed interprets, a longer key.
* `RollbackRestoresKeys`: `Spec => []KeysRestored`. The property says something of the end of
  a rollback only, and an execution's own steps are not enough to be inductive: between two of them
  others change the file. The invariant `RollbackInv` says that as long as every command was
  answered there is a sequence of files from the first to the present one in which each file
  is what the command remembered for it would make of the next (`Undoes`), up to the keys
  others have changed (`Restorable`). A successful edit makes the sequence longer
  (`RestorableMore`), another request keeps it, as what it changed is no longer promised
  (`RestorableStays`), and an undo makes it shorter (`RestoringLess`): this is where the order
  of the rollback is needed. `Like` makes the two exceptions of the property: a key the file did not have, and a key
  the plan edits (`Touched`) whose old value sed interprets, of which only some value is promised.
* `RollbackRestoresService`: `Spec => []ServiceRestored`. `ServiceInv` follows a plan that restarts
  before it edits: once it has edited, no restart is left in it, so that a restart among its
  rollback commands is the first, and is sent last (`Traced`, `Retraced`). The service may be down
  only if the plan's first restart failed (`broken`), whose `rollback_cmd` is dropped; after a later one
  that failed, the restart that is sent last brings the service up.

**`ReporterProofs`**: any set of requests, which overlap as they like, any number of webhooks,
any `MAX_RETRY`.

* `ReporterTyped`: `Spec => []TypeOK`.
* `AddedOnce`, `OkIsTrue`: `Spec => []OncePerReport`, `Spec => []ReportedIsStored`. By
  `OnceInv` a POST is on the wire or in the addenda, never both, and neither before the report got
  that far. (Two overlapping requests are two reports of one resolution, and
  add two: section 3.)
* `AddendumClosed`: `Spec => []AddendumMeansClosed`. A report of the present resolution is past its PATCH
  (`PastPatch`) only after LC handled it, and from then until LC sees the error again LC is closed
  (`ClosedInv`), whichever of the requests that report the resolution it was.

**`AnalysisProofs`**: any searches, lists and replies.

* `UnreadableRefused`: `Spec => []UnreadableIsRefused`: a confidence the validator accepts comes from a reply
  that was read (`RepliesInv`), solutions it accepts from items all of which were.

**`FusionProofs`**: any `TopK`, any answers of the searches in any order, any replies. The
assumption on the answers that goes beyond their type is `IdAssumption`: a document from
Elasticsearch has an `_id`, which `bm25_search` falls back on for a missing `kbArticleId`.

* `FusionRanksBySum`, `FusionIgnoresArrival`, `FusionCitesArticles`: `Spec => []RankedBySum`,
  `Spec => []ArrivalDoesNotMatter`, `Spec => []ArticlesAreCited`. The invariant `FusionInv`
  is small: from the first prompt on, `context` is `Fused` of what was found, every list has
  at most 2 * `TopK` hits, and every hit of BM25 has an id. The work is in what `Fused` computes. The properties
  speak of places in lists and sums over them, `_fuse` of one dictionary that three loops
  fill. The fold is taken apart into one step per entry (`DocsSteps`); an entry is skipped
  (`SkipsBlank`), added to a document (`JoinsKnown`) or becomes a new one
  (`AppendsNew`), and each keeps `Collected`: the keys so far are distinct and are those of the
  entries passed, in the order of their first occurrence, each score is the sum over the
  places passed, and a document that BM25 found has what BM25 said last under its key (`LastArticle`). After the last entry the sum
  over places passed is `Reciprocal`. `SortedDocs` shows the sort to be a permutation in the
  order of `Before`, from which it follows that what is cut off is outranked.
* `AnalysisTyped`: `Spec => []TypeOK`. That `context` has its type is where `FusedDocs` is
  needed: a document without a key never gets into a prompt.

**`FoldLemmas`**: folds and sums over finite sets, which the community modules define by recursion on the set.
The library's theorems on induction take an operator as a parameter, so the induction is
done here over sets instead: a family of subsets of a finite set has a minimal member
(`MinimalSubset`), a set of numbers with 0 and with successors is all of them
(`Induction`). From these follow the existence and the equations of a function
defined by recursion over the subsets of a finite set (`SetRecursion`), of the folds
as they are defined there (`ChosenFold`), that a sum does not depend on which
term is taken first (`SumRemove`), and that in a strict total order every member of a
finite set has a rank of its own (`Ranking`).

Only model-checked:

* Liveness (`RollbackEnds`, `AnalysisEnds`, `ReportEnds`): out of the prover's reach.

Every safety invariant, action property and refinement that a passing run checks is a theorem,
under the conditions of its run (one driver, no faults) where the list above names them.

## 5. Not modelled

* **Scheduler** (`app/scheduler/poller.py`): two queries whose rows are logged. It writes nothing
  and calls nothing, so no model would differ with or without it.
* **Start** (`app/main.py`, `init_collections`): what is missing is created, one after the other, before
  the one process serves anything. What a start does *not* do, resume requests, is `Crash`.
* **Inserts of `app/vectordb/store.py`**: called from nowhere. Its two searches are answers in `Analysis`.
* **Texts**: prompts, the layout of messages, the addendum (its resolution time is the time
  the module was imported, generator.py:14, which no state depends on), logging, settings.
* **Columns no handler reads** (`repeat_count`, `impacted_host_count`, `occurred_at`), and Slack threads.

## 6. Status

All that was planned is done: the service, the agent, the reporter and the analysis, the
refinements `LogFixer` to `Lifecycle` and `Agent` to `LogFixer`, and proofs of every safety
property of a passing run. Where the code does not keep what its documents say, a run shows the trace
(section 3), and the properties that are proved state the exception. Several hosts for one plan are left out because the code does not
tell them apart (every action of a request goes to the same host).
