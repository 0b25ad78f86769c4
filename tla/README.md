# APM orchestrator: a TLA+ development

The orchestrator drives business cases (contract renewals, customer
onboardings) through chains of writes, each of which a human approves in
`apm_connectors` before it happens. The hard part of the code is not any one
node but what several processes do to the same case: a command that starts it,
pollers that resume it, the human who decides, and the three stores they share
without a lock. This directory models that part, checks it with TLC and proves
its main invariants with TLAPS.

Paths below are relative to the repository root; the package is
`src/apm_orchestrator/`.

## 1. The system

| Component | State it keeps | Operations | Correct when |
|---|---|---|---|
| Case graphs (`agents/*/case_graph.py`) | `CaseState`, one LangGraph thread per case, checkpointed to Postgres | nodes, `_route_after_check`, `_route_after_wait`, `_guarded` | a write is proposed only after the one before it was approved; the summary says what happened |
| Starting and resuming (`start_case`, `resume_case`, `scripts/run_case.py`) | none of its own | done guard, `register`, `ainvoke` | a finished case stays finished; one runner per thread |
| Poller (`poller.py`) | none between sweeps | `sweep_once`, `_sweep_agent`, `_run_loop` | every decided case is resumed, with the decision of the action it waits for |
| Case registry (`db.py`) | `orchestrator_cases` | `register` (ON CONFLICT DO NOTHING), `list_case_ids` | a case the poller should see is in it |
| Approval gate (`apm_connectors`, external; seen through `connectors_client.py`) | proposed actions, status per process | write routes, `/decision`, `/status` | an undecided action has no status |
| Supervisor (`supervisor.py`) and routing log (`db.py`) | `supervisor_routing_log`; locals of one run | `run_supervisor`, `record`, `list_for_review`, `mark_reviewed` | a row is one tool call; whoever delegated left a row |
| Review and calibration scripts (`scripts/`) | the reviewer's last listing; the batch script's position | list, mark, the calibration report, the batch loop and its resumption | verdicts stand, nothing waits for ever, the report trusts the signal on evidence only; a resumed batch loses no prompt |
| Routing evaluation (`evals/`) | the result of the case in hand, the outcomes so far | `run_traced`, the verdicts, `summarize` | the exit code says whether the Supervisor's model routed right |
| Account lookup (`verify_account_node`, onboarding's `detect_node`) | locals of one node | exact and widened lookup, stale opportunities, the pick, the window | the opportunity acted on is the account's own and in the window; a case that stops has a reason |
| Language-model agents (`agents/*/agent.py`) and their tools (`tools.py`) | the conversation of one session; a shared HTTP client | any sequence of tool calls of the toolbelt, then a report | a human can act on what the report names, and what it leaves out showed as an error |
| Policies, configuration, command line | none | loading, printing | see section 8 |

How they interact: `run_case.py` reads the thread, inserts the registry row and
invokes the graph, three separate awaits. The graph calls the gate over HTTP
and pauses in `interrupt()`. A poller lists the registry, reads the thread,
asks the gate for the status of the action and resumes the thread, four separate
awaits. A human decides at any time. LangGraph writes the checkpoint of a node
in the background while the next node runs and waits for the last one before
`ainvoke` returns. The supervisor hands requests to agents that do not start
cases, so its log has no tie to the registry (`db.py`, module docstring).

Hard behaviours: stale reads between those awaits, overlapping sweeps, ids
shared by several writes, deaths between a write and its checkpoint, lost
answers, midnight between two reads of the date, one failing read ending a sweep, starting a case_id again, a row
written after the delegation it records. `PROJECT.json` lists each with its
line under `hazards`.

## 2. Modules

| Module | Models | Built on |
|---|---|---|
| `CaseGraph` | both graphs as tables and pure operators: nodes, edges, the patch of each node, routing | |
| `ApmConnectors` | the gate: `actions`, `status`, how an id is chosen, deciding | |
| `CaseRuntime` | processes, registry, checkpoints; the specification of the core | `CaseGraph`, `ApmConnectors` |
| `HumanGate` | abstract: what a case promises to the human, without processes, threads or ids | |
| `CaseInvariant` | the inductive invariants (`Custody`, `Unfinished`, `IInv`, `LastWriteInv`, `OrderlyInv`) and the deployments they need (`OneAtATime`, `Discipline`) | `CaseRuntime` |
| `CaseRefinement` | the mapping of `CaseRuntime` to `HumanGate`, and what it needs beside the invariants (`OwnSteps`) | `CaseInvariant`, INSTANCE `HumanGate` |
| `CallGate` | `GateInv`: what is left of the gate in any deployment, without `Discipline`; `CourseInv`: what is left of the chain when a case_id keeps to one agent (`OneAgentPerCase`) | `CaseRuntime` |
| `CaseRuntimeProofs` | proof of the type invariant, of `Custody`, `Unfinished` and `OrderlyInv`, and of what follows from them | `CaseInvariant` |
| `CaseSafetyProofs` | proof of `IInv` and `LastWriteInv`, of five safety properties and of the refinement of `HumanGate` | `CaseRefinement`, `CaseRuntimeProofs` |
| `CallGateProofs` | proof of `GateInv` and `CourseInv` and of what follows from them | `CallGate`, `CaseSafetyProofs` |
| `AccountLookup` | the lookup of both agents: names, queries, the pick, the window, the calendar | |
| `AccountLookupProofs` | proof of its invariant and of its five safety properties | `AccountLookup` |
| `RoutingLog` | supervisor runs, the log table, reviewers, the calibration report | |
| `RoutingLogProofs` | proof of the log's audit trail, of the report's grounds and of a lone reviewer's verdicts | `RoutingLog` |
| `CalibrationBatch` | the batch script: `--start`, `--limit`, its listings, failures, resumptions, other processes, reviewers | |
| `CalibrationBatchProofs` | proof that resumption loses nothing, "declined" is true and the count is exact | `CalibrationBatch` |
| `RoutingEval` | the evaluation: stub sessions, verdicts, exit code | |
| `RoutingEvalProofs` | proof of what the exit code and the confidences mean | `RoutingEval` |
| `AgentTools` | sessions of the language-model agents, their toolbelts and what they tell the human | `ApmConnectors` |
| `AgentToolsProofs` | proof that reports can be acted on | `AgentTools` |
| `MCCaseRuntime`, `MCAccountLookup`, `MCRoutingLog`, `MCAgentTools` | constants of the TLC runs | |

### CaseRuntime against the code

| Variable | Code |
|---|---|
| `registry[c]` | row of `orchestrator_cases`: `agent`, and `at`, its rank by `created_at` |
| `ckpt[c]` | checkpoint of thread `case_id`: `next` node, `interrupted`, and the `CaseState` fields the control flow reads |
| `proc[p]` | what a process holds between awaits: `pc`, the case, the rest of the list (`todo`), the polled `action_id` (`seen`), the decision to resume with (`verdict`), the thread it is running (`mem`) |
| `actions`, `status` | the gate's record of proposed writes; what `GET /processes/{id}/status` answers |
| `starts` | bound only: how often each case_id was started |

| Action | Code |
|---|---|
| `BeginStart`, `Register`, `InvokeInitial` | the three awaits of `start_case` |
| `RunCheck`, `RunPull`, `RunPropose`, `RunWait`, `RunRecordOutcome` | one node each, with the whole of its effect: the gate call, the state patch, the routing edge and the checkpoint |
| `BeginSweep`, `SweepNext`, `SweepAgentDone` | `sweep_once` and the loop of `_sweep_agent`: the list is read once per agent, each thread when its turn comes |
| `PollAnswered`, `PollFails` | `get_action_status`: no status, a status, or an exception that ends the sweep |
| `InvokeResume` | `resume_case`: runs the checkpoint of now, whatever it waits for |
| `Dies` | a process is killed, or a node raises something `_guarded` does not catch |
| `HumanDecides` | a human at `/tools/actions/{id}/decision`, and the execution that follows an approval (external) |

A guarded node either passes or stops the case (`Stopped`: a business stop or a
`ConnectorError`, which the control flow cannot tell apart). A propose node has
three outcomes: recorded and answered, not recorded, recorded with the answer
lost. `Checkpoint` lets a node's checkpoint be already written or still in
flight; `Leave` makes the last one certain. `StartedFrom` keeps every field the
input of `start_case` does not name, as LangGraph does. `order_renewal` passes
`process_id=case_id` on each write and so shares one id between them;
`customer_onboarding` passes none and gets a fresh id (`PassesProcessId`).

A decision is one of three `Outcomes`: approved and executed, rejected, or
approved and failed to execute. The poller makes two of them (`Resolved`:
`bool(result["executed"])`), so that a failed execution resumes the case as a
rejection. A case_id may be started under both agents: the registry keeps the
first row, the thread is one, and the poller resumes it with the graph of the
row. If the thread's next node is not one of that graph (`NodesOf`), LangGraph
finds no task and `ainvoke` returns at once, which is what `InvokeResume` does.

### AccountLookup against the code

One behaviour is one call of `verify_account_node` (`order_renewal`) or
`detect_node` (`customer_onboarding`); `agent` tells which. The stages are the
points between two reads of something that may change: `QueryExact` and
`QueryWidened` each answer from a `book`, any content Salesforce may have at
that moment, and `NoteStale`, `Choose` and `Judge` each ask for today's date,
with `Midnight` at any point. `QueryFails` is a `ConnectorError`, caught by
`_guarded`. Names are taken apart as far as the code treats them differently:
their words, whether a blank is doubled, and their tail (nothing, a period, a
blank and a period). `Normalized` is `" ".join(split()).rstrip(".").casefold()`,
which keeps the blank before a stripped period. `Occurs` is `LIKE '%given%'`,
with the given spelling as it is; `Within` says which name is part of which.
`Answers` is LIMIT without ORDER BY: any subset that fits. `Closest` leaves a tie
open: `min` takes the first of an order the query does not fix.

Left out: case (SOQL compares without it, `casefold` removes it), `_` and `%` in
names, which LIKE reads as wildcards, opportunities without a `fields` key, and
the stage and type filters of the onboarding query, which only decide what a
`book` holds.

### RoutingLog against the code

`run[r]` holds the locals of one `run_supervisor`: `calls` is what the stream
held, `called` what the loop still remembers. `Delegate` is one `ToolUseBlock`,
`EndStream` the end of the loop and the `if` behind it, `Record` the INSERT with
its `confidence or "unknown"`, which may be committed although the run then
fails. `ListRows` and `MarkReviewed` are the two subcommands of
`review_routing_log.py`. `Calibration` is what `calibration_report.py` prints,
with the two rates compared as products; `MinReviewed` is its threshold.

### CalibrationBatch against the code

`script` holds the locals of `main` in `run_calibration_batch.py`: `at` is the
loop's `i`, `before` is `before_ids`, `logged` the count. `tries` are its calls
of `run_supervisor`, one after the other over all its processes, with what the
script said of each; `log` is the table, where a row knows its try or belongs to
another process. One prompt is `BeginPrompt` (the first listing and the call),
`Delegate`, `Returns` or `RunFails`, and `Report` (the second listing and the
line printed). `RunFails` is an exception inside the `try`, which prints where to
resume, or the death of the process, which prints nothing; either way the row may
be in the table. `ListingFails` is an exception outside the `try`. `Begin` is the
user's own command, `Resume` the command the script printed. `script.job` is what
the user asked for, by the words of the options; `LastPrompt` is what the code
computes from them. Here a run of the Supervisor is only whether it delegated;
`RoutingLog` has the rest.

### RoutingEval against the code

`result` is the `RoutingResult` of the case in hand, `calls` what the stream
really held, `outcomes` the list `evaluate_all` builds, with the calls that were
made. `Ask` starts a session, `ToolUse` is one `ToolUseBlock`, `EndStream` the
end of the loop with `verdict_for` and `confidence_verdict_for`, `Raises` an
exception from `query()`, which nothing catches. `Finish` is `summarize` and the
exit code.

### AgentTools against the code

`session[s]` is one call of `run_order_renewal` or `run_customer_onboarding`:
the tool calls made (`turns`), the ids its model has read (`seen`), how many
proposals answered with an error (`errors`) and what the text returned names
(`report`). `Gmail` to `Jira` are the sections of `tools.py`, each tool a read or
a write; `Toolbelt` is `allowed_tools`. `Propose`, `ProposalFails` and
`AnswerLost` are the outcomes of one write tool: `_ok`, or `_err` with nothing
recorded, or `_err` although the gate recorded the action. The answer of a write
holds two values named `action_id`; the model may read any that
`Disambiguated` leaves. `Report` is the success message, `CutOff` every other
end of the stream. That a finished model names every id it has read is an
assumption about the external model, taken from the last step of its prompt.

Operators whose comment begins with "Faulty" are plausible mistakes in the code
next to them. No specification uses them: each one replaces its neighbour in a
mutation run, which must then violate the property it is paired with in
`PROJECT.json` (`mutants`).

## 3. Runs that pass

| Run | Instance | Shows |
|---|---|---|
| `onboarding_crash` | one onboarding case, one starter, one poller, six actions, deaths anywhere, executions that fail | `TypeOK`, `IInv`; the chain is earned step by step (`EveryProposalEarned`), a completion has every approval behind it (`CompletionEarned`), a rejection is reported of the last write only, and only when that was decided and not executed (`RejectedIsLastWrite`), a resumption carries the decision of its own action (`ResumedWithOwnVerdict`), an undecided id has no status (`PendingHasNoStatus`), one runner per case (`OneRunnerPerCase`), a report is the last word of its case (`ReportIsFinal`); and `CaseRuntime` implements `HumanGate` (`ImplementsGate`) |
| `two_cases_live` | a renewal and an onboarding case, five actions, polls that fail now and then, no deaths | no human is asked twice for a step (`NoStepProposedTwice`), no open case is left where no poller looks (`NoCaseStranded`), every registered case is finished (`EveryCaseFinishes`), no step is skipped on either chain although the renewal's writes share one id (`NoStepSkipped`), and the invariant of the proofs of the first two (`OrderlyInv`) |
| `any_deployment` | one case_id started twice and under either agent, one starter, one poller, three actions, shared ids, deaths anywhere, executions that fail | nothing is asked before the call was approved and executed (`CallGatesTheChain`), every outcome reported has a decision or a failed execution behind it (`ReportNotInvented`), and the invariant of their proof (`GateInv`) |
| `routing_review` | two runs of the Supervisor, two calls each, failures anywhere; one reviewer who sees one row at a time | a row never mixes two calls (`RowIsOneCall`), a returned run has a row exactly if it delegated (`LoggedIffDelegated`), verdicts stand (`VerdictStands`), every row is reviewed (`EveryRowReviewed`), the report calls the signal calibrated on evidence only (`CalibratedOnEvidence`) |
| `batch_resumes` | two prompts, any `--start` and `--limit`, four calls, four rows, failures at every await, other processes, reviewers | well formed (`BatchTypeOK`); no prompt of the job is lost or returns twice, however often it is resumed (`JobReturnedOnce`); a prompt called declined left no row waiting (`DeclinedLeavesNoRow`); the count printed is the rows logged (`CountExact`) |
| `eval_verdicts` | three cases, one of each way of judging; two delegate calls an answer; exceptions anywhere | every case before the one in hand has its outcome (`EvalTypeOK`); the exit code is 0 exactly if every case was asked and every hard one routed right (`ExitIffRouted`); a confidence that passes is the case's own (`ConfidenceIsItsOwn`) |
| `agent_reports` | an onboarding session and a report session of two tool calls each, while humans decide two actions | only a report session writes the workbook, and it writes nothing else (`ToolsTypeOK`), reported ids can be decided and polled (`ReportsDecidable`), what a report leaves out is covered by errors (`OmissionsShowAsErrors`) |
| `lookup_dates` | either agent, two accounts, three opportunities, five spellings, close dates on both sides of the window, one midnight anywhere | no sibling's opportunity is kept (`OwnAccountOnly`), a widened lookup means one account (`OneAccount`), a miss had nothing to find (`MissJustified`), a stop for the window had nothing inside it (`StopJustified`), a case goes on with an opportunity inside the window (`PickJustified`) |

## 4. Runs that refute what the repository says

| Run | Statement | What the code does |
|---|---|---|
| `renewal_shared_status` | `None` while the action awaits a human (`connectors_client.py:326`) | the second write of a renewal is polled under an id that already has a result, so the poller answers it with the first decision |
| `two_pollers` | resumes when the matching action is resolved (`case_graph.py:394`) | the slower of two sweeps answers the next step with the previous step's decision |
| `crash_strands_case` | threads survive process restarts (`case_graph.py:3`, `README.md:49`) | a process dies when the first node is checkpointed and the second not (`NoThreadStranded`); the thread is skipped by every sweep |
| `sweep_starves` | checks every registered case once (`poller.py:90`) | a status read that fails ends the sweep at that case, every time |


`renewal_shared_status` rests on one assumption about the external gate: a new
proposal under an id does not clear the status the id already has. Nothing in
this repository does or says that it would.

Facts met on the way, without a run of their own. About the cases:

- Under deaths `NoStepProposedTwice` fails for the same reason as
  `crash_strands_case`: the write precedes its checkpoint.
- `start_case` reads the done guard two awaits before it invokes the graph, so a
  poller may finish the case in between and have its outcome overwritten
  (`case_graph.py:551` says a completed thread is never restarted).
- A case started over after a death keeps the `stop_reason` of the earlier run
  and ends at its first check.
- A write that a human approved and that failed to execute is resumed as a
  rejection (`bool(result["executed"])`, `poller.py:73`), and `record_outcome`
  then reports that the step was rejected. `RejectedIsLastWrite` allows for it
  ("decided and not executed"). TLC refutes the stricter statement, with
  `"rejected"` alone in place of the two decisions, on the instance of
  `onboarding_crash`: one call, approved and failed, and the case reports it
  rejected.
- A thread started under one agent and registered under the other may wait at a
  node the resuming graph does not have, and is then left there; or it is
  reported as completed when the first step it waited for is approved, a step the
  resuming graph does not know.
- A name given as "Acme." does not match a stored "Acme": the widened query is
  LIKE with the name as given, and the case stops before names are normalised,
  although "trailing period or stray whitespace shouldn't stop a real renewal"
  (`order_renewal/case_graph.py:225`).
- An onboarding deal with a close date in the future hides the one that just
  closed.

About the supervisor and what is built around it:

- A run that delegates twice leaves a row for its last call only (`Remembered`
  overwrites), although the log is called a "durable record of every Supervisor
  routing decision" (`db.py:123`) and `supervisor.py:17-18` says that it persists
  every decision. `RowIsOneCall` and `LoggedIffDelegated` do not touch this: the
  one is about mixing two calls, the other about runs, not calls.
- A session cut off by its turns or its budget may name none of the actions it
  proposed.
- The batch script says that "every prompt from `i` on is still unrun"
  (`run_calibration_batch.py:124`), but prompt `i` may have delegated, and its
  agent may have proposed writes, before the stream or the INSERT failed
  (`Delegate`, then `RunFails`); the printed command runs it again.
- `--limit 0` is no limit (`LastPrompt` against `Asked`), although the option is
  to "only run N prompts"; and the command printed to resume leaves `--limit` out,
  so a limited job goes on to the end. When one of its listings fails the script
  names no position at all (`ListingFails`).
- The batch script attributes a row another run recorded meanwhile to its own
  prompt (the converse of `DeclinedLeavesNoRow`).
- The routing evaluation builds its options without a model
  (`run_supervisor_routing_eval.py:70`) and so evaluates the CLI's default,
  whatever `SUPERVISOR_MODEL` says, although it is to be "the way to validate a
  further step down" of that setting (`README.md:132`, `config.py:48-58`).
- The evaluation passes an out-of-scope case whose session ended in an error
  before any call.

## 5. Bounds

- `MaxStarts`: 1 where a case_id is used once, as the usage in `case_graph.py`
  has it; 2 in `any_deployment`, once under each agent or twice under one.
- `MaxActions`: an onboarding case makes four proposals, a renewal three. Six
  leave room for two repeated proposals after deaths; five in `two_cases_live`
  let one case reach its end and the other stop early, and a case that meets the bound still ends by a
  `ConnectorError`, so the bound never blocks. Three in `any_deployment` are a
  call, a repeated call and a later step, which is what the call gates; more
  starters, pollers and actions are covered by the proof of the same
  properties. The violation runs need fewer.
- Two cases are the least at which a sweep has an order, one of each agent across
  agents (`AgentsFor`), two renewals within one (`sweep_starves`); two pollers the least
  that overlap (`two_pollers`, and the theorems of `CallGateProofs`).
- `CrashesAllowed`, `ExecutionMayFail`, `FailuresAllowed` switch faults; `Unreadable` names cases
  whose status read always fails (only in `sweep_starves`).
- `RoutingLog`: `MaxTurns = 2` is the least that tells the last call from an
  earlier one; `Limit = 1` makes every listing shorter than the table; the
  verdicts and both buckets are complete; `MinReviewed = 1` lets two rows fill
  both buckets. `max_turns` in the code is 5.
- `CalibrationBatch`: `N = 2` is the least at which one prompt can be passed over
  for the next; `MaxTries = 4` lets both be tried twice; `MaxRows = 4` beside
  `PageLimit = 3` makes a log that outgrows its listing, which is where
  `DeclinedLeavesNoRow` and `CountExact` stop promising anything (the code's
  page is 10,000 rows).
- `RoutingEval`: `ThreeCases` has a case with one right answer, one in which no
  call is right, and one that is only observed; `MaxCalls = 2` tells one call
  from two, and the last from the first.
- `AgentTools`: two sessions and two calls each give a repeated proposal after a
  lost answer, next to another session's action with its own id; two decisions
  leave decided and undecided actions side by side (`MaxDecided`). `max_turns`
  in the code is 25.
- `AccountLookup`: two accounts are the least that can be confused; three
  opportunities leave two to choose from beside one of another account, and one
  more than `ExactLimit = 2`, so exact answers are cut. The window of one day has
  close dates on both its edges and beyond, on either day, and `MaxDay = 1` lets
  one midnight fall before the choice, between choice and judgement, or after.
  Larger numbers are covered by the proofs. The five spellings are a name, the
  same with each tail and with a doubled blank, and a sibling's name.
- Deadlock is checked in every run but `agent_reports` and those of
  `AccountLookup`, `CalibrationBatch` and `RoutingEval`, where sessions, lookups,
  batches and evaluations end and nothing follows: elsewhere the poller can always begin a sweep and the
  reviewer can always list.

## 6. Fairness

`FairSpec` of `CaseRuntime` assumes that a process that can take a step takes
it (weak fairness of each process's own steps: an event loop runs a coroutine
that is ready), that sweeps come again and again (`--loop` or cron), that the
human answers every action, and that a status read which is tried again and
again succeeds now and then (strong fairness of `PollAnswered` per case). It
does not assume that operators start cases, that a read ever succeeds for
`Unreadable` cases, nor which way the human decides. Deaths are off in the
liveness run, because a case that dies between nodes is stranded for good
(`crash_strands_case`).

`FairSpec` of `RoutingLog` assumes reviewers who keep listing without a bucket
filter and decide on a row they are shown again and again (strong fairness: a
new listing may take the row off the desk in between). A reviewer who only ever
filters by bucket never sees rows logged as "unknown".

## 7. What is proved

All proofs are for arbitrary constants.

`CaseRuntimeProofs!TypeCorrect`: `Spec => []TypeOK`, for every deployment,
with shared ids, several pollers, restarts and deaths included.

`CaseRuntimeProofs`, the rest: under `OneAtATime` (each case_id is started once,
at most one poller), any number of cases and starters, whatever ids the writes
get:

- `CustodyKept`: `[](TypeOK /\ Custody)`, and `RunnersExclusive`, deaths
  included. `Custody` says, for each place a process may stand between two
  awaits, what of the registry and the checkpoint is still as it was read there:
  a case that is being started has no row, then a fresh thread; a case that is
  being polled is paused on the id that was read. It keeps itself going because
  a paused case is touched by the one poller only, and any other by the one
  process that started it (`Exclusive`).
- `LastWordStands`: `ReportIsFinal`, deaths included. Its strengthening
  `Unfinished` says that a thread which is run or paused has not ended, and that
  the checkpoint under a running thread, which may lag behind it, has not
  either.
- `Orderly`: `[](TypeOK /\ OrderlyInv)`, with `StepsProposedOnce` and
  `NobodyStranded`, when no process dies (`CrashesAllowed = FALSE`). That no
  step is asked for twice is not inductive: nothing in the record says that the
  thread about to propose has not proposed before. `Turns` adds it. A thread at
  a propose node has asked for earlier steps at most, and one that waits for
  nothing later than what it waits for (`InTurn`, whose chain order is
  `TurnOrder`); a registered case is in some process's hands, or has finished, or
  is paused with a thread in turn (`InHand`, `AtRest`), which is also why none is
  stranded. A death between a write and its checkpoint breaks exactly this:
  `crash_strands_case`.

`CaseSafetyProofs`: under `Discipline` (`OneAtATime`, and every write gets an id
of its own), any number of cases and starters, deaths included:

- `Invariance`: `[](TypeOK /\ IInv)`;
- `ProposalsEarned`, `CompletionsEarned`, `VerdictsMatch`, `PendingUnanswered`:
  safety properties of `onboarding_crash`;
- `RejectionsAreLast`: `RejectedIsLastWrite`, which `IInv` does not give.
  `LastWriteInv` adds to it that a thread waits for the last write of its case
  unless that was approved (`Settled`), and that a checkpoint left behind by a
  process on its way to the next write waits for an approved one at most
  (`Overtaken`): a death may then repeat a write after an approval, never after
  a "no". It was checked with TLC on the instance of `onboarding_crash` first;
- `GateImplemented`: `Spec => ImplementsGate`, that is, every behaviour of the
  processes, seen through the mapping of `CaseRefinement`, is one of `HumanGate`.

The conditions are not conveniences: two pollers are refuted by
`two_pollers`, shared ids by `renewal_shared_status`, and a case_id started
again by the restart races of section 4. The code enforces none of them: that
cases are started once and sweeps do not overlap is up to whoever runs
`run_case.py` and `poller.py`, and `order_renewal` shares ids by itself, so that
`Discipline` covers deployments of `customer_onboarding` only, while what rests
on `OneAtATime` holds for both.

The argument for `IInv`. `EveryProposalEarned` is not inductive: that a propose node may
run says nothing about the past unless the thread it runs was justified.
`IInv` therefore carries, beside `Custody`, for each checkpoint and each running thread,
`Justified`: a thread at a propose node has its earlier steps approved; one at
`wait_for_approval` waits for an action of its own, for the awaited step; one at
`record_outcome` has backing for the summary it is about to write. To keep
`Justified` while checkpoints lag behind, `Custody` gives each case to one
process; `StatusInv` says that an id belongs to one action,
so a status is that action's decision; `VerdictInv` that the decision a poller
has read still fits the thread when it resumes it. A decision
taken is never changed, which is why a lagging checkpoint stays justified.
Each action has a lemma; the conjuncts an action cannot disturb are moved along
by shared lemmas about growing action records.

The argument for the refinement. What `HumanGate` sees of a step is the agent in
the registry, the steps asked, approved and rejected, and the summary in the
checkpoint. `Register` is `Enrol`; a propose node that records is `Ask`, or a
stutter when it asks for a step again after a death; a decision is `Approve` or
`Reject`; `record_outcome` is `Close`; every other action is a stutter. For
`Ask`, the steps asked before must be just the earlier ones of the chain
(`AskedIsEarlier`): all of those were approved because the thread is justified,
and any other step asked, being one of the case's own chain (`OwnSteps`), would
come later and, by `EveryProposalEarned`, have this one approved already. That a
node other than `record_outcome` shows nothing of the summary is `Unfinished`.

`CallGateProofs`, without `Discipline`, for every deployment `CaseRuntime` can
describe (pollers that overlap, restarts under either agent, shared ids, deaths,
failed executions): `GateInvariance`, `CallGates`, `ReportsNotInvented`. A
verdict may then answer the wrong step, but it is always one that was given on a
write of the same case, because no id belongs to two cases (`IdsApart`). So
`GateInv` gives up on steps and keeps this much: a process that holds the verdict
"approved", a thread at a node beyond the call, and a thread that reports a
completion all imply that a call of the case was approved and executed, and the
first write of a case to be approved can only be a call. The same goes for
rejections. `ThreadBacked` and `VerdictBacked` only ask for decisions that
exist, and decisions are never taken back, so a lagging checkpoint stays backed.

`ThreadsOnCourse` and `StepsNeverSkipped`, in the same module, under
`OneAgentPerCase` alone: an operator always gives a case_id the same `--agent`.
Which decision answered which step is lost with shared ids and overlapping
sweeps, but the order is not: a later step is put to the human only after every
earlier one was put to the human, and a case reported as completed asked for
all of them. `Reached` says of a thread value that the steps behind its node
were asked for. It mentions the edges of one agent, and no other process or
checkpoint, so it does not matter who else runs the same thread, how old the
checkpoint is that a sweep resumes, or from where a restart begins: each of
these only copies a thread value that has `Reached` its node, and the gate's
record grows. The hypothesis is needed: a case_id started as a renewal, dropped by a
death and started again as an onboarding keeps its first row, so the poller
resumes the onboarding thread with the renewal graph, whose `_route_after_wait`
does not know the approved `kickoff_call`, goes to `record_outcome` and reports a
completion after one step (TLC finds this when it checks `NoStepSkipped` on the
instance of `any_deployment`). `CourseInv`, the invariant of the proof, was
checked with TLC on the instance of `two_cases_live` first. The theorems cover `order_renewal`, to which
`Discipline` does not apply.

`AccountLookupProofs`: `LookupTyped`, `SiblingsLeftAlone`,
`WidenedMeansOneAccount`, `MissesJustified`, `StopsJustified` and
`PicksJustified`, for any accounts, spellings, dates, windows and limits. The
invariant keeps, stage by stage, what the queries answered and that the pick was
closest (or latest) on the day it was made; `StopsJustified` then needs only that
a day moves each distance by one, which is where its twice the days between
choice and judgement come from. `StopsJustified` is about the records a case
kept, which a LIMIT may have cut, and for an onboarding it says nothing when the
latest deal lies in the future (section 4).

`RoutingLogProofs`: `RoutingTyped`, `RowsAreOneCall`, `DelegationsLeaveARow`,
`CalibrationGrounded` for any numbers of runs, calls and reviewers. The strengthening `Trail` says
that what the loop remembers is the last call it saw, that only a run that
called something gets to the INSERT, and that a row belongs to a run that is
over, which is what keeps a run from recording twice; `RowIsLastCall`, from which
`RowsAreOneCall` follows, that a row is the last call of its run.
`CalibrationGrounded` adds that of two rates only the higher has a wrong row and only the lower a
right one. `LoneVerdictStands`, under the hypothesis that there is one reviewer:
a listing that still shows a row as unreviewed shows it as it is, because only
this reviewer's own mark could have changed it, so `VerdictStands`. Two reviewers
with listings taken before either marked overwrite each other.

`CalibrationBatchProofs`: `BatchTyped`, `ResumptionLosesNothing`,
`DeclinedIsTrue`, `CountIsExact`, for any number of prompts, failures, resumptions, other
processes and reviewers. `Course` says that the loop's position is a frontier:
no prompt from it on has returned, every prompt of the job before it has, and
the position printed is that frontier. `Bracketed` says that the listing before a
prompt holds none of its rows; since a page shows every unreviewed row of a log
that fits it (`PageIsAll`, by counting the rows before), an unreviewed row of the
prompt is new in the second listing, whatever was reviewed in between.
`CountIsExact` rests on `Counting`: while nobody else records or reviews, every
row that waits was in the last listing but the one of the last try, so each
report finds that row or none, and counts it once.

`RoutingEvalProofs`: `EvalTypeCorrect`, `ExitsAreRight`, `ConfidencesAreOwn`, for
any dataset and any answers. The strengthening says that what `run_traced` has
noted is the list of delegates of this answer and the confidence of its last
call, and that every outcome was judged from its own calls.

`AgentToolsProofs`: `ToolsTyped`, `ReportsAreDecidable`, `OmissionsAreErrors` for
any sessions, modes and turns. The strengthening `TalkInv` says that an id is
the number of its one action and has that action's decision as its only
possible status, that a session has seen ids of its own proposals only, and that
the proposals whose id it has not seen are no more than its errors, which is
about the running session what `OmissionsShowAsErrors` says about the finished
one.

Model-checked only: the liveness properties `EveryCaseFinishes` and
`EveryRowReviewed`, which are beyond the prover (fairness, ENABLED), and the
counterexamples of section 4. Every other property of a passing run is a theorem.

## 8. Abstracted or not modelled

- Business data of the nodes in `CaseRuntime` (messages, dates, texts): a node
  passes or stops. `steps_completed` is a trail no routing reads.
- `list_low_confidence` and the display scripts: queries without effect.
- A negative `--limit` of the batch script, which selects prompts by Python's
  rules for ranges; a `--start` out of range exits at once. The prompts and
  labels themselves, and the JSON file of the evaluation.
- `verify_contact_node` takes the first of at most five contacts with an
  address, in no fixed order; there is nothing further to say about which.
- The Jira check for an earlier kickoff or a blocker: passed or stopped, read
  once per case. `setup` methods: idempotent DDL.
- The models behind the supervisor and the agents: any sequence of calls.
  Arguments of tools, what reads return, prompts. The shared client of
  `tools.py` (`get_client`, `aclose_client`), which has no state but an open
  connection.
- Policies, configuration, command line: loading and printing.

## 9. Plan

Written first, because it is what can hurt a customer: `CaseGraph`,
`ApmConnectors`, `CaseRuntime`, with `HumanGate` as its promise, then
`RoutingLog` and `AgentTools`, then `AccountLookup`, then `CaseRuntime` again with
failed executions and both agents on one case_id, then `CalibrationBatch` and
`RoutingEval`. In order, what comes next:

1. Proofs: `ReportIsFinal` for a case_id that is started again after its report, as far as
   the done guard keeps it.
2. A supervisor run composed with the agent session it delegates to
   (`RoutingLog` and `AgentTools`): a row, a report and the actions behind them.
