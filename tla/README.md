# A TLA+ model of the sandbase harness runtime

The repository is a TypeScript runtime for agent sessions: an HTTP API in front
of a SQLite database, a promise chain per session that runs its turns, a loop
engine that talks to a model and executes tools, a loop that has declared
outcomes graded and revised, sandboxes in which the tools run (one kind of which
is a queue that remote workers poll), and background services: webhooks, scheduled
deployments, OAuth refresh, dreams.  This
directory holds TLA+ modules of the parts where order, failure and concurrency
matter, the TLC configurations that check them on small instances, and proofs of
their safety properties for every instance.

Run from this directory:

    tlc -workers 2 -config SessionTurns.cfg MCSessionTurns.tla
    tlc -workers 2 -config Remotes.cfg      MCRemotes.tla
    tlc -workers 2 -config OAuthRefresh.cfg MCOAuthRefresh.tla
    tlc -workers 2 -config Timers.cfg       MCTimers.tla
    tlc -workers 2 -config DreamsOutcomes.cfg MCDreamsOutcomes.tla
    tlc -workers 2 -config SessionResources.cfg MCSessionResources.tla
    tlc -workers 2 -config PiEngine.cfg     MCPiEngine.tla
    for p in *_proofs.tla; do tlapm $p; done

`PROJECT.json` lists the components, the runs, for each property a mutant of the
model that must break it, the source lines of every definition, the findings,
the hazards and the theorems.

## 1. The system

Paths are relative to `src/src` of the repository unless they say otherwise.

| Component | State | Operations | Talks to | Status |
|---|---|---|---|---|
| **Session turns** `core/session/session-manager.ts`, `executor.ts`, `tool-resolver.ts`, `state-machine.ts`, `parked-calls.ts`, `parked-wait.ts`, `session-recovery.ts`, `event-logger.ts`, `session-lifecycle.ts`, `strategy/default-strategy.ts` | the session row (status, archived_at, budget), the append-only event log, a promise chain and an AbortController per session | create, send events (message, confirmation, custom result, interrupt), stop, budget move, archive, delete, sweep of parked waits, run a turn, reconcile at boot | database, model registry, sandbox lifecycle, webhooks, event stream | modelled (builtin engine) |
| **Work queue** `sandbox/self-hosted-provider.ts` | `work_items` rows: status, claim, heartbeat, stop and abandon marks, result; the waits in memory | enqueue, await, claim with sweep, accept, heartbeat, complete, stop, and scoped forms | session turns (its tools await items), worker routes | modelled |
| **Workers and work API** `cli/worker-commands.ts`, `api/routes/worker.ts`, `api/routes/environment-work.ts` | what the worker holds, its renewal timer; requests on the wire | poll, confirm, run, renew, report, die; the official work API's calls | the work queue over HTTP | modelled |
| **Custom-tool bridge** `core/session/custom-tool-work.ts`, `api/server.ts` | none of its own | a completed custom_tool item becomes a result event | queue, session manager | not modelled (one synchronous call of a modelled operation) |
| **Event stream** `api/routes/stream.ts`, `session-stream.ts`, `core/session/event-deltas.ts`, the console's `useSessionStream.ts` | per connection: cursor, live buffer, backfilling flag, open previews, suspended writes; per client: the events it has | subscribe, backfill, flush, deliver live, preview, end; resume | event log, broadcasts of session turns | modelled (one connection at a time) |
| **Webhooks** `core/operations/webhook-dispatcher.ts`, `webhook-secrets.ts` | endpoints, deliveries, failure streak, secrets with a rotation window | dispatch, retry pass, record an answer, disable, enable, archive; rotate | every producer of lifecycle events | modelled (secrets left out) |
| **Scheduled deployments** `core/operations/scheduler.ts`, `cron.ts` | schedules (next_run_at, due_at, status), runs | arm, due pass, run, pause, resume, update, archive, delete, trigger | session manager, webhooks | modelled (an outcome of a run is one choice) |
| **Credentials and OAuth** `core/credentials/*`, `api/routes/credential-vaults.ts` | credential rows, in-flight refreshes | refresh at a connection, validate, update, archive, delete; create, rotate, inject | MCP, tools, identity provider | the refresh modelled |
| **Pi engine** `strategy/pi-strategy.ts`, `strategy/pi/*` | interaction store, file lease, RPC session | prompt, park at a gate, answer, steer, deadline, interrupt, close; acquire, beat, steal, release | child process, session turns | modelled (the child is external) |
| **Outcomes** `core/outcomes/*` | events in the log; the loop's iteration in memory | declare, grade, revise, settle, stop; report from the log | session turns | modelled (the grader's prompt, rubrics and usage left out) |
| **Dreams** `core/dreams/*` | dream rows | create, look at, sweep, cancel, archive | session manager, memory | modelled (memory records left out) |
| **Memory stores** `core/memory/*`, `api/routes/memory-stores.ts`, `cli/worker-memory.ts` | memories with versions; per worker mount its files and the baseline of the next pass | create, update and delete with preconditions; mount, reconcile, release | tools, workers | the worker's mount and preconditioned writes modelled; versions and redaction not |
| **Model registry** `model/registry.ts` | providers, retry policy | resolve, request with retries | model providers | the retry policy only |
| **Budget arithmetic** `core/session/session-budget.ts` | none | price spans, ceiling tests | session turns | the ceiling only |
| **Sandbox lifecycle and providers** `core/session/sandbox-lifecycle.ts`, `snapshot-manager.ts`, `sandbox/*` | bound sandboxes, snapshots | provision, bind, materialize, discard, cleanup | session turns | the bound sandbox modelled; snapshots and providers not |
| **MCP manager** `core/mcp/mcp-manager.ts`, `core/session/tool-resolver.ts` | per session a manager; per server a client and its live tools | connect, reconnect, refresh after a rotation, reset, close | session turns, credentials | modelled (one server) |
| **Context and compaction** `core/session/context-*.ts` | compaction records | project the log, compact | session turns | planned |
| **Rate limit** `api/rate-limit.ts` | fixed windows in memory | admit | routes | planned |
| **Settings, agents, skills** `core/settings`, `core/agent`, `core/skills` | versioned rows | save, activate, versioned update | routes | planned, small |
| Delegation, handoff bundles, database and migrations, web tools and egress, authentication, SDK, CLI, console | | | | not modelled: pure I/O, serialisation, lookups or clients of the API |

What is hard in each of them, and what makes it correct:

* **Session turns.**  The process is single threaded, but a turn is a chain of
  awaits and everything else lands between two of them: a message, an approval,
  an interrupt, an archive, a delete, a sweep, the process's death.  It is
  correct when the status always tells whether a turn is under way, when an
  approved tool runs exactly once and never without its approval, when the log
  is always well formed when a request is built from it (every tool use with its
  result), when no accepted answer is lost and when a working session settles.
* **Work queue and workers.**  Commands with side effects run on a machine that
  may die, behind requests that may time out and still be applied.  Correct when
  no command runs twice, when an outcome is only recorded for work that ran, when
  what a failed wait tells the turn ("nothing started", "unknown") is true and
  stays true, and when accepted work does not stay accepted for ever.
* **Custom-tool bridge.**  A result row and a session event are two writes; the
  session may have ended or been answered in between.  Correct when a parked call
  ends up with exactly one answer or the session has ended.
* **Event stream.**  Backfill, flush and live delivery write next to each other
  around awaits.  Correct when every logged event reaches the connection once and
  in order, a client that resumes gets what it lost, and a preview is opened
  before its text.
* **Webhooks.**  Batches of rows are read once and delivered across awaits while
  endpoints are disabled, re-keyed or archived.  Correct when no delivery is lost
  or made to a disabled endpoint and the failure streak judges a real sequence.
* **Scheduled deployments.**  The due pass acts on rows read before an await.
  Correct when a paused or archived schedule does not run, and none runs twice.
* **OAuth.**  Refresh tokens rotate, so two concurrent grants invalidate each
  other, and every write works on a row read several awaits earlier.  Correct when
  connections share one grant, the retry window is honoured and the token the
  provider accepts is never lost to an older one.
* **Pi engine.**  A child process, its pipe, a deadline, an interrupt and a user's
  answer race for the end of a turn; a lease in a file is recovered by rename.
  Correct when a gated call runs only as approved and once, when a record that waits
  has a gate that waits, when a turn ends, and when two runtimes never write one
  conversation.
* **Dreams.**  A sweep writes to rows it read before it turned to others.  Correct
  when an ended dream gives its session back and one store has one writer that was not told to stop.
* **Sandbox and MCP connections.**  Provisioning, connecting, discarding and closing
  await the outside, and archive, delete, update and rotation land in between.
  Correct when an ended session holds nothing, a turn keeps the sandbox it works in,
  a client is never left without an owner, and a rotated credential is used.
* **Outcomes.**  A loop of turns and grades keeps its place in memory, while every
  report of it is derived from a log that other turns write to; an interrupt, a parked
  call, the ceiling or a death ends it anywhere.  Correct when a report is where the
  loop is, a verdict holds, and no path but those named leaves an outcome without one.
* **Memory mounts.**  A pass is a chain of requests between two listings, while the
  agent writes the files and other clients the store.  Correct when no edit is lost
  to anything but another client's newer version, and none overwrites a version it
  was not made from.
* **Settings.**  Check-then-await-then-write sequences; correct
  when what was checked still holds at the write, or a concurrent change is noticed.

Section "hazards" of `PROJECT.json` lists these at the line where they bite.

## 2. Modules

| Module | What it is |
|---|---|
| `WireStatus` | abstract specification: the moves of the status the API publishes |
| `SessionTurns` | one session: row, log, chain of turns, the turn in progress, clients, crash and restart |
| `MCSessionTurns` | its instance for TLC |
| `SessionTurns_proofs` | its inductive invariants and theorems |
| `WorkChain` | abstract specification: what the worker protocol promises about one item |
| `WorkQueue` | the queue's rows and the operations on them |
| `WorkerPoll` | composition: `WorkQueue` with workers, work-API clients, the network and the session's side |
| `MCWorkerPoll` | its instance for TLC |
| `Workers_proofs` | inductive invariants of `WorkerPoll` and `WorkerMemory`, refinement and theorems |
| `EventStream` | one session's log and broadcasts, one connection, one client that resumes |
| `MCEventStream` | its instance for TLC |
| `EventStream_proofs` | its inductive invariant and theorems |
| `WorkerMemory` | a worker's copy of a memory store, its passes, the agent and the store's other clients |
| `MCWorkerMemory` | its instance for TLC |
| `MCRemotes` | one instance for `WorkerPoll`, `WorkerMemory` and `EventStream`, which share no state in it |
| `OAuthRefresh` | the refresh of one credential: its callers, the provider, the operator |
| `MCOAuthRefresh` | its instance for TLC |
| `OAuthRefresh_proofs` | its inductive invariant and theorems |
| `Webhooks`, `Schedules` | deliveries to one endpoint; scheduled deployments and the passes that run them |
| `MCTimers` | one instance for both, which share no row |
| `Timers_proofs` | their inductive invariants and theorems |
| `Dreams` | dreams, sweeps and their sessions |
| `Outcomes` | the declared outcomes of one session, their loop and what is reported of them |
| `MCDreamsOutcomes`, `DreamsOutcomes_proofs` | one instance for `Dreams` and `Outcomes`, which share no state; inductive invariants and theorems of both |
| `PiSession`, `PiLease` | one session on the Pi engine; the lease of a Pi session file |
| `MCPiEngine`, `PiEngine_proofs` | one instance for both, which share no state; theorems about both |
| `McpConnections` | the MCP manager of a session, and who connects, refreshes and closes it |
| `SessionResources` | composition: `McpConnections` with the bound sandbox, the turns and every caller of the cleanup |
| `MCSessionResources` | its instance for TLC |
| `SessionResources_proofs` | its inductive invariant and theorems |

Definitions named `X_Something` directly above a definition `X` are mutants of
`X`: a plausible bug in the code that `X` translates.  No specification uses them.

### SessionTurns

An action is the code between two awaits, because the runtime is one Node.js
process and SQLite calls are synchronous.

*State.*  `exists`, `status`, `archived`, `cap` are the row.  The event log is
abstracted to what the code reads back from it: per tool call the kind of
tool_use recorded (`use`: executed by the runtime, waiting for an approval, or to
be executed by the caller), the number of results (`results`), the confirmation
(`confirmed`); the stop reason of the last `session.status_idle`, of which only
`budget_reached` is ever read (`atCeiling`); and the cost of the logged spans
(`spend`).  `chain` is `executionChains`: a promise chain is a queue of triggers.
`pc` says at which await the turn in progress is suspended; `trigger`, `aborted`,
`asked`, `retries`, `tools`, `asks`, `customs`, `more` are its locals.
`deleting` says that `delete()` is awaiting `cleanupSession`.  `ran` and `lost`
are history: executions per call, and accepted confirmations that died with the
process or with the turn that was to read them.

*Actions.*

| Action | Code |
|---|---|
| `SendMessage`, `SendConfirmation`, `SendCustomToolResult` | `sendEvent` / `sendEvents`: the admission checks, the log entry, `resolveOrphanedToolUses` for a message, `enqueueTurnForEvent` |
| `Interrupt` | `user.interrupt` and `stop()` |
| `MoveBudget` | `updateBudget` and the resume it may queue |
| `Archive`, `Delete`, `DeleteRows` | `archive`; `delete` before and after its await |
| `ExpireParkedWait` | the sweep of `parked-wait.ts` |
| `SkipTurn`, `StartTurn` | the head of `runTurn` |
| `EnterTurn`, `EnterCustomResult`, `EnterConfirmation`, `ConfirmedToolReturns` | `execute` up to the strategy; `handleToolConfirmation`; the gate on parked calls |
| `BuildContext`, `ModelAnswers`, `ToolsReturn`, `AppendResult`, `StepEnds`, `ParkCalls` | the loop of `default-strategy.ts`, `onStepFinish` included |
| `RetryScheduled`, `RetriesExhausted` | the retry middleware and the turn's error events |
| `FinishTurn`, `AbortTurn`, `TurnThrows`, `Released`, `TurnLosesRow` | how `runTurn` ends |
| `Crash`, `Restart` | the process's death; `reconcileOrphans` at boot |

`STATUS_PROJECTION`, `SESSION_TRANSITIONS` and `canTransition` are the tables of
`state-machine.ts`; a move the table does not list is skipped, as in
`updateStatus`.

*Abstractions.*  Texts, timestamps, event ids and usage numbers are gone.  A
call id is minted once.  Spend is counted in units of which a step costs none or
one.  The model's answer is any choice of new calls of the three kinds.

*Not in the model:* `user.steer`, `system.message`, the Pi engine's turns and
`user.define_outcome` (modelled in `PiSession` and `Outcomes`), snapshots, metadata and resource updates.  They move neither the
status machine nor the pairing of the log that the properties are about.

### WorkQueue and WorkerPoll

Each operation of the queue is one statement or one transaction, so it is given
as a predicate (`claimable`, `mayAccept`, `mayRenew`, `mayComplete` and the scoped
forms, all taken from WHERE clauses) and an effect (`claim`, `accepted`,
`renewed`, `completed`).  `WorkerPoll` says who calls them when.

*State.*  `status`, `owner`, `holder`, `age`, `beat`, `stopped`, `abandoned` are
the columns of `work_items`; `claimed_at` is kept as how old the claim is (inside
the lease; inside it, but older than a short `reclaim_older_than_ms`; lapsed).
`session` says whether the owning session is live, terminal or has no row.
`wait` is the wait of the turn that queued the item and what it was told.  Per
worker, `pc` and `item`; `late` holds requests whose sender timed out and which
may be applied, arrive later, or be lost.  `ran` is history.

*Actors.*  The **worker** (`PollAnswered` ... `WorkerDies`) is the loop of
`worker-commands.ts`: poll, confirm the claim, run only when the queue confirmed,
renew from a timer, report once.  The **client** may make any call of the
official work API at any time with its own worker id or, where the header is
optional, without one.  The **session side** queues and awaits items, ends, is
deleted, stops its work, and loses its waits when the runtime dies; it may do
each of these at any time, which over-approximates the sessions of
`SessionTurns`.  **Time** is `Ages`.

*Assumed.*  Worker ids are unique (the documentation asks for it; the default,
the process id, is a hazard listed at its line) and a worker that restarts keeps
its configured id.  The `--on-work` mode, which hands an item to another
process, is not modelled.

`WorkChain` is what the queue promises, item by item, without leases, workers or
clients: offered, committed to by somebody, settled.  `WorkerPoll` implements it
under the mapping that keeps `status` and hides the holder of an item that is
only claimed.

### EventStream

*State.*  `log` is the session's log, reduced to the kind of each event and the
step it belongs to; kinds matter where a preview refers to the event (`message`,
`thinking`), where it is never broadcast (`silent`: the results
`resolveOrphanedToolUses` appends) and where it ends the stream (`deleted`).
`burst` holds what the current synchronous block of the producer still has to
broadcast: nothing else happens until it is out.  `phase`, `cursor`
(`maxEmittedSeq`), `buffer` (`liveBuffer`), `closed`, `enabled` and `started` (the
projector) are the handler's; `waiting` are its calls of `writeEvent` that are
suspended in a write, each with the frames it has left: the handler's own
(`main`) and those of live events.  `wire` is what was written on this connection.
`read` is what the client has besides, and `held` is history.

*Actions.*  `Emits`, `Settles`, `RequestStarts`, `TextDelta`, `StepFinishes` are the
blocks of the runtime that append and broadcast; `Broadcast` runs the subscription
on the next event (`Hear`); `Backfills` and `Flushes` are one iteration of their
loops up to the write; `WriteSettles` resumes the oldest suspended write; `Opens`
(`Resumes` with a cursor, `OpensLive` without), `Disconnects`, `StreamEnds`,
`ReadsHistory` are the client's and the end of the handler.

*Abstractions.*  Writes settle in the order they were made, as one stream carries
them.  A disconnect takes what was written to the client, or rather: what the
client did not get is covered by disconnecting one write earlier.  Chunks of text
are non-empty.  A connection of a client that is gone writes to nobody and is
dropped at once; in the code it lives until the abort callback, which is only
registered after the flush.

### WorkerMemory

*State.*  `store` is what the server holds per path, `disk` the files of the mount,
`known` the baseline a pass compares with (`WorkerMemoryMount.known`).  A content is
the number of the write that made it, so two contents are equal exactly when their
hashes are.  A pass is the timer's (`tick`) or the exit's (`exit`); `at` says at which
request it is suspended, `remote` is the listing it works with and `todo` the local
files it has still to look at.  `edits`, `uploaded`, `based`, `foreign`, `lost` and
`spoiled` are history.

*Actions.*  `mountOne` is the first download.  `Start`, `pullRemoteState`, `Skip`,
`Upload`, `UploadFails`, `Relist`, `Done`, `PassFails` are `reconcileMemoryMount` from
one request to the next; the pull and the enumeration of local files are one step, as
nothing is awaited between them.  `accepts` is the server's precondition, of a creation
that the path is free.  `ends` is what the caller of the pass does after it: for the
exit, the removal of the directory, whether the pass succeeded or not.  `AgentWrites`
and `AgentDeletes`, `ClientWrites` and `ClientDeletes` come between any two steps.

*Abstractions.*  The listings answer with the store of one moment.  The timer's passes
exclude each other (`syncing`), but the exit's pass may meet one.  Left out: the
enumeration seeing a deletion the agent makes after the pull of the same step, which is the
only way into the loop that deletes at the server; the 30-second budget of several mounts
(a pass that is not made is one that fails); the lock file; renames and the caps.

### OAuthRefresh

*State.*  `row` is the credential's row: is there an endpoint, which refresh token
(numbered in the order the provider issued them), when the access token expires,
`last_refresh_at`.  `inflight` is `inflightRefreshes` for this credential.  Per
caller, `pc` is the await it is suspended at (`read`: it holds the row and awaits
the probe, or another credential's refresh; `joined`: another caller's attempt;
`unjoined`: that attempt failed; `sent`, `answered`: the exchange; `publishing`: the
webhook of a failure), `snap` the row as it read it and `answer` what the endpoint
said.  `valid` and `issued` are the provider's.  `ended`, `fresh`, `disturbed`,
`harmed` are history.

*Actions.*  `ReadRow` and `NothingToDo`, `Join`, `Exchange`, `Commit`, `Fail`,
`Published` are `refreshMcpOauthCredentialsForServer` and what it calls between two
awaits; `Validate` and the same steps are the validation route.  The differences of
the two are the code's: a validation does not consult the window, does not register
its attempt, and exchanges by itself when the attempt it joined failed.  `Update`,
`Archive` and `Delete` are the operator's routes, `Grant` and `Refuse` the external
token endpoint, `Crash` the process's death.

*Abstractions.*  One credential: a connection handles its rows one after the other,
so another row is only a reason for the time between `ReadRow` and the next step.
The access token and the reported status are never read back and are left out; so
is the audit log.  A token that cannot be decrypted is a possible outcome whenever
it is needed.  When an attempt settles, a validation that joined it goes on in the
same microtask; the model lets other steps come between.  The token request has no
timeout in the code: an endpoint that never answers holds every connection of the
credential, so no liveness is claimed.

### Webhooks

*State.*  `hook` is the endpoint's row, `failing` the age of `failing_since`;
`delivery` and `wait` are the rows of the deliveries and the time to their next
retry.  A *carrier* is a dispatch or a retry pass: `hand` holds, per event, the
number of the attempt it is to make as it read it, `posting` the event whose answer
it awaits, `elapsed` how long it does.  `sent`, `accepted`, `doubtful`, `quiet` are
history.

*Actions.*  `dispatchWebhookEvent`; `retryDueWebhookDeliveries` (the batch is read
here); `postWebhook` (the request leaves); `Accepted`, `Refused`, `Failed` (its answer
or its timeout is recorded: row, streak, automatic disabling); `Put` and `ArchiveHook`
are the routes; `WebhookTick` time; `WebhookCrash` the process's death.  Passes do not
wait for each other, as the timer does not.

*Abstractions.*  One endpoint: others only delay a carrier between its read and a
post.  Instants are ages and remaining delays, in ticks.  Signatures, secrets,
payloads and audit columns are left out.  `retirePending` of the dispatcher is called
by nothing in production, so a death leaves its rows pending; they are not retried.

### Schedules

*State.*  `deployment` is the row: place, archived, status and reason, whether it has
a cron, `next` (the time left to `next_run_at`) and `delay` (how long after it
`due_at` is).  `batch` is what a due pass read and has still to run, `former` the
deployments in its hand that were given another agent meanwhile.

*Actions.*  `startPass` and `runNext` are `runDueScheduledDeployments` up to its next
await; `CreateDeployment`, `UpdateDeployment`, `PauseDeployment`, `UnpauseDeployment`,
`RunByHand`, `ArchiveDeployment`, `DeleteDeployment` the routes; `AgentGone` the
archive of an agent; `ScheduleTick` time; `RestartScheduler` the start of a process,
which arms again.  Cron instants come every `Period` ticks; what a cron expression
matches is not modelled.

### Dreams

*State.*  `dream` is the row, `session` the pipeline sessions started for it, `reading`
per sweep the session of the row it has still to bring up to date, `canceling` the
session of the row a cancel found, `draining` the sessions whose turn it waits for.

*Actions.*  `CreateDream`, `RetrieveDream`, `sweepDreams` and `SweepRow`, `CancelFound`,
`cancelDream` and `Drained`, `ArchiveDream`; `TurnEnds` and `Meddle` are the pipeline
session and clients that stop, archive or delete it; `DreamCrash` and `CreateCutOff`
are the process's death, the latter between the two writes of a creation.

### Outcomes

*State.*  `log` holds the events the report is derived from: a declaration, the first
work after it, the start and the end of an evaluation.  `status`, `exhausted` (the
ceiling is spent) and `queue` are the session's, reduced to what the loop sees; `pc`
(`turn`, `grading`, `revising`, `settling`), `trigger`, `iteration` and `aborted` are the
turn in progress and its loop.  `thrown` and `cut` are history: the outcomes whose turn,
rubric or grader threw, and those the end of the process or of the session cut off.

*Actions.*  `Declare` is `user.define_outcome`; `OtherEvent`, `InterruptTurn`,
`RaiseBudget`, `SessionEnds` are other clients; `runTurn`, `AgentWorks`, `TurnReturns`,
`TurnThrows` the turns; `runOutcomeEvaluation`, `GraderThrows` a grade that comes back,
with what the loop does next; `OutcomeCrash`, `OutcomeRestart` the process.
`outcomeEvaluationsFromEvents` is the report, `unlessStopped` what the loop looks at
before it spends.

*Abstractions.*  The start and the ongoing event of an evaluation, appended together, are
one.  The report only asks whether the agent worked after a declaration, so the log keeps
the first such event (`withWork`).  Ids are minted in order.  The grader's prompt,
transcript and explanation, its retries and its usage are left out; so are declarations
recorded without an id, and the session's deletion.

### PiSession and PiLease

*PiSession* composes the strategy's turn (`turn`), the RPC session (`busy`, `deadline`,
`outcome`, `gate`, `admission`, `steering`, `ledger`, `failed`), the transport (`pipe`,
`transport`), the durable records of gated calls (`record`) and the external child
(`child`, `call`).  A turn is a prompt or the answer to a gate and ends once, by
settling, by parking, by failing.  The child's frames are handled in order
(`HandleFrame`), while the deadline, an interrupt, a death of the child, a restart of
the runtime or a close may come between any two steps.  The deadline exists only when
`loop_engine.options.timeout_seconds` is configured.

*PiLease*: `Acquire`, `OpenLease`, `ReadLease`, `RenameStale`, `Heartbeat`,
`ReleaseLease`, `RemoveLease` are single file operations; `Stall` lets a runtime be
late between two of them, `RuntimeDies` ends one.

### McpConnections and SessionResources

*State.*  `manager`, `registered` and `cached` are the resolver's manager of the session
and its cache of wrappers; `client` what a connect produced: the credential's value it
presents and whether it is open; `attempt` the connect or refresh each of turn, tool
call and rotation awaits; `due` the oldest value a call may present now.  Around them,
`row`, `queue`, `turn`, `hand`, `tools` are the session and the turn in progress;
`bound`, `box`, `workdir` the lifecycle's binding and what it stands for; `cleaning`
the step of `cleanupSession` each closer (turn, archive, delete, update) awaits.
`leftover`, `raced`, `unproven`, `met` are history: the circumstances the properties
except, each named where it is set.

*Actions.*  `StartTurn`, `Provisioned`, `Materialized`, `NotMaterialized`,
`ToolsCached`, `ToolsConnect`, `ToolsConnected`, `TurnEnds`, `TurnFails`,
`TurnPending`, `TurnLosesRow` are a turn; `Archive`, `ParkedExpires`, `Delete`,
`Update` the routes and the sweep; `Stopped`, `NotStopped`, `SandboxGone`, `Released`
the steps of the cleanup; `ConnectTurn`, `Reconnect`, `Connected`, `NotConnected`,
`Replaced`, `Rotate`, `RefreshSession`, `RefreshClosed`, `CloseManager`,
`ManagerClosed`, `Drop` the connections.  The first state is what an earlier process
may have left, which is how a restart is modelled.

*Abstractions.*  One server; a manager connects its servers one after the other.  A
connect that outlives its timeout counts as failed; the client it may still produce,
which nobody closes, is not among the clients.  One archive, delete and update at a
time.

## 3. What the runs show

| Run | Instance | States | Shows |
|---|---|---|---|
| `session_turns` | two calls, ceiling 1, one unit of spend, queue of two, one retry | 606 thousand | seven properties of a session, below |
| `session_parked` | same | | finding 1 |
| `remotes` | one awaited item, two workers, one client, one late request, one renewal; or one path, three contents; or a log of four, one request with two pieces of text, with and without previews | 1.1 million | five properties of queue and workers, one of a memory mount, three of a stream |
| `worker_replay` | the workers of `remotes` | | finding 2 |
| `event_stream_buffer` | the stream of `remotes` | | finding 3 |
| `oauth_refresh` | two connections, one validation, two of them at a time, three tokens, two ticks | 3.2 million | three properties of a refresh |
| `timers` | two events, two passes, two attempts, a death; or two deployments, two passes, three writes, a restart | 248 thousand | three properties of deliveries, one of schedules |
| `dreams_outcomes` | two dreams, one sweep, two sessions each, one disturbance; or two declarations of two iterations, one other turn, a death | 546 thousand | three properties of dreams, three of outcomes |
| `session_resources` | two messages, one call, one rotation, one broken transport, all closers | 4.1 million | four properties of sandbox and connections |
| `pi_engine` | two gated calls, one steer, two turns, a restart; or three acquisitions of a lease, a stall and a death | 805 thousand | five properties of a Pi session, two of its lease |
| `pi_steer_rejected` | the session of `pi_engine` | | finding 4 |
| `memory_store_wins` | the mount of `remotes` | | finding 5 |

`timers`, `dreams_outcomes`, `pi_engine` and `remotes` each check modules that share no
state in one run: which of them moves is chosen in the first state (`party` of `remotes`).

Properties of a session:

* `RunningHasWork`: a live session whose status says it works has a turn in
  progress or queued.
* `ToolsRunOnceApproved`: no call is executed twice; a gated one only with an
  approval on the log.
* `ExecutedCallsPaired`: outside the appending of results, every executed call on
  the log has its result, also after crashes.
* `ConfirmationNotForgotten`: an accepted confirmation is in the queue, being
  acted upon, or answered, unless the process or its turn died.
* `NoRunAfterAnswer`: a call the log answers is never executed afterwards.
* `PublishedStatusHolds`: the published status follows `WireStatus`; nothing comes
  back from `terminated`.
* `RunningSettles`: a working session idles or ends.

Properties of queue and workers: `RunOnce`, `HonestTimeout`, `EndedWorkNeverRuns`,
`ChainHolds`, `AcceptedSettles`.

Properties of the stream:

* `InOrderOnce`: logged events are written in the order of the log and once, with
  several writers suspended at a time.
* `EverythingElseArrives`: what was logged since the connection started is on the
  wire or about to be, except silent events and those that had to be buffered.
  What happens to the buffered ones is finding 3.
* `CaughtUp`: resuming from the highest position without a gap recovers what earlier
  connections lost and what was never broadcast.

Properties of a memory mount:

* `EditsReachStore`: no edit of the agent on a writable mount leaves the disk unsaved,
  by a pull or by the exit, unless another client changed that path and its version
  prevails, or a request failed or the exit met a pass in flight (`spoiled`).  The last
  two are real: a pass whose second listing fails after its upload keeps the older
  baseline, so that the next pass takes the worker's own upload for another client's and
  overwrites a further edit with it.
* Which version prevails when both sides wrote is finding 5.

Properties of a refresh:

* `OneBoundaryGrant`: connections never have two grants under way, nor start one
  while a failure is still being reported.
* `TokenGoesBackOnlyDisturbed`: an older token replaces a newer one only by a caller
  whose grant overlapped another (which takes a validation) or that read the row
  before an operator's update.  A row read before another connection's whole refresh
  does no harm: its grant is refused.
* `TokenStaysUsable`: unless an answer was lost or such a caller wrote, the stored
  token is one the provider accepts, or its successor is on the way.

Properties of deliveries and schedules:

* `NotResent`: an event is posted as often as attempts are allowed at most, and never
  again after a recorded success, unless two carriers had it in hand at once or a death
  cut a post off.
* `DisabledAfterOutage`: the dispatcher disables an endpoint only when it went without
  a success for the whole window, less the time one answer may take.
* `DeliveriesSettle`: while the endpoint stays active every delivery comes to rest and
  stays there, whatever overlapping passes write back.
* `CadenceKeepsRunning`: a deployment that stays active, scheduled and with its agent
  keeps being run, unless its cadence was removed while a pass had it in hand.

Properties of dreams: `EndedDreamReleases` (an ended dream has given its pipeline session
back, unless a cancel waits for its turn or a death cut the dream off), `OneWriterUnlessAborted`
(of the turns that write to the store, of all dreams, at most one has not been told to
stop; that a canceled one may still write next to it is listed under the disagreements), `DreamsSettle` (every dream ends and stays ended).

Properties of outcomes:

* `ReportFollowsLoop`: what a client reads of an outcome is where its loop is: evaluated
  exactly while the grader works on that iteration, running while it is revised, with a
  verdict when the agent settles.
* `VerdictHolds`: an outcome reported ended keeps its result and iteration, except that a
  stop of the settling turn makes `max_iterations_reached` `interrupted`.
* `OutcomeSettles`: no accepted outcome is owed a result for ever, unless its turn, rubric
  or grader threw, or the process or the session ended under it.  Nothing but the loop
  writes an end, so those (`thrown`, `cut`) may stay `pending`, `running` or `evaluating`
  for good.

Properties of sandbox and connections:

* `EndedHoldsNothing`: a session that failed, was archived or deleted holds nothing once
  everybody is done: no sandbox, no directory, no manager; except what a turn that met a
  delete, children that would not stop, or an earlier process left (`excused`).
* `TurnKeepsSandbox`: a turn works in a sandbox that is up and whose directory is there,
  whatever other turns, failures and releases came before, unless it met a delete.
* `ClientsOwned`: a client that is not closed can still be closed by somebody, unless two
  of connect, reconnect, refresh and reset met on its manager.
* `FreshAfterRotation`: once a rotation is answered no call of a running session presents
  an older value, unless the manager was being connected or reconnected when it came.

Properties of the Pi engine: `ApprovedRunsOnce` (a gated call that was asked about runs
once, and only as its record allows), `PendingHasGate` (a pending record has a gate
somebody can answer; only a restart leaves one behind), `UnaskedNeverCompletes` (a turn in
which a gated call ran without a question is never reported complete), `PiTurnEnds` (every
turn parks, completes or fails), `FailedReleases` (a failed session lets go of its child),
and for the lease `LeaseExclusive` (who holds the lease is alone and named by the file,
unless an owner stalled or a recovery renamed away another lease than the one it had
read), `LeaseComesFree` (as long as somebody asks for it, somebody comes to hold it).

Each property is stated in words above its definition, with its exceptions.

*Why the bounds are enough to be interesting.*  Two calls are what it takes for
one answer to arrive while another call is open, and for a step to mix kinds.
Two queued turns behind a running one allow every pair of events to overtake a
third.  Ceiling and spend of one let the ceiling be crossed, removed and
re-entered.  One retry separates "scheduled" from "exhausted".  Two workers are
what a lapsed lease needs; one late request lets an answer overtake a timeout;
one renewal suffices for a lease to be extended after a reclaim hint, and any
finite number keeps `AcceptedSettles` meaningful: it says that work settles once
renewals stop.  A log of four holds an event that is
backfilled, two that are buffered meanwhile and one that overtakes them; two
pieces of text let a connection open in the middle of a message.  Of a mount's path,
three contents are the store's, the agent's edit and one that comes in between, from
either.
For a refresh, three tokens are the first, one the operator stores and one the
provider rotates to; two callers under way at a time show every overlap of two, and
the window, one tick, opens again once.  Two retry passes next to the dispatches are
what it takes to have one delivery in two hands; a window of two ticks lets a streak be
younger and older than it.  Two due passes, a batch of two and three writes let a row
be changed while it waits in a hand.  Two dreams compete for one store; a second
session per dream is what a repeated start needs.  Two
iterations are one revision and one last evaluation; two declarations, one queued behind
the other.  Two managers, three clients and two
boxes let a release meet what the next turn has already made.  Three acquisitions are
the holder whose lease expired and the two that recover it.  The theorems cover any
number.
`CHECK_DEADLOCK FALSE` is said where the system really stops: a session, its stream,
its credential or its resources after a delete, a worker that has exited, and jobs whose
bounds are spent.

*Fairness.*  `SessionTurns`: `WF(TurnStep)`, as every await of a turn settles (model
requests and tool calls are bounded by timeouts or by the abort signal), and
`WF(Restart)`, as a supervisor starts a dead process again.  No fairness of
clients.  `WorkerPoll`: a worker's poll is some time answered, a claim is confirmed
or refused, a run ends and is reported, and time passes.  Nobody is obliged to
queue, renew, stop or die.  `Webhooks`: retry passes start, as a timer starts them;
posts leave and are answered or time out; time passes.  `Schedules`: the timer starts due
passes, a pass goes on to its next row, time passes.  `Dreams`: sweeps start and go on,
cancels proceed, a pipeline session's turn ends.  `Outcomes`: queued turns
run, a turn and a grade come back, a dead process is started again.  `PiSession`: the reader handles the
frames it was sent and notices the end of the pipe, the strategy goes on, and the timers
of prompt, turn and steer fire; nothing is assumed of the child, nor of users.
`PiLease`: a runtime that lives goes on, and time passes.  `EventStream`, `WorkerMemory`,
`OAuthRefresh` and `SessionResources` claim no liveness and state no fairness; `remotes`
takes over the fairness of `WorkerPoll`.

### Findings

1. `NoRequestWhileParked` (`session_parked`).  `executor.ts` says "A turn may start
   only once nothing is parked", but the gate is only applied to turns that an
   answer started.  A message queued behind the turn that parks a call, or sent
   while a caller-executed call is open, starts a turn whose first request holds a
   tool use without a result.
2. `TimedOutNeverRuns` (`worker_replay`).  `docs/api.md` says that after
   `work_queue_timeout` "nothing has run and submitting the intent again is safe".
   The item stays queued and claimable, so it can run later, next to its
   resubmission.  (`HonestTimeout`, which holds, is the part that is true: at the
   moment of the answer nothing has run or is about to.)
3. `BufferedArrives` (`event_stream_buffer`).  `stream.ts` buffers "so nothing is
   lost" and `contracts/anthropic-cma/streaming.md` says such an event "is neither
   dropped nor delivered twice".  The flush awaits each write with `backfilling`
   already cleared; a live event broadcast meanwhile is written at once, moves the
   cursor, and what is left of the buffer is dropped as duplicates.  A client that
   resumes at its highest position without a gap gets them then (`CaughtUp`).
4. `RejectedNotApplied` (`pi_steer_rejected`).  `loop-engine/adapter.ts` says that
   "`rejected` says nothing heard it and resending is safe".  When the transport
   closes, a steer that waits for its response is rejected without being marked as
   unknown, although the child may have applied it.
5. `StoreWins` (`memory_store_wins`).  `worker-memory.ts` says that "conflicts resolve in
   favour of the store's newer version".  A pass takes the next baseline from a second
   listing that it does not pull, so that a version written between the two listings is the
   baseline of a file that never saw it; an edit of that file is then uploaded over the
   version, with a precondition that matches.

Other disagreements that were met while modelling and have no run of their own:

* `routes/dreams.ts:121` has the single-writer rule "while another update_existing dream on
  the same store hasn't fully stopped, the create is a conflict".  Its query
  (`targetHeld`) asks for rows that are `pending` or `running`, and `cancelDream` writes
  `canceled` before it aborts the turn and waits for it: a create in between is admitted,
  and two dreams write to the store until the aborted turn has unwound.  TLC shows it in
  five states (create, cancel found, cancel, second create) when `writers \ draining` in
  `OneWriterUnlessAborted` is read as `writers`; what the code does keep is that property.
  A dream whose start was cut off by a death is `pending` without an `output_store_id`, so
  the query does not find it either, and a sweep starts it next to the second dream.
* `interaction-store.ts:176` has `retirePending` "Retire pending interactions after a runtime
  restart"; nothing but a unit test calls it, so a record that was pending at a restart
  stays pending (`RuntimeRestart`; `PendingHasGate` says what holds until then).
* `README.md` says that at the ceiling the next model request does not start; a turn
  queued earlier, or started by an answer, sends one.
* `delete()` refuses running sessions "so deletion cannot race an active turn", then
  awaits the sandbox, during which an accepted event starts a turn (`raced`).
* A step with reasoning broadcasts `agent.thinking` before the carrier of its preview,
  although `event-deltas.ts` relies on the record being the last of its id.
* An answer without `refresh_token` writes back the token read before the exchange, so
  that one the operator stored meanwhile is lost.
* A resumable model failure leaves the session paused, yet its sandbox is released as
  if it had ended (`session-manager.ts:2183`); `expireParkedWait` ends a session without
  releasing sandbox and connections (the row `expired` in `SessionResources`).
* A rotation that arrives while the session is still connecting, or while a call
  reconnects, is missed (`met` in `FreshAfterRotation`).
* `contracts/anthropic-cma/sessions.md` says that "A turn that threw is not graded, and
  the end event is appended on every path so a client waiting on
  `span.outcome_evaluation_end` cannot hang".  A turn or a rubric that throws leaves the
  loop without an end event, and so does a death (`thrown` and `cut` in `Outcomes`).
* The same file has an outcome `running` "once the declaration's own turn began, and
  `pending` otherwise".  The report asks for any work between a declaration and the next
  one: a queued declaration is reported running from another turn's events, and of two
  initial declarations the first stays pending while its own turn runs.
* `contracts/anthropic-cma/memory-stores.md` says that local changes of a mount reach the
  store through `POST` and `DELETE`.  A file the agent deleted is written again by the pull
  that precedes the loop of deletions, so a deletion never arrives.  A read-only mount keeps
  an old version for good when the store moves between the two listings of a pass.
* `worker-commands.ts` says that the last sync is there "so a worker exit cannot strand the
  agent's latest edits"; an exit that meets a pass of the timer, or follows one whose second
  listing failed, can (`spoiled` in `WorkerMemory`).
* A worker that is killed leaves the host's lock file of its stores, and `worker poll`
  without `--once` ends in no other way; a worker that serves two sessions with the same
  store refuses its own second mount.
* `custom-tool-work.ts` says that a result in an unexpected shape "still answers the parked
  call"; a content block of a type the session does not take passes `validContent` and is
  refused by `sendEvent`, so that the call stays parked.
* `runTurn` of a deleted row fails on writing its error event and does not reach the
  release of its sandbox; a provision that fails after creating its directory leaves it.

## 4. What is proved

The eight `*_proofs` modules prove, for every set of calls, items, workers, clients,
paths, opt-ins, callers, events, passes, deployments, dreams, sweeps, declarations, boxes,
connections, inputs and owners and every bound the named assumptions allow, every safety
property that a run checks, and some that no run does:

| Theorem | Property |
|---|---|
| `SessionTurns_proofs!TypeCorrect` | `TypeOK` |
| `StatusOwned` | `TurnOwnsStatus`: while a turn is in progress the status says so |
| `NothingWedged` | `RunningHasWork` |
| `Paired` | `ExecutedCallsPaired` |
| `RunOnceApproved` | `ToolsRunOnceApproved` |
| `AnsweredNeverRuns` | `NoRunAfterAnswer` |
| `AnswersGated` | `AnswerTurnWaitsForAll`: a turn started by an answer sends its request only when nothing is parked |
| `Publishes` | `PublishedStatusHolds` (refinement of `WireStatus`) |
| `ConfirmationRemembered` | `ConfirmationNotForgotten` |
| `Workers_proofs!TypeCorrect` | `TypeOK` |
| `RunsOnce` | `RunOnce` |
| `OutcomesWereRun` | `OutcomeWasRun`: an outcome is recorded only for work that ran |
| `LostWaitsFinal` | `LostWaitStartsNothing`: what was told to have started nothing starts nothing |
| `TimeoutsHonest` | `HonestTimeout` |
| `EndedNeverRuns` | `EndedWorkNeverRuns` |
| `Refines` | `ChainHolds` (refinement of `WorkChain`) |
| `MemoryTypes` | `MemoryTypeOK` |
| `MemoryReachesStore` | `EditsReachStore` |
| `EventStream_proofs!TypeCorrect` | `StreamTypeOK` |
| `OrderedOnce` | `InOrderOnce` |
| `OnlyBufferLoses` | `EverythingElseArrives` |
| `ResumesComplete` | `CaughtUp` |
| `PreviewsOpened` | `DeltaNeedsStart`: no text of a preview before the frame that opens it |
| `OAuthRefresh_proofs!TypeCorrect` | `TypeOK` |
| `SingleFlight` | `OneBoundaryGrant` |
| `JoinSound` | `JoinedAwaitsRunning`: who joined waits for an attempt that runs |
| `TokenSurvives` | `TokenStaysUsable` |
| `BackoffHonoured` | `BackoffHolds`: after an attempt, who reads the row then sends nothing within the window |
| `TokenMovesOn` | `TokenGoesBackOnlyDisturbed` |
| `Timers_proofs!ScheduleTyped` | `ScheduleTypeOK` |
| `ArmedFires` | `FireCanHappen`: what is not active has no due instant, what has one has a next run, and an active, scheduled row with a next run is armed |
| `WebhookTyped` | `WebhookTypeOK` |
| `WebhookNotResent` | `NotResent` |
| `WebhookDisabled` | `DisabledAfterOutage` |
| `DreamsOutcomes_proofs!DreamTyped` | `DreamTypeOK` |
| `DreamReleases` | `EndedDreamReleases` |
| `DreamOneWriter` | `OneWriterUnlessAborted` |
| `OutcomeReported` | `ReportFollowsLoop` |
| `OutcomeVerdict` | `VerdictHolds` |
| `SessionResources_proofs!ResourceTyped` | `ResourceTypeOK` |
| `TurnKeepsItsSandbox` | `TurnKeepsSandbox` |
| `EndedSessionHoldsNothing` | `EndedHoldsNothing` |
| `EveryClientOwned` | `ClientsOwned` |
| `RotationReachesTools` | `FreshAfterRotation` |
| `PiEngine_proofs!PiTyped` | `PiTypeOK` |
| `PiApproved` | `ApprovedRunsOnce` |
| `PiPending` | `PendingHasGate` |
| `PiSteered` | `SteeredOnce`: a steer is applied once in a turn |
| `PiUnasked` | `UnaskedNeverCompletes` |
| `LeaseTyped` | `LeaseTypeOK` |
| `LeaseExcludes` | `LeaseExclusive` |

The type invariants of these modules, `TurnOwnsStatus`, `OutcomeWasRun`,
`LostWaitStartsNothing` and `FireCanHappen` are proved and are in no run.

*The session's invariant.*  None of the properties is inductive.  `IInv` adds

* `TurnInv`: turns are in progress or queued only in a live process; a turn in progress
  has the status running (or retrying, while it asks the model), and a session that works
  without one has its first message at the head of the queue;
* `LogInv`: where the result of an executed call can be missing: only for the calls of
  the step whose results are being appended, or in a dead process;
* `StepInv`: the calls of a step under way are new to the log and those to park have not
  run;
* `AnswersInv`: a confirmation on its way names a call that waits for an approval and
  agrees with the log;
* `ApprovalInv`: the call of a confirmation on its way has not run, and no other
  confirmation of that call is on its way.  Without it a second confirmation turn could
  run a call again;
* `GateInv`: nothing is parked when the turn of an answer is about to build its request.

The proof that a step preserves it splits on the actions.  The action properties and
the refinement of `WireStatus` follow from `IInv` and one step.

`ConfirmationNotForgotten` needs a second invariant on top of `IInv`, `KeptInv`.
`RememberedInv` is the property itself, stated without `up`; `NamesInv` says that a turn
which no confirmation started names no call that waits for an approval, so that it cannot
be taken for the one that decides, and `AskedInv` that only such calls are ever confirmed.
`LiveBefore` is why a skipped turn is never a confirmation's: a session that is live after
a step was live before it, and then only a superseded resume is skipped.  `Carried`
covers the steps that keep queue and turn; what remains are the sends, the move from the
queue to the turn, the decision, and the two ways of losing a turn (`lost`).

*The queue's invariant.*  `RowInv` relates the columns of a row (an accepted item
has a claim, an unclaimed one no holder); `WorkInv` says what a worker's `pc`
implies about its item: a worker that claimed an item and still holds it within
its lease is the only one that can confirm it, and an item that a worker runs was
accepted and is never offered again.  From it `RunOnce` follows: an accepted item
is never claimable, whatever its lease does.  The proof classifies the steps into
those that leave the rows alone and those that settle items, so that most actions
are covered by two lemmas.  `EndedNeverRuns` uses a predicate `Dead(i)`, stable
under every step, that an ended session's unheld item satisfies.

*The memory mount's invariant.*  `Grounded` holds whatever fails: every content in sight
was written, so the next write is new (`Written`), and no unsaved edit is in the store, in
a baseline or in a listing (`Sourced`).  The rest holds until a request fails or the exit
meets a pass (`spoiled`): `Baseline` says that between passes the baseline of a path is what
the store holds, and within a pass the listing in hand, unless another client wrote that
path and its version is no edit of the agent (`Theirs`).  It is what makes the pull safe: a
file whose edit was never uploaded differs from a listing only where another client's
version prevails.  `Settled` says of the last pass that each file it has looked at is saved.
`OnePass` and `PassInMount` are where the timer's exclusion enters.

*The stream's invariant.*  `BurstInv`: what is still to be broadcast is newer than
everything written, which is why a live event is never a duplicate; `EventsInv`:
whatever is in flight is on the log under its number; `WritersInv`: a suspended
writer has only text left, of a preview whose start is on the wire; `ArrivalInv`:
`EverythingElseArrives` with the burst as a further place an event can be;
`BackfillInv`: during the backfill the client has everything up to the cursor.
`FrameKeepsOrder` and `WriteLemma` say once what a write does to the stream;
`ProducesLemma` what a block of the producer does; each action then uses them.

*The refresh's invariant.*  `OwnerInv`: the registered attempt runs and is the only
one of a connection.  `StampInv`: the row's stamp is the end of the last attempt,
and a connection that read it since holds it.  `HeldInv`: the token an undisturbed
caller holds is the stored one, or has been used up since, so that its grant would
be refused; this is why a stale row is harmless.  `AnswerInv`: what an undisturbed
caller was answered belongs to the stored token.  `OverlapInv` says that overlapping
grants are disturbed, which is what keeps the other two inductive.

*The invariants of the timers and of dreams.*  `TallyOK` of `Webhooks`: of an event that
is not in doubt one carrier at most has the attempt in hand, it makes the attempt after
those the row counts, and the row counts the posts but the one under way.  `HookOK`
bounds the age of a streak by the time since the last success.  Of `Schedules`,
`FireCanHappen` is inductive next to the types.  `DreamInv` of a dream that was not cut
off: it has one session at most, whoever read its row, however long ago, read that
session, and an ended dream's session is archived or drains (`Whole`).

*The invariant of outcomes.*  The report is a function of positions in the log, so the
proof first says what an append does to them (`spans`, `definitions`): a new event of
another outcome, or a later first work, changes no report but from pending to running.  With
that, `ReportAgrees` relates `pc` and `iteration` of the loop in memory to the report of its
outcome, `ReportBounded` says that a report is evaluating only while the grader works or
after a death cut it off, and `QueuedOnce` that a declaration waiting for its turn waits
once and has no span.  Without `QueuedOnce` a second turn could reopen an outcome that ended.

*The invariant of sandbox and connections.*  `AloneInv` says what it means that nobody met on
a manager: one connect, reconnect, refresh or reset at most is under way on it, and a
manager somebody is closing is no longer registered.  `SpareInv` and `HeldInv` follow clients
through these: what a manager holds is closed before it is replaced, and an unclosed client
is held by its manager or by the call that made it.  `FreshInv` says that whatever will be
presented is no older than what is due, and than what the refresh under way will make due.
For the sandbox, `TurnInv` says that during a turn that met no delete the row runs, no closer
has begun, and what is bound is up; `WorkdirInv` and `EndedInv` name who is still to release
what is left, which is what `EndedHoldsNothing` becomes when they are done.

*The invariants of the Pi engine.*  `GrantInv`: a call the child may run was allowed and
has not run.  `SettledInv`: the child says once that it settled, and only in a turn.
`UnaskedInv`: the frame of a call that ran unasked is read before the child's settling
frame, which is why the turn cannot complete.  `SteerInv`: one response to a steer at
most is on its way.  `Exclusion` of the lease: what a holder, a recoverer and the file
say of each other while nobody was misled.

*Assumptions.*  The constants are constrained by named assumptions only: bounds are
numbers, markers such as `NoCall` are no members of the sets they stand beside, and in
`McpConnections` managers and clients are numbered (the next one made is the least unused)
and the callers of the cleanup are none of the connectors.

*Only model-checked.*  The liveness properties (`RunningSettles`, `AcceptedSettles`,
`DeliveriesSettle`, `CadenceKeepsRunning`, `DreamsSettle`, `OutcomeSettles`,
`PiTurnEnds`, `FailedReleases`, `LeaseComesFree`), as liveness under fairness is out of the
prover's reach, and the violations of section 3.

## 5. Plan and what is not modelled

In this order; each with the runs and theorems worth having.

1. Abstract specifications of one promise each that the detailed modules implement, as
   `WireStatus` and `WorkChain` are: of a credential's stored token, of a pipeline session.
2. **RateLimit**; **Settings**; **Compaction** and **Budget** as operators against
   reference definitions; an instance of the queue with two items.

Every listed hazard has a property.  Met and not modelled: whether a raised budget
resumes the session is read from the latest idle event (`session-manager.ts:667`); an
interrupt sent before the queued turn has installed its controller is lost
(`session-manager.ts:1238`); the default worker id is the process id, so that workers on
two hosts may share one (`worker-commands.ts:297`); the answer of a custom tool item is
given to the session in a callback after its row was written and is not retried
(`api/server.ts:232`).

Not modelled, and why: the custom-tool bridge is one synchronous step, the completion of an
item and the event that answers its call, both of which are modelled; delegation, handoff bundles, exports, database and migrations,
the SDK, the CLI's commands and the console are serialisation, lookups or clients of the
API; web tools and the egress proxy are address policy and I/O; agents, templates and
skills are versioned rows with one writer.

## 6. Files

* `SessionTurns.cfg`, `SessionTurnsParked.cfg`: runs of `MCSessionTurns`.
* `Remotes.cfg`: the run of `MCRemotes`.
* `WorkerPollReplay.cfg`: the run of `MCWorkerPoll`.
* `EventStreamBuffer.cfg`: the run of `MCEventStream`.
* `WorkerMemory.cfg`: the run of `MCWorkerMemory`.
* `OAuthRefresh.cfg`: the run of `MCOAuthRefresh`.
* `Timers.cfg`: the run of `MCTimers`.
* `DreamsOutcomes.cfg`: the run of `MCDreamsOutcomes`.
* `SessionResources.cfg`: the run of `MCSessionResources`.
* `PiEngine.cfg`, `PiSteer.cfg`: runs of `MCPiEngine`.
