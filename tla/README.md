# PluvianAI: a verification project

TLA+ models of the stateful core of PluvianAI, checked with TLC on small instances and, where
marked, proved with TLAPS for every value of the constants. Paths are relative to the repository
root; `B/` stands for `src/backend/app/`, `F/` for `src/frontend/`, and `RG/` for
`F/app/organizations/[orgId]/projects/[projectId]/release-gate/`.

Contents: 1 inventory · 2 modules and plan · 3 Release Gate jobs · 4 billing · 5 the run in the
console · 6 sessions of the browser · 7 the Node SDK · 8 services · 9 the screens of the console ·
10 runs, bounds, fairness · 11 proofs · 12 where the code and its documents disagree · 13 what is not
modelled · 14 running it

## 1. Inventory

PluvianAI records the calls of LLM agents ("snapshots"), shows them live, and replays them against
a changed model or prompt to decide whether the change may ship (the Release Gate). The backend is a
FastAPI program over PostgreSQL and Redis. `src/backend/service_entrypoint.py` starts it in one of
three roles:

* **web**: HTTP requests; also the scheduler, the stream processor and, by default, a job runner;
* **ingest worker**: a loop over a Redis list of recorded calls;
* **release-gate worker**: a job runner and nothing else.

Any number of processes of each role may run, so everything below happens concurrently. Processes
share only the database and Redis. Within a process one event loop interleaves requests and loops at
`await`; synchronous database calls do not yield. Two clients keep state that matters: the console, a
Next.js program whose React components hold what the user chose while answers arrive in any order,
and the SDK inside the user's own application.

| Component | State it keeps | Operations | What is hard about it | What makes it correct |
|---|---|---|---|---|
| **Release Gate job queue** `B/services/release_gate_job_runner.py`, `B/api/v1/endpoints/release_gate.py`, `B/models/release_gate_job.py` | `release_gate_jobs` rows: status, cancel request, lease, result | enqueue, cancel, claim, extend the lease, charge, replay, report, finalize, fail | leases that lapse under a run, rows read long before they are used, crashes, cancels at any moment | work happens once while the lease holds; verdicts do not contradict each other; every job ends |
| **Billing** `B/services/billing_service.py`, `subscription_service.py`, `entitlement_service.py`, `B/models/billing_event.py` | subscription row, event log, idempotency cache, dead letters, entitlement snapshots | webhook, retry, reconcile, change of plan, read of the plan | events lost, repeated and out of order; four commits per event | no duplicate is called done that had no effect; nothing answered is forgotten; newest event wins; every event lands; the entitlement follows the row |
| **Release Gate run in the console** `RG/useReleaseGateValidateRun.ts` | the run followed, its owner, cancel flags, session storage | start, poll, listen, cancel, resume, change of agent | five kinds of calls, answers of loops that were replaced, a reload | one announcement per run, results filed under their agent, cancels only where asked, no permanent lock |
| **Sessions and refresh tokens** `B/core/security.py`, `B/api/v1/endpoints/auth.py`, `F/lib/api/client.ts` | refresh-token rows in families; cookies shared by tabs | log in and out, renew on a 401, rotate | renewals of several requests and tabs cross | one good token per login, in the browser; nobody is sent away without a cause |
| **Node SDK** `src/sdk/node/src/index.ts` | wrapped exports, the current chain, circuit state | init, wrap, chain, capture, post | tasks that interleave at `await`, posts that end long after | calls belong to the right chain; the circuit closes only through a probe and does close |
| **Snapshot ingest** `B/workers/ingest_worker.py`, `B/services/stream_processor.py`, `background_tasks.py` | Redis list, dead letters, one stream per project, `snapshots` | push, pop, persist; read stream, insert batch, delete entries | readers without a consumer group, crash between commit and delete, errors swallowed | calls are lost by faults only, a batch by each at most; queues drain |
| **Usage and limits** `B/core/usage_limits.py`, `subscription_service.append_usage`, `B/core/credits.py` | usage events, Redis counters | check, charge, fill a window up, roll the period | months without the anchor's day; ledger and table read in two statements; check and charge in different requests | windows hold the present and leave no gap; the ledger counts every snapshot; limits hold up to what was in flight |
| **Operational alerts** `B/services/ops_alerting.py` | active flags and cooldowns in a process | observe, alert, recover | the lock is let go between two decisions | alerts and recoveries are a cooldown apart; no recovery without an alert |
| **Screens of the console** `F/app`, `F/components` | what is chosen, typed, ticked and shown; cached lists; calls in flight | section 9 | late answers, panels that outlive the agent they show, acts of other people | no dead button, nothing destroyed that was not picked, nothing stored for another agent |
| **Job status cache and event streams** `release_gate.py`, `B/services/release_gate_events.py`, `cache_service.py` | cached responses, per-client queues | read, fill, invalidate, subscribe, publish | fill racing invalidation; full queues | not modelled (section 13) |
| **Replay and evaluation, behavior rules** `B/services/replay_service.py`, `release_gate_result_assembly.py`, `behavior_rules_service.py` | none beyond its caller's, rule rows | replay, judge, compare, resolve | verdict rules | a batch of `ReleaseGateJobs`; how the console reads verdicts is `AttemptReview` |
| **Login protection, rate limits, circuit breaker, idempotency** `B/services/brute_force_protection.py`, `B/middleware/rate_limit.py`, `B/utils/` | counters with expiry | count, block, expire | read-modify-write | not modelled, but for the idempotency cache in `BillingSync` |
| **Live View, projects, organizations, keys: the server** | rows | create, read, update, delete under a permission | limits checked before inserts | as the server's steps in the modules of the screens that call them |
| **Data lifecycle, account deletion, scheduler** | rows of all the others | delete by age, anonymize, run jobs | | not modelled |
| **Firewall and proxy, dashboards, middleware, migrations, Python SDK, mocks, load tests** | stored rules; none | forward, query, log | I/O | not modelled |

How they interact: the console enqueues a job and follows it; a runner claims it, charges usage, calls
the replay, saves a report, and publishes through the cache. Billing writes the subscription row from
which entitlement, and so every limit, is computed; its checkout and change of plan begin on a page of
the console. The SDK posts calls through its breaker; ingest turns them into snapshots and charges
usage; Live View lists the agents that ingest finds in them. Every call of the console goes through the
interceptor that renews its session.

`PROJECT.json` lists the components with their sources, and the hazards of each at the line where it
bites, with the properties that cover it or the reason that none does.

## 2. Modules and plan

The order was that of what a failure costs: money and verdicts first, then data, then sessions, then
what the user sees.

| Module | What it is | Composes / implements | Theorems |
|---|---|---|---|
| `ReleaseGateJobs` | the queue, its runners and requests (section 3) | implements `ReleaseGateJobContract` | all its safety properties, refinement |
| `BillingSync` | the ledger of one subscription (4) | | all its safety properties |
| `GateRun` | the hook that runs the gate in a tab (5) | its server is the job of `ReleaseGateJobContract` | all its safety properties; its server keeps the contract |
| `AuthSession` | cookies, interceptor, rotation (6) | | all its safety properties |
| `NodeSdk` | wrapping and chains (7) | | all its properties |
| `Services` | the backend's services and the SDK's breaker (8) | the sum of `SnapshotIngest`, `OpsAlerts`, `UsageLedger`, `UsageWindow`, `SdkBreaker` | all its safety properties |
| `Console` | one visit to any screen (9) | the sum of fourteen modules, one per screen | all its safety properties |
| `MC…` | values of constants that a cfg cannot write | | |
| `…Proofs` | theorems and their proofs, apart from the module they are about | | |

Modules that are proved about use no RECURSIVE operator. Two composing modules, `Services` and
`Console`, put modules that share nothing side by side over the same variables, with `at` telling which
of them a behaviour is about: they are alternatives, not interleavings, so their states add up instead
of multiplying, and one run answers for all of them.

What was planned and given up, and why:

* `JobStatusFeed`, the cached job response and the event stream. `GateRun` lets every answer be old and
  the stream be silent, which is all a client may rely on; a cache filled after its invalidation stays
  stale until it expires, and nothing promises more.
* `ReplayBatches`, parallel repeats under a semaphore. The default is one repeat at a time, and the
  library's semaphore is the property.
* The other limits of a plan (projects, members, attempts). They are checked in one statement and written
  in another with nothing between, so what holds is an overshoot by as many as there are concurrent
  writers, which `SnapshotIngest` states for snapshots.
* `LoginGuard`, `RateWindow`, the Python `CircuitBreaker`. The counters are read, changed and written
  back; under concurrency they promise only that a block ends, which is the expiry of a key.
* `AgentVisibility` on the server. Deletion, restoration and purging are the server's steps in
  `LiveView`, `AgentSettings` and `ProjectSettings`.

What is left, in the order it would be worth doing: the restoration of a deleted agent by ingest composed with
the map of Live View; the lists with pages and filters (alerts, API calls, projects), whose answers nothing
orders.

## 3. Release Gate jobs

**State.** `jobs[j]` is a row of `release_gate_jobs` reduced to the columns that decide anything:
`scope` (project and user), `status`, `cancel` (`cancel_requested_at` is set), `lease` (none, valid,
lapsed) and `result` (`result_json`/`report_id` are set). `runner[r]` is one polling loop: where it is,
its job, how many batches it has done, and `seen`, the status and cancel request as its session loaded
them. `handler[h]` is one HTTP request. `charges`, `reports` count what runs have committed and stop
at 2 ("more"); `lapsed` remembers that a lease of a job ran out while it was running; `faults` counts
exceptions and crashes.

**Actions** follow the code statement by statement where a commit or an `await` separates statements:

| Code | Actions |
|---|---|
| `validate_release_gate_async` | `BeginEnqueue` (looks for an active job; finding one answers the request), `RejectEnqueue` (inputs do not resolve), `InsertJob` |
| `cancel_release_gate_job` | `BeginCancel` (reads the row, returns if it has ended), `CommitCancel` (writes what follows from the row it read) |
| `_claim_next_job` | `Claim`: oldest queued or lapsed job whose row is not locked |
| `_run_job` up to the charge | `LoadJob`, `RefreshLease`, `RejectInputs`, `ChargeAttempts` |
| `_execute_release_gate_replay_batches` | `StartBatch` (cancel check), `FinishBatch` (progress hook, which extends the lease) |
| `_run_release_gate`, the end | `Evaluate` (last cancel check), `SaveReport` |
| `_run_job`, the end | `Finalize` (conditional update to succeeded), `Settle`, `HonorCancel`; `AckCancel` after `ReleaseGateCancelled`; `Raise`, `RecordFailure` after any other exception |
| the process | `Crash`, `Restart`; `Lapse` is time |

Two things of the ORM matter and are kept. A session returns the object it has already loaded, so a
decision after a query may rest on old values: decisions of `_run_job` use `seen`. And it writes only
the columns that differ from what it loaded: `PutStatus` leaves the table alone where the new status
equals the one seen.

**Simplifications.** The lease may lapse at any moment, which covers a long batch, a blocked loop and a
dead process. `locked_by` is written and never read, so it is left out. A batch's replays are one step of
any duration that may raise. Repeats run one after the other, as with the default
`max_parallel_repeats = 1`. An exception after the conditional update of a run is not modelled. Rows are
never deleted. Publication to clients is seen from the other side, in `GateRun`, which may read any old
answer and miss any event.

**Properties.** `OnceUnlessLapsed` (one charge, one report, one runner while no lease lapses),
`ResultPaidAndReported`, `CanceledOnlyOnRequest`, `NoFailureOverSuccess` (an action property),
`OneActivePerScope` (with requests served one at a time), `ImplementsContract`, and `EveryJobEnds` (liveness),
which exempts by name (`Endless`) a job whose inputs are gone and that is to be canceled: section 12.

**The contract.** `ReleaseGateJobContract` has the published status and the cancel request only, and
knows no runners or leases. It is the strongest contract the code keeps, and it is weaker than one would
write first: it lets a finished job be finished again as failed or canceled, because a run that lost its
lease still writes its verdict. It forbids a return to the queue, a success over a cancel request, and a
cancellation nobody asked for. The refinement maps `phase` to the status column and `asked` to the
cancel column.

## 4. Billing

**State.** One user and one provider subscription. `issued` and `event` are the provider's: change
number e is announced by event e, whose date is e. `sub` is the subscription row (plan, status,
`last_provider_event_at`), `record[e]` the status of event e in `billing_events`, `cached` the
idempotency cache, `dead` the dead letters, `entitlement` the latest snapshot, `priced` the plans whose
price id the settings know. `session[x]` is a request or job in progress with the row it loaded (`seen`)
and what it will write (`data`, `date`). `settled` and `answered` are history: events that took effect
(applied, or found older than the row) and events whose delivery was answered.

**Actions.**

| Code | Actions |
|---|---|
| `handle_paddle_webhook` | `Receive` (cache lookup), `CreateRecord`/`LoseInsert` (the unique key decides), `RejectEvent` (unknown price id), `IgnoreStale`, `LoadRow` (resolve, staleness check), `CacheResult`, `MarkProcessed`, `StoreFailed`/`LoseFailed`, `Finish` |
| `_upsert_local_subscription_from_provider` | `LoadRow` or `PutEntity` (check), `Apply` (commit of the row), `Refresh`, `Grant` (entitlement) |
| `retry_failed_webhook_event` | `RetryFailed`, then as a delivery |
| `reconcile_paddle_subscriptions` and the operator's request for one user | `Reconcile`, `LookUp`, then as the upsert; what is looked up is dated by the creation of the subscription (`LookupDate`), before every event |
| `change_paddle_subscription_plan` | `ChangePlan`, `Patch` (the provider's change and the write of its answer), `RefusePatch` |
| `get_or_create_current_entitlement` | `ReadPlan` |
| `get_db`, the process | `Abort`: an exception, a failed call or a crash; what was not committed is gone |
| time, settings | `Expire` (cache), `Configure` (price ids completed) |
| the provider (external) | `Subscribe`, `ProviderUpdates`, `ProviderCancels` |

A row is loaded, the event judged by it, and the columns that differ written later; the update has no
condition on the date. The webhook's handler runs without `await`, so a process serves one at a time, but
the retry, the change of plan and the scheduled job run in threads, and there are several processes: two
sessions stand for any two of these. A record that is inserted and not yet committed holds the unique key
(`HoldsKey`), and a second insert loses.

**Simplifications.** The period of a subscription and so the moment a cancelled plan ends; statuses
other than active, past due and cancelled; the plan in `custom_data` of a renewal; events before the
customer is linked; Redis switched off; expiry of dead letters after a week; the operator's direct
upgrade of a plan. The lookup and the change at the provider in a change of plan are one step.

**Properties.** `DuplicateOnlyIfSettled` and `NothingForgotten` under any interleaving;
`RowIsNewestEvent` and `EntitlementFollowsRow` for requests served one at a time. Two are liveness
properties. `EventsLand`: every change of the provider takes effect or is on record as failed, after
whatever faults, repetitions and price ids that are missing at first. `EntitlementSettles`: where the row
comes to agree with the provider the entitlement comes to be the row's, also when the process ended
between the two and the event is never delivered again; that is the part of reconciliation that works,
as it computes the entitlement of a row in which it finds nothing to repair. `ReconcileRepairs` states
what the documents claim of the other part, and does not hold (run `BillingRepair`, section 12).

With two sessions `RowIsNewestEvent` and `EntitlementFollowsRow` do not hold: an older event can undo a
newer one (section 12), and a snapshot can be appended from a row that has just been replaced. The entitlement mends
itself at the next read of the plan or reconciliation; the row does not until another event.

## 5. The run in the console

`GateRun` is the hook `useReleaseGateValidateRun` in one browser tab with two agents to look at, against
the jobs of its user. The server's side (`phase`, `creq`, `started`, `agentOf`) makes the steps of
`ReleaseGateJobContract` and nothing else (proved, `ServerKeepsContract`), those of a runner that lost its
lease and writes its verdict over another's (`Overwrite`) and of a cancel call that comes when the job has
ended among them: this module relies on what `ReleaseGateJobs` implements and on no more.

| State | In the code |
|---|---|
| `ui` | the React state and refs: the agent and visibility given to the hook, the run followed and its owner, the cancel flags, the locks, the lookup done |
| `stored` | `sessionStorage`: the job under each agent's key |
| `loop`, `late` | the poll loop of the run followed; requests of loops that an effect replaced and that still await an answer |
| `lookup`, `enq`, `cancels` | the calls that look for a running job after a load, that enqueue, and that cancel |
| `shown`, `filed` | what the user was told, and the agent each result was stored for |

`Next` is `ServerStep`, `User` (start, cancel, choose an agent, hide, reload, another tab), `Enqueueing`,
`Following` (poll: send, answer, fail, end of its time), `Canceling`, `LookUp`, `CooldownEnds`, `Event`
(the stream) and `LateReply`. Every change of the hook's state goes through `Commit`, which then runs the
effects whose dependencies changed, in the order the hook declares them: an effect is never a step the
model may leave out.

**Properties.** `AnnouncedOnce`; `FiledUnderAgent` (but for a run the server answered with although
another agent had it: validate-async returns the active job of the project whatever agent asks);
`CancelOnlyAsked`; `LetGoOnlyWhenOver` and `AskedIsSent` (action properties); `RunEnds`.

Two of them carry an exception the code needs. A run enqueued while the answer to a replaced loop had
raised the cancel flag is cancelled although nobody asked (`unasked`), and the error branches for 401 and
403 leave the cancel flag, that for 404 the cancel lock. Also seen: the id of a stored session can never
be read back, so that branch is dead; "Canceling…" stays after a cancel call that fails; the hydration of
a finished run is not stopped by its deletion; `latestResult` compares times of the client with times of
the server.

## 6. Sessions of the browser

`AuthSession` is the cookie jar that tabs share, the response interceptor of `apiClient`, and the
rotation of refresh tokens in `B/core/security.py`. An access and a refresh token are issued together
and share a number; `family` is the login a token descends from. A request (`req`) is sent with the
cookies of that moment, is served or denied, asks for a renewal, has its token read by the server, then
rotated (two steps, as the code reads `is_revoked` at line 533 and writes it at line 554), takes the
answer into the jar and is sent once more. `Lost` is an answer that does not arrive at any of these
places; `Logout`, `Login`, `AccessExpires` and `RefreshExpires` are the user and time.

**Properties.** `OneLiveToken`: a login has one good refresh token, unless two rotations read the same
token before either wrote (`forked`). `JarCurrent`: the browser has it or is about to get it, unless a
rotation's answer was lost. `ForcedForCause`: a tab is sent to the login page only if the session was
over, a call was lost, cookies were cleared, or renewals overlapped. `BackByFlight`: after a logout the
cookies come back only through a renewal begun before it. `RequestsEnd`: every request ends, with at most
one renewal.

The exceptions are the findings of this model: requests do not wait for one another's renewal; a renewal
lost on the network logs the user out; a logout revokes no token, so the cookies of a renewal in another
tab bring the session back; two rotations of one token may both succeed.

## 7. The Node SDK

`NodeSdk` is `init` and the wrapped exports of the openai package (`global`, `wrapped`, `same`), clients
made from them (`made`), and the tasks of an application that call `chain`, `trackCall` and clients
(`stack`, `pc`, `via`). A step is what Node runs between two awaits. `chain()` keeps the current chain in
one Map per instance: `ctx`. `ChainKept` says when a call may be recorded with a chain not its own: only
beside an open chain of another task, after chains have overlapped, or after a second `init`.
`ContextComesBack`: the last chain to end leaves nothing behind, unless chains of two tasks have overlapped.
`IInv` gives the nesting both rest on.

The comment of `chain` (`src/sdk/node/src/index.ts:65`) and its example promise more, as section 12
tells. Also seen: a second `init` replaces the global instance while constructors wrapped before keep
reporting to the first; a named export is not wrapped if it was identical to the default one at the first
`init`; a call whose result cannot be serialized makes `captureCall` raise into the application;
`stripRequestMessageBodies` never omits a body; `halfOpenMaxCalls` is read nowhere.

`SdkBreaker` is the circuit before the ingest API, in `Services`: `Call` (and the first call after the
recovery time makes it half open), `PostEnds` in any order and however late, `HealthCheck`, `Ripen`
(the recovery time passes). `ClosesByProbe`: no late success and no health check closes an open circuit
before its recovery time. `Recovers`: when the service stays up, the circuit closes.

## 8. Services

| Module | Code | State and actions | Properties |
|---|---|---|---|
| `SnapshotIngest` | `B/workers/ingest_worker.py`, `B/services/stream_processor.py`, `background_tasks.py` | `mem` (what processes hold), `red` (list, dead letters, stream), `db` (cap, rows, refused); `Post`, `Capture`, `TakeOver` (Redis refuses: the request stores it itself), `Serves`, `PersistFails`, `Stops`, `Empties`, `CommitFails`, `Restarts` | `LostByFault`, `Repeats`, `WithinLimit`, `Drains` |
| `OpsAlerts` | `B/services/ops_alerting.py` | one condition with its active flag and cooldown; `Tick`, `Degraded`, `Recovered`, `ReadTime`, `Emit` by several threads, with the lock let go where the code lets it go | `Paired`, `Spaced` |
| `UsageLedger` | `B/core/usage_limits.py`, `subscription_service.append_usage` | `tx`, the transaction of each session; `db`, rows, events and fill that are committed; `SumLedger`, `CountRows`, `FindsFill`, `AddsFill`, `LosesKey` (the unique key went to another, and the transaction is rolled back), `Store`, `Commit`, `Abort`, `Purge` | `CountsAll`, `CountsOnce` |
| `UsageWindow` | `B/core/usage_limits.py` | a question (an anchor or a paid period, and the present) and its window | `HoldsNow`, `PaidHoldsNow` |
| `SdkBreaker` | section 7 | | `ClosesByProbe`, `Recovers` |

`Accounted` and `Bounded` of `Services` are the conjunctions of these. A call that was recorded is stored, refused or still
on its way, unless faults lost it, and one fault loses a batch at most. A call is stored as often as
processes held it at most, and rows go over the plan's cap by what was in flight at most. Each window
holds the moment it was asked for and is followed by the next without a gap.

Snapshots are counted by events, one for each, in the transaction that stores the row. Rows from before
the ledger have none, and whoever asks for the count adds what is missing as one event, under a key of
which a window has one. In `UsageLedger` a statement sees what was committed before it (the database's
default isolation) and what its own session wrote; a second insert of the key waits for the first one's
transaction to end. `passed` and `late` count what others stored between the two readings, and no guard
reads them. Once a window was filled up the count covers every row (`CountsAll`), and it is too high by
what was stored between the two readings of the session that filled it up, and by nothing else
(`CountsOnce`): those snapshots are in the table that was counted and not in the sum taken before it, and
have their own events besides. As the window is filled up once, the surplus stays until it ends. The
loser's rollback takes no snapshot with it, because the limit is checked before the first one is stored.
The model has one user and one window, and the flags as `config.py:172` sets them.

What the model shows that the code's comments do not say: entries of a batch whose insert failed are
deleted from the stream all the same; two web processes read the same entries and store them twice, there
being no consumer group; a batch of malformed entries only is never deleted (`stream_processor.py:158`)
and blocks its stream for ever, which is why `ServicesAssumption` has fewer malformed entries than a
batch; a recovery that follows another one within the cooldown is dropped after the active flag was
cleared, and is never sent. The fallback that stores what Redis refused lives in the process and dies
with it.

## 9. The screens of the console

A page is a component tree whose state outlives the calls it makes. Each module below is one screen over
four variables: `ui`, what the hooks and components keep; `net`, the calls in flight; `srv`, what the
server holds; `odd`, how many failed calls and acts of other people may still happen. A call is a record
with what was asked for (its ghosts `asked`, `about`, `seen` say what the user meant, and no guard reads
them; `carried` and `strays` mark, in the same way, datasets that were ticked before the agent was changed
and rows of another agent that a log has come to show). The server's step is taken when the call is
answered, or apart from it where the order of answers matters or the answer may be lost by itself: the
purge of agents is a look-up, a deletion and an answer, the deletion of logs a deletion, an answer and a
reading of the log. A batch of datasets may fail when some of them are gone, or lose its answer. Any other
call that fails leaves the server as it was. What other people do (`OthersAct`, `OtherDeletes`,
`OthersSave`) is a step like any other.

| Screen | Module | Code | Properties |
|---|---|---|---|
| log of an agent | `ClinicalLog` | `F/components/live-view/ClinicalLog.tsx` | `OnlyTicked`: a deletion names what was ticked since the mode was entered, of the agent on screen but for rows that strayed in. `OneMode` |
| saved datasets | `SavedDatasets` | `F/components/live-view/ClinicalLogDataSection.tsx` | `AsAsked`: what is sent is what was ticked, an empty selection never means all, and ticks since the last change of agent are of the agent on screen. (`OwnOnly` does not hold) |
| map of agents | `LiveView` | `LiveViewContent.tsx`, `useLiveViewSseLifecycle.ts`, `useLiveViewDestructiveActions.ts`, the tray | `NeverBlind`: polling is off only while the stream is really up. `PurgesListed`: what is sent to be purged was listed as deleted. What the server purges need not be (section 12) |
| settings of an agent | `AgentSettings` | `AgentSettingsPanel.tsx` | `ForItsAgent`: a name or key goes to the agent in whose panel it was typed |
| checks of an agent | `AgentChecks` | `AgentEvaluationPanel.tsx`, `PolicyRuleModal.tsx` | `RuleForItsAgent`. `DraftKept`: only the user changes a draft |
| history of the gate | `GateHistory` | `useReleaseGateHistory.ts`, `useReleaseGateExpandedHistoryOverlay.ts` | `OpensClicked`: a late report opens nothing |
| the drawing of both maps | `GraphHistory` | `F/lib/react-flow/`, `ReleaseGateMap.tsx` | `Undoable`: undo and redo bring back the agents of the list. `DropSelectsNone` |
| what a run replays | `GateInputs` | `useReleaseGateBaselineHydration.ts`, `…SelectedSnapshotsSideEffects.ts`, `…ReplayJsonHandlers.ts` and others | `OfItsAgent`, `OneKind` |
| model and key of a run | `GateRequest` | `useReleaseGateProjectApiKeys.ts`, `ReleaseGateConfigPanelCoreTab.tsx`, `releaseGateValidateAsyncPayload.ts`, with `_run_release_gate`'s choice of a key | `SentAsShown`, `ChosenKeyFits`, `ReadyIsServed` |
| review of attempts | `AttemptReview` | `AttemptDetailOverlay.tsx` | `TellsWhy`: a failed attempt shows its reason. `JumpsLand`. `DiffTells`: the difference tells both replies and keeps a longest common part |
| profile | `ServiceKeys` | `F/app/settings/profile/page.tsx` | `NamedInItsRow`, `ListTells` |
| plan | `PlanPage` | `F/app/settings/billing/page.tsx`, `F/components/billing/` | `PricedFirst`: what is paid was priced. `PaysOnce`, `MarkedIsOpen` |
| project | `ProjectSettings` | `settings/general/page.tsx`, `settings/api-keys/page.tsx` | `TicksListed`, `ShowsKept` |
| organization | `OrgAccess` | `team/page.tsx`, `settings/page.tsx`, the two `new/page.tsx` | `FieldFollows` |

`Console` states them as six properties, all but one with a conjunct per screen they are about: `TypeOK`,
`NeverStuck` (a flag that turns a button off is down or has its call in flight, whatever is refused, lost or
overtaken), `AsAsked` (what is destroyed, paid, sent or stored is what was picked or typed, for the agent it
was picked or typed for; where a screen breaks this, its conjunct has the exception by name, and section 12
tells it), `Coherent` (what a screen shows agrees with itself), `DiffTells` (the comparison of two replies
tells both and marks no more than it must) and `Spared` (only its user changes a draft of the checks, whatever
comes late and whoever else saves; and the click that ends a drag selects nothing).

**What the models abstract.** Text is a mark of who it was typed for; a payload is the agent or the log it
came from; a list is the set of what it shows. Filters, sorting, thresholds, charts, layout of panels and
wording are left out, and so is the monthly limit that the request page shows. A file is read in one step.
`LiveView` leaves out the response cache of `list_agents`, which only adds answers as old as the last fetch. A
list of keys that cannot be read (`ReadFails` of `GateRequest`) stays as it was or empty, and the page takes
it for read. A report without an attempt to show (`Blank` of `GateHistory`) opens nothing and only ends the
selection.

**What the exceptions in the properties stand for.** Writing the strongest property that holds showed
these. No document, comment or text of the repository that we know of says otherwise; those of which one
does are in section 12.

* *Live View.* The poll replaces the older pages of the log that were loaded. Going back to the tab within 15
  s fetches nothing, and a stream that reconnects fetches nothing either. A removal that was being confirmed
  stays open for the next agent, and the answer to a removal closes whatever panel is open. The answer to a
  saved key clears what was typed meanwhile. "Remove selected provider key" falls back to the project's key.
  Saving checks overwrites what others saved as a whole. A late save of a policy rule closes a form that was
  opened again.
* *Release Gate.* A tool context that arrives late is written for whatever agent or log is on screen
  (`useReleaseGateToolContextLoader.ts:43`). Choosing another representative drops what was typed. A session
  clicked while a run is locked, or again after leaving the tab before its report came, stays dead until
  another row or a refresh. A deletion that fails writes its rollback rows under the agent then on screen
  (`useReleaseGateHistory.ts:126`), and concurrent deletions roll each other back. Auto Layout on an empty map
  commits an empty drawing, so that Undo later empties the map.
* *Model and key.* Saving a key from the gate turns off the project's default key of that provider. The
  detected mode also asks for a key of the provider of the latest snapshot and so blocks runs the server would
  serve. The answer to a saved key sets its id whatever provider is on screen by then. A key chosen during its
  own deletion stays chosen, and the run is refused. Tools that are not valid JSON are dropped without a word.
* *Review.* "Showing failed attempts only" still walks all attempts. A check that is on by default and was not
  configured fails an attempt without a shown reason, as `config_check_ids` holds only what is `enabled: true`
  (`release_gate.py:711`). `not_applicable` is badged as passed. "Jump to details" leads nowhere when only the
  model differs.
* *Account and plan.* Two checkouts can be paid if the page has not heard of the first:
  `create_checkout_session` does not look for a subscription. After a return from the provider the address is
  cleaned, whose effect clears the timers that would read the plan again (`settings/billing/page.tsx`
  111–140). A user whose subscription is over is offered only the dialog that changes a plan, whose preview
  always fails. One slot says which key is being removed, so a second removal turns the button of the first on
  again.
* *Project and organization.* A description that was emptied is sent as undefined and stays. Lists of keys are
  not ordered. Each reading of an organization fills the name field and drops what was typed there. The button
  that creates is on again before the page has gone, so a second one can be created.

## 10. Runs, bounds, fairness

| Run | Instance | What it shows |
|---|---|---|
| `JobsSafety` | 1 job, 2 runners, 2 requests, 2 batches, 2 faults | the safety properties of a job, the refinement and `NoFailureOverSuccess` |
| `JobsQueue` | 2 jobs of one scope, 2 runners, 1 request at a time, 1 batch, job 2 broken, 1 fault | one active job per user while jobs lapse, fail and are canceled; every job ends |
| `BillingSerial` | 1 session, 2 plans of which one is unpriced at first, 2 events, 2 faults | order, repetition, loss and retry of deliveries; row and entitlement; every event lands, the entitlement settles |
| `BillingConcurrent` | 2 sessions, 1 plan whose price id is missing at first, 2 events, 1 fault | duplicates and forgotten events under interleaving |
| `BillingRepair` | as `BillingSerial`, without faults | section 12 |
| `GateRun` | 2 agents, 2 runs, 1 failed call, lost lease, reload, change of visibility or act of another tab | a run is followed to its end, announced once, filed and cancelled as its user meant |
| `AuthSession` | 2 tabs, 3 requests (two of one tab), 3 sends, 2 lost calls, logins, logouts or ended sessions | one good token, in the browser; reasons; every request ends |
| `NodeSdk` | 2 tasks, 2 chains, 2 calls to `init`, 3 open calls | calls and their chains |
| `Services` | 1 posted call, 3 captured of which one is malformed, 1 worker, 1 handler, 2 processes, batches of 2, caps 1 and 4; 2 threads, cooldown 2, 5 ticks; months of 4, 2, 3, 3 and 1 days, moments 0 to 12; threshold 5, 3 posts; 1 fault; 2 sessions, 0 or 2 early snapshots, 1 more | losses, limits, cooldowns, the ledger, windows, draining queues, the circuit |
| `Console` | 2 agents with 3 logs, pages of 1, 2 calls in flight (1 for saved datasets and checks), 3 drawings, 3 keys, 2 paid plans, 3 members, 3 attempts, replies of up to 4 lines of which 3 are compared, 2 providers with 2 keys, 1 or 2 failed calls or acts of others | section 9 |
| `PastedKey` | the page of `GateRequest` as in `Console` | section 12 |
| `OtherDatasets` | as `Console` | section 12 |

**Why the bounds are enough.** The hazards of a job come from two runs of the same job and one cancel
or submission beside them; a third runner repeats what the second does, and the proofs of section 11 do
not bound the runners at all. Two batches give a first and a last one, with a cancel check between
them. Two faults let a run crash and its successor fail. Two jobs are needed only for the uniqueness of
the active one; with two of one user, a run that lost its lease may still write while the next job is
active. In billing an event can be older or newer than another one: two events come in both
orders, each any number of times; the proofs are for any number of events. Two sessions race; the missing price
id and one fault reach the error path, the dead letter, its loss and its retry.

The hook follows one run at a time, and its hazards are an answer of the run before, an agent other than
the one on screen and one odd event beside them; the proofs are for any number. Three requests in two
tabs let two renewals cross in one tab and a third come from the other. Two tasks make chains cross, and
a third open call lets chains nest while they do. A batch of 2 is read from 3 entries, so that one is left
and one may be malformed; a cap of 1 is reached, one of 4 is not. The months are shorter than real ones,
and include, as those do, months without the anchor's day, two in a row of equal length, and one after
which the anchor's day returns; `WindowsHold` is proved for any calendar. On a screen a hazard needs a
call, what overtakes it (another call, another agent, another person), and the answer: two calls in
flight, two agents, and one or two odd events. Replies of up to four lines of two texts, of which three are
compared (200 in the code), meet every case of the two loops and of the cut; `DiffSays` is proved for any.

Bounds named in the models: `MaxJobs`, `Batches`, `MaxFaults`, `MaxEvents`, `MaxSends`, `MaxOdd`,
`MaxInits`, `MaxOpen`, `MaxTime`, `MaxPeriods`, `MaxPosts`, `MaxCalls`, `MaxEdits`, `MaxKeys`,
`MaxAttempts`, `MaxReply`, and the saturation of `charges` and `reports` at 2; `HistoryCap`, `PageSize` and
`MaxLines` are constants of the code, made small. Deadlock is checked where the system goes on after its bounds are used
up: polling and redelivery in the jobs and in billing, a page that may always be reloaded in `GateRun`,
an application that goes on calling in `NodeSdk`. It is not checked in `AuthSession`, `Services`,
`Console`, `PastedKey` and `OtherDatasets`: there a behaviour is a bounded piece of work (requests of a visit, calls that
were recorded, one answer about a window, one visit to a screen) that ends in quiet. That nothing is left hanging is
stated instead: `RequestsEnd`, `Drains`, and `NeverStuck` for the screens.

Symmetry is used in the safety runs of the jobs, of billing and of the SDK, over runners, requests,
sessions, tasks and chains; no definition chooses between two of them, and no run with a liveness property has it.

**Fairness.** Jobs: weak fairness of each runner's step and of its restart (the loop polls for ever, catches
every exception, and the platform restarts a process that died), of each request in progress, and of `Lapse`
(time passes). No fairness on requests, exceptions or crashes. `EveryJobEnds` needs the bound on faults, and
its exemption: a job whose run fails with a cancel request pending is claimed again, and so without end when
its inputs are gone (section 12). Billing: weak fairness of each session's steps; strong fairness of the
delivery of each unanswered event (the provider redelivers until it is answered, whatever sessions are doing
at the time) and of starting a reconciliation (the scheduler's hourly job); strong fairness of `Confirm`, a
reconciliation whose look-up finds nothing to repair: the job looks at every linked row every hour, and where
no difference is found it takes that branch, which `LookUp` otherwise leaves to choice beside the operator's
request that writes in any case; weak fairness of `Configure`, an operator's act: without it a price id that
the settings lack is never resolved. `GateRun`: weak fairness of the server's claim and end of each job, which
`JobsQueue` shows; of the answer or failure of a cancel call, and of the steps of the enqueueing call and of
the poll loop (the browser ends a call one way or the other, and its timers fire); none on the user, on the
stream, on the lookup or on other tabs. `AuthSession`: weak fairness of the progress of each request.
`Services`: weak fairness of the loops that empty the queue and the stream, which start again at once when
their process stops; for the breaker, of posts ending, of the health check's timer and of time.

**Lookups are dated.** `_extract_event_created_at` (`billing_service.py:145`) takes the first of
`occurred_at`, `created_at`, … that it finds, and for what the provider returns of a subscription that is
its creation, which comes before every event. So what reconciliation or a change of plan would write is
always older than a row an event has written, and `PutEntity` refuses it: this is the code, and all runs
and proofs are about it. The test of reconciliation
(`src/backend/tests/unit/test_billing_service.py:711`) passes because its lookup has no date and an empty
period.

Each property of a passing run has a mutant in `PROJECT.json`: a slip one could make in the code
(written above the definition it would replace, with the comment "Slip") under which TLC finds the
property violated.

## 11. Proofs

Eight modules hold theorems or lemmas, checked by TLAPS with its SMT, Zenon and LS4 backends. They assume only the
named assumption of each module (bounds are naturals, distinguished values are not members of the sets
beside them); the sets of runners, requests, sessions, tabs, tasks, threads and agents are arbitrary, and
infinite ones are included but where an assumption says otherwise.

**Jobs** (`ReleaseGateJobsProofs`). `Invariant` proves `Spec => []IInv`. The safety properties are not
inductive. That a job is charged once rests on three facts the table does not show: a job that nobody has
claimed has no history (`FreshRows`), a lapsed lease is on record (`LapsesRecorded`), and until then a run
at a given place has not charged, or not reported, and is alone (`FirstRun`). That a result is paid for
rests on what each run has done at its place (`WorkInOrder`). That cancellations are requested rests on
what the sessions about to write one know (`SessionsJustified`): the row they read may have changed, but a
cancel request is never withdrawn. The theorems `TypeCorrect`, `WorkDoneOnce`, `ResultsArePaid` and
`CancelsAreRequested` follow; `FailureAfterLapse` and `Refinement` are about steps and use the
invariant in the state before. One lemma per action states that it keeps the invariant, with one step
per part of it that the action can disturb. `OneActiveWhenAlone` is conditional, as the property is: nothing
in the table keeps two requests of one user from both finding no active job and both inserting one. Its
hypothesis `EnqueuesAlone` says that this does not happen, of handlers of the same scope only, and holds
of every behaviour when there is one handler (`OneActiveServedSingly`). The invariant is that what the
lookup of a request found still holds when it inserts (`LookupHolds`); the work is in `OnlyInsertsActivate`,
that no step of a runner, a lapse or a cancellation makes a job active again.

**Billing** (`BillingSyncProofs`). `Invariant` proves `Spec => []IInv`: a key of the event log has one
holder, whose event is not on record (`KeysHeld`), and at each place of a delivery it is known what it has
left behind (`DeliveriesInOrder`). `DuplicatesTookEffect` and `NothingIsForgotten` follow: the cache and
the log never get ahead of the row, for any number of sessions, events and faults. `NewestEventWins` and
`EntitlementCatchesUp` suppose that no two requests are in progress at once (`ServedAlone`; with two the
properties fail, section 12).
The invariant `SerialInv` adds to the two properties that no record speaks of an event not yet issued
(`OnlyIssued`), that the request in progress has read the present row (`UpToDate`), and that the
entitlement is the row's unless the event the row was written from is still to be done (`Follows`).

**The run in the console** (`GateRunProofs`). The safety properties speak of what was shown and filed; the
invariant adds that the page is busy with one thing at a time (`Busy`), that a run still followed was
not announced (`Announced`), and where the run followed came from (`Origin`): it is its owner's, or one the
server answered with although another agent had it. As every step goes through `Commit`, one lemma about
its effects serves all of them. `AnnouncesOnce`, `FilesUnderAgent` and `CancelsOnlyAsked` follow;
`LetsGoOnlyWhenOver` and `SendsAsked` are about steps. Two more theorems are about the other side.
`ServerKeepsContract`: whatever the page does, its server is a behaviour of the contract that
`ReleaseGateJobs` implements. `FlagsNeverGoBack`: a run that is over stays over, one asked to be cancelled
stays so, one that started has started. That is why the model may read an answer when it arrives rather
than when it was sent: an older answer raises fewer flags and no others. A verdict may be replaced, but no
step of the page depends on which of the verdicts it is except the last, which announces it; a replacement
that comes before that could as well come after it.

**Sessions** (`AuthSessionProofs`). `Numbered` says that numbers do not run out: what was issued and what
requests and odd events may still issue stays within `Tokens`, which is a count over the requests and uses
the theorems on finite sets. `Fresh` says that a token on its way is known to its request only, `Single` that
a login has one live token, `Causes` and `Ended` that what a refusal will be told to come from has
happened. All four safety properties of the run follow.

**The Node SDK** (`NodeSdkProofs`). Calls of one task nest, so its stack is described in layers: what each
frame saved is what the frame below set (`IInv`). The invariant of `ChainKept` adds what is still open
(`StillOpen`). Steps push and pop one frame, so no induction over the stack is needed but the
existence of a deepest frame, for which the library's facts on well-founded orders are cited.

**Services** (`ServicesProofs`). `BreakerInvariant` and `OpenClosesByProbe` for the circuit;
`WindowsHold` for any calendar, any anchor and any moment, by arithmetic on the months beside the present
one; `AlertsKeepApart` for any number of threads and any cooldown, from what a thread about to send knows
of the last message (`Newest`, `Spaced`, `Balanced`); `LedgerCounts` for any number of sessions and
snapshots (the run stores one). The invariant of the ledger says what a session that has read the ledger would add
while nobody has added it (`Reads`), that this is still right once it is added and until it is committed
(`Fills`), and that there is one such session (`OneFill`), which is where the unique key comes in. With ingest, below,
they make `ServicesTyped`, `NothingUnaccounted` and `EverythingBounded`, for every state of `Services`.

**Ingest** (the second part of `ServicesProofs`). Any number of calls, workers, handlers and
web processes (finitely many, as the bounds count them), any batch of at least one entry, any cap and any
number of faults. What is bounded is never what a state shows alone, so each bound is strengthened by
what is still to come. A call that is lost was, before that, only in entries that a process is about to
delete: `Doomed` counts it from that moment, and a fault dooms the entries of one batch, a popped call or
one that a request holds (`FewDoomed`). A call may be stored again by each process that still will
read it, or has read it and not committed: `Future` counts those, and a crash adds one (`Copies`). The
rows over the cap were allowed while there was room: `Promised` adds what is allowed and not yet stored
(`Grants`, `Granted`), and the writer that saw room for its entries last saw all the others' rows but those
that they had been allowed and not committed, a batch, or the cap, each. `Brief` bounds what a process
holds, and `OnlyAccepted` and `OneEach` say that a call is in one place of the queue, of the stream or of
a hand. The counts are over sets that a step changes in one place; the lemmas `Grows` and `Fibers` say what
that does to the cardinality of a set and of a union of disjoint sets. That `RemoveFirst`, an operator of
the community modules that chooses a position, takes away that entry and nothing else is `RemoveSet`.

**The screens** (`ScreenProofs`, `ConsoleProofs`). `ConsoleTyped`, `NoButtonStaysDead`, `DoneAsAsked`,
`ScreensCohere`, `NothingTakenAway` and `DifferenceTells`, for any agents, logs, datasets, members and keys, any number of
calls in flight, any length of the drawing's history and any number of attempts. Numbered logs are
finitely many, as "the newest" is chosen among them. `ConsoleInv` says that the screen that is open keeps
its own invariant; there are fourteen, each beside its screen's lemmas: it holds at the start (`…Init`), every
step keeps it (`…Step`), and so does a stutter (`…Same`).
`ConsoleStep` puts them together, which is the sum of the modules made formal: `at` never changes. The
first nine screens and what they share are `ScreenProofs`; `ConsoleProofs` extends it with the other
five and the theorems.

None of the properties is inductive on its own. What has to be added is mostly what the flags of a page
know of its calls: one call at a time under a busy flag (`SavedInv`, `ProfileOne`, `RequestFlags`), with
`OneCall` for the screens that bound their calls by a count, and what the calls in flight
carry, which an answer will write into the page when it comes. Whose rows and datasets are ticked rests on
whose are listed: a page of the log is of its agent, a row of another one has strayed in (`LogOwnUi`,
`LogOwnNet`), and each list of datasets is of its agent (`SavedOwn`). `HistoryGood` says that what waits for its
report was clicked last, so a report that is late finds nothing to open. `GraphGood` says that every
drawing the history keeps is of the agents of the list or empty, so undo has something to bring back, and
that cutting the history at its cap keeps that (`GraphCommitted`). `InputsGood` says of the fields of a run
that they are those of logs selected now; whatever comes late goes through `Pruned` and `Seeded`, which keep
it (`InputsNewest` is the one fact about counting: the newest of a finite set of numbers exists).
`RequestFits` says when the chosen key fits: it is of the chosen provider and active unless something
came across, a save or a deletion under way included. `PlanTalk`, `PlanPages` and `PlanEarly` say which
calls go with the dialog and with the page of the checkout, and which were made before the page had heard
of the subscription; `ReviewNowhere` says which jump has no target.
A leaf whose goal is a record with a dozen fields is given to Zenon by name, as the SMT translation of
such records is slow.

**The difference of two replies** (a section of `ConsoleProofs`). `DiffSays` is about
`computeSimpleLineDiff` alone: for any two sequences of anything, what it returns tells the first when the
added lines are left out, the second when the removed ones are, and keeps as many lines as any common part
of the two has. `DifferenceTells` carries it to every state of the screen, from the fact that the report on
screen is made of lines and never changes (`ReviewReplies`, `ReviewReads`). The two tables, the longest
common parts and the differences of the rests, are recursive functions, and the library's induction
theorems cannot be instantiated here. What stands in for them needs no operator: a set of numbers that is not
empty has a least element (`Least`, from the library's fact that `<` is well-founded). So a table whose
cells are made of cells of smaller weight exists (`Tables`: else take the least weight up to which there
is none), and what every cell has when those of smaller weight have it, all have (`Cellwise`, over the set
of cells that have it). The weight of a cell is what lies behind it of both texts (`Rests`). `CommonTable`,
`DiffTable` and `MarkedTable` give the tables their types and equations; `SeqUp` is induction over
sequences, made of `Cellwise`. `LineDiffTells` then follows the walk from cell to cell (`TellsRemoved`,
`TellsAdded`, `TellsSame`, `TellsEnd`): it tells both rests and keeps what the first table counts. `Longest`
shows that the count is the best: where the two first lines are the same, a common part loses a line
at most by going behind both (`CommonsShift`), and where they differ it lies behind one of them
(`CommonsSkip`). For this the two functions take a pair as their argument, and `Marked` is written as a function
where `SelectSeq` would do.

**Only model-checked.** Liveness (`EveryJobEnds`, `EventsLand`, `EntitlementSettles`, `RunEnds`,
`RequestsEnd`, `Drains`, `Recovers`), which is out of the prover's reach. Every invariant and action property that a
passing run checks is proved.

## 12. Where the code and its documents disagree

**A pasted key** (run `PastedKey`, property `PastedIsServed`). The gate's page takes a key pasted for one
run as enough to start it: "Direct API key provided for this custom run. Ready to run."
(`RG/useReleaseGateProjectApiKeys.ts:226`), and the request's field is an "Optional provider API key
override for replay calls." (`release_gate.py:1325`; `docs/mvp-node-gate-implementation-checklist.md:120`
lists it as done). The request is stored as a job without the key (`release_gate.py:1572`, so that no
secret is kept), the runner rebuilds the request from the job, and nothing else carries the key. TLC finds a
run that the page called ready and that is refused; with a key of the project the run uses that one.

**Reconciliation** (run `BillingRepair`, property `ReconcileRepairs`). The readiness plan says that
"reconcile catches and repairs stale subscription mismatches within 15 minutes"
(`docs/subscription-commercial-readiness-plan.md:816`), the runbook calls the endpoint "Bulk consistency
repair" (`docs/billing-hardening-runbook.md:54`). What is looked up is dated by the subscription's creation,
refused as stale and counted as fixed (`billing_service.py:395`). TLC finds a row that stays behind the
provider after an event that could not be handled, however often the job runs.

**Datasets of another agent** (run `OtherDatasets`, property `OwnDatasets`). The dialog of the Saved tab says
"Delete only the selected datasets for this agent." (`ClinicalLogDataSection.tsx:483`). The effect that runs
when another agent is chosen (`:247`) keeps the ticks and the delete mode, so what was ticked for the agent
that was left is deleted from the panel of the next.

The following were found with the same modules, each with an instance in which TLC violated the
statement; they are described here and no longer have runs of their own.

| Statement | What the code does |
|---|---|
| usage is charged once per job (`docs/release-gate-performance-hardening-plan-2026-04.md:159` and `:167`) | each run charges (`release_gate.py:2308`); a job that is claimed again after its lease lapsed is charged again |
| failed only when not canceled (comment at `release_gate_job_runner.py:333`) | the guard reads the session's copy, the write is unconditional (`:332`): a failure is written over a cancel request or a success it has not seen |
| one active job for repeated requests (`src/backend/tests/integration/test_release_gate_async_jobs.py:14`) | two concurrent requests look before either inserts (`release_gate.py:3168`) and insert two jobs |
| the worker acknowledges a cancel request (comment at `release_gate.py:3495`) | a run that raises under a cancel request writes nothing, and the job is claimed again for ever |
| stale events are ignored (the answer at `billing_service.py:1417`) | a delivery that loaded the row earlier commits an older event later (`:273`) |
| concurrent chains keep their own calls (comment at `src/sdk/node/src/index.ts:65`, example at `:337`) | all chains of an instance share one Map (`:349`): a call is recorded with another task's chain |
| the draft of the checks is reset when the agent changes (comment at `AgentEvaluationPanel.tsx:269`) | the draft stays until the next agent's settings are read (`:271`), and Save then stores one agent's checks for another |
| the selection of the log is "strictly scoped to the current node" (comment at `ClinicalLog.tsx:357`) | the ticks are cleared, but rows of the agent that was left come into the next one's log: older rows that arrive late (`:766` does not ask whose they are), and the last page shown, which `keepPreviousData` (`:390`) leaves when the next agent's first page cannot be read. Select all ticks them and Delete deletes them |
| only soft-deleted agents are purged (docstring at `live_view.py:1283`) | `hard_delete_agents` selects them without a lock (`:1298`) and deletes what belongs to them later (`:1319`–`:1398`), also of an agent restored, or back with traffic, in between |
| a recovery is announced (`docs/mvp-ops-alerting-minimum-plan.md:89` and `:112`) | the active flag is cleared before the recovery's own cooldown is asked (`ops_alerting.py` 464–485), which may drop it for good |

Two more behaviours are visible in the models. The contract of a job lets a finished job be finished
again: a run that lost its lease writes canceled or failed over another run's verdict (the hardening plan,
line 161, says duplicate finalization is blocked), and a job canceled that way keeps the result of the run
that succeeded. And `RowIsNewestEvent` does not constrain the plan of a row written by a cancellation: a
cancellation carries no plan, and one that arrives before the payment copies the plan of the row as it is,
after which the payment is stale.

## 13. What is not modelled, and why

`PROJECT.json` lists the components without a module, each with its reason: provider calls, e-mail, chat
channels and forwarding are I/O; dashboards and reports only read; migrations run before the program;
limits on logins and requests promise little that concurrency leaves true (section 2). Sections 3 to 9
name what is left out of the modelled ones.

**How much of the code this is.** By lines most of the repository is presentation: of about sixty
thousand lines of TypeScript the greater part is markup, classes, copy, documentation pages, landing pages,
type declarations, fixtures and browser tests, in which there is no state a step could get wrong. The
models cover about one TypeScript line in eight, which is the hooks and handlers that hold state and the
conditions that turn their buttons on and off; and, in Python, which is where the state that outlives a
visit is, the job queue, billing, ingest, alerts, the ledger of usage and its windows, and token rotation. A page
whose markup is left out is listed by its handlers only.

**Pages read and not modelled.** The alerts page, the list of API calls and the list of projects read a page of rows with
filters; their answers are not ordered and a page number is not clamped, so an older answer may be shown
under newer filters, and there is no promise that holds beyond that. The page that replays single logs
never resets `isConcurrencyBlocked`, so that its button stays dead until a reload after one refusal. The
sign-in form, the notification and security settings send one form. `NodeAndDataPickerModal`,
`DatasetPickerModal`, `AgentNodePickerModal` and `ReleaseGateHistoryExplorer` are rendered nowhere. The
detail window of a log (`SnapshotDetailModal`) shows what it is given.

## 14. Running it

    tlc -workers 2 -config JobsSafety.cfg MCReleaseGateJobs.tla
    tlc -workers 2 -config JobsQueue.cfg MCReleaseGateJobs.tla
    tlc -workers 2 -config BillingSerial.cfg MCBillingSync.tla
    tlc -workers 2 -config GateRun.cfg MCGateRun.tla
    tlc -workers 2 -config AuthSession.cfg MCAuthSession.tla
    tlc -workers 2 -config NodeSdk.cfg MCNodeSdk.tla
    tlc -workers 2 -config Services.cfg MCServices.tla
    tlc -workers 2 -config Console.cfg MCConsole.tla
    tlc -workers 2 -config PastedKey.cfg GateRequest.tla
    tlc -workers 2 -config OtherDatasets.cfg MCConsole.tla
    tlapm ReleaseGateJobsProofs.tla        # likewise BillingSyncProofs, GateRunProofs,
    tlapm ServicesProofs.tla               # AuthSessionProofs, NodeSdkProofs: minutes each
    tlapm ScreenProofs.tla                 # twelve minutes
    tlapm ConsoleProofs.tla                # twelve minutes

Each cfg names the run it belongs to; its module is in `PROJECT.json` under `runs`. The largest are
`Console` (3.2 million distinct states) and `NodeSdk` (2.4 million); `Services` takes the
longest for its size, three minutes with two workers, as its invariants count over sets.
