# A TLA+ verification of the release engine

The release engine accepts jobs over HTTP, stores them in PostgreSQL, and runs
each of them through a *module* (provision infrastructure, scaffold a service)
whose steps call external systems and may wait for a human approval. Several
engine replicas share one database and nothing else. This directory models the
engine in TLA+, model-checks it with TLC and proves its central properties with
TLAPS. File names below are relative to `src/`.

## 1. Inventory

### Parts of the system

| Part | State | Operations | Hard about it |
|---|---|---|---|
| Scheduler (`internal/scheduler/service.go`) | `jobs` rows: state, run id, attempt, lease, next run | every 25 ms: claim up to 10 due or expired jobs, run them one after the other | leases without heartbeat, several replicas, serial dispatch |
| Runner (`internal/runner/service.go`) | locals of `RunJob`; `jobs`, `jobs_read`, `outbox` | fetch, execute, finalise (success, failure, terminal), project, emit | stops between statements; late finalises of lost runs |
| Step API (`internal/runner/step_api.go`) | `steps`, `approval_decisions` | begin/end step, call a connector, park for approval and poll | unfenced upserts, run ids of re-parked rows |
| Job intake (`internal/transport/http/job_handler.go`) | `idempotency_keys`, `jobs`, `jobs_read` | `POST /v1/jobs` | three statements without a transaction, concurrent retries |
| Decisions (same file) | `approval_decisions` | `POST .../decisions` | check, then insert |
| Approval service (`services.go`, `approval_worker.go`) | maps of steps and idempotency keys, event log, clock | request, decide, tick (escalate, expire), force | late decisions against expiry; replays across requests |
| Outbox (`internal/outbox`) | pending events | emit, drop every 5 s | no delivery in the code yet |
| Infra module (`internal/module/infra`) | job context, commits, health status | render, policy, gate, commit, poll, remediate, call back | retried as a whole; timeouts; two commits; status files of other commits |
| Scaffold module (`internal/module/scaffold`) | - | checks its parameters and logs four steps | - |
| Template engine (`internal/module/infra/template`) | none | validate, render fragments, build resources | two lookups of a provider, conversions that lose what was validated |
| Git connectors (`internal/connector/github`, `gitea`, `testing/filegit.go`) | locals of one call; the branch | commit files, read a file | stale heads, one commit per file, lost answers |
| Module factory, registries, other connectors | maps filled at start-up; external systems | lookup, calls | an unsynchronised cache |
| DORA (`dora_handler.go`, `internal/dora`) | `dora_events`, dead letters, pool connections | ingest, replay, queries | partial inserts, concurrent replays, a second connection taken while one is held, statements that are no snapshot |
| Middleware (`middleware.go`) | token buckets, JWKS cache | authenticate, limit | stale keys, boundaries |
| Secrets (`internal/secrets`) | cache of vaults | open, use, close | - |
| Metrics writer (`internal/observability`) | bounded queue, workers; `metrics_job_events`, `dora_events`, links | enqueue, write, close | shutdown with a full queue, ends reported twice |
| Audit, tracing, configuration, logging | - | I/O | - |

How they interact: intake writes a `jobs` row; a scheduler claims it and calls the
runner on the same goroutine; the runner calls the module, which calls the step
API; a parked step is read and decided through the decision API, which only
inserts a row that the parked goroutine polls for; the runner finalises the row,
copies it to `jobs_read` and adds an event to `outbox`. Every statement commits by
itself: no code path opens a transaction. This is why the unit of interleaving in
the models is the SQL statement.

### What makes each part correct

- Scheduler and runner: one run at a time may end a job; retries are bounded;
  an end is final; jobs end in spite of crashes; the projection and the events
  never claim what did not happen; an unapproved gate is never passed.
- Intake: retries of a request are one job; what was accepted exists.
- Approval service: quorum of eligible approvers; expiry and decision exclude
  each other; replays repeat the recorded answer; nobody waits for ever.
- Decisions over the database: a gate is opened only by a decision made for it, by
  somebody entitled to it, and nobody decides twice.
- DORA: what a sender is told is kept is kept; a delivery is one set of rows; no
  request waits for ever; every number of a failure rate was true during the request.
- Metrics writer: what is accepted is written or counted as failed while the writer
  is open; callers of `Close` do not get in each other's way, and the workers end.
- Middleware: a tenant gets its rate and its burst, and no more.
- Git connectors: a call that succeeds has its files in the branch; nobody's update
  is undone.
- Infra module: no commit without clearance; success rests on the health of the
  run's own commit; provisioning ends.
- Template engine: what is rendered is what the catalogue item allows, and carries
  what validation demanded.

`PROJECT.json` lists every component with its status, and under `hazards` what is
hard to test in this code, at the line where it bites.

## 2. Modules

| Module | Models | Lines of the code |
|---|---|---|
| `JobContract` | what the engine promises of one job (abstract, no code) | - |
| `JobLifecycle` | scheduler, runner, step API, decisions | `scheduler/service.go`, `runner/service.go`, `runner/step_api.go` |
| `JobLifecycleProofs` | proofs about it | |
| `JobIntake` | `POST /v1/jobs` over the database | `job_handler.go` 85-360 |
| `JobIntakeProofs` | proofs about it | |
| `ApprovalService` | the in-memory approval service and its worker | `services.go`, `approval_worker.go` |
| `ApprovalServiceProofs` | proofs about it | |
| `DecisionApi` | decisions over the database: several approvers, keys, the polling side | `job_handler.go` 441-597, `step_api.go` |
| `DoraStore` | the DORA tables, the normalizers and the aggregates, as operators | `internal/dora`, `schema.go`, `dora_handler.go` |
| `DoraIngest` | the DORA handlers on a connection pool | `dora_handler.go` |
| `DoraIngestProofs` | proofs about it and about the normalizers | |
| `MetricsWriter` | queue, workers, the one statement they write, `Close` | `metrics_sql_writer.go` |
| `MetricsWriterProofs` | proofs about it | |
| `Edge` | bearer checks, JWKS cache, token buckets | `middleware.go` |
| `HttpProofs` | proofs about `DecisionApi` and `Edge` | |
| `FileStore` | what `commit_files` promises (abstract, no code) | - |
| `GitConnectors` | `commit_files` over GitHub, Gitea and the file connector | `github.go`, `gitea.go`, `filegit.go`, `step_api.go` |
| `Fragments` | the fifteen capabilities: validation, rendering, builder | `template/fragments`, `template/resolve`, `xr.go` |
| `Template` | catalogue, request validation, rendering, composite resources | `template/engine.go`, `validate.go`, `xr.go`, `catalog` |
| `TemplateProofs` | proofs about the template engine | |
| `InfraModule` | `Execute` of the infra module under the engine's retries | `infra/module.go`, `health.go` |
| `ProvisionProofs` | proofs about the connectors and the infra module at work together | |
| `MC...` | small instances for TLC | |

`InfraModule` extends `GitConnectors` and `Template`: a job commits the manifest
the template engine renders, through the connector of its deployment.
`DoraIngest` and `MetricsWriter` extend `DoraStore`: webhooks and the engine's own
reports meet the same unique indexes.

### JobLifecycle

State: the tables (`jobs`, `jobsRead`, `steps` with the decision on each step,
`outbox` as a count of events), and per replica the goroutine: `batch` (rows the
claim returned and not yet run), `pc` and `work` (the `RunJob` call in progress).
Time is abstracted to two facts per row: the lease is live or expired, the job is
due or not; `LeaseExpires` and `BecomesDue` are the steps of the clock.

| Action | Code |
|---|---|
| `ClaimAndDispatch` | the claim query: expired runs first, then due jobs, none with a waiting step; new run id; `attempt + 1` for queued jobs only |
| `StartRun` | the fenced fetch of `RunJob`, module lookup |
| `EndStepOK`, `EndStepErr` | the step upserts, whose errors modules discard, and the way `Execute` returns |
| `Park`, `PollDecision` | `WaitForApproval` |
| `FinaliseSuccess`, `FinaliseError` | the fenced UPDATE of `finaliseSuccess`, `finaliseFailure`, `finaliseTerminal` |
| `Project`, `EmitSucceeded` | the two statements after it, errors ignored |
| `Crash`, `Shutdown` | the process dies; or its context is cancelled while parked |
| `SubmitDecision` | `POST .../decisions` over the database |

A module is a sequence of `NSteps` steps, some of them gates; each may fail,
retryably or terminally. A step has one approver. `Schedule` is "none",
"recurring", or "ended" (a cron expression without a next occurrence).

### JobContract

One job seen from outside: a state, an attempt counter, a current run, and the
set of runs that have yet to let go. `Take`, `End` and `GiveUp` are its only steps.
`JobLifecycle` instantiates it once per job (`Contract(j)`); the property
`ImplementsContract` says that every step of the engine is a step of each job's
contract or leaves it unchanged.

### JobIntake

State: `idem`, `jobs`, `read` (the three tables), one program counter with locals
per handler, the jobs the engine has finalised and not yet projected, and the
set of answers sent. `Reserve`, `Replay`, `InsertJob`, `InsertRead` are the four
statements; `Failed` is a statement that fails (500) and `Abort` a process or
client that goes away. `Finalise` and `Project` are the engine as intake sees it:
it may run a job before its handler has inserted the read row. A refusal (400, or
413 for an oversized body) is one answer in the model.

### ApprovalService

Every method holds the service's mutex throughout, so it is one action. The
constructor seeds one step (`Bootstrap`). `log` is the event list of the current
request of each step; `round` counts the requests of a step, and `forced` records
that `EnsureTerminal` let it through; both are history variables. Policies,
roles and tenants are constants.

### DecisionApi

State: the status of the gated steps, what the run waiting for each took, the
`approval_decisions` rows, and one program counter per request. `CheckStep` is
the query that finds the waiting step and the policy on the approver (`Policy`),
`InsertDecision` the upsert: a key that was used before redirects it to the stored
row, of which it changes `job_id` only (`Moved`); an approver who has decided on the
step under another key is refused by `UNIQUE (step_id, approver)` and answered 500
(`HasDecided`). `CreatedBy` is what the query reads for the job's owner: always the
empty string, because `createJobWithDB` does not insert `created_by`, so the check on
self-approval never applies. `PollGate` and `EndGate` are the
parked goroutine. `GateOpenedByItsApprover`: a gate that opened has a decision
that was made for that step by an approver whom tenant and role allow, who has made
no other on it; the job's creator is an approver like any other.

### DoraStore, DoraIngest

`DoraStore` has no state. A row is its type, source, service, correlation key,
source event id and time; `SameSourceEvent` and `SameDeployment` are the two unique
indexes and `InsertRow` is `ON CONFLICT DO NOTHING`. The normalizers turn a webhook
into rows or a failure, with the fallbacks for a time that is missing, does not
parse or is zero. The aggregates (`CFRStats`, `LeadTimeStats`, `MTTRQuality`,
`Summary`) are sets and counts over rows; percentiles are left out.

In `DoraIngest` a handler goes from statement to statement and holds the connections
it has acquired. `AcquireConn` waits for the pool; `WriteDeadLetter` takes a second
connection while the first is held, as the code does; `ClientGone` ends the request's
context, which is what frees a handler that waits. A summary takes one step per
statement of `queryCFRStats` (`CountDeployments`, `CountOpened`, `MatchIncidents`,
`CountFailed`) and one for the rest (`Report`), with other handlers and the
deployments that the engine reports (`ReportDeployment`, in full in `MetricsWriter`)
between them; `first` remembers the rows the first statement saw, for
`SummaryIsCurrent` alone. Answers are numbered, so that two alike are two. A push
gives one event per commit that has a sha, in the order of the push (`NamedCommits`,
`Nth`). A dead letter does not store the service, so `ReplayDeadLetter` stores its
events under the service of the replay.

### MetricsWriter

`WriteEvent` is two steps (the closed flag, then a non-blocking send), a worker is a
loop over two channels of which Go takes either when both are ready (`WorkerTakes`,
`WorkerStops`), and `Close`, of which several calls may be under way, three: the flag,
which sends a later call home at once (`CloseFlag`), the stop channel, and the wait
with a timeout. `Written` is the one statement of `processEvent`: the metrics row, the
deployment unless it is there already, and links for the deployment it inserted.

### Edge

One request at a time goes through bearer parsing, `GetKey` (cache, refresh,
second look), validation, and `Consume`. Time is in ticks: `TicksPerToken` is the
refill of one token, so a bucket holds whole ticks. `RotateKey` is the issuer.
`AdmittedBounded` counts what every tenant was served in every interval.

### GitConnectors, FileStore

`history` is the branch: commits with their tree and the status file of Argo CD.
A call compares its files with the branch one by one and then writes: GitHub in
one tree on the head it read (`CreateCommit`, then `UpdateRef`, which refuses when
the branch has moved), Gitea one commit per file guarded by the blob's sha
(`Unlocked`). A request may fail before or after it took effect. The file connector
works on a directory under its own mock names: `readFileSafe` closes the root of the
whole call (`rootOpen`), so that a call gets no further than the first file it reads,
unless that was the last and is as wanted; `writeFileSafe` truncates (`Truncate`) and
then writes (`Fill`), and a stop, a failed write or another call in between leaves the
file empty (`Blank`) or in pieces (`Torn`). `FileStore` says what a caller may rely
on: files change only to what an open call asked for, and a call that answers success
found or wrote each of its files while it was open; a call that is not atomic, which
is one of the file connector, may also spoil files that it has still to write
(`Spoil`). `FilesLand` is this refinement.
`Flavours`, `FileSets` and `Trees` are the connectors, the requests and the initial
branches of an instance; `ClientStep` is a caller that is no provisioning job, and
`ProvisionNext` puts such callers beside the jobs.

### Fragments, Template

A request is a record of the fields that some branch looks at. `Validate`,
`ValidateCapabilities`, the fragments' `XValidate` and `applyCatalog` are predicates
and functions on it; `XRender` is the fragment, `buildXParams` the conversion to
the resource, kept apart because the code loses information between them.
`BuildXRs` drops parts without a builder and puts the rest in the order of their
names (`KeyOrder`, `Nth`). Numbers are Go ints and may be negative
(`CapabilityParams`). `RegionAZs` makes a slice for as many zones as there are
private subnets: with a negative number, or one above `MaxCapacity`, `Render` panics
once the fragments before it have validated (`Panics`). Regions, names, CIDRs and
the YAML text are left out. `RenderedAsAllowed` and `GuaranteesReachResources`
compare the request and the catalogue item with the documents that come out.

### InfraModule

One program counter per job for `Execute`: start and render, policy, approval gate,
commit, poll, remediate, poll again, callback; `Fails` is the runner's finalise
(retry or exhaustion), `Crash` and `Panic` lose the run, which is reclaimed under
the same attempt; so does a `Start` whose parameters panic when rendered
(`Explosive`). `WriteStatus` is Argo CD, which writes a status file for any
commit of the branch. `Matches` is the comparison of the file's sha with the run's
commit; a mismatch, a missing file (hosted connectors) and an unreadable one end
the poll. What becomes of a gated job that crashes is `JobLifecycle`'s subject.

## 3. Runs

| Run | Instance | Checks |
|---|---|---|
| `lifecycle_safety` | 1 job with a gate and 2 steps, 2 replicas, 2 attempts, 1 fault, leases may expire at any time | `TypeOK`, `RunHeldOnce`, `NoActiveRunOnIdleJob`, `AttemptBudget`, `AnnouncedOnce`, `ReadModelHonest`, `SuccessWasApproved`, `TerminalIsFinal`, `ImplementsContract` |
| `lifecycle_liveness` | a gated and a recurring job in one batch, 2 replicas, 1 fault | `OneEventPerAttempt`, `EventuallyTerminal`, `RunsSettle` |
| `intake` | 2 handlers, 1 key, 5 kinds of request, 3 ids, 1 fault | `TypeOK`, `AcceptedAlike`, `JobsAreReserved`, `FirstAcceptIsDurable`, `ReadNeverRewinds` |
| `approvals` | 4 approvers, quorum 2, 3 keys, 2 requests, clock 0..4 | `QuorumHeld`, `AnswersAreOnRecord`, `EventsMatchDecisions`, `SettledOnce`, `WaitsEnd` |
| `services`, part "ingest" | 2 handlers on 2 connections, 7 webhooks, 6 queries, 2 initial tables, 1 deployment reported meanwhile, 1 failed statement | `WebhooksAreKept`, `ReplayedMeansStored`, `DeliveredOnce`, `SummaryIsCurrent`, `RequestsEnd` |
| part "writer" | 4 writers, 2 workers, a queue of 2, 2 failed writes, 2 calls of `Close` at any time | `AcceptedIsSomewhere`, `ClosedByOne`, `LinkedDeploymentsExist`, `AcceptedSettles` |
| part "edge" | 2 requests at a time, 4 kinds of bearer, burst 1, clock 0..4, 1 failed fetch | `AdmittedBounded` |
| part "decision" | 2 gated steps of 2 jobs, 7 kinds of decision, 2 at a time, 1 failed statement | `GateOpenedByItsApprover` |
| `provision`, part "git" | 2 clients, 2 files, every connector, 1 lost request or answer | `FilesLand`, `NoLostUpdate` |
| part "infra" | 2 jobs on one repository in 5 constellations, 2 attempts, 1 fault, 1 status written by Argo CD | `HealthIsOfThisRun`, `CommitsAreCleared`, `ProvisioningEnds`, `FilesLand`, `NoLostUpdate` |
| part "render" | 6425 requests, of which 973 are rendered and 20 panic | `RenderedAsAllowed`, `GuaranteesReachResources` |

`services` and `provision` put parts together that share no state; a behaviour runs
one of them (`part`), so nothing is multiplied.

Six runs show that the code does not do what a document says. Their
counterexamples are the point of the run:

| Run | Property | Document | What happens |
|---|---|---|---|
| `lifecycle_v_stepfence` | `StepWritesFenced` | `docs/design/d05.md:130` | the step upserts carry no run id: a run that lost its job still writes its steps |
| `lifecycle_v_decision` | `DecisionsTakeEffect` | `docs/design/d04.md:89` | an approval slower than the lease: a reclaiming run parks the row again under the old run id and never finds the decision; no crash is needed |
| `lifecycle_v_headofline` | `UngatedJobsProgress` | `docs/design/d03.md:72` | jobs run one after the other: one that waits holds up the batch |
| `intake_v_accepted` | `AcceptedJobsExist` | `docs/design/d01.md:163` | one key on two paths: the key is reserved, the job insert fails on `jobs_tenant_idem_uidx`, and the retry is answered 202 for a job that does not exist |
| `services_v_close` | `CloseDrains` | `metrics_sql_writer.go:299` (its comment) | with an event in the channel the workers take the stop signal, and `Close` returns without an error |
| `provision_v_health` | `HealthyBeforeSuccess` | `docs/workflows/infra_provision.md:5` | the first attempt commits and fails its health check; the second finds nothing to commit, skips the check and calls back "succeeded" |

### Bounds

Two replicas are enough for a run and the run that replaces it; five run ids let
one job be claimed and reclaimed across two attempts; two attempts reach
exhaustion and a retry; one fault is a crash or a failed statement at any place.
`AttemptCap` and `RunIds` bound claims (`WithinBounds`); `MaxAnswers` bounds the
requests a handler takes up; `MaxTime` and `MaxRounds` bound the approval clock
and its requests. Symmetry is used for replicas, handlers and job ids in runs
without liveness; model values of these sets are told apart by nothing. Deadlock
checking is off: at the bounds a system that has done its work stops.

In `services` two handlers on two connections are enough for both to hold one and
want another; two requests in all (`MaxRequests`) let a replay race a replay, a
delivery race a delivery, and a summary be overtaken by an incident and by the
deployment that is reported, on tables that start with a deployment or with a
half-stored push. A queue of two is full before the four
writers are done, two workers let `Close` find one idle and one at work, and two
calls of `Close` are enough for one to meet the other. A
burst of one and a refill of two ticks bring every request to the boundary. Three
decisions reach a key that is used for a second job and then again.
In `provision` two clients with two files each, one of them contested, reach every
order of reads and writes; one fault is a request that fails, an answer that is
lost or a crash. `MaxStatusWrites` of one lets Argo CD report healthy or degraded
on the right commit or on another. The requests of part "render" are `Combined`
(every capability with up to one more, in two availabilities, two classes and
every choice of provider), `Detailed` (each capability with a field that is off or
out of the ordinary, a negative number or one above `MaxCapacity` among them) and
`General` (a field of the request itself is off); all
three catalogue items and all fifteen capabilities are rendered by some request.
`MaxCapacity` stands for the memory a slice may take; six is more than any number
of subnets that is served.

### Fairness

`EngineFairness` is weak fairness of each replica's goroutine (a ticker and a loop
that always go on, connector calls that return) and of time. No fairness is assumed of
crashes, nor of approvers, except in `AttendedSpec`, where approvers eventually
decide. Leases: `LeaseOutlivesRun` says that only a wait for approval takes longer
than the 60 s of a lease, so the lease of a run that is parked, or that waits in a
batch, may expire and that of a run at work may not; without it two replicas could
take a job from each other for ever. The liveness properties have one exception, and
only when it lasts for ever (`<>[]Blocked(j)`): a step of the job waits for a decision
and no replica attends to it (`Stranded`; a replica that has its answer and is on its
way to write the step attends), because the replica that parked it died or another run
parked it again, or every replica polls for a decision that can not match (`Deaf`).
Both are what `lifecycle_v_decision` shows, and the claim query, which skips jobs with
a waiting step, makes them permanent. The properties show that nothing else keeps a
job from its end; they do not show that this does not happen. In `ApprovalService` the
worker keeps ticking and time passes. In `services` there is one condition per
service: some worker or some call of `Close` that has set the flag goes on; some
handler goes on, or some client goes away (`ClientGone`). Events and requests are
finitely many, so this is enough for each of them. A sender or a proxy gives up on a
handler that waits, and `Acquire` obeys the request's context; without that
`RequestsEnd` is false, for two handlers that hold a connection and wait for another
wait for ever. In `provision` a run goes on until it ends and an approval request is
decided or expires; Argo CD is assumed to do nothing, and no fault is fair.

## 4. Proofs

TLAPS proves, for every value of the constants that satisfies the named
assumptions below:

| Module | Theorem | Property |
|---|---|---|
| `JobLifecycleProofs` | `TypeCorrect` | `TypeOK` |
| | `RunIdsFence`, `StaleRunsAreHarmless` | `RunHeldOnce`, `NoActiveRunOnIdleJob` |
| | `RetriesAreBounded`, `EndedJobsStayEnded` | `AttemptBudget`, `TerminalIsFinal` |
| | `ReadModelIsHonest`, `GatesHold` | `ReadModelHonest`, `SuccessWasApproved` |
| | `AnnouncedAtMostOnce`, `EventsMatchAttempts` | `AnnouncedOnce`, `OneEventPerAttempt` |
| | `EngineImplementsContract` | `ImplementsContract` (the refinement of `JobContract`) |
| `JobIntakeProofs` | `IntakeTypeCorrect`, `KeysComeFirst` | `TypeOK`, `JobsAreReserved` |
| | `KeysAreIdempotent`, `FirstAcceptsAreDurable` | `AcceptedAlike`, `FirstAcceptIsDurable` |
| | `ProjectedEndsStay` | `ReadNeverRewinds` |
| `ApprovalServiceProofs` | `TypesHold` | `TypeOK` (in no run: the theorems below rest on it) |
| | `QuorumIsHeld`, `StepsSettleOnce` | `QuorumHeld`, `SettledOnce` |
| | `AnswersAreTrue`, `EventsTellTheStory` | `AnswersAreOnRecord`, `EventsMatchDecisions` |
| `HttpProofs` | `GatesOpenByApproval` | `GateOpenedByItsApprover` |
| | `RateLimitHolds` | `AdmittedBounded` |
| `MetricsWriterProofs` | `NoEventLost`, `OneCloserStops` | `AcceptedIsSomewhere`, `ClosedByOne` |
| | `DeploymentsAreJobs` | `LinkedDeploymentsExist` |
| `DoraIngestProofs` | `ProcessedMeansKept`, `ReplaysAreComplete` | `WebhooksAreKept`, `ReplayedMeansStored` |
| | `NoDoubleDelivery`, `SummariesAreCurrent` | `DeliveredOnce`, `SummaryIsCurrent` |
| | `HandlersComeToAnEnd` | the safety half of `RequestsEnd` |
| `ProvisionProofs` | `UpdatesAreNotLost` | `NoLostUpdate` |
| | `CommitFilesKeepsItsPromise` | `FilesLand` (the refinement of `FileStore`) |
| | `SuccessMeansHealthy`, `CommitsHaveLeave` | `HealthIsOfThisRun`, `CommitsAreCleared` |
| | `RunsComeToAnEnd` | the safety half of `ProvisioningEnds` |
| `TemplateProofs` | `RenderedAsAllowedHolds` | `RenderedAsAllowed` |
| | `GuaranteesReachResourcesHold` | `GuaranteesReachResources` |

The theorems about services speak of the specification of each alone
(`DecisionSpec`, `EdgeSpec`, `WriterSpec`, `IngestSpec`, `ProvisionSpec`,
`TemplateSpec`), which the runs `services` and `provision` instantiate as their parts.

### The arguments

- *Fencing.* `RunHeldOnce` and `NoActiveRunOnIdleJob` are inductive together
  (`FenceInv`), with `TypeOK`. A claim uses a run id that nothing mentions
  (`FreshRunIsFresh`), a finalise needs the current run id and gives up the run,
  and everything else only lets go of runs (`LettingGo`).
- *Rows.* `RowSteps` says what any step may do to a `jobs` row; the attempt
  budget, the finality of ends and the honesty of the projection follow from it.
- *Gates.* `GateInv` adds that the gates a run has passed were approved under its
  own run id, that a run which still holds its job has the job's attempt, and that
  decisions stand only on rows that exist. `RowsStable` (no step changes the run
  of a row or a decision once made) carries it over the upserts of other runs.
- *Announcements.* Between the finalise and the insert into `outbox` a replica owes
  an event. `EventInv` counts what was announced together with what is owed: at
  most one for an unscheduled job, and only if it succeeded; at most the attempts,
  less the one under way, for a scheduled one. A lost event (a crash between the
  two statements) only lowers the count, a re-claim raises the attempt.
- *Contract.* Each step of the engine does to a job one of three things
  (`ContractStep`): it leaves the row as it is and at most ends runs (a crash, a
  fenced write), a claim adds a fresh run, or the live run that owns the row
  finalises it. `Live`, the runs that replicas hold, is mapped to what the
  contract calls live.
- *Intake.* `IntakeInv` adds to the properties that no two keys name one job, that
  a handler which still inserts holds the id its key names, and that a job whose
  read row is missing exists. With the unique index (`KeyTaken`) this shows that
  an insert never meets an existing row (`InsertFindsNoRow`), which the proof that
  projections are never undone needs.
- *Approvals.* Every action leaves a step alone, forces it, requests it anew, adds
  one decision or lets a tick pass (`Unmoved`, `Forced`, `Seeded`, `Decided`,
  `Ticked`). `Sound` is the state of a step that these keep: decisions are of
  eligible approvers, a step that waits has none that settles it. `KeysHold` ties
  each key to the decision it recorded, in the round it was made; `Story` ties the
  log to the decisions, event by event.
- *Decisions.* `RowsInv`: every row was sent, for the step it names, by a permitted
  approver who was answered 200, and all rows of one approver on one step hold one
  decision. It survives the upsert that moves a row to another job, because that
  changes the job of the row alone and the poll goes by the step.
- *Rate limit.* `Account` is the bucket as a ledger: from any earlier request on,
  what was served and the tokens left are at most the capacity and the ticks up to
  the last refill. `Refilled` caps the balance, which only lowers it.
- *Metrics writer.* `CarrierInv`: each event has one carrier, the queue or one worker.
  Of the callers of `Close` at most one is past the flag without having been sent
  home, so the stop channel is closed at most once. `RowsInv` and `LinksInv` tie
  deployments and links to the events written.
- *DORA.* `EventFacts`: a webhook's events are a list that does not depend on the
  service but for the service itself, and each is keyed by the webhook. `Inserted`:
  an insert, also one that the index refuses, leaves a row like the event, because
  a source event id names the delivery, the type and the key (`KeyTells`). The
  tables only grow, so a handler's rows cannot be taken from it; `IngestInv` has
  one clause per place of a handler. A dead letter is marked once (`WHERE
  replayed_at IS NULL`), so at most one replay is answered with its id. For the
  failure rate, a handler that has read some of its numbers keeps them between what
  the table held at its first statement and what it holds now: the table only grows,
  counts over a window are monotone, and explicit and heuristic matches add up to the
  deployments that some incident follows (`FailingDeployments`).
- *Git.* Every step opens, moves on or closes one call, or is a commit of Argo CD,
  or touches neither (`ProvisionStepKinds`). `GitInv` says what a call knows at each
  place: its base is on the branch, its unwritten files are a part of the request.
  A commit lands only on the base it was built on (GitHub) or on the blob that was
  read (Gitea), from which the refinement and the absence of lost updates follow
  step by step. The file connector truncates and fills only a file that its call has
  not counted as written.
- *Infra.* `RowOK` says what the row of a job owes at each place of `Execute`: past
  the policy it was allowed, past the gate approved, while a call is open the row
  waits for it. `HealthInv` is the part about health, for the hosting services: a call
  that changed something holds the name of a commit of its own with the manifest in it
  (`OwnCommit`), a row that polls knows that commit, a remediation answers with a commit
  no older (`From`), and a status is about an older commit than the one it comes with
  (`LedgerOK`); so a status that `Matches` is about the run's commit or one on top of it
  (`SeenHealthy`). The branch only grows, so what was seen stays true.
- *Progress.* Two theorems say that nothing runs in circles, which leaves fairness
  alone to the liveness properties. A request of the DORA API goes through phases
  (`Phase`), within the inserts through its events (`EventsLeft`), and every change
  of it lowers the pair (`Nearer`); the one way back, `GetGroupSummary` calling
  `GetSummary`, counts as a phase of its own. A run of `Execute` goes through ten
  places, a failed poll and its one remediation among them, and leaves them for a
  next attempt or an end (`Ahead`, `Onward`); the attempt never passes
  `max_attempts`, or one (`AttemptsInv`). A crash or a panic is the one step that
  repeats an attempt.
- *Template.* `DocumentsAre` says what `BuildXRs` returns: one document for each part
  with a builder, because the k-th member of a finite set of places exists, once
  (`NthCounts`). Filling in the catalogue's defaults changes neither a capability's
  switch nor its numbers (`DefaultsKeep`), so that what `ValidateCapabilities` and
  `Validate` saw is what is built. For the guarantees there is one lemma per
  capability, from its `Validate` through its fragment to its builder. `ManifestInv`
  says that a rendered manifest is the engine's for this request.

### Assumptions

They are what the code or its environment guarantees, and TLC evaluates each on the
instance of a run. Beyond types, bounds, and values for "nothing" that differ from
the real ones (`NoneAssumption`, `NoWorkAssumption`):

- `GatesAssumption`: `steps.id` is a primary key, and a request names a step.
- `WriterAssumption`: an event has a job, and a job has one service.
- `ServiceAssumption`: approvers are finitely many, none is called "system", and the
  constructor's step is a step.
- `GitNames`, `MockNames`: Argo CD commits under a name of its own, and the file
  connector's made-up names are no names of commits.
- `HooksAssumption`: under one delivery id a provider sends one push, with no commit
  twice. The proof of `NoDoubleDelivery` needs it: the source event id of a pushed
  commit ends with its position (`github_normalizer.go:70`), so another push under
  the same delivery id, or a commit listed twice, makes a second row.
- `RequestsAssumption`: a request has the fields of `ProvisionParams` and a value of
  its Go type in each; numbers are any integers. `MaxCapacityAssumption` and
  `JobSetsAssumption` are types.
- `ReportedAssumption`: the metrics writer reports deployments, without a source event id.
- `SeedsAssumption`, `QueriesAssumption`: the tables start as requests leave them, and
  the queries are those the router serves.

### Only model-checked

- Liveness: `EventuallyTerminal`, `RunsSettle`, `WaitsEnd`, `RequestsEnd`,
  `AcceptedSettles`, `ProvisioningEnds`. Fairness is out of the prover's reach; of
  `RequestsEnd` and `ProvisioningEnds` the part that is not fairness is proved.
- The bodies of the summaries beyond the failure rate, which no property is about.

No module that a proof reaches declares a RECURSIVE operator. Proving also changed
the models in small ways: alternatives of a CASE that overlapped (TLA+ then leaves
the choice open, the code does not) became IF ... ELSE IF in the order of the code,
in `ApprovalService`, `DecisionApi`, `DoraStore`, `GitConnectors` and `InfraModule`;
`NormalizePush` and `BuildXRs` give their lists as functions of the position. The
proof of `GuaranteesReachResources` failed at first for a reason: the model took the
numbers of a request for naturals. Validation compares them with zero, so negative
ones pass; the model now has them, with the panic they can cause, and the property
says "some" where the code promises no more than a number that is not zero.

## 5. Not modelled, and why

- Text: params, payloads, justifications, error codes and log lines are reduced to
  what a branch of the code tells apart. The fingerprint of a request is its
  payload; hashing is assumed to be injective. Manifests are records, not YAML.
- Numbers: the back-off interval and the 60 s lease are "some time"; percentiles
  of lead times and recovery times are left out.
- The in-memory branch of `CreateJob` is one critical section and has no
  interleaving.
- `LeaseManager`, the `effect_*` functions and `external_effects` have no caller;
  the outbox dispatcher delivers nothing yet; `StepExecutor` is used by tests only.
- The scaffold module checks its parameters and logs; it calls no connector.
- Secrets: each operation is one call of the volta library under one mutex.
- The module cache of `dynamicModuleRegistry` is written without a lock; a data race
  on a Go map may abort the process, which is `Crash`, and has no other outcome
  worth a property.
- Tracing, metrics export, audit, configuration and the remaining connectors
  (webhook, AWS, Crossplane, policy) are I/O: their results appear as the choice
  between success and failure where they are called.
- Materialized views: the operators of `DoraStore` take the rows of the last refresh
  as an argument; the code never refreshes them, so the summaries of `DoraIngest`
  find them as the schema created them, empty.

### Met while modelling

Behaviour that no document contradicts, or that no run was spent on:

- A failed webhook takes a second pool connection while it holds one
  (`dora_handler.go:1108`), as does `GetGroupSummary`; only the request's context
  breaks the wait.
- `authorize` writes its 403 or 503 and returns nil, so the handler goes on
  (`dora_handler.go:695`).
- A second `Close` of the metrics writer returns nil at once, while the first waits and
  the workers still write (`metrics_sql_writer.go:303`).
- The creator of a job can approve its gates: nothing inserts `jobs.created_by`, and
  `EvaluateApproval` skips the check on self-approval for an empty owner
  (`job_handler.go:307`, `services.go:32`).
- An approver who changes their mind under another idempotency key is answered 500
  (`uq_approval_per_approver`, `schema.go:265`).
- The change failure rate may exceed 100%: it divides matches by a count of deployments
  that is older (`dora_handler.go:970`). `SummaryIsCurrent` says by how much.
- The file connector cannot update an existing file: reading it closes the root that the
  write goes through (`filegit.go:384`), and the call ends in `FILE_WRITE_FAILED`. It names
  every commit of one file of a branch alike (`filegit.go:304`), so a status left by an
  earlier commit passes for one of the run's own; `HealthIsOfThisRun` leaves it out.
- A decision repeated under one key with the other decision is answered 200 with
  the request's decision, while the stored one stays; a key reused for another job
  moves the stored row's `job_id` (`job_handler.go:580`).
- A branch that moves under a GitHub commit makes the call terminal and exhausts
  the job without a retry.
- The status file of an earlier commit fails the first poll at once; a missing one
  does too, except over the file connector. The poll's limit is fixed at 30 s.
- The final callback names the first commit also when the remediation's was the one
  found healthy; a skipped check is reported as "healthy".
- A job without `callback_url` panics in every attempt that fails (`module.go:696`).
- Two requests for one tenant, environment and catalogue item share one manifest
  file, whatever their names (`module.go:481`).
- Template: backup retention of a database is the request's number, 0 when unset,
  although the fragment works out 7, 14 or 35; a cluster asks for 2 nodes when its
  minimum is 3 or 5; block storage is always 100 GiB of gp3; HTTPS and WAF of a load
  balancer, policies of an identity, zones, counts and disks of machines do not reach
  the resource. Optional capabilities of a catalogue item are not told from unlisted
  ones.

- Validation of capabilities compares numbers with zero only: "must be >= 1"
  (`fragments/vpc.go:34`) refuses 0 and lets -1 pass. A negative number of private
  subnets, or a huge one, makes `RegionAZs` panic (`resolve/region.go:9`); nothing
  recovers it, so the process dies and the job is claimed again under the same
  attempt, for ever. A negative throughput of file storage is dropped by the builder.

## 6. Plan

Done: the execution core and its contract, intake, the approval service, decisions
over the database, DORA, the metrics writer, the edge, the git connectors and what
they promise, the infra module and the template engine. Every safety property that
a run checks is proved, so are both refinements, and of two liveness properties the
part that is not fairness.

Next:

1. The JWKS cache of `Edge`: a key that the issuer withdrew is accepted no longer
   than the refresh interval.
2. A common library of the lemmas about records and tables that several of the
   proof modules state for themselves.
