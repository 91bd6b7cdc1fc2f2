# A verification project for the release confidence platform

TLA+ models of the release confidence platform (a Python system on AWS Lambda,
DynamoDB, S3 and EventBridge Scheduler), the TLC configurations that check them
on small instances, and TLAPS proofs of what matters most for instances of any
size. `PROJECT.json` maps every definition to the lines it models and lists the
runs, mutants, findings, hazards and theorems; this file explains them.

Paths below are relative to the repository. The repository holds two copies of
several packages, `packages/` (used by the Lambda handlers in `apps/backend/`)
and `src/release_confidence_platform/` (used by the operator CLI); where they
differ the model names the copy its caller imports.

## 1. Inventory

### 1.1 The system

An *audit* checks a client's API during a window. An operator creates it, the
scheduler fires *occurrences* in the window, each occurrence runs the engine
once or more and leaves *evidence*; when the window ends a finalizer decides
whether the audit is complete; aggregation, reliability intelligence, reporting
and certification then derive results from the evidence. All of it is evidence
under custody: it is disposed of when its period ends, unless a legal hold says
otherwise.

There are no locks and no long-lived processes. Everything is a short Lambda
invocation or CLI command that reads items, computes, and writes them back, and
the only protection is the condition an individual write carries. The hard
behaviour is therefore nearly always the same: *what was read is stale when it
is acted on*, *the process dies between two writes*, or *the same event is
delivered twice*.

| Component | State it keeps | Operations | Interacts through | What makes it correct |
|---|---|---|---|---|
| Audit lifecycle (`packages/audit_lifecycle`) | `lifecycle_state`, `lifecycle_history` of the audit item | `transition`, conditional on the state that was read; force recreate | the audit item, shared by everyone below | only moves of the state machine; the history is a path to the stored state |
| Scheduled execution (`handlers/scheduled_execution_handler.py`, `packages/audit_scheduling`) | OCCURRENCE claims, `execution_counters` | claim, guards, SCHEDULED→RUNNING, run 1..n iterations, settle the claim, write counters | events from EventBridge; calls the orchestrator | an occurrence runs once however often it is delivered; a claim that says "completed" is true |
| Orchestrator (`apps/backend/orchestrator`) | RUN items, S3 evidence | start, run the scenarios, write evidence, terminal status, failure response | called by the scheduled handler or directly by an operator | a COMPLETED run has its evidence |
| Finalization (`handlers/audit_finalization_handler.py`, `audit_lifecycle/finalization_gate.py`) | `finalization`, AGGJOB items | FINALIZING, record the count, list runs and keys, integrity gate, COMPLETED or FAILED, trigger aggregation | events from EventBridge (delivered at least once) | decides exactly once, on evidence; aggregation is triggered exactly once |
| Scheduling and cancellation (`audit_scheduling/service.py`, `audit_lifecycle/cancellation.py`) | `schedules`, `cleanup_errors`; the schedules at EventBridge | two schedule and two cancel entry points, rollback, cleanup | operator CLI; provider API | a SCHEDULED audit has its schedules; a cancelled one leaves none behind silently |
| Audit creation (`core/audit_creation_service.py`) | the DRAFT item and configuration in S3 | create, force recreate | lifecycle | no half-created audit |
| Legal hold (`evidence_retention/`) | LegalHold item, LegalHoldEvent log, canary markers, `ttl_disposal_at`, `rcp-legal-hold` tags | place, release, resume, sweep, reconcile; governed writes conditioned on `hold_version` | every evidence writer reads it | ACTIVE and COMPLETE together mean nothing will be disposed of |
| Disposal (`evidence_retention/disposal_*`) | DisposalRecord items, recovery bucket, dead letters | record a TTL or lifecycle deletion, retry, park, redrive | DynamoDB stream, S3 events | every disposal recorded, once, and never changed; a redelivery is not an integrity failure |
| Aggregation (`aggregation/`) | job, identity, lineage pages, aggregates, completion marker | idempotent job, transactional put of the record set | invoked by the finalizer or an operator | one aggregate set per audit, over the counted runs; a retry never mixes two |
| Reliability intelligence, deterministic reporting, platform integrity certification | metadata items with a status, job items, artifacts in S3 | generate, regenerate, complete or fail; metrics, labels, scores, domains | each reads the previous phase's output | what is shown is a published artifact, derived from one that was shown; the numbers and labels of a report do not contradict each other or its results |
| Engine and API runner (`orchestrator/service.py`, `runner/`) | raw results | requests of a run, a repetition, a burst; attempts and retries of a request | the client's API | results are spread over the endpoints as configured |
| Evidence retrieval (`retrieval/`) | none | queries over the aggregation's items | reads what aggregation writes | shows a whole set or none |
| Operator CLI, configuration, payload generation, sanitization, mock target | none of their own, or local files | validation, formatting, HTTP | | functional correctness of each function |

`PROJECT.json` lists the same components with their sources and status.

### 1.2 What is hard here

The hazards, each at its line, are in `PROJECT.json` (the 40 that matter most;
section 7 has more that were met). They fall in five groups.

1. *Duplicate and late delivery.* Occurrences and the finalization event can be
   delivered again, at any time, also after a crash.
2. *Snapshots.* Counters are written as a whole from the item read at the
   start; the gate judges a listing of runs, a listing of keys and counters
   taken at three moments; cancellation iterates over an attribute that a
   concurrent command overwrites; the hold's sweep status is recorded by
   reading the whole item and putting it back.
3. *Several stores.* Evidence in S3 and status in DynamoDB are two writes;
   schedules live at EventBridge and their list in DynamoDB; a hold is an item,
   a time-to-live attribute and an object tag.
4. *Lost answers.* A call that raises may have been applied, and the error
   handler then undoes or repeats what succeeded.
5. *Progress.* A race's loser must leave nothing half done, and a crash must
   not leave an audit that no later event moves.

## 2. Plan

Modules, in the order of importance; those marked ✓ are done.

| | Module | Composes | Question |
|---|---|---|---|
| ✓ | `AuditLifecycle` | | the abstract specification: what an audit item may do |
| ✓ | `FinalizationGate` | | the integrity gate as a predicate |
| ✓ | `AuditExecution` | both | workers, finalizers and operators on one audit, call by call |
| ✓ | `AuditScheduling` | `AuditLifecycle` | schedule and cancel commands against the provider |
| ✓ | `SchedulePlan` | | what a configuration makes the builders plan, and whether the handlers will accept it |
| ✓ | `LegalHold` | | holds, sweeps and governed writes |
| ✓ | `Aggregation`, `EvidenceRetrieval` | the second extends the first | the job's protocol, the pages and the transaction of the set; what a retrieval sees of it |
| ✓ | `EvidenceChain`, `EvidencePipeline` | the second implements the first | intelligence, reporting and certification commands on one audit |
| ✓ | `ReliabilityScoring`, `IntegrityDomains`, `AuditReport` | each extends the one before | what is computed from raw results, up to the certificate |
| ✓ | `Disposal` | | the recorder, its write-once records and the redrive |
| | `OrchestratorRun` | | one run in detail: request-supplied run ids, the duplicate check before the put, the failure response (`orchestrator/service.py:297-309, 615-687`) |
| | `AuditCreation` | `AuditLifecycle` | configuration upload and item creation, and their partial states |

Each module `M` with theorems has them in `M_proofs`; those of `EvidenceRetrieval`
are in `Aggregation_proofs`, those of `SchedulePlan` in `AuditScheduling_proofs`,
and those of `ReliabilityScoring` and `IntegrityDomains` in `AuditReport_proofs`.
Every invariant, action property and refinement that a passing run checks has a
theorem; only the liveness properties have none.

## 3. The modules and the code

Every remote call is one step. An invocation keeps what it has read in a record
of its own (`worker[w].state`, `finalizer[f].listing`, `command[c].seen`), so
that it acts on a snapshot the others may have overtaken. The names of
variables, fields, statuses and most operators are those of the source. A
definition whose name has a suffix (`ClaimOccurrence_Unconditional`) is a
mutant: a plausible bug in the definition that follows it, used only to show
that a property can fail.

*Faults.* A process can stop before any of its steps (`WorkerCrash`,
`FinalizerCrash`, `CommandCrash`, `HoldCrash`, `AggFault`, `Kill`, `CallFails`): a Lambda timeout, a kill, or an
exception nothing catches. A call that the code guards with a `try` can also
report failure, with or without having been applied. `MaxFaults` bounds the
number of faults in a behaviour (`MaxAggFaults`, `MaxPipelineFaults`,
`MaxDisposalFaults` in the modules of those names).

### AuditLifecycle: the abstract specification

`lifecycle_state` and `lifecycle_history`. `Advance` appends a transition of
`TRANSITIONS` (`constants.py`); `Recreate` is `update_for_force_recreate`, which
puts a DRAFT or FAILED audit back to DRAFT and appends that to the history.
`TRANSITIONS` has no cycle, so only recreation can make the history grow for
ever: it needs one shorter than the bound `MaxHistory`. `Transition(from, to)` is what
`AuditLifecycleService.transition` does for a caller that read `from`;
`LifecycleConflict` and `InvalidTransition` are the two ways it refuses.
`LifecycleSpec` is what `AuditExecution` and `AuditScheduling` are shown to
implement; both EXTEND the module, so that the refinement mapping is the
identity on the two variables.

### FinalizationGate

`finalization_integrity_gate` as a predicate on what its caller passes: a
listing of RUN records, the run ids found among the S3 keys, the execution count
and the counters. One operator per check, in the order of the code.

### AuditExecution

One audit in its execution window. `worker` processes are invocations of the
scheduled handler (`Deliver` … `WriteCounters`), or of the orchestrator alone
when an operator starts it (`StartManually`); `finalizer` processes are
deliveries of the finalization event (`FinalizerRead` … `RecordInvocation`).
`Rejected` is the set of occurrences the window, token and cap safeguards
refuse. `ScheduleAudit`, `CancelAudit` and `ForceRecreate` are the operators'
moves as this window sees them; `AuditScheduling` has them in detail.

| Code | Actions |
|---|---|
| `ScheduledExecutionHandler.handle` | `Deliver`, `ClaimOccurrence`, `Admit`, `RecordBlocked`, `SettleClaim`, `WriteCounters` |
| `CoreEngineOrchestrator.run` and `_failure_response`, `RepeatedExecutionCoordinator.run` | `StartRun`, `WriteEvidence`, `CompleteRun`, `FailRun`, `AfterRun` |
| `AuditFinalizationHandler.handle` | `FinalizerRead`, `BeginFinalizing`, `Reread`, `FailUnexpected`, `RecordFinalization`, `ListRuns`, `ListKeys`, `CompleteAudit`, `FailAudit` |
| `_trigger_aggregation_after_finalization` | `PutIntent`, `RequestInvocation`, `InvokeAggregation`, `RecordInvocation` |

### AuditScheduling

The operator's commands. `CommandKind` says which of the four entry points each
command calls: `schedule_from_persisted_audit`, `schedule_audit`,
`cancel_for_operator`, `cancel`. Schedule names are computed from the audit's
ids, so the schedules are the numbers `1 .. ScheduleCount`, the same for every
command; `provider` is EventBridge, `schedules` and `cleanup_errors` are
attributes of the item. `CreateSchedule`, `PersistSchedules` and
`CommitSchedule` are the good path, `CleanUp`, `AfterCleanUp`,
`PersistRollback`, `RereadState`, `FailSchedule` and `RecordCleanupErrors` the
rollback and the cleanup. `RemoveSchedule` is `delete_schedule` and, when that
fails, `disable_schedule`. `FireExecution` and `FireFinalization` are the
provider's.

### LegalHold

The hold of one audit. A `command` is one `rcp retention hold place` or
`release`, from the read of the LegalHold item (`BeginPlace`, `BeginRelease`:
new transition, resumption, no-op or refusal) through the event log, the item,
the canary marker and the sweep to the final status. `ReadHold` and
`OverwriteHold` are `_set_sweep_status` and `_denormalize_marker_onto_legal_hold`,
which read the item and put back all of it. `writer[r]` is
`HoldCoordinatedTransactionRunner.run` for the record `r`, over and over (records
are created, and by later phases regenerated); `uploader[o]` is
`write_raw_results_once`. `s3time` is S3's clock, a number that moves when a
marker is put and when a sweep lists for reconciliation, which is all that the
comparison with the marker's LastModified can tell apart.

### SchedulePlan

What happens between an audit's configuration and `create_schedule`, as
operators: `validate_audit_window`, `validate_schedule_config` and the
`build_*` methods of `ScheduleBuilder`, down to the bounds of each comparison,
and `ensure_execution_allowed`, which judges the events later by the audit item
(`audit_item`: what `create` or `schedule_audit` stored). Times are minutes, a
time zone is its offset, a name is its parts and whether its length makes it a
hash. An input is a configuration, the time at which the audit is created, how
long after that it is scheduled, and which command does it. The properties
hold every plan a command of `AuditScheduling` may be about to create (`AtCreate`)
against its own names and occurrences and against the handler.

### Aggregation and EvidenceRetrieval

`AggregationOrchestrator.run`, one step per call to DynamoDB or S3, for any
number of deliveries of any number of jobs. `JobOf` says which job a delivery
names, `Intents` which jobs the finalizer has put before it invoked the Lambda.
`invocation[i]` holds what the invocation has read; `items` are the records of
the aggregate set, each abstracted to its key and the raw results it covers:
that is what conditional puts and the comparison of existing pages can tell
apart. `CompleteRun` and `FinalizeAudit` are the audit's own progress around it,
`RecordInvocationFailed` the finalizer that was told that its invoke failed.
`EvidenceRetrieval` has the queries of `RetrievalService` as expressions over
`items`, the filters included.

### EvidencePipeline and the chain it implements

`EvidenceChain` is the promise to whoever reads results: artifacts are published
once and never change; an artifact is derived only from one that was exposed in
the phase before; a phase shows nothing but its published artifacts; a report or
a certificate once shown is replaced, never withdrawn. `EvidencePipeline` is the
three engines, from the gate (`Begin`) through metadata, job, artifact and
publication to the final status, with each engine's own failure handling. The
refinement maps `published` to the artifacts in S3 with the phase and source of
the command that wrote them, `visible` to what the three retrieve commands
answer in this state, and `exposed` to the history variable `shown`.

### ReliabilityScoring, IntegrityDomains, AuditReport

The calculations. `ReliabilityScoring` has the aggregates (`agg_v1`) and the
metrics, labels and scores (`intel_v1`) over the bag of an endpoint's raw
results, in thousandths with the code's rounding. `IntegrityDomains` assembles
the fields of the artifact and the report that certification reads, and has its
eight domains as the sets of checks that fail. `AuditReport` is a small machine
that produces results as the engine does (`ExecuteIterations` for
baseline and repeated runs with their caps, `ExecuteBurst` with its round robin
over the endpoints, `execute` for the attempts and retries of a request), so that
the calculations are checked on what an audit can contain.

### Disposal

The recorder Lambda and what feeds it. `stream` is the shard: a batch is handed
over, retried `MaximumRetryAttempts` times and then parked in `recovery`;
`delivery` are the copies EventBridge may make of an S3 event, retried and then
dead-lettered. `Event[r]` is the set of the provenance checks that the event of
the removal `r` passes. `Recorder` is the loop over a batch: verdict, conditional
put, and on a conflict the read and comparison that tell a duplicate from a
collision. `Valid` is what the validators of `DisposalRecord` ask of a record: when
an event, or a clock that is behind it, cannot satisfy them, `BuildFails` raises,
at every attempt or at this one. An exception fails the whole batch, which is
bisected: `limit` is the size of the next one. `RedriveStart`, `RedriveRejected` and `RedriveReturn` are the
operator's redrive command with its exit codes.

## 4. The runs

"States" are distinct states; every passing run ends within three
minutes on two cores.

| Run | Instance | States | Shows |
|---|---|---|---|
| `occurrences` | 2 occurrences, one with 2 iterations; 2 workers; 1 finalizer; 1 fault | 957 k | `OneRunPerOccurrence`, `CompletedRunHasEvidence`, `CompletedClaimIsBacked`, `CountsAreBacked`, `HistoryIsPath`, `TypeOK` |
| `finalizers` | 1 occurrence, 1 worker, 2 finalizers, 1 fault, history of 5 | 643 k | `CompletedAuditHasEvidence`, `AtMostOneAggregation`, refinement of `LifecycleSpec` |
| `execution_liveness` | 2 occurrences (one refused), 1 worker, 2 finalizers, 1 fault | 104 k | `FinalizationDecides`, `ClaimIsSettled`, `AggregationFollowsCompletion` |
| `scheduling` | 1 schedule and both cancel commands, 2 faults | 1.1 M | `NoSilentLeak`, `SchedulingTypeOK` |
| `schedule_twice` | both schedule commands and a cancellation, no fault; 2,400 configurations | 296 k | `AllOrNothing`; of what is about to be created `NamesIdentify`, `OccurrencesIdentify`, `PlanIsExecutable` |
| `legal_hold` | 2 places and a release, one after the other; a record, an object, 1 fault | 1.1 M | `RecordsMatchHold`, `ObjectsMatchHold`, `VersionCountsTransitions`, `HoldTypeOK` |
| `aggregation` | 2 runs with 3 results, one of an unusable endpoint; 2 deliveries of the finalizer's event and one of an operator's; pages of 2; 1 fault | 409 k | `AggregateSetIsSound`, `SettledJobHasSet`, `RetrievalShowsWholeSet`, `EventProducesSet`, `AggTypeOK` |
| `pipeline` | 2 intelligence, 2 report and 1 certification command, 1 fault | 346 k | refinement of `EvidenceChain` (`ImplementsChain`), `CertificateIsOfItsReport`, `GenerationEnds`, `PipelineTypeOK` |
| `report` | 2 endpoints, 6 kinds of result, 2 runs of up to 100 iterations or bursts of 250 | 26 k | `PercentilesAreRanks`, `LabelsAgree`, `ScoreFollowsOutcome`, `CertifiedIffEven` |
| `disposal` | 5 kinds of stream removal, 2 of S3 removal delivered twice; an operator, 2 faults | 54 k | `NothingLost`, `RedeliveryIsDuplicate`, `RedriveSettles`, `RecordsNeverChange`, `RemovalIsSettled` |
| `completion_invariant`, `every_disposal_is_recorded` | | | the disagreements of section 7 |

*Why the bounds suffice.* Two workers are a duplicate delivery, or two
occurrences whose counter writes race; two finalizers are an overlapping or a
repeated delivery. A third process would act on a snapshot like the second's:
nothing in these handlers depends on how many others there are, and the theorems
of section 6 remove the bound for what they cover. One fault in each run puts a
crash or a lost answer at every step of every process; two, in `scheduling`, let
a rollback's own cleanup fail. Two iterations distinguish first, last and middle
failure. `MaxHistory` bounds only force recreation: with 1 the audit goes through
a whole lifecycle, and only a fresh DRAFT is recreated; `finalizers` raises it to
5, so that an audit that failed at its finalization is recreated, scheduled and
finalized again over the records of its first life. In `legal_hold` three commands and
three versions are an episode and the beginning of the next one; with one fault
any of the commands may be the resumption of the one before. In `aggregation`
three results on pages of two give a full and a partial page, and a page that
changes when the second run completes late; two deliveries of one job and one of
another are the two ways in which invocations can meet. In `pipeline` two
commands of a phase overlap or follow each other while the next phase reads, and
one certification sees both reports. In `report` the batches meet the edges of
the labels (5 and 10 results), of the percentiles (20 and 100), of the caps and
of odd bursts. In `disposal`, `Scenarios` are the sets of removals of one
behaviour: the stream alone (a good event, an unrecordable one and a foreign
one, so that batches mix dispositions; a good one before one without an eventID,
whose record cannot be built; an undated one), and the stream with a good or an
unparsable object (deliveries of two objects share no state). `Times` has a clock
that is behind the events, on time, and ahead. The
configurations of `SchedulePlan` combine a given and an open window, all ways a
name can need a hash, windows that touch the end, and caps of both environments.
Deadlock is not
checked: the events of an instance are finite and the system may stop when they
are used up. Symmetry is used on workers and on finalizers, and only in runs
without liveness.

*Fairness.* Only what Lambda and Python give: an invocation that has begun goes
on to its next step (weak fairness of `WorkerStep` and `FinalizerStep`, of
`Invocation` in `AggSpec`, of `Continue` in `PipelineSpec`), and the
finalization event is delivered (`FinalizerRead`), which EventBridge Scheduler
does at least once. `LambdaFairness` in `Disposal` adds what an event source
mapping and an asynchronous queue do: the next batch or retry is started. Nothing
is assumed of the delivery of occurrences or of the operators; only
`every_disposal_is_recorded`, which asks for a counterexample that no diligence
of an operator avoids, adds fairness of the redrive (`RedriveSpec`). A crash is a
step like any other, hence the exception for crashed invocations in each of the
liveness properties.

*Mutants.* Each property of a passing run is violated when one definition is
replaced by its mutant, under the run's own configuration.

## 5. What the properties say

- **Execution.** However often an occurrence is delivered, all the RUN records
  it has belong to one delivery. A claim that reads "completed" has every run it
  asked for, with evidence. The counters can lose updates, but never claim more
  than the COMPLETED records, so an audit is never finalized on work that was
  not done.
- **Finalization.** A COMPLETED audit has at least one completed run with
  evidence, although the decision is made on three separate reads. Overlapping
  deliveries trigger one aggregation. Once a finalizer has read the audit it
  becomes terminal, unless a handler crashes.
- **Scheduling.** A schedule that survives a cancelled audit, or a failed
  scheduling, is recorded as a cleanup error, or a command crashed, or its own
  creation raised: nobody is left with a live schedule and no sign of it. Without
  lost answers a SCHEDULED audit has all its schedules, whatever races.
- **Legal hold.** If commands do not overlap, COMPLETE is true of every record,
  those written while the sweep ran included, and of every object put before the
  sweep listed for reconciliation, through crashes and resumption. `hold_version`
  counts the transitions, which is what the conditioned writes rely on.
- **Plans.** The schedules of a plan have distinct names and occurrences, except
  for the names of section 7; all planned work is over when the finalization
  fires; an occurrence the handler refuses was either announced (the token) or
  is one of the two cases of section 7.
- **Aggregation.** When the completion marker exists there is one set, over as
  many completed runs as the audit counts, with all its records and pages and
  no others, whichever invocations wrote them; a job that says COMPLETED or
  DUPLICATE_COMPLETED names a set that exists. A retrieval shows that set or
  nothing. Without faults the finalizer's event produces it.
- **Pipeline.** Overlapping, failing and killed commands keep the promises of
  `EvidenceChain`; a certificate is about the report it was derived from, even
  when that report has been replaced meanwhile; a generation ends unless a call
  fails or a command is killed.
- **Reports.** Percentiles are nearest-rank percentiles of the raw results;
  labels of different modules do not contradict each other; the score follows
  the outcome; an audit is certified exactly when its results are spread evenly
  enough over the endpoints.
- **Disposal.** A governed removal that is no longer waiting is recorded or
  parked; a redelivery or a redrive of what was recorded is a duplicate, never a
  collision; records do not change; a redrive that exits with 0 has recorded its
  batch; with Lambda's retries every removal is recorded or parked in the end.

## 6. The proofs

Each theorem holds for any number of the processes of its module (occurrences,
workers, finalizers, commands, deliveries, invocations, operators), of schedules,
runs, results, records, objects and removals, and for any bound on faults,
retries, attempts and history.

| Module | Theorems | Along which argument |
|---|---|---|
| `AuditLifecycle_proofs` | `LifecycleTypeCorrect`, `HistoryPath` | `HistoryIsPath` is inductive with the type invariant: appending an entry that starts where the history ends extends the path |
| `AuditExecution_proofs` | `ExecutionImplementsLifecycle`, `ExecutionHistoryIsPath`, `TypeCorrect`, `AggregationIsUnique` | every action moves the two lifecycle variables as `Advance` or `Recreate` does, or not at all (`NextMovesLifecycle`), so `HistoryPath` carries over; `TypeOK` is inductive; `AggregationInv` |
| the same | `OccurrenceRunsOnce`, `CompletedRunsHaveEvidence`, `CompletedAuditsHaveEvidence`, `CompletedClaimsAreBacked`, `CountsAreAlwaysBacked` | `ClaimInv`, `EvidenceInv`, `BackedInv`, `BackedClaimInv`, `CountInv` with `FiniteInv` |
| `AuditScheduling_proofs` | `SchedulingImplementsLifecycle`, `SchedulingTypeCorrect`, `SchedulingIsAllOrNothing`, `NoLeakIsSilent` | as above; `OwnershipInv`; `LeakInv` |
| the same | `NoNameClashes`, `NamesAlwaysIdentify`, `NoOccurrenceClashes`, `OccurrencesAlwaysIdentify`, `AllExecutable`, `PlanIsAlwaysExecutable` | of every accepted configuration: the calculations, below |
| `Aggregation_proofs` | `AggregationInvariant`, `AggregationTypeCorrect`, `AggregateSetsAreSound`, `SettledJobsHaveSets`, `RetrievalsShowWholeSets` | `AggInv`; that a whole set passes the cardinality checks of `aggregate_set_exists` (`WholeSetExists`) |
| `EvidencePipeline_proofs` | `PipelineImplementsChain`, `CertificatesAreOfTheirReports`, `PipelineTypeCorrect` | `ChainInv`, and one lemma per command step for the step of `EvidenceChain` it is; `CountInv` |
| `LegalHold_proofs` | `HoldTypeCorrect`, `CompleteSweepHoldsForRecords`, `CompleteSweepHoldsForObjects`, `VersionsCountTransitions` | `HoldInv` |
| `AuditReport_proofs` | `EvidenceIsCounted`, `PercentilesAreAlwaysRanks`, `LabelsAlwaysAgree`, `ScoreAlwaysFollowsOutcome`, `CertifiedAlwaysIffEven` | `EvidenceType` is inductive; what is computed from any evidence of that type: the calculations, below |
| `Disposal_proofs` | `DisposalInvariant`, `NoRemovalIsLost`, `RedeliveryIsRecognised`, `RedriveLeavesNothing`, `DisposalRecordsAreFinal` | `DisposalInv` |

None of the safety properties is inductive as stated, because each is about the
stores and its truth depends on where the processes are:

- `AggregationInv`: a finalizer that is past `CompleteAudit` is the one that
  moved the audit to COMPLETED; there is one such finalizer, because COMPLETED
  has no way out and the transition is conditional, and only it has a job.
- `ClaimInv`: a worker past its claim holds the claim of its occurrence, no two
  workers hold the same, and only such a worker has RUN records. This needs the
  condition of the claim's put and that no action ever deletes a claim.
- `EvidenceInv`: a worker about to write COMPLETED has written its object, and
  no action deletes an object.
- `BackedInv`: every positive count, in the audit item (`total_completed`,
  `execution_count`) or in the snapshot of a worker or finalizer, stands on a
  *confirmed* run, one whose worker was told that COMPLETED was written. The
  distinction is needed because a run that says COMPLETED can still become
  FAILED when the answer to the update was lost; a confirmed one cannot. A
  finalizer past `RecordFinalization` has a positive count.
- `BackedClaimInv`: a worker that has seen no run fail has every earlier run
  confirmed, and one that settles has them all. Only such a worker writes
  "completed" into the claim, and what it stands on stays when the worker crashes
  or the answer to the write is lost.
- `CountInv` of `AuditExecution_proofs`: a worker overwrites the counters with its
  snapshot plus its own completions, so the confirmed runs are counted in two
  parts. What the worker has counted is at most its own confirmed runs; what its
  snapshot says is at most those of the others, because the worker had none when
  it read the audit. Other workers only make the second part grow, and the two
  parts are disjoint, so the sum it writes is backed although it may undo what
  another has written. `FiniteInv` says that finitely many runs are COMPLETED at
  any time, so the theorem needs no bound on the number of workers.
- `OwnershipInv` (`PointsOK`, `OwnedExist`, `OwnersApart`, `ScheduledHasOwner`):
  unless the audit is cancelled, the schedules a command owns (those it created
  and has not rolled back) exist or have fired, and two commands own no schedule
  together that has not fired, because creating an existing name is refused; a
  SCHEDULED audit has a command that finished and owns all of them. It is proved under `NoFaultsNorEarlyCleanup` (no fault, no use of the
  entry point `cancel`, which cleans up before its transition): section 7 says
  how a lost answer breaks it.
- `LeakInv`: it follows the schedules that were created and would still fire.
  Everyone who has to remove them has each of them still before him or among his
  errors (`Swept`), and the errors are recorded before he ends, so that whoever
  overwrites `cleanup_errors` writes all of them (`Recorded`). A cancellation that
  read an empty list read an audit that was not scheduled yet, and its conditional
  transition is refused if it is by then (`ItemSound`). A crash ends all this,
  which is why the property excepts it, and `LeakInv` speaks of behaviours
  without. The theorem has two hypotheses, and without either TLC finds a leak
  even without faults: `OneScheduler`, as a second schedule command overwrites the
  list (section 7), and `OnlyFreshRecreated`, as a recreation after finalization
  makes the audit a DRAFT that a cancellation with an old, empty list may cancel.
  Both hold in the run `scheduling`.

- `AggInv`: `AggregateSetIsSound` speaks of the time when the marker is there,
  and is kept because of what every invocation holds before that. There is one
  set of runs that everything written or about to be written covers
  (`EvidenceSound`). It exists because runs complete and stay completed, so that
  of two listings one is a part of the other (`ListingSound`), because the
  integrity check lets only listings pass that have as many runs as the audit
  counts, and because an audit is finalized once (`CountSound`): two comparable
  finite sets of one size are one set. Hence a page that exists already is the
  same page, and when the transaction finds its keys free, all pages are there
  and nothing else (`Written`). `IdSound` says that the audit has one id, whoever
  has read it when; `SettledSound` carries the set from the step that saw it to
  the step that settles the job.
- `ChainInv`: `CommandSound` ties the program point of a command to its source and
  its artifact (no artifact before the write, the source's afterwards),
  `MetaSound` says that a reference in the metadata is to an artifact that was
  shown, `CertSound` that the certificate's document was derived from the report
  it names. The history variable `shown` is what makes the refinement of
  `EvidenceChain` a mapping of states.
- `CountInv` of `EvidencePipeline_proofs`: the generation count a command writes is one more than the count it
  read when it started, so it is bounded by the number of commands that have a
  job item. This needs the set of commands to be finite.
- `HoldInv`: a running command is about to make the next transition or works on
  the present one, whose sweep is then not complete (`TransitionInv`); what its
  sweep has passed is as the hold asks, and for objects only those older than
  the marker, or than the reconciliation's listing (`SweepInv`); a governed
  write that has read the present `hold_version` has read the present status
  (`WriterInv`), so that the condition on `hold_version` in its transaction is
  enough. All of it but the types needs that commands do not overlap: with an
  overlap `OverwriteHold` puts back an older item, the disagreement of section 7.
- `DisposalInv`: an invocation is about the part of the stream that the
  checkpoint has not passed, or about its delivery (`BatchSound`); what it has
  passed, it has recorded or will report, or it was none of the recorder's
  business (`Passed`); what it compares has a record (`Verifying`). The handler
  reports a failed stream record by its SequenceNumber and cannot report one
  that has none; hence the hypothesis of `NoRemovalIsLost`. DynamoDB gives every
  stream record one, and `NumberedNotLost`, the form that is inductive, says it
  for each removal whose record has one, without the hypothesis.

*The calculations.* A plan and a report are functions of a configuration and of
raw results; their theorems hold for every configuration of the types of
`AuditConfig`, accepted at any time, and for any number of endpoints with any
numbers of results of any durations. Sums, ranks and orders are defined by
recursion or by choice. A sum over a finite set (`Total`) gets its properties not
from an induction theorem but from a minimal subset for which one of them fails
(`MinimalSet`); that the sum of sums may be exchanged (`TotalExchange`) and its
terms reordered (`TotalReindex`) follows in this way.

- *Names and occurrences.* A plan is a concatenation of four parts, ordered
  within. Two of its definitions have types, or indices, or times that differ, and
  the occurrence id holds all three. A name holds the first part of them only; it
  is unique because a name that fits has no suffix and one that is hashed has one,
  and because a baseline name gets the time of its occurrence, in its text if that
  fits and in its hash if it does not. That a hash is what it hashes is an
  assumption of the model.
- *Executable plans.* The bounds that validation, the builders and the handler
  each compare with are related: what is accepted is over when the window ends,
  and the cap the handler holds a burst against is the one that it was validated
  with. That leaves the window and the token, and there the cases of `Foreseen`.
- *Percentiles.* The n-th of the sorted durations is the least with n or more at
  or below it (`RankedProperties`). The rank of a percentile, rounded up and kept
  above zero, is what the definition of a percentile asks (`CeilingRankBounds`,
  `PercentileOfRank`). The mean is between minimum and maximum because rounding is
  monotone and leaves whole milliseconds alone (`MeanBetween`).
- *Labels.* Each implication is one between inequalities over products of counts:
  a rate that rounds up to 95 per cent still bounds the variance, a fifth of
  timeouts leaves less than 95 per cent, and if the maximum exceeds three times
  the 99th percentile it exceeds twice the 95th, which is no greater.
- *Scores.* The four components of an endpoint are bounded by what happened to it
  (`ScoreByOutcome`), the composite and its mean over the endpoints by the same
  numbers (`CompositeBounds`, `MeanBounds`), rounding included: at most 450 when
  nothing passed, at least 825 when enough passed and nothing else, at most 750
  with fewer than five results. The thresholds are 500 and 800.
- *Certification.* One lemma per domain (`RunnerHealth` ... `ReportIntegrity`)
  says when it finds nothing. All but one depend only on there being results,
  because the report and what it is compared with come from the same sums
  (`AllResultsTotal`, `ResultsOfSections`). SI-2 compares the mean number of
  results, rounded down and up, with that of each endpoint; that this is the same
  as no two differing by more than one is `DensityIsEvenness`.

The theorems with a hypothesis of their own are `SchedulingIsAllOrNothing`
(`NoFaultsNorEarlyCleanup`), `NoLeakIsSilent` (above), those of `LegalHold` but the types (`~Overlapping`),
`PipelineTypeCorrect` (finitely many commands) and `NoRemovalIsLost`; the
instances that TLC checks satisfy them. Otherwise the assumptions on the
constants are the ASSUMEs of the modules: they say that the constants have their
types, that counts are positive and that model values differ. `PlanAssumption`
types the configurations, whose intervals, durations and ends may still be
nonsense: validation is part of the model. `ConfigAssumption` says that an audit
has an endpoint, that endpoint ids differ and are ordered (they are numbers in
the model, for the order of their strings) and that a payload is sent at least
once; `OutcomesAssumption`, that a result is one the runner can return and that
finitely many different ones occur. Two assumptions exclude
coincidences of names: in `Aggregation` that `"audit"`, the tag of the audit's own
scope, is not an endpoint id, and in `Disposal` that the shard, the deliveries and
the operators are different processes and that `Nothing` is no record.

*Only model-checked.* The liveness properties (`FinalizationDecides`,
`ClaimIsSettled`, `AggregationFollowsCompletion`, `EventProducesSet`,
`GenerationEnds`, `RemovalIsSettled`): they rest on fairness, and the prover has
no ENABLED. The refinements are proved for what the abstract specifications say of
steps; neither has a fairness condition. `FinalizationGate` has no theorem of its
own: what the proofs need of it is in `AuditExecution_proofs`.

## 7. Disagreements between the code and its documents

Two are runs that TLC ends with a counterexample; `PROJECT.json` quotes the
lines.

- `completion_invariant`: an execution that read the audit before finalization
  began can start its run between the gate's listing and the COMPLETED
  transition, which is conditioned on the state only.
- `every_disposal_is_recorded`: the aggregation writes endpoint and failure
  classification items without `created_at`; the recorder calls their removal
  malformed, so it is retried, parked and redriven and never recorded.

The models show more, which no run is spent on; properties are stated so that
they except exactly these cases.

- *Scheduling answer lost* (`audit_scheduling/service.py:96-116`): when the answer to the
  SCHEDULED transition is lost, the rollback deletes all schedules, the move to
  FAILED expects DRAFT and is refused, and the audit stays SCHEDULED. The
  technical design (`phase_3_audit_scheduling_lifecycle_technical_design.md:53`)
  calls scheduling all-or-fail.
- *Schedules attribute overwritten* (`service.py:109`): a schedule command that
  loses the race for the names overwrites the winner's `schedules` with its own
  empty list, and a cancellation then removes nothing (same document, line 51).
- *Window resolved twice* (`service.py:74`, `audit_creation_service.py:158`): a
  configuration without `start_time`, which is what the generator writes, gets
  its window from the clock at creation and again at scheduling; baseline
  occurrences after the end of the first are planned and then refused
  ("Occurrences must be inside the audit window", same document, line 127).
- *Names of two windows* (`builders.py:82`): two burst windows, or two repeated
  schedules, of one scenario share a name unless it is long enough to be hashed;
  the second `create_schedule` fails and takes the audit to FAILED.
- *Repeated schedule before the window* (`validators.py:44-52`): only the end of
  a repeated schedule is held against the window; one before its start is
  created, and refused when it fires.
- *FINALIZING does not recover* (`audit_finalization_handler.py:234`): a crash
  between the FINALIZING transition and `record_finalization` leaves an audit
  that later deliveries return from.
- *A FAILED run blocks* (`finalization_gate.py:248`): check 6 compares the
  completed counter with COMPLETED and FAILED records, although the comment at
  176 says FAILED runs must not block.
- *Crash after the claim* (`scheduled_execution_handler.py:99`): every redelivery
  is a duplicate; the occurrence never runs.
- *Hold undone* (`retention_service.py:486`): a release that takes effect between
  the read and the write with which a place records COMPLETE is undone; the audit
  is ACTIVE and COMPLETE and has a record with `ttl_disposal_at`. A release killed
  between `write_hold_event` and `upsert_hold` (`hold_transitions.py:259`) makes
  the next one compute the same hold id; an upload that read the hold before a
  transition and ends after the reconciliation keeps its old tag
  (`s3_client.py:215`).
- *Two generations at once* (`reliability_intelligence/engine.py:178`): the
  status is read and written without a condition, so two commands may both
  generate; the artifacts are kept apart by their job ids. A command killed in
  progress blocks the phase for every later one (line 182), and a certifier may
  overwrite another's certificate (`audit_platform_integrity/engine.py:271`).
- *Observation coverage* (`domains.py:604`): the endpoints it verifies are those
  of the report, and an endpoint without results has no section; the audit is
  certified although a configured endpoint was never reached.
- *Refused records* (`disposal_recorder.py:729`): the validators of `DisposalRecord`
  raise where a malformed event has a disposition. An event that can never satisfy
  them fails its batch at every attempt, is parked, and ends a redrive at its first
  such record, before those behind it.
- *Unknown events* (`evidence_disposal_recorder_handler.py:141`): an event whose
  schema version or envelope the recorder does not know is logged and
  acknowledged without a record.
- *FAILED over a complete set* (`aggregation/orchestrator.py:311`): when the answer
  to the commit, or the update that records COMPLETED, is lost, the job says
  FAILED although the set is complete. Later phases read the marker.
- *Zero durations* (`runner/api_runner.py:103`, `stability.py:177`): a request that
  takes less than a millisecond has the duration 0. When the 95th percentile is 0 the
  latency cannot be degraded by its maximum, while the burst analysis, which
  compares with the 99th, may still suspect a spike. `LabelsAgree` excepts it; the
  design says to skip the comparison (`phase_5_reliability_intelligence_technical_design.md:709`).
- *Listing* (`retrieval/filters.py:53`): failure classifications are written
  without `audit_id` and are filtered from the listing that counts them.

## 8. Limits

- Reads are strongly consistent. DynamoDB's default is not, and the code rarely
  asks for it; since every read is a step of its own and is acted on arbitrarily
  later, one stale read is covered, a read that goes back in time after a later
  one is not.
- A listing is one step. Pages read at different times are not modelled.
- The SDK's own retries are not modelled; a failed call is what they give up on.
- S3 and DynamoDB are configured. The branches for missing clients, and
  validation that rejects a command before its first write, do nothing to the
  state and are left out, as are dry runs.
- Run ids are generated; a request that brings its own is planned
  (`OrchestratorRun`).
- The job's invocation status and its acceptance are one field, `ACCEPTED`.
- `LegalHold`: TTL's deletions themselves, delete markers, the hold count, the
  times and actors, and the status query are left out. Records stand for all
  governed writes; those of the later phases use the same transaction.
- `SchedulePlan`: identifiers are valid and scenarios known; a zone has one
  offset during an audit; seconds and what `at()` drops of them are left out. The
  length limit of 256 on occurrence ids, which an index can exceed when the
  identifiers are almost as long as they may be, is not modelled.
- `Aggregation` and `EvidencePipeline`: the records of a set, and an artifact, are
  what they are derived from; their contents are `AuditReport`'s subject. Hashes
  are injective. `EvidencePipeline` has one audit.
- `AuditReport`: all results of one endpoint in one run go the same way; the
  threads of a burst are one step; templates, bodies and assertions on them are
  an outcome.
- `EvidenceRetrieval`: timelines, logs and the summaries of the latest job, which
  read the same items, are left out.
- Not modelled, because they are pure functions or plain I/O on strings, files
  and HTTP without shared state: the CLI's parsing and printing, the generation
  and validation of configuration files apart from the schedule, payload
  generation, sanitization and logging, and the mock target.
