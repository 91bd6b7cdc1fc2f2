----------------------------- MODULE Aggregation -----------------------------
(***************************************************************************)
(* The aggregation of one audit: AggregationOrchestrator.run, as one or    *)
(* more invocations of the aggregation Lambda execute it.                  *)
(*                                                                         *)
(* The finalizer invokes the function asynchronously, so an event may be   *)
(* delivered again, while its first delivery is running or after it died;  *)
(* an event with another job id, or with none, comes from an operator who  *)
(* invokes the function.  Every call to DynamoDB or S3 is a step; a call   *)
(* that fails raises an EngineError, and the invocation records FAILED.    *)
(*                                                                         *)
(* The persisted records are abstracted to the raw results they cover:     *)
(* an item is a key and a set of references into the raw results.          *)
(***************************************************************************)
EXTENDS Naturals, FiniteSets, Sequences

CONSTANTS
  Runs,               \* run ids, ordered as their raw_result_s3_keys are
  Results,            \* run -> the endpoint ids of its results, in order
  Jobs,               \* aggregation_job_ids
  Intents,            \* the jobs whose intent the finalizer has recorded
  Invocations,        \* deliveries of an aggregation event
  JobOf,              \* invocation -> aggregation_job_id of its event
  SafeEndpoints,      \* the endpoint ids _safe_endpoint_id keeps
  UnknownEndpoint,    \* UNKNOWN_ENDPOINT
  PageSize,           \* LINEAGE_PAGE_SIZE
  MaxAggregateRecords,\* MAX_AGGREGATE_RECORDS
  NoId,               \* no audit_execution_id
  MaxAggFaults        \* bound on crashes and failed calls

ASSUME AggregationAssumption ==
  /\ Runs \subseteq Nat /\ IsFiniteSet(Runs)
  /\ Results \in [Runs -> Seq(SafeEndpoints \cup {"unsafe"})]
  /\ Intents \subseteq Jobs
  /\ JobOf \in [Invocations -> Jobs]
  /\ NoId \notin Invocations
  /\ "audit" \notin SafeEndpoints \cup {UnknownEndpoint}
  /\ PageSize \in Nat \ {0}
  /\ MaxAggregateRecords \in Nat
  /\ MaxAggFaults \in Nat

VARIABLES
  audit,       \* AUDIT item: lifecycle_state, finalization.execution_count
  completed,   \* RUN items with status COMPLETED
  job,         \* AGGJOB items
  identity,    \* EXECUTION_ID item: audit_execution_id
  items,       \* the lineage pages, manifests, aggregates and #SET markers
  invocation,
  aggFaults

environment == <<audit, completed>>
stored == <<job, identity, items>>
aggVars == <<audit, completed, job, identity, items, invocation, aggFaults>>

-----------------------------------------------------------------------------

Reopenable == {"INTENT_RECORDED", "INVOCATION_REQUESTED", "INVOCATION_FAILED"}
Settled == {"COMPLETED", "DUPLICATE_COMPLETED"}
JobStatuses ==
  {"absent", "STARTED", "FAILED", "INELIGIBLE", "CONFLICT"}
    \cup Reopenable \cup Settled

InvocationPcs ==
  {"idle", "get_job", "restart", "get_duplicate", "get_audit", "get_identity",
   "put_identity", "check_set", "list_runs", "build",
   "write", "recheck_set", "finish", "fail", "done", "raised", "crashed"}

\* audit_execution_ids: each invocation generates one of its own.
Ids == Invocations

AggRunning(i) == invocation[i].pc \notin {"idle", "done", "raised", "crashed"}

AggGoto(i, pc) == invocation' = [invocation EXCEPT ![i].pc = pc]

NothingRead ==
  [pc |-> "idle", status |-> "STARTED", id |-> NoId, count |-> 0, runs |-> {},
   pages |-> {}]

\* The invocation goes on to record its outcome (_complete_job), or ends; it
\* uses nothing any more of what it has read.
Finish(i, status) ==
  invocation' = [invocation EXCEPT
    ![i] = [NothingRead EXCEPT !.pc = "finish", !.status = status]]

Leave(i, pc) ==
  invocation' = [invocation EXCEPT ![i] = [NothingRead EXCEPT !.pc = pc]]

-----------------------------------------------------------------------------
(***************************************************************************)
(* What is computed from the raw results                                   *)
(***************************************************************************)

\* _safe_endpoint_id: an id that is missing, malformed or looks like a URL or
\* a secret is counted under UNKNOWN_ENDPOINT.
SafeEndpointId(id) == IF id \in SafeEndpoints THEN id ELSE UnknownEndpoint

\* _load_records: one RawAggregationRecord for each result of each run.
LoadedRecords(runs) ==
  UNION {{[run_id |-> r, result_index |-> n,
           endpoint_id |-> SafeEndpointId(Results[r][n])] :
             n \in DOMAIN Results[r]} : r \in runs}

\* The order of ref_identity.
RefBefore(a, b) ==
  \/ a.run_id < b.run_id
  \/ a.run_id = b.run_id /\ a.result_index < b.result_index

\* paginate_records: the page a record falls on, counting from 0.
PageOf(x, records) ==
  Cardinality({y \in records : RefBefore(y, x)}) \div PageSize

Endpoints(records) == {x.endpoint_id : x \in records}

Scopes(records) == {"audit"} \cup Endpoints(records)

Scope(records, scope) ==
  IF scope = "audit" THEN records
                     ELSE {x \in records : x.endpoint_id = scope}

Item(id, kind, scope, page, refs) ==
  [id |-> id, kind |-> kind, scope |-> scope, page |-> page, refs |-> refs]

\* _build_lineage_scope and build_manifest_page: page_hash covers the key and
\* the references, and neither the job nor the time.
LineagePages(id, records) ==
  UNION {LET refs == Scope(records, scope)
         IN  {Item(id, "PAGE", scope, p, {x \in refs : PageOf(x, refs) = p}) :
                p \in {PageOf(x, refs) : x \in refs}} :
           scope \in Scopes(records)}

\* _build_persisted_records: a manifest, an aggregate and a failure
\* classification for the audit and for each endpoint, and the completion
\* marker.
PersistedRecords(id, records) ==
  {Item(id, kind, scope, 0, Scope(records, scope)) :
     kind \in {"LINEAGE", "AGGREGATE", "FAILURE_CLASSIFICATION"},
     scope \in Scopes(records)}
    \cup {Item(id, "SET", "audit", 0, records)}

TooLarge(id, records) ==
  Cardinality(PersistedRecords(id, records)) > MaxAggregateRecords

SameKey(a, b) ==
  a.id = b.id /\ a.kind = b.kind /\ a.scope = b.scope /\ a.page = b.page

Exists(table, item) == \E other \in table : SameKey(item, other)

\* aggregate_set_exists: the marker, the audit's records, and as many endpoint
\* aggregates and aggregates as the marker counts.
AggregateSetExists(id) ==
  \E marker \in items :
    LET written(kinds, scopes) ==
          {x \in items : x.id = id /\ x.kind \in kinds /\ x.scope \in scopes}
        endpoints == Endpoints(marker.refs)
        anyEndpoint == SafeEndpoints \cup {UnknownEndpoint}
        aggregates == {"AGGREGATE", "FAILURE_CLASSIFICATION"}
    IN  /\ marker.id = id /\ marker.kind = "SET"
        /\ Cardinality(written({"LINEAGE"} \cup aggregates, {"audit"})) = 3
        /\ Cardinality(written({"AGGREGATE"}, anyEndpoint))
             = Cardinality(endpoints)
        /\ 2 + Cardinality(written(aggregates, anyEndpoint))
             = 2 + 2 * Cardinality(endpoints)

-----------------------------------------------------------------------------
(***************************************************************************)
(* Claiming the job                                                        *)
(***************************************************************************)

\* put_job_once.  The event of an intent is sent once the audit is COMPLETED.
PutJobOnce(i) ==
  /\ invocation[i].pc = "idle"
  /\ JobOf[i] \in Intents => audit.lifecycle_state = "COMPLETED"
  /\ \/ /\ job[JobOf[i]].status = "absent"
        /\ job' = [job EXCEPT ![JobOf[i]].status = "STARTED"]
        /\ AggGoto(i, "get_audit")
     \/ /\ job[JobOf[i]].status # "absent"
        /\ AggGoto(i, "get_job")
        /\ UNCHANGED job
  /\ UNCHANGED <<environment, identity, items, aggFaults>>

\* Mutant: only a job whose invocation has not been requested yet is taken up.
GetJob_IntentOnly(i) ==
  /\ invocation[i].pc = "get_job"
  /\ AggGoto(i, IF job[JobOf[i]].status = "INTENT_RECORDED" THEN "restart"
                                                           ELSE "get_duplicate")
  /\ UNCHANGED <<environment, stored, aggFaults>>

\* get_job: a job the finalizer has recorded is taken up, any other is a
\* duplicate.
GetJob(i) ==
  /\ invocation[i].pc = "get_job"
  /\ AggGoto(i, IF job[JobOf[i]].status \in Reopenable THEN "restart"
                                                       ELSE "get_duplicate")
  /\ UNCHANGED <<environment, stored, aggFaults>>

RestartJob(i) ==
  /\ invocation[i].pc = "restart"
  /\ job' = [job EXCEPT ![JobOf[i]].status = "STARTED"]
  /\ AggGoto(i, "get_audit")
  /\ UNCHANGED <<environment, identity, items, aggFaults>>

\* Mutant: the status is read once more, but every duplicate is taken for one
\* of a completed job.
HandleDuplicateJob_AlwaysCompleted(i) ==
  /\ invocation[i].pc = "get_duplicate"
  /\ Finish(i, "DUPLICATE_COMPLETED")
  /\ UNCHANGED <<environment, stored, aggFaults>>

\* _handle_duplicate_job reads the item again and decides on its status alone.
HandleDuplicateJob(i) ==
  /\ invocation[i].pc = "get_duplicate"
  /\ Finish(i, IF job[JobOf[i]].status \in Settled THEN "DUPLICATE_COMPLETED"
                                                   ELSE "CONFLICT")
  /\ UNCHANGED <<environment, stored, aggFaults>>

-----------------------------------------------------------------------------
(***************************************************************************)
(* Identity and evidence                                                   *)
(***************************************************************************)

\* get_audit_metadata.  What matters of the item is the execution_count of a
\* finalized audit; an audit that is not COMPLETED has none.
GetAudit(i) ==
  /\ invocation[i].pc = "get_audit"
  /\ invocation' = [invocation EXCEPT ![i].pc = "get_identity",
                                      ![i].count = audit.execution_count]
  /\ UNCHANGED <<environment, stored, aggFaults>>

\* Mutant: an audit without an id is aggregated without one.
GetIdentity_NotAssigned(i) ==
  /\ invocation[i].pc = "get_identity"
  /\ invocation' = [invocation EXCEPT ![i].pc = "check_set", ![i].id = identity]
  /\ UNCHANGED <<environment, stored, aggFaults>>

\* resolve_or_assign: the id the audit has, or a new one.
GetIdentity(i) ==
  /\ invocation[i].pc = "get_identity"
  /\ invocation' =
       [invocation EXCEPT
          ![i].pc = IF identity = NoId THEN "put_identity" ELSE "check_set",
          ![i].id = identity]
  /\ UNCHANGED <<environment, stored, aggFaults>>

\* The put is conditional; when it fails, the id another invocation has put
\* is read and used.
PutIdentityOnce(i) ==
  /\ invocation[i].pc = "put_identity"
  /\ identity' = IF identity = NoId THEN i ELSE identity
  /\ invocation' = [invocation EXCEPT ![i].pc = "check_set", ![i].id = identity']
  /\ UNCHANGED <<environment, job, items, aggFaults>>

\* The id is recorded in the job, which no other step reads, and the set is
\* looked for.
CheckAggregateSet(i) ==
  /\ invocation[i].pc = "check_set"
  /\ job' = [job EXCEPT ![JobOf[i]].id = invocation[i].id]
  /\ IF AggregateSetExists(invocation[i].id) THEN Finish(i, "DUPLICATE_COMPLETED")
                                             ELSE AggGoto(i, "list_runs")
  /\ UNCHANGED <<environment, identity, items, aggFaults>>

ListCompletedRuns(i) ==
  /\ invocation[i].pc = "list_runs"
  /\ invocation' = [invocation EXCEPT ![i].pc = "build", ![i].runs = completed]
  /\ UNCHANGED <<environment, stored, aggFaults>>

\* validate_eligibility
Eligible(count) == count > 0

\* Mutant: the completed runs are not counted.
IntegrityHolds_NotCounted(count, runs, records) ==
  /\ runs # {} /\ records # {}
  /\ {x.run_id : x \in records} = runs

\* validate_evidence_integrity: every counted execution has a completed run,
\* and every completed run has results.
IntegrityHolds(count, runs, records) ==
  /\ runs # {} /\ records # {}
  /\ count = Cardinality(runs)
  /\ {x.run_id : x \in records} = runs

\* The evidence is loaded and validated and all records are built before any
\* is written.
Build(i) ==
  LET me == invocation[i]
      records == LoadedRecords(me.runs)
  IN  /\ me.pc = "build"
      /\ IF ~ Eligible(me.count) THEN Finish(i, "INELIGIBLE")
         ELSE IF ~ IntegrityHolds(me.count, me.runs, records) \/ TooLarge(me.id, records)
         THEN Leave(i, "fail")
         ELSE invocation' = [invocation EXCEPT ![i].pc = "write",
                                               ![i].pages = LineagePages(me.id, records)]
      /\ UNCHANGED <<environment, stored, aggFaults>>

-----------------------------------------------------------------------------
(***************************************************************************)
(* Writing the aggregate set                                               *)
(***************************************************************************)

\* _write_lineage_pages: every page is put once; one that exists must have
\* the same hash.  All invocations go through the pages in the same order.
WriteLineagePage(i) ==
  /\ invocation[i].pc = "write" /\ invocation[i].pages # {}
  /\ LET page == CHOOSE p \in invocation[i].pages : TRUE
         next == [invocation EXCEPT ![i].pages = @ \ {page}]
     IN  IF Exists(items, page)
         THEN /\ IF page \in items THEN invocation' = next ELSE Leave(i, "fail")
              /\ UNCHANGED items
         ELSE items' = items \cup {page} /\ invocation' = next
  /\ UNCHANGED <<environment, job, identity, aggFaults>>

\* put_records_once: one transaction, every put of which is conditioned on the
\* key being free.
PutRecordsOnce(i) ==
  LET new == PersistedRecords(invocation[i].id, LoadedRecords(invocation[i].runs))
  IN  /\ invocation[i].pc = "write" /\ invocation[i].pages = {}
      /\ IF \E x \in new : Exists(items, x)
         THEN AggGoto(i, "recheck_set") /\ UNCHANGED items
         ELSE items' = items \cup new /\ Finish(i, "COMPLETED")
      /\ UNCHANGED <<environment, job, identity, aggFaults>>

\* The transaction commits and its answer is lost.
PutRecordsAnswerLost(i) ==
  LET new == PersistedRecords(invocation[i].id, LoadedRecords(invocation[i].runs))
  IN  /\ invocation[i].pc = "write" /\ invocation[i].pages = {}
      /\ ~ \E x \in new : Exists(items, x)
      /\ aggFaults < MaxAggFaults /\ aggFaults' = aggFaults + 1
      /\ items' = items \cup new
      /\ Leave(i, "fail")
      /\ UNCHANGED <<environment, job, identity>>

RecheckAggregateSet(i) ==
  /\ invocation[i].pc = "recheck_set"
  /\ Finish(i, IF AggregateSetExists(invocation[i].id) THEN "DUPLICATE_COMPLETED"
                                                       ELSE "CONFLICT")
  /\ UNCHANGED <<environment, stored, aggFaults>>

-----------------------------------------------------------------------------
(***************************************************************************)
(* Recording the outcome                                                   *)
(***************************************************************************)

\* _complete_job: update_job, conditioned only on the item's existence.
CompleteJob(i) ==
  /\ invocation[i].pc = "finish"
  /\ job' = [job EXCEPT ![JobOf[i]].status = invocation[i].status]
  /\ Leave(i, "done")
  /\ UNCHANGED <<environment, identity, items, aggFaults>>

FailJob(i) ==
  /\ invocation[i].pc = "fail"
  /\ job' = [job EXCEPT ![JobOf[i]].status = "FAILED"]
  /\ Leave(i, "done")
  /\ UNCHANGED <<environment, identity, items, aggFaults>>

\* A call fails: the invocation records FAILED, unless it was recording
\* FAILED or INELIGIBLE, which it does outside the try block.
AggCallFails(i) ==
  /\ AggRunning(i)
  /\ aggFaults < MaxAggFaults /\ aggFaults' = aggFaults + 1
  /\ LET me == invocation[i]
     IN  Leave(i, IF me.pc = "fail" \/ (me.pc = "finish" /\ me.status = "INELIGIBLE")
                  THEN "raised" ELSE "fail")
  /\ UNCHANGED <<environment, stored>>

\* The Lambda function times out or is killed.
AggCrash(i) ==
  /\ AggRunning(i)
  /\ aggFaults < MaxAggFaults /\ aggFaults' = aggFaults + 1
  /\ Leave(i, "crashed")
  /\ UNCHANGED <<environment, stored>>

-----------------------------------------------------------------------------
(***************************************************************************)
(* The finalizer and the scheduled runs                                    *)
(***************************************************************************)

\* The audit is finalized over no more executions than have completed, and
\* the finalizer records its intent and requests the invocation.
FinalizeAudit ==
  /\ audit.lifecycle_state # "COMPLETED"
  /\ \E count \in 1 .. Cardinality(completed) :
       audit' = [lifecycle_state |-> "COMPLETED", execution_count |-> count]
  /\ job' = [j \in Jobs |->
       IF j \in Intents
       THEN [job[j] EXCEPT !.status = "INVOCATION_REQUESTED"]
       ELSE job[j]]
  /\ UNCHANGED <<completed, identity, items, invocation, aggFaults>>

\* A run completes, before or after the audit is finalized.
CompleteRun(r) ==
  /\ r \notin completed
  /\ completed' = completed \cup {r}
  /\ UNCHANGED <<audit, stored, invocation, aggFaults>>

\* The finalizer's invoke raises although the event may have been accepted:
\* the status is overwritten, whatever the aggregation has made of it.
RecordInvocationFailed(j) ==
  /\ j \in Intents /\ audit.lifecycle_state = "COMPLETED" /\ ~ job[j].refused
  /\ aggFaults < MaxAggFaults /\ aggFaults' = aggFaults + 1
  /\ job' = [job EXCEPT ![j].status = "INVOCATION_FAILED", ![j].refused = TRUE]
  /\ UNCHANGED <<environment, identity, items, invocation>>

-----------------------------------------------------------------------------

AggInit ==
  /\ audit = [lifecycle_state |-> "ACTIVE", execution_count |-> 0]
  /\ completed = {}
  /\ job = [j \in Jobs |-> [status |-> "absent", id |-> NoId, refused |-> FALSE]]
  /\ identity = NoId
  /\ items = {}
  /\ invocation = [i \in Invocations |-> NothingRead]
  /\ aggFaults = 0

Invocation(i) ==
  \/ PutJobOnce(i) \/ GetJob(i) \/ RestartJob(i) \/ HandleDuplicateJob(i)
  \/ GetAudit(i) \/ GetIdentity(i) \/ PutIdentityOnce(i)
  \/ CheckAggregateSet(i) \/ ListCompletedRuns(i) \/ Build(i)
  \/ WriteLineagePage(i) \/ PutRecordsOnce(i)
  \/ RecheckAggregateSet(i) \/ CompleteJob(i) \/ FailJob(i)

AggFault(i) == AggCallFails(i) \/ AggCrash(i) \/ PutRecordsAnswerLost(i)

AggNext ==
  \/ \E i \in Invocations : Invocation(i) \/ AggFault(i)
  \/ \E r \in Runs : CompleteRun(r)
  \/ \E j \in Jobs : RecordInvocationFailed(j)
  \/ FinalizeAudit

\* An invocation that Lambda has started runs to its end or dies.
AggSpec ==
  AggInit /\ [][AggNext]_aggVars
    /\ \A i \in Invocations : WF_aggVars(AggRunning(i) /\ Invocation(i))

-----------------------------------------------------------------------------
(***************************************************************************)
(* Properties                                                              *)
(***************************************************************************)

AggTypeOK ==
  /\ audit.lifecycle_state \in {"ACTIVE", "COMPLETED"}
  /\ audit.execution_count \in 0 .. Cardinality(Runs)
  /\ completed \subseteq Runs
  /\ job \in [Jobs -> [status : JobStatuses, id : Ids \cup {NoId}, refused : BOOLEAN]]
  /\ identity \in Ids \cup {NoId}
  /\ \A i \in Invocations :
       /\ invocation[i].pc \in InvocationPcs
       /\ invocation[i].status \in JobStatuses \ {"absent"}
       /\ invocation[i].runs \subseteq Runs
       /\ invocation[i].count \in 0 .. Cardinality(Runs)
       /\ invocation[i].pc \in {"build", "write", "recheck_set"} =>
            invocation[i].id # NoId
  /\ aggFaults \in 0 .. MaxAggFaults

\* What a later phase relies on when it finds the completion marker: there is
\* one set for the audit, it covers the results of as many completed runs as
\* the audit counts, its manifests, aggregates and lineage pages are all
\* there, and nothing else is, whichever invocations wrote the pages, died,
\* or found that another run had completed.
AggregateSetIsSound ==
  \A marker \in {x \in items : x.kind = "SET"} :
    /\ marker.id = identity
    /\ \E runs \in SUBSET completed :
         /\ Cardinality(runs) = audit.execution_count
         /\ marker.refs = LoadedRecords(runs)
    /\ items = PersistedRecords(marker.id, marker.refs)
                 \cup LineagePages(marker.id, marker.refs)

\* A job that says COMPLETED or DUPLICATE_COMPLETED names a complete set, also
\* when the status is that of a redelivery, or of an invocation that was
\* overtaken by another one of the same audit.
SettledJobHasSet ==
  \A j \in Jobs :
    job[j].status \in Settled => AggregateSetExists(job[j].id)

\* An event the finalizer has sent produces the aggregate set, however many
\* times it is delivered, unless a call fails, an invocation dies or the
\* counted executions are not the completed runs.
Undisturbed == aggFaults = 0 /\ Cardinality(completed) = audit.execution_count

EventProducesSet ==
  (\E i \in Invocations :
     JobOf[i] \in Intents /\ invocation[i].pc = "get_job" /\ Undisturbed)
    ~> (~ Undisturbed \/ \E id \in Ids : AggregateSetExists(id))

=============================================================================
