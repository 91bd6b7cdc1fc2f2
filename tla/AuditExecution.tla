--------------------------- MODULE AuditExecution ---------------------------
(***************************************************************************)
(* The execution window of one audit: the Lambda invocations that          *)
(* EventBridge Scheduler and operators start, and the one DynamoDB item,   *)
(* the RUN and OCCURRENCE items and the S3 evidence they share.            *)
(*                                                                         *)
(*   worker     one invocation of scheduled_execution_handler (or, for a   *)
(*              manual worker, of orchestrator_handler) and, inside it,    *)
(*              CoreEngineOrchestrator.run;                                *)
(*   finalizer  one invocation of audit_finalization_handler.              *)
(*                                                                         *)
(* Every remote call is a step of its own.  Between two steps an           *)
(* invocation keeps what it read in its own record, so it acts on a        *)
(* snapshot that others may have overtaken.  A fault is either a crash     *)
(* (timeout, kill, an exception that escapes the handler; the platform may *)
(* deliver the event again) or a call that reports failure, with or        *)
(* without having been applied.                                            *)
(***************************************************************************)
EXTENDS AuditLifecycle, FinalizationGate, Integers

CONSTANTS
  Occurrences,       \* schedule_occurrence_ids: the intended executions
  NoOccurrence,      \* what a manual worker has instead of an occurrence
  MaxIterations,     \* the repeated-iteration cap
  Iterations,        \* occurrence -> runs it asks for (1 unless "repeated")
  Rejected,          \* occurrences the window, token or cap safeguards refuse
  Workers,           \* worker invocations; duplicates are further workers
  Finalizers,        \* deliveries of the finalization event
  InvokerConfigured, \* is AGGREGATION_FUNCTION_NAME set?
  MaxFaults          \* bound on crashes and failed calls

ASSUME ExecutionAssumption ==
  /\ NoOccurrence \notin Occurrences
  /\ MaxIterations \in Nat \ {0}
  /\ Iterations \in [Occurrences -> 1 .. MaxIterations]
  /\ Rejected \subseteq Occurrences
  /\ InvokerConfigured \in BOOLEAN
  /\ MaxFaults \in Nat

VARIABLES
  execution_counters,  \* audit item: counters of outcomes
  finalization,        \* audit item: finalization.execution_count
  claim,               \* OCCURRENCE items: claim_status
  runs,                \* RUN items: status
  evidence,            \* S3: the runs whose raw-results object exists
  jobs,                \* AGGJOB items, one per finalizer that makes one
  invoked,             \* finalizers whose aggregation event Lambda accepted
  worker,
  finalizer,
  faults

auditVars == <<execution_counters, finalization>>
runVars == <<runs, evidence>>
jobVars == <<jobs, invoked>>

vars == <<lifecycle_state, lifecycle_history, execution_counters, finalization,
          claim, runs, evidence, jobs, invoked, worker, finalizer, faults>>

-----------------------------------------------------------------------------

NoCount == -1                   \* finalization has no execution_count yet

NoCounters == [present |-> FALSE, total_started |-> 0, total_completed |-> 0,
               total_failed |-> 0]

\* run_id is generated inside run(): no two invocations share one.
RunIds == Workers \X (1 .. MaxIterations)
RunOf(w) == <<w, worker[w].iteration>>

WorkerPcs == {"idle", "claim", "admit", "blocked", "start", "evidence",
              "terminal", "fail_run", "settle", "counters", "done", "crashed"}

FinalizerPcs == {"idle", "begin", "reread", "fail_unexpected", "record",
                 "list_runs", "list_keys", "complete", "fail", "intent",
                 "request", "invoke", "invoke_failed", "accept", "done",
                 "raised", "crashed"}   \* raised: an exception left handle()

ClaimStatuses == {"absent", "claimed", "completed", "failed", "skipped"}

JobStatuses == {"absent", "INTENT_RECORDED", "INVOCATION_REQUESTED",
                "INVOCATION_FAILED", "ACCEPTED"}

Fault == faults < MaxFaults /\ faults' = faults + 1
NoFault == UNCHANGED faults

WorkerGoto(w, pc) == worker' = [worker EXCEPT ![w].pc = pc]
FinalizerGoto(f, pc) == finalizer' = [finalizer EXCEPT ![f].pc = pc]

-----------------------------------------------------------------------------
(***************************************************************************)
(* ScheduledExecutionHandler.handle                                        *)
(***************************************************************************)

\* An occurrence is delivered (any number of times) and the audit item read.
Deliver(w, o) ==
  /\ worker[w].pc = "idle"
  /\ worker' = [worker EXCEPT ![w] =
                   [@ EXCEPT !.pc = "claim", !.occurrence = o,
                             !.state = lifecycle_state,
                             !.counters = execution_counters]]
  /\ UNCHANGED <<lifecycleVars, auditVars, claim, runVars, jobVars, finalizer,
                 faults>>

\* Mutant: the put without attribute_not_exists.
ClaimOccurrence_Unconditional(w) ==
  /\ worker[w].pc = "claim"
  /\ claim' = [claim EXCEPT ![worker[w].occurrence] = "claimed"]
  /\ WorkerGoto(w, "admit")
  /\ UNCHANGED <<lifecycleVars, auditVars, runVars, jobVars, finalizer, faults>>

\* claim_occurrence: a conditional put; the loser is "duplicate_skipped".
ClaimOccurrence(w) ==
  /\ worker[w].pc = "claim"
  /\ \/ /\ claim[worker[w].occurrence] = "absent"
        /\ claim' = [claim EXCEPT ![worker[w].occurrence] = "claimed"]
        /\ WorkerGoto(w, "admit")
     \/ /\ claim[worker[w].occurrence] # "absent"
        /\ WorkerGoto(w, "done")
        /\ UNCHANGED claim
  /\ UNCHANGED <<lifecycleVars, auditVars, runVars, jobVars, finalizer, faults>>

\* ensure_execution_allowed, on the snapshot and on the event.
ExecutionAllowed(w) ==
  /\ worker[w].state \notin TerminalStates
  /\ worker[w].occurrence \notin Rejected

Block(w, verdict) ==
  worker' = [worker EXCEPT ![w].pc = "blocked", ![w].verdict = verdict]

\* The guards after the claim, and SCHEDULED -> RUNNING if the snapshot says
\* SCHEDULED.  A conflict or a storage error is an EngineError: the
\* occurrence is blocked.
Admit(w) ==
  /\ worker[w].pc = "admit"
  /\ \/ /\ ~ ExecutionAllowed(w)
        /\ Block(w, "skipped")
        /\ NoFault
        /\ UNCHANGED lifecycleVars
     \/ /\ ExecutionAllowed(w)
        /\ worker[w].state # "SCHEDULED"
        /\ WorkerGoto(w, "start")
        /\ NoFault
        /\ UNCHANGED lifecycleVars
     \/ /\ ExecutionAllowed(w)
        /\ worker[w].state = "SCHEDULED"
        /\ \/ /\ Transition("SCHEDULED", "RUNNING")
              /\ WorkerGoto(w, "start")
              /\ NoFault
           \/ /\ LifecycleConflict("SCHEDULED", "RUNNING")
              /\ Block(w, "failed")
              /\ NoFault
           \/ /\ Transition("SCHEDULED", "RUNNING") \/ UNCHANGED lifecycleVars
              /\ Block(w, "failed")
              /\ Fault
  /\ UNCHANGED <<auditVars, claim, runVars, jobVars, finalizer>>

\* Mutant: the EngineError branch returns without updating the claim.
RecordBlocked_Forgets(w) ==
  /\ worker[w].pc = "blocked"
  /\ WorkerGoto(w, "done")
  /\ UNCHANGED <<lifecycleVars, auditVars, claim, runVars, jobVars, finalizer,
                 faults>>

\* The EngineError branch: "skipped" for a ValidationError, else "failed".
RecordBlocked(w) ==
  /\ worker[w].pc = "blocked"
  /\ claim' = [claim EXCEPT ![worker[w].occurrence] = worker[w].verdict]
  /\ WorkerGoto(w, "done")
  /\ UNCHANGED <<lifecycleVars, auditVars, runVars, jobVars, finalizer, faults>>

-----------------------------------------------------------------------------
(***************************************************************************)
(* CoreEngineOrchestrator.run.  It never raises: every failure ends in     *)
(* _failure_response, which returns status FAILED.                         *)
(***************************************************************************)

\* `rcp audit run` invokes orchestrator_handler: no claim, no counters.
StartManually(w) ==
  /\ worker[w].pc = "idle"
  /\ WorkerGoto(w, "start")
  /\ UNCHANGED <<lifecycleVars, auditVars, claim, runVars, jobVars, finalizer,
                 faults>>

\* put_started_once, after the duplicate preflight.
StartRun(w) ==
  /\ worker[w].pc = "start"
  /\ \/ /\ runs' = [runs EXCEPT ![RunOf(w)] = "STARTED"]
        /\ WorkerGoto(w, "evidence")
        /\ NoFault
     \/ /\ runs' = [runs EXCEPT ![RunOf(w)] = "STARTED"] \/ UNCHANGED runs
        /\ WorkerGoto(w, "fail_run")
        /\ Fault
  /\ UNCHANGED <<lifecycleVars, auditVars, claim, evidence, jobVars, finalizer>>

\* Mutant: a failed write of the evidence is ignored.
WriteEvidence_IgnoresFailure(w) ==
  /\ worker[w].pc = "evidence"
  /\ \/ /\ evidence' = evidence \cup {RunOf(w)}
        /\ NoFault
     \/ /\ UNCHANGED evidence
        /\ Fault
  /\ WorkerGoto(w, "terminal")
  /\ UNCHANGED <<lifecycleVars, auditVars, claim, runs, jobVars, finalizer>>

\* Configs are loaded, the endpoints called, and write_raw_results_once puts
\* the envelope.  Any of them may fail; the put may also have been applied.
WriteEvidence(w) ==
  /\ worker[w].pc = "evidence"
  /\ \/ /\ evidence' = evidence \cup {RunOf(w)}
        /\ WorkerGoto(w, "terminal")
        /\ NoFault
     \/ /\ evidence' = evidence \cup {RunOf(w)} \/ UNCHANGED evidence
        /\ WorkerGoto(w, "fail_run")
        /\ Fault
  /\ UNCHANGED <<lifecycleVars, auditVars, claim, runs, jobVars, finalizer>>

\* Mutant: one iteration too many (range(1, iteration_count + 2)).
AfterRun_OneTooMany(w, outcome) ==
  LET me == worker[w]
      o == me.occurrence
      more == o # NoOccurrence /\ me.iteration <= Iterations[o]
      One(condition) == IF condition THEN 1 ELSE 0
  IN  worker' = [worker EXCEPT ![w] =
        [me EXCEPT !.pc = IF o = NoOccurrence THEN "done"
                          ELSE IF more THEN "start" ELSE "settle",
                   !.iteration = me.iteration + One(more),
                   !.num_completed =
                      me.num_completed + One(outcome = "COMPLETED"),
                   !.num_failed = me.num_failed + One(outcome = "FAILED")]]

\* What follows a run: the handler of a manual run returns; a repeated
\* occurrence goes on to its next iteration, on the same snapshot.
AfterRun(w, outcome) ==
  LET me == worker[w]
      o == me.occurrence
      more == o # NoOccurrence /\ me.iteration < Iterations[o]
      One(condition) == IF condition THEN 1 ELSE 0
  IN  worker' = [worker EXCEPT ![w] =
        [me EXCEPT !.pc = IF o = NoOccurrence THEN "done"
                          ELSE IF more THEN "start" ELSE "settle",
                   !.iteration = me.iteration + One(more),
                   !.num_completed =
                      me.num_completed + One(outcome = "COMPLETED"),
                   !.num_failed = me.num_failed + One(outcome = "FAILED")]]

\* update_terminal(COMPLETED): only the item's existence is a condition.
CompleteRun(w) ==
  /\ worker[w].pc = "terminal"
  /\ \/ /\ runs' = [runs EXCEPT ![RunOf(w)] = "COMPLETED"]
        /\ AfterRun(w, "COMPLETED")
        /\ NoFault
     \/ /\ runs' = [runs EXCEPT ![RunOf(w)] = "COMPLETED"] \/ UNCHANGED runs
        /\ WorkerGoto(w, "fail_run")
        /\ Fault
  /\ UNCHANGED <<lifecycleVars, auditVars, claim, evidence, jobVars, finalizer>>

\* _failure_response: update_terminal(FAILED) if the item exists; its own
\* failure is swallowed.
FailRun(w) ==
  /\ worker[w].pc = "fail_run"
  /\ \/ /\ runs' = IF runs[RunOf(w)] = "absent" THEN runs
                   ELSE [runs EXCEPT ![RunOf(w)] = "FAILED"]
        /\ NoFault
     \/ /\ UNCHANGED runs
        /\ Fault
  /\ AfterRun(w, "FAILED")
  /\ UNCHANGED <<lifecycleVars, auditVars, claim, evidence, jobVars, finalizer>>

-----------------------------------------------------------------------------
(***************************************************************************)
(* ScheduledExecutionHandler.handle, after the orchestrator returns.       *)
(***************************************************************************)

\* Mutant: one completed run is enough for the whole occurrence.
SettleClaim_AnyCompleted(w) ==
  /\ worker[w].pc = "settle"
  /\ claim' = [claim EXCEPT ![worker[w].occurrence] =
                 IF worker[w].num_completed > 0 THEN "completed" ELSE "failed"]
  /\ WorkerGoto(w, "counters")
  /\ UNCHANGED <<lifecycleVars, auditVars, runVars, jobVars, finalizer, faults>>

\* update_occurrence: "completed" only if no run of the occurrence failed.
SettleClaim(w) ==
  /\ worker[w].pc = "settle"
  /\ claim' = [claim EXCEPT ![worker[w].occurrence] =
                 IF worker[w].num_failed = 0 THEN "completed" ELSE "failed"]
  /\ WorkerGoto(w, "counters")
  /\ UNCHANGED <<lifecycleVars, auditVars, runVars, jobVars, finalizer, faults>>

\* Mutant: an occurrence's failed runs are added to total_completed too.
WriteCounters_AddsFailed(w) ==
  LET snapshot == worker[w].counters
  IN  /\ worker[w].pc = "counters"
      /\ execution_counters' =
           [present |-> TRUE,
            total_started |-> snapshot.total_started + 1,
            total_completed |-> snapshot.total_completed
              + worker[w].num_completed + worker[w].num_failed,
            total_failed |-> snapshot.total_failed + worker[w].num_failed]
      /\ WorkerGoto(w, "done")
      /\ UNCHANGED <<lifecycleVars, finalization, claim, runVars, jobVars,
                     finalizer, faults>>

\* update_execution_counters: an unconditional overwrite computed from the
\* counters in the snapshot.
WriteCounters(w) ==
  LET snapshot == worker[w].counters
  IN  /\ worker[w].pc = "counters"
      /\ execution_counters' =
           [present |-> TRUE,
            total_started |-> snapshot.total_started + 1,
            total_completed |->
              snapshot.total_completed + worker[w].num_completed,
            total_failed |-> snapshot.total_failed + worker[w].num_failed]
      /\ WorkerGoto(w, "done")
      /\ UNCHANGED <<lifecycleVars, finalization, claim, runVars, jobVars,
                     finalizer, faults>>

WorkerCrash(w) ==
  /\ worker[w].pc \notin {"idle", "done", "crashed"}
  /\ WorkerGoto(w, "crashed")
  /\ Fault
  /\ UNCHANGED <<lifecycleVars, auditVars, claim, runVars, jobVars, finalizer>>

-----------------------------------------------------------------------------
(***************************************************************************)
(* AuditFinalizationHandler.handle                                         *)
(***************************************************************************)

\* _handle_finalizing_retry: where a handler that reads FINALIZING goes on.
RetryPc ==
  CASE finalization > 0 -> "list_runs"
    [] finalization = 0 -> "fail"
    [] OTHER            -> "done"

\* get_audit_metadata, with what follows from the state that was read.
ReadAudit(f, otherwise) ==
  finalizer' = [finalizer EXCEPT ![f] =
    [@ EXCEPT !.pc = IF lifecycle_state \in TerminalStates THEN "done"
                     ELSE IF lifecycle_state = "FINALIZING" THEN RetryPc
                     ELSE otherwise,
              !.state = lifecycle_state,
              !.counters = execution_counters,
              !.execution_count = IF lifecycle_state = "FINALIZING"
                                  THEN finalization
                                  ELSE execution_counters.total_completed]]

\* The finalization event is delivered and the audit item read.
FinalizerRead(f) ==
  /\ finalizer[f].pc = "idle"
  /\ ReadAudit(f, "begin")
  /\ UNCHANGED <<lifecycleVars, auditVars, claim, runVars, jobVars, worker,
                 faults>>

\* The transition to FINALIZING, from the state in the snapshot.
BeginFinalizing(f) ==
  /\ finalizer[f].pc = "begin"
  /\ \/ /\ Transition(finalizer[f].state, "FINALIZING")
        /\ FinalizerGoto(f, "record")
     \/ /\ LifecycleConflict(finalizer[f].state, "FINALIZING")
        /\ FinalizerGoto(f, "reread")
     \/ /\ InvalidTransition(finalizer[f].state, "FINALIZING")
        /\ FinalizerGoto(f, "raised")
  /\ UNCHANGED <<auditVars, claim, runVars, jobVars, worker, faults>>

\* Mutant: the item read after a conflict is not acted on.
Reread_Returns(f) ==
  /\ finalizer[f].pc = "reread"
  /\ FinalizerGoto(f, "done")
  /\ UNCHANGED <<lifecycleVars, auditVars, claim, runVars, jobVars, worker,
                 faults>>

\* After a conflict the item is read again.
Reread(f) ==
  /\ finalizer[f].pc = "reread"
  /\ ReadAudit(f, "fail_unexpected")
  /\ UNCHANGED <<lifecycleVars, auditVars, claim, runVars, jobVars, worker,
                 faults>>

\* _fail_unexpected_state_finalization: a second conflict is swallowed.
FailUnexpected(f) ==
  /\ finalizer[f].pc = "fail_unexpected"
  /\ \/ Transition(finalizer[f].state, "FAILED")
     \/ LifecycleConflict(finalizer[f].state, "FAILED")
  /\ FinalizerGoto(f, "done")
  /\ UNCHANGED <<auditVars, claim, runVars, jobVars, worker, faults>>

\* Mutant: no zero-execution test.
RecordFinalization_NoZeroTest(f) ==
  /\ finalizer[f].pc = "record"
  /\ finalization' = finalizer[f].execution_count
  /\ FinalizerGoto(f, "list_runs")
  /\ UNCHANGED <<lifecycleVars, execution_counters, claim, runVars, jobVars,
                 worker, faults>>

\* record_finalization, then the zero-execution test.
RecordFinalization(f) ==
  /\ finalizer[f].pc = "record"
  /\ finalization' = finalizer[f].execution_count
  /\ FinalizerGoto(f, IF finalizer[f].execution_count = 0 THEN "fail"
                      ELSE "list_runs")
  /\ UNCHANGED <<lifecycleVars, execution_counters, claim, runVars, jobVars,
                 worker, faults>>

\* _complete_finalization: the RUN records are listed ...
ListRuns(f) ==
  /\ finalizer[f].pc = "list_runs"
  /\ finalizer' = [finalizer EXCEPT ![f].pc = "list_keys",
                                    ![f].listing = runs]
  /\ UNCHANGED <<lifecycleVars, auditVars, claim, runVars, jobVars, worker,
                 faults>>

\* The count the gate compares with: that of the terminal records listed.
GateExecutionCount(f) ==
  LET terminal_count == Cardinality(TerminalRuns(finalizer[f].listing))
  IN  IF terminal_count > 0 THEN terminal_count
      ELSE finalizer[f].execution_count

\* ... then the S3 keys, and the gate is evaluated, with the counters of the
\* snapshot.
ListKeys(f) ==
  /\ finalizer[f].pc = "list_keys"
  /\ finalizer' = [finalizer EXCEPT
       ![f].keys = evidence,
       ![f].pc = IF finalization_integrity_gate(finalizer[f].listing, evidence,
                      GateExecutionCount(f), finalizer[f].counters)
                 THEN "complete" ELSE "fail"]
  /\ UNCHANGED <<lifecycleVars, auditVars, claim, runVars, jobVars, worker,
                 faults>>

\* Mutant: a conflict is taken for an earlier delivery's success, and the
\* handler goes on to aggregation.
CompleteAudit_SwallowsConflict(f) ==
  /\ finalizer[f].pc = "complete"
  /\ \/ Transition("FINALIZING", "COMPLETED")
     \/ LifecycleConflict("FINALIZING", "COMPLETED")
  /\ FinalizerGoto(f, "intent")
  /\ UNCHANGED <<auditVars, claim, runVars, jobVars, worker, faults>>

\* FINALIZING -> COMPLETED; a conflict escapes the handler.
CompleteAudit(f) ==
  /\ finalizer[f].pc = "complete"
  /\ \/ /\ Transition("FINALIZING", "COMPLETED")
        /\ FinalizerGoto(f, "intent")
     \/ /\ LifecycleConflict("FINALIZING", "COMPLETED")
        /\ FinalizerGoto(f, "raised")
  /\ UNCHANGED <<auditVars, claim, runVars, jobVars, worker, faults>>

\* _fail_zero_execution_finalization and _fail_gate_failure_finalization.
FailAudit(f) ==
  /\ finalizer[f].pc = "fail"
  /\ \/ /\ Transition("FINALIZING", "FAILED")
        /\ FinalizerGoto(f, "done")
     \/ /\ LifecycleConflict("FINALIZING", "FAILED")
        /\ FinalizerGoto(f, "raised")
  /\ UNCHANGED <<auditVars, claim, runVars, jobVars, worker, faults>>

-----------------------------------------------------------------------------
(***************************************************************************)
(* _trigger_aggregation_after_finalization                                 *)
(***************************************************************************)

\* Mutant: the function name is not looked at, as if it were never set.
PutIntent_NeverInvokes(f) ==
  /\ finalizer[f].pc = "intent"
  /\ jobs' = [jobs EXCEPT ![f] = "INTENT_RECORDED"]
  /\ FinalizerGoto(f, "done")
  /\ UNCHANGED <<lifecycleVars, auditVars, claim, runVars, invoked, worker,
                 faults>>

PutIntent(f) ==
  /\ finalizer[f].pc = "intent"
  /\ jobs' = [jobs EXCEPT ![f] = "INTENT_RECORDED"]
  /\ FinalizerGoto(f, IF InvokerConfigured THEN "request" ELSE "done")
  /\ UNCHANGED <<lifecycleVars, auditVars, claim, runVars, invoked, worker,
                 faults>>

RequestInvocation(f) ==
  /\ finalizer[f].pc = "request"
  /\ jobs' = [jobs EXCEPT ![f] = "INVOCATION_REQUESTED"]
  /\ FinalizerGoto(f, "invoke")
  /\ UNCHANGED <<lifecycleVars, auditVars, claim, runVars, invoked, worker,
                 faults>>

\* The asynchronous Lambda invocation; a failed call may have been accepted.
InvokeAggregation(f) ==
  /\ finalizer[f].pc = "invoke"
  /\ \/ /\ invoked' = invoked \cup {f}
        /\ FinalizerGoto(f, "accept")
        /\ NoFault
     \/ /\ invoked' = invoked \cup {f} \/ UNCHANGED invoked
        /\ FinalizerGoto(f, "invoke_failed")
        /\ Fault
  /\ UNCHANGED <<lifecycleVars, auditVars, claim, runVars, jobs, worker>>

RecordInvocation(f) ==
  /\ finalizer[f].pc \in {"accept", "invoke_failed"}
  /\ jobs' = [jobs EXCEPT ![f] = IF finalizer[f].pc = "accept"
                                 THEN "ACCEPTED" ELSE "INVOCATION_FAILED"]
  /\ FinalizerGoto(f, "done")
  /\ UNCHANGED <<lifecycleVars, auditVars, claim, runVars, invoked, worker,
                 faults>>

FinalizerCrash(f) ==
  /\ finalizer[f].pc \notin {"idle", "done", "raised", "crashed"}
  /\ FinalizerGoto(f, "crashed")
  /\ Fault
  /\ UNCHANGED <<lifecycleVars, auditVars, claim, runVars, jobVars, worker>>

-----------------------------------------------------------------------------
(***************************************************************************)
(* Operators.  Each of these commands reads the audit and then makes one   *)
(* conditional update; it succeeds only if nothing moved in between, so    *)
(* its successful run is one step.  AuditScheduling has their other steps. *)
(***************************************************************************)

\* schedule_from_persisted_audit, its last transition: all schedules exist,
\* or one could not be created and the created ones were rolled back.
ScheduleAudit ==
  /\ \/ Transition("DRAFT", "SCHEDULED")
     \/ Transition("DRAFT", "FAILED")
  /\ UNCHANGED <<auditVars, claim, runVars, jobVars, worker, finalizer, faults>>

\* cancel_for_operator.
CancelAudit ==
  /\ Transition(lifecycle_state, "CANCELLED")
  /\ UNCHANGED <<auditVars, claim, runVars, jobVars, worker, finalizer, faults>>

\* update_for_force_recreate: the counters, the finalization, the RUN and
\* the OCCURRENCE items of the earlier attempt stay.
ForceRecreate ==
  /\ Recreate
  /\ UNCHANGED <<auditVars, claim, runVars, jobVars, worker, finalizer, faults>>

-----------------------------------------------------------------------------

\* An audit made by create_from_files has no counters; schedule_audit writes
\* zeros.
Init ==
  /\ LifecycleInit
  /\ execution_counters \in {NoCounters, [NoCounters EXCEPT !.present = TRUE]}
  /\ finalization = NoCount
  /\ claim = [o \in Occurrences |-> "absent"]
  /\ runs = [r \in RunIds |-> "absent"]
  /\ evidence = {}
  /\ jobs = [f \in Finalizers |-> "absent"]
  /\ invoked = {}
  /\ worker = [w \in Workers |->
       [pc |-> "idle", occurrence |-> NoOccurrence, state |-> "DRAFT",
        counters |-> NoCounters, iteration |-> 1, num_completed |-> 0,
        num_failed |-> 0, verdict |-> "skipped"]]
  /\ finalizer = [f \in Finalizers |->
       [pc |-> "idle", state |-> "DRAFT", counters |-> NoCounters,
        execution_count |-> 0, listing |-> [r \in RunIds |-> "absent"],
        keys |-> {}]]
  /\ faults = 0

\* The steps of an invocation that has begun.
WorkerStep(w) ==
  \/ ClaimOccurrence(w) \/ Admit(w) \/ RecordBlocked(w)
  \/ StartRun(w) \/ WriteEvidence(w) \/ CompleteRun(w) \/ FailRun(w)
  \/ SettleClaim(w) \/ WriteCounters(w)

FinalizerStep(f) ==
  \/ BeginFinalizing(f) \/ Reread(f) \/ FailUnexpected(f)
  \/ RecordFinalization(f) \/ ListRuns(f) \/ ListKeys(f)
  \/ CompleteAudit(f) \/ FailAudit(f)
  \/ PutIntent(f) \/ RequestInvocation(f) \/ InvokeAggregation(f)
  \/ RecordInvocation(f)

Next ==
  \/ \E w \in Workers : \/ \E o \in Occurrences : Deliver(w, o)
                        \/ StartManually(w)
                        \/ WorkerStep(w)
                        \/ WorkerCrash(w)
  \/ \E f \in Finalizers : \/ FinalizerRead(f)
                           \/ FinalizerStep(f)
                           \/ FinalizerCrash(f)
  \/ ScheduleAudit
  \/ CancelAudit
  \/ ForceRecreate

Spec == Init /\ [][Next]_vars

\* A Lambda invocation that has begun goes on until it returns or crashes,
\* and EventBridge delivers the finalization event.  Nothing else is fair: no
\* occurrence need ever be delivered, no operator need act.
Fairness ==
  /\ \A w \in Workers : WF_vars(WorkerStep(w))
  /\ \A f \in Finalizers : WF_vars(FinalizerRead(f) \/ FinalizerStep(f))

FairSpec == Spec /\ Fairness

-----------------------------------------------------------------------------
(***************************************************************************)
(* Safety                                                                  *)
(***************************************************************************)

WorkerRecord ==
  [pc : WorkerPcs, occurrence : Occurrences \cup {NoOccurrence},
   state : LifecycleStates, counters : Counters, iteration : 1 .. MaxIterations,
   num_completed : Nat, num_failed : Nat, verdict : {"skipped", "failed"}]

FinalizerRecord ==
  [pc : FinalizerPcs, state : LifecycleStates, counters : Counters,
   execution_count : Nat \cup {NoCount},
   listing : [RunIds -> RunStatuses \cup {"absent"}], keys : SUBSET RunIds]

\* Every stored item and every invocation's local state has the shape the
\* code gives it.
TypeOK ==
  /\ LifecycleTypeOK
  /\ execution_counters \in Counters
  /\ finalization \in Nat \cup {NoCount}
  /\ claim \in [Occurrences -> ClaimStatuses]
  /\ runs \in [RunIds -> RunStatuses \cup {"absent"}]
  /\ evidence \in SUBSET RunIds
  /\ jobs \in [Finalizers -> JobStatuses]
  /\ invoked \in SUBSET Finalizers
  /\ worker \in [Workers -> WorkerRecord]
  /\ finalizer \in [Finalizers -> FinalizerRecord]
  /\ faults \in 0 .. MaxFaults

RunsOf(w) == {r \in RunIds : r[1] = w}

\* An intended execution is executed by one invocation at most: however often
\* the scheduler delivers an occurrence, and whichever deliveries crash, the
\* RUN records that exist for it all belong to the delivery that won the claim.
OneRunPerOccurrence ==
  \A v, w \in Workers :
    /\ worker[v].occurrence = worker[w].occurrence
    /\ worker[v].occurrence # NoOccurrence
    /\ \E r \in RunsOf(v) : runs[r] # "absent"
    /\ \E r \in RunsOf(w) : runs[r] # "absent"
    => v = w

\* A claim that says "completed" can be believed: one delivery of the
\* occurrence has all the runs the occurrence asked for, each with a COMPLETED
\* record and an evidence object, and no later crash, retry or failure handler
\* takes that away.
CompletedClaimIsBacked ==
  \A o \in Occurrences :
    claim[o] = "completed" =>
      \E w \in Workers :
        /\ worker[w].occurrence = o
        /\ \A i \in 1 .. Iterations[o] :
             runs[<<w, i>>] = "COMPLETED" /\ <<w, i>> \in evidence

\* A RUN record says COMPLETED only if its evidence object is in the bucket
\* (run() writes the object before the terminal status, and _failure_response
\* never writes COMPLETED).
CompletedRunHasEvidence ==
  RunsWith(runs, {"COMPLETED"}) \subseteq evidence

\* The counts the lifecycle is decided on never exceed the evidence: the
\* counter may lose updates to concurrent handlers, but every completion it
\* claims is a COMPLETED RUN record, and so is every execution that
\* finalization.execution_count claims.
CountsAreBacked ==
  LET completed == Cardinality(RunsWith(runs, {"COMPLETED"}))
  IN  /\ execution_counters.total_completed <= completed
      /\ finalization <= completed

\* An audit is COMPLETED only over evidence: there is a COMPLETED run with its
\* evidence object, although the finalizer decided on counters and listings
\* that others were changing, and on a count an earlier attempt may have left.
CompletedAuditHasEvidence ==
  lifecycle_state = "COMPLETED" =>
    RunsWith(runs, {"COMPLETED"}) \cap evidence # {}

\* However many deliveries of the finalization event overlap, crash and are
\* retried, at most one of them creates an aggregation job and invokes the
\* aggregation function, and only for a COMPLETED audit.
AtMostOneAggregation ==
  /\ \A f, g \in Finalizers :
       jobs[f] # "absent" /\ jobs[g] # "absent" => f = g
  /\ \A f \in Finalizers : jobs[f] # "absent" => lifecycle_state = "COMPLETED"
  /\ \A f \in invoked : jobs[f] \notin {"absent", "INTENT_RECORDED"}

-----------------------------------------------------------------------------
(***************************************************************************)
(* Liveness, under FairSpec                                                *)
(***************************************************************************)

\* Once a finalization handler has read an audit that is in its execution
\* window, the audit reaches a terminal state, whatever workers, operators and
\* other deliveries do meanwhile, unless the handlers crash.
FinalizationDecides ==
  \A f \in Finalizers :
    (finalizer[f].pc = "begin" /\ finalizer[f].state # "DRAFT")
      ~> \/ lifecycle_state \in TerminalStates
         \/ \E g \in Finalizers : finalizer[g].pc = "crashed"

\* A claimed occurrence is settled (completed, failed or skipped) unless its
\* delivery crashes.
ClaimIsSettled ==
  \A o \in Occurrences :
    (claim[o] = "claimed")
      ~> \/ claim[o] \in {"completed", "failed", "skipped"}
         \/ \E w \in Workers : worker[w].occurrence = o
                               /\ worker[w].pc = "crashed"

\* If the aggregation function is configured, a COMPLETED audit gets its
\* aggregation invoked, unless the handler crashes or the invocation is
\* recorded as failed.
AggregationFollowsCompletion ==
  (InvokerConfigured /\ lifecycle_state = "COMPLETED")
    ~> \/ invoked # {}
       \/ \E f \in Finalizers : \/ jobs[f] = "INVOCATION_FAILED"
                                \/ finalizer[f].pc = "crashed"

-----------------------------------------------------------------------------
(***************************************************************************)
(* What a document of the repository says and the code does not do.  It is *)
(* violated; PROJECT.json has the finding.                                 *)
(***************************************************************************)

\* docs/architecture/execution_lifecycle.md, "Completion Invariant": an audit
\* never moves to COMPLETED while execution evidence is unresolved.
CompletionInvariant ==
  [][lifecycle_state # "COMPLETED" /\ lifecycle_state' = "COMPLETED"
       => RunsWith(runs, {"STARTED"}) = {}]_vars

=============================================================================
