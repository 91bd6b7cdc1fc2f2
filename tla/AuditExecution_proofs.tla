----------------------- MODULE AuditExecution_proofs -----------------------
(***************************************************************************)
(* Proofs about AuditExecution, for any number of occurrences, workers,    *)
(* finalizers, iterations and faults: the lifecycle it implements, its     *)
(* types, the one aggregation; then who may execute an occurrence, and     *)
(* what stands behind COMPLETED, in a RUN record and in the audit.         *)
(***************************************************************************)
EXTENDS AuditExecution, AuditLifecycle_proofs, FiniteSetTheorems

(***************************************************************************)
(* AuditExecution implements AuditLifecycle                                *)
(***************************************************************************)

\* Every step of the execution window moves the audit along the lifecycle or
\* leaves it alone.
LEMMA NextMovesLifecycle == [Next]_vars => [LifecycleNext]_lifecycleVars
<1> SUFFICES ASSUME [Next]_vars
             PROVE  LifecycleNext \/ UNCHANGED lifecycleVars
  OBVIOUS
<1> USE TransitionAdvances
<1>1. ASSUME NEW w \in Workers, NEW o \in Occurrences, Deliver(w, o)
      PROVE  UNCHANGED lifecycleVars
  BY <1>1 DEF Deliver
<1>2. ASSUME NEW w \in Workers, StartManually(w) \/ WorkerCrash(w)
      PROVE  UNCHANGED lifecycleVars
  BY <1>2 DEF StartManually, WorkerCrash
<1>3. ASSUME NEW w \in Workers, WorkerStep(w)
      PROVE  LifecycleNext \/ UNCHANGED lifecycleVars
  <2>1. CASE Admit(w)
    BY <2>1 DEF Admit, LifecycleConflict
  <2>2. CASE ~ Admit(w)
    BY <1>3, <2>2 DEF WorkerStep, ClaimOccurrence, RecordBlocked, StartRun,
      WriteEvidence, CompleteRun, FailRun, SettleClaim, WriteCounters
  <2>. QED
    BY <2>1, <2>2
<1>4. ASSUME NEW f \in Finalizers, FinalizerRead(f) \/ FinalizerCrash(f)
      PROVE  UNCHANGED lifecycleVars
  BY <1>4 DEF FinalizerRead, FinalizerCrash
<1>5. ASSUME NEW f \in Finalizers, FinalizerStep(f)
      PROVE  LifecycleNext \/ UNCHANGED lifecycleVars
  <2>1. CASE BeginFinalizing(f)
    BY <2>1 DEF BeginFinalizing, LifecycleConflict, InvalidTransition
  <2>2. CASE FailUnexpected(f)
    BY <2>2 DEF FailUnexpected, LifecycleConflict
  <2>3. CASE CompleteAudit(f)
    BY <2>3 DEF CompleteAudit, LifecycleConflict
  <2>4. CASE FailAudit(f)
    BY <2>4 DEF FailAudit, LifecycleConflict
  <2>5. CASE Reread(f) \/ RecordFinalization(f) \/ ListRuns(f) \/ ListKeys(f)
             \/ PutIntent(f) \/ RequestInvocation(f) \/ InvokeAggregation(f)
             \/ RecordInvocation(f)
    BY <2>5 DEF Reread, RecordFinalization, ListRuns, ListKeys, PutIntent,
      RequestInvocation, InvokeAggregation, RecordInvocation
  <2>. QED
    BY <1>5, <2>1, <2>2, <2>3, <2>4, <2>5 DEF FinalizerStep
<1>6. CASE ScheduleAudit \/ CancelAudit \/ ForceRecreate
  BY <1>6 DEF ScheduleAudit, CancelAudit, ForceRecreate, LifecycleNext
<1>7. CASE UNCHANGED vars
  BY <1>7 DEF vars, lifecycleVars
<1>. QED
  BY <1>1, <1>2, <1>3, <1>4, <1>5, <1>6, <1>7 DEF Next

\* The handlers, whatever their snapshots, crashes and interleavings, implement
\* the lifecycle that AuditLifecycle promises.
THEOREM ExecutionImplementsLifecycle == Spec => LifecycleSpec
<1>1. Init => LifecycleInit
  BY DEF Init
<1>. QED
  BY <1>1, NextMovesLifecycle, PTL DEF Spec, LifecycleSpec

\* In the running system, too, the stored history is always a path of the
\* state machine that ends in the stored state.
THEOREM ExecutionHistoryIsPath == Spec => []HistoryIsPath
BY ExecutionImplementsLifecycle, HistoryPath, PTL

-----------------------------------------------------------------------------
(***************************************************************************)
(* Type correctness                                                        *)
(***************************************************************************)

\* The RUN record an invocation works on is one of the records it may have.
LEMMA RunOfIsRunId ==
  ASSUME TypeOK, NEW w \in Workers
  PROVE  RunOf(w) \in RunIds
BY DEF TypeOK, WorkerRecord, RunOf, RunIds

\* Moving an invocation to another program point keeps it well typed.
LEMMA WorkerGotoType ==
  ASSUME worker \in [Workers -> WorkerRecord],
         NEW w \in Workers, NEW pc \in WorkerPcs, WorkerGoto(w, pc)
  PROVE  worker' \in [Workers -> WorkerRecord]
BY DEF WorkerGoto, WorkerRecord

\* The same for a delivery of the finalization event.
LEMMA FinalizerGotoType ==
  ASSUME finalizer \in [Finalizers -> FinalizerRecord],
         NEW f \in Finalizers, NEW pc \in FinalizerPcs, FinalizerGoto(f, pc)
  PROVE  finalizer' \in [Finalizers -> FinalizerRecord]
BY DEF FinalizerGoto, FinalizerRecord

\* Spending a fault stays within the bound.
LEMMA FaultType ==
  ASSUME faults \in 0 .. MaxFaults, Fault \/ NoFault
  PROVE  faults' \in 0 .. MaxFaults
BY ExecutionAssumption DEF Fault, NoFault

\* Going on after a run keeps the worker well typed: the iteration never
\* passes the cap.
LEMMA AfterRunType ==
  ASSUME worker \in [Workers -> WorkerRecord],
         NEW w \in Workers, NEW outcome, AfterRun(w, outcome)
  PROVE  worker' \in [Workers -> WorkerRecord]
<1> DEFINE o == worker[w].occurrence
           more == o # NoOccurrence /\ worker[w].iteration < Iterations[o]
           pc == IF o = NoOccurrence THEN "done"
                 ELSE IF more THEN "start" ELSE "settle"
           One(condition) == IF condition THEN 1 ELSE 0
           iteration == worker[w].iteration + One(more)
           num_completed == worker[w].num_completed + One(outcome = "COMPLETED")
           num_failed == worker[w].num_failed + One(outcome = "FAILED")
<1>1. worker[w] \in WorkerRecord
  OBVIOUS
<1>2. pc \in WorkerPcs
  BY DEF WorkerPcs
<1>3. iteration \in 1 .. MaxIterations
  <2>1. /\ worker[w].iteration \in 1 .. MaxIterations
        /\ o \in Occurrences \cup {NoOccurrence}
    BY <1>1 DEF WorkerRecord
  <2>2. o \in Occurrences => Iterations[o] \in 1 .. MaxIterations
    BY ExecutionAssumption
  <2>. QED
    BY <2>1, <2>2, ExecutionAssumption
<1>4. num_completed \in Nat /\ num_failed \in Nat
  BY <1>1 DEF WorkerRecord
<1>5. worker' = [worker EXCEPT ![w] =
                   [@ EXCEPT !.pc = pc, !.iteration = iteration,
                             !.num_completed = num_completed,
                             !.num_failed = num_failed]]
  BY DEF AfterRun
<1> HIDE DEF pc, iteration, num_completed, num_failed, more, o, One
<1>6. [worker[w] EXCEPT !.pc = pc, !.iteration = iteration,
                        !.num_completed = num_completed,
                        !.num_failed = num_failed] \in WorkerRecord
  BY <1>1, <1>2, <1>3, <1>4 DEF WorkerRecord
<1>. QED
  BY <1>5, <1>6

\* A reading of the audit item is a well-typed snapshot.
LEMMA ReadAuditType ==
  ASSUME TypeOK, NEW f \in Finalizers, NEW otherwise \in FinalizerPcs,
         ReadAudit(f, otherwise)
  PROVE  finalizer' \in [Finalizers -> FinalizerRecord]
<1> DEFINE pc == IF lifecycle_state \in TerminalStates THEN "done"
                 ELSE IF lifecycle_state = "FINALIZING" THEN RetryPc
                 ELSE otherwise
           count == IF lifecycle_state = "FINALIZING" THEN finalization
                    ELSE execution_counters.total_completed
<1>1. pc \in FinalizerPcs
  BY DEF RetryPc, FinalizerPcs
<1>2. count \in Nat \cup {NoCount}
  BY DEF TypeOK, Counters
<1>3. /\ finalizer \in [Finalizers -> FinalizerRecord]
      /\ lifecycle_state \in LifecycleStates
      /\ execution_counters \in Counters
  BY DEF TypeOK, LifecycleTypeOK
<1>4. finalizer' = [finalizer EXCEPT ![f] =
                     [@ EXCEPT !.pc = pc, !.state = lifecycle_state,
                               !.counters = execution_counters,
                               !.execution_count = count]]
  BY DEF ReadAudit
<1> HIDE DEF pc, count
<1>5. [finalizer[f] EXCEPT !.pc = pc, !.state = lifecycle_state,
                           !.counters = execution_counters,
                           !.execution_count = count] \in FinalizerRecord
  BY <1>1, <1>2, <1>3 DEF FinalizerRecord
<1>. QED
  BY <1>3, <1>4, <1>5

\* A step of a worker keeps every item and every invocation well typed.
LEMMA WorkerType ==
  ASSUME TypeOK, LifecycleTypeOK', NEW w \in Workers,
         \/ \E o \in Occurrences : Deliver(w, o)
         \/ StartManually(w) \/ WorkerStep(w) \/ WorkerCrash(w)
  PROVE  TypeOK'
<1>1. /\ worker \in [Workers -> WorkerRecord]
      /\ worker[w] \in WorkerRecord
      /\ faults \in 0 .. MaxFaults
      /\ RunOf(w) \in RunIds
  BY RunOfIsRunId DEF TypeOK
<1>2. \A pc \in WorkerPcs :
        WorkerGoto(w, pc) => worker' \in [Workers -> WorkerRecord]
  BY <1>1, WorkerGotoType
<1>3. /\ \A s \in RunStatuses :
           [runs EXCEPT ![RunOf(w)] = s] \in [RunIds -> RunStatuses \cup {"absent"}]
      /\ evidence \cup {RunOf(w)} \in SUBSET RunIds
  BY <1>1 DEF TypeOK
<1>4. \A s \in ClaimStatuses :
        [claim EXCEPT ![worker[w].occurrence] = s] \in [Occurrences -> ClaimStatuses]
  BY DEF TypeOK
<1>5. Fault \/ NoFault => faults' \in 0 .. MaxFaults
  BY <1>1, FaultType
<1> USE DEF auditVars, runVars, jobVars
<1>6. ASSUME NEW o \in Occurrences, Deliver(w, o)
      PROVE  TypeOK'
  <2>1. [worker[w] EXCEPT !.pc = "claim", !.occurrence = o,
                          !.state = lifecycle_state,
                          !.counters = execution_counters] \in WorkerRecord
    <3>1. /\ "claim" \in WorkerPcs
          /\ lifecycle_state \in LifecycleStates
          /\ execution_counters \in Counters
      BY DEF WorkerPcs, TypeOK, LifecycleTypeOK
    <3>. QED
      BY <1>1, <3>1 DEF WorkerRecord
  <2>2. worker' \in [Workers -> WorkerRecord]
    BY <1>1, <1>6, <2>1 DEF Deliver
  <2>. QED
    BY <1>6, <2>2 DEF Deliver, TypeOK
<1>7. CASE StartManually(w)
  <2>1. worker' \in [Workers -> WorkerRecord]
    BY <1>2, <1>7 DEF StartManually, WorkerPcs
  <2>. QED
    BY <1>7, <2>1 DEF StartManually, TypeOK
<1>8. CASE WorkerCrash(w)
  <2>1. worker' \in [Workers -> WorkerRecord]
    BY <1>2, <1>8 DEF WorkerCrash, WorkerPcs
  <2>. QED
    BY <1>5, <1>8, <2>1 DEF WorkerCrash, TypeOK
<1>9. CASE ClaimOccurrence(w)
  <2>1. worker' \in [Workers -> WorkerRecord]
    BY <1>2, <1>9 DEF ClaimOccurrence, WorkerPcs
  <2>2. claim' \in [Occurrences -> ClaimStatuses]
    BY <1>4, <1>9 DEF ClaimOccurrence, ClaimStatuses, TypeOK
  <2>. QED
    BY <1>9, <2>1, <2>2 DEF ClaimOccurrence, TypeOK
<1>10. CASE Admit(w)
  <2>1. ASSUME NEW verdict \in {"skipped", "failed"}, Block(w, verdict)
        PROVE  worker' \in [Workers -> WorkerRecord]
    <3>1. "blocked" \in WorkerPcs
      BY DEF WorkerPcs
    <3>. QED
      BY <1>1, <2>1, <3>1 DEF Block, WorkerRecord
  <2>2. "start" \in WorkerPcs
    BY DEF WorkerPcs
  <2>3. worker' \in [Workers -> WorkerRecord]
    BY <1>2, <1>10, <2>1, <2>2 DEF Admit
  <2>4. faults' \in 0 .. MaxFaults
    BY <1>5, <1>10 DEF Admit
  <2>. QED
    BY <1>10, <2>3, <2>4 DEF Admit, TypeOK
<1>11. CASE RecordBlocked(w)
  <2>1. worker' \in [Workers -> WorkerRecord]
    BY <1>2, <1>11 DEF RecordBlocked, WorkerPcs
  <2>2. worker[w].verdict \in ClaimStatuses
    BY <1>1 DEF WorkerRecord, ClaimStatuses
  <2>3. claim' \in [Occurrences -> ClaimStatuses]
    BY <1>4, <1>11, <2>2 DEF RecordBlocked
  <2>. QED
    BY <1>11, <2>1, <2>3 DEF RecordBlocked, TypeOK
<1>12. CASE StartRun(w)
  <2>1. worker' \in [Workers -> WorkerRecord]
    BY <1>2, <1>12 DEF StartRun, WorkerPcs
  <2>2. runs' \in [RunIds -> RunStatuses \cup {"absent"}]
    BY <1>3, <1>12 DEF StartRun, RunStatuses, TypeOK
  <2>3. faults' \in 0 .. MaxFaults
    BY <1>5, <1>12 DEF StartRun
  <2>. QED
    BY <1>12, <2>1, <2>2, <2>3 DEF StartRun, TypeOK
<1>13. CASE WriteEvidence(w)
  <2>1. worker' \in [Workers -> WorkerRecord]
    BY <1>2, <1>13 DEF WriteEvidence, WorkerPcs
  <2>2. evidence' \in SUBSET RunIds
    BY <1>3, <1>13 DEF WriteEvidence, TypeOK
  <2>3. faults' \in 0 .. MaxFaults
    BY <1>5, <1>13 DEF WriteEvidence
  <2>. QED
    BY <1>13, <2>1, <2>2, <2>3 DEF WriteEvidence, TypeOK
<1>14. CASE CompleteRun(w)
  <2>1. worker' \in [Workers -> WorkerRecord]
    BY <1>1, <1>2, <1>14, AfterRunType DEF CompleteRun, WorkerPcs
  <2>2. runs' \in [RunIds -> RunStatuses \cup {"absent"}]
    BY <1>3, <1>14 DEF CompleteRun, RunStatuses, TypeOK
  <2>3. faults' \in 0 .. MaxFaults
    BY <1>5, <1>14 DEF CompleteRun
  <2>. QED
    BY <1>14, <2>1, <2>2, <2>3 DEF CompleteRun, TypeOK
<1>15. CASE FailRun(w)
  <2>1. worker' \in [Workers -> WorkerRecord]
    BY <1>1, <1>15, AfterRunType DEF FailRun
  <2>2. runs' \in [RunIds -> RunStatuses \cup {"absent"}]
    BY <1>3, <1>15 DEF FailRun, RunStatuses, TypeOK
  <2>3. faults' \in 0 .. MaxFaults
    BY <1>5, <1>15 DEF FailRun
  <2>. QED
    BY <1>15, <2>1, <2>2, <2>3 DEF FailRun, TypeOK
<1>16. CASE SettleClaim(w)
  <2>1. worker' \in [Workers -> WorkerRecord]
    BY <1>2, <1>16 DEF SettleClaim, WorkerPcs
  <2>2. claim' \in [Occurrences -> ClaimStatuses]
    BY <1>4, <1>16 DEF SettleClaim, ClaimStatuses
  <2>. QED
    BY <1>16, <2>1, <2>2 DEF SettleClaim, TypeOK
<1>17. CASE WriteCounters(w)
  <2>1. worker' \in [Workers -> WorkerRecord]
    BY <1>2, <1>17 DEF WriteCounters, WorkerPcs
  <2>2. /\ worker[w].counters \in Counters
        /\ worker[w].num_completed \in Nat
        /\ worker[w].num_failed \in Nat
    BY <1>1 DEF WorkerRecord
  <2>3. execution_counters' \in Counters
    BY <1>17, <2>2 DEF WriteCounters, Counters
  <2>. QED
    BY <1>17, <2>1, <2>3 DEF WriteCounters, TypeOK
<1>. QED
  BY <1>6, <1>7, <1>8, <1>9, <1>10, <1>11, <1>12, <1>13, <1>14, <1>15, <1>16,
    <1>17 DEF WorkerStep

\* A step of a finalizer keeps every item and every invocation well typed.
LEMMA FinalizerType ==
  ASSUME TypeOK, LifecycleTypeOK', NEW f \in Finalizers,
         FinalizerRead(f) \/ FinalizerStep(f) \/ FinalizerCrash(f)
  PROVE  TypeOK'
<1>1. /\ finalizer \in [Finalizers -> FinalizerRecord]
      /\ finalizer[f] \in FinalizerRecord
      /\ faults \in 0 .. MaxFaults
  BY DEF TypeOK
<1>2. \A pc \in FinalizerPcs :
        FinalizerGoto(f, pc) => finalizer' \in [Finalizers -> FinalizerRecord]
  BY <1>1, FinalizerGotoType
<1>3. \A s \in JobStatuses :
        [jobs EXCEPT ![f] = s] \in [Finalizers -> JobStatuses]
  BY DEF TypeOK
<1>4. Fault \/ NoFault => faults' \in 0 .. MaxFaults
  BY <1>1, FaultType
<1> USE DEF auditVars, runVars, jobVars
<1>5. CASE FinalizerRead(f)
  <2>1. finalizer' \in [Finalizers -> FinalizerRecord]
    BY <1>5, ReadAuditType DEF FinalizerRead, FinalizerPcs
  <2>. QED
    BY <1>5, <2>1 DEF FinalizerRead, TypeOK
<1>6. CASE BeginFinalizing(f)
  <2>1. finalizer' \in [Finalizers -> FinalizerRecord]
    BY <1>2, <1>6 DEF BeginFinalizing, FinalizerPcs
  <2>. QED
    BY <1>6, <2>1 DEF BeginFinalizing, TypeOK
<1>7. CASE Reread(f)
  <2>1. finalizer' \in [Finalizers -> FinalizerRecord]
    BY <1>7, ReadAuditType DEF Reread, FinalizerPcs
  <2>. QED
    BY <1>7, <2>1 DEF Reread, TypeOK
<1>8. CASE FailUnexpected(f)
  <2>1. finalizer' \in [Finalizers -> FinalizerRecord]
    BY <1>2, <1>8 DEF FailUnexpected, FinalizerPcs
  <2>. QED
    BY <1>8, <2>1 DEF FailUnexpected, TypeOK
<1>9. CASE RecordFinalization(f)
  <2>1. finalizer' \in [Finalizers -> FinalizerRecord]
    BY <1>2, <1>9 DEF RecordFinalization, FinalizerPcs
  <2>2. finalization' \in Nat \cup {NoCount}
    BY <1>1, <1>9 DEF RecordFinalization, FinalizerRecord
  <2>. QED
    BY <1>9, <2>1, <2>2 DEF RecordFinalization, TypeOK
<1>10. CASE ListRuns(f)
  <2>1. "list_keys" \in FinalizerPcs /\ runs \in [RunIds -> RunStatuses \cup {"absent"}]
    BY DEF FinalizerPcs, TypeOK
  <2>2. finalizer' \in [Finalizers -> FinalizerRecord]
    BY <1>1, <1>10, <2>1 DEF ListRuns, FinalizerRecord
  <2>. QED
    BY <1>10, <2>2 DEF ListRuns, TypeOK
<1>11. CASE ListKeys(f)
  <2>1. "complete" \in FinalizerPcs /\ "fail" \in FinalizerPcs
        /\ evidence \in SUBSET RunIds
    BY DEF FinalizerPcs, TypeOK
  <2>2. PICK pc \in FinalizerPcs :
          finalizer' = [finalizer EXCEPT ![f].keys = evidence, ![f].pc = pc]
    BY <1>11, <2>1 DEF ListKeys
  <2>3. finalizer' \in [Finalizers -> FinalizerRecord]
    BY <1>1, <2>1, <2>2 DEF FinalizerRecord
  <2>. QED
    BY <1>11, <2>3 DEF ListKeys, TypeOK
<1>12. CASE CompleteAudit(f)
  <2>1. finalizer' \in [Finalizers -> FinalizerRecord]
    BY <1>2, <1>12 DEF CompleteAudit, FinalizerPcs
  <2>. QED
    BY <1>12, <2>1 DEF CompleteAudit, TypeOK
<1>13. CASE FailAudit(f)
  <2>1. finalizer' \in [Finalizers -> FinalizerRecord]
    BY <1>2, <1>13 DEF FailAudit, FinalizerPcs
  <2>. QED
    BY <1>13, <2>1 DEF FailAudit, TypeOK
<1>14. CASE PutIntent(f)
  <2>1. finalizer' \in [Finalizers -> FinalizerRecord]
    BY <1>2, <1>14 DEF PutIntent, FinalizerPcs
  <2>2. jobs' \in [Finalizers -> JobStatuses]
    BY <1>3, <1>14 DEF PutIntent, JobStatuses
  <2>. QED
    BY <1>14, <2>1, <2>2 DEF PutIntent, TypeOK
<1>15. CASE RequestInvocation(f)
  <2>1. finalizer' \in [Finalizers -> FinalizerRecord]
    BY <1>2, <1>15 DEF RequestInvocation, FinalizerPcs
  <2>2. jobs' \in [Finalizers -> JobStatuses]
    BY <1>3, <1>15 DEF RequestInvocation, JobStatuses
  <2>. QED
    BY <1>15, <2>1, <2>2 DEF RequestInvocation, TypeOK
<1>16. CASE InvokeAggregation(f)
  <2>1. finalizer' \in [Finalizers -> FinalizerRecord]
    BY <1>2, <1>16 DEF InvokeAggregation, FinalizerPcs
  <2>2. faults' \in 0 .. MaxFaults
    BY <1>4, <1>16 DEF InvokeAggregation
  <2>. QED
    BY <1>16, <2>1, <2>2 DEF InvokeAggregation, TypeOK
<1>17. CASE RecordInvocation(f)
  <2>1. finalizer' \in [Finalizers -> FinalizerRecord]
    BY <1>2, <1>17 DEF RecordInvocation, FinalizerPcs
  <2>2. jobs' \in [Finalizers -> JobStatuses]
    BY <1>3, <1>17 DEF RecordInvocation, JobStatuses
  <2>. QED
    BY <1>17, <2>1, <2>2 DEF RecordInvocation, TypeOK
<1>18. CASE FinalizerCrash(f)
  <2>1. finalizer' \in [Finalizers -> FinalizerRecord]
    BY <1>2, <1>18 DEF FinalizerCrash, FinalizerPcs
  <2>. QED
    BY <1>4, <1>18, <2>1 DEF FinalizerCrash, TypeOK
<1>. QED
  BY <1>5, <1>6, <1>7, <1>8, <1>9, <1>10, <1>11, <1>12, <1>13, <1>14, <1>15,
    <1>16, <1>17, <1>18 DEF FinalizerStep

\* The initial state is well typed.
LEMMA InitType == Init => TypeOK
<1> SUFFICES ASSUME Init PROVE TypeOK
  OBVIOUS
<1>1. NoCounters \in Counters /\ [NoCounters EXCEPT !.present = TRUE] \in Counters
  BY DEF NoCounters, Counters
<1>2. LifecycleTypeOK
  BY DEF Init, LifecycleInit, LifecycleTypeOK, LifecycleStates
<1>3. /\ finalization \in Nat \cup {NoCount}
      /\ faults \in 0 .. MaxFaults
  BY ExecutionAssumption DEF Init
<1>7. execution_counters \in Counters
  <2>1. \/ execution_counters = NoCounters
        \/ execution_counters = [NoCounters EXCEPT !.present = TRUE]
    BY DEF Init
  <2>. QED
    BY <1>1, <2>1
<1>4. /\ claim \in [Occurrences -> ClaimStatuses]
      /\ runs \in [RunIds -> RunStatuses \cup {"absent"}]
      /\ jobs \in [Finalizers -> JobStatuses]
      /\ evidence \in SUBSET RunIds
      /\ invoked \in SUBSET Finalizers
  BY DEF Init, ClaimStatuses, JobStatuses
<1>5. worker \in [Workers -> WorkerRecord]
  <2>1. /\ "idle" \in WorkerPcs
        /\ "DRAFT" \in LifecycleStates
        /\ 1 \in 1 .. MaxIterations
    BY ExecutionAssumption DEF WorkerPcs, LifecycleStates
  <2>. QED
    BY <1>1, <2>1 DEF Init, WorkerRecord
<1>6. finalizer \in [Finalizers -> FinalizerRecord]
  <2>1. "idle" \in FinalizerPcs /\ "DRAFT" \in LifecycleStates
    BY DEF FinalizerPcs, LifecycleStates
  <2>. QED
    BY <1>1, <2>1 DEF Init, FinalizerRecord
<1>. QED
  BY <1>2, <1>3, <1>4, <1>5, <1>6, <1>7 DEF TypeOK

\* Every step keeps the types.
LEMMA NextType == TypeOK /\ [Next]_vars => TypeOK'
<1> SUFFICES ASSUME TypeOK, [Next]_vars PROVE TypeOK'
  OBVIOUS
<1>1. LifecycleTypeOK'
  BY NextMovesLifecycle, LifecycleTypeStep DEF TypeOK
<1>2. CASE ScheduleAudit \/ CancelAudit \/ ForceRecreate
  BY <1>1, <1>2 DEF ScheduleAudit, CancelAudit, ForceRecreate, TypeOK,
    auditVars, runVars, jobVars
<1>3. CASE UNCHANGED vars
  BY <1>1, <1>3 DEF vars, TypeOK
<1>4. ASSUME NEW w \in Workers,
             \/ \E o \in Occurrences : Deliver(w, o)
             \/ StartManually(w) \/ WorkerStep(w) \/ WorkerCrash(w)
      PROVE  TypeOK'
  BY <1>1, <1>4, WorkerType
<1>5. ASSUME NEW f \in Finalizers,
             FinalizerRead(f) \/ FinalizerStep(f) \/ FinalizerCrash(f)
      PROVE  TypeOK'
  BY <1>1, <1>5, FinalizerType
<1>. QED
  BY <1>2, <1>3, <1>4, <1>5 DEF Next

\* The audit item, the RUN, OCCURRENCE and AGGJOB items and the local state of
\* every handler invocation keep their shape in every behaviour.
THEOREM TypeCorrect == Spec => []TypeOK
BY InitType, NextType, PTL DEF Spec

-----------------------------------------------------------------------------
(***************************************************************************)
(* At most one aggregation                                                 *)
(*                                                                         *)
(* The invariant names the finalizer that owns the aggregation: the one    *)
(* that won FINALIZING -> COMPLETED, from that transition until its job    *)
(* exists, and for ever after.                                             *)
(***************************************************************************)

AggregationPcs == {"intent", "request", "invoke", "invoke_failed", "accept"}

Owner(f) == finalizer[f].pc \in AggregationPcs \/ jobs[f] # "absent"

AggregationInv ==
  /\ \A f \in Finalizers : Owner(f) => lifecycle_state = "COMPLETED"
  /\ \A f, g \in Finalizers : Owner(f) /\ Owner(g) => f = g
  /\ \A f \in Finalizers :
       finalizer[f].pc = "intent" => jobs[f] = "absent"
  /\ \A f \in Finalizers :
       finalizer[f].pc \in {"invoke", "invoke_failed", "accept"} =>
         jobs[f] = "INVOCATION_REQUESTED"
  /\ \A f \in invoked : jobs[f] \notin {"absent", "INTENT_RECORDED"}

\* Nothing takes an audit out of COMPLETED.
LEMMA CompletedIsFinal ==
  ASSUME LifecycleTypeOK, [LifecycleNext]_lifecycleVars,
         lifecycle_state = "COMPLETED"
  PROVE  lifecycle_state' = "COMPLETED"
<1>1. TRANSITIONS[lifecycle_state] = {}
  BY TransitionsStayInStates DEF LifecycleTypeOK, TerminalStates
<1>. QED
  BY <1>1 DEF LifecycleNext, Advance, Recreate, lifecycleVars

\* What moving a finalizer does to the program points.
LEMMA FinalizerGotoPc ==
  ASSUME finalizer \in [Finalizers -> FinalizerRecord],
         NEW f \in Finalizers, NEW pc, FinalizerGoto(f, pc)
  PROVE  /\ finalizer'[f].pc = pc
         /\ \A g \in Finalizers : g # f => finalizer'[g] = finalizer[g]
BY DEF FinalizerGoto, FinalizerRecord

\* A handler that reads the audit never lands among the aggregation steps.
LEMMA ReadAuditPc ==
  ASSUME finalizer \in [Finalizers -> FinalizerRecord],
         NEW f \in Finalizers, NEW otherwise, ReadAudit(f, otherwise)
  PROVE  /\ finalizer'[f].pc \in {"done", "list_runs", "fail", otherwise}
         /\ \A g \in Finalizers : g # f => finalizer'[g] = finalizer[g]
BY DEF ReadAudit, RetryPc, FinalizerRecord

\* Every step preserves the ownership invariant.
LEMMA AggregationStep ==
  ASSUME TypeOK, AggregationInv, [Next]_vars
  PROVE  AggregationInv'
<1>1. lifecycle_state = "COMPLETED" => lifecycle_state' = "COMPLETED"
  BY CompletedIsFinal, NextMovesLifecycle DEF TypeOK
<1>2. /\ finalizer \in [Finalizers -> FinalizerRecord]
      /\ jobs \in [Finalizers -> JobStatuses]
      /\ invoked \subseteq Finalizers
  BY DEF TypeOK
<1>3. CASE UNCHANGED <<finalizer, jobs, invoked>>
  BY <1>1, <1>3 DEF AggregationInv, Owner
<1>4. ASSUME NEW f \in Finalizers,
             finalizer'[f].pc \notin AggregationPcs,
             \A g \in Finalizers : g # f => finalizer'[g] = finalizer[g],
             UNCHANGED <<jobs, invoked>>
      PROVE  AggregationInv'
  BY <1>1, <1>4 DEF AggregationInv, Owner, AggregationPcs
<1> USE DEF jobVars
<1>5. ASSUME NEW f \in Finalizers,
             FinalizerRead(f) \/ Reread(f)
      PROVE  AggregationInv'
  BY <1>2, <1>4, <1>5, ReadAuditPc DEF FinalizerRead, Reread, AggregationPcs
<1>6. ASSUME NEW f \in Finalizers,
             BeginFinalizing(f) \/ FailUnexpected(f) \/ RecordFinalization(f)
             \/ FailAudit(f) \/ FinalizerCrash(f)
      PROVE  AggregationInv'
  <2>1. PICK pc \in FinalizerPcs \ AggregationPcs : FinalizerGoto(f, pc)
    BY <1>6 DEF BeginFinalizing, FailUnexpected, RecordFinalization, FailAudit,
      FinalizerCrash, FinalizerPcs, AggregationPcs
  <2>2. UNCHANGED <<jobs, invoked>>
    BY <1>6 DEF BeginFinalizing, FailUnexpected, RecordFinalization, FailAudit,
      FinalizerCrash
  <2>. QED
    BY <1>2, <1>4, <2>1, <2>2, FinalizerGotoPc
<1>7. ASSUME NEW f \in Finalizers, ListRuns(f) \/ ListKeys(f)
      PROVE  AggregationInv'
  <2>1. /\ finalizer'[f].pc \in {"list_keys", "complete", "fail"}
        /\ \A g \in Finalizers : g # f => finalizer'[g] = finalizer[g]
    <3>1. CASE ListRuns(f)
      BY <1>2, <3>1 DEF ListRuns, FinalizerRecord
    <3>2. CASE ListKeys(f)
      <4>1. PICK pc \in {"complete", "fail"} :
              finalizer' = [finalizer EXCEPT ![f].keys = evidence, ![f].pc = pc]
        BY <3>2 DEF ListKeys
      <4>. QED
        BY <1>2, <4>1 DEF FinalizerRecord
    <3>. QED
      BY <1>7, <3>1, <3>2
  <2>. QED
    BY <1>4, <1>7, <2>1 DEF ListRuns, ListKeys, AggregationPcs
<1>8. ASSUME NEW f \in Finalizers, CompleteAudit(f)
      PROVE  AggregationInv'
  <2>1. CASE Transition("FINALIZING", "COMPLETED") /\ FinalizerGoto(f, "intent")
    <3>1. lifecycle_state = "FINALIZING" /\ lifecycle_state' = "COMPLETED"
      BY <2>1 DEF Transition, Record
    <3>2. \A g \in Finalizers : ~ Owner(g)
      BY <3>1 DEF AggregationInv
    <3>3. UNCHANGED <<jobs, invoked>>
      BY <1>8 DEF CompleteAudit
    <3>4. /\ finalizer'[f].pc = "intent"
          /\ \A g \in Finalizers : g # f => finalizer'[g] = finalizer[g]
      BY <1>2, <2>1, FinalizerGotoPc
    <3>. QED
      BY <3>1, <3>2, <3>3, <3>4 DEF AggregationInv, Owner
  <2>2. CASE FinalizerGoto(f, "raised")
    BY <1>2, <1>4, <1>8, <2>2, FinalizerGotoPc
      DEF CompleteAudit, AggregationPcs
  <2>. QED
    BY <1>8, <2>1, <2>2 DEF CompleteAudit
<1>9. ASSUME NEW f \in Finalizers, PutIntent(f)
      PROVE  AggregationInv'
  <2>1. /\ finalizer'[f].pc \in {"request", "done"}
        /\ \A g \in Finalizers : g # f => finalizer'[g] = finalizer[g]
    BY <1>2, <1>9, FinalizerGotoPc DEF PutIntent
  <2>2. /\ finalizer[f].pc = "intent"
        /\ jobs' = [jobs EXCEPT ![f] = "INTENT_RECORDED"]
        /\ UNCHANGED invoked
    BY <1>9 DEF PutIntent
  <2>. QED
    BY <1>1, <1>2, <2>1, <2>2 DEF AggregationInv, Owner, AggregationPcs
<1>10. ASSUME NEW f \in Finalizers, RequestInvocation(f)
       PROVE  AggregationInv'
  <2>1. /\ finalizer'[f].pc = "invoke"
        /\ \A g \in Finalizers : g # f => finalizer'[g] = finalizer[g]
    BY <1>2, <1>10, FinalizerGotoPc DEF RequestInvocation
  <2>2. /\ finalizer[f].pc = "request"
        /\ jobs' = [jobs EXCEPT ![f] = "INVOCATION_REQUESTED"]
        /\ UNCHANGED invoked
    BY <1>10 DEF RequestInvocation
  <2>. QED
    BY <1>1, <1>2, <2>1, <2>2 DEF AggregationInv, Owner, AggregationPcs
<1>11. ASSUME NEW f \in Finalizers, InvokeAggregation(f)
       PROVE  AggregationInv'
  <2>1. /\ finalizer'[f].pc \in {"accept", "invoke_failed"}
        /\ \A g \in Finalizers : g # f => finalizer'[g] = finalizer[g]
    BY <1>2, <1>11, FinalizerGotoPc DEF InvokeAggregation
  <2>2. /\ finalizer[f].pc = "invoke"
        /\ invoked' \subseteq invoked \cup {f}
        /\ UNCHANGED jobs
    BY <1>11 DEF InvokeAggregation
  <2>. QED
    BY <1>1, <1>2, <2>1, <2>2 DEF AggregationInv, Owner, AggregationPcs
<1>12. ASSUME NEW f \in Finalizers, RecordInvocation(f)
       PROVE  AggregationInv'
  <2>1. /\ finalizer'[f].pc = "done"
        /\ \A g \in Finalizers : g # f => finalizer'[g] = finalizer[g]
    BY <1>2, <1>12, FinalizerGotoPc DEF RecordInvocation
  <2>2. PICK s \in {"ACCEPTED", "INVOCATION_FAILED"} :
          jobs' = [jobs EXCEPT ![f] = s]
    BY <1>12 DEF RecordInvocation
  <2>3. finalizer[f].pc \in {"accept", "invoke_failed"} /\ UNCHANGED invoked
    BY <1>12 DEF RecordInvocation
  <2>. QED
    BY <1>1, <1>2, <2>1, <2>2, <2>3 DEF AggregationInv, Owner, AggregationPcs
<1>13. ASSUME NEW w \in Workers,
              \/ \E o \in Occurrences : Deliver(w, o)
              \/ StartManually(w) \/ WorkerStep(w) \/ WorkerCrash(w)
       PROVE  UNCHANGED <<finalizer, jobs, invoked>>
  BY <1>13 DEF Deliver, StartManually, WorkerCrash, WorkerStep, ClaimOccurrence,
    Admit, RecordBlocked, StartRun, WriteEvidence, CompleteRun, FailRun,
    SettleClaim, WriteCounters
<1>14. ScheduleAudit \/ CancelAudit \/ ForceRecreate \/ UNCHANGED vars
         => UNCHANGED <<finalizer, jobs, invoked>>
  BY DEF ScheduleAudit, CancelAudit, ForceRecreate, vars
<1>. QED
  BY <1>3, <1>5, <1>6, <1>7, <1>8, <1>9, <1>10, <1>11, <1>12, <1>13, <1>14
    DEF Next, FinalizerStep

\* However many deliveries of the finalization event overlap, at most one
\* creates an aggregation job, and only for a COMPLETED audit.
THEOREM AggregationIsUnique == Spec => []AtMostOneAggregation
<1>1. Init => AggregationInv
  BY DEF Init, AggregationInv, Owner, AggregationPcs
<1>2. AggregationInv => AtMostOneAggregation
  BY DEF AggregationInv, AtMostOneAggregation, Owner
<1>. QED
  BY <1>1, <1>2, AggregationStep, TypeCorrect, PTL DEF Spec

-----------------------------------------------------------------------------
(***************************************************************************)
(* The runs of an audit and the evidence behind them                       *)
(***************************************************************************)

\* What a step of worker w does to the other workers.
OthersKeep(w) == \A v \in Workers : v # w => worker'[v] = worker[v]

\* Moving a worker changes its program point and nothing else.
LEMMA WorkerGotoFields ==
  ASSUME worker \in [Workers -> WorkerRecord],
         NEW w \in Workers, NEW pc, WorkerGoto(w, pc)
  PROVE  /\ OthersKeep(w)
         /\ worker'[w].pc = pc
         /\ worker'[w].occurrence = worker[w].occurrence
         /\ worker'[w].iteration = worker[w].iteration
         /\ worker'[w].counters = worker[w].counters
         /\ worker'[w].num_completed = worker[w].num_completed
         /\ worker'[w].num_failed = worker[w].num_failed
BY DEF WorkerGoto, WorkerRecord, OthersKeep

\* Blocking a worker sets its verdict besides.
LEMMA BlockFields ==
  ASSUME worker \in [Workers -> WorkerRecord],
         NEW w \in Workers, NEW verdict, Block(w, verdict)
  PROVE  /\ OthersKeep(w)
         /\ worker'[w].pc = "blocked"
         /\ worker'[w].occurrence = worker[w].occurrence
         /\ worker'[w].iteration = worker[w].iteration
         /\ worker'[w].counters = worker[w].counters
         /\ worker'[w].num_completed = worker[w].num_completed
         /\ worker'[w].num_failed = worker[w].num_failed
BY DEF Block, WorkerRecord, OthersKeep

\* A delivery sets the occurrence and takes the snapshot.
LEMMA DeliverFields ==
  ASSUME worker \in [Workers -> WorkerRecord],
         NEW w \in Workers, NEW o, Deliver(w, o)
  PROVE  /\ OthersKeep(w)
         /\ worker[w].pc = "idle"
         /\ worker'[w].pc = "claim"
         /\ worker'[w].occurrence = o
         /\ worker'[w].iteration = worker[w].iteration
         /\ worker'[w].counters = execution_counters
         /\ worker'[w].num_completed = worker[w].num_completed
         /\ worker'[w].num_failed = worker[w].num_failed
BY DEF Deliver, WorkerRecord, OthersKeep

\* After a run the worker ends, settles or goes on to a later iteration.
LEMMA AfterRunFields ==
  ASSUME worker \in [Workers -> WorkerRecord],
         NEW w \in Workers, NEW outcome, AfterRun(w, outcome)
  PROVE  /\ OthersKeep(w)
         /\ worker'[w].occurrence = worker[w].occurrence
         /\ worker'[w].counters = worker[w].counters
         /\ \/ /\ worker'[w].pc = "start"
               /\ worker[w].occurrence # NoOccurrence
               /\ worker'[w].iteration = worker[w].iteration + 1
            \/ /\ worker'[w].pc \in {"settle", "done"}
               /\ worker'[w].iteration = worker[w].iteration
         /\ outcome # "COMPLETED" =>
              worker'[w].num_completed = worker[w].num_completed
<1> DEFINE o == worker[w].occurrence
           more == o # NoOccurrence /\ worker[w].iteration < Iterations[o]
           One(condition) == IF condition THEN 1 ELSE 0
           pc == IF o = NoOccurrence THEN "done"
                 ELSE IF more THEN "start" ELSE "settle"
           iteration == worker[w].iteration + One(more)
           num_completed == worker[w].num_completed + One(outcome = "COMPLETED")
           num_failed == worker[w].num_failed + One(outcome = "FAILED")
<1>1. worker' = [worker EXCEPT ![w] =
                   [worker[w] EXCEPT !.pc = pc, !.iteration = iteration,
                                     !.num_completed = num_completed,
                                     !.num_failed = num_failed]]
  BY DEF AfterRun
<1>2. worker[w].iteration \in Int /\ worker[w].num_completed \in Int
  BY DEF WorkerRecord
<1>3. \/ more /\ pc = "start" /\ iteration = worker[w].iteration + 1
      \/ pc \in {"settle", "done"} /\ iteration = worker[w].iteration
  BY <1>2
<1>4. outcome # "COMPLETED" => num_completed = worker[w].num_completed
  BY <1>2
<1> HIDE DEF pc, iteration, num_completed, num_failed, One
<1>5. /\ OthersKeep(w)
      /\ worker'[w].pc = pc
      /\ worker'[w].iteration = iteration
      /\ worker'[w].num_completed = num_completed
      /\ worker'[w].occurrence = worker[w].occurrence
      /\ worker'[w].counters = worker[w].counters
  BY <1>1 DEF WorkerRecord, OthersKeep
<1>. QED
  BY <1>3, <1>4, <1>5

\* What a run adds to the counts of its worker, and when the worker goes on.
LEMMA AfterRunCounts ==
  ASSUME worker \in [Workers -> WorkerRecord],
         NEW w \in Workers, NEW outcome \in {"COMPLETED", "FAILED"},
         AfterRun(w, outcome)
  PROVE  /\ worker'[w].pc = "start" =>
              /\ worker[w].iteration < Iterations[worker[w].occurrence]
              /\ worker'[w].iteration = worker[w].iteration + 1
         /\ worker'[w].pc = "settle" =>
              /\ worker[w].occurrence # NoOccurrence
              /\ ~ (worker[w].iteration < Iterations[worker[w].occurrence])
         /\ outcome = "COMPLETED" =>
              /\ worker'[w].num_completed = worker[w].num_completed + 1
              /\ worker'[w].num_failed = worker[w].num_failed
         /\ outcome = "FAILED" => worker'[w].num_failed > 0
<1> DEFINE o == worker[w].occurrence
           more == o # NoOccurrence /\ worker[w].iteration < Iterations[o]
           One(condition) == IF condition THEN 1 ELSE 0
           pc == IF o = NoOccurrence THEN "done"
                 ELSE IF more THEN "start" ELSE "settle"
           iteration == worker[w].iteration + One(more)
           num_completed == worker[w].num_completed + One(outcome = "COMPLETED")
           num_failed == worker[w].num_failed + One(outcome = "FAILED")
<1>1. worker' = [worker EXCEPT ![w] =
                   [worker[w] EXCEPT !.pc = pc, !.iteration = iteration,
                                     !.num_completed = num_completed,
                                     !.num_failed = num_failed]]
  BY DEF AfterRun
<1>2. /\ worker[w].iteration \in Int
      /\ worker[w].num_completed \in Nat
      /\ worker[w].num_failed \in Nat
  BY DEF WorkerRecord
<1>3. pc = "start" =>
        worker[w].iteration < Iterations[o] /\ iteration = worker[w].iteration + 1
  BY <1>2
<1>4. pc = "settle" =>
        o # NoOccurrence /\ ~ (worker[w].iteration < Iterations[o])
  OBVIOUS
<1>5. /\ outcome = "COMPLETED" => /\ num_completed = worker[w].num_completed + 1
                                 /\ num_failed = worker[w].num_failed
      /\ outcome = "FAILED" => num_failed > 0
  BY <1>2
<1> HIDE DEF pc, iteration, num_completed, num_failed, One, more
<1>6. /\ worker'[w].pc = pc
      /\ worker'[w].iteration = iteration
      /\ worker'[w].num_completed = num_completed
      /\ worker'[w].num_failed = num_failed
  BY <1>1 DEF WorkerRecord
<1>. QED
  BY <1>3, <1>4, <1>5, <1>6

-----------------------------------------------------------------------------
(***************************************************************************)
(* One delivery executes an occurrence                                     *)
(*                                                                         *)
(* The invariant names the holder of an occurrence: the delivery that won  *)
(* the claim, while it works and, once it has left a RUN record, for ever. *)
(***************************************************************************)

HolderPcs == {"admit", "blocked", "start", "evidence", "terminal", "fail_run",
              "settle", "counters"}

HasRun(w) == \E r \in RunsOf(w) : runs[r] # "absent"

Holder(w) == /\ worker[w].occurrence # NoOccurrence
             /\ worker[w].pc \in HolderPcs \/ HasRun(w)

ClaimInv ==
  /\ \A w \in Workers :
       worker[w].pc = "idle" => worker[w].occurrence = NoOccurrence
  /\ \A w \in Workers : worker[w].pc \in {"idle", "claim"} => ~ HasRun(w)
  /\ \A w \in Workers : Holder(w) => claim[worker[w].occurrence] # "absent"
  /\ \A v, w \in Workers :
       Holder(v) /\ Holder(w) /\ worker[v].occurrence = worker[w].occurrence
         => v = w

\* A worker writes RUN records of its own only.
OwnRunsOnly(w) ==
  \A v \in Workers : v # w => (\A r \in RunsOf(v) : runs'[r] = runs[r])

\* An update of the RUN record a worker is on touches no other worker's records.
LEMMA RunUpdateIsOwn ==
  ASSUME TypeOK, NEW w \in Workers,
         \/ UNCHANGED runs
         \/ \E s \in RunStatuses : runs' = [runs EXCEPT ![RunOf(w)] = s]
  PROVE  OwnRunsOnly(w)
<1>1. RunOf(w) \in RunIds /\ RunOf(w)[1] = w
  BY RunOfIsRunId DEF RunOf
<1>2. runs \in [RunIds -> RunStatuses \cup {"absent"}]
  BY DEF TypeOK
<1>. QED
  BY <1>1, <1>2 DEF OwnRunsOnly, RunsOf

\* A step of w that makes no new holder preserves the invariant.
LEMMA HolderKept ==
  ASSUME ClaimInv, NEW w \in Workers, OthersKeep(w), OwnRunsOnly(w),
         \A o \in Occurrences : claim[o] # "absent" => claim'[o] # "absent",
         worker \in [Workers -> WorkerRecord],
         worker'[w].pc = "idle" => worker'[w].occurrence = NoOccurrence,
         worker'[w].pc \in {"idle", "claim"} => ~ HasRun(w)',
         Holder(w)' => Holder(w) /\ worker'[w].occurrence = worker[w].occurrence
  PROVE  ClaimInv'
<1>1. \A v \in Workers : v # w => (HasRun(v)' <=> HasRun(v))
  BY DEF OwnRunsOnly, HasRun, RunsOf, RunIds
<1>2. \A v \in Workers : v # w => (Holder(v)' <=> Holder(v))
  BY <1>1 DEF OthersKeep, Holder
<1>3. \A v \in Workers :
        Holder(v)' => Holder(v) /\ worker'[v].occurrence = worker[v].occurrence
  BY <1>2 DEF OthersKeep
<1>4. \A v \in Workers :
        Holder(v) => /\ worker[v].occurrence \in Occurrences
                     /\ claim[worker[v].occurrence] # "absent"
  BY DEF Holder, WorkerRecord, ClaimInv
<1>5. \A v \in Workers : Holder(v)' => claim'[worker'[v].occurrence] # "absent"
  BY <1>3, <1>4
<1>6. \A u, v \in Workers :
        Holder(u)' /\ Holder(v)' /\ worker'[u].occurrence = worker'[v].occurrence
          => u = v
  BY <1>3 DEF ClaimInv
<1>7. \A v \in Workers :
        /\ worker'[v].pc = "idle" => worker'[v].occurrence = NoOccurrence
        /\ worker'[v].pc \in {"idle", "claim"} => ~ HasRun(v)'
  BY <1>1 DEF OthersKeep, ClaimInv
<1>. QED
  BY <1>5, <1>6, <1>7 DEF ClaimInv

\* Every step preserves the invariant.
LEMMA ClaimStep ==
  ASSUME TypeOK, ClaimInv, [Next]_vars
  PROVE  ClaimInv'
<1>1. /\ worker \in [Workers -> WorkerRecord]
      /\ claim \in [Occurrences -> ClaimStatuses]
  BY DEF TypeOK
<1>2. CASE UNCHANGED <<worker, claim, runs>>
  BY <1>2 DEF ClaimInv, Holder, HasRun, RunsOf, RunIds
<1> USE DEF runVars
<1>3. ASSUME NEW w \in Workers, NEW o \in Occurrences, Deliver(w, o)
      PROVE  ClaimInv'
  <2>1. /\ OthersKeep(w)
        /\ worker[w].pc = "idle"
        /\ worker'[w].pc = "claim"
    BY <1>1, <1>3, DeliverFields
  <2>2. UNCHANGED <<claim, runs>>
    BY <1>3 DEF Deliver
  <2>3. ~ HasRun(w)'
    BY <2>1, <2>2 DEF ClaimInv, HasRun, RunsOf, RunIds
  <2>4. OwnRunsOnly(w)
    BY <2>2, RunUpdateIsOwn
  <2>5. ~ Holder(w)'
    BY <2>1, <2>3 DEF Holder, HolderPcs
  <2>. QED
    BY <1>1, <2>1, <2>2, <2>3, <2>4, <2>5, HolderKept
<1>4. ASSUME NEW w \in Workers, StartManually(w)
      PROVE  ClaimInv'
  <2>1. /\ OthersKeep(w)
        /\ worker[w].pc = "idle"
        /\ worker'[w].pc = "start"
        /\ worker'[w].occurrence = worker[w].occurrence
    BY <1>1, <1>4, WorkerGotoFields DEF StartManually
  <2>2. UNCHANGED <<claim, runs>>
    BY <1>4 DEF StartManually
  <2>3. OwnRunsOnly(w)
    BY <2>2, RunUpdateIsOwn
  <2>4. ~ Holder(w)'
    BY <2>1 DEF ClaimInv, Holder
  <2>. QED
    BY <1>1, <2>1, <2>2, <2>3, <2>4, HolderKept
<1>5. ASSUME NEW w \in Workers, ClaimOccurrence(w)
      PROVE  ClaimInv'
  <2>1. worker[w].pc = "claim" /\ ~ HasRun(w) /\ UNCHANGED runs
    BY <1>5 DEF ClaimOccurrence, ClaimInv
  <2>2. ~ HasRun(w)' /\ OwnRunsOnly(w)
    BY <2>1, RunUpdateIsOwn DEF HasRun, RunsOf, RunIds
  <2>3. CASE WorkerGoto(w, "done") /\ UNCHANGED claim
    <3>1. OthersKeep(w) /\ worker'[w].pc = "done"
      BY <1>1, <2>3, WorkerGotoFields
    <3>2. ~ Holder(w)'
      BY <2>2, <3>1 DEF Holder, HolderPcs
    <3>. QED
      BY <1>1, <2>2, <2>3, <3>1, <3>2, HolderKept
  <2>4. CASE /\ claim[worker[w].occurrence] = "absent"
             /\ claim' = [claim EXCEPT ![worker[w].occurrence] = "claimed"]
             /\ WorkerGoto(w, "admit")
    <3>1. /\ OthersKeep(w)
          /\ worker'[w].pc = "admit"
          /\ worker'[w].occurrence = worker[w].occurrence
      BY <1>1, <2>4, WorkerGotoFields
    <3>2. \A v \in Workers : v # w => (HasRun(v)' <=> HasRun(v))
      BY <2>2 DEF OwnRunsOnly, HasRun, RunsOf, RunIds
    <3>3. \A v \in Workers :
            v # w => /\ Holder(v)' <=> Holder(v)
                     /\ worker'[v].occurrence = worker[v].occurrence
      BY <3>1, <3>2 DEF OthersKeep, Holder
    <3>4. \A v \in Workers : Holder(v) => worker[v].occurrence # worker[w].occurrence
      BY <2>4 DEF ClaimInv
    <3>5. \A v \in Workers : worker[v].occurrence # NoOccurrence =>
                               worker[v].occurrence \in Occurrences
      BY <1>1 DEF WorkerRecord
    <3>6. \A v \in Workers : Holder(v)' => claim'[worker'[v].occurrence] # "absent"
      <4> SUFFICES ASSUME NEW v \in Workers, Holder(v)'
                   PROVE  claim'[worker'[v].occurrence] # "absent"
        OBVIOUS
      <4>1. worker'[v].occurrence = worker[v].occurrence
            /\ worker[v].occurrence \in Occurrences
        BY <3>1, <3>3, <3>5 DEF Holder
      <4>2. CASE v = w
        BY <1>1, <2>4, <4>1, <4>2
      <4>3. CASE v # w
        <5>1. Holder(v)
          BY <3>3, <4>3
        <5>. QED
          BY <1>1, <2>4, <3>4, <4>1, <5>1 DEF ClaimInv
      <4>. QED
        BY <4>2, <4>3
    <3>7. \A u, v \in Workers :
            Holder(u)' /\ Holder(v)'
              /\ worker'[u].occurrence = worker'[v].occurrence => u = v
      BY <3>1, <3>3, <3>4 DEF ClaimInv
    <3>8. \A v \in Workers :
            /\ worker'[v].pc = "idle" => worker'[v].occurrence = NoOccurrence
            /\ worker'[v].pc \in {"idle", "claim"} => ~ HasRun(v)'
      BY <2>2, <3>1, <3>2 DEF OthersKeep, ClaimInv
    <3>. QED
      BY <3>6, <3>7, <3>8 DEF ClaimInv
  <2>. QED
    BY <1>5, <2>3, <2>4 DEF ClaimOccurrence
<1>6. ASSUME NEW w \in Workers,
             \/ Admit(w) \/ RecordBlocked(w) \/ StartRun(w) \/ WriteEvidence(w)
             \/ CompleteRun(w) \/ FailRun(w) \/ SettleClaim(w)
             \/ WriteCounters(w)
      PROVE  ClaimInv'
  <2>1. worker[w].pc \in HolderPcs
    BY <1>6 DEF Admit, RecordBlocked, StartRun, WriteEvidence, CompleteRun,
      FailRun, SettleClaim, WriteCounters, HolderPcs
  <2>2. /\ OthersKeep(w)
        /\ worker'[w].pc \notin {"idle", "claim"}
        /\ worker'[w].occurrence = worker[w].occurrence
    <3>1. \/ \E pc \in {"start", "done", "evidence", "fail_run", "terminal",
                        "counters"} : WorkerGoto(w, pc)
          \/ \E verdict \in {"skipped", "failed"} : Block(w, verdict)
          \/ \E outcome \in {"COMPLETED", "FAILED"} : AfterRun(w, outcome)
      BY <1>6 DEF Admit, RecordBlocked, StartRun, WriteEvidence, CompleteRun,
        FailRun, SettleClaim, WriteCounters
    <3>. QED
      BY <1>1, <3>1, WorkerGotoFields, BlockFields, AfterRunFields
  <2>3. OwnRunsOnly(w)
    <3>1. \/ UNCHANGED runs
          \/ \E s \in RunStatuses : runs' = [runs EXCEPT ![RunOf(w)] = s]
      BY <1>6 DEF Admit, RecordBlocked, StartRun, WriteEvidence, CompleteRun,
        FailRun, SettleClaim, WriteCounters, RunStatuses
    <3>. QED
      BY <3>1, RunUpdateIsOwn
  <2>4. \A o \in Occurrences : claim[o] # "absent" => claim'[o] # "absent"
    <3>1. \/ UNCHANGED claim
          \/ \E s \in {"skipped", "failed", "completed"} :
               claim' = [claim EXCEPT ![worker[w].occurrence] = s]
      <4>1. worker[w].verdict \in {"skipped", "failed"}
        BY <1>1 DEF WorkerRecord
      <4>. QED
        BY <1>6, <4>1 DEF Admit, RecordBlocked, StartRun, WriteEvidence,
          CompleteRun, FailRun, SettleClaim, WriteCounters
    <3>. QED
      BY <1>1, <3>1
  <2>5. Holder(w)' => Holder(w)
    BY <2>1, <2>2 DEF Holder
  <2>. QED
    BY <1>1, <2>2, <2>3, <2>4, <2>5, HolderKept
<1>7. ASSUME NEW w \in Workers, WorkerCrash(w)
      PROVE  ClaimInv'
  <2>1. /\ OthersKeep(w)
        /\ worker'[w].pc = "crashed"
        /\ worker'[w].occurrence = worker[w].occurrence
    BY <1>1, <1>7, WorkerGotoFields DEF WorkerCrash
  <2>2. UNCHANGED <<claim, runs>>
    BY <1>7 DEF WorkerCrash
  <2>3. OwnRunsOnly(w)
    BY <2>2, RunUpdateIsOwn
  <2>4. Holder(w)' => Holder(w)
    BY <2>1, <2>2 DEF Holder, HolderPcs, HasRun, RunsOf, RunIds
  <2>. QED
    BY <1>1, <2>1, <2>2, <2>3, <2>4, HolderKept
<1>8. ASSUME NEW f \in Finalizers,
             FinalizerRead(f) \/ FinalizerStep(f) \/ FinalizerCrash(f)
      PROVE  UNCHANGED <<worker, claim, runs>>
  BY <1>8 DEF FinalizerRead, FinalizerStep, FinalizerCrash, BeginFinalizing,
    Reread, FailUnexpected, RecordFinalization, ListRuns, ListKeys,
    CompleteAudit, FailAudit, PutIntent, RequestInvocation, InvokeAggregation,
    RecordInvocation
<1>9. ScheduleAudit \/ CancelAudit \/ ForceRecreate \/ UNCHANGED vars
        => UNCHANGED <<worker, claim, runs>>
  BY DEF ScheduleAudit, CancelAudit, ForceRecreate, vars
<1>. QED
  BY <1>2, <1>3, <1>4, <1>5, <1>6, <1>7, <1>8, <1>9 DEF Next, WorkerStep

\* However often an occurrence is delivered, and whichever deliveries crash,
\* one of them at most leaves RUN records.
THEOREM OccurrenceRunsOnce == Spec => []OneRunPerOccurrence
<1>1. Init => ClaimInv
  BY DEF Init, ClaimInv, Holder, HolderPcs, HasRun, RunsOf, RunIds
<1>2. ClaimInv => OneRunPerOccurrence
  BY DEF ClaimInv, OneRunPerOccurrence, Holder, HasRun
<1>. QED
  BY <1>1, <1>2, ClaimStep, TypeCorrect, PTL DEF Spec

-----------------------------------------------------------------------------
(***************************************************************************)
(* COMPLETED runs have evidence                                            *)
(***************************************************************************)

EvidenceInv ==
  /\ CompletedRunHasEvidence
  /\ \A w \in Workers : worker[w].pc = "terminal" => RunOf(w) \in evidence

\* How the RUN records and the evidence change, by the kind of step.
LEMMA RunsAndEvidenceStep ==
  ASSUME TypeOK, [Next]_vars
  PROVE  \/ UNCHANGED <<worker, runs, evidence>>
         \/ \E w \in Workers :
              /\ OthersKeep(w)
              /\ evidence \subseteq evidence'
              /\ \/ /\ UNCHANGED runs
                    /\ worker'[w].pc = "terminal" =>
                         /\ worker'[w].iteration = worker[w].iteration
                         /\ RunOf(w) \in evidence'
                 \/ /\ \E s \in {"STARTED", "FAILED"} :
                         runs' = [runs EXCEPT ![RunOf(w)] = s]
                    /\ worker'[w].pc # "terminal"
                 \/ /\ worker[w].pc = "terminal"
                    /\ runs' = [runs EXCEPT ![RunOf(w)] = "COMPLETED"]
                    /\ worker'[w].pc # "terminal"
<1>1. worker \in [Workers -> WorkerRecord]
  BY DEF TypeOK
<1> USE DEF runVars
<1>2. ASSUME NEW w \in Workers, NEW o \in Occurrences, Deliver(w, o)
      PROVE  /\ OthersKeep(w) /\ UNCHANGED <<runs, evidence>>
             /\ worker'[w].pc # "terminal"
  BY <1>1, <1>2, DeliverFields DEF Deliver
<1>3. ASSUME NEW w \in Workers,
             StartManually(w) \/ WorkerCrash(w) \/ ClaimOccurrence(w)
             \/ RecordBlocked(w) \/ SettleClaim(w) \/ WriteCounters(w)
      PROVE  /\ OthersKeep(w) /\ UNCHANGED <<runs, evidence>>
             /\ worker'[w].pc # "terminal"
  <2>1. \E pc \in {"start", "crashed", "admit", "done", "counters"} :
          WorkerGoto(w, pc)
    BY <1>3 DEF StartManually, WorkerCrash, ClaimOccurrence, RecordBlocked,
      SettleClaim, WriteCounters
  <2>2. UNCHANGED <<runs, evidence>>
    BY <1>3 DEF StartManually, WorkerCrash, ClaimOccurrence, RecordBlocked,
      SettleClaim, WriteCounters
  <2>. QED
    BY <1>1, <2>1, <2>2, WorkerGotoFields
<1>4. ASSUME NEW w \in Workers, Admit(w)
      PROVE  /\ OthersKeep(w) /\ UNCHANGED <<runs, evidence>>
             /\ worker'[w].pc # "terminal"
  BY <1>1, <1>4, WorkerGotoFields, BlockFields DEF Admit
<1>5. ASSUME NEW w \in Workers, StartRun(w)
      PROVE  /\ OthersKeep(w) /\ UNCHANGED evidence
             /\ worker'[w].pc # "terminal"
             /\ \/ runs' = [runs EXCEPT ![RunOf(w)] = "STARTED"]
                \/ UNCHANGED runs
  BY <1>1, <1>5, WorkerGotoFields DEF StartRun
<1>6. ASSUME NEW w \in Workers, WriteEvidence(w)
      PROVE  /\ OthersKeep(w) /\ UNCHANGED runs
             /\ evidence \subseteq evidence'
             /\ worker'[w].pc = "terminal" =>
                  /\ worker'[w].iteration = worker[w].iteration
                  /\ RunOf(w) \in evidence'
  <2>1. CASE /\ evidence' = evidence \cup {RunOf(w)}
             /\ WorkerGoto(w, "terminal")
    BY <1>1, <1>6, <2>1, WorkerGotoFields DEF WriteEvidence
  <2>2. CASE WorkerGoto(w, "fail_run")
    BY <1>1, <1>6, <2>2, WorkerGotoFields DEF WriteEvidence
  <2>. QED
    BY <1>6, <2>1, <2>2 DEF WriteEvidence
<1>7. ASSUME NEW w \in Workers, CompleteRun(w)
      PROVE  /\ OthersKeep(w) /\ UNCHANGED evidence
             /\ worker[w].pc = "terminal"
             /\ worker'[w].pc # "terminal"
             /\ \/ runs' = [runs EXCEPT ![RunOf(w)] = "COMPLETED"]
                \/ UNCHANGED runs
  BY <1>1, <1>7, WorkerGotoFields, AfterRunFields DEF CompleteRun
<1>8. ASSUME NEW w \in Workers, FailRun(w)
      PROVE  /\ OthersKeep(w) /\ UNCHANGED evidence
             /\ worker'[w].pc # "terminal"
             /\ \/ runs' = [runs EXCEPT ![RunOf(w)] = "FAILED"]
                \/ UNCHANGED runs
  BY <1>1, <1>8, AfterRunFields DEF FailRun
<1>9. ASSUME NEW f \in Finalizers,
             FinalizerRead(f) \/ FinalizerStep(f) \/ FinalizerCrash(f)
      PROVE  UNCHANGED <<worker, runs, evidence>>
  BY <1>9 DEF FinalizerRead, FinalizerStep, FinalizerCrash, BeginFinalizing,
    Reread, FailUnexpected, RecordFinalization, ListRuns, ListKeys,
    CompleteAudit, FailAudit, PutIntent, RequestInvocation, InvokeAggregation,
    RecordInvocation
<1>10. ScheduleAudit \/ CancelAudit \/ ForceRecreate \/ UNCHANGED vars
         => UNCHANGED <<worker, runs, evidence>>
  BY DEF ScheduleAudit, CancelAudit, ForceRecreate, vars
<1>11. ASSUME NEW w \in Workers, WorkerStep(w)
       PROVE  \/ StartManually(w) \/ WorkerCrash(w) \/ ClaimOccurrence(w)
              \/ RecordBlocked(w) \/ SettleClaim(w) \/ WriteCounters(w)
              \/ Admit(w) \/ StartRun(w) \/ WriteEvidence(w) \/ CompleteRun(w)
              \/ FailRun(w)
  BY <1>11 DEF WorkerStep
<1>. QED
  BY <1>2, <1>3, <1>4, <1>5, <1>6, <1>7, <1>8, <1>9, <1>10, <1>11 DEF Next

\* A RUN record says COMPLETED only over an evidence object.
THEOREM CompletedRunsHaveEvidence == Spec => []CompletedRunHasEvidence
<1>1. Init => EvidenceInv
  BY DEF Init, EvidenceInv, CompletedRunHasEvidence, RunsWith
<1>2. TypeOK /\ EvidenceInv /\ [Next]_vars => EvidenceInv'
  <2> SUFFICES ASSUME TypeOK, EvidenceInv, [Next]_vars
               PROVE  EvidenceInv'
    OBVIOUS
  <2>1. /\ runs \in [RunIds -> RunStatuses \cup {"absent"}]
        /\ \A r \in RunIds : runs[r] = "COMPLETED" => r \in evidence
    BY DEF TypeOK, EvidenceInv, CompletedRunHasEvidence, RunsWith
  <2>2. runs' \in [RunIds -> RunStatuses \cup {"absent"}]
    BY NextType DEF TypeOK
  <2>3. CASE UNCHANGED <<worker, runs, evidence>>
    BY <2>3 DEF EvidenceInv, CompletedRunHasEvidence, RunsWith, RunOf
  <2>4. ASSUME NEW w \in Workers, OthersKeep(w), evidence \subseteq evidence',
               UNCHANGED runs,
               worker'[w].pc = "terminal" =>
                 /\ worker'[w].iteration = worker[w].iteration
                 /\ RunOf(w) \in evidence'
        PROVE  EvidenceInv'
    BY <2>1, <2>4 DEF EvidenceInv, CompletedRunHasEvidence, RunsWith, RunOf,
      OthersKeep
  <2>5. ASSUME NEW w \in Workers, OthersKeep(w), evidence \subseteq evidence',
               worker'[w].pc # "terminal",
               NEW s \in RunStatuses,
               runs' = [runs EXCEPT ![RunOf(w)] = s],
               s = "COMPLETED" => worker[w].pc = "terminal"
        PROVE  EvidenceInv'
    <3>1. \A v \in Workers : worker'[v].pc = "terminal" => RunOf(v)' \in evidence'
      BY <2>5 DEF EvidenceInv, RunOf, OthersKeep
    <3>2. \A r \in RunIds : runs'[r] = "COMPLETED" => r \in evidence'
      BY <2>1, <2>5 DEF EvidenceInv
    <3>. QED
      BY <2>2, <3>1, <3>2 DEF EvidenceInv, CompletedRunHasEvidence, RunsWith
  <2>6. {"STARTED", "FAILED"} \subseteq RunStatuses /\ "COMPLETED" \in RunStatuses
    BY DEF RunStatuses
  <2>. QED
    BY <2>3, <2>4, <2>5, <2>6, RunsAndEvidenceStep
<1>3. EvidenceInv => CompletedRunHasEvidence
  BY DEF EvidenceInv
<1>. QED
  BY <1>1, <1>2, <1>3, TypeCorrect, PTL DEF Spec

-----------------------------------------------------------------------------
(***************************************************************************)
(* COMPLETED audits have evidence                                          *)
(*                                                                         *)
(* A run is confirmed once its worker has been told that COMPLETED was     *)
(* written: from then on nothing overwrites it.  (Before, it may say       *)
(* COMPLETED and still be overwritten with FAILED, when the answer to the  *)
(* update is lost.)  Every positive count, in the audit item or in the     *)
(* snapshot of a worker or finalizer, stands on a confirmed run.           *)
(***************************************************************************)

RestPcs == {"settle", "counters", "done", "crashed"}

Confirmed(r) ==
  /\ runs[r] = "COMPLETED"
  /\ \/ r[2] < worker[r[1]].iteration
     \/ r[2] = worker[r[1]].iteration /\ worker[r[1]].pc \in RestPcs

SomeConfirmed == \E r \in RunIds : Confirmed(r)

GatePcs == {"list_runs", "list_keys", "complete"}

WorkerBacked(w) ==
  worker[w].num_completed > 0 \/ worker[w].counters.total_completed > 0
    => SomeConfirmed

FinalizerBacked(f) ==
  /\ finalizer[f].execution_count > 0 => SomeConfirmed
  /\ finalizer[f].pc \in GatePcs => finalizer[f].execution_count > 0
  /\ finalizer[f].pc \in {"begin", "record"} => finalizer[f].execution_count >= 0

BackedInv ==
  /\ execution_counters.total_completed > 0 => SomeConfirmed
  /\ finalization > 0 => SomeConfirmed
  /\ \A w \in Workers : WorkerBacked(w)
  /\ \A f \in Finalizers : FinalizerBacked(f)
  /\ lifecycle_state = "COMPLETED" => SomeConfirmed

\* A step of w neither goes back to an earlier iteration nor leaves the rest.
LEMMA WorkerAdvances ==
  ASSUME TypeOK, NEW w \in Workers,
         \/ \E o \in Occurrences : Deliver(w, o)
         \/ StartManually(w) \/ WorkerStep(w) \/ WorkerCrash(w)
  PROVE  /\ OthersKeep(w)
         /\ worker'[w].iteration \in {worker[w].iteration, worker[w].iteration + 1}
         /\ worker[w].pc \in RestPcs => /\ worker'[w].pc \in RestPcs
                                        /\ worker'[w].iteration = worker[w].iteration
                                        /\ UNCHANGED runs
         /\ \/ UNCHANGED runs
            \/ \E s \in RunStatuses : runs' = [runs EXCEPT ![RunOf(w)] = s]
<1>1. worker \in [Workers -> WorkerRecord]
  BY DEF TypeOK
<1> USE DEF runVars
<1>2. ASSUME NEW o \in Occurrences, Deliver(w, o)
      PROVE  /\ OthersKeep(w) /\ worker'[w].iteration = worker[w].iteration
             /\ worker[w].pc \notin RestPcs /\ UNCHANGED runs
  BY <1>1, <1>2, DeliverFields DEF Deliver, RestPcs
<1>3. CASE SettleClaim(w) \/ WriteCounters(w) \/ WorkerCrash(w)
  <2>1. PICK pc \in {"counters", "done", "crashed"} : WorkerGoto(w, pc)
    BY <1>3 DEF SettleClaim, WriteCounters, WorkerCrash
  <2>2. UNCHANGED runs
    BY <1>3 DEF SettleClaim, WriteCounters, WorkerCrash
  <2>. QED
    BY <1>1, <2>1, <2>2, WorkerGotoFields DEF RestPcs
<1>4. CASE StartManually(w) \/ ClaimOccurrence(w) \/ Admit(w) \/ RecordBlocked(w)
           \/ StartRun(w) \/ WriteEvidence(w) \/ CompleteRun(w) \/ FailRun(w)
  <2>1. worker[w].pc \notin RestPcs
    BY <1>4 DEF StartManually, ClaimOccurrence, Admit, RecordBlocked, StartRun,
      WriteEvidence, CompleteRun, FailRun, RestPcs
  <2>2. \/ \E pc \in {"start", "admit", "done", "evidence", "fail_run",
                      "terminal"} : WorkerGoto(w, pc)
        \/ \E verdict \in {"skipped", "failed"} : Block(w, verdict)
        \/ \E outcome \in {"COMPLETED", "FAILED"} : AfterRun(w, outcome)
    BY <1>4 DEF StartManually, ClaimOccurrence, Admit, RecordBlocked, StartRun,
      WriteEvidence, CompleteRun, FailRun
  <2>3. /\ OthersKeep(w)
        /\ worker'[w].iteration \in {worker[w].iteration, worker[w].iteration + 1}
    BY <1>1, <2>2, WorkerGotoFields, BlockFields, AfterRunFields
  <2>4. \/ UNCHANGED runs
        \/ \E s \in RunStatuses : runs' = [runs EXCEPT ![RunOf(w)] = s]
    BY <1>4 DEF StartManually, ClaimOccurrence, Admit, RecordBlocked, StartRun,
      WriteEvidence, CompleteRun, FailRun, RunStatuses
  <2>. QED
    BY <2>1, <2>3, <2>4
<1>. QED
  BY <1>2, <1>3, <1>4 DEF WorkerStep

\* A confirmed run stays confirmed.
LEMMA ConfirmedRunStays ==
  ASSUME TypeOK, [Next]_vars, NEW r \in RunIds, Confirmed(r)
  PROVE  Confirmed(r)'
<1>1. Confirmed(r)
  OBVIOUS
<1>2. r[1] \in Workers /\ r[2] \in 1 .. MaxIterations /\ r = <<r[1], r[2]>>
  BY DEF RunIds
<1>3. /\ runs \in [RunIds -> RunStatuses \cup {"absent"}]
      /\ \A w \in Workers : worker[w].iteration \in Nat
  BY DEF TypeOK, WorkerRecord
<1>4. ASSUME NEW w \in Workers,
             \/ \E o \in Occurrences : Deliver(w, o)
             \/ StartManually(w) \/ WorkerStep(w) \/ WorkerCrash(w)
      PROVE  Confirmed(r)'
  <2>1. /\ OthersKeep(w)
        /\ worker'[w].iteration \in {worker[w].iteration, worker[w].iteration + 1}
        /\ worker[w].pc \in RestPcs => /\ worker'[w].pc \in RestPcs
                                       /\ worker'[w].iteration = worker[w].iteration
                                       /\ UNCHANGED runs
        /\ \/ UNCHANGED runs
           \/ \E s \in RunStatuses : runs' = [runs EXCEPT ![RunOf(w)] = s]
    BY <1>4, WorkerAdvances
  <2>2. CASE r[1] # w
    <3>1. RunOf(w) # r
      BY <1>2, <2>2 DEF RunOf
    <3>2. runs'[r] = runs[r] /\ worker'[r[1]] = worker[r[1]]
      BY <1>2, <1>3, <2>1, <2>2, <3>1 DEF OthersKeep
    <3>. QED
      BY <1>1, <3>2 DEF Confirmed
  <2>3. CASE r[1] = w /\ r[2] < worker[w].iteration
    <3>1. RunOf(w) # r
      BY <1>2, <1>3, <2>3 DEF RunOf
    <3>2. runs'[r] = runs[r]
      BY <1>3, <2>1, <3>1
    <3>3. r[2] < worker'[w].iteration
      BY <1>2, <1>3, <2>1, <2>3
    <3>. QED
      BY <1>1, <2>3, <3>2, <3>3 DEF Confirmed
  <2>4. CASE r[1] = w /\ r[2] = worker[w].iteration /\ worker[w].pc \in RestPcs
    BY <1>1, <2>1, <2>4 DEF Confirmed
  <2>. QED
    BY <1>1, <2>2, <2>3, <2>4 DEF Confirmed
<1>5. ASSUME UNCHANGED <<worker, runs>>
      PROVE  Confirmed(r)'
  BY <1>1, <1>5 DEF Confirmed
<1>6. ASSUME NEW f \in Finalizers,
             FinalizerRead(f) \/ FinalizerStep(f) \/ FinalizerCrash(f)
      PROVE  UNCHANGED <<worker, runs>>
  BY <1>6 DEF FinalizerRead, FinalizerStep, FinalizerCrash, BeginFinalizing,
    Reread, FailUnexpected, RecordFinalization, ListRuns, ListKeys,
    CompleteAudit, FailAudit, PutIntent, RequestInvocation, InvokeAggregation,
    RecordInvocation, runVars
<1>7. ScheduleAudit \/ CancelAudit \/ ForceRecreate \/ UNCHANGED vars
        => UNCHANGED <<worker, runs>>
  BY DEF ScheduleAudit, CancelAudit, ForceRecreate, vars, runVars
<1>. QED
  BY <1>4, <1>5, <1>6, <1>7 DEF Next

\* Once there is a confirmed run there always is.
LEMMA ConfirmedIsStable ==
  ASSUME TypeOK, [Next]_vars, SomeConfirmed
  PROVE  SomeConfirmed'
<1>1. PICK r \in RunIds : Confirmed(r)
  BY DEF SomeConfirmed
<1>2. Confirmed(r)'
  BY <1>1, ConfirmedRunStays
<1>. QED
  BY <1>2 DEF SomeConfirmed, RunIds

\* A worker that is told its run completed has that run confirmed.
LEMMA CompletionConfirms ==
  ASSUME TypeOK, NEW w \in Workers,
         runs' = [runs EXCEPT ![RunOf(w)] = "COMPLETED"],
         AfterRun(w, "COMPLETED"),
         NEW r \in RunIds, r = RunOf(w)
  PROVE  Confirmed(r)'
<1>1. /\ worker \in [Workers -> WorkerRecord]
      /\ runs \in [RunIds -> RunStatuses \cup {"absent"}]
      /\ RunOf(w) \in RunIds
      /\ worker[w].iteration \in Nat
  BY RunOfIsRunId DEF TypeOK, WorkerRecord
<1>2. runs'[r] = "COMPLETED" /\ r[1] = w /\ r[2] = worker[w].iteration
  BY <1>1 DEF RunOf
<1>3. \/ worker'[w].iteration = worker[w].iteration + 1
      \/ /\ worker'[w].pc \in {"settle", "done"}
         /\ worker'[w].iteration = worker[w].iteration
  BY <1>1, AfterRunFields
<1>. QED
  BY <1>1, <1>2, <1>3 DEF Confirmed, RestPcs

\* A step of a worker keeps every count backed.
LEMMA WorkerBackedStep ==
  ASSUME TypeOK, BackedInv, SomeConfirmed => SomeConfirmed', NEW w \in Workers,
         \/ \E o \in Occurrences : Deliver(w, o)
         \/ StartManually(w) \/ WorkerStep(w) \/ WorkerCrash(w)
  PROVE  BackedInv'
<1>1. /\ worker \in [Workers -> WorkerRecord]
      /\ \A v \in Workers : /\ worker[v].num_completed \in Nat
                            /\ worker[v].counters.total_completed \in Nat
  BY DEF TypeOK, WorkerRecord, Counters
<1> USE DEF auditVars, runVars
<1>2. UNCHANGED <<finalization, finalizer>>
  BY DEF Deliver, StartManually, WorkerCrash, WorkerStep, ClaimOccurrence,
    Admit, RecordBlocked, StartRun, WriteEvidence, CompleteRun, FailRun,
    SettleClaim, WriteCounters
<1>3. lifecycle_state' = "COMPLETED" => lifecycle_state = "COMPLETED"
  <2>1. CASE Admit(w)
    BY <2>1 DEF Admit, Transition, LifecycleConflict, Record, lifecycleVars
  <2>2. CASE ~ Admit(w)
    <3>1. UNCHANGED lifecycleVars
      BY <2>2 DEF Deliver, StartManually, WorkerCrash, WorkerStep,
        ClaimOccurrence, RecordBlocked, StartRun, WriteEvidence, CompleteRun,
        FailRun, SettleClaim, WriteCounters
    <3>. QED
      BY <3>1 DEF lifecycleVars
  <2>. QED
    BY <2>1, <2>2
<1>4. ASSUME OthersKeep(w), WorkerBacked(w)',
             execution_counters'.total_completed > 0 => SomeConfirmed'
      PROVE  BackedInv'
  <2>1. \A v \in Workers : WorkerBacked(v)'
    BY <1>4 DEF BackedInv, WorkerBacked, OthersKeep
  <2>2. \A f \in Finalizers : FinalizerBacked(f)'
    BY <1>2 DEF BackedInv, FinalizerBacked
  <2>. QED
    BY <1>2, <1>3, <1>4, <2>1, <2>2 DEF BackedInv
<1>5. ASSUME OthersKeep(w), UNCHANGED execution_counters,
             worker'[w].num_completed = worker[w].num_completed,
             worker'[w].counters \in {worker[w].counters, execution_counters}
      PROVE  BackedInv'
  <2>1. WorkerBacked(w)'
    BY <1>5 DEF BackedInv, WorkerBacked
  <2>. QED
    BY <1>4, <1>5, <2>1 DEF BackedInv
<1>6. ASSUME NEW o \in Occurrences, Deliver(w, o)
      PROVE  BackedInv'
  BY <1>1, <1>5, <1>6, DeliverFields DEF Deliver
<1>7. CASE StartManually(w) \/ WorkerCrash(w) \/ ClaimOccurrence(w)
           \/ RecordBlocked(w) \/ StartRun(w) \/ WriteEvidence(w)
           \/ SettleClaim(w) \/ Admit(w)
  <2>1. \/ \E pc \in WorkerPcs : WorkerGoto(w, pc)
        \/ \E verdict \in {"skipped", "failed"} : Block(w, verdict)
    BY <1>7 DEF StartManually, WorkerCrash, ClaimOccurrence, RecordBlocked,
      StartRun, WriteEvidence, SettleClaim, Admit, WorkerPcs
  <2>2. UNCHANGED execution_counters
    BY <1>7 DEF StartManually, WorkerCrash, ClaimOccurrence, RecordBlocked,
      StartRun, WriteEvidence, SettleClaim, Admit
  <2>. QED
    BY <1>1, <1>5, <2>1, <2>2, WorkerGotoFields, BlockFields
<1>8. CASE CompleteRun(w)
  <2>1. CASE /\ runs' = [runs EXCEPT ![RunOf(w)] = "COMPLETED"]
             /\ AfterRun(w, "COMPLETED")
    <3>1. SomeConfirmed'
      <4>1. PICK r \in RunIds : r = RunOf(w)
        BY RunOfIsRunId
      <4>2. Confirmed(r)'
        BY <2>1, <4>1, CompletionConfirms
      <4>. QED
        BY <4>2 DEF SomeConfirmed, RunIds
    <3>2. OthersKeep(w)
      BY <1>1, <2>1, AfterRunFields
    <3>. QED
      BY <1>4, <3>1, <3>2 DEF WorkerBacked
  <2>2. CASE WorkerGoto(w, "fail_run")
    BY <1>1, <1>5, <1>8, <2>2, WorkerGotoFields DEF CompleteRun
  <2>. QED
    BY <1>8, <2>1, <2>2 DEF CompleteRun
<1>9. CASE FailRun(w)
  BY <1>1, <1>5, <1>9, AfterRunFields DEF FailRun
<1>10. CASE WriteCounters(w)
  <2>1. /\ OthersKeep(w)
        /\ worker'[w].num_completed = worker[w].num_completed
        /\ worker'[w].counters = worker[w].counters
    BY <1>1, <1>10, WorkerGotoFields DEF WriteCounters
  <2>2. execution_counters'.total_completed =
          worker[w].counters.total_completed + worker[w].num_completed
    BY <1>10 DEF WriteCounters
  <2>3. execution_counters'.total_completed > 0 => SomeConfirmed'
    BY <1>1, <2>2 DEF BackedInv, WorkerBacked
  <2>4. WorkerBacked(w)'
    BY <2>1 DEF BackedInv, WorkerBacked
  <2>. QED
    BY <1>4, <2>1, <2>3, <2>4
<1>. QED
  BY <1>6, <1>7, <1>8, <1>9, <1>10 DEF WorkerStep

\* Moving a finalizer keeps the count it holds.
LEMMA FinalizerGotoCount ==
  ASSUME finalizer \in [Finalizers -> FinalizerRecord],
         NEW f \in Finalizers, NEW pc, FinalizerGoto(f, pc)
  PROVE  finalizer'[f].execution_count = finalizer[f].execution_count
BY DEF FinalizerGoto, FinalizerRecord

\* A reading takes a count that is backed, and goes to the gate only with a
\* positive one.
LEMMA ReadAuditBacked ==
  ASSUME TypeOK, BackedInv, SomeConfirmed => SomeConfirmed',
         NEW f \in Finalizers, NEW otherwise \in {"begin", "fail_unexpected"},
         ReadAudit(f, otherwise)
  PROVE  FinalizerBacked(f)'
<1> DEFINE pc == IF lifecycle_state \in TerminalStates THEN "done"
                 ELSE IF lifecycle_state = "FINALIZING" THEN RetryPc
                 ELSE otherwise
           count == IF lifecycle_state = "FINALIZING" THEN finalization
                    ELSE execution_counters.total_completed
<1>1. /\ finalizer \in [Finalizers -> FinalizerRecord]
      /\ finalization \in Nat \cup {NoCount}
      /\ execution_counters.total_completed \in Nat
  BY DEF TypeOK, Counters
<1>2. count > 0 => SomeConfirmed'
  BY DEF BackedInv
<1>3. pc \in GatePcs => count > 0
  BY <1>1 DEF GatePcs, RetryPc
<1>4. pc \in {"begin", "record"} => count >= 0
  BY <1>1 DEF RetryPc
<1>5. finalizer' = [finalizer EXCEPT ![f] =
                     [@ EXCEPT !.pc = pc, !.state = lifecycle_state,
                               !.counters = execution_counters,
                               !.execution_count = count]]
  BY DEF ReadAudit
<1> HIDE DEF pc, count
<1>6. finalizer'[f].pc = pc /\ finalizer'[f].execution_count = count
  BY <1>1, <1>5 DEF FinalizerRecord
<1>. QED
  BY <1>2, <1>3, <1>4, <1>6 DEF FinalizerBacked

\* A step of a finalizer keeps every count backed.
LEMMA FinalizerBackedStep ==
  ASSUME TypeOK, BackedInv, SomeConfirmed => SomeConfirmed',
         NEW f \in Finalizers,
         FinalizerRead(f) \/ FinalizerStep(f) \/ FinalizerCrash(f)
  PROVE  BackedInv'
<1>1. /\ finalizer \in [Finalizers -> FinalizerRecord]
      /\ finalizer[f].execution_count \in Nat \cup {NoCount}
  BY DEF TypeOK, FinalizerRecord
<1>2. FinalizerBacked(f)
  BY DEF BackedInv
<1> USE DEF auditVars
<1>3. UNCHANGED <<execution_counters, worker>>
  BY DEF FinalizerRead, FinalizerStep, FinalizerCrash, BeginFinalizing, Reread,
    FailUnexpected, RecordFinalization, ListRuns, ListKeys, CompleteAudit,
    FailAudit, PutIntent, RequestInvocation, InvokeAggregation, RecordInvocation
<1>4. ASSUME \A g \in Finalizers : g # f => finalizer'[g] = finalizer[g],
             FinalizerBacked(f)',
             finalization' > 0 => SomeConfirmed',
             lifecycle_state' = "COMPLETED" => SomeConfirmed'
      PROVE  BackedInv'
  <2>1. \A w \in Workers : WorkerBacked(w)'
    BY <1>3 DEF BackedInv, WorkerBacked
  <2>2. \A g \in Finalizers : FinalizerBacked(g)'
    BY <1>4 DEF BackedInv, FinalizerBacked
  <2>. QED
    BY <1>3, <1>4, <2>1, <2>2 DEF BackedInv
<1>5. CASE FinalizerRead(f) \/ Reread(f)
  <2>1. PICK otherwise \in {"begin", "fail_unexpected"} : ReadAudit(f, otherwise)
    BY <1>5 DEF FinalizerRead, Reread
  <2>2. UNCHANGED <<finalization, lifecycle_state>>
    BY <1>5 DEF FinalizerRead, Reread, lifecycleVars
  <2>3. FinalizerBacked(f)'
    BY <2>1, ReadAuditBacked
  <2>4. \A g \in Finalizers : g # f => finalizer'[g] = finalizer[g]
    BY <1>1, <2>1, ReadAuditPc
  <2>. QED
    BY <1>4, <2>2, <2>3, <2>4 DEF BackedInv
<1>6. ASSUME NEW pc \in FinalizerPcs, FinalizerGoto(f, pc),
             pc \in GatePcs => finalizer[f].execution_count > 0,
             pc \in {"begin", "record"} => finalizer[f].execution_count >= 0
      PROVE  /\ FinalizerBacked(f)'
             /\ \A g \in Finalizers : g # f => finalizer'[g] = finalizer[g]
  <2>1. /\ finalizer'[f].pc = pc
        /\ \A g \in Finalizers : g # f => finalizer'[g] = finalizer[g]
        /\ finalizer'[f].execution_count = finalizer[f].execution_count
    BY <1>1, <1>6, FinalizerGotoPc, FinalizerGotoCount
  <2>. QED
    BY <1>2, <1>6, <2>1 DEF FinalizerBacked
<1>7. CASE BeginFinalizing(f)
  <2>1. PICK pc \in {"record", "reread", "raised"} : FinalizerGoto(f, pc)
    BY <1>7 DEF BeginFinalizing
  <2>2. finalizer[f].execution_count >= 0
    BY <1>2, <1>7 DEF BeginFinalizing, FinalizerBacked
  <2>3. lifecycle_state' = "COMPLETED" => lifecycle_state = "COMPLETED"
    BY <1>7 DEF BeginFinalizing, Transition, LifecycleConflict,
      InvalidTransition, Record, lifecycleVars
  <2>4. UNCHANGED finalization
    BY <1>7 DEF BeginFinalizing
  <2>. QED
    BY <1>4, <1>6, <2>1, <2>2, <2>3, <2>4 DEF BackedInv, FinalizerPcs, GatePcs
<1>8. CASE FailUnexpected(f) \/ FailAudit(f)
  <2>1. PICK pc \in {"done", "raised"} : FinalizerGoto(f, pc)
    BY <1>8 DEF FailUnexpected, FailAudit
  <2>2. lifecycle_state' = "COMPLETED" => lifecycle_state = "COMPLETED"
    BY <1>8 DEF FailUnexpected, FailAudit, Transition, LifecycleConflict, Record,
      lifecycleVars
  <2>3. UNCHANGED finalization
    BY <1>8 DEF FailUnexpected, FailAudit
  <2>. QED
    BY <1>4, <1>6, <2>1, <2>2, <2>3 DEF BackedInv, FinalizerPcs, GatePcs
<1>9. CASE RecordFinalization(f)
  <2>1. /\ finalizer[f].execution_count \in Nat
        /\ finalization' = finalizer[f].execution_count
        /\ UNCHANGED lifecycle_state
    BY <1>1, <1>2, <1>9 DEF RecordFinalization, FinalizerBacked, lifecycleVars,
      NoCount
  <2>2. FinalizerGoto(f, IF finalizer[f].execution_count = 0 THEN "fail"
                         ELSE "list_runs")
    BY <1>9 DEF RecordFinalization
  <2>3. finalization' > 0 => SomeConfirmed'
    BY <1>2, <2>1 DEF FinalizerBacked
  <2>. QED
    BY <1>4, <1>6, <2>1, <2>2, <2>3 DEF BackedInv, FinalizerPcs, GatePcs
<1>10. CASE ListRuns(f) \/ ListKeys(f)
  <2>1. /\ finalizer'[f].execution_count = finalizer[f].execution_count
        /\ finalizer'[f].pc \in {"list_keys", "complete", "fail"}
        /\ \A g \in Finalizers : g # f => finalizer'[g] = finalizer[g]
    <3>1. CASE ListRuns(f)
      BY <1>1, <3>1 DEF ListRuns, FinalizerRecord
    <3>2. CASE ListKeys(f)
      <4>1. PICK pc \in {"complete", "fail"} :
              finalizer' = [finalizer EXCEPT ![f].keys = evidence, ![f].pc = pc]
        BY <3>2 DEF ListKeys
      <4>. QED
        BY <1>1, <4>1 DEF FinalizerRecord
    <3>. QED
      BY <1>10, <3>1, <3>2
  <2>2. finalizer[f].pc \in GatePcs /\ UNCHANGED <<finalization, lifecycle_state>>
    BY <1>10 DEF ListRuns, ListKeys, GatePcs, lifecycleVars
  <2>3. FinalizerBacked(f)'
    BY <1>2, <2>1, <2>2 DEF FinalizerBacked
  <2>. QED
    BY <1>4, <2>1, <2>2, <2>3 DEF BackedInv
<1>11. CASE CompleteAudit(f)
  <2>1. finalizer[f].pc = "complete" /\ UNCHANGED finalization
    BY <1>11 DEF CompleteAudit
  <2>2. SomeConfirmed'
    BY <1>2, <2>1 DEF FinalizerBacked, GatePcs
  <2>3. PICK pc \in {"intent", "raised"} : FinalizerGoto(f, pc)
    BY <1>11 DEF CompleteAudit
  <2>. QED
    BY <1>4, <1>6, <2>1, <2>2, <2>3 DEF FinalizerPcs, GatePcs
<1>12. CASE PutIntent(f) \/ RequestInvocation(f) \/ InvokeAggregation(f)
            \/ RecordInvocation(f) \/ FinalizerCrash(f)
  <2>1. PICK pc \in {"request", "done", "invoke", "accept", "invoke_failed",
                     "crashed"} : FinalizerGoto(f, pc)
    BY <1>12 DEF PutIntent, RequestInvocation, InvokeAggregation,
      RecordInvocation, FinalizerCrash
  <2>2. UNCHANGED <<finalization, lifecycle_state>>
    BY <1>12 DEF PutIntent, RequestInvocation, InvokeAggregation,
      RecordInvocation, FinalizerCrash, lifecycleVars
  <2>. QED
    BY <1>4, <1>6, <2>1, <2>2 DEF BackedInv, FinalizerPcs, GatePcs
<1>. QED
  BY <1>5, <1>7, <1>8, <1>9, <1>10, <1>11, <1>12 DEF FinalizerStep

\* No audit is COMPLETED without a COMPLETED run and its evidence object,
\* whatever counts and listings the finalizer decided on.
THEOREM CompletedAuditsHaveEvidence == Spec => []CompletedAuditHasEvidence
<1>1. Init => BackedInv
  <2> SUFFICES ASSUME Init PROVE BackedInv
    OBVIOUS
  <2>1. execution_counters.total_completed = 0 /\ NoCounters.total_completed = 0
    <3>1. \/ execution_counters = NoCounters
          \/ execution_counters = [NoCounters EXCEPT !.present = TRUE]
      BY DEF Init
    <3>. QED
      BY <3>1 DEF NoCounters
  <2>2. \A w \in Workers : WorkerBacked(w)
    BY <2>1 DEF Init, WorkerBacked
  <2>3. \A f \in Finalizers : FinalizerBacked(f)
    BY DEF Init, FinalizerBacked, GatePcs
  <2>4. finalization = -1 /\ lifecycle_state = "DRAFT"
    BY DEF Init, LifecycleInit, NoCount
  <2>. QED
    BY <2>1, <2>2, <2>3, <2>4 DEF BackedInv
<1>2. TypeOK /\ BackedInv /\ [Next]_vars => BackedInv'
  <2> SUFFICES ASSUME TypeOK, BackedInv, [Next]_vars
               PROVE  BackedInv'
    OBVIOUS
  <2>1. SomeConfirmed => SomeConfirmed'
    BY ConfirmedIsStable
  <2>2. ASSUME NEW w \in Workers,
               \/ \E o \in Occurrences : Deliver(w, o)
               \/ StartManually(w) \/ WorkerStep(w) \/ WorkerCrash(w)
        PROVE  BackedInv'
    BY <2>1, <2>2, WorkerBackedStep
  <2>3. ASSUME NEW f \in Finalizers,
               FinalizerRead(f) \/ FinalizerStep(f) \/ FinalizerCrash(f)
        PROVE  BackedInv'
    BY <2>1, <2>3, FinalizerBackedStep
  <2>4. CASE ScheduleAudit \/ CancelAudit \/ ForceRecreate \/ UNCHANGED vars
    <3>1. UNCHANGED <<execution_counters, finalization, worker, finalizer>>
      BY <2>4 DEF ScheduleAudit, CancelAudit, ForceRecreate, vars, auditVars
    <3>2. lifecycle_state' = "COMPLETED" => lifecycle_state = "COMPLETED"
      BY <2>4 DEF ScheduleAudit, CancelAudit, ForceRecreate, Recreate,
        Transition, Record, vars
    <3>3. \A w \in Workers : WorkerBacked(w)'
      BY <2>1, <3>1 DEF BackedInv, WorkerBacked
    <3>4. \A f \in Finalizers : FinalizerBacked(f)'
      BY <2>1, <3>1 DEF BackedInv, FinalizerBacked
    <3>. QED
      BY <2>1, <3>1, <3>2, <3>3, <3>4 DEF BackedInv
  <2>. QED
    BY <2>2, <2>3, <2>4 DEF Next
<1>3. TypeOK /\ BackedInv /\ CompletedRunHasEvidence => CompletedAuditHasEvidence
  BY DEF TypeOK, BackedInv, SomeConfirmed, Confirmed, CompletedRunHasEvidence,
    CompletedAuditHasEvidence, RunsWith
<1>. QED
  BY <1>1, <1>2, <1>3, TypeCorrect, CompletedRunsHaveEvidence, PTL DEF Spec

-----------------------------------------------------------------------------
(***************************************************************************)
(* Completed claims are backed                                             *)
(*                                                                         *)
(* A worker that has seen no run fail has every earlier run confirmed, and *)
(* one that settles has them all.  A claim is written "completed" by such  *)
(* a worker only, and confirmed runs stay.                                 *)
(***************************************************************************)

CompletedWorker(w) ==
  /\ worker[w].pc = "idle" => worker[w].iteration = 1
  /\ worker[w].occurrence # NoOccurrence =>
       worker[w].iteration <= Iterations[worker[w].occurrence]
  /\ worker[w].pc = "settle" =>
       /\ worker[w].occurrence # NoOccurrence
       /\ worker[w].iteration = Iterations[worker[w].occurrence]
  /\ worker[w].num_failed = 0 =>
       \A i \in 1 .. MaxIterations :
         \/ i < worker[w].iteration
         \/ i = worker[w].iteration /\ worker[w].pc = "settle"
         => Confirmed(<<w, i>>)

ClaimBacked(o) ==
  \E w \in Workers :
    /\ worker[w].occurrence = o
    /\ worker[w].pc # "idle"
    /\ \A i \in 1 .. Iterations[o] : Confirmed(<<w, i>>)

BackedClaimInv ==
  /\ \A w \in Workers : CompletedWorker(w)
  /\ \A o \in Occurrences : claim[o] = "completed" => ClaimBacked(o)

\* A step of w that neither starts it, nor ends a run, keeps its part.
LEMMA CompletedWorkerKept ==
  ASSUME NEW w \in Workers, CompletedWorker(w),
         \A r \in RunIds : Confirmed(r) => Confirmed(r)',
         worker'[w].pc \notin {"idle", "settle"},
         worker'[w].occurrence = worker[w].occurrence,
         worker'[w].iteration = worker[w].iteration,
         worker'[w].num_failed = worker[w].num_failed
  PROVE  CompletedWorker(w)'
<1>1. \A i \in 1 .. MaxIterations :
        Confirmed(<<w, i>>) => Confirmed(<<w, i>>)'
  BY DEF RunIds
<1>2. worker'[w].num_failed = 0 =>
        \A i \in 1 .. MaxIterations :
          i < worker'[w].iteration => Confirmed(<<w, i>>)'
  BY <1>1 DEF CompletedWorker
<1>. QED
  BY <1>2 DEF CompletedWorker

\* The end of a run keeps its part: a completed run is confirmed, and after a
\* failed one nothing is claimed.
LEMMA CompletedWorkerAfterRun ==
  ASSUME TypeOK, NEW w \in Workers, CompletedWorker(w),
         \A r \in RunIds : Confirmed(r) => Confirmed(r)',
         NEW outcome \in {"COMPLETED", "FAILED"}, AfterRun(w, outcome),
         outcome = "COMPLETED" => runs' = [runs EXCEPT ![RunOf(w)] = "COMPLETED"]
  PROVE  CompletedWorker(w)'
<1>1. /\ worker \in [Workers -> WorkerRecord]
      /\ worker[w].iteration \in 1 .. MaxIterations
      /\ worker[w].occurrence # NoOccurrence =>
           Iterations[worker[w].occurrence] \in 1 .. MaxIterations
  BY ExecutionAssumption DEF TypeOK, WorkerRecord
<1>2. /\ worker'[w].occurrence = worker[w].occurrence
      /\ \/ /\ worker'[w].pc = "start"
            /\ worker[w].occurrence # NoOccurrence
            /\ worker'[w].iteration = worker[w].iteration + 1
         \/ /\ worker'[w].pc \in {"settle", "done"}
            /\ worker'[w].iteration = worker[w].iteration
  BY <1>1, AfterRunFields
<1>3. /\ worker'[w].pc = "start" =>
           worker[w].iteration < Iterations[worker[w].occurrence]
      /\ worker'[w].pc = "settle" =>
           /\ worker[w].occurrence # NoOccurrence
           /\ ~ (worker[w].iteration < Iterations[worker[w].occurrence])
      /\ outcome = "COMPLETED" => worker'[w].num_failed = worker[w].num_failed
      /\ outcome = "FAILED" => worker'[w].num_failed > 0
  BY <1>1, AfterRunCounts
<1>4. /\ worker'[w].pc # "idle"
      /\ worker'[w].occurrence # NoOccurrence =>
           worker'[w].iteration <= Iterations[worker'[w].occurrence]
      /\ worker'[w].pc = "settle" =>
           /\ worker'[w].occurrence # NoOccurrence
           /\ worker'[w].iteration = Iterations[worker'[w].occurrence]
  BY <1>1, <1>2, <1>3 DEF CompletedWorker
<1>5. ASSUME worker'[w].num_failed = 0, NEW i \in 1 .. MaxIterations,
             i <= worker[w].iteration
      PROVE  Confirmed(<<w, i>>)'
  <2>1. outcome = "COMPLETED" /\ worker[w].num_failed = 0
    BY <1>3, <1>5
  <2>2. <<w, i>> \in RunIds
    BY DEF RunIds
  <2>3. CASE i < worker[w].iteration
    BY <2>1, <2>2, <2>3 DEF CompletedWorker
  <2>4. CASE i = worker[w].iteration
    <3>1. PICK r \in RunIds : r = <<w, i>>
      BY <2>2
    <3>2. r = RunOf(w)
      BY <2>4, <3>1 DEF RunOf
    <3>3. Confirmed(r)'
      BY <2>1, <3>2, CompletionConfirms
    <3>. QED
      BY <3>1, <3>3 DEF Confirmed
  <2>. QED
    BY <1>1, <1>5, <2>3, <2>4
<1>6. worker'[w].num_failed = 0 =>
        \A i \in 1 .. MaxIterations :
          \/ i < worker'[w].iteration
          \/ i = worker'[w].iteration /\ worker'[w].pc = "settle"
          => Confirmed(<<w, i>>)'
  <2> SUFFICES ASSUME worker'[w].num_failed = 0, NEW i \in 1 .. MaxIterations,
                      \/ i < worker'[w].iteration
                      \/ i = worker'[w].iteration /\ worker'[w].pc = "settle"
               PROVE  Confirmed(<<w, i>>)'
    OBVIOUS
  <2>1. i <= worker[w].iteration
    BY <1>1, <1>2
  <2>. QED
    BY <1>5, <2>1
<1>. QED
  BY <1>4, <1>6 DEF CompletedWorker

\* A step of a worker keeps the invariant.
LEMMA BackedClaimWorkerStep ==
  ASSUME TypeOK, BackedClaimInv, NEW w \in Workers,
         \A r \in RunIds : Confirmed(r) => Confirmed(r)',
         \/ \E o \in Occurrences : Deliver(w, o)
         \/ StartManually(w) \/ WorkerStep(w) \/ WorkerCrash(w)
  PROVE  BackedClaimInv'
<1>1. /\ worker \in [Workers -> WorkerRecord]
      /\ claim \in [Occurrences -> ClaimStatuses]
      /\ worker[w].iteration \in Nat
  BY DEF TypeOK, WorkerRecord
<1>2. /\ MaxIterations \in Nat
      /\ \A o \in Occurrences : Iterations[o] \in 1 .. MaxIterations
  BY ExecutionAssumption
<1>3. \A v \in Workers, i \in 1 .. MaxIterations :
        Confirmed(<<v, i>>) => Confirmed(<<v, i>>)'
  BY DEF RunIds
<1>4. ASSUME OthersKeep(w), CompletedWorker(w)',
             worker'[w].pc # "idle",
             worker[w].pc # "idle" =>
               worker'[w].occurrence = worker[w].occurrence,
             \A o \in Occurrences :
               claim'[o] = "completed" => claim[o] = "completed" \/ ClaimBacked(o)
      PROVE  BackedClaimInv'
  <2>1. ASSUME NEW v \in Workers
        PROVE  CompletedWorker(v)'
    <3>1. CASE v = w
      BY <1>4, <3>1
    <3>2. CASE v # w
      <4>1. worker'[v] = worker[v] /\ CompletedWorker(v)
        BY <1>4, <3>2 DEF OthersKeep, BackedClaimInv
      <4>. QED
        BY <1>3, <4>1 DEF CompletedWorker
    <3>. QED
      BY <3>1, <3>2
  <2>2. ASSUME NEW o \in Occurrences, claim'[o] = "completed"
        PROVE  ClaimBacked(o)'
    <3>1. PICK v \in Workers :
            /\ worker[v].occurrence = o
            /\ worker[v].pc # "idle"
            /\ \A i \in 1 .. Iterations[o] : Confirmed(<<v, i>>)
      BY <1>4, <2>2 DEF BackedClaimInv, ClaimBacked
    <3>2. worker'[v].occurrence = o /\ worker'[v].pc # "idle"
      BY <1>4, <3>1 DEF OthersKeep
    <3>3. \A i \in 1 .. Iterations[o] : i \in 1 .. MaxIterations
      BY <1>2
    <3>4. \A i \in 1 .. Iterations[o] : Confirmed(<<v, i>>)'
      BY <1>3, <3>1, <3>3
    <3>. QED
      BY <3>2, <3>4 DEF ClaimBacked
  <2>. QED
    BY <2>1, <2>2 DEF BackedClaimInv
<1>5. CompletedWorker(w)
  BY DEF BackedClaimInv
<1>6. ASSUME NEW o \in Occurrences, Deliver(w, o)
      PROVE  BackedClaimInv'
  <2>1. /\ OthersKeep(w)
        /\ worker[w].pc = "idle"
        /\ worker'[w].pc = "claim"
        /\ worker'[w].occurrence = o
        /\ worker'[w].iteration = worker[w].iteration
    BY <1>1, <1>6, DeliverFields
  <2>2. worker'[w].iteration = 1
    BY <1>5, <2>1 DEF CompletedWorker
  <2>3. CompletedWorker(w)'
    BY <1>2, <2>1, <2>2 DEF CompletedWorker
  <2>4. UNCHANGED claim
    BY <1>6 DEF Deliver
  <2>. QED
    BY <1>4, <2>1, <2>3, <2>4
<1>7. CASE StartManually(w) \/ WorkerCrash(w) \/ ClaimOccurrence(w)
           \/ RecordBlocked(w) \/ StartRun(w) \/ WriteEvidence(w)
           \/ WriteCounters(w) \/ Admit(w)
  <2>1. \/ \E pc \in WorkerPcs \ {"idle", "settle"} : WorkerGoto(w, pc)
        \/ \E verdict \in {"skipped", "failed"} : Block(w, verdict)
    BY <1>7 DEF StartManually, WorkerCrash, ClaimOccurrence, RecordBlocked,
      StartRun, WriteEvidence, WriteCounters, Admit, WorkerPcs
  <2>2. /\ OthersKeep(w)
        /\ worker'[w].pc \notin {"idle", "settle"}
        /\ worker'[w].occurrence = worker[w].occurrence
        /\ worker'[w].iteration = worker[w].iteration
        /\ worker'[w].num_failed = worker[w].num_failed
    BY <1>1, <2>1, WorkerGotoFields, BlockFields
  <2>3. \/ UNCHANGED claim
        \/ \E s \in {"skipped", "failed", "claimed"} :
             claim' = [claim EXCEPT ![worker[w].occurrence] = s]
    <3>1. worker[w].verdict \in {"skipped", "failed"}
      BY <1>1 DEF WorkerRecord
    <3>. QED
      BY <1>7, <3>1 DEF StartManually, WorkerCrash, ClaimOccurrence,
        RecordBlocked, StartRun, WriteEvidence, WriteCounters, Admit
  <2>4. \A o \in Occurrences : claim'[o] = "completed" => claim[o] = "completed"
    BY <1>1, <2>3
  <2>5. CompletedWorker(w)'
    BY <1>5, <2>2, CompletedWorkerKept
  <2>. QED
    BY <1>4, <2>2, <2>4, <2>5
<1>8. CASE CompleteRun(w) \/ FailRun(w)
  <2>1. UNCHANGED claim /\ worker[w].pc # "idle"
    BY <1>8 DEF CompleteRun, FailRun
  <2>2. CASE WorkerGoto(w, "fail_run")
    <3>1. /\ OthersKeep(w)
          /\ worker'[w].pc = "fail_run"
          /\ worker'[w].occurrence = worker[w].occurrence
          /\ worker'[w].iteration = worker[w].iteration
          /\ worker'[w].num_failed = worker[w].num_failed
      BY <1>1, <2>2, WorkerGotoFields
    <3>2. CompletedWorker(w)'
      BY <1>5, <3>1, CompletedWorkerKept
    <3>. QED
      BY <1>4, <2>1, <3>1, <3>2
  <2>3. ASSUME NEW outcome \in {"COMPLETED", "FAILED"}, AfterRun(w, outcome),
               outcome = "COMPLETED" =>
                 runs' = [runs EXCEPT ![RunOf(w)] = "COMPLETED"]
        PROVE  BackedClaimInv'
    <3>1. /\ OthersKeep(w)
          /\ worker'[w].pc # "idle"
          /\ worker'[w].occurrence = worker[w].occurrence
      BY <1>1, <2>3, AfterRunFields
    <3>2. CompletedWorker(w)'
      BY <1>5, <2>3, CompletedWorkerAfterRun
    <3>. QED
      BY <1>4, <2>1, <3>1, <3>2
  <2>. QED
    BY <1>8, <2>2, <2>3 DEF CompleteRun, FailRun
<1>9. CASE SettleClaim(w)
  <2>1. /\ worker[w].pc = "settle"
        /\ WorkerGoto(w, "counters")
        /\ claim' = [claim EXCEPT ![worker[w].occurrence] =
                       IF worker[w].num_failed = 0 THEN "completed" ELSE "failed"]
    BY <1>9 DEF SettleClaim
  <2>2. /\ OthersKeep(w)
        /\ worker'[w].pc = "counters"
        /\ worker'[w].occurrence = worker[w].occurrence
        /\ worker'[w].iteration = worker[w].iteration
        /\ worker'[w].num_failed = worker[w].num_failed
    BY <1>1, <2>1, WorkerGotoFields
  <2>3. CompletedWorker(w)'
    BY <1>5, <2>2, CompletedWorkerKept
  <2>4. ASSUME NEW o \in Occurrences, claim'[o] = "completed"
        PROVE  claim[o] = "completed" \/ ClaimBacked(o)
    <3>1. CASE o # worker[w].occurrence
      BY <1>1, <2>1, <2>4, <3>1
    <3>2. CASE o = worker[w].occurrence
      <4>1. worker[w].num_failed = 0
        BY <1>1, <2>1, <2>4, <3>2
      <4>2. worker[w].iteration = Iterations[o]
        BY <1>5, <2>1, <3>2 DEF CompletedWorker
      <4>3. \A i \in 1 .. Iterations[o] :
              /\ i \in 1 .. MaxIterations
              /\ i < worker[w].iteration \/ i = worker[w].iteration
        BY <1>1, <1>2, <4>2
      <4>4. \A i \in 1 .. Iterations[o] : Confirmed(<<w, i>>)
        BY <1>5, <2>1, <4>1, <4>3 DEF CompletedWorker
      <4>. QED
        BY <2>1, <3>2, <4>4 DEF ClaimBacked
    <3>. QED
      BY <3>1, <3>2
  <2>. QED
    BY <1>4, <2>1, <2>2, <2>3, <2>4
<1>. QED
  BY <1>6, <1>7, <1>8, <1>9 DEF WorkerStep

\* The invariant holds in every behaviour.
LEMMA BackedClaimsInvariant == Spec => []BackedClaimInv
<1>1. Init => BackedClaimInv
  <2> SUFFICES ASSUME Init PROVE BackedClaimInv
    OBVIOUS
  <2>1. \A w \in Workers : CompletedWorker(w)
    BY DEF Init, CompletedWorker
  <2>. QED
    BY <2>1 DEF Init, BackedClaimInv
<1>2. TypeOK /\ BackedClaimInv /\ [Next]_vars => BackedClaimInv'
  <2> SUFFICES ASSUME TypeOK, BackedClaimInv, [Next]_vars
               PROVE  BackedClaimInv'
    OBVIOUS
  <2>1. \A r \in RunIds : Confirmed(r) => Confirmed(r)'
    BY ConfirmedRunStays
  <2>2. ASSUME NEW w \in Workers,
               \/ \E o \in Occurrences : Deliver(w, o)
               \/ StartManually(w) \/ WorkerStep(w) \/ WorkerCrash(w)
        PROVE  BackedClaimInv'
    BY <2>1, <2>2, BackedClaimWorkerStep
  <2>3. ASSUME UNCHANGED <<worker, claim, runs>>
        PROVE  BackedClaimInv'
    BY <2>3 DEF BackedClaimInv, CompletedWorker, ClaimBacked, Confirmed
  <2>4. ASSUME NEW f \in Finalizers,
               FinalizerRead(f) \/ FinalizerStep(f) \/ FinalizerCrash(f)
        PROVE  UNCHANGED <<worker, claim, runs>>
    BY <2>4 DEF FinalizerRead, FinalizerStep, FinalizerCrash, BeginFinalizing,
      Reread, FailUnexpected, RecordFinalization, ListRuns, ListKeys,
      CompleteAudit, FailAudit, PutIntent, RequestInvocation,
      InvokeAggregation, RecordInvocation, runVars
  <2>5. ScheduleAudit \/ CancelAudit \/ ForceRecreate \/ UNCHANGED vars
          => UNCHANGED <<worker, claim, runs>>
    BY DEF ScheduleAudit, CancelAudit, ForceRecreate, vars, runVars
  <2>. QED
    BY <2>2, <2>3, <2>4, <2>5 DEF Next
<1>. QED
  BY <1>1, <1>2, TypeCorrect, PTL DEF Spec

\* A claim that says "completed" is backed by one delivery that has every run
\* the occurrence asked for, COMPLETED and with its evidence object, for ever.
THEOREM CompletedClaimsAreBacked == Spec => []CompletedClaimIsBacked
<1>1. TypeOK /\ BackedClaimInv /\ CompletedRunHasEvidence => CompletedClaimIsBacked
  <2> SUFFICES ASSUME TypeOK, BackedClaimInv, CompletedRunHasEvidence,
                      NEW o \in Occurrences, claim[o] = "completed"
               PROVE  \E w \in Workers :
                        /\ worker[w].occurrence = o
                        /\ \A i \in 1 .. Iterations[o] :
                             runs[<<w, i>>] = "COMPLETED" /\ <<w, i>> \in evidence
    BY DEF CompletedClaimIsBacked
  <2>1. PICK w \in Workers :
          /\ worker[w].occurrence = o
          /\ \A i \in 1 .. Iterations[o] : Confirmed(<<w, i>>)
    BY DEF BackedClaimInv, ClaimBacked
  <2>2. \A i \in 1 .. Iterations[o] : i \in 1 .. MaxIterations
    BY ExecutionAssumption
  <2>3. \A i \in 1 .. Iterations[o] : <<w, i>> \in RunIds
    BY <2>2 DEF RunIds
  <2>4. \A r \in RunIds : runs[r] = "COMPLETED" => r \in evidence
    BY DEF TypeOK, CompletedRunHasEvidence, RunsWith
  <2>. QED
    BY <2>1, <2>3, <2>4 DEF Confirmed
<1>. QED
  BY <1>1, BackedClaimsInvariant, TypeCorrect, CompletedRunsHaveEvidence, PTL

-----------------------------------------------------------------------------
(***************************************************************************)
(* Counts are backed                                                       *)
(*                                                                         *)
(* Workers overwrite the counters from snapshots, so the argument counts   *)
(* confirmed runs in two parts: those of a worker's own, which its         *)
(* num_completed never exceeds, and those of the others, which the counter *)
(* in its snapshot never exceeds, as the worker had none of its own when   *)
(* it took the snapshot.  Only finitely many runs are COMPLETED at any     *)
(* time, however many workers there may be.                                *)
(***************************************************************************)

CompletedRuns == RunsWith(runs, {"COMPLETED"})
ConfirmedRuns == {r \in RunIds : Confirmed(r)}
ConfirmedOf(w) == {r \in ConfirmedRuns : r[1] = w}
ConfirmedOfOthers(w) == {r \in ConfirmedRuns : r[1] # w}

FiniteInv == IsFiniteSet(CompletedRuns)

CountedWorker(w) ==
  /\ worker[w].num_completed <= Cardinality(ConfirmedOf(w))
  /\ worker[w].counters.total_completed <= Cardinality(ConfirmedOfOthers(w))

CountInv ==
  /\ execution_counters.total_completed <= Cardinality(ConfirmedRuns)
  /\ finalization <= Cardinality(ConfirmedRuns)
  /\ \A w \in Workers : CountedWorker(w)
  /\ \A f \in Finalizers :
       finalizer[f].execution_count <= Cardinality(ConfirmedRuns)

\* A step completes one run at most.
LEMMA FiniteStep ==
  ASSUME TypeOK, FiniteInv, [Next]_vars
  PROVE  FiniteInv'
<1>1. /\ runs \in [RunIds -> RunStatuses \cup {"absent"}]
      /\ CompletedRuns = {r \in RunIds : runs[r] = "COMPLETED"}
  BY DEF TypeOK, CompletedRuns, RunsWith
<1>2. CompletedRuns' = {r \in RunIds : runs'[r] = "COMPLETED"}
  <2>1. runs' \in [RunIds -> RunStatuses \cup {"absent"}]
    BY NextType DEF TypeOK
  <2>. QED
    BY <2>1 DEF CompletedRuns, RunsWith
<1>3. \/ UNCHANGED runs
      \/ \E w \in Workers : \E s \in {"STARTED", "FAILED", "COMPLETED"} :
           runs' = [runs EXCEPT ![RunOf(w)] = s]
  BY RunsAndEvidenceStep
<1>4. \E x : CompletedRuns' \subseteq CompletedRuns \cup {x}
  <2>1. CASE UNCHANGED runs
    BY <1>1, <1>2, <2>1
  <2>2. ASSUME NEW w \in Workers, NEW s \in {"STARTED", "FAILED", "COMPLETED"},
               runs' = [runs EXCEPT ![RunOf(w)] = s]
        PROVE  CompletedRuns' \subseteq CompletedRuns \cup {RunOf(w)}
    BY <1>1, <1>2, <2>2
  <2>. QED
    BY <1>3, <2>1, <2>2
<1>5. PICK x : CompletedRuns' \subseteq CompletedRuns \cup {x}
  BY <1>4
<1>6. IsFiniteSet(CompletedRuns \cup {x})
  BY FS_AddElement DEF FiniteInv
<1>7. IsFiniteSet(CompletedRuns')
  BY <1>5, <1>6, FS_Subset
<1>. QED
  BY <1>7 DEF FiniteInv

\* Confirmed runs are COMPLETED runs, and those of a worker and those of the
\* others make up all of them.
LEMMA ConfirmedCounts ==
  ASSUME TypeOK, FiniteInv, NEW w \in Workers
  PROVE  /\ IsFiniteSet(ConfirmedRuns)
         /\ IsFiniteSet(ConfirmedOf(w))
         /\ IsFiniteSet(ConfirmedOfOthers(w))
         /\ Cardinality(ConfirmedOf(w)) \in Nat
         /\ Cardinality(ConfirmedOfOthers(w)) \in Nat
         /\ Cardinality(ConfirmedRuns) =
              Cardinality(ConfirmedOf(w)) + Cardinality(ConfirmedOfOthers(w))
<1>1. ConfirmedRuns \subseteq CompletedRuns
  BY DEF TypeOK, ConfirmedRuns, Confirmed, CompletedRuns, RunsWith
<1>2. IsFiniteSet(ConfirmedRuns)
  BY <1>1, FS_Subset DEF FiniteInv
<1>3. /\ ConfirmedOf(w) \subseteq ConfirmedRuns
      /\ ConfirmedOfOthers(w) \subseteq ConfirmedRuns
      /\ ConfirmedRuns = ConfirmedOf(w) \cup ConfirmedOfOthers(w)
      /\ ConfirmedOf(w) \cap ConfirmedOfOthers(w) = {}
  BY DEF ConfirmedOf, ConfirmedOfOthers
<1>4. IsFiniteSet(ConfirmedOf(w)) /\ IsFiniteSet(ConfirmedOfOthers(w))
  BY <1>2, <1>3, FS_Subset
<1>5. /\ Cardinality(ConfirmedOf(w)) \in Nat
      /\ Cardinality(ConfirmedOfOthers(w)) \in Nat
      /\ Cardinality({}) = 0
  BY <1>4, FS_CardinalityType, FS_EmptySet
<1>6. Cardinality(ConfirmedOf(w) \cup ConfirmedOfOthers(w)) =
        Cardinality(ConfirmedOf(w)) + Cardinality(ConfirmedOfOthers(w))
          - Cardinality(ConfirmedOf(w) \cap ConfirmedOfOthers(w))
  BY <1>4, FS_Union
<1>7. Cardinality(ConfirmedRuns) =
        Cardinality(ConfirmedOf(w)) + Cardinality(ConfirmedOfOthers(w)) - 0
  BY <1>3, <1>5, <1>6
<1>. QED
  BY <1>2, <1>4, <1>5, <1>7

\* No step takes a confirmed run away, from a worker or from the others.
LEMMA CountsGrow ==
  ASSUME TypeOK, FiniteInv, [Next]_vars
  PROVE  /\ Cardinality(ConfirmedRuns) \in Nat
         /\ Cardinality(ConfirmedRuns)' \in Nat
         /\ Cardinality(ConfirmedRuns) <= Cardinality(ConfirmedRuns)'
         /\ \A w \in Workers :
              /\ Cardinality(ConfirmedOf(w)) \in Nat
              /\ Cardinality(ConfirmedOf(w))' \in Nat
              /\ Cardinality(ConfirmedOf(w)) <= Cardinality(ConfirmedOf(w))'
              /\ Cardinality(ConfirmedOfOthers(w)) \in Nat
              /\ Cardinality(ConfirmedOfOthers(w))' \in Nat
              /\ Cardinality(ConfirmedOfOthers(w)) <=
                   Cardinality(ConfirmedOfOthers(w))'
<1>1. TypeOK' /\ FiniteInv'
  BY NextType, FiniteStep
<1>2. \A r \in RunIds : Confirmed(r) => Confirmed(r)'
  BY ConfirmedRunStays
<1>3. ConfirmedRuns \subseteq ConfirmedRuns'
  BY <1>2 DEF ConfirmedRuns, RunIds
<1>4. IsFiniteSet(CompletedRuns') /\ ConfirmedRuns' \subseteq CompletedRuns'
  BY <1>1 DEF TypeOK, FiniteInv, ConfirmedRuns, Confirmed, CompletedRuns, RunsWith
<1>5. IsFiniteSet(ConfirmedRuns')
  BY <1>4, FS_Subset
<1>6. /\ Cardinality(ConfirmedRuns') \in Nat
      /\ Cardinality(ConfirmedRuns) <= Cardinality(ConfirmedRuns')
      /\ IsFiniteSet(ConfirmedRuns)
  BY <1>3, <1>5, FS_CardinalityType, FS_Subset
<1>7. Cardinality(ConfirmedRuns) \in Nat
  BY <1>6, FS_CardinalityType
<1>8. ASSUME NEW w \in Workers
      PROVE  /\ Cardinality(ConfirmedOf(w)) \in Nat
             /\ Cardinality(ConfirmedOf(w)') \in Nat
             /\ Cardinality(ConfirmedOf(w)) <= Cardinality(ConfirmedOf(w)')
             /\ Cardinality(ConfirmedOfOthers(w)) \in Nat
             /\ Cardinality(ConfirmedOfOthers(w)') \in Nat
             /\ Cardinality(ConfirmedOfOthers(w)) <=
                  Cardinality(ConfirmedOfOthers(w)')
  <2>1. /\ ConfirmedOf(w) \subseteq ConfirmedOf(w)'
        /\ ConfirmedOf(w)' \subseteq ConfirmedRuns'
        /\ ConfirmedOfOthers(w) \subseteq ConfirmedOfOthers(w)'
        /\ ConfirmedOfOthers(w)' \subseteq ConfirmedRuns'
    BY <1>3 DEF ConfirmedOf, ConfirmedOfOthers
  <2>2. IsFiniteSet(ConfirmedOf(w)') /\ IsFiniteSet(ConfirmedOfOthers(w)')
    BY <1>5, <2>1, FS_Subset
  <2>3. /\ Cardinality(ConfirmedOf(w)') \in Nat
        /\ Cardinality(ConfirmedOfOthers(w)') \in Nat
    BY <2>2, FS_CardinalityType
  <2>4. /\ Cardinality(ConfirmedOf(w)) \in Nat
        /\ Cardinality(ConfirmedOfOthers(w)) \in Nat
    BY ConfirmedCounts
  <2>. QED
    BY <2>1, <2>2, <2>3, <2>4, FS_Subset
<1>. QED
  BY <1>6, <1>7, <1>8

\* A worker that is told its run completed has one more confirmed run.
LEMMA CompletionCounts ==
  ASSUME TypeOK, FiniteInv, [Next]_vars, NEW w \in Workers,
         worker[w].pc = "terminal",
         runs' = [runs EXCEPT ![RunOf(w)] = "COMPLETED"],
         AfterRun(w, "COMPLETED")
  PROVE  Cardinality(ConfirmedOf(w)) + 1 <= Cardinality(ConfirmedOf(w))'
<1>1. PICK r \in RunIds : r = RunOf(w)
  BY RunOfIsRunId
<1>2. r[1] = w /\ r[2] = worker[w].iteration /\ worker[w].iteration \in Nat
  BY <1>1 DEF RunOf, TypeOK, WorkerRecord
<1>3. r \notin ConfirmedOf(w)
  BY <1>2 DEF ConfirmedOf, ConfirmedRuns, Confirmed, RestPcs
<1>4. Confirmed(r)'
  BY <1>1, CompletionConfirms
<1>5. \A q \in RunIds : Confirmed(q) => Confirmed(q)'
  BY ConfirmedRunStays
<1>6. ConfirmedOf(w) \cup {r} \subseteq ConfirmedOf(w)'
  BY <1>2, <1>4, <1>5 DEF ConfirmedOf, ConfirmedRuns, RunIds
<1>7. IsFiniteSet(ConfirmedOf(w))
  BY ConfirmedCounts
<1>8. IsFiniteSet(ConfirmedOf(w)')
  <2>1. TypeOK' /\ FiniteInv'
    BY NextType, FiniteStep
  <2>2. IsFiniteSet(CompletedRuns') /\ ConfirmedOf(w)' \subseteq CompletedRuns'
    BY <2>1 DEF TypeOK, FiniteInv, ConfirmedOf, ConfirmedRuns, Confirmed,
      CompletedRuns, RunsWith
  <2>. QED
    BY <2>2, FS_Subset
<1>9. Cardinality(ConfirmedOf(w) \cup {r}) = Cardinality(ConfirmedOf(w)) + 1
  BY <1>3, <1>7, FS_AddElement
<1>10. Cardinality(ConfirmedOf(w) \cup {r}) <= Cardinality(ConfirmedOf(w)')
  BY <1>6, <1>8, FS_Subset
<1>. QED
  BY <1>9, <1>10

\* A step of a worker keeps every count within the confirmed runs.
LEMMA CountWorkerStep ==
  ASSUME TypeOK, BackedClaimInv, FiniteInv, CountInv, [Next]_vars,
         NEW w \in Workers,
         \/ \E o \in Occurrences : Deliver(w, o)
         \/ StartManually(w) \/ WorkerStep(w) \/ WorkerCrash(w)
  PROVE  CountInv'
<1>1. /\ worker \in [Workers -> WorkerRecord]
      /\ execution_counters.total_completed \in Int
      /\ finalization \in Int
      /\ \A v \in Workers : /\ worker[v].num_completed \in Int
                            /\ worker[v].counters.total_completed \in Int
      /\ \A f \in Finalizers : finalizer[f].execution_count \in Int
  BY DEF TypeOK, WorkerRecord, FinalizerRecord, Counters, NoCount
<1>2. /\ Cardinality(ConfirmedRuns) \in Nat
      /\ Cardinality(ConfirmedRuns)' \in Nat
      /\ Cardinality(ConfirmedRuns) <= Cardinality(ConfirmedRuns)'
      /\ \A v \in Workers :
           /\ Cardinality(ConfirmedOf(v)) \in Nat
           /\ Cardinality(ConfirmedOf(v))' \in Nat
           /\ Cardinality(ConfirmedOf(v)) <= Cardinality(ConfirmedOf(v))'
           /\ Cardinality(ConfirmedOfOthers(v)) \in Nat
           /\ Cardinality(ConfirmedOfOthers(v))' \in Nat
           /\ Cardinality(ConfirmedOfOthers(v)) <=
                Cardinality(ConfirmedOfOthers(v))'
  BY CountsGrow
<1>3. Cardinality(ConfirmedRuns) =
        Cardinality(ConfirmedOf(w)) + Cardinality(ConfirmedOfOthers(w))
  BY ConfirmedCounts
<1> USE DEF auditVars, runVars
<1>4. UNCHANGED <<finalization, finalizer>>
  BY DEF Deliver, StartManually, WorkerCrash, WorkerStep, ClaimOccurrence,
    Admit, RecordBlocked, StartRun, WriteEvidence, CompleteRun, FailRun,
    SettleClaim, WriteCounters
<1>5. ASSUME OthersKeep(w), CountedWorker(w)',
             execution_counters'.total_completed <= Cardinality(ConfirmedRuns)'
      PROVE  CountInv'
  <2>1. ASSUME NEW v \in Workers, v # w
        PROVE  CountedWorker(v)'
    <3>1. worker'[v] = worker[v] /\ CountedWorker(v)
      BY <1>5, <2>1 DEF OthersKeep, CountInv
    <3>. QED
      BY <1>1, <1>2, <3>1 DEF CountedWorker
  <2>2. finalization' <= Cardinality(ConfirmedRuns)'
    BY <1>1, <1>2, <1>4 DEF CountInv
  <2>3. \A f \in Finalizers :
          finalizer'[f].execution_count <= Cardinality(ConfirmedRuns)'
    BY <1>1, <1>2, <1>4 DEF CountInv
  <2>. QED
    BY <1>5, <2>1, <2>2, <2>3 DEF CountInv
<1>6. CountedWorker(w)
  BY DEF CountInv
<1>7. ASSUME OthersKeep(w), UNCHANGED execution_counters,
             worker'[w].num_completed = worker[w].num_completed,
             worker'[w].counters = worker[w].counters
      PROVE  CountInv'
  <2>1. CountedWorker(w)'
    BY <1>1, <1>2, <1>6, <1>7 DEF CountedWorker
  <2>2. execution_counters'.total_completed <= Cardinality(ConfirmedRuns)'
    BY <1>1, <1>2, <1>7 DEF CountInv
  <2>. QED
    BY <1>5, <1>7, <2>1, <2>2
<1>8. ASSUME NEW o \in Occurrences, Deliver(w, o)
      PROVE  CountInv'
  <2>1. /\ OthersKeep(w)
        /\ worker[w].pc = "idle"
        /\ worker'[w].counters = execution_counters
        /\ worker'[w].num_completed = worker[w].num_completed
    BY <1>1, <1>8, DeliverFields
  <2>2. worker[w].iteration = 1
    BY <2>1 DEF BackedClaimInv, CompletedWorker
  <2>3. \A r \in ConfirmedOf(w) : r[2] \in Nat /\ r[2] >= 1 /\ r[2] < 1
    BY <2>1, <2>2 DEF ConfirmedOf, ConfirmedRuns, Confirmed, RunIds, RestPcs
  <2>4. ConfirmedOf(w) = {}
    BY <2>3
  <2>5. Cardinality(ConfirmedOf(w)) = 0
    BY <2>4, FS_EmptySet
  <2>6. UNCHANGED execution_counters
    BY <1>8 DEF Deliver
  <2>7. execution_counters.total_completed <= Cardinality(ConfirmedRuns)
    BY DEF CountInv
  <2>8. CountedWorker(w)'
    BY <1>1, <1>2, <1>3, <1>6, <2>1, <2>5, <2>7 DEF CountedWorker
  <2>9. execution_counters'.total_completed <= Cardinality(ConfirmedRuns)'
    BY <1>1, <1>2, <2>6, <2>7
  <2>. QED
    BY <1>5, <2>1, <2>8, <2>9
<1>9. CASE StartManually(w) \/ WorkerCrash(w) \/ ClaimOccurrence(w)
           \/ RecordBlocked(w) \/ StartRun(w) \/ WriteEvidence(w)
           \/ SettleClaim(w) \/ Admit(w)
  <2>1. \/ \E pc \in WorkerPcs : WorkerGoto(w, pc)
        \/ \E verdict \in {"skipped", "failed"} : Block(w, verdict)
    BY <1>9 DEF StartManually, WorkerCrash, ClaimOccurrence, RecordBlocked,
      StartRun, WriteEvidence, SettleClaim, Admit, WorkerPcs
  <2>2. UNCHANGED execution_counters
    BY <1>9 DEF StartManually, WorkerCrash, ClaimOccurrence, RecordBlocked,
      StartRun, WriteEvidence, SettleClaim, Admit
  <2>. QED
    BY <1>1, <1>7, <2>1, <2>2, WorkerGotoFields, BlockFields
<1>10. CASE CompleteRun(w)
  <2>1. UNCHANGED execution_counters /\ worker[w].pc = "terminal"
    BY <1>10 DEF CompleteRun
  <2>2. CASE /\ runs' = [runs EXCEPT ![RunOf(w)] = "COMPLETED"]
             /\ AfterRun(w, "COMPLETED")
    <3>1. Cardinality(ConfirmedOf(w)) + 1 <= Cardinality(ConfirmedOf(w))'
      BY <2>1, <2>2, CompletionCounts
    <3>2. /\ OthersKeep(w)
          /\ worker'[w].counters = worker[w].counters
          /\ worker'[w].num_completed = worker[w].num_completed + 1
      BY <1>1, <2>2, AfterRunFields, AfterRunCounts
    <3>3. CountedWorker(w)'
      BY <1>1, <1>2, <1>6, <3>1, <3>2 DEF CountedWorker
    <3>4. execution_counters'.total_completed <= Cardinality(ConfirmedRuns)'
      BY <1>1, <1>2, <2>1 DEF CountInv
    <3>. QED
      BY <1>5, <3>2, <3>3, <3>4
  <2>3. CASE WorkerGoto(w, "fail_run")
    BY <1>1, <1>7, <2>1, <2>3, WorkerGotoFields
  <2>. QED
    BY <1>10, <2>2, <2>3 DEF CompleteRun
<1>11. CASE FailRun(w)
  BY <1>1, <1>7, <1>11, AfterRunFields DEF FailRun
<1>12. CASE WriteCounters(w)
  <2>1. /\ OthersKeep(w)
        /\ worker'[w].num_completed = worker[w].num_completed
        /\ worker'[w].counters = worker[w].counters
    BY <1>1, <1>12, WorkerGotoFields DEF WriteCounters
  <2>2. execution_counters'.total_completed =
          worker[w].counters.total_completed + worker[w].num_completed
    BY <1>12 DEF WriteCounters
  <2>3. execution_counters'.total_completed <= Cardinality(ConfirmedRuns)
    BY <1>1, <1>2, <1>3, <1>6, <2>2 DEF CountedWorker
  <2>4. execution_counters'.total_completed <= Cardinality(ConfirmedRuns)'
    BY <1>1, <1>2, <2>2, <2>3
  <2>5. CountedWorker(w)'
    BY <1>1, <1>2, <1>6, <2>1 DEF CountedWorker
  <2>. QED
    BY <1>5, <2>1, <2>4, <2>5
<1>. QED
  BY <1>8, <1>9, <1>10, <1>11, <1>12 DEF WorkerStep

\* How a step of a finalizer changes the counts.
LEMMA FinalizerCounts ==
  ASSUME TypeOK, NEW f \in Finalizers,
         FinalizerRead(f) \/ FinalizerStep(f) \/ FinalizerCrash(f)
  PROVE  /\ UNCHANGED <<execution_counters, worker, runs>>
         /\ finalization' \in {finalization, finalizer[f].execution_count}
         /\ \A g \in Finalizers :
              finalizer'[g].execution_count \in
                {finalizer[g].execution_count, finalization,
                 execution_counters.total_completed}
<1>1. finalizer \in [Finalizers -> FinalizerRecord]
  BY DEF TypeOK
<1> USE DEF auditVars, runVars
<1>2. UNCHANGED <<execution_counters, worker, runs>>
  BY DEF FinalizerRead, FinalizerStep, FinalizerCrash, BeginFinalizing, Reread,
    FailUnexpected, RecordFinalization, ListRuns, ListKeys, CompleteAudit,
    FailAudit, PutIntent, RequestInvocation, InvokeAggregation, RecordInvocation
<1>3. finalization' \in {finalization, finalizer[f].execution_count}
  BY DEF FinalizerRead, FinalizerStep, FinalizerCrash, BeginFinalizing, Reread,
    FailUnexpected, RecordFinalization, ListRuns, ListKeys, CompleteAudit,
    FailAudit, PutIntent, RequestInvocation, InvokeAggregation, RecordInvocation
<1>4. ASSUME NEW pc, FinalizerGoto(f, pc)
      PROVE  \A g \in Finalizers :
               finalizer'[g].execution_count = finalizer[g].execution_count
  BY <1>1, <1>4, FinalizerGotoPc, FinalizerGotoCount
<1>5. CASE FinalizerRead(f) \/ Reread(f)
  <2>1. PICK otherwise \in {"begin", "fail_unexpected"} : ReadAudit(f, otherwise)
    BY <1>5 DEF FinalizerRead, Reread
  <2> DEFINE pc == IF lifecycle_state \in TerminalStates THEN "done"
                   ELSE IF lifecycle_state = "FINALIZING" THEN RetryPc
                   ELSE otherwise
             count == IF lifecycle_state = "FINALIZING" THEN finalization
                      ELSE execution_counters.total_completed
  <2>2. finalizer' = [finalizer EXCEPT ![f] =
                       [@ EXCEPT !.pc = pc, !.state = lifecycle_state,
                                 !.counters = execution_counters,
                                 !.execution_count = count]]
    BY <2>1 DEF ReadAudit
  <2>3. count \in {finalization, execution_counters.total_completed}
    OBVIOUS
  <2> HIDE DEF pc, count
  <2>4. \A g \in Finalizers :
          finalizer'[g].execution_count \in {finalizer[g].execution_count, count}
    BY <1>1, <2>2 DEF FinalizerRecord
  <2>. QED
    BY <1>2, <1>3, <2>3, <2>4
<1>6. CASE BeginFinalizing(f) \/ FailUnexpected(f) \/ RecordFinalization(f)
           \/ CompleteAudit(f) \/ FailAudit(f) \/ PutIntent(f)
           \/ RequestInvocation(f) \/ InvokeAggregation(f)
           \/ RecordInvocation(f) \/ FinalizerCrash(f)
  <2>1. \E pc \in FinalizerPcs : FinalizerGoto(f, pc)
    BY <1>6 DEF BeginFinalizing, FailUnexpected, RecordFinalization,
      CompleteAudit, FailAudit, PutIntent, RequestInvocation,
      InvokeAggregation, RecordInvocation, FinalizerCrash, FinalizerPcs
  <2>. QED
    BY <1>2, <1>3, <1>4, <2>1
<1>7. CASE ListRuns(f) \/ ListKeys(f)
  <2>1. CASE ListRuns(f)
    BY <1>1, <1>2, <1>3, <2>1 DEF ListRuns, FinalizerRecord
  <2>2. CASE ListKeys(f)
    <3>1. PICK pc \in {"complete", "fail"} :
            finalizer' = [finalizer EXCEPT ![f].keys = evidence, ![f].pc = pc]
      BY <2>2 DEF ListKeys
    <3>. QED
      BY <1>1, <1>2, <1>3, <3>1 DEF FinalizerRecord
  <2>. QED
    BY <1>7, <2>1, <2>2
<1>. QED
  BY <1>5, <1>6, <1>7 DEF FinalizerStep

\* Every step keeps the counts within the confirmed runs.
LEMMA CountStep ==
  ASSUME TypeOK, BackedClaimInv, FiniteInv, CountInv, [Next]_vars
  PROVE  CountInv'
<1>1. ASSUME NEW w \in Workers,
             \/ \E o \in Occurrences : Deliver(w, o)
             \/ StartManually(w) \/ WorkerStep(w) \/ WorkerCrash(w)
      PROVE  CountInv'
  BY <1>1, CountWorkerStep
<1>2. ASSUME UNCHANGED <<execution_counters, worker, runs>>,
             finalization' <= Cardinality(ConfirmedRuns),
             \A f \in Finalizers :
               finalizer'[f].execution_count <= Cardinality(ConfirmedRuns)
      PROVE  CountInv'
  <2>1. \A r : Confirmed(r)' <=> Confirmed(r)
    BY <1>2 DEF Confirmed
  <2>2. ConfirmedRuns' = ConfirmedRuns
    BY <2>1 DEF ConfirmedRuns, RunIds
  <2>3. \A w \in Workers : /\ ConfirmedOf(w)' = ConfirmedOf(w)
                           /\ ConfirmedOfOthers(w)' = ConfirmedOfOthers(w)
    BY <2>2 DEF ConfirmedOf, ConfirmedOfOthers
  <2>4. \A w \in Workers : CountedWorker(w)'
    BY <1>2, <2>3 DEF CountInv, CountedWorker
  <2>. QED
    BY <1>2, <2>2, <2>4 DEF CountInv
<1>3. ASSUME NEW f \in Finalizers,
             FinalizerRead(f) \/ FinalizerStep(f) \/ FinalizerCrash(f)
      PROVE  CountInv'
  <2>1. /\ UNCHANGED <<execution_counters, worker, runs>>
        /\ finalization' \in {finalization, finalizer[f].execution_count}
        /\ \A g \in Finalizers :
             finalizer'[g].execution_count \in
               {finalizer[g].execution_count, finalization,
                execution_counters.total_completed}
    BY <1>3, FinalizerCounts
  <2>. QED
    BY <1>2, <2>1 DEF CountInv
<1>4. CASE ScheduleAudit \/ CancelAudit \/ ForceRecreate \/ UNCHANGED vars
  <2>1. UNCHANGED <<execution_counters, finalization, worker, runs, finalizer>>
    BY <1>4 DEF ScheduleAudit, CancelAudit, ForceRecreate, vars, auditVars,
      runVars
  <2>. QED
    BY <1>2, <2>1 DEF CountInv
<1>. QED
  BY <1>1, <1>3, <1>4 DEF Next

\* Neither the counter that concurrent workers overwrite, nor the count that
\* decides the finalization, ever claims more executions than there are
\* COMPLETED runs.
THEOREM CountsAreAlwaysBacked == Spec => []CountsAreBacked
<1>1. Init => FiniteInv
  <2>1. Init => CompletedRuns = {}
    BY DEF Init, CompletedRuns, RunsWith
  <2>. QED
    BY <2>1, FS_EmptySet DEF FiniteInv
<1>2. Init => CountInv
  <2> SUFFICES ASSUME Init PROVE CountInv
    OBVIOUS
  <2>1. ConfirmedRuns = {}
    BY DEF Init, ConfirmedRuns, Confirmed
  <2>2. \A w \in Workers : ConfirmedOf(w) = {} /\ ConfirmedOfOthers(w) = {}
    BY <2>1 DEF ConfirmedOf, ConfirmedOfOthers
  <2>3. Cardinality({}) = 0
    BY FS_EmptySet
  <2>4. execution_counters.total_completed = 0 /\ NoCounters.total_completed = 0
    <3>1. \/ execution_counters = NoCounters
          \/ execution_counters = [NoCounters EXCEPT !.present = TRUE]
      BY DEF Init
    <3>. QED
      BY <3>1 DEF NoCounters
  <2>5. \A w \in Workers : CountedWorker(w)
    <3>1. \A w \in Workers : /\ worker[w].num_completed = 0
                             /\ worker[w].counters.total_completed = 0
      BY <2>4 DEF Init
    <3>2. \A w \in Workers : /\ Cardinality(ConfirmedOf(w)) = 0
                             /\ Cardinality(ConfirmedOfOthers(w)) = 0
      BY <2>2, <2>3
    <3>. QED
      BY <3>1, <3>2 DEF CountedWorker
  <2>6. /\ finalization = -1
        /\ \A f \in Finalizers : finalizer[f].execution_count = 0
    BY DEF Init, NoCount
  <2>. QED
    BY <2>1, <2>3, <2>4, <2>5, <2>6 DEF CountInv
<1>3. TypeOK /\ FiniteInv /\ [Next]_vars => FiniteInv'
  BY FiniteStep
<1>4. TypeOK /\ BackedClaimInv /\ FiniteInv /\ CountInv /\ [Next]_vars
        => CountInv'
  BY CountStep
<1>5. TypeOK /\ FiniteInv /\ CountInv => CountsAreBacked
  <2> SUFFICES ASSUME TypeOK, FiniteInv, CountInv
               PROVE  CountsAreBacked
    OBVIOUS
  <2>1. ConfirmedRuns \subseteq CompletedRuns
    BY DEF TypeOK, ConfirmedRuns, Confirmed, CompletedRuns, RunsWith
  <2>2. /\ Cardinality(ConfirmedRuns) <= Cardinality(CompletedRuns)
        /\ IsFiniteSet(ConfirmedRuns)
    BY <2>1, FS_Subset DEF FiniteInv
  <2>3. /\ Cardinality(ConfirmedRuns) \in Nat
        /\ Cardinality(CompletedRuns) \in Nat
    BY <2>2, FS_CardinalityType DEF FiniteInv
  <2>4. execution_counters.total_completed \in Int /\ finalization \in Int
    BY DEF TypeOK, Counters, NoCount
  <2>5. /\ execution_counters.total_completed <= Cardinality(CompletedRuns)
        /\ finalization <= Cardinality(CompletedRuns)
    BY <2>2, <2>3, <2>4 DEF CountInv
  <2>. QED
    BY <2>5 DEF CountsAreBacked, CompletedRuns
<1>. QED
  BY <1>1, <1>2, <1>3, <1>4, <1>5, BackedClaimsInvariant, TypeCorrect, PTL
    DEF Spec

=============================================================================
