--------------------------- MODULE AuditScheduling ---------------------------
(***************************************************************************)
(* The operator's commands on one audit, and the EventBridge schedules     *)
(* they create and remove:                                                 *)
(*                                                                         *)
(*   schedule             schedule_from_persisted_audit (`rcp audit        *)
(*                        schedule`);                                      *)
(*   schedule_audit       the service's older entry point;                 *)
(*   cancel_for_operator  `rcp audit cancel`: transition, then clean up;   *)
(*   cancel               the service's older entry point: clean up, then  *)
(*                        transition.                                      *)
(*                                                                         *)
(* Each remote call is a step.  Schedule names are computed from the       *)
(* audit's ids, so two commands name the same schedules; they are numbered *)
(* in the order build_all gives, the finalization schedule last.           *)
(***************************************************************************)
EXTENDS AuditLifecycle, FiniteSets

CONSTANTS
  ScheduleCount,   \* how many definitions the audit's config asks for
  Commands,        \* command invocations
  CommandKind,     \* which entry point each of them calls
  MaxFaults        \* bound on crashes and failed calls

CommandKinds == {"schedule", "schedule_audit", "cancel_for_operator", "cancel"}

ASSUME SchedulingAssumption ==
  /\ ScheduleCount \in Nat \ {0}
  /\ CommandKind \in [Commands -> CommandKinds]
  /\ MaxFaults \in Nat

VARIABLES
  schedules,       \* audit item: the schedules attribute
  cleanup_errors,  \* audit item: the schedules of the cleanup_errors attribute
  provider,        \* EventBridge Scheduler: the state of each schedule
  fired,           \* schedules that have fired and deleted themselves
  command,
  faults

itemVars == <<schedules, cleanup_errors>>
providerVars == <<provider, fired>>

schedulingVars == <<lifecycle_state, lifecycle_history, schedules,
                    cleanup_errors, provider, fired, command, faults>>

Schedules == 1 .. ScheduleCount
FinalizationSchedule == ScheduleCount

CommandPcs == {"idle", "create", "persist", "commit", "rollback",
               "persist_rollback", "reread", "fail", "cancel", "cleanup",
               "record_errors", "done", "raised", "crashed"}

Fault == faults < MaxFaults /\ faults' = faults + 1
NoFault == UNCHANGED faults

Creates(c) == CommandKind[c] \in {"schedule", "schedule_audit"}

CommandGoto(c, pc) == command' = [command EXCEPT ![c].pc = pc]

-----------------------------------------------------------------------------
(***************************************************************************)
(* schedule_from_persisted_audit and schedule_audit                        *)
(***************************************************************************)

\* The audit item is read (schedule_audit first tries to put it, and reads it
\* when it exists).  Only the CLI's entry point insists on DRAFT.
BeginSchedule(c) ==
  /\ command[c].pc = "idle"
  /\ Creates(c)
  /\ command' = [command EXCEPT
       ![c].state = lifecycle_state,
       ![c].pc = IF CommandKind[c] = "schedule" /\ lifecycle_state # "DRAFT"
                 THEN "raised" ELSE "create"]
  /\ UNCHANGED <<lifecycleVars, itemVars, providerVars, faults>>

\* Any exception inside the try: what was created is rolled back.
StartRollback(c) ==
  command' = [command EXCEPT ![c].pc = "rollback",
                             ![c].targets = 1 .. command[c].created]

\* Mutant: a schedule that exists already counts as created.
CreateSchedule_AdoptsExisting(c) ==
  LET n == command[c].created + 1
      created == [provider EXCEPT ![n] = "enabled"]
  IN  /\ command[c].pc = "create"
      /\ \/ /\ provider' = created
            /\ command' = [command EXCEPT
                 ![c].created = n,
                 ![c].pc = IF n = ScheduleCount THEN "persist" ELSE "create"]
            /\ NoFault
         \/ /\ provider[n] = "absent"
            /\ provider' = created \/ UNCHANGED provider
            /\ StartRollback(c)
            /\ Fault
      /\ UNCHANGED <<lifecycleVars, itemVars, fired>>

\* Mutant: the loop goes on past the last definition.
CreateSchedule_OneTooMany(c) ==
  LET n == command[c].created + 1
  IN  /\ command[c].pc = "create"
      /\ provider[n] = "absent"
      /\ provider' = [provider EXCEPT ![n] = "enabled"]
      /\ command' = [command EXCEPT
           ![c].created = n,
           ![c].pc = IF n > ScheduleCount THEN "persist" ELSE "create"]
      /\ UNCHANGED <<lifecycleVars, itemVars, fired, faults>>

\* create_schedule for the next definition.  A schedule of that name is a
\* conflict; a call that fails may have created it.
CreateSchedule(c) ==
  LET n == command[c].created + 1
      created == [provider EXCEPT ![n] = "enabled"]
  IN  /\ command[c].pc = "create"
      /\ \/ /\ provider[n] = "absent"
            /\ provider' = created
            /\ command' = [command EXCEPT
                 ![c].created = n,
                 ![c].pc = IF n = ScheduleCount THEN "persist" ELSE "create"]
            /\ NoFault
         \/ /\ provider[n] # "absent"
            /\ StartRollback(c)
            /\ NoFault
            /\ UNCHANGED provider
         \/ /\ provider[n] = "absent"
            /\ provider' = created \/ UNCHANGED provider
            /\ StartRollback(c)
            /\ Fault
      /\ UNCHANGED <<lifecycleVars, itemVars, fired>>

\* set_schedules: the attribute is overwritten with what this command created.
PersistSchedules(c) ==
  /\ command[c].pc = "persist"
  /\ \/ /\ schedules' = 1 .. command[c].created
        /\ CommandGoto(c, "commit")
        /\ NoFault
     \/ /\ schedules' = 1 .. command[c].created \/ UNCHANGED schedules
        /\ StartRollback(c)
        /\ Fault
  /\ UNCHANGED <<lifecycleVars, cleanup_errors, providerVars>>

\* The transition to SCHEDULED, from the state that was read.
CommitSchedule(c) ==
  /\ command[c].pc = "commit"
  /\ \/ /\ Transition(command[c].state, "SCHEDULED")
        /\ CommandGoto(c, "done")
        /\ NoFault
     \/ /\ \/ LifecycleConflict(command[c].state, "SCHEDULED")
           \/ InvalidTransition(command[c].state, "SCHEDULED")
        /\ StartRollback(c)
        /\ NoFault
     \/ /\ Transition(command[c].state, "SCHEDULED") \/ UNCHANGED lifecycleVars
        /\ StartRollback(c)
        /\ Fault
  /\ UNCHANGED <<itemVars, providerVars>>

\* The rolled-back list is stored, an empty one included.
PersistRollback(c) ==
  /\ command[c].pc = "persist_rollback"
  /\ schedules' = 1 .. command[c].created
  /\ CommandGoto(c, IF command[c].errors # {} THEN "record_errors"
                    ELSE IF CommandKind[c] = "schedule" THEN "fail"
                    ELSE "reread")
  /\ UNCHANGED <<lifecycleVars, cleanup_errors, providerVars, faults>>

\* schedule_audit fails the audit from whatever state it is in by then.
RereadState(c) ==
  /\ command[c].pc = "reread"
  /\ command' = [command EXCEPT ![c].pc = "fail", ![c].state = lifecycle_state]
  /\ UNCHANGED <<lifecycleVars, itemVars, providerVars, faults>>

\* The transition to FAILED; then, or if it is refused, the exception is
\* raised again.
FailSchedule(c) ==
  /\ command[c].pc = "fail"
  /\ \/ Transition(command[c].state, "FAILED")
     \/ LifecycleConflict(command[c].state, "FAILED")
     \/ InvalidTransition(command[c].state, "FAILED")
  /\ CommandGoto(c, "raised")
  /\ UNCHANGED <<itemVars, providerVars, faults>>

-----------------------------------------------------------------------------
(***************************************************************************)
(* _rollback and _cleanup_schedule: delete each schedule, disable it if    *)
(* that raises, note an error if that raises too.                          *)
(***************************************************************************)

\* Mutant: a delete that fails is taken for done.
RemoveSchedule_SwallowsFailure(n, failed) ==
  /\ failed = FALSE
  /\ \/ /\ provider' = [provider EXCEPT ![n] = "absent"]
        /\ NoFault
     \/ /\ UNCHANGED provider
        /\ Fault

\* One schedule; failed says whether it ends up among the errors.  Deleting
\* or disabling a schedule that does not exist raises.  Where the delete raises, the
\* disable may still be done, be done with its answer lost, or fail.
RemoveSchedule(n, failed) ==
  \/ /\ provider[n] # "absent"
     /\ provider' = [provider EXCEPT ![n] = "absent"]
     /\ failed = FALSE
     /\ NoFault
  \/ /\ provider[n] = "absent"
     /\ failed = TRUE
     /\ NoFault
     /\ UNCHANGED provider
  \/ /\ provider[n] # "absent"
     /\ \/ provider' = [provider EXCEPT ![n] = "disabled"] /\ failed \in BOOLEAN
        \/ provider' = [provider EXCEPT ![n] = "absent"] /\ failed = TRUE
        \/ UNCHANGED provider /\ failed = TRUE
     /\ Fault

NextTarget(c) ==
  CHOOSE n \in command[c].targets : \A m \in command[c].targets : n <= m

CleanUp(c) ==
  /\ command[c].pc \in {"rollback", "cleanup"}
  /\ command[c].targets # {}
  /\ \E failed \in BOOLEAN :
       /\ RemoveSchedule(NextTarget(c), failed)
       /\ command' = [command EXCEPT
            ![c].targets = @ \ {NextTarget(c)},
            ![c].errors = IF failed THEN @ \cup {NextTarget(c)} ELSE @]
  /\ UNCHANGED <<lifecycleVars, itemVars, fired>>

\* Where each kind of command goes on once every schedule was tried.
AfterCleanUp(c) ==
  /\ command[c].pc \in {"rollback", "cleanup"}
  /\ command[c].targets = {}
  /\ CommandGoto(c, IF Creates(c) THEN "persist_rollback"
                    ELSE IF command[c].errors # {} THEN "record_errors"
                    ELSE IF CommandKind[c] = "cancel" THEN "cancel"
                    ELSE "done")
  /\ UNCHANGED <<lifecycleVars, itemVars, providerVars, faults>>

\* record_cleanup_errors: the attribute is overwritten with this command's.
RecordCleanupErrors(c) ==
  /\ command[c].pc = "record_errors"
  /\ cleanup_errors' = command[c].errors
  /\ CommandGoto(c, CASE CommandKind[c] = "schedule" -> "fail"
                      [] CommandKind[c] = "schedule_audit" -> "reread"
                      [] CommandKind[c] = "cancel" -> "cancel"
                      [] OTHER -> "done")
  /\ UNCHANGED <<lifecycleVars, schedules, providerVars, faults>>

-----------------------------------------------------------------------------
(***************************************************************************)
(* cancel_for_operator and cancel                                          *)
(***************************************************************************)

\* The audit item is read: its state, and the schedules to clean up.
BeginCancel(c) ==
  /\ command[c].pc = "idle"
  /\ ~ Creates(c)
  /\ command' = [command EXCEPT
       ![c].state = lifecycle_state,
       ![c].targets = schedules,
       ![c].pc = IF CommandKind[c] = "cancel" THEN "cleanup" ELSE "cancel"]
  /\ UNCHANGED <<lifecycleVars, itemVars, providerVars, faults>>

\* The transition to CANCELLED; a refusal is raised.  (A storage error here, or
\* in any call outside a try, ends the command: that is CommandCrash.)
CancelAudit(c) ==
  /\ command[c].pc = "cancel"
  /\ \/ /\ Transition(command[c].state, "CANCELLED")
        /\ CommandGoto(c, IF CommandKind[c] = "cancel" THEN "done"
                          ELSE "cleanup")
     \/ /\ \/ LifecycleConflict(command[c].state, "CANCELLED")
           \/ InvalidTransition(command[c].state, "CANCELLED")
        /\ CommandGoto(c, "raised")
  /\ UNCHANGED <<itemVars, providerVars, faults>>

CommandCrash(c) ==
  /\ command[c].pc \notin {"idle", "done", "raised", "crashed"}
  /\ CommandGoto(c, "crashed")
  /\ Fault
  /\ UNCHANGED <<lifecycleVars, itemVars, providerVars>>

-----------------------------------------------------------------------------
(***************************************************************************)
(* The rest of the system: schedules fire once and delete themselves       *)
(* (ActionAfterCompletion = DELETE), and the handlers they invoke move the *)
(* audit as AuditExecution has it.                                         *)
(***************************************************************************)

\* An execution is delivered: the first takes the audit to RUNNING.
FireExecution(n) ==
  /\ n # FinalizationSchedule
  /\ provider[n] = "enabled"
  /\ provider' = [provider EXCEPT ![n] = "absent"]
  /\ fired' = fired \cup {n}
  /\ \/ Transition("SCHEDULED", "RUNNING")
     \/ lifecycle_state # "SCHEDULED" /\ UNCHANGED lifecycleVars
  /\ UNCHANGED <<itemVars, command, faults>>

\* The finalization event is delivered: an audit in its execution window goes
\* to FINALIZING.
FireFinalization ==
  LET n == FinalizationSchedule
  IN  /\ provider[n] = "enabled"
      /\ provider' = [provider EXCEPT ![n] = "absent"]
      /\ fired' = fired \cup {n}
      /\ \/ Transition(lifecycle_state, "FINALIZING")
         \/ InvalidTransition(lifecycle_state, "FINALIZING")
      /\ UNCHANGED <<itemVars, command, faults>>

FinishFinalization ==
  /\ \/ Transition("FINALIZING", "COMPLETED")
     \/ Transition("FINALIZING", "FAILED")
  /\ UNCHANGED <<itemVars, providerVars, command, faults>>

\* update_for_force_recreate leaves schedules and cleanup_errors as they are.
ForceRecreate ==
  /\ Recreate
  /\ UNCHANGED <<itemVars, providerVars, command, faults>>

-----------------------------------------------------------------------------

SchedulingInit ==
  /\ LifecycleInit
  /\ schedules = {}
  /\ cleanup_errors = {}
  /\ provider = [n \in Schedules |-> "absent"]
  /\ fired = {}
  /\ command = [c \in Commands |->
       [pc |-> "idle", state |-> "DRAFT", created |-> 0, targets |-> {},
        errors |-> {}]]
  /\ faults = 0

CommandStep(c) ==
  \/ CreateSchedule(c) \/ PersistSchedules(c) \/ CommitSchedule(c)
  \/ PersistRollback(c) \/ RereadState(c) \/ FailSchedule(c)
  \/ CleanUp(c) \/ AfterCleanUp(c) \/ RecordCleanupErrors(c)
  \/ CancelAudit(c)

SchedulingNext ==
  \/ \E c \in Commands : \/ BeginSchedule(c) \/ BeginCancel(c)
                         \/ CommandStep(c) \/ CommandCrash(c)
  \/ \E n \in Schedules : FireExecution(n)
  \/ FireFinalization
  \/ FinishFinalization
  \/ ForceRecreate

SchedulingSpec == SchedulingInit /\ [][SchedulingNext]_schedulingVars

-----------------------------------------------------------------------------

CommandRecord ==
  [pc : CommandPcs, state : LifecycleStates, created : 0 .. ScheduleCount,
   targets : SUBSET Schedules, errors : SUBSET Schedules]

\* The item, the schedules and every command have the shape the code gives
\* them; a command never creates a schedule past the last definition.
SchedulingTypeOK ==
  /\ LifecycleTypeOK
  /\ schedules \in SUBSET Schedules
  /\ cleanup_errors \in SUBSET Schedules
  /\ provider \in [Schedules -> {"absent", "enabled", "disabled"}]
  /\ fired \in SUBSET Schedules
  /\ command \in [Commands -> CommandRecord]
  /\ \A c \in Commands : command[c].pc \in {"idle", "create"}
                           => command[c].created < ScheduleCount
  /\ faults \in 0 .. MaxFaults

\* No command is between two of its steps.
Quiescent ==
  \A c \in Commands : command[c].pc \in {"idle", "done", "raised", "crashed"}

\* A schedule survives a cancelled audit, or one whose scheduling failed, only
\* if someone is told: it is among the recorded cleanup errors, or a command
\* crashed, or it is the one whose create_schedule call raised.
NoSilentLeak ==
  (/\ Quiescent
   /\ \/ lifecycle_state = "CANCELLED"
      \/ /\ lifecycle_state = "FAILED"
         /\ lifecycle_history[Len(lifecycle_history)].from_state = "DRAFT")
  => \A n \in Schedules :
       provider[n] = "enabled" =>
         \/ n \in cleanup_errors
         \/ \E c \in Commands : \/ command[c].pc = "crashed"
                                \/ Creates(c) /\ command[c].pc = "raised"
                                   /\ command[c].created = n - 1

\* Scheduling is all or nothing: an audit that is SCHEDULED and that no
\* command is working on has all its schedules, but for those that fired.  It
\* holds as long as no call's answer is lost, however two schedule commands and
\* a cancellation interleave: the loser of a race rolls back only what it
\* created itself.
AllOrNothing ==
  Quiescent /\ lifecycle_state = "SCHEDULED" =>
    \A n \in Schedules : provider[n] = "enabled" \/ n \in fired

=============================================================================
