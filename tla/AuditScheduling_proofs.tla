----------------------- MODULE AuditScheduling_proofs -----------------------
(***************************************************************************)
(* Proofs about AuditScheduling, for any number of schedules, commands and *)
(* (where not stated otherwise) faults, and about SchedulePlan: the plan   *)
(* of every configuration that gets as far as create_schedule.             *)
(***************************************************************************)
EXTENDS SchedulePlan, AuditLifecycle_proofs, FiniteSetTheorems, FunctionTheorems,
        SequenceTheorems, WellFoundedInduction

(***************************************************************************)
(* AuditScheduling implements AuditLifecycle                               *)
(***************************************************************************)

\* Every step of a command, of the scheduler and of the handlers moves the
\* audit along the lifecycle or leaves it alone.
LEMMA SchedulingMovesLifecycle ==
  [SchedulingNext]_schedulingVars => [LifecycleNext]_lifecycleVars
<1> SUFFICES ASSUME [SchedulingNext]_schedulingVars
             PROVE  LifecycleNext \/ UNCHANGED lifecycleVars
  OBVIOUS
<1> USE TransitionAdvances
<1>1. ASSUME NEW c \in Commands,
             BeginSchedule(c) \/ BeginCancel(c) \/ CommandCrash(c)
      PROVE  UNCHANGED lifecycleVars
  BY <1>1 DEF BeginSchedule, BeginCancel, CommandCrash
<1>2. ASSUME NEW c \in Commands, CommandStep(c)
      PROVE  LifecycleNext \/ UNCHANGED lifecycleVars
  <2>1. CASE CommitSchedule(c)
    BY <2>1 DEF CommitSchedule, LifecycleConflict, InvalidTransition
  <2>2. CASE FailSchedule(c)
    BY <2>2 DEF FailSchedule, LifecycleConflict, InvalidTransition
  <2>3. CASE CancelAudit(c)
    BY <2>3 DEF CancelAudit, LifecycleConflict, InvalidTransition
  <2>4. CASE CreateSchedule(c) \/ PersistSchedules(c) \/ PersistRollback(c)
             \/ RereadState(c) \/ CleanUp(c) \/ AfterCleanUp(c)
             \/ RecordCleanupErrors(c)
    BY <2>4 DEF CreateSchedule, PersistSchedules, PersistRollback, RereadState,
      CleanUp, AfterCleanUp, RecordCleanupErrors
  <2>. QED
    BY <1>2, <2>1, <2>2, <2>3, <2>4 DEF CommandStep
<1>3. ASSUME NEW n \in Schedules, FireExecution(n)
      PROVE  LifecycleNext \/ UNCHANGED lifecycleVars
  BY <1>3 DEF FireExecution
<1>4. CASE FireFinalization
  BY <1>4 DEF FireFinalization, InvalidTransition
<1>5. CASE FinishFinalization \/ ForceRecreate
  BY <1>5 DEF FinishFinalization, ForceRecreate, LifecycleNext
<1>6. CASE UNCHANGED schedulingVars
  BY <1>6 DEF schedulingVars, lifecycleVars
<1>. QED
  BY <1>1, <1>2, <1>3, <1>4, <1>5, <1>6 DEF SchedulingNext

\* The scheduling and cancellation commands, all four entry points, with races,
\* crashes and lost answers, implement the lifecycle of AuditLifecycle.
THEOREM SchedulingImplementsLifecycle == SchedulingSpec => LifecycleSpec
<1>1. SchedulingInit => LifecycleInit
  BY DEF SchedulingInit
<1>. QED
  BY <1>1, SchedulingMovesLifecycle, PTL DEF SchedulingSpec, LifecycleSpec

-----------------------------------------------------------------------------
(***************************************************************************)
(* Type correctness                                                        *)
(***************************************************************************)

\* Every command but c is as it was.
OthersKeep(c) == \A d \in Commands : d # c => command'[d] = command[d]

\* Moving a command changes its program point and nothing else.
LEMMA CommandGotoFields ==
  ASSUME command \in [Commands -> CommandRecord],
         NEW c \in Commands, NEW p \in CommandPcs, CommandGoto(c, p)
  PROVE  /\ command' \in [Commands -> CommandRecord]
         /\ command'[c].pc = p
         /\ command'[c].state = command[c].state
         /\ command'[c].created = command[c].created
         /\ command'[c].targets = command[c].targets
         /\ command'[c].errors = command[c].errors
         /\ OthersKeep(c)
BY DEF CommandGoto, CommandRecord, OthersKeep

\* A rollback is to undo exactly what the command created.
LEMMA StartRollbackFields ==
  ASSUME SchedulingAssumption, command \in [Commands -> CommandRecord],
         NEW c \in Commands, StartRollback(c)
  PROVE  /\ command' \in [Commands -> CommandRecord]
         /\ command'[c].pc = "rollback"
         /\ command'[c].created = command[c].created
         /\ command'[c].targets = 1 .. command[c].created
         /\ command'[c].errors = command[c].errors
         /\ OthersKeep(c)
<1>1. 1 .. command[c].created \in SUBSET Schedules
  BY DEF SchedulingAssumption, CommandRecord, Schedules
<1>2. "rollback" \in CommandPcs
  BY DEF CommandPcs
<1>. QED
  BY <1>1, <1>2 DEF StartRollback, CommandRecord, OthersKeep

\* A set of schedules that is not empty has a first one.
LEMMA LeastTarget ==
  ASSUME NEW S \in SUBSET Nat, S # {}
  PROVE  \E n \in S : \A m \in S : n <= m
<1> DEFINE R == OpToRel(<, Nat)
<1>1. IsWellFoundedOn(R, Nat)
  BY NatLessThanWellFounded
<1>2. ASSUME NEW x \in Nat, NEW y \in Nat, x < y
      PROVE  <<x, y>> \in R
  BY <1>2, Zenon DEF OpToRel
<1> HIDE DEF R
<1>3. PICK x \in S : \A y \in S : ~ (<<y, x>> \in R)
  BY <1>1, WFMin
<1>4. ASSUME NEW y \in S
      PROVE  x <= y
  <2>1. x \in Nat /\ y \in Nat
    OBVIOUS
  <2>2. ~ (y < x)
    BY <2>1, <1>2, <1>3
  <2>. QED
    BY <2>1, <2>2
<1>. QED
  BY <1>4

\* So a clean-up works on one of the schedules it has left.
LEMMA NextTargetIsTarget ==
  ASSUME SchedulingAssumption, command \in [Commands -> CommandRecord],
         NEW c \in Commands, command[c].targets # {}
  PROVE  NextTarget(c) \in command[c].targets
<1>1. command[c].targets \in SUBSET Nat
  BY DEF CommandRecord, Schedules, SchedulingAssumption
<1>. QED
  BY <1>1, LeastTarget DEF NextTarget

\* How the steps that begin a command change it.
LEMMA BeginFields ==
  ASSUME SchedulingTypeOK, NEW c \in Commands,
         BeginSchedule(c) \/ BeginCancel(c) \/ RereadState(c)
  PROVE  /\ command' \in [Commands -> CommandRecord]
         /\ command'[c].created = command[c].created
         /\ command'[c].errors = command[c].errors
         /\ command'[c].state = lifecycle_state
         /\ OthersKeep(c)
         /\ BeginSchedule(c) => command'[c].pc \in {"create", "raised"}
         /\ ~ BeginCancel(c) => command'[c].targets = command[c].targets
         /\ BeginCancel(c) => /\ command'[c].pc = IF CommandKind[c] = "cancel"
                                                  THEN "cleanup" ELSE "cancel"
                              /\ command'[c].targets = schedules
         /\ RereadState(c) => command'[c].pc = "fail"
<1> USE DEF SchedulingTypeOK, LifecycleTypeOK
<1>1. {"create", "raised", "cleanup", "cancel", "fail"} \subseteq CommandPcs
  BY DEF CommandPcs
<1>2. CASE BeginSchedule(c)
  BY <1>1, <1>2 DEF BeginSchedule, BeginCancel, RereadState, CommandRecord,
    OthersKeep
<1>3. CASE BeginCancel(c)
  BY <1>1, <1>3 DEF BeginSchedule, BeginCancel, RereadState, CommandRecord,
    OthersKeep
<1>4. CASE RereadState(c)
  BY <1>1, <1>4 DEF BeginSchedule, BeginCancel, RereadState, CommandRecord,
    OthersKeep
<1>. QED
  BY <1>2, <1>3, <1>4

\* A clean-up step takes one schedule off the list.
LEMMA CleanUpFields ==
  ASSUME SchedulingAssumption, SchedulingTypeOK, NEW c \in Commands, CleanUp(c)
  PROVE  /\ command' \in [Commands -> CommandRecord]
         /\ command'[c].pc = command[c].pc
         /\ command'[c].created = command[c].created
         /\ command'[c].state = command[c].state
         /\ command'[c].targets = command[c].targets \ {NextTarget(c)}
         /\ OthersKeep(c)
         /\ NextTarget(c) \in command[c].targets
         /\ \E failed \in BOOLEAN :
              /\ RemoveSchedule(NextTarget(c), failed)
              /\ command'[c].errors =
                   IF failed THEN command[c].errors \cup {NextTarget(c)}
                   ELSE command[c].errors
<1>1. command \in [Commands -> CommandRecord]
  BY DEF SchedulingTypeOK
<1>2. NextTarget(c) \in command[c].targets
  BY <1>1, NextTargetIsTarget DEF CleanUp
<1>3. PICK failed \in BOOLEAN :
        /\ RemoveSchedule(NextTarget(c), failed)
        /\ command' = [command EXCEPT
             ![c].targets = command[c].targets \ {NextTarget(c)},
             ![c].errors = IF failed
                           THEN command[c].errors \cup {NextTarget(c)}
                           ELSE command[c].errors]
  BY DEF CleanUp
<1>. QED
  BY <1>1, <1>2, <1>3 DEF CommandRecord, OthersKeep

\* Creating a schedule counts it, or starts the rollback of those before it.
LEMMA CreateFields ==
  ASSUME SchedulingAssumption, SchedulingTypeOK, NEW c \in Commands,
         CreateSchedule(c), NEW n, n = command[c].created + 1
  PROVE  /\ n \in Schedules
         /\ command' \in [Commands -> CommandRecord]
         /\ provider' \in {provider, [provider EXCEPT ![n] = "enabled"]}
         /\ OthersKeep(c)
         /\ \/ /\ provider[n] = "absent"
               /\ provider' = [provider EXCEPT ![n] = "enabled"]
               /\ command'[c].created = n
               /\ command'[c].targets = command[c].targets
               /\ command'[c].pc = IF n = ScheduleCount THEN "persist"
                                   ELSE "create"
               /\ NoFault
            \/ /\ StartRollback(c)
               /\ NoFault
               /\ UNCHANGED provider
            \/ /\ StartRollback(c)
               /\ Fault
<1>1. command \in [Commands -> CommandRecord]
  BY DEF SchedulingTypeOK
<1>2. n \in Schedules /\ n \in 0 .. ScheduleCount
  BY <1>1 DEF SchedulingTypeOK, SchedulingAssumption, CreateSchedule,
    CommandRecord, Schedules
<1>3. CASE /\ StartRollback(c)
           /\ provider' \in {provider, [provider EXCEPT ![n] = "enabled"]}
           /\ Fault \/ (NoFault /\ UNCHANGED provider)
  <2>1. command' \in [Commands -> CommandRecord] /\ OthersKeep(c)
    BY <1>1, <1>3, StartRollbackFields
  <2>. QED
    BY <1>2, <1>3, <2>1
<1>4. CASE /\ provider[n] = "absent"
           /\ provider' = [provider EXCEPT ![n] = "enabled"]
           /\ command' = [command EXCEPT
                 ![c].created = n,
                 ![c].pc = IF n = ScheduleCount THEN "persist" ELSE "create"]
           /\ NoFault
  <2>1. {"persist", "create"} \subseteq CommandPcs
    BY DEF CommandPcs
  <2>. QED
    BY <1>1, <1>2, <1>4, <2>1 DEF CommandRecord, OthersKeep
<1>. QED
  BY <1>3, <1>4 DEF CreateSchedule

\* Removing a schedule leaves it in one of the three states.
LEMMA RemoveType ==
  ASSUME provider \in [Schedules -> {"absent", "enabled", "disabled"}],
         NEW n \in Schedules, NEW failed, RemoveSchedule(n, failed)
  PROVE  provider' \in [Schedules -> {"absent", "enabled", "disabled"}]
BY DEF RemoveSchedule

\* Spending a fault stays within the bound.
LEMMA FaultType ==
  ASSUME SchedulingAssumption, faults \in 0 .. MaxFaults, Fault \/ NoFault
  PROVE  faults' \in 0 .. MaxFaults
BY DEF SchedulingAssumption, Fault, NoFault

\* Everything but the lifecycle itself.
ItemsTypeOK ==
  /\ schedules \in SUBSET Schedules
  /\ cleanup_errors \in SUBSET Schedules
  /\ provider \in [Schedules -> {"absent", "enabled", "disabled"}]
  /\ fired \in SUBSET Schedules
  /\ faults \in 0 .. MaxFaults

\* A step of a command keeps the items and the schedules well typed.
LEMMA CommandItemsType ==
  ASSUME SchedulingAssumption, SchedulingTypeOK, NEW c \in Commands,
         BeginSchedule(c) \/ BeginCancel(c) \/ CommandStep(c) \/ CommandCrash(c)
  PROVE  ItemsTypeOK'
<1>1. ItemsTypeOK /\ command \in [Commands -> CommandRecord]
  BY DEF SchedulingTypeOK, ItemsTypeOK
<1>2. /\ 1 .. command[c].created \in SUBSET Schedules
      /\ command[c].errors \in SUBSET Schedules
      /\ command[c].targets \in SUBSET Schedules
  BY <1>1 DEF SchedulingAssumption, CommandRecord, Schedules
<1>3. CASE CreateSchedule(c)
  <2>1. PICK n : n = command[c].created + 1
    OBVIOUS
  <2>2. /\ n \in Schedules
        /\ provider' \in {provider, [provider EXCEPT ![n] = "enabled"]}
    BY <1>3, <2>1, CreateFields
  <2>3. provider' \in [Schedules -> {"absent", "enabled", "disabled"}]
    BY <1>1, <2>2 DEF ItemsTypeOK
  <2>4. Fault \/ NoFault
    BY <1>3 DEF CreateSchedule
  <2>. QED
    BY <1>1, <1>3, <2>3, <2>4, FaultType DEF ItemsTypeOK, CreateSchedule, itemVars
<1>4. CASE PersistSchedules(c) \/ PersistRollback(c) \/ CommitSchedule(c)
  <2>1. Fault \/ NoFault
    BY <1>4 DEF PersistSchedules, PersistRollback, CommitSchedule, NoFault
  <2>. QED
    BY <1>1, <1>2, <1>4, <2>1, FaultType DEF ItemsTypeOK, PersistSchedules,
      PersistRollback, CommitSchedule, itemVars, providerVars
<1>5. CASE CleanUp(c)
  <2>1. PICK failed \in BOOLEAN : RemoveSchedule(NextTarget(c), failed)
    BY <1>5, CleanUpFields
  <2>2. NextTarget(c) \in Schedules
    BY <1>2, <1>5, CleanUpFields
  <2>3. Fault \/ NoFault
    BY <2>1 DEF RemoveSchedule
  <2>. QED
    BY <1>1, <1>5, <2>1, <2>2, <2>3, RemoveType, FaultType DEF ItemsTypeOK,
      CleanUp, itemVars
<1>6. CASE BeginSchedule(c) \/ BeginCancel(c) \/ RereadState(c)
           \/ FailSchedule(c) \/ AfterCleanUp(c) \/ CancelAudit(c)
           \/ CommandCrash(c)
  <2>1. Fault \/ NoFault
    BY <1>6 DEF BeginSchedule, BeginCancel, RereadState, FailSchedule,
      AfterCleanUp, CancelAudit, CommandCrash, NoFault
  <2>. QED
    BY <1>1, <1>6, <2>1, FaultType DEF ItemsTypeOK, BeginSchedule, BeginCancel,
      RereadState, FailSchedule, AfterCleanUp, CancelAudit, CommandCrash,
      itemVars, providerVars
<1>7. CASE RecordCleanupErrors(c)
  BY <1>1, <1>2, <1>7 DEF ItemsTypeOK, RecordCleanupErrors, providerVars
<1>. QED
  BY <1>3, <1>4, <1>5, <1>6, <1>7 DEF CommandStep

\* A step of a command keeps every command's record well typed, and never lets
\* a command that still creates schedules count the last one.
LEMMA CommandType ==
  ASSUME SchedulingAssumption, SchedulingTypeOK, NEW c \in Commands,
         BeginSchedule(c) \/ BeginCancel(c) \/ CommandStep(c) \/ CommandCrash(c)
  PROVE  /\ command' \in [Commands -> CommandRecord]
         /\ OthersKeep(c)
         /\ command'[c].pc \in {"idle", "create"}
              => command'[c].created < ScheduleCount
<1>1. /\ command \in [Commands -> CommandRecord]
      /\ command[c].pc \in {"idle", "create"}
           => command[c].created < ScheduleCount
  BY DEF SchedulingTypeOK
<1>2. CASE BeginSchedule(c) \/ BeginCancel(c) \/ RereadState(c)
  BY <1>1, <1>2, BeginFields DEF BeginSchedule, BeginCancel
<1>3. CASE CleanUp(c)
  BY <1>3, CleanUpFields DEF CleanUp
<1>4. CASE CreateSchedule(c)
  <2>1. PICK n : n = command[c].created + 1
    OBVIOUS
  <2>2. n \in Schedules
    BY <1>4, <2>1, CreateFields
  <2>3. CASE StartRollback(c)
    BY <1>1, <2>3, StartRollbackFields
  <2>4. CASE /\ command' \in [Commands -> CommandRecord]
             /\ OthersKeep(c)
             /\ command'[c].created = n
             /\ command'[c].pc = IF n = ScheduleCount THEN "persist"
                                 ELSE "create"
    BY <2>2, <2>4 DEF Schedules, SchedulingAssumption
  <2>. QED
    BY <1>4, <2>1, <2>3, <2>4, CreateFields
<1>5. CASE StartRollback(c)
  BY <1>1, <1>5, StartRollbackFields
<1>6. ASSUME NEW p \in CommandPcs \ {"idle", "create"}, CommandGoto(c, p)
      PROVE  /\ command' \in [Commands -> CommandRecord]
             /\ OthersKeep(c)
             /\ command'[c].pc \notin {"idle", "create"}
  BY <1>1, <1>6, CommandGotoFields
<1>7. {"persist", "commit", "reread", "fail", "cancel", "cleanup",
       "persist_rollback", "record_errors", "done", "raised", "crashed"}
        \subseteq CommandPcs \ {"idle", "create"}
  BY DEF CommandPcs
<1>8. CASE PersistSchedules(c) \/ CommitSchedule(c) \/ PersistRollback(c)
  BY <1>5, <1>6, <1>7, <1>8
     DEF PersistSchedules, CommitSchedule, PersistRollback
<1>9. CASE FailSchedule(c) \/ AfterCleanUp(c) \/ CancelAudit(c)
           \/ CommandCrash(c)
  BY <1>6, <1>7, <1>9 DEF FailSchedule, AfterCleanUp, CancelAudit, CommandCrash
<1>10. CASE RecordCleanupErrors(c)
  BY <1>6, <1>7, <1>10 DEF RecordCleanupErrors
<1>. QED
  BY <1>2, <1>3, <1>4, <1>8, <1>9, <1>10 DEF CommandStep

\* Every step preserves the type invariant.
LEMMA SchedulingTypeStep ==
  ASSUME SchedulingAssumption, SchedulingTypeOK,
         [SchedulingNext]_schedulingVars
  PROVE  SchedulingTypeOK'
<1>1. LifecycleTypeOK'
  BY SchedulingMovesLifecycle, LifecycleTypeStep DEF SchedulingTypeOK
<1>2. ItemsTypeOK
  BY DEF SchedulingTypeOK, ItemsTypeOK
<1>3. ASSUME NEW c \in Commands,
             BeginSchedule(c) \/ BeginCancel(c) \/ CommandStep(c)
             \/ CommandCrash(c)
      PROVE  SchedulingTypeOK'
  <2>1. ItemsTypeOK'
    BY <1>3, CommandItemsType
  <2>2. \A d \in Commands : command'[d].pc \in {"idle", "create"}
                              => command'[d].created < ScheduleCount
    BY <1>3, CommandType DEF OthersKeep, SchedulingTypeOK
  <2>3. command' \in [Commands -> CommandRecord]
    BY <1>3, CommandType
  <2>. QED
    BY <1>1, <2>1, <2>2, <2>3 DEF SchedulingTypeOK, ItemsTypeOK
<1>4. ASSUME NEW n \in Schedules,
             FireExecution(n) \/ (n = FinalizationSchedule /\ FireFinalization)
      PROVE  SchedulingTypeOK'
  BY <1>1, <1>4 DEF SchedulingTypeOK, FireExecution, FireFinalization, itemVars
<1>5. CASE FireFinalization
  <2>1. FinalizationSchedule \in Schedules
    BY DEF SchedulingAssumption, FinalizationSchedule, Schedules
  <2>. QED
    BY <1>4, <1>5, <2>1
<1>6. CASE FinishFinalization \/ ForceRecreate
  BY <1>1, <1>6 DEF SchedulingTypeOK, FinishFinalization, ForceRecreate,
    itemVars, providerVars
<1>7. CASE UNCHANGED schedulingVars
  BY <1>1, <1>7 DEF SchedulingTypeOK, schedulingVars
<1>. QED
  BY <1>3, <1>4, <1>5, <1>6, <1>7 DEF SchedulingNext

\* The item, the schedules and the commands keep their shape in every
\* behaviour; in particular no command creates more than the configured
\* schedules, and every rollback and cancellation works on existing numbers.
THEOREM SchedulingTypeCorrect == SchedulingSpec => []SchedulingTypeOK
<1>1. SchedulingInit => SchedulingTypeOK
  BY SchedulingAssumption DEF SchedulingInit, LifecycleInit, SchedulingTypeOK,
    LifecycleTypeOK, LifecycleStates, CommandRecord, CommandPcs, Schedules,
    SchedulingAssumption
<1>2. SchedulingTypeOK /\ [SchedulingNext]_schedulingVars => SchedulingTypeOK'
  BY SchedulingAssumption, SchedulingTypeStep
<1>. QED
  BY <1>1, <1>2, PTL DEF SchedulingSpec

-----------------------------------------------------------------------------
(***************************************************************************)
(* Scheduling is all or nothing                                            *)
(*                                                                         *)
(* AllOrNothing is not inductive: it says nothing of a command half way    *)
(* through.  The invariant below gives every schedule an owner.  A command *)
(* owns what it has created and not yet rolled back; what it owns exists   *)
(* or has fired; two commands own the same schedule only if it fired in    *)
(* between (so that the name was free again); and an audit is SCHEDULED    *)
(* only by a command that owns them all.  A rollback then removes nothing  *)
(* that anyone else still counts on.                                       *)
(***************************************************************************)

\* No fault happens and nobody uses the entry point that removes schedules
\* before its transition.
NoFaultsNorEarlyCleanup ==
  MaxFaults = 0 /\ \A c \in Commands : CommandKind[c] # "cancel"

\* A command whose record is r owns schedule n.
OwnedBy(r, n) ==
  \/ r.pc \in {"create", "persist", "commit", "done"} /\ n <= r.created
  \/ r.pc = "rollback" /\ n \in r.targets

Owns(c, n) == Creates(c) /\ OwnedBy(command[c], n)

\* What each command's program point says about it and about the audit.
PointsOK ==
  \A c \in Commands :
    LET r == command[c]
    IN  /\ r.pc = "idle" => r.created = 0
        /\ r.pc \in {"create", "persist", "commit", "rollback",
                     "persist_rollback"} => Creates(c)
        /\ r.pc \in {"cancel", "cleanup"} => ~ Creates(c)
        /\ r.pc \in {"persist", "commit"} => r.created = ScheduleCount
        /\ ~ Creates(c) /\ r.pc \in {"cleanup", "record_errors", "done"}
             => lifecycle_state = "CANCELLED"

OwnedExist ==
  lifecycle_state # "CANCELLED" =>
    \A c \in Commands, n \in Schedules :
      Owns(c, n) => provider[n] = "enabled" \/ n \in fired

OwnersApart ==
  lifecycle_state # "CANCELLED" =>
    \A c, d \in Commands, n \in Schedules :
      c # d /\ Owns(c, n) /\ Owns(d, n) => n \in fired

ScheduledHasOwner ==
  lifecycle_state = "SCHEDULED" =>
    \E c \in Commands : /\ Creates(c)
                        /\ command[c].pc = "done"
                        /\ command[c].created = ScheduleCount

OwnershipInv == PointsOK /\ OwnedExist /\ OwnersApart /\ ScheduledHasOwner

\* A cancelled audit stays cancelled.
LEMMA CancelledIsFinal ==
  ASSUME lifecycle_state = "CANCELLED", [SchedulingNext]_schedulingVars
  PROVE  lifecycle_state' = "CANCELLED"
<1>1. [LifecycleNext]_lifecycleVars
  BY SchedulingMovesLifecycle
<1>2. TRANSITIONS["CANCELLED"] = {}
  BY TransitionsStayInStates DEF LifecycleStates, TerminalStates
<1>. QED
  BY <1>1, <1>2 DEF LifecycleNext, Advance, Recreate, lifecycleVars

\* How a step of command c changes what it owns: it gives things up, or takes
\* a name that was free, or removes a schedule that it owned (or that nobody
\* needs, the audit being cancelled).
Releases(c) ==
  /\ UNCHANGED <<provider, fired>>
  /\ \A n \in Schedules : OwnedBy(command'[c], n) => OwnedBy(command[c], n)

Takes(c, n) ==
  /\ provider[n] = "absent"
  /\ provider' = [provider EXCEPT ![n] = "enabled"]
  /\ UNCHANGED fired
  /\ \A m \in Schedules : OwnedBy(command'[c], m) /\ m # n
                            => OwnedBy(command[c], m)

Removes(c, n) ==
  /\ Owns(c, n)
  /\ \A m \in Schedules : m # n => provider'[m] = provider[m]
  /\ UNCHANGED fired
  /\ ~ OwnedBy(command'[c], n)
  /\ \A m \in Schedules : OwnedBy(command'[c], m) => OwnedBy(command[c], m)

\* Creating takes the next name, or gives way to a rollback of what is owned.
LEMMA CreateOwns ==
  ASSUME SchedulingAssumption, SchedulingTypeOK, MaxFaults = 0,
         NEW c \in Commands, CreateSchedule(c)
  PROVE  /\ Releases(c) \/ \E n \in Schedules : Takes(c, n)
         /\ \/ command'[c].pc \in {"create", "rollback"}
            \/ command'[c].pc = "persist" /\ command'[c].created = ScheduleCount
<1>1. PICK n : n = command[c].created + 1
  OBVIOUS
<1>2. /\ command \in [Commands -> CommandRecord]
      /\ command[c].created \in Nat
      /\ n \in Schedules
      /\ command[c].pc = "create"
      /\ fired' = fired
      /\ ~ Fault
  BY <1>1, CreateFields DEF SchedulingTypeOK, CommandRecord, CreateSchedule,
    Fault, SchedulingAssumption
<1>3. CASE StartRollback(c) /\ UNCHANGED provider
  <2>1. /\ command'[c].pc = "rollback"
        /\ command'[c].targets = 1 .. command[c].created
    BY <1>2, <1>3, StartRollbackFields
  <2>. QED
    BY <1>2, <1>3, <2>1 DEF Releases, OwnedBy
<1>4. CASE /\ provider[n] = "absent"
           /\ provider' = [provider EXCEPT ![n] = "enabled"]
           /\ command'[c].created = n
           /\ command'[c].pc = IF n = ScheduleCount THEN "persist" ELSE "create"
  <2>1. \A m \in Schedules : m <= n /\ m # n => m <= command[c].created
    BY <1>1, <1>2 DEF Schedules, SchedulingAssumption
  <2>2. Takes(c, n)
    BY <1>2, <1>4, <2>1 DEF Takes, OwnedBy
  <2>. QED
    BY <1>2, <1>4, <2>2
<1>. QED
  BY <1>1, <1>2, <1>3, <1>4, CreateFields

\* A rollback removes what its command owns.
LEMMA CleanUpOwns ==
  ASSUME SchedulingAssumption, SchedulingTypeOK, PointsOK,
         NEW c \in Commands, CleanUp(c), command[c].pc = "rollback"
  PROVE  \E n \in Schedules : Removes(c, n)
<1>1. PICK n : n = NextTarget(c)
  OBVIOUS
<1>2. /\ command[c].targets \in SUBSET Schedules
      /\ command'[c].pc = "rollback"
      /\ command'[c].targets = command[c].targets \ {n}
      /\ n \in command[c].targets
      /\ fired' = fired
  BY <1>1, CleanUpFields DEF SchedulingTypeOK, CommandRecord, CleanUp
<1>3. PICK failed \in BOOLEAN : RemoveSchedule(n, failed)
  BY <1>1, CleanUpFields
<1>4. \A m \in Schedules : m # n => provider'[m] = provider[m]
  BY <1>3 DEF RemoveSchedule, SchedulingTypeOK
<1>5. Creates(c)
  BY DEF PointsOK
<1>. QED
  BY <1>2, <1>4, <1>5 DEF Removes, Owns, OwnedBy

\* Every step of a command that schedules is one of the three kinds.
LEMMA CommandOwns ==
  ASSUME SchedulingAssumption, NoFaultsNorEarlyCleanup, SchedulingTypeOK,
         PointsOK, NEW c \in Commands, Creates(c),
         BeginSchedule(c) \/ BeginCancel(c) \/ CommandStep(c) \/ CommandCrash(c)
  PROVE  Releases(c) \/ \E n \in Schedules : Takes(c, n) \/ Removes(c, n)
<1>1. /\ command \in [Commands -> CommandRecord]
      /\ command[c].created \in 0 .. ScheduleCount
      /\ command[c].targets \in SUBSET Schedules
      /\ ~ Fault
      /\ command[c].pc \notin {"cancel", "cleanup"}
      /\ command[c].pc = "idle" => command[c].created = 0
  BY DEF SchedulingTypeOK, CommandRecord, Fault, NoFaultsNorEarlyCleanup,
    PointsOK, SchedulingAssumption
<1>2. CASE CreateSchedule(c)
  BY <1>2, CreateOwns DEF NoFaultsNorEarlyCleanup
<1>3. CASE CleanUp(c)
  BY <1>1, <1>3, CleanUpOwns DEF CleanUp
<1>4. CASE BeginSchedule(c) \/ RereadState(c)
  <2>1. /\ command'[c].pc \in {"create", "raised", "fail"}
        /\ command'[c].created = command[c].created
        /\ command'[c].pc = "create" => command[c].created = 0
        /\ UNCHANGED <<provider, fired>>
    BY <1>1, <1>4, BeginFields DEF BeginSchedule, RereadState, providerVars
  <2>. QED
    BY <2>1 DEF Releases, OwnedBy, Schedules, SchedulingAssumption
<1>5. CASE StartRollback(c) /\ command[c].pc \in {"persist", "commit"}
           /\ UNCHANGED providerVars
  <2>1. /\ command'[c].pc = "rollback"
        /\ command'[c].targets = 1 .. command[c].created
    BY <1>1, <1>5, StartRollbackFields
  <2>. QED
    BY <1>1, <1>5, <2>1 DEF Releases, OwnedBy, providerVars
<1>6. ASSUME NEW p \in CommandPcs, CommandGoto(c, p), UNCHANGED providerVars,
             \/ p \notin {"create", "persist", "commit", "done", "rollback"}
             \/ /\ p \in {"commit", "done"}
                /\ command[c].pc \in {"persist", "commit"}
      PROVE  Releases(c)
  BY <1>1, <1>6, CommandGotoFields DEF Releases, OwnedBy, providerVars
<1>7. {"commit", "done", "reread", "fail", "persist_rollback", "record_errors",
       "raised"} \subseteq CommandPcs
  BY DEF CommandPcs
<1>8. CASE PersistSchedules(c) \/ CommitSchedule(c)
  BY <1>1, <1>5, <1>6, <1>7, <1>8 DEF PersistSchedules, CommitSchedule
<1>9. CASE PersistRollback(c) \/ FailSchedule(c) \/ AfterCleanUp(c)
  BY <1>6, <1>7, <1>9 DEF PersistRollback, FailSchedule, AfterCleanUp
<1>10. CASE RecordCleanupErrors(c)
  <2>1. \E p \in {"reread", "fail"} : CommandGoto(c, p)
    BY <1>10 DEF RecordCleanupErrors, Creates
  <2>. QED
    BY <1>6, <1>7, <1>10, <2>1 DEF RecordCleanupErrors
<1>. QED
  BY <1>1, <1>2, <1>3, <1>4, <1>8, <1>9, <1>10
     DEF CommandStep, BeginCancel, CancelAudit, CommandCrash

\* A command that does not schedule touches no schedule before the audit is
\* cancelled.
LEMMA CancelTouchesNothing ==
  ASSUME SchedulingAssumption, NoFaultsNorEarlyCleanup, SchedulingTypeOK,
         PointsOK, lifecycle_state # "CANCELLED",
         NEW c \in Commands, ~ Creates(c),
         BeginSchedule(c) \/ BeginCancel(c) \/ CommandStep(c) \/ CommandCrash(c)
  PROVE  UNCHANGED <<provider, fired>>
BY DEF PointsOK, CommandStep, BeginSchedule, BeginCancel, CommandCrash,
  CreateSchedule, PersistSchedules, CommitSchedule, PersistRollback, RereadState,
  FailSchedule, CleanUp, AfterCleanUp, RecordCleanupErrors, CancelAudit,
  providerVars

\* Every step keeps each command's program point in line with the audit.
LEMMA PointsStep ==
  ASSUME SchedulingAssumption, NoFaultsNorEarlyCleanup, SchedulingTypeOK,
         PointsOK, [SchedulingNext]_schedulingVars
  PROVE  PointsOK'
<1> DEFINE Point(c) ==
      LET r == command[c]
      IN  /\ r.pc = "idle" => r.created = 0
          /\ r.pc \in {"create", "persist", "commit", "rollback",
                       "persist_rollback"} => Creates(c)
          /\ r.pc \in {"cancel", "cleanup"} => ~ Creates(c)
          /\ r.pc \in {"persist", "commit"} => r.created = ScheduleCount
          /\ ~ Creates(c) /\ r.pc \in {"cleanup", "record_errors", "done"}
               => lifecycle_state = "CANCELLED"
<1>1. ASSUME NEW d \in Commands, command'[d] = command[d]
      PROVE  Point(d)'
  BY <1>1, CancelledIsFinal DEF PointsOK, Creates
<1>2. ASSUME UNCHANGED command
      PROVE  PointsOK'
  BY <1>1, <1>2 DEF PointsOK
<1>3. ASSUME NEW c \in Commands,
             BeginSchedule(c) \/ BeginCancel(c) \/ CommandStep(c)
             \/ CommandCrash(c)
      PROVE  PointsOK'
  <2>1. command \in [Commands -> CommandRecord] /\ ~ Fault
    BY DEF SchedulingTypeOK, Fault, NoFaultsNorEarlyCleanup
  <2>2. OthersKeep(c)
    BY <1>3, CommandType
  <2>3. SUFFICES Point(c)'
    BY <1>1, <2>2 DEF PointsOK, OthersKeep
  <2>4. Point(c) /\ (Creates(c)' <=> Creates(c))
    BY DEF PointsOK, Creates
  <2>5. CASE BeginSchedule(c) \/ BeginCancel(c) \/ RereadState(c)
    <3>1. /\ BeginSchedule(c) => Creates(c)
          /\ BeginCancel(c) => ~ Creates(c) /\ command'[c].pc = "cancel"
      BY <2>5, BeginFields DEF BeginSchedule, BeginCancel,
        NoFaultsNorEarlyCleanup
    <3>. QED
      BY <2>4, <2>5, <3>1, BeginFields
  <2>6. CASE CreateSchedule(c)
    BY <2>4, <2>6, CreateOwns DEF CreateSchedule, NoFaultsNorEarlyCleanup
  <2>7. CASE CleanUp(c)
    BY <2>4, <2>7, CleanUpFields, CancelledIsFinal DEF CleanUp
  <2>8. CASE StartRollback(c) /\ command[c].pc \in {"persist", "commit"}
    BY <2>1, <2>4, <2>8, StartRollbackFields
  <2>9. ASSUME NEW p \in CommandPcs \ {"idle", "create", "persist", "rollback"},
               CommandGoto(c, p),
               p = "commit" => command[c].pc = "persist",
               p \in {"cancel", "cleanup"} => ~ Creates(c),
               p = "persist_rollback" => Creates(c),
               ~ Creates(c) /\ p \in {"cleanup", "record_errors", "done"}
                 => lifecycle_state' = "CANCELLED"
        PROVE  Point(c)'
    BY <2>1, <2>4, <2>9, CommandGotoFields
  <2>10. {"commit", "reread", "fail", "cancel", "cleanup", "persist_rollback",
          "record_errors", "done", "raised", "crashed"}
           \subseteq CommandPcs \ {"idle", "create", "persist", "rollback"}
    BY DEF CommandPcs
  <2>11. CASE PersistSchedules(c)
    BY <2>1, <2>8, <2>9, <2>10, <2>11 DEF PersistSchedules
  <2>12. CASE CommitSchedule(c)
    BY <2>1, <2>4, <2>8, <2>9, <2>10, <2>12 DEF CommitSchedule
  <2>13. CASE PersistRollback(c)
    BY <2>4, <2>9, <2>10, <2>13 DEF PersistRollback
  <2>14. CASE CancelAudit(c)
    <3>1. ~ Creates(c) /\ CommandKind[c] # "cancel"
      BY <2>4, <2>14 DEF CancelAudit, NoFaultsNorEarlyCleanup
    <3>2. Transition(command[c].state, "CANCELLED")
            => lifecycle_state' = "CANCELLED"
      BY DEF Transition, Record
    <3>. QED
      BY <2>9, <2>10, <2>14, <3>1, <3>2 DEF CancelAudit
  <2>15. CASE AfterCleanUp(c)
    BY <2>4, <2>9, <2>10, <2>15, CancelledIsFinal
       DEF AfterCleanUp, NoFaultsNorEarlyCleanup
  <2>16. CASE RecordCleanupErrors(c)
    BY <2>4, <2>9, <2>10, <2>16, CancelledIsFinal
       DEF RecordCleanupErrors, NoFaultsNorEarlyCleanup, Creates
  <2>17. CASE FailSchedule(c)
    BY <2>9, <2>10, <2>17 DEF FailSchedule
  <2>. QED
    BY <1>3, <2>1, <2>5, <2>6, <2>7, <2>11, <2>12, <2>13, <2>14, <2>15, <2>16,
      <2>17 DEF CommandStep, CommandCrash
<1>. QED
  BY <1>2, <1>3 DEF SchedulingNext, FireExecution, FireFinalization,
    FinishFinalization, ForceRecreate, schedulingVars

\* Every step keeps what is owned in existence, and owners apart.
LEMMA OwnershipStep ==
  ASSUME SchedulingAssumption, NoFaultsNorEarlyCleanup, SchedulingTypeOK,
         OwnershipInv, [SchedulingNext]_schedulingVars
  PROVE  OwnedExist' /\ OwnersApart'
<1>1. SUFFICES ASSUME lifecycle_state' # "CANCELLED"
               PROVE  OwnedExist' /\ OwnersApart'
  BY DEF OwnedExist, OwnersApart
<1>2. /\ lifecycle_state # "CANCELLED"
      /\ PointsOK
      /\ provider \in [Schedules -> {"absent", "enabled", "disabled"}]
  BY <1>1, CancelledIsFinal DEF OwnershipInv, SchedulingTypeOK
<1>3. /\ \A c \in Commands, n \in Schedules :
           Owns(c, n) => provider[n] = "enabled" \/ n \in fired
      /\ \A c, d \in Commands, n \in Schedules :
           c # d /\ Owns(c, n) /\ Owns(d, n) => n \in fired
  BY <1>2 DEF OwnershipInv, OwnedExist, OwnersApart
<1>4. ASSUME NEW c \in Commands, command'[c] = command[c], NEW n \in Schedules
      PROVE  Owns(c, n)' <=> Owns(c, n)
  BY <1>4 DEF Owns, OwnedBy, Creates
<1>5. ASSUME NEW c \in Commands, NEW n \in Schedules
      PROVE  Owns(c, n)' <=> Creates(c) /\ OwnedBy(command'[c], n)
  BY DEF Owns, OwnedBy, Creates
<1>6. ASSUME NEW c \in Commands,
             BeginSchedule(c) \/ BeginCancel(c) \/ CommandStep(c)
             \/ CommandCrash(c)
      PROVE  OwnedExist' /\ OwnersApart'
  <2>1. \A d \in Commands, n \in Schedules :
          d # c => (Owns(d, n)' <=> Owns(d, n))
    BY <1>4, <1>6, CommandType DEF OthersKeep
  <2>2. ASSUME UNCHANGED <<provider, fired>>,
               \A n \in Schedules : Owns(c, n)' => Owns(c, n)
        PROVE  OwnedExist' /\ OwnersApart'
    BY <1>3, <2>1, <2>2 DEF OwnedExist, OwnersApart
  <2>3. CASE ~ Creates(c)
    BY <1>2, <1>5, <1>6, <2>2, <2>3, CancelTouchesNothing
  <2>4. CASE Creates(c) /\ Releases(c)
    BY <1>5, <2>2, <2>4 DEF Releases, Owns
  <2>5. ASSUME Creates(c), NEW n \in Schedules, Takes(c, n)
        PROVE  OwnedExist' /\ OwnersApart'
    <3>1. \A m \in Schedules : Owns(c, m)' /\ m # n => Owns(c, m)
      BY <1>5, <2>5 DEF Takes, Owns
    <3>2. /\ provider'[n] = "enabled"
          /\ \A m \in Schedules : m # n => provider'[m] = provider[m]
          /\ fired' = fired
      BY <1>2, <2>5 DEF Takes
    <3>3. \A d \in Commands : d # c /\ Owns(d, n) => n \in fired
      BY <1>3, <2>5 DEF Takes
    <3>. QED
      BY <1>3, <2>1, <3>1, <3>2, <3>3 DEF OwnedExist, OwnersApart
  <2>6. ASSUME Creates(c), NEW n \in Schedules, Removes(c, n)
        PROVE  OwnedExist' /\ OwnersApart'
    <3>1. \A m \in Schedules : Owns(c, m)' => Owns(c, m) /\ m # n
      BY <1>5, <2>6 DEF Removes, Owns
    <3>2. /\ Owns(c, n)
          /\ \A m \in Schedules : m # n => provider'[m] = provider[m]
          /\ fired' = fired
      BY <2>6 DEF Removes
    <3>. QED
      BY <1>3, <2>1, <3>1, <3>2 DEF OwnedExist, OwnersApart
  <2>. QED
    BY <1>2, <1>6, <2>3, <2>4, <2>5, <2>6, CommandOwns
<1>7. ASSUME UNCHANGED <<provider, fired, command>>
      PROVE  OwnedExist' /\ OwnersApart'
  BY <1>3, <1>4, <1>7 DEF OwnedExist, OwnersApart
<1>8. ASSUME NEW n \in Schedules, fired' = fired \cup {n}, UNCHANGED command,
             provider' = [provider EXCEPT ![n] = "absent"]
      PROVE  OwnedExist' /\ OwnersApart'
  BY <1>2, <1>3, <1>4, <1>8 DEF OwnedExist, OwnersApart
<1>9. FinalizationSchedule \in Schedules
  BY DEF SchedulingAssumption, FinalizationSchedule, Schedules
<1>. QED
  BY <1>6, <1>7, <1>8, <1>9 DEF SchedulingNext, FireExecution,
    FireFinalization, FinishFinalization, ForceRecreate, schedulingVars,
    providerVars

\* Only a command that created every schedule takes the audit to SCHEDULED,
\* and it is done from then on.
LEMMA OwnerStep ==
  ASSUME SchedulingAssumption, NoFaultsNorEarlyCleanup, SchedulingTypeOK,
         OwnershipInv, [SchedulingNext]_schedulingVars
  PROVE  ScheduledHasOwner'
<1> DEFINE Owner(c) == /\ Creates(c)
                       /\ command[c].pc = "done"
                       /\ command[c].created = ScheduleCount
<1>1. SUFFICES ASSUME lifecycle_state' = "SCHEDULED"
               PROVE  \E c \in Commands : Owner(c)'
  BY DEF ScheduledHasOwner
<1>2. ASSUME lifecycle_state = "SCHEDULED"
      PROVE  \E c \in Commands : Owner(c)'
  <2>1. PICK c \in Commands : Owner(c)
    BY <1>2 DEF OwnershipInv, ScheduledHasOwner
  <2>2. command'[c] = command[c]
    <3>1. ASSUME NEW d \in Commands,
                 BeginSchedule(d) \/ BeginCancel(d) \/ CommandStep(d)
                 \/ CommandCrash(d)
          PROVE  command'[c] = command[c]
      <4>1. command[d].pc # "done"
        BY <3>1 DEF BeginSchedule, BeginCancel, CommandStep, CommandCrash,
          CreateSchedule, PersistSchedules, CommitSchedule, PersistRollback,
          RereadState, FailSchedule, CleanUp, AfterCleanUp, RecordCleanupErrors,
          CancelAudit
      <4>. QED
        BY <2>1, <3>1, <4>1, CommandType DEF OthersKeep
    <3>. QED
      BY <3>1 DEF SchedulingNext, FireExecution, FireFinalization,
        FinishFinalization, ForceRecreate, schedulingVars
  <2>. QED
    BY <2>1, <2>2 DEF Creates
<1>3. ASSUME lifecycle_state # "SCHEDULED"
      PROVE  \E c \in Commands : Owner(c)'
  <2>1. ASSUME NEW e, NEW n, Transition(e, n)
        PROVE  n = "SCHEDULED"
    BY <1>1, <2>1 DEF Transition, Record
  <2>2. ~ UNCHANGED lifecycle_state /\ ~ Recreate
    BY <1>1, <1>3 DEF Recreate, Record
  <2>3. ASSUME NEW c \in Commands, CommitSchedule(c)
        PROVE  Owner(c)'
    <3>1. /\ command \in [Commands -> CommandRecord]
          /\ "done" \in CommandPcs
          /\ ~ Fault
      BY DEF SchedulingTypeOK, CommandPcs, Fault, NoFaultsNorEarlyCleanup
    <3>2. CommandGoto(c, "done")
      BY <2>2, <2>3, <3>1 DEF CommitSchedule, LifecycleConflict,
        InvalidTransition, lifecycleVars
    <3>3. Creates(c) /\ command[c].created = ScheduleCount
      BY <2>3 DEF CommitSchedule, OwnershipInv, PointsOK
    <3>. QED
      BY <3>1, <3>2, <3>3, CommandGotoFields DEF Creates
  <2>4. ASSUME NEW c \in Commands, CommandStep(c)
        PROVE  CommitSchedule(c)
    BY <2>1, <2>2, <2>4 DEF CommandStep, CreateSchedule, PersistSchedules,
      PersistRollback, RereadState, FailSchedule, CleanUp, AfterCleanUp,
      RecordCleanupErrors, CancelAudit, LifecycleConflict, InvalidTransition,
      lifecycleVars
  <2>. QED
    BY <2>1, <2>2, <2>3, <2>4 DEF SchedulingNext, BeginSchedule, BeginCancel,
      CommandCrash, FireExecution, FireFinalization, FinishFinalization,
      ForceRecreate, InvalidTransition, lifecycleVars, schedulingVars
<1>. QED
  BY <1>2, <1>3

\* Without faults, and if nobody cleans up before cancelling, any number of
\* schedule commands and cancellations may race: an audit that is SCHEDULED
\* has all its schedules, but for those that fired.
THEOREM SchedulingIsAllOrNothing ==
  ASSUME NoFaultsNorEarlyCleanup
  PROVE  SchedulingSpec => []AllOrNothing
<1>1. SchedulingInit => OwnershipInv
  BY DEF SchedulingInit, LifecycleInit, OwnershipInv, PointsOK, OwnedExist,
    OwnersApart, ScheduledHasOwner, Owns, OwnedBy
<1>2. SchedulingTypeOK /\ OwnershipInv /\ [SchedulingNext]_schedulingVars
        => OwnershipInv'
  BY SchedulingAssumption, PointsStep, OwnershipStep, OwnerStep DEF OwnershipInv
<1>3. SchedulingTypeOK /\ OwnershipInv => AllOrNothing
  <2> SUFFICES ASSUME SchedulingTypeOK, OwnershipInv,
                      lifecycle_state = "SCHEDULED", NEW n \in Schedules
               PROVE  provider[n] = "enabled" \/ n \in fired
    BY DEF AllOrNothing
  <2>1. PICK c \in Commands : /\ Creates(c)
                              /\ command[c].pc = "done"
                              /\ command[c].created = ScheduleCount
    BY DEF OwnershipInv, ScheduledHasOwner
  <2>2. Owns(c, n)
    BY <2>1, SchedulingAssumption DEF Owns, OwnedBy, Schedules,
      SchedulingAssumption
  <2>. QED
    BY <2>2 DEF OwnershipInv, OwnedExist
<1>. QED
  BY <1>1, <1>2, <1>3, SchedulingTypeCorrect, PTL DEF SchedulingSpec

-----------------------------------------------------------------------------
(***************************************************************************)
(* No silent leak                                                          *)
(*                                                                         *)
(* The theorem is about one schedule command, any number of cancellations  *)
(* of both kinds, and any number of faults.  The argument follows the      *)
(* schedules that were created and are still there, Leftover: everyone who *)
(* has to remove them has each of them still before him or among his       *)
(* errors, and errors are recorded before a command ends.  A cancellation  *)
(* that read an empty list found an audit that was not scheduled yet, and  *)
(* its transition is refused if it is by then.                             *)
(***************************************************************************)

\* At most one command creates schedules.
OneScheduler ==
  \A c, d \in Commands : Creates(c) /\ Creates(d) => c = d

\* The audit has not been SCHEDULED since it was created: it is in DRAFT, or
\* ended from there.
NeverScheduled ==
  \/ lifecycle_state = "DRAFT"
  \/ /\ lifecycle_state \in {"FAILED", "CANCELLED"}
     /\ lifecycle_history[Len(lifecycle_history)].from_state = "DRAFT"

\* Nobody recreates an audit that failed after it had been scheduled.
OnlyFreshRecreated == [][Recreate => NeverScheduled]_schedulingVars

NoCrash == \A c \in Commands : command[c].pc # "crashed"

RollbackPcs ==
  {"rollback", "persist_rollback", "record_errors", "reread", "fail", "raised"}

\* The schedules that create_schedule has answered for, and those of them that
\* would still fire.
Created ==
  {n \in Schedules : \E c \in Commands : Creates(c) /\ n <= command[c].created}
Leftover == {n \in Created : provider[n] = "enabled"}

Recorded == Leftover \subseteq cleanup_errors
Swept(c) == Leftover \subseteq command[c].targets \cup command[c].errors

CreatorsPast ==
  \A c \in Commands : Creates(c) => command[c].pc \notin {"idle", "create"}

\* c read an audit that was scheduled.
ReadLive(c) ==
  command[c].pc # "idle" /\ command[c].state \in {"SCHEDULED", "RUNNING"}

CleanUpOver(c) ==
  \/ command[c].pc = "done"
  \/ CommandKind[c] = "cancel" /\ command[c].pc \in {"cancel", "raised"}

CreatorSound(c) ==
  LET r == command[c]
  IN  /\ r.pc \notin {"cancel", "cleanup"}
      /\ r.pc = "idle" => r.created = 0
      /\ r.pc \in {"idle", "create"} => schedules = {}
      /\ r.pc \in {"commit", "done"} => schedules = Created
      /\ r.pc = "done" => ~ NeverScheduled
      /\ r.pc \in RollbackPcs => Swept(c)
      /\ r.pc \in {"persist_rollback", "record_errors"} => r.targets = {}
      /\ r.pc \in {"fail", "reread", "raised"} => Recorded

CancellerSound(c) ==
  LET r == command[c]
  IN  /\ r.pc \in {"idle", "cancel", "cleanup", "record_errors", "done", "raised"}
      /\ r.pc = "idle" => r.errors = {}
      /\ \/ r.pc = "idle"
         \/ r.targets = {} /\ r.errors = {}
         \/ Swept(c) /\ CreatorsPast
      /\ ReadLive(c) => Swept(c) /\ CreatorsPast
      /\ r.pc = "record_errors" => r.targets = {}
      /\ CleanUpOver(c) => r.targets = {} /\ (r.errors = {} \/ Recorded)

CommandSound(c) ==
  /\ Creates(c) => CreatorSound(c)
  /\ ~ Creates(c) => CancellerSound(c)
  /\ command[c].pc = "record_errors" => command[c].errors # {}

\* What is there was created by an answered call, or by the one that raised.
AllMade ==
  \A n \in Schedules :
    provider[n] # "absent" =>
      \/ n \in Created
      \/ \E c \in Commands : /\ Creates(c)
                             /\ command[c].pc \in RollbackPcs
                             /\ command[c].created = n - 1

\* What the item says of the schedules, and who ended the audit.
ItemSound ==
  /\ schedules \in {{}, Created}
  /\ ~ NeverScheduled => schedules = Created /\ CreatorsPast
  /\ lifecycle_state = "CANCELLED" /\ ~ NeverScheduled =>
       \E c \in Commands :
         /\ ~ Creates(c)
         /\ ReadLive(c)
         /\ \/ command[c].pc = "done"
            \/ /\ CommandKind[c] # "cancel"
               /\ command[c].pc \in {"cleanup", "record_errors"}
  /\ lifecycle_state = "FAILED" /\ NeverScheduled =>
       \E c \in Commands : Creates(c) /\ command[c].pc = "raised"

LeakInv ==
  NoCrash => AllMade /\ ItemSound /\ \A c \in Commands : CommandSound(c)

\* Once scheduled, an audit is never again as if it had not been; and it only
\* gets there from DRAFT.
LEMMA ScheduledForGood ==
  ASSUME LifecycleTypeOK, [SchedulingNext]_schedulingVars,
         Recreate => NeverScheduled
  PROVE  /\ ~ NeverScheduled => ~ NeverScheduled'
         /\ NeverScheduled /\ ~ NeverScheduled' =>
              lifecycle_state = "DRAFT" /\ lifecycle_state' = "SCHEDULED"
<1>1. LifecycleNext \/ UNCHANGED lifecycleVars
  BY SchedulingMovesLifecycle
<1>2. CASE Recreate
  BY <1>2 DEF Recreate, Record, NeverScheduled
<1>3. CASE UNCHANGED lifecycleVars
  BY <1>3 DEF lifecycleVars, NeverScheduled
<1>4. ASSUME NEW next \in TRANSITIONS[lifecycle_state],
             Record(lifecycle_state, next)
      PROVE  /\ ~ NeverScheduled => ~ NeverScheduled'
             /\ NeverScheduled /\ ~ NeverScheduled' =>
                  lifecycle_state = "DRAFT" /\ lifecycle_state' = "SCHEDULED"
  <2>1. /\ lifecycle_state' = next
        /\ lifecycle_history'[Len(lifecycle_history')].from_state
             = lifecycle_state
    BY <1>4 DEF Record, LifecycleTypeOK
  <2>2. /\ next # "DRAFT"
        /\ lifecycle_state \notin {"FAILED", "CANCELLED"}
        /\ lifecycle_state = "DRAFT" =>
             next \in {"SCHEDULED", "CANCELLED", "FAILED"}
    BY <1>4 DEF LifecycleTypeOK, LifecycleStates, TRANSITIONS
  <2>. QED
    BY <2>1, <2>2 DEF NeverScheduled
<1>. QED
  BY <1>1, <1>2, <1>3, <1>4 DEF LifecycleNext, Advance

\* A transition takes the audit to the state it names.
LEMMA TransitionTo ==
  ASSUME LifecycleTypeOK, NEW e, NEW n, Transition(e, n)
  PROVE  /\ lifecycle_state = e
         /\ lifecycle_state' = n
         /\ lifecycle_history'[Len(lifecycle_history')].from_state = e
BY DEF Transition, Record, LifecycleTypeOK

\* Which step takes the audit to a state that some command is responsible for.
LEMMA WhoMovesAudit ==
  ASSUME LifecycleTypeOK, [SchedulingNext]_schedulingVars,
         ~ UNCHANGED lifecycleVars
  PROVE  /\ lifecycle_state' = "SCHEDULED" =>
              \E c \in Commands : CommitSchedule(c)
         /\ lifecycle_state' = "CANCELLED" =>
              \E c \in Commands : CancelAudit(c)
         /\ lifecycle_state' = "FAILED" /\ NeverScheduled' =>
              \E c \in Commands : FailSchedule(c)
<1>1. ASSUME NEW c \in Commands,
             BeginSchedule(c) \/ BeginCancel(c) \/ CommandCrash(c)
      PROVE  FALSE
  BY <1>1 DEF BeginSchedule, BeginCancel, CommandCrash
<1>2. ASSUME NEW c \in Commands, CommandStep(c)
      PROVE  CommitSchedule(c) \/ FailSchedule(c) \/ CancelAudit(c)
  BY <1>2 DEF CommandStep, CreateSchedule, PersistSchedules, PersistRollback,
    RereadState, CleanUp, AfterCleanUp, RecordCleanupErrors
<1>3. ASSUME NEW c \in Commands, CommitSchedule(c)
      PROVE  lifecycle_state' = "SCHEDULED"
  BY <1>3, TransitionTo DEF CommitSchedule, LifecycleConflict, InvalidTransition
<1>4. ASSUME NEW c \in Commands, FailSchedule(c)
      PROVE  lifecycle_state' = "FAILED"
  BY <1>4, TransitionTo DEF FailSchedule, LifecycleConflict, InvalidTransition
<1>5. ASSUME NEW c \in Commands, CancelAudit(c)
      PROVE  lifecycle_state' = "CANCELLED"
  BY <1>5, TransitionTo DEF CancelAudit, LifecycleConflict, InvalidTransition
<1>6. ASSUME \/ \E n \in Schedules : FireExecution(n)
             \/ FireFinalization \/ ForceRecreate
      PROVE  lifecycle_state' \in {"RUNNING", "FINALIZING", "DRAFT"}
  BY <1>6, TransitionTo DEF FireExecution, FireFinalization, ForceRecreate,
    InvalidTransition, Recreate, Record
<1>7. ASSUME FinishFinalization
      PROVE  /\ lifecycle_state' \in {"COMPLETED", "FAILED"}
             /\ ~ NeverScheduled'
  BY <1>7, TransitionTo DEF FinishFinalization, NeverScheduled
<1>. QED
  BY <1>1, <1>2, <1>3, <1>4, <1>5, <1>6, <1>7 DEF SchedulingNext,
    schedulingVars, lifecycleVars

\* No schedule comes into being and none is enabled again.
NoneCreated ==
  /\ \A n \in Schedules :
       /\ provider'[n] # "absent" => provider[n] # "absent"
       /\ provider'[n] = "enabled" => provider[n] = "enabled"
  /\ \A c \in Commands : command'[c].created = command[c].created

LEMMA LeftoverShrinks ==
  ASSUME NoneCreated
  PROVE  Created' = Created /\ Leftover' \subseteq Leftover
<1>1. Created' = Created
  BY DEF NoneCreated, Created, Creates
<1>. QED
  BY <1>1 DEF NoneCreated, Leftover, Created

\* With one scheduler, what was created is what it counts.
LEMMA CreatedIsCounted ==
  ASSUME SchedulingAssumption, OneScheduler,
         command \in [Commands -> CommandRecord], NEW c \in Commands, Creates(c)
  PROVE  Created = 1 .. command[c].created
<1>1. command[c].created \in 0 .. ScheduleCount
  BY DEF CommandRecord
<1>2. Created = {n \in Schedules : n <= command[c].created}
  BY DEF OneScheduler, Created
<1>. QED
  BY <1>1, <1>2 DEF Schedules, SchedulingAssumption

\* A step of a command that goes to one of its program points.
Steps(c) == BeginSchedule(c) \/ BeginCancel(c) \/ CommandStep(c)

\* Where the steps of a command lead: never back to creating, never out of the
\* rollback.
LEMMA StepsForward ==
  ASSUME SchedulingAssumption, SchedulingTypeOK, NEW c \in Commands, Steps(c)
  PROVE  /\ command[c].pc \notin {"done", "raised", "crashed"}
         /\ command'[c].pc # "idle"
         /\ command'[c].pc = "create" => command[c].pc \in {"idle", "create"}
         /\ Creates(c) /\ command[c].pc \in RollbackPcs
              => command'[c].pc \in RollbackPcs
<1>1. command \in [Commands -> CommandRecord]
  BY DEF SchedulingTypeOK
<1>2. CASE BeginSchedule(c) \/ BeginCancel(c) \/ RereadState(c)
  BY <1>2, BeginFields DEF BeginSchedule, BeginCancel, RereadState, RollbackPcs
<1>3. CASE CleanUp(c)
  BY <1>3, CleanUpFields DEF CleanUp
<1>4. CASE CreateSchedule(c)
  <2>1. PICK n : n = command[c].created + 1
    OBVIOUS
  <2>2. CASE StartRollback(c)
    BY <1>1, <1>4, <2>2, StartRollbackFields DEF CreateSchedule, RollbackPcs
  <2>3. CASE command'[c].pc = IF n = ScheduleCount THEN "persist" ELSE "create"
    BY <1>4, <2>3 DEF CreateSchedule, RollbackPcs
  <2>. QED
    BY <1>4, <2>1, <2>2, <2>3, CreateFields
<1>5. CASE /\ StartRollback(c)
           /\ command[c].pc \notin {"done", "raised", "crashed"}
  BY <1>1, <1>5, StartRollbackFields DEF RollbackPcs
<1>6. ASSUME NEW p \in CommandPcs \ {"idle", "create"}, CommandGoto(c, p),
             command[c].pc \notin {"done", "raised", "crashed"},
             Creates(c) /\ command[c].pc \in RollbackPcs => p \in RollbackPcs
      PROVE  /\ command[c].pc \notin {"done", "raised", "crashed"}
             /\ command'[c].pc # "idle"
             /\ command'[c].pc = "create" => command[c].pc \in {"idle", "create"}
             /\ Creates(c) /\ command[c].pc \in RollbackPcs
                  => command'[c].pc \in RollbackPcs
  BY <1>1, <1>6, CommandGotoFields
<1>7. {"commit", "reread", "fail", "cancel", "cleanup", "persist_rollback",
       "record_errors", "done", "raised"} \subseteq CommandPcs \ {"idle", "create"}
  BY DEF CommandPcs
<1>8. CASE PersistSchedules(c) \/ CommitSchedule(c)
  BY <1>5, <1>6, <1>7, <1>8 DEF PersistSchedules, CommitSchedule, RollbackPcs
<1>9. CASE PersistRollback(c) \/ FailSchedule(c) \/ CancelAudit(c)
  BY <1>6, <1>7, <1>9 DEF PersistRollback, FailSchedule, CancelAudit, RollbackPcs
<1>10. CASE AfterCleanUp(c)
  BY <1>6, <1>7, <1>10 DEF AfterCleanUp, RollbackPcs
<1>11. CASE RecordCleanupErrors(c)
  BY <1>6, <1>7, <1>11 DEF RecordCleanupErrors, RollbackPcs, Creates
<1>. QED
  BY <1>2, <1>3, <1>4, <1>8, <1>9, <1>10, <1>11 DEF Steps, CommandStep

\* Only CreateSchedule creates a schedule or counts one.
LEMMA StepsCreateNone ==
  ASSUME SchedulingAssumption, SchedulingTypeOK, NEW c \in Commands, Steps(c),
         ~ CreateSchedule(c)
  PROVE  NoneCreated
<1>1. command \in [Commands -> CommandRecord] /\ OthersKeep(c)
  BY CommandType DEF SchedulingTypeOK, Steps
<1>2. command'[c].created = command[c].created
  <2>1. CASE BeginSchedule(c) \/ BeginCancel(c) \/ RereadState(c)
    BY <2>1, BeginFields
  <2>2. CASE CleanUp(c)
    BY <2>2, CleanUpFields
  <2>3. CASE StartRollback(c)
    BY <1>1, <2>3, StartRollbackFields
  <2>4. ASSUME NEW p, CommandGoto(c, p)
        PROVE  command'[c].created = command[c].created
    BY <1>1, <2>4 DEF CommandGoto, CommandRecord
  <2>. QED
    BY <2>1, <2>2, <2>3, <2>4 DEF Steps, CommandStep, PersistSchedules,
      CommitSchedule, PersistRollback, FailSchedule, AfterCleanUp, CancelAudit,
      RecordCleanupErrors
<1>3. CASE CleanUp(c)
  <2>1. PICK failed \in BOOLEAN : RemoveSchedule(NextTarget(c), failed)
    BY <1>3, CleanUpFields
  <2>2. \A n \in Schedules : /\ provider'[n] # "absent" => provider[n] # "absent"
                             /\ provider'[n] = "enabled" => provider[n] = "enabled"
    BY <2>1 DEF RemoveSchedule, SchedulingTypeOK
  <2>. QED
    BY <1>1, <1>2, <2>2 DEF NoneCreated, OthersKeep
<1>4. CASE UNCHANGED provider
  BY <1>1, <1>2, <1>4 DEF NoneCreated, OthersKeep
<1>. QED
  BY <1>3, <1>4 DEF Steps, CommandStep, BeginSchedule, BeginCancel, RereadState,
    PersistSchedules, CommitSchedule, PersistRollback, FailSchedule, AfterCleanUp,
    CancelAudit, RecordCleanupErrors, providerVars

\* What has been recorded stays recorded: who overwrites the errors has each
\* schedule that is left among his own.
LEMMA RecordedStays ==
  ASSUME NoneCreated, NEW c \in Commands, Steps(c), CommandSound(c)
  PROVE  /\ RecordCleanupErrors(c) => Recorded'
         /\ Recorded => Recorded'
<1>1. Leftover' \subseteq Leftover
  BY LeftoverShrinks
<1>2. CASE RecordCleanupErrors(c)
  <2>1. /\ command[c].pc = "record_errors"
        /\ cleanup_errors' = command[c].errors
    BY <1>2 DEF RecordCleanupErrors
  <2>2. command[c].targets = {} /\ Swept(c)
    BY <2>1 DEF CommandSound, CreatorSound, CancellerSound, RollbackPcs
  <2>. QED
    BY <1>1, <2>1, <2>2 DEF Recorded, Swept
<1>3. CASE ~ RecordCleanupErrors(c)
  <2>1. UNCHANGED cleanup_errors
    BY <1>3 DEF Steps, CommandStep, BeginSchedule, BeginCancel, RereadState,
      CreateSchedule, PersistSchedules, CommitSchedule, PersistRollback,
      FailSchedule, CleanUp, AfterCleanUp, CancelAudit, itemVars
  <2>. QED
    BY <1>1, <1>3, <2>1 DEF Recorded
<1>. QED
  BY <1>2, <1>3

\* A step that creates nothing keeps what is said of everyone else.
LEMMA OthersSound ==
  ASSUME NoneCreated, Recorded => Recorded', CreatorsPast => CreatorsPast',
         ~ NeverScheduled => ~ NeverScheduled',
         NEW d \in Commands, command'[d] = command[d], CommandSound(d),
         Creates(d) => UNCHANGED schedules
  PROVE  CommandSound(d)'
<1>1. Created' = Created /\ Leftover' \subseteq Leftover
  BY LeftoverShrinks
<1>2. /\ Creates(d)' <=> Creates(d)
      /\ ReadLive(d)' <=> ReadLive(d)
      /\ CleanUpOver(d)' <=> CleanUpOver(d)
      /\ Swept(d) => Swept(d)'
  BY <1>1 DEF Creates, ReadLive, CleanUpOver, Swept
<1>3. Creates(d) => CreatorSound(d)'
  BY <1>1, <1>2 DEF CommandSound, CreatorSound
<1>4. ~ Creates(d) => CancellerSound(d)'
  BY <1>2 DEF CommandSound, CancellerSound
<1>. QED
  BY <1>2, <1>3, <1>4 DEF CommandSound

\* The creator's own step, if it creates nothing.
LEMMA CreatorStep ==
  ASSUME SchedulingAssumption, OneScheduler, SchedulingTypeOK, NoneCreated,
         ~ NeverScheduled => ~ NeverScheduled',
         NEW c \in Commands, Creates(c), Steps(c), ~ CreateSchedule(c),
         CommandSound(c)
  PROVE  CommandSound(c)'
<1> DEFINE r == command[c]
           s == command'[c]
<1>1. /\ command \in [Commands -> CommandRecord]
      /\ CreatorSound(c)
      /\ Created = 1 .. command[c].created
      /\ r.pc = "record_errors" => r.errors # {}
  BY CreatedIsCounted DEF SchedulingTypeOK, CommandSound
<1>2. Created' = Created /\ Leftover' \subseteq Leftover /\ Leftover \subseteq Created
  BY LeftoverShrinks DEF Leftover
<1>3. Recorded => Recorded'
  BY RecordedStays
<1>4. SUFFICES CreatorSound(c)' /\ (s.pc = "record_errors" => s.errors # {})
  BY DEF CommandSound, Creates
<1>5. CASE BeginSchedule(c)
  <2>1. r.pc = "idle" /\ r.created = 0 /\ s.created = 0
    BY <1>1, <1>5, BeginFields DEF BeginSchedule, CreatorSound
  <2>2. Leftover = {} /\ Leftover' = {}
    BY <1>1, <1>2, <2>1
  <2>3. schedules' = {} /\ s.pc \in {"create", "raised"}
    BY <1>1, <1>5, <2>1, BeginFields DEF BeginSchedule, CreatorSound, itemVars
  <2>. QED
    BY <2>1, <2>2, <2>3 DEF CreatorSound, Recorded, Swept, RollbackPcs
<1>6. CASE RereadState(c)
  <2>1. /\ r.pc = "reread" /\ s.pc = "fail"
        /\ s.targets = r.targets /\ s.errors = r.errors
    BY <1>6, BeginFields DEF RereadState, BeginCancel
  <2>2. Recorded /\ Swept(c)
    BY <1>1, <2>1 DEF CreatorSound, RollbackPcs
  <2>. QED
    BY <1>2, <1>3, <2>1, <2>2 DEF CreatorSound, Swept, RollbackPcs
<1>7. CASE StartRollback(c)
  <2>1. s.pc = "rollback" /\ s.targets = Created
    BY <1>1, <1>7, StartRollbackFields
  <2>. QED
    BY <1>2, <2>1 DEF CreatorSound, Swept, RollbackPcs
<1>8. CASE CleanUp(c)
  <2>1. PICK failed \in BOOLEAN :
          /\ RemoveSchedule(NextTarget(c), failed)
          /\ s.errors = IF failed THEN r.errors \cup {NextTarget(c)} ELSE r.errors
    BY <1>8, CleanUpFields
  <2>2. /\ r.pc = "rollback" /\ s.pc = "rollback"
        /\ s.targets = r.targets \ {NextTarget(c)}
    BY <1>1, <1>8, CleanUpFields DEF CleanUp, CreatorSound
  <2>3. NextTarget(c) \in Leftover' => failed = TRUE
    BY <2>1 DEF RemoveSchedule, Leftover, Created, SchedulingTypeOK
  <2>4. Swept(c)
    BY <1>1, <2>2 DEF CreatorSound, RollbackPcs
  <2>. QED
    BY <1>2, <2>1, <2>2, <2>3, <2>4 DEF CreatorSound, Swept, RollbackPcs
<1>9. ASSUME NEW p \in CommandPcs, CommandGoto(c, p), p # "rollback",
             p \notin {"idle", "create", "cancel", "cleanup"},
             p \in {"commit", "done"} => schedules' = Created,
             p = "done" => ~ NeverScheduled',
             p \in RollbackPcs => Swept(c),
             p \in {"persist_rollback", "record_errors"} => r.targets = {},
             p = "record_errors" => r.errors # {},
             p \in {"fail", "reread", "raised"} => Recorded'
      PROVE  CreatorSound(c)' /\ (s.pc = "record_errors" => s.errors # {})
  <2>1. s.pc = p /\ s.targets = r.targets /\ s.errors = r.errors
    BY <1>1, <1>9, CommandGotoFields
  <2>. QED
    BY <1>2, <1>9, <2>1 DEF CreatorSound, Swept
<1>10. {"commit", "reread", "fail", "persist_rollback", "record_errors", "done",
        "raised"} \subseteq CommandPcs
  BY DEF CommandPcs
<1>11. CASE PersistSchedules(c)
  BY <1>1, <1>7, <1>9, <1>10, <1>11 DEF PersistSchedules, RollbackPcs
<1>12. CASE CommitSchedule(c)
  <2>1. Transition(r.state, "SCHEDULED") => ~ NeverScheduled'
    BY TransitionTo DEF NeverScheduled, SchedulingTypeOK
  <2>2. schedules' = Created
    BY <1>1, <1>12 DEF CommitSchedule, CreatorSound, itemVars
  <2>. QED
    BY <1>7, <1>9, <1>10, <1>12, <2>1, <2>2 DEF CommitSchedule, RollbackPcs
<1>13. CASE AfterCleanUp(c)
  <2>1. r.pc = "rollback" /\ r.targets = {} /\ CommandGoto(c, "persist_rollback")
    BY <1>1, <1>13 DEF AfterCleanUp, CreatorSound
  <2>2. Swept(c)
    BY <1>1, <2>1 DEF CreatorSound, RollbackPcs
  <2>. QED
    BY <1>9, <1>10, <2>1, <2>2
<1>14. CASE PersistRollback(c)
  <2>1. r.targets = {} /\ Swept(c)
    BY <1>1, <1>14 DEF PersistRollback, CreatorSound, RollbackPcs
  <2>2. r.errors = {} => Recorded'
    BY <1>2, <2>1 DEF Swept, Recorded
  <2>. QED
    BY <1>9, <1>10, <1>14, <2>1, <2>2 DEF PersistRollback
<1>15. CASE RecordCleanupErrors(c)
  <2>1. Recorded' /\ Swept(c)
    BY <1>1, <1>15, RecordedStays
       DEF RecordCleanupErrors, CreatorSound, RollbackPcs
  <2>2. \E p \in {"fail", "reread"} : CommandGoto(c, p)
    BY <1>15 DEF RecordCleanupErrors, Creates
  <2>. QED
    BY <1>9, <1>10, <2>1, <2>2
<1>16. CASE FailSchedule(c)
  <2>1. Recorded' /\ Swept(c)
    BY <1>1, <1>3, <1>16 DEF FailSchedule, CreatorSound, RollbackPcs
  <2>. QED
    BY <1>9, <1>10, <1>16, <2>1 DEF FailSchedule
<1>. QED
  BY <1>1, <1>5, <1>6, <1>8, <1>11, <1>12, <1>13, <1>14, <1>15, <1>16
     DEF Steps, CommandStep, BeginCancel, CancelAudit, CreatorSound

\* A canceller's own step.
LEMMA CancellerStep ==
  ASSUME SchedulingAssumption, SchedulingTypeOK, NoneCreated, ItemSound,
         CreatorsPast => CreatorsPast', \A d \in Commands : CommandSound(d),
         NEW c \in Commands, ~ Creates(c), Steps(c)
  PROVE  CommandSound(c)'
<1> DEFINE r == command[c]
           s == command'[c]
<1>1. /\ command \in [Commands -> CommandRecord]
      /\ CancellerSound(c)
      /\ r.pc = "record_errors" => r.errors # {}
  BY DEF SchedulingTypeOK, CommandSound
<1>2. Created' = Created /\ Leftover' \subseteq Leftover /\ Leftover \subseteq Created
  BY LeftoverShrinks DEF Leftover
<1>3. Recorded => Recorded'
  BY RecordedStays
<1>4. SUFFICES CancellerSound(c)' /\ (s.pc = "record_errors" => s.errors # {})
  BY DEF CommandSound, Creates
<1>5. CASE BeginCancel(c)
  <2>1. /\ r.pc = "idle" /\ r.errors = {} /\ s.errors = {}
        /\ s.targets = schedules
        /\ s.state = lifecycle_state
        /\ s.pc = IF CommandKind[c] = "cancel" THEN "cleanup" ELSE "cancel"
    BY <1>1, <1>5, BeginFields DEF BeginCancel, CancellerSound
  <2>2. CASE schedules = {}
    <3>1. s.state \in {"SCHEDULED", "RUNNING"} => Swept(c)' /\ CreatorsPast'
      BY <1>2, <2>1, <2>2 DEF ItemSound, NeverScheduled, Swept
    <3>. QED
      BY <2>1, <2>2, <3>1 DEF CancellerSound, ReadLive, CleanUpOver
  <2>3. CASE schedules # {}
    <3>1. schedules = Created /\ CreatorsPast
      BY <2>3 DEF ItemSound, CreatorsPast, CommandSound, CreatorSound
    <3>2. Swept(c)' /\ CreatorsPast'
      BY <1>2, <2>1, <3>1 DEF Swept
    <3>. QED
      BY <2>1, <3>2 DEF CancellerSound, CleanUpOver
  <2>. QED
    BY <2>2, <2>3
<1>6. CASE CleanUp(c)
  <2>1. PICK failed \in BOOLEAN :
          /\ RemoveSchedule(NextTarget(c), failed)
          /\ s.errors = IF failed THEN r.errors \cup {NextTarget(c)} ELSE r.errors
    BY <1>6, CleanUpFields
  <2>2. /\ r.pc = "cleanup" /\ s.pc = "cleanup"
        /\ s.targets = r.targets \ {NextTarget(c)}
        /\ r.targets # {}
    BY <1>1, <1>6, CleanUpFields DEF CleanUp, CancellerSound
  <2>3. NextTarget(c) \in Leftover' => failed = TRUE
    BY <2>1 DEF RemoveSchedule, Leftover, Created, SchedulingTypeOK
  <2>4. Swept(c) /\ CreatorsPast
    BY <1>1, <2>2 DEF CancellerSound
  <2>5. Swept(c)' /\ CreatorsPast'
    BY <1>2, <2>1, <2>2, <2>3, <2>4 DEF Swept
  <2>. QED
    BY <2>2, <2>5 DEF CancellerSound, CleanUpOver
<1>7. ASSUME NEW p \in CommandPcs, CommandGoto(c, p), r.pc # "idle",
             p \in {"cancel", "cleanup", "record_errors", "done", "raised"},
             p = "record_errors" => r.targets = {} /\ r.errors # {},
             \/ p = "done"
             \/ CommandKind[c] = "cancel" /\ p \in {"cancel", "raised"}
             => r.targets = {} /\ (r.errors = {} \/ Recorded')
      PROVE  CancellerSound(c)' /\ (s.pc = "record_errors" => s.errors # {})
  <2>1. /\ s.pc = p /\ s.targets = r.targets /\ s.errors = r.errors
        /\ s.state = r.state
    BY <1>1, <1>7, CommandGotoFields
  <2>2. Swept(c) /\ CreatorsPast => Swept(c)' /\ CreatorsPast'
    BY <1>2, <2>1 DEF Swept
  <2>3. ReadLive(c)' => ReadLive(c)
    BY <1>7, <2>1 DEF ReadLive
  <2>. QED
    BY <1>1, <1>7, <2>1, <2>2, <2>3 DEF CancellerSound, CleanUpOver
<1>8. {"cancel", "cleanup", "record_errors", "done", "raised"} \subseteq CommandPcs
  BY DEF CommandPcs
<1>9. CASE AfterCleanUp(c)
  BY <1>7, <1>8, <1>9 DEF AfterCleanUp
<1>10. CASE RecordCleanupErrors(c)
  <2>1. r.pc = "record_errors" /\ r.targets = {} /\ Recorded'
    BY <1>1, <1>10, RecordedStays DEF RecordCleanupErrors, CancellerSound
  <2>2. \E p \in {"cancel", "done"} : CommandGoto(c, p)
    BY <1>10 DEF RecordCleanupErrors, Creates
  <2>. QED
    BY <1>7, <1>8, <2>1, <2>2
<1>11. CASE CancelAudit(c)
  <2>1. CommandKind[c] = "cancel" =>
          r.targets = {} /\ (r.errors = {} \/ Recorded')
    BY <1>1, <1>3, <1>11 DEF CancelAudit, CancellerSound, CleanUpOver
  <2>. QED
    BY <1>7, <1>8, <1>11, <2>1 DEF CancelAudit
<1>. QED
  BY <1>1, <1>5, <1>6, <1>9, <1>10, <1>11 DEF Steps, CommandStep, BeginSchedule,
    CreateSchedule, PersistSchedules, CommitSchedule, PersistRollback,
    RereadState, FailSchedule, CancellerSound

\* Creating the next schedule, while nobody else has any part in them.
LEMMA CreateStep ==
  ASSUME SchedulingAssumption, OneScheduler, SchedulingTypeOK, AllMade, ItemSound,
         \A d \in Commands : CommandSound(d), NEW c \in Commands, CreateSchedule(c)
  PROVE  AllMade' /\ ItemSound' /\ \A d \in Commands : CommandSound(d)'
<1> DEFINE r == command[c]
           s == command'[c]
           n == r.created + 1
<1>1. /\ command \in [Commands -> CommandRecord]
      /\ command' \in [Commands -> CommandRecord]
      /\ provider \in [Schedules -> {"absent", "enabled", "disabled"}]
      /\ n \in Schedules /\ r.created \in Nat
      /\ provider' \in {provider, [provider EXCEPT ![n] = "enabled"]}
      /\ OthersKeep(c)
      /\ r.pc = "create"
      /\ UNCHANGED <<lifecycle_state, lifecycle_history, schedules, cleanup_errors>>
  BY CreateFields DEF SchedulingTypeOK, CreateSchedule, lifecycleVars, itemVars,
    CommandRecord, SchedulingAssumption
<1>2. Creates(c) /\ CreatorSound(c)
  BY <1>1 DEF CommandSound, CancellerSound
<1>3. \A d \in Commands : Creates(d) => d = c
  BY <1>2 DEF OneScheduler
<1>4. /\ ~ CreatorsPast
      /\ schedules = {}
      /\ Created = 1 .. r.created
  BY <1>1, <1>2, CreatedIsCounted DEF CreatorsPast, CreatorSound
<1>5. Created' = {m \in Schedules : m <= s.created}
  BY <1>2, <1>3 DEF Created, Creates
<1>6. \/ /\ s.created = n
         /\ s.pc \in {"create", "persist"}
      \/ /\ s.created = r.created
         /\ s.pc = "rollback"
         /\ s.targets = 1 .. r.created
  <2>1. CASE StartRollback(c)
    BY <1>1, <2>1, StartRollbackFields
  <2>2. CASE ~ StartRollback(c)
    BY <2>2, CreateFields
  <2>. QED
    BY <2>1, <2>2
<1>7. Created \subseteq Created'
  BY <1>1, <1>4, <1>5, <1>6 DEF Schedules, SchedulingAssumption
<1>8. AllMade'
  <2> SUFFICES ASSUME NEW m \in Schedules, provider'[m] # "absent"
               PROVE  \/ m \in Created'
                      \/ Creates(c)' /\ s.pc \in RollbackPcs /\ s.created = m - 1
    BY <1>2 DEF AllMade, Creates
  <2>1. CASE m # n
    <3>1. provider[m] # "absent"
      BY <1>1, <2>1
    <3>2. m \in Created
      BY <1>1, <1>3, <3>1 DEF AllMade, RollbackPcs
    <3>. QED
      BY <1>7, <3>2
  <2>2. CASE m = n
    BY <1>1, <1>2, <1>5, <1>6, <2>2 DEF RollbackPcs, Creates
  <2>. QED
    BY <2>1, <2>2
<1>9. ItemSound'
  <2>1. NeverScheduled /\ NeverScheduled'
    BY <1>1, <1>4 DEF ItemSound, NeverScheduled
  <2>2. lifecycle_state # "FAILED"
    BY <1>1, <1>3, <2>1 DEF ItemSound
  <2>. QED
    BY <1>1, <1>4, <2>1, <2>2 DEF ItemSound
<1>10. CommandSound(c)'
  <2>1. s.pc = "rollback" => Swept(c)'
    BY <1>1, <1>5, <1>6 DEF Swept, Leftover, Schedules, SchedulingAssumption
  <2>2. CreatorSound(c)'
    BY <1>1, <1>4, <1>6, <2>1 DEF CreatorSound, RollbackPcs
  <2>. QED
    BY <1>2, <1>6, <2>2 DEF CommandSound, Creates
<1>11. ASSUME NEW d \in Commands, d # c
       PROVE  CommandSound(d)'
  <2>1. ~ Creates(d) /\ CancellerSound(d) /\ command'[d] = command[d]
    BY <1>1, <1>3, <1>11 DEF CommandSound, OthersKeep
  <2>2. CancellerSound(d)'
    BY <1>4, <2>1 DEF CancellerSound, ReadLive, CleanUpOver
  <2>. QED
    BY <2>1, <2>2 DEF CommandSound, Creates
<1>. QED
  BY <1>8, <1>9, <1>10, <1>11

\* What the item says stays true, whoever moves the audit.
LEMMA ItemStep ==
  ASSUME SchedulingAssumption, OneScheduler, SchedulingTypeOK, ItemSound,
         \A d \in Commands : CommandSound(d), NoneCreated,
         [SchedulingNext]_schedulingVars, Recreate => NeverScheduled,
         CreatorsPast => CreatorsPast', schedules' \in {schedules, Created},
         \A d \in Commands : command'[d] = command[d] \/ Steps(d)
  PROVE  ItemSound'
<1>1. /\ Created' = Created
      /\ LifecycleTypeOK
      /\ command \in [Commands -> CommandRecord]
  BY LeftoverShrinks DEF SchedulingTypeOK
<1>2. /\ ~ NeverScheduled => ~ NeverScheduled'
      /\ NeverScheduled /\ ~ NeverScheduled' =>
           lifecycle_state = "DRAFT" /\ lifecycle_state' = "SCHEDULED"
  BY <1>1, ScheduledForGood
<1>3. ASSUME ~ NeverScheduled'
      PROVE  schedules' = Created' /\ CreatorsPast'
  <2>1. schedules = Created /\ CreatorsPast
    <3>1. CASE ~ NeverScheduled
      BY <3>1 DEF ItemSound
    <3>2. CASE NeverScheduled
      <4>1. PICK c \in Commands : CommitSchedule(c)
        BY <1>1, <1>2, <1>3, <3>2, WhoMovesAudit DEF lifecycleVars
      <4>2. command[c].pc = "commit" /\ Creates(c) /\ CreatorSound(c)
        BY <4>1 DEF CommitSchedule, CommandSound, CancellerSound
      <4>. QED
        BY <4>2 DEF CreatorSound, CreatorsPast, OneScheduler
    <3>. QED
      BY <3>1, <3>2
  <2>. QED
    BY <1>1, <2>1
<1>4. ASSUME lifecycle_state' = "CANCELLED", ~ NeverScheduled'
      PROVE  \E c \in Commands :
               /\ ~ Creates(c)'
               /\ ReadLive(c)'
               /\ \/ command'[c].pc = "done"
                  \/ /\ CommandKind[c] # "cancel"
                     /\ command'[c].pc \in {"cleanup", "record_errors"}
  <2>1. CASE UNCHANGED lifecycleVars
    <3>1. lifecycle_state = "CANCELLED" /\ ~ NeverScheduled
      BY <1>4, <2>1 DEF lifecycleVars, NeverScheduled
    <3>2. PICK c \in Commands :
            /\ ~ Creates(c)
            /\ ReadLive(c)
            /\ \/ command[c].pc = "done"
               \/ /\ CommandKind[c] # "cancel"
                  /\ command[c].pc \in {"cleanup", "record_errors"}
      BY <3>1 DEF ItemSound
    <3>3. CASE command'[c] = command[c]
      BY <3>2, <3>3 DEF Creates, ReadLive
    <3>4. CASE CleanUp(c)
      BY <3>2, <3>4, CleanUpFields DEF Creates, ReadLive
    <3>5. ASSUME NEW p \in {"record_errors", "done"}, CommandGoto(c, p),
                 CommandKind[c] # "cancel"
          PROVE  /\ ReadLive(c)'
                 /\ command'[c].pc \in {"record_errors", "done"}
      <4>1. p \in CommandPcs
        BY DEF CommandPcs
      <4>. QED
        BY <1>1, <3>2, <3>5, <4>1, CommandGotoFields DEF ReadLive
    <3>6. CASE AfterCleanUp(c)
      BY <3>2, <3>5, <3>6 DEF AfterCleanUp, Creates
    <3>7. CASE RecordCleanupErrors(c)
      BY <3>2, <3>5, <3>7 DEF RecordCleanupErrors, Creates
    <3>. QED
      BY <3>2, <3>3, <3>4, <3>6, <3>7 DEF Steps, CommandStep, BeginSchedule,
        BeginCancel, CreateSchedule, PersistSchedules, CommitSchedule,
        PersistRollback, RereadState, FailSchedule, CancelAudit
  <2>2. CASE ~ UNCHANGED lifecycleVars
    <3>1. PICK c \in Commands : CancelAudit(c)
      BY <1>1, <1>4, <2>2, WhoMovesAudit
    <3>2. /\ command[c].pc = "cancel"
          /\ Transition(command[c].state, "CANCELLED")
          /\ CommandGoto(c, IF CommandKind[c] = "cancel" THEN "done"
                            ELSE "cleanup")
      BY <2>2, <3>1 DEF CancelAudit, LifecycleConflict, InvalidTransition
    <3>3. ~ Creates(c)
      BY <3>2 DEF CommandSound, CreatorSound
    <3>4. command[c].state \in {"SCHEDULED", "RUNNING"}
      <4>1. lifecycle_state = command[c].state /\ command[c].state # "DRAFT"
        BY <1>1, <1>4, <3>2, TransitionTo DEF NeverScheduled
      <4>2. "CANCELLED" \in TRANSITIONS[command[c].state]
        BY <3>2 DEF Transition
      <4>. QED
        BY <1>1, <4>1, <4>2 DEF TRANSITIONS, LifecycleTypeOK, LifecycleStates
    <3>5. {"done", "cleanup"} \subseteq CommandPcs
      BY DEF CommandPcs
    <3>6. /\ command'[c].pc = IF CommandKind[c] = "cancel" THEN "done"
                              ELSE "cleanup"
          /\ command'[c].state = command[c].state
      BY <1>1, <3>2, <3>5, CommandGotoFields
    <3>. QED
      BY <3>3, <3>4, <3>6 DEF ReadLive, Creates
  <2>. QED
    BY <2>1, <2>2
<1>5. ASSUME lifecycle_state' = "FAILED", NeverScheduled'
      PROVE  \E c \in Commands : Creates(c)' /\ command'[c].pc = "raised"
  <2>1. CASE UNCHANGED lifecycleVars
    <3>1. lifecycle_state = "FAILED" /\ NeverScheduled
      BY <1>5, <2>1 DEF lifecycleVars, NeverScheduled
    <3>2. PICK c \in Commands : Creates(c) /\ command[c].pc = "raised"
      BY <3>1 DEF ItemSound
    <3>3. command'[c] = command[c]
      BY <3>2, StepsForward
    <3>. QED
      BY <3>2, <3>3 DEF Creates
  <2>2. CASE ~ UNCHANGED lifecycleVars
    <3>1. PICK c \in Commands : FailSchedule(c)
      BY <1>1, <1>5, <2>2, WhoMovesAudit
    <3>2. /\ command[c].pc = "fail"
          /\ CommandGoto(c, "raised")
          /\ "raised" \in CommandPcs
      BY <3>1 DEF FailSchedule, CommandPcs
    <3>3. Creates(c) /\ command'[c].pc = "raised"
      BY <1>1, <3>2, CommandGotoFields DEF CommandSound, CancellerSound
    <3>. QED
      BY <3>3 DEF Creates
  <2>. QED
    BY <2>1, <2>2
<1>6. schedules' \in {{}, Created'}
  BY <1>1 DEF ItemSound
<1>. QED
  BY <1>3, <1>4, <1>5, <1>6 DEF ItemSound

\* A step of a command that creates nothing.
LEMMA CommandLeakStep ==
  ASSUME SchedulingAssumption, OneScheduler, SchedulingTypeOK, AllMade, ItemSound,
         \A d \in Commands : CommandSound(d),
         [SchedulingNext]_schedulingVars, Recreate => NeverScheduled,
         NEW c \in Commands, Steps(c), ~ CreateSchedule(c)
  PROVE  AllMade' /\ ItemSound' /\ \A d \in Commands : CommandSound(d)'
<1>1. NoneCreated /\ OthersKeep(c) /\ Created' = Created
  BY StepsCreateNone, LeftoverShrinks, CommandType DEF Steps
<1>2. ~ NeverScheduled => ~ NeverScheduled'
  BY ScheduledForGood DEF SchedulingTypeOK
<1>3. Recorded => Recorded'
  BY <1>1, RecordedStays
<1>4. CreatorsPast => CreatorsPast'
  BY <1>1, StepsForward DEF CreatorsPast, OthersKeep, Creates
<1>5. /\ schedules' \in {schedules, Created}
      /\ ~ Creates(c) => UNCHANGED schedules
  <2>1. Creates(c) => Created = 1 .. command[c].created
    BY CreatedIsCounted DEF SchedulingTypeOK
  <2>2. PersistSchedules(c) \/ PersistRollback(c) => Creates(c)
    BY DEF PersistSchedules, PersistRollback, CommandSound, CancellerSound
  <2>. QED
    BY <2>1, <2>2 DEF Steps, CommandStep, BeginSchedule, BeginCancel,
      CreateSchedule, PersistSchedules, CommitSchedule, PersistRollback,
      RereadState, FailSchedule, CleanUp, AfterCleanUp, RecordCleanupErrors,
      CancelAudit, itemVars
<1>6. AllMade'
  <2> SUFFICES ASSUME NEW n \in Schedules, provider'[n] # "absent",
                      n \notin Created
               PROVE  \E d \in Commands : /\ Creates(d)'
                                          /\ command'[d].pc \in RollbackPcs
                                          /\ command'[d].created = n - 1
    BY <1>1 DEF AllMade
  <2>1. PICK d \in Commands : /\ Creates(d)
                              /\ command[d].pc \in RollbackPcs
                              /\ command[d].created = n - 1
    BY <1>1 DEF AllMade, NoneCreated
  <2>2. command'[d].pc \in RollbackPcs
    BY <1>1, <2>1, StepsForward DEF OthersKeep
  <2>. QED
    BY <1>1, <2>1, <2>2 DEF NoneCreated, Creates
<1>7. ItemSound'
  BY <1>1, <1>4, <1>5, ItemStep DEF OthersKeep
<1>8. CommandSound(c)'
  BY <1>1, <1>2, <1>4, CreatorStep, CancellerStep
<1>9. ASSUME NEW d \in Commands, d # c
      PROVE  CommandSound(d)'
  <2>1. Creates(d) => UNCHANGED schedules
    BY <1>5, <1>9 DEF OneScheduler
  <2>. QED
    BY <1>1, <1>2, <1>3, <1>4, <1>9, <2>1, OthersSound DEF OthersKeep
<1>. QED
  BY <1>6, <1>7, <1>8, <1>9

\* A schedule fires, the audit is finalized or recreated, or nothing happens.
LEMMA EnvironmentLeakStep ==
  ASSUME SchedulingAssumption, OneScheduler, SchedulingTypeOK, AllMade, ItemSound,
         \A d \in Commands : CommandSound(d),
         [SchedulingNext]_schedulingVars, Recreate => NeverScheduled,
         UNCHANGED <<schedules, cleanup_errors, command>>,
         \A n \in Schedules : provider'[n] \in {provider[n], "absent"}
  PROVE  AllMade' /\ ItemSound' /\ \A d \in Commands : CommandSound(d)'
<1>1. NoneCreated
  BY DEF NoneCreated
<1>2. Created' = Created /\ Leftover' \subseteq Leftover
  BY <1>1, LeftoverShrinks
<1>3. ~ NeverScheduled => ~ NeverScheduled'
  BY ScheduledForGood DEF SchedulingTypeOK
<1>4. (Recorded => Recorded') /\ (CreatorsPast => CreatorsPast')
  BY <1>2 DEF Recorded, CreatorsPast, Creates
<1>5. AllMade'
  BY <1>1, <1>2 DEF AllMade, NoneCreated, Creates
<1>6. ItemSound'
  BY <1>1, <1>4, ItemStep
<1>7. \A d \in Commands : CommandSound(d)'
  BY <1>1, <1>3, <1>4, OthersSound
<1>. QED
  BY <1>5, <1>6, <1>7

\* LeakInv is inductive as long as only fresh audits are recreated.
LEMMA LeakStep ==
  ASSUME SchedulingAssumption, OneScheduler, SchedulingTypeOK, LeakInv,
         [SchedulingNext]_schedulingVars,
         [Recreate => NeverScheduled]_schedulingVars
  PROVE  LeakInv'
<1> SUFFICES ASSUME NoCrash'
             PROVE  AllMade' /\ ItemSound' /\ \A d \in Commands : CommandSound(d)'
  BY DEF LeakInv
<1>1. command \in [Commands -> CommandRecord]
  BY DEF SchedulingTypeOK
<1>2. Recreate => NeverScheduled
  BY DEF schedulingVars, Recreate, Record, SchedulingTypeOK, LifecycleTypeOK
<1>3. ASSUME NEW c \in Commands
      PROVE  ~ CommandCrash(c)
  <2>1. "crashed" \in CommandPcs
    BY DEF CommandPcs
  <2>. QED
    BY <1>1, <2>1, CommandGotoFields DEF NoCrash, CommandCrash
<1>4. NoCrash
  <2> SUFFICES ASSUME NEW d \in Commands, command[d].pc = "crashed"
               PROVE  FALSE
    BY DEF NoCrash
  <2>1. command'[d] = command[d]
    <3>1. ASSUME NEW c \in Commands, Steps(c)
          PROVE  command'[d] = command[d]
      BY <3>1, StepsForward, CommandType DEF OthersKeep, Steps
    <3>. QED
      BY <1>3, <3>1 DEF SchedulingNext, Steps, FireExecution, FireFinalization,
        FinishFinalization, ForceRecreate, schedulingVars
  <2>. QED
    BY <2>1 DEF NoCrash
<1>5. AllMade /\ ItemSound /\ \A d \in Commands : CommandSound(d)
  BY <1>4 DEF LeakInv
<1>6. ASSUME NEW c \in Commands, Steps(c)
      PROVE  AllMade' /\ ItemSound' /\ \A d \in Commands : CommandSound(d)'
  BY <1>2, <1>5, <1>6, CreateStep, CommandLeakStep
<1>7. ASSUME \/ \E n \in Schedules : FireExecution(n)
             \/ FireFinalization \/ FinishFinalization \/ ForceRecreate
             \/ UNCHANGED schedulingVars
      PROVE  /\ UNCHANGED <<schedules, cleanup_errors, command>>
             /\ \A n \in Schedules : provider'[n] \in {provider[n], "absent"}
  BY <1>7 DEF FireExecution, FireFinalization, FinishFinalization, ForceRecreate,
    schedulingVars, itemVars, providerVars, SchedulingTypeOK
<1>. QED
  BY <1>2, <1>3, <1>5, <1>6, <1>7, EnvironmentLeakStep DEF SchedulingNext, Steps

\* LeakInv holds at the beginning, and implies the property.
LEMMA LeakInvImplies ==
  ASSUME SchedulingAssumption
  PROVE  /\ SchedulingInit => LeakInv
         /\ SchedulingTypeOK /\ LeakInv => NoSilentLeak
<1>1. SchedulingInit => LeakInv
  <2> SUFFICES ASSUME SchedulingInit
               PROVE  LeakInv
    OBVIOUS
  <2>1. Created = {} /\ NeverScheduled
    BY DEF SchedulingInit, LifecycleInit, Created, NeverScheduled, Schedules
  <2>2. AllMade
    BY DEF SchedulingInit, AllMade
  <2>3. ItemSound
    BY <2>1 DEF SchedulingInit, LifecycleInit, ItemSound
  <2>4. \A c \in Commands : CommandSound(c)
    BY <2>1 DEF SchedulingInit, CommandSound, CreatorSound, CancellerSound,
      ReadLive, CleanUpOver, RollbackPcs
  <2>. QED
    BY <2>2, <2>3, <2>4 DEF LeakInv
<1>2. SchedulingTypeOK /\ LeakInv => NoSilentLeak
  <2> SUFFICES ASSUME SchedulingTypeOK, LeakInv, Quiescent, NoCrash,
                      \/ lifecycle_state = "CANCELLED"
                      \/ lifecycle_state = "FAILED" /\ NeverScheduled,
                      NEW n \in Schedules, provider[n] = "enabled",
                      n \notin cleanup_errors
               PROVE  \E c \in Commands : /\ Creates(c)
                                          /\ command[c].pc = "raised"
                                          /\ command[c].created = n - 1
    BY DEF NoSilentLeak, NoCrash, NeverScheduled
  <2>1. AllMade /\ ItemSound /\ \A c \in Commands : CommandSound(c)
    BY DEF LeakInv
  <2>2. ~ Recorded \/ n \notin Created
    BY DEF Recorded, Leftover
  <2>3. CASE n \notin Created
    <3>1. PICK c \in Commands : /\ Creates(c)
                                /\ command[c].pc \in RollbackPcs
                                /\ command[c].created = n - 1
      BY <2>1, <2>3 DEF AllMade
    <3>2. command[c].pc = "raised"
      BY <3>1 DEF Quiescent, RollbackPcs
    <3>. QED
      BY <3>1, <3>2
  <2>4. CASE n \in Created
    <3>1. PICK c \in Commands : Creates(c) /\ n <= command[c].created
      BY <2>4 DEF Created
    <3>2. CreatorSound(c) /\ command[c].created # 0
      BY <2>1, <3>1, SchedulingAssumption
         DEF CommandSound, Schedules, SchedulingAssumption
    <3>3. command[c].pc \in {"done", "raised"}
      BY <3>2 DEF CreatorSound, Quiescent, NoCrash
    <3>4. CASE command[c].pc = "raised"
      BY <2>2, <2>4, <3>2, <3>4 DEF CreatorSound
    <3>5. CASE command[c].pc = "done"
      <4>1. lifecycle_state = "CANCELLED" /\ ~ NeverScheduled
        BY <3>2, <3>5 DEF CreatorSound
      <4>2. PICK d \in Commands : ~ Creates(d) /\ ReadLive(d)
                                  /\ command[d].pc = "done"
        BY <2>1, <4>1 DEF ItemSound, Quiescent
      <4>3. CancellerSound(d)
        BY <2>1, <4>2 DEF CommandSound
      <4>4. Recorded
        BY <4>2, <4>3 DEF CancellerSound, CleanUpOver, Swept, Recorded
      <4>. QED
        BY <2>2, <2>4, <4>4
    <3>. QED
      BY <3>3, <3>4, <3>5
  <2>. QED
    BY <2>3, <2>4
<1>. QED
  BY <1>1, <1>2

\* With one schedule command, any number of cancellations of both kinds and any
\* number of crashes and failed calls, a schedule that survives a cancelled
\* audit or a failed scheduling is recorded, or a command crashed, or its own
\* creation raised; provided nobody recreates an audit that failed after it had
\* been scheduled.
THEOREM NoLeakIsSilent ==
  ASSUME OneScheduler
  PROVE  SchedulingSpec /\ OnlyFreshRecreated => []NoSilentLeak
<1>1. SchedulingInit => LeakInv
  BY SchedulingAssumption, LeakInvImplies
<1>2. /\ SchedulingTypeOK
      /\ LeakInv
      /\ [SchedulingNext]_schedulingVars
      /\ [Recreate => NeverScheduled]_schedulingVars
      => LeakInv'
  BY SchedulingAssumption, LeakStep
<1>3. SchedulingTypeOK /\ LeakInv => NoSilentLeak
  BY SchedulingAssumption, LeakInvImplies
<1>. QED
  BY <1>1, <1>2, <1>3, SchedulingTypeCorrect, PTL
     DEF SchedulingSpec, OnlyFreshRecreated

-----------------------------------------------------------------------------
(***************************************************************************)
(* Lemmas about numbers, sequences and sets                                *)
(***************************************************************************)

(***************************************************************************)
(* A bounded set of numbers can be put in ascending order: the place of a  *)
(* number is the number of members that do not exceed it.                  *)
(***************************************************************************)
LEMMA AscendingProperties ==
  ASSUME NEW n \in Nat, NEW S \in SUBSET (1 .. n)
  PROVE  /\ Cardinality(S) \in Nat
         /\ Ascending(S) \in [1 .. Cardinality(S) -> S]
         /\ \A j, k \in 1 .. Cardinality(S) : j < k => Ascending(S)[j] < Ascending(S)[k]
<1> DEFINE c == Cardinality(S)
           UpTo(x) == {y \in S : y <= x}
           rank == [x \in S |-> Cardinality(UpTo(x))]
<1>1. IsFiniteSet(S) /\ c \in Nat
  <2>1. IsFiniteSet(1 .. n)
    BY FS_Interval
  <2> QED  BY <2>1, FS_Subset, FS_CardinalityType
<1>0. S \subseteq Int
  OBVIOUS
<1>2. \A x \in S : /\ IsFiniteSet(UpTo(x)) /\ Cardinality(UpTo(x)) \in 1 .. c
  <2> TAKE x \in S
  <2>1. UpTo(x) \in SUBSET S /\ UpTo(x) # {}
    OBVIOUS
  <2>2. IsFiniteSet(UpTo(x)) /\ Cardinality(UpTo(x)) <= c
    BY <1>1, <2>1, FS_Subset
  <2>3. Cardinality(UpTo(x)) \in Nat /\ Cardinality(UpTo(x)) # 0
    BY <2>1, <2>2, FS_CardinalityType, FS_EmptySet
  <2> QED  BY <1>1, <2>2, <2>3
<1>3. \A x, y \in S : x < y => rank[x] < rank[y]
  <2> SUFFICES ASSUME NEW x \in S, NEW y \in S, x < y  PROVE rank[x] < rank[y]
    OBVIOUS
  <2>a. \A z \in S : z <= x => z <= y
    BY <1>0
  <2>b. y <= y /\ ~(y <= x)
    BY <1>0
  <2>1. UpTo(x) \in SUBSET UpTo(y) /\ y \in UpTo(y) /\ y \notin UpTo(x)
    BY <2>a, <2>b
  <2>2. Cardinality(UpTo(x)) <= Cardinality(UpTo(y)) /\ Cardinality(UpTo(x)) # Cardinality(UpTo(y))
    BY <1>2, <2>1, FS_Subset
  <2>3. rank[x] = Cardinality(UpTo(x)) /\ rank[y] = Cardinality(UpTo(y))
    OBVIOUS
  <2> HIDE DEF UpTo, rank
  <2> QED  BY <1>1, <1>2, <2>2, <2>3
<1>4. rank \in [S -> 1 .. c]
  BY <1>2
<1>a. \A x, y \in S : x = y \/ x < y \/ y < x
  OBVIOUS
<1> HIDE DEF rank, UpTo
<1>5. rank \in Surjection(S, 1 .. c)
  <2>1. \A x, y \in S : rank[x] = rank[y] => x = y
    BY <1>1, <1>3, <1>4, <1>a
  <2>2. rank \in Injection(S, 1 .. c)
    BY <1>4, <2>1 DEF Injection, IsInjective
  <2>3. IsFiniteSet(1 .. c) /\ Cardinality(1 .. c) = c
    BY <1>1, FS_Interval
  <2> QED  BY <2>2, <2>3, FS_Injection
<1> DEFINE s == [k \in 1 .. c |-> CHOOSE x \in S : rank[x] = k]
<1>6. \A k \in 1 .. c : s[k] \in S /\ rank[s[k]] = k
  BY <1>5 DEF Surjection
<1>7. s \in [1 .. c -> S]
  BY <1>6
<1>8. \A j, k \in DOMAIN s : j < k => s[j] < s[k]
  <2> SUFFICES ASSUME NEW j \in 1 .. c, NEW k \in 1 .. c, j < k  PROVE s[j] < s[k]
    OBVIOUS
  <2>1. rank[s[j]] = j /\ rank[s[k]] = k /\ s[j] \in S /\ s[k] \in S
    BY <1>6
  <2> HIDE DEF s
  <2>2. \A x, y \in S : rank[x] < rank[y] => x < y
    BY <1>1, <1>3, <1>4, <1>a
  <2>3. rank[s[j]] < rank[s[k]]
    BY <2>1
  <2> QED  BY <2>1, <2>2, <2>3
<1> HIDE DEF s
<1>9. /\ Ascending(S) \in [1 .. c -> S]
      /\ \A j, k \in DOMAIN Ascending(S) : j < k => Ascending(S)[j] < Ascending(S)[k]
  BY <1>7, <1>8 DEF Ascending
<1> QED  BY <1>1, <1>9

(***************************************************************************)
(* A sequence without repetitions has as many members as it is long.       *)
(***************************************************************************)
LEMMA CardinalityOfImage ==
  ASSUME NEW n \in Nat, NEW f, DOMAIN f = 1 .. n,
         \A j, k \in 1 .. n : f[j] = f[k] => j = k
  PROVE  Cardinality({f[k] : k \in 1 .. n}) = n
<1> DEFINE T == {f[k] : k \in 1 .. n}
           g == [k \in 1 .. n |-> f[k]]
<1>1. g \in Bijection(1 .. n, T)
  BY DEF Bijection, Injection, Surjection, IsInjective
<1>2. ExistsBijection(1 .. n, T)
  BY <1>1 DEF ExistsBijection
<1> QED  BY <1>2, FS_Bijection, FS_Interval

(***************************************************************************)
(* Four sequences after one another.                                       *)
(***************************************************************************)
LEMMA FourInARow ==
  ASSUME NEW S, NEW a \in Seq(S), NEW b \in Seq(S), NEW c \in Seq(S), NEW d \in Seq(S)
  PROVE  LET p == a \o b \o c \o d
         IN  /\ p \in Seq(S)
             /\ Len(p) = Len(a) + Len(b) + Len(c) + Len(d)
             /\ \A k \in 1 .. Len(p) :
                  \/ k \in 1 .. Len(a) /\ p[k] = a[k]
                  \/ k - Len(a) \in 1 .. Len(b) /\ p[k] = b[k - Len(a)]
                  \/ /\ k - Len(a) - Len(b) \in 1 .. Len(c)
                     /\ p[k] = c[k - Len(a) - Len(b)]
                  \/ /\ k - Len(a) - Len(b) - Len(c) \in 1 .. Len(d)
                     /\ p[k] = d[k - Len(a) - Len(b) - Len(c)]
<1>0. Len(a) \in Nat /\ Len(b) \in Nat /\ Len(c) \in Nat /\ Len(d) \in Nat
  BY LenProperties
<1> DEFINE x == a \o b
           y == x \o c
           p == y \o d
<1>1. /\ x \in Seq(S) /\ Len(x) = Len(a) + Len(b)
      /\ \A k \in 1 .. Len(a) + Len(b) :
           x[k] = IF k <= Len(a) THEN a[k] ELSE b[k - Len(a)]
  BY ConcatProperties
<1> HIDE DEF x
<1>a. x \in Seq(S)
  BY <1>1
<1>2. /\ y \in Seq(S) /\ Len(y) = Len(x) + Len(c)
      /\ \A k \in 1 .. Len(x) + Len(c) :
           y[k] = IF k <= Len(x) THEN x[k] ELSE c[k - Len(x)]
  BY <1>a, ConcatProperties
<1>b. y \in Seq(S)
  BY <1>2
<1> HIDE DEF y
<1>3. /\ p \in Seq(S) /\ Len(p) = Len(y) + Len(d)
      /\ \A k \in 1 .. Len(y) + Len(d) :
           p[k] = IF k <= Len(y) THEN y[k] ELSE d[k - Len(y)]
  BY <1>b, ConcatProperties
<1> HIDE DEF p
<1>4. ASSUME NEW k \in 1 .. Len(p)
      PROVE  \/ k \in 1 .. Len(a) /\ p[k] = a[k]
             \/ k - Len(a) \in 1 .. Len(b) /\ p[k] = b[k - Len(a)]
             \/ /\ k - Len(a) - Len(b) \in 1 .. Len(c)
                /\ p[k] = c[k - Len(a) - Len(b)]
             \/ /\ k - Len(a) - Len(b) - Len(c) \in 1 .. Len(d)
                /\ p[k] = d[k - Len(a) - Len(b) - Len(c)]
  <2>1. CASE k <= Len(a)
    BY <1>0, <1>1, <1>2, <1>3, <1>4, <2>1
  <2>2. CASE k > Len(a) /\ k <= Len(x)
    BY <1>0, <1>1, <1>2, <1>3, <1>4, <2>2
  <2>3. CASE k > Len(x) /\ k <= Len(y)
    BY <1>0, <1>1, <1>2, <1>3, <1>4, <2>3
  <2>4. CASE k > Len(y)
    BY <1>0, <1>1, <1>2, <1>3, <1>4, <2>4
  <2> QED  BY <1>0, <1>1, <1>2, <1>3, <1>4, <2>1, <2>2, <2>3, <2>4
<1>5. Len(p) = Len(a) + Len(b) + Len(c) + Len(d)
  BY <1>0, <1>1, <1>2, <1>3
<1> QED  BY <1>3, <1>4, <1>5 DEF p, y, x

(***************************************************************************)
(* start, start + interval, ... up to the end: all of them before the end, *)
(* and no two the same.                                                    *)
(***************************************************************************)
LEMMA BaselineTimes ==
  ASSUME NEW start \in Nat, NEW end \in Nat, end > start, NEW interval \in Nat \ {0}
  PROVE  LET n == (end - start + interval - 1) \div interval
         IN  /\ n \in Nat
             /\ \A k \in 1 .. n : /\ start + (k - 1) * interval \in Nat
                                  /\ start <= start + (k - 1) * interval
                                  /\ start + (k - 1) * interval < end
             /\ \A j, k \in 1 .. n :
                  start + (j - 1) * interval = start + (k - 1) * interval => j = k
<1> DEFINE w == end - start + interval - 1
           n == w \div interval
<1>1. w \in Nat
  OBVIOUS
<1> HIDE DEF w
<1>2. n \in Nat /\ n * interval <= w
  BY <1>1
<1> HIDE DEF n
<1>3. ASSUME NEW k \in 1 .. n
      PROVE  (k - 1) * interval \in Nat /\ (k - 1) * interval < end - start
  <2>1. k - 1 \in Nat /\ k - 1 <= n - 1 /\ n - 1 \in Nat
    BY <1>2
  <2>2. (k - 1) * interval \in Nat /\ (k - 1) * interval <= (n - 1) * interval
    BY <2>1
  <2>3. (n - 1) * interval = n * interval - interval
    BY <1>2
  <2> QED  BY <1>2, <2>2, <2>3 DEF w
<1>4. ASSUME NEW j \in 1 .. n, NEW k \in 1 .. n, j < k
      PROVE  (j - 1) * interval < (k - 1) * interval
  <2>1. j - 1 \in Nat /\ k - 1 \in Nat /\ j - 1 < k - 1
    BY <1>2, <1>4
  <2> QED  BY <2>1
<1>5. \A k \in 1 .. n : /\ start + (k - 1) * interval \in Nat
                        /\ start <= start + (k - 1) * interval
                        /\ start + (k - 1) * interval < end
  <2> TAKE k \in 1 .. n
  <2> DEFINE m == (k - 1) * interval
  <2>1. m \in Nat /\ m < end - start
    BY <1>3
  <2> HIDE DEF m
  <2>2. start + m \in Nat /\ start <= start + m /\ start + m < end
    BY <2>1
  <2> QED  BY <2>2 DEF m
<1>6. \A j, k \in 1 .. n :
        start + (j - 1) * interval = start + (k - 1) * interval => j = k
  <2> SUFFICES ASSUME NEW j \in 1 .. n, NEW k \in 1 .. n,
                      start + (j - 1) * interval = start + (k - 1) * interval, j # k
               PROVE  FALSE
    OBVIOUS
  <2> DEFINE x == (j - 1) * interval
             y == (k - 1) * interval
  <2>1. x \in Nat /\ y \in Nat /\ (x < y \/ y < x)
    BY <1>2, <1>3, <1>4
  <2> HIDE DEF x, y
  <2>2. start + x # start + y
    BY <2>1
  <2> QED  BY <2>2 DEF x, y
<1> QED  BY <1>2, <1>5, <1>6 DEF n, w

-----------------------------------------------------------------------------
(***************************************************************************)
(* What is known of a configuration that gets as far as create_schedule    *)
(***************************************************************************)

BurstWindow == [start_time : Nat, duration : Int, requests : Int,
                concurrency : Int, scenario_type : Scenarios]

Repeated == [enabled : BOOLEAN, schedule_time : Nat \cup {None},
             iterations : Int, scenario_type : Scenarios]

LEMMA InputType ==
  ASSUME NEW i \in Inputs
  PROVE  /\ i.config \in AuditConfig /\ i.created_at \in Nat /\ i.delay \in Nat
         /\ i.kind \in {"schedule", "schedule_audit"}
         /\ Accepted(i)
<1>1. PICK config \in AuditConfigs, t \in CreatedAt, n \in Delays,
           k \in {"schedule", "schedule_audit"} :
             i = [config |-> config, created_at |-> t, delay |-> n, kind |-> k]
  BY DEF Inputs
<1>2. Accepted(i)
  BY DEF Inputs
<1> QED  BY <1>1, <1>2, PlanAssumption

LEMMA ConfigType ==
  ASSUME NEW config \in AuditConfig
  PROVE  /\ config.start_time \in Nat \cup {None} /\ config.end_time \in Nat \cup {None}
         /\ config.token \in Nat \cup {None}
         /\ config.duration \in Int /\ config.offset \in Int /\ config.prefix_length \in Nat
         /\ config.baseline.interval \in Int
         /\ config.burst.windows \in Seq(BurstWindow)
         /\ config.repeated \in Seq(Repeated)
BY DEF AuditConfig, BurstWindow, Repeated

LEMMA WindowType ==
  ASSUME NEW i \in Inputs
  PROVE  /\ Now(i) \in Nat
         /\ PlanWindow(i).start_time \in Nat /\ PlanWindow(i).end_time \in Nat
         /\ PlanWindow(i).start_time < PlanWindow(i).end_time
         /\ i.config.duration > 0
         /\ i.config.duration \in Int
<1>1. i.created_at \in Nat /\ i.delay \in Nat /\ Accepted(i)
  BY InputType
<1>2. /\ i.config.start_time \in Nat \cup {None} /\ i.config.end_time \in Nat \cup {None}
      /\ i.config.duration \in Int
  BY InputType, ConfigType
<1>3. validate_audit_window(i.config, PlanWindow(i))
  BY <1>1 DEF Accepted
<1>4. i.config.duration > 0 /\ PlanWindow(i).end_time > PlanWindow(i).start_time
  BY <1>3 DEF validate_audit_window
<1>5. Now(i) \in Nat
  BY <1>1 DEF Now
<1>6. /\ PlanWindow(i).start_time =
           IF i.config.start_time = None THEN Now(i) ELSE i.config.start_time
      /\ PlanWindow(i).end_time =
           IF i.config.end_time = None THEN PlanWindow(i).start_time + i.config.duration
           ELSE i.config.end_time
  BY DEF PlanWindow, audit_window
<1>7. PlanWindow(i).start_time \in Nat
  BY <1>2, <1>5, <1>6
<1>8. PlanWindow(i).end_time \in Nat
  BY <1>2, <1>4, <1>6, <1>7
<1> QED  BY <1>2, <1>4, <1>5, <1>7, <1>8

-----------------------------------------------------------------------------
(***************************************************************************)
(* The definitions of a plan                                               *)
(***************************************************************************)

Baselines(config, window) ==
  IF config.baseline.enabled THEN build_baseline(config, window) ELSE <<>>

Bursts(config, window) ==
  IF config.burst.enabled
  THEN [k \in DOMAIN config.burst.windows |->
          build_burst(config, window, config.burst.windows[k], k)]
  ELSE <<>>

EnabledRepeats(config) ==
  Ascending({k \in DOMAIN config.repeated : config.repeated[k].enabled})

Repeats(config, window) ==
  [k \in DOMAIN EnabledRepeats(config) |->
     build_repeated(config, window, config.repeated[EnabledRepeats(config)[k]],
                    EnabledRepeats(config)[k])]

Finalizations(config, window) ==
  IF config.finalization THEN <<build_finalization(config, window)>> ELSE <<>>

\* Number k of the definitions is of each kind, with what comes of it.
IsBaseline(i, k, d) ==
  /\ i.config.baseline.enabled
  /\ k \in DOMAIN baseline_occurrence_times(PlanWindow(i), i.config.baseline.interval)
  /\ d = build_baseline(i.config, PlanWindow(i))[k]

IsBurst(i, k, d) ==
  /\ i.config.burst.enabled
  /\ k \in DOMAIN i.config.burst.windows
  /\ d = build_burst(i.config, PlanWindow(i), i.config.burst.windows[k], k)

IsRepeated(i, k, d) ==
  /\ k \in DOMAIN i.config.repeated
  /\ d = build_repeated(i.config, PlanWindow(i), i.config.repeated[k], k)

IsFinalization(i, d) ==
  i.config.finalization /\ d = build_finalization(i.config, PlanWindow(i))

(***************************************************************************)
(* The plan is four sequences after one another.                           *)
(***************************************************************************)
LEMMA EnabledRepeatsType ==
  ASSUME NEW i \in Inputs
  PROVE  /\ \E n \in Nat : DOMAIN EnabledRepeats(i.config) = 1 .. n
         /\ \A k \in DOMAIN EnabledRepeats(i.config) :
              EnabledRepeats(i.config)[k] \in DOMAIN i.config.repeated
         /\ \A j, k \in DOMAIN EnabledRepeats(i.config) :
              EnabledRepeats(i.config)[j] = EnabledRepeats(i.config)[k] => j = k
<1> DEFINE S == {k \in DOMAIN i.config.repeated : i.config.repeated[k].enabled}
           s == Ascending(S)
<1>1. /\ Len(i.config.repeated) \in Nat
      /\ DOMAIN i.config.repeated = 1 .. Len(i.config.repeated)
  BY InputType, ConfigType, LenProperties
<1>2. S \in SUBSET (1 .. Len(i.config.repeated)) /\ S \subseteq DOMAIN i.config.repeated
  BY <1>1
<1> HIDE DEF S
<1>3. /\ Cardinality(S) \in Nat
      /\ s \in [1 .. Cardinality(S) -> S]
      /\ \A j, k \in 1 .. Cardinality(S) : j < k => s[j] < s[k]
  BY <1>1, <1>2, AscendingProperties
<1> HIDE DEF s
<1>4. S \subseteq Int
  BY <1>1, <1>2
<1>5. ASSUME NEW j \in DOMAIN s, NEW k \in DOMAIN s, s[j] = s[k]
      PROVE  j = k
  <2>1. j \in 1 .. Cardinality(S) /\ k \in 1 .. Cardinality(S)
    BY <1>3
  <2>a. s[j] \in Int
    BY <1>3, <1>4, <2>1
  <2>2. ~ (s[j] < s[k]) /\ ~ (s[k] < s[j])
    BY <1>5, <2>a
  <2> QED  BY <1>3, <2>1, <2>2
<1>6. \A k \in DOMAIN s : s[k] \in DOMAIN i.config.repeated
  BY <1>2, <1>3
<1>7. DOMAIN s = 1 .. Cardinality(S)
  BY <1>3
<1> QED  BY <1>3, <1>5, <1>6, <1>7 DEF EnabledRepeats, s, S

LEMMA FunctionIsSequence ==
  ASSUME NEW S, NEW n \in Nat, NEW f \in [1 .. n -> S]
  PROVE  f \in Seq(S) /\ Len(f) = n
OBVIOUS

LEMMA BaselinesType ==
  ASSUME NEW i \in Inputs
  PROVE  \E n \in Nat :
           /\ DOMAIN Baselines(i.config, PlanWindow(i)) = 1 .. n
           /\ \A k \in 1 .. n : IsBaseline(i, k, Baselines(i.config, PlanWindow(i))[k])
           /\ Baselines(i.config, PlanWindow(i))
                = [k \in 1 .. n |-> Baselines(i.config, PlanWindow(i))[k]]
<1> DEFINE c == i.config
           w == PlanWindow(i)
           n == (w.end_time - w.start_time + c.baseline.interval - 1) \div c.baseline.interval
<1>1. CASE ~ c.baseline.enabled
  <2>1. Baselines(c, w) = <<>>
    BY <1>1 DEF Baselines
  <2> HIDE DEF n, c, w
  <2>2. DOMAIN <<>> = 1 .. 0 /\ <<>> = [k \in 1 .. 0 |-> <<>>[k]] /\ 1 .. 0 = {}
    OBVIOUS
  <2> QED  BY <2>1, <2>2 DEF c, w
<1>2. CASE c.baseline.enabled
  <2>1. c.baseline.interval \in Nat \ {0}
    <3>1. Accepted(i) /\ c.baseline.interval \in Int
      BY InputType, ConfigType
    <3>2. BaselineAccepted(c, w)
      BY <1>2, <3>1 DEF Accepted
    <3> QED  BY <3>1, <3>2 DEF BaselineAccepted
  <2>2. n \in Nat
    BY <2>1, WindowType, BaselineTimes
  <2> DEFINE times == baseline_occurrence_times(w, c.baseline.interval)
  <2>3. DOMAIN times = 1 .. n
    BY DEF baseline_occurrence_times
  <2> HIDE DEF n, times
  <2>4. Baselines(c, w) = build_baseline(c, w)
    BY <1>2 DEF Baselines
  <2>5. build_baseline(c, w) =
          [k \in DOMAIN times |->
             definition(baseline_name(c, times[k]), "baseline",
                        c.baseline.scenario_type, times[k], None, times[k])]
    BY DEF build_baseline, times
  <2> DEFINE b == build_baseline(c, w)
  <2>6. DOMAIN b = 1 .. n /\ b = [k \in 1 .. n |-> b[k]]
    BY <2>3, <2>5
  <2>7. \A k \in 1 .. n : IsBaseline(i, k, b[k])
    BY <1>2, <2>3 DEF IsBaseline, times
  <2> HIDE DEF b
  <2> QED  BY <2>2, <2>4, <2>6, <2>7 DEF b
<1> QED  BY <1>1, <1>2

LEMMA BurstsType ==
  ASSUME NEW i \in Inputs
  PROVE  \E n \in Nat :
           /\ DOMAIN Bursts(i.config, PlanWindow(i)) = 1 .. n
           /\ \A k \in 1 .. n : IsBurst(i, k, Bursts(i.config, PlanWindow(i))[k])
           /\ Bursts(i.config, PlanWindow(i))
                = [k \in 1 .. n |-> Bursts(i.config, PlanWindow(i))[k]]
<1>1. CASE ~ i.config.burst.enabled
  BY <1>1 DEF Bursts
<1>2. CASE i.config.burst.enabled
  <2> DEFINE n == Len(i.config.burst.windows)
  <2>1. n \in Nat /\ DOMAIN i.config.burst.windows = 1 .. n
    BY InputType, ConfigType, LenProperties
  <2> HIDE DEF n
  <2>2. Bursts(i.config, PlanWindow(i)) =
          [k \in 1 .. n |->
             build_burst(i.config, PlanWindow(i), i.config.burst.windows[k], k)]
    BY <1>2, <2>1 DEF Bursts
  <2>3. \A k \in 1 .. n : IsBurst(i, k, Bursts(i.config, PlanWindow(i))[k])
    BY <1>2, <2>1, <2>2 DEF IsBurst
  <2> QED  BY <2>1, <2>2, <2>3
<1> QED  BY <1>1, <1>2

LEMMA RepeatsType ==
  ASSUME NEW i \in Inputs
  PROVE  \E n \in Nat :
           /\ DOMAIN Repeats(i.config, PlanWindow(i)) = 1 .. n
           /\ DOMAIN EnabledRepeats(i.config) = 1 .. n
           /\ \A k \in 1 .. n :
                IsRepeated(i, EnabledRepeats(i.config)[k],
                           Repeats(i.config, PlanWindow(i))[k])
           /\ Repeats(i.config, PlanWindow(i))
                = [k \in 1 .. n |-> Repeats(i.config, PlanWindow(i))[k]]
<1>1. PICK n \in Nat : DOMAIN EnabledRepeats(i.config) = 1 .. n
  BY EnabledRepeatsType
<1>2. \A k \in 1 .. n : EnabledRepeats(i.config)[k] \in DOMAIN i.config.repeated
  BY <1>1, EnabledRepeatsType
<1>3. Repeats(i.config, PlanWindow(i)) =
        [k \in 1 .. n |->
           build_repeated(i.config, PlanWindow(i),
                          i.config.repeated[EnabledRepeats(i.config)[k]],
                          EnabledRepeats(i.config)[k])]
  BY <1>1 DEF Repeats
<1>4. \A k \in 1 .. n :
        IsRepeated(i, EnabledRepeats(i.config)[k], Repeats(i.config, PlanWindow(i))[k])
  BY <1>2, <1>3 DEF IsRepeated
<1> QED  BY <1>1, <1>3, <1>4

LEMMA FinalizationsType ==
  ASSUME NEW i \in Inputs
  PROVE  \E n \in {0, 1} :
           /\ DOMAIN Finalizations(i.config, PlanWindow(i)) = 1 .. n
           /\ \A k \in 1 .. n : IsFinalization(i, Finalizations(i.config, PlanWindow(i))[k])
           /\ Finalizations(i.config, PlanWindow(i))
                = [k \in 1 .. n |-> Finalizations(i.config, PlanWindow(i))[k]]
<1>1. CASE ~ i.config.finalization
  BY <1>1 DEF Finalizations
<1>2. CASE i.config.finalization
  <2> DEFINE x == build_finalization(i.config, PlanWindow(i))
  <2>1. Finalizations(i.config, PlanWindow(i)) = <<x>>
    BY <1>2 DEF Finalizations
  <2>2. IsFinalization(i, x)
    BY <1>2 DEF IsFinalization
  <2> HIDE DEF x
  <2> QED  BY <2>1, <2>2
<1> QED  BY <1>1, <1>2

(***************************************************************************)
(* Number k of a plan is a baseline occurrence, a burst, a repeated        *)
(* schedule or the finalization, and its number among those of its kind    *)
(* follows from k.                                                         *)
(***************************************************************************)
LEMMA PlanShape ==
  ASSUME NEW i \in Inputs
  PROVE  /\ Len(plan(i)) \in Nat
         /\ DOMAIN plan(i) = 1 .. Len(plan(i))
         /\ \E a, b, c \in Nat :
              \A k \in DOMAIN plan(i) :
                \/ IsBaseline(i, k, plan(i)[k])
                \/ k - a \in Nat /\ IsBurst(i, k - a, plan(i)[k])
                \/ /\ k - b \in DOMAIN EnabledRepeats(i.config)
                   /\ IsRepeated(i, EnabledRepeats(i.config)[k - b], plan(i)[k])
                \/ k = c + 1 /\ IsFinalization(i, plan(i)[k])
<1> DEFINE A == Baselines(i.config, PlanWindow(i))
           B == Bursts(i.config, PlanWindow(i))
           C == Repeats(i.config, PlanWindow(i))
           D == Finalizations(i.config, PlanWindow(i))
           e == EnabledRepeats(i.config)
<1>1. PICK a \in Nat : /\ DOMAIN A = 1 .. a /\ A = [k \in 1 .. a |-> A[k]]
                       /\ \A k \in 1 .. a : IsBaseline(i, k, A[k])
  BY BaselinesType
<1>2. PICK b \in Nat : /\ DOMAIN B = 1 .. b /\ B = [k \in 1 .. b |-> B[k]]
                       /\ \A k \in 1 .. b : IsBurst(i, k, B[k])
  BY BurstsType
<1>3. PICK c \in Nat : /\ DOMAIN C = 1 .. c /\ C = [k \in 1 .. c |-> C[k]]
                       /\ DOMAIN e = 1 .. c
                       /\ \A k \in 1 .. c : IsRepeated(i, e[k], C[k])
  BY RepeatsType
<1>4. PICK d \in {0, 1} : /\ DOMAIN D = 1 .. d /\ D = [k \in 1 .. d |-> D[k]]
                          /\ \A k \in 1 .. d : IsFinalization(i, D[k])
  BY FinalizationsType
<1>5. plan(i) = A \o B \o C \o D
  BY DEF plan, build_all, Baselines, Bursts, Repeats, Finalizations, EnabledRepeats
<1> HIDE DEF A, B, C, D, e
<1> DEFINE S == {A[k] : k \in 1 .. a} \cup {B[k] : k \in 1 .. b}
                  \cup {C[k] : k \in 1 .. c} \cup {D[k] : k \in 1 .. d}
<1>6. A \in [1 .. a -> S] /\ B \in [1 .. b -> S] /\ C \in [1 .. c -> S] /\ D \in [1 .. d -> S]
  BY <1>1, <1>2, <1>3, <1>4
<1> HIDE DEF S
<1>7. /\ A \in Seq(S) /\ Len(A) = a /\ B \in Seq(S) /\ Len(B) = b
      /\ C \in Seq(S) /\ Len(C) = c /\ D \in Seq(S) /\ Len(D) = d
  BY <1>6, <1>4, FunctionIsSequence
<1> DEFINE p == A \o B \o C \o D
<1>8. /\ p \in Seq(S)
      /\ \A k \in 1 .. Len(p) :
           \/ k \in 1 .. a /\ p[k] = A[k]
           \/ k - a \in 1 .. b /\ p[k] = B[k - a]
           \/ k - a - b \in 1 .. c /\ p[k] = C[k - a - b]
           \/ k - a - b - c \in 1 .. d /\ p[k] = D[k - a - b - c]
  <2>1. /\ p \in Seq(S)
        /\ \A k \in 1 .. Len(p) :
             \/ k \in 1 .. Len(A) /\ p[k] = A[k]
             \/ k - Len(A) \in 1 .. Len(B) /\ p[k] = B[k - Len(A)]
             \/ /\ k - Len(A) - Len(B) \in 1 .. Len(C)
                /\ p[k] = C[k - Len(A) - Len(B)]
             \/ /\ k - Len(A) - Len(B) - Len(C) \in 1 .. Len(D)
                /\ p[k] = D[k - Len(A) - Len(B) - Len(C)]
    <3>1. A \in Seq(S) /\ B \in Seq(S) /\ C \in Seq(S) /\ D \in Seq(S)
      BY <1>7
    <3> QED  BY <3>1, FourInARow
  <2> HIDE DEF p
  <2> QED  BY <1>7, <2>1
<1>9. Len(p) \in Nat /\ DOMAIN p = 1 .. Len(p)
  BY <1>8, LenProperties
<1> HIDE DEF p
<1>10. ASSUME NEW k \in 1 .. Len(p)
       PROVE  \/ IsBaseline(i, k, p[k])
              \/ k - a \in Nat /\ IsBurst(i, k - a, p[k])
              \/ k - (a + b) \in DOMAIN e /\ IsRepeated(i, e[k - (a + b)], p[k])
              \/ k = a + b + c + 1 /\ IsFinalization(i, p[k])
  <2>1. CASE k \in 1 .. a /\ p[k] = A[k]
    BY <1>1, <2>1
  <2>2. CASE k - a \in 1 .. b /\ p[k] = B[k - a]
    BY <1>2, <2>2
  <2>3. CASE k - a - b \in 1 .. c /\ p[k] = C[k - a - b]
    <3>1. k - (a + b) = k - a - b
      BY <1>9
    <3> QED  BY <1>3, <2>3, <3>1
  <2>4. CASE k - a - b - c \in 1 .. d /\ p[k] = D[k - a - b - c]
    <3>1. k = a + b + c + 1
      BY <1>4, <1>9, <2>4
    <3> QED  BY <1>4, <2>4, <3>1
  <2> QED  BY <1>8, <2>1, <2>2, <2>3, <2>4
<1>11. plan(i) = p
  BY <1>5 DEF p
<1>12. a + b \in Nat /\ a + b + c \in Nat
  OBVIOUS
<1> QED  BY <1>9, <1>10, <1>11, <1>12 DEF e

-----------------------------------------------------------------------------
(***************************************************************************)
(* What a definition of each kind says                                     *)
(***************************************************************************)

LEMMA PayloadFields ==
  ASSUME NEW type, NEW scenario, NEW at, NEW index
  PROVE  /\ execution_payload(type, scenario, at, None) = <<type, scenario, at>>
         /\ index # None =>
              execution_payload(type, scenario, at, index) = <<type, scenario, at, index>>
<1> DEFINE S == {type, scenario, at, index}
<1>1. <<type, scenario, at>> \in Seq(S) /\ <<index>> \in Seq(S)
  OBVIOUS
<1>2. <<type, scenario, at>> \o <<>> = <<type, scenario, at>>
  BY <1>1, ConcatEmptySeq
<1>3. <<type, scenario, at>> \o <<index>> = <<type, scenario, at, index>>
  <2> DEFINE s == <<type, scenario, at>>
             t == <<index>>
             u == <<type, scenario, at, index>>
  <2>1. /\ Len(s) = 3 /\ Len(t) = 1 /\ u \in Seq(S) /\ Len(u) = 4
        /\ \A j \in 1 .. 4 : u[j] = IF j <= 3 THEN s[j] ELSE t[j - 3]
    OBVIOUS
  <2>2. s \in Seq(S) /\ t \in Seq(S)
    BY <1>1
  <2> HIDE DEF s, t, u, S
  <2>3. /\ s \o t \in Seq(S) /\ Len(s \o t) = Len(s) + Len(t)
        /\ \A j \in 1 .. Len(s) + Len(t) :
             (s \o t)[j] = IF j <= Len(s) THEN s[j] ELSE t[j - Len(s)]
    BY <2>2, ConcatProperties
  <2>4. s \o t = u
    BY <2>1, <2>3, SeqEqual
  <2> QED  BY <2>4 DEF s, t, u
<1> QED  BY <1>2, <1>3 DEF execution_payload

LEMMA NameFields ==
  ASSUME NEW config, NEW token, NEW type, NEW scenario, NEW stable_config
  PROVE  LET name == schedule_name(config, token, type, scenario, stable_config)
         IN  /\ name.full_name = <<token, type, scenario>>
             /\ name.suffix \in {<<>>, stable_config}
BY DEF schedule_name

\* Whether a baseline name needs a hash does not depend on the occurrence.
LEMMA BaselineNames ==
  ASSUME NEW config, NEW x
  PROVE  /\ baseline_name(config, x).full_name[2] = "baseline"
         /\ \A y : baseline_name(config, x) = baseline_name(config, y) => x = y
<1> DEFINE scenario == config.baseline.scenario_type
           plain(y) == schedule_name(config, None, "baseline", scenario, <<y>>)
           long(y) == schedule_name(config, y, "baseline", scenario, <<y>>)
           hashed == ~ (config.prefix_length + (IF None = None THEN 0 ELSE 17)
                          + 1 + NameLengths["baseline"]
                          + (IF "baseline" = "finalization" THEN 0
                             ELSE 1 + NameLengths[scenario])
                        <= AWS_SCHEDULER_NAME_MAX_LENGTH)
<1>1. \A y : /\ plain(y).full_name = <<None, "baseline", scenario>>
             /\ plain(y).suffix = IF hashed THEN <<y>> ELSE <<>>
  <2> TAKE y
  <2>1. plain(y) = [full_name |-> <<None, "baseline", scenario>>,
                    suffix |-> IF ~ hashed THEN <<>> ELSE <<y>>]
    BY Zenon DEF schedule_name
  <2> HIDE DEF plain, hashed
  <2> QED  BY <2>1
<1>2. \A y : long(y).full_name = <<y, "baseline", scenario>>
  BY NameFields
<1>3. \A y : baseline_name(config, y) = IF hashed THEN plain(y) ELSE long(y)
  <2> TAKE y
  <2>1. plain(y).suffix = IF hashed THEN <<y>> ELSE <<>>
    BY <1>1
  <2>2. baseline_name(config, y) = IF plain(y).suffix # <<>> THEN plain(y) ELSE long(y)
    BY DEF baseline_name
  <2> HIDE DEF plain, long, hashed
  <2> QED  BY <2>1, <2>2
<1> HIDE DEF plain, long, hashed, scenario
<1>4. baseline_name(config, x).full_name[2] = "baseline"
  BY <1>1, <1>2, <1>3
<1>5. ASSUME NEW y, baseline_name(config, x) = baseline_name(config, y)
      PROVE  x = y
  <2>1. CASE hashed
    <3>1. plain(x).suffix = plain(y).suffix
      BY <1>3, <1>5, <2>1
    <3>2. <<x>> = <<y>>
      BY <1>1, <2>1, <3>1
    <3> QED  BY <3>2
  <2>2. CASE ~ hashed
    <3>1. long(x).full_name = long(y).full_name
      BY <1>3, <1>5, <2>2
    <3>2. <<x, "baseline", scenario>> = <<y, "baseline", scenario>>
      BY <1>2, <3>1
    <3> QED  BY <3>2
  <2> QED  BY <2>1, <2>2
<1> QED  BY <1>4, <1>5

LEMMA BaselineFields ==
  ASSUME NEW i \in Inputs, NEW k, NEW d, IsBaseline(i, k, d)
  PROVE  /\ k \in Nat
         /\ d.schedule_type = "baseline" /\ d.over = d.at
         /\ d.requests = 0 /\ d.concurrency = 0 /\ d.iterations = 0
         /\ d.occurrence = <<"baseline", i.config.baseline.scenario_type, d.at>>
         /\ d.name = baseline_name(i.config, d.at)
         /\ d.at \in Nat /\ PlanWindow(i).start_time <= d.at /\ d.at < PlanWindow(i).end_time
         /\ \A l, f : IsBaseline(i, l, f) /\ f.at = d.at => l = k
<1> DEFINE c == i.config
           w == PlanWindow(i)
           step == c.baseline.interval
           n == (w.end_time - w.start_time + step - 1) \div step
           at(l) == w.start_time + (l - 1) * step
           times == baseline_occurrence_times(w, step)
<1>1. step \in Nat \ {0}
  <2>1. Accepted(i) /\ step \in Int /\ c.baseline.enabled
    BY InputType, ConfigType DEF IsBaseline
  <2>2. BaselineAccepted(c, w)
    BY <2>1 DEF Accepted
  <2> QED  BY <2>1, <2>2 DEF BaselineAccepted
<1>2. /\ n \in Nat
      /\ \A l \in 1 .. n : at(l) \in Nat /\ w.start_time <= at(l) /\ at(l) < w.end_time
      /\ \A l, m \in 1 .. n : at(l) = at(m) => l = m
  BY <1>1, WindowType, BaselineTimes
<1>3. times = [l \in 1 .. n |-> at(l)]
  BY DEF baseline_occurrence_times
<1> HIDE DEF n, at, times
<1>4. ASSUME NEW l, NEW f, IsBaseline(i, l, f)
      PROVE  /\ l \in 1 .. n
             /\ f = definition(baseline_name(c, at(l)), "baseline",
                               c.baseline.scenario_type, at(l), None, at(l))
  <2>1. l \in DOMAIN times /\ f = build_baseline(c, w)[l]
    BY <1>4 DEF IsBaseline, times
  <2>2. build_baseline(c, w) =
          [m \in DOMAIN times |->
             definition(baseline_name(c, times[m]), "baseline",
                        c.baseline.scenario_type, times[m], None, times[m])]
    BY DEF build_baseline, times
  <2>3. l \in 1 .. n /\ times[l] = at(l)
    BY <1>3, <2>1
  <2> QED  BY <2>1, <2>2, <2>3
<1>5. ASSUME NEW l, NEW f, IsBaseline(i, l, f)
      PROVE  /\ f.schedule_type = "baseline" /\ f.at = at(l) /\ f.over = at(l)
             /\ f.requests = 0 /\ f.concurrency = 0 /\ f.iterations = 0
             /\ f.occurrence = execution_payload("baseline", c.baseline.scenario_type, at(l), None)
             /\ f.name = baseline_name(c, at(l))
  BY <1>4, <1>5 DEF definition
<1>6. d.at = at(k) /\ k \in 1 .. n
  BY <1>4, <1>5
<1>7. \A l, f : IsBaseline(i, l, f) /\ f.at = d.at => l = k
  BY <1>2, <1>4, <1>5, <1>6
<1> QED  BY <1>2, <1>5, <1>6, <1>7, PayloadFields

LEMMA BurstFields ==
  ASSUME NEW i \in Inputs, NEW k, NEW d, IsBurst(i, k, d)
  PROVE  /\ k \in Nat \ {0}
         /\ d.schedule_type = "burst"
         /\ d.occurrence = <<"burst", d.scenario_type, d.at, k>>
         /\ d.name.full_name = <<None, "burst", d.scenario_type>>
         /\ d.name.suffix \in {<<>>, <<k, d.at>>}
         /\ d.at \in Int /\ d.over \in Int
         /\ PlanWindow(i).start_time <= d.at /\ d.at < d.over
         /\ d.over <= PlanWindow(i).end_time
         /\ d.requests <= effective_caps(i.config).requests
         /\ d.requests <= effective_caps(i.config).burst
         /\ d.concurrency <= effective_caps(i.config).concurrency
         /\ d.iterations = 0
<1> DEFINE c == i.config
           w == PlanWindow(i)
           b == c.burst.windows[k]
           at == burst_start(c, w, b)
           name == schedule_name(c, None, "burst", b.scenario_type, <<k, at>>)
<1>1. c.burst.windows \in Seq(BurstWindow)
  BY InputType, ConfigType
<1>2. c.burst.enabled /\ k \in DOMAIN c.burst.windows /\ d = build_burst(c, w, b, k)
  BY DEF IsBurst
<1>3. /\ Len(c.burst.windows) \in Nat /\ k \in 1 .. Len(c.burst.windows)
      /\ DOMAIN c.burst.windows = 1 .. Len(c.burst.windows)
  BY <1>1, <1>2, LenProperties
<1>4. b \in BurstWindow /\ b \in Range(c.burst.windows)
  BY <1>1, <1>2, <1>3, ElementOfSeq DEF Range
<1>5. Accepted(i)
  BY InputType
<1>6. burst_window_times(c, w, b) /\ validate_schedule_config(c, w)
  BY <1>2, <1>4, <1>5 DEF Accepted
<1>7. /\ d.schedule_type = "burst" /\ d.scenario_type = b.scenario_type /\ d.at = at
      /\ d.over = at + b.duration
      /\ d.requests = b.requests /\ d.concurrency = b.concurrency /\ d.iterations = 0
      /\ d.occurrence = execution_payload("burst", b.scenario_type, at, k)
      /\ d.name = name
  BY <1>2 DEF build_burst, definition
<1>8. at \in Int
  <2>1. w.start_time \in Nat /\ b.start_time \in Int /\ c.offset \in Int
    BY <1>4, WindowType, InputType, ConfigType DEF BurstWindow
  <2> QED  BY <2>1 DEF burst_start
<1>9. b.duration \in Int
  BY <1>4 DEF BurstWindow
<1>10. /\ b.duration > 0 /\ at >= w.start_time /\ at + b.duration <= w.end_time
  BY <1>6 DEF burst_window_times
<1>11. /\ b.requests <= effective_caps(c).requests /\ b.requests <= effective_caps(c).burst
       /\ b.concurrency <= effective_caps(c).concurrency
  BY <1>4, <1>6 DEF validate_schedule_config
<1>12. k # None /\ k \in Nat \ {0}
  BY <1>3 DEF None
<1> HIDE DEF b, at
<1>13. name.full_name = <<None, "burst", b.scenario_type>> /\ name.suffix \in {<<>>, <<k, at>>}
  BY NameFields
<1> HIDE DEF name
<1>14. w.start_time \in Nat /\ w.end_time \in Nat
  BY WindowType
<1> QED  BY <1>7, <1>8, <1>9, <1>10, <1>11, <1>12, <1>13, <1>14, PayloadFields

LEMMA RepeatedFields ==
  ASSUME NEW i \in Inputs, NEW k, NEW d, IsRepeated(i, k, d)
  PROVE  /\ k \in Nat \ {0}
         /\ d.schedule_type = "repeated"
         /\ d.occurrence = <<"repeated", d.scenario_type, d.at, k>>
         /\ d.name.full_name = <<None, "repeated", d.scenario_type>>
         /\ d.name.suffix \in {<<>>, <<k, d.at>>}
         /\ d.at \in Nat /\ d.over \in Int /\ d.at < d.over
         /\ d.over <= PlanWindow(i).end_time
         /\ d.iterations <= effective_caps(i.config).iterations
         /\ d.requests = 0 /\ d.concurrency = 0
<1> DEFINE c == i.config
           w == PlanWindow(i)
           r == c.repeated[k]
           at == RepeatedAt(r, w)
           name == schedule_name(c, None, "repeated", r.scenario_type, <<k, at>>)
<1>1. c.repeated \in Seq(Repeated)
  BY InputType, ConfigType
<1>2. k \in DOMAIN c.repeated /\ d = build_repeated(c, w, r, k)
  BY DEF IsRepeated
<1>3. /\ Len(c.repeated) \in Nat /\ k \in 1 .. Len(c.repeated)
      /\ DOMAIN c.repeated = 1 .. Len(c.repeated)
  BY <1>1, <1>2, LenProperties
<1>4. r \in Repeated /\ r \in Range(c.repeated)
  BY <1>1, <1>2, <1>3, ElementOfSeq DEF Range
<1>5. Accepted(i)
  BY InputType
<1>6. validate_schedule_config(c, w)
  BY <1>5 DEF Accepted
<1>7. /\ d.schedule_type = "repeated" /\ d.scenario_type = r.scenario_type /\ d.at = at
      /\ d.over = at + r.iterations
      /\ d.requests = 0 /\ d.concurrency = 0 /\ d.iterations = r.iterations
      /\ d.occurrence = execution_payload("repeated", r.scenario_type, at, k)
      /\ d.name = name
  BY <1>2 DEF build_repeated, definition
<1>8. at \in Nat
  <2>1. w.start_time \in Nat /\ r.schedule_time \in Nat \cup {None}
    BY <1>4, WindowType DEF Repeated
  <2> QED  BY <2>1 DEF RepeatedAt
<1>9. r.iterations \in Int
  BY <1>4 DEF Repeated
<1>10. /\ r.iterations > 0 /\ r.iterations <= effective_caps(c).iterations
       /\ at + r.iterations <= w.end_time
  BY <1>4, <1>6 DEF validate_schedule_config
<1>11. k # None /\ k \in Nat \ {0}
  BY <1>3 DEF None
<1> HIDE DEF r, at
<1>12. name.full_name = <<None, "repeated", r.scenario_type>> /\ name.suffix \in {<<>>, <<k, at>>}
  BY NameFields
<1> HIDE DEF name
<1>13. w.end_time \in Nat
  BY WindowType
<1> QED  BY <1>7, <1>8, <1>9, <1>10, <1>11, <1>12, <1>13, PayloadFields

LEMMA FinalizationFields ==
  ASSUME NEW i \in Inputs, NEW d, IsFinalization(i, d)
  PROVE  /\ d.schedule_type = "finalization"
         /\ d.occurrence = <<"finalization", PlanWindow(i).end_time>>
         /\ d.name.full_name = <<None, "finalization", "finalization">>
<1> DEFINE w == PlanWindow(i)
           name == schedule_name(i.config, None, "finalization", "finalization",
                                 <<w.start_time, w.end_time>>)
<1>1. d = build_finalization(i.config, w)
  BY DEF IsFinalization
<1>2. /\ d.schedule_type = "finalization" /\ d.name = name
      /\ d.occurrence = <<"finalization", w.end_time>>
  BY <1>1 DEF build_finalization, definition
<1>3. name.full_name = <<None, "finalization", "finalization">>
  BY NameFields
<1> HIDE DEF name
<1> QED  BY <1>2, <1>3

-----------------------------------------------------------------------------
(***************************************************************************)
(* Names                                                                   *)
(***************************************************************************)

LEMMA NamesClashOfTwins ==
  ASSUME NEW i \in Inputs, NEW j \in DOMAIN plan(i), NEW k \in DOMAIN plan(i),
         j # k, plan(i)[j].name = plan(i)[k].name
  PROVE  Twins(plan(i))
<1> DEFINE p == plan(i)
           e == EnabledRepeats(i.config)
<1>1. PICK a \in Nat, b \in Nat, c \in Nat :
        \A l \in DOMAIN p :
          \/ IsBaseline(i, l, p[l])
          \/ l - a \in Nat /\ IsBurst(i, l - a, p[l])
          \/ l - b \in DOMAIN e /\ IsRepeated(i, e[l - b], p[l])
          \/ l = c + 1 /\ IsFinalization(i, p[l])
  BY PlanShape
<1>2. j \in Nat /\ k \in Nat
  BY PlanShape
<1>3. \A x, y : IsBaseline(i, x, y) =>
        y.schedule_type = "baseline" /\ y.name.full_name[2] = "baseline"
  BY BaselineFields, BaselineNames
<1>4. \A x, y : IsBurst(i, x, y) =>
        y.schedule_type = "burst" /\ y.name.full_name[2] = "burst"
  BY BurstFields
<1>5. \A x, y : IsRepeated(i, x, y) =>
        y.schedule_type = "repeated" /\ y.name.full_name[2] = "repeated"
  BY RepeatedFields
<1>6. \A y : IsFinalization(i, y) => y.name.full_name[2] = "finalization"
  BY FinalizationFields
<1>7. p[j].name.full_name[2] = p[k].name.full_name[2]
  OBVIOUS
<1> HIDE DEF p, e
<1>8. ~ (IsBaseline(i, j, p[j]) /\ IsBaseline(i, k, p[k]))
  <2> SUFFICES ASSUME IsBaseline(i, j, p[j]), IsBaseline(i, k, p[k])
               PROVE  FALSE
    OBVIOUS
  <2>1. baseline_name(i.config, p[j].at) = baseline_name(i.config, p[k].at)
    BY BaselineFields DEF p
  <2>2. p[j].at = p[k].at
    BY <2>1, BaselineNames
  <2> QED  BY <2>2, BaselineFields
<1>9. ASSUME IsBurst(i, j - a, p[j]), IsBurst(i, k - a, p[k])
      PROVE  p[j].schedule_type = "burst" /\ p[j].name.suffix = <<>>
  <2>1. p[j].name.suffix \in {<<>>, <<j - a, p[j].at>>}
    BY <1>9, BurstFields
  <2>2. p[k].name.suffix \in {<<>>, <<k - a, p[k].at>>}
    BY <1>9, BurstFields
  <2>3. j - a # k - a
    BY <1>1, <1>2
  <2>4. <<j - a, p[j].at>> # <<k - a, p[k].at>> /\ <<k - a, p[k].at>> # <<>>
    BY <2>3
  <2> QED  BY <1>4, <1>9, <2>1, <2>2, <2>4 DEF p
<1>10. ASSUME j - b \in DOMAIN e, IsRepeated(i, e[j - b], p[j]),
              k - b \in DOMAIN e, IsRepeated(i, e[k - b], p[k])
       PROVE  p[j].schedule_type = "repeated" /\ p[j].name.suffix = <<>>
  <2>1. p[j].name.suffix \in {<<>>, <<e[j - b], p[j].at>>}
    BY <1>10, RepeatedFields
  <2>2. p[k].name.suffix \in {<<>>, <<e[k - b], p[k].at>>}
    BY <1>10, RepeatedFields
  <2>3. j - b # k - b
    BY <1>1, <1>2
  <2>4. e[j - b] # e[k - b]
    BY <1>10, <2>3, EnabledRepeatsType DEF e
  <2>5. <<e[j - b], p[j].at>> # <<e[k - b], p[k].at>> /\ <<e[k - b], p[k].at>> # <<>>
    BY <2>4
  <2> QED  BY <1>5, <1>10, <2>1, <2>2, <2>5 DEF p
<1>11. p[j].schedule_type \in {"burst", "repeated"} /\ p[j].name.suffix = <<>>
  <2>1. CASE IsBaseline(i, j, p[j])
    <3>1. IsBaseline(i, k, p[k])
      BY <1>1, <1>3, <1>4, <1>5, <1>6, <1>7, <2>1 DEF p
    <3> QED  BY <1>8, <2>1, <3>1
  <2>2. CASE IsBurst(i, j - a, p[j])
    <3>1. IsBurst(i, k - a, p[k])
      BY <1>1, <1>3, <1>4, <1>5, <1>6, <1>7, <2>2 DEF p
    <3> QED  BY <1>9, <2>2, <3>1
  <2>3. CASE j - b \in DOMAIN e /\ IsRepeated(i, e[j - b], p[j])
    <3>1. k - b \in DOMAIN e /\ IsRepeated(i, e[k - b], p[k])
      BY <1>1, <1>3, <1>4, <1>5, <1>6, <1>7, <2>3 DEF p
    <3> QED  BY <1>10, <2>3, <3>1
  <2>4. CASE j = c + 1 /\ IsFinalization(i, p[j])
    <3>1. k = c + 1
      BY <1>1, <1>3, <1>4, <1>5, <1>6, <1>7, <2>4 DEF p
    <3> QED  BY <2>4, <3>1
  <2> QED  BY <1>1, <2>1, <2>2, <2>3, <2>4 DEF p
<1> QED  BY <1>11 DEF Twins, p

(***************************************************************************)
(* Of every configuration that gets as far as create_schedule, the names   *)
(* of the schedules differ, but for two burst windows, or two repeated     *)
(* schedules, of one scenario whose name is not hashed.                    *)
(***************************************************************************)
THEOREM NoNameClashes == NameClashes = {}
<1> SUFFICES ASSUME NEW i \in Inputs, ~ Twins(plan(i))
             PROVE  Cardinality({plan(i)[k].name : k \in DOMAIN plan(i)}) = Len(plan(i))
  BY DEF NameClashes
<1> DEFINE n == Len(plan(i))
           f == [k \in 1 .. n |-> plan(i)[k].name]
<1>1. n \in Nat /\ DOMAIN plan(i) = 1 .. n
  BY PlanShape
<1>2. \A j, k \in 1 .. n : f[j] = f[k] => j = k
  BY <1>1, NamesClashOfTwins
<1>3. DOMAIN f = 1 .. n /\ {plan(i)[k].name : k \in DOMAIN plan(i)} = {f[k] : k \in 1 .. n}
  BY <1>1
<1> HIDE DEF n, f
<1>4. Cardinality({f[k] : k \in 1 .. n}) = n
  BY <1>1, <1>2, <1>3, CardinalityOfImage
<1> QED  BY <1>3, <1>4 DEF n

(***************************************************************************)
(* The invariant of the runs: no state is about to create such schedules.  *)
(***************************************************************************)
THEOREM NamesAlwaysIdentify == SchedulingSpec => []NamesIdentify
<1>1. NamesIdentify
  BY NoNameClashes DEF NamesIdentify, AtCreate
<1> QED  BY <1>1, PTL

-----------------------------------------------------------------------------
(***************************************************************************)
(* Occurrences                                                             *)
(***************************************************************************)

LEMMA OccurrencesDiffer ==
  ASSUME NEW i \in Inputs, NEW j \in DOMAIN plan(i), NEW k \in DOMAIN plan(i),
         plan(i)[j].occurrence = plan(i)[k].occurrence
  PROVE  j = k
<1> DEFINE p == plan(i)
           e == EnabledRepeats(i.config)
<1>1. PICK a \in Nat, b \in Nat, c \in Nat :
        \A l \in DOMAIN p :
          \/ IsBaseline(i, l, p[l])
          \/ l - a \in Nat /\ IsBurst(i, l - a, p[l])
          \/ l - b \in DOMAIN e /\ IsRepeated(i, e[l - b], p[l])
          \/ l = c + 1 /\ IsFinalization(i, p[l])
  BY PlanShape
<1>2. j \in Nat /\ k \in Nat
  BY PlanShape
<1>3. \A x, y : IsBaseline(i, x, y) =>
        y.occurrence[1] = "baseline" /\ y.occurrence[3] = y.at
  BY BaselineFields
<1>4. \A x, y : IsBurst(i, x, y) => y.occurrence[1] = "burst" /\ y.occurrence[4] = x
  BY BurstFields
<1>5. \A x, y : IsRepeated(i, x, y) => y.occurrence[1] = "repeated" /\ y.occurrence[4] = x
  BY RepeatedFields
<1>6. \A y : IsFinalization(i, y) => y.occurrence[1] = "finalization"
  BY FinalizationFields
<1>7. p[j].occurrence = p[k].occurrence
  OBVIOUS
<1> HIDE DEF p, e
<1>8. CASE IsBaseline(i, j, p[j])
  <2>1. IsBaseline(i, k, p[k])
    BY <1>1, <1>3, <1>4, <1>5, <1>6, <1>7, <1>8 DEF p
  <2>2. p[j].at = p[k].at
    BY <1>3, <1>7, <1>8, <2>1
  <2> QED  BY <1>8, <2>1, <2>2, BaselineFields
<1>9. CASE IsBurst(i, j - a, p[j])
  <2>1. IsBurst(i, k - a, p[k])
    BY <1>1, <1>3, <1>4, <1>5, <1>6, <1>7, <1>9 DEF p
  <2>2. j - a = k - a
    BY <1>4, <1>7, <1>9, <2>1
  <2> QED  BY <1>1, <1>2, <2>2
<1>10. CASE j - b \in DOMAIN e /\ IsRepeated(i, e[j - b], p[j])
  <2>1. k - b \in DOMAIN e /\ IsRepeated(i, e[k - b], p[k])
    BY <1>1, <1>3, <1>4, <1>5, <1>6, <1>7, <1>10 DEF p
  <2>2. e[j - b] = e[k - b]
    BY <1>5, <1>7, <1>10, <2>1
  <2>3. j - b = k - b
    BY <1>10, <2>1, <2>2, EnabledRepeatsType DEF e
  <2> QED  BY <1>1, <1>2, <2>3
<1>11. CASE j = c + 1 /\ IsFinalization(i, p[j])
  <2>1. k = c + 1
    BY <1>1, <1>3, <1>4, <1>5, <1>6, <1>7, <1>11 DEF p
  <2> QED  BY <1>11, <2>1
<1> QED  BY <1>1, <1>8, <1>9, <1>10, <1>11 DEF p

(***************************************************************************)
(* Of every configuration that gets as far as create_schedule, no two      *)
(* schedules deliver the same occurrence.                                  *)
(***************************************************************************)
THEOREM NoOccurrenceClashes == OccurrenceClashes = {}
<1> SUFFICES ASSUME NEW i \in Inputs
             PROVE  Cardinality({d.occurrence : d \in Range(plan(i))}) = Len(plan(i))
  BY DEF OccurrenceClashes
<1> DEFINE n == Len(plan(i))
           f == [k \in 1 .. n |-> plan(i)[k].occurrence]
<1>1. n \in Nat /\ DOMAIN plan(i) = 1 .. n
  BY PlanShape
<1>2. \A j, k \in 1 .. n : f[j] = f[k] => j = k
  BY <1>1, OccurrencesDiffer
<1>3. DOMAIN f = 1 .. n /\ {d.occurrence : d \in Range(plan(i))} = {f[k] : k \in 1 .. n}
  BY <1>1 DEF Range
<1> HIDE DEF n, f
<1>4. Cardinality({f[k] : k \in 1 .. n}) = n
  BY <1>1, <1>2, <1>3, CardinalityOfImage
<1> QED  BY <1>3, <1>4 DEF n

(***************************************************************************)
(* The invariant of the runs: no state is about to create such schedules.  *)
(***************************************************************************)
THEOREM OccurrencesAlwaysIdentify == SchedulingSpec => []OccurrencesIdentify
<1>1. OccurrencesIdentify
  BY NoOccurrenceClashes DEF OccurrencesIdentify, AtCreate
<1> QED  BY <1>1, PTL

-----------------------------------------------------------------------------
(***************************************************************************)
(* What the handler makes of an occurrence                                 *)
(***************************************************************************)

\* What every execution of a plan satisfies.
LEMMA ExecutionFields ==
  ASSUME NEW i \in Inputs, NEW d \in Executions(i)
  PROVE  /\ d.at \in Int /\ d.at < PlanWindow(i).end_time
         /\ d.over \in Int /\ d.over <= PlanWindow(i).end_time
         /\ d.schedule_type # "repeated" => PlanWindow(i).start_time <= d.at
         /\ d.requests <= effective_caps(i.config).requests
         /\ d.requests <= effective_caps(i.config).burst
         /\ d.concurrency <= effective_caps(i.config).concurrency
         /\ d.iterations <= effective_caps(i.config).iterations
<1>1. PICK k \in DOMAIN plan(i) : d = plan(i)[k]
  BY DEF Executions, Range
<1>2. d.schedule_type # "finalization"
  BY DEF Executions
<1>3. \/ \E l : IsBaseline(i, l, d)
      \/ \E l : IsBurst(i, l, d)
      \/ \E l : IsRepeated(i, l, d)
  BY <1>1, <1>2, PlanShape, FinalizationFields
<1>4. /\ 0 <= effective_caps(i.config).requests /\ 0 <= effective_caps(i.config).burst
      /\ 0 <= effective_caps(i.config).concurrency /\ 0 <= effective_caps(i.config).iterations
  BY DEF effective_caps
<1>5. PlanWindow(i).start_time \in Nat /\ PlanWindow(i).end_time \in Nat
  BY WindowType
<1>6. CASE \E l : IsBaseline(i, l, d)
  <2>1. PICK l : IsBaseline(i, l, d)
    BY <1>6
  <2> QED  BY <1>4, <1>5, <2>1, BaselineFields
<1>7. CASE \E l : IsBurst(i, l, d)
  <2>1. PICK l : IsBurst(i, l, d)
    BY <1>7
  <2> QED  BY <1>4, <1>5, <2>1, BurstFields
<1>8. CASE \E l : IsRepeated(i, l, d)
  <2>1. PICK l : IsRepeated(i, l, d)
    BY <1>8
  <2> QED  BY <1>4, <1>5, <2>1, RepeatedFields
<1> QED  BY <1>3, <1>6, <1>7, <1>8

\* An occurrence outside the window that the item knows was foreseen.
LEMMA OutOfWindowIsForeseen ==
  ASSUME NEW i \in Inputs, NEW d \in Executions(i), ~ InWindow(audit_item(i), d)
  PROVE  Foreseen(i, d)
<1> DEFINE item == audit_item(i)
<1>1. /\ d.at \in Int /\ d.at < PlanWindow(i).end_time
      /\ d.schedule_type # "repeated" => PlanWindow(i).start_time <= d.at
  BY ExecutionFields
<1>2. /\ i.created_at \in Nat /\ i.delay \in Nat
      /\ i.kind \in {"schedule", "schedule_audit"}
      /\ i.config.start_time \in Nat \cup {None} /\ i.config.end_time \in Nat \cup {None}
      /\ i.config.duration \in Int
  BY InputType, ConfigType
<1>3. /\ PlanWindow(i).start_time \in Nat /\ PlanWindow(i).end_time \in Nat
      /\ Now(i) = i.created_at + i.delay
  BY WindowType DEF Now
<1>4. /\ PlanWindow(i).start_time =
           IF i.config.start_time = None THEN Now(i) ELSE i.config.start_time
      /\ PlanWindow(i).end_time =
           IF i.config.end_time = None THEN PlanWindow(i).start_time + i.config.duration
           ELSE i.config.end_time
  BY DEF PlanWindow, audit_window
<1>5. CASE d.schedule_type = "repeated" /\ d.at < PlanWindow(i).start_time
  BY <1>5 DEF Foreseen
<1>6. CASE PlanWindow(i).start_time <= d.at
  <2>1. i.kind = "schedule"
    <3>1. i.kind # "schedule" => item.audit_window = PlanWindow(i)
      BY DEF audit_item
    <3> HIDE DEF item
    <3> QED  BY <1>1, <1>3, <1>6, <3>1 DEF InWindow, item
  <2> DEFINE start == IF i.config.start_time = None THEN i.created_at
                      ELSE i.config.start_time
             end == IF i.config.end_time = None THEN start + i.config.duration
                    ELSE i.config.end_time
  <2>2. item.audit_window.start_time = start /\ item.audit_window.end_time = end
    BY <2>1 DEF audit_item, audit_window
  <2>3. d.at < start \/ end < d.at
    <3>1. start \in Int /\ end \in Int
      BY <1>2 DEF None
    <3> HIDE DEF start, end, item
    <3> QED  BY <1>1, <2>2, <3>1 DEF InWindow, item
  <2>4. start <= PlanWindow(i).start_time
    BY <1>2, <1>3, <1>4
  <2>5. ~ (d.at < start)
    BY <1>1, <1>2, <1>3, <1>6, <2>4 DEF None
  <2>6. i.config.start_time = None /\ i.config.end_time = None /\ i.delay > 0
    BY <1>1, <1>2, <1>3, <1>4, <2>3, <2>5
  <2>7. d.at > i.created_at + i.config.duration
    BY <1>1, <1>2, <2>3, <2>5, <2>6
  <2> QED  BY <2>1, <2>6, <2>7 DEF Foreseen
<1> QED  BY <1>1, <1>3, <1>5, <1>6

\* A token that has expired when an occurrence is due expires before the end.
LEMMA ExpiryIsForeseen ==
  ASSUME NEW i \in Inputs, NEW d \in Executions(i), TokenExpired(audit_item(i), d)
  PROVE  Foreseen(i, d)
<1>1. d.at \in Int /\ d.at < PlanWindow(i).end_time /\ PlanWindow(i).end_time \in Nat
  BY ExecutionFields, WindowType
<1>2. i.config.token \in Nat \cup {None}
  BY InputType, ConfigType
<1>3. audit_item(i).temporary_token \in {None, i.config.token}
  BY DEF audit_item, validate_token_metadata
<1>4. i.config.token # None /\ i.config.token <= d.at
  BY <1>3 DEF TokenExpired
<1>5. i.config.token < PlanWindow(i).end_time
  BY <1>1, <1>2, <1>4
<1> QED  BY <1>4, <1>5 DEF Foreseen, validate_token_metadata

(***************************************************************************)
(* Of every configuration that gets as far as create_schedule, the work is *)
(* over when the finalization fires, and the handler refuses an occurrence *)
(* for one of the reasons that are foreseen only.                          *)
(***************************************************************************)
THEOREM AllExecutable == NotExecutable = {}
<1> SUFFICES ASSUME NEW i \in Inputs, NEW d \in Executions(i)
             PROVE  /\ ~ (d.over > PlanWindow(i).end_time)
                    /\ ensure_execution_allowed(i, d) \/ Foreseen(i, d)
  BY DEF NotExecutable
<1>1. ~ (d.over > PlanWindow(i).end_time)
  BY ExecutionFields, WindowType
<1>2. ASSUME ~ Foreseen(i, d)  PROVE ensure_execution_allowed(i, d)
  <2>1. InWindow(audit_item(i), d) /\ ~ TokenExpired(audit_item(i), d)
    BY <1>2, OutOfWindowIsForeseen, ExpiryIsForeseen
  <2> QED  BY <2>1, ExecutionFields DEF ensure_execution_allowed
<1> QED  BY <1>1, <1>2

(***************************************************************************)
(* The invariant of the runs: no state is about to create such schedules.  *)
(***************************************************************************)
THEOREM PlanIsAlwaysExecutable == SchedulingSpec => []PlanIsExecutable
<1>1. PlanIsExecutable
  BY AllExecutable DEF PlanIsExecutable, AtCreate
<1> QED  BY <1>1, PTL

=============================================================================
