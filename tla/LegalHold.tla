------------------------------ MODULE LegalHold ------------------------------
(***************************************************************************)
(* The legal hold of one audit, and the evidence it protects from          *)
(* disposal: DynamoDB records, which TTL deletes once they carry           *)
(* ttl_disposal_at, and S3 objects, which lifecycle rules expire unless    *)
(* they are tagged rcp-legal-hold=true.                                    *)
(*                                                                         *)
(*   command   one `rcp retention hold place` or `release`:                *)
(*             RetentionService, HoldTransitions, MarkerStore and          *)
(*             CustodySweepClient;                                         *)
(*   writer    the transactions that create or regenerate one record, each *)
(*             conditioned on the hold_version it read                     *)
(*             (HoldCoordinatedTransactionRunner);                         *)
(*   uploader  the upload of one evidence object, which has no such        *)
(*             condition.                                                  *)
(*                                                                         *)
(* Every remote call is a step.  A call that fails outside the marker      *)
(* store ends the command, as a crash does.                                *)
(***************************************************************************)
EXTENDS Naturals, FiniteSets

CONSTANTS
  Records,       \* DynamoDB evidence records
  Objects,       \* S3 evidence objects
  HoldCommands,  \* invocations of place and release
  NoHold,        \* the hold_id of an audit that was never held
  Action,        \* command -> "PLACE" or "RELEASE"
  Overlapping,   \* may a command start while another is running?
  MaxAttempts,   \* MAX_HOLD_COORDINATION_RETRY_ATTEMPTS
  MaxVersion,    \* bound on hold_version
  MaxFaults      \* bound on crashes and failed calls

ASSUME LegalHoldAssumption ==
  /\ Records \cap Objects = {}
  /\ NoHold \notin HoldCommands
  /\ Action \in [HoldCommands -> {"PLACE", "RELEASE"}]
  /\ Overlapping \in BOOLEAN
  /\ MaxAttempts \in Nat \ {0}
  /\ MaxVersion \in Nat
  /\ MaxFaults \in Nat

VARIABLES
  hold,      \* the LegalHold item
  event,     \* LegalHoldEvent items, by hold_id and hold_version: marker_status
  marker,    \* S3 canary markers, by hold_id and hold_version: LastModified
  ttl,       \* records: is ttl_disposal_at set?
  object,    \* objects: the rcp-legal-hold tag and LastModified
  s3time,    \* S3's clock; it moves when a marker is put and when a sweep lists
  command,
  writer,
  uploader,
  faults

storeVars == <<event, marker, s3time>>
evidenceVars == <<ttl, object>>
writeVars == <<writer, uploader>>

holdVars == <<hold, event, marker, ttl, object, s3time, command, writer,
              uploader, faults>>

-----------------------------------------------------------------------------

HoldIds == HoldCommands \cup {NoHold}
Transitions == HoldIds \X (1 .. MaxVersion)

SweepStatuses == {"PENDING", "IN_PROGRESS", "COMPLETE", "FAILED"}
MarkerStatuses == {"absent", "PENDING", "CONFIRMED", "FAILED"}

HoldCommandPcs ==
  {"idle", "event", "upsert", "check_marker", "marker", "confirm",
   "marker_failed", "read", "write", "query", "sweep_records", "retag",
   "reconcile", "done", "raised", "crashed"}

Fault == faults < MaxFaults /\ faults' = faults + 1
NoFault == UNCHANGED faults

Running(c) == command[c].pc \notin {"idle", "done", "raised", "crashed"}

TransitionOf(c) == <<command[c].hold_id, command[c].hold_version>>

HoldGoto(c, pc) == command' = [command EXCEPT ![c].pc = pc]

\* The command goes on to set sweep_status ("KEEP": to rewrite the item as it
\* is), which begins with reading the item again.
SetSweepStatus(c, sweep_status) ==
  command' = [command EXCEPT ![c].pc = "read", ![c].sweep_status = sweep_status]

-----------------------------------------------------------------------------
(***************************************************************************)
(* HoldTransitions.place and release                                       *)
(***************************************************************************)

\* The item is read and a transition chosen: a new one, the one an earlier
\* command was interrupted in, or none.
Choose(c, hold_id, hold_version, pc) ==
  command' = [command EXCEPT ![c].pc = pc, ![c].hold_id = hold_id,
                             ![c].hold_version = hold_version]

Starts(c) ==
  /\ command[c].pc = "idle"
  /\ Overlapping \/ \A d \in HoldCommands : ~ Running(d)
  /\ hold.hold_version < MaxVersion

BeginPlace(c) ==
  /\ Starts(c)
  /\ Action[c] = "PLACE"
  /\ \/ /\ hold.status # "ACTIVE"
        /\ Choose(c, c, hold.hold_version + 1, "event")
     \/ /\ hold.status = "ACTIVE" /\ hold.sweep_status = "COMPLETE"
        /\ HoldGoto(c, "done")
     \/ /\ hold.status = "ACTIVE" /\ hold.sweep_status # "COMPLETE"
        /\ Choose(c, hold.hold_id, hold.hold_version, "check_marker")
  /\ UNCHANGED <<hold, storeVars, evidenceVars, writeVars, faults>>

BeginRelease(c) ==
  /\ Starts(c)
  /\ Action[c] = "RELEASE"
  /\ \/ /\ hold.status = "ACTIVE"
        /\ Choose(c, hold.hold_id, hold.hold_version + 1, "event")
     \/ /\ hold.status = "RELEASED" /\ hold.sweep_status # "COMPLETE"
        /\ Choose(c, hold.hold_id, hold.hold_version, "check_marker")
     \/ /\ \/ hold.status = "NEVER_HELD"
           \/ hold.status = "RELEASED" /\ hold.sweep_status = "COMPLETE"
        /\ HoldGoto(c, "raised")
  /\ UNCHANGED <<hold, storeVars, evidenceVars, writeVars, faults>>

\* write_hold_event: written once per hold_id and hold_version.
WriteHoldEvent(c) ==
  /\ command[c].pc = "event"
  /\ \/ /\ event[TransitionOf(c)] = "absent"
        /\ event' = [event EXCEPT ![TransitionOf(c)] = "PENDING"]
        /\ HoldGoto(c, "upsert")
     \/ /\ event[TransitionOf(c)] # "absent"
        /\ HoldGoto(c, "raised")
        /\ UNCHANGED event
  /\ UNCHANGED <<hold, marker, s3time, evidenceVars, writeVars, faults>>

Status(c) == IF Action[c] = "PLACE" THEN "ACTIVE" ELSE "RELEASED"

\* Mutant: the item keeps its old hold_version.
UpsertHold_KeepsVersion(c) ==
  /\ command[c].pc = "upsert"
  /\ hold' = [status |-> Status(c), hold_id |-> command[c].hold_id,
              hold_version |-> hold.hold_version, sweep_status |-> "PENDING"]
  /\ HoldGoto(c, "check_marker")
  /\ UNCHANGED <<storeVars, evidenceVars, writeVars, faults>>

\* upsert_hold, an unconditional put: the transition takes effect.
UpsertHold(c) ==
  /\ command[c].pc = "upsert"
  /\ hold' = [status |-> Status(c), hold_id |-> command[c].hold_id,
              hold_version |-> command[c].hold_version,
              sweep_status |-> "PENDING"]
  /\ HoldGoto(c, "check_marker")
  /\ UNCHANGED <<storeVars, evidenceVars, writeVars, faults>>

-----------------------------------------------------------------------------
(***************************************************************************)
(* RetentionService._run_sweep_sequence                                    *)
(***************************************************************************)

\* A marker that was confirmed is never established again.
CheckMarker(c) ==
  /\ command[c].pc = "check_marker"
  /\ \/ /\ event[TransitionOf(c)] = "CONFIRMED"
        /\ SetSweepStatus(c, "IN_PROGRESS")
     \/ /\ event[TransitionOf(c)] # "CONFIRMED"
        /\ HoldGoto(c, "marker")
  /\ UNCHANGED <<hold, storeVars, evidenceVars, writeVars, faults>>

\* The conditional put: the first marker of the transition stays.
PutMarker(c) ==
  \/ /\ marker[TransitionOf(c)] = 0
     /\ s3time' = s3time + 1
     /\ marker' = [marker EXCEPT ![TransitionOf(c)] = s3time + 1]
  \/ /\ marker[TransitionOf(c)] # 0
     /\ UNCHANGED <<marker, s3time>>

\* establish_marker: put or reuse the marker, then read its LastModified, each
\* a bounded number of times; when the budget is spent the marker may be there.
EstablishMarker(c) ==
  /\ command[c].pc = "marker"
  /\ \/ PutMarker(c) /\ HoldGoto(c, "confirm") /\ NoFault
     \/ /\ PutMarker(c) \/ UNCHANGED <<marker, s3time>>
        /\ HoldGoto(c, "marker_failed")
        /\ Fault
  /\ UNCHANGED <<hold, event, evidenceVars, writeVars>>

\* update_hold_event_marker_fields(CONFIRMED), then _denormalize_marker.
ConfirmMarker(c) ==
  /\ command[c].pc = "confirm"
  /\ event' = [event EXCEPT ![TransitionOf(c)] = "CONFIRMED"]
  /\ SetSweepStatus(c, "KEEP")
  /\ UNCHANGED <<hold, marker, s3time, evidenceVars, writeVars, faults>>

\* _mark_event_marker_failed.
MarkEventMarkerFailed(c) ==
  /\ command[c].pc = "marker_failed"
  /\ event' = [event EXCEPT ![TransitionOf(c)] = "FAILED"]
  /\ SetSweepStatus(c, "FAILED")
  /\ UNCHANGED <<hold, marker, s3time, evidenceVars, writeVars, faults>>

\* _set_sweep_status and _denormalize_marker_onto_legal_hold read the item ...
ReadHold(c) ==
  /\ command[c].pc = "read"
  /\ command' = [command EXCEPT ![c].pc = "write", ![c].seen = hold]
  /\ UNCHANGED <<hold, storeVars, evidenceVars, writeVars, faults>>

\* ... and _upsert_current_state puts it back whole, with the new status.
OverwriteHold(c) ==
  LET sweep_status == command[c].sweep_status
  IN  /\ command[c].pc = "write"
      /\ hold' = IF sweep_status = "KEEP" THEN command[c].seen
                 ELSE [command[c].seen EXCEPT !.sweep_status = sweep_status]
      /\ \/ sweep_status = "KEEP" /\ SetSweepStatus(c, "IN_PROGRESS")
         \/ sweep_status = "IN_PROGRESS" /\ HoldGoto(c, "query")
         \/ sweep_status = "COMPLETE" /\ HoldGoto(c, "done")
         \/ sweep_status = "FAILED" /\ HoldGoto(c, "raised")
      /\ UNCHANGED <<storeVars, evidenceVars, writeVars, faults>>

-----------------------------------------------------------------------------
(***************************************************************************)
(* CustodySweepClient.  Each pass lists first and then updates one by one. *)
(***************************************************************************)

StartPass(c, pc, targets) ==
  command' = [command EXCEPT ![c].pc = pc, ![c].targets = targets]

Visit(c, pc, x) ==
  /\ command[c].pc = pc
  /\ x \in command[c].targets
  /\ command' = [command EXCEPT ![c].targets = @ \ {x}]

Swept(c, pc) == command[c].pc = pc /\ command[c].targets = {}

\* _query_audit_items, and the test for ttl_disposal_at on each item.
QueryRecords(c) ==
  /\ command[c].pc = "query"
  /\ StartPass(c, "sweep_records",
       {r \in Records :
          ttl[r] = IF Action[c] = "PLACE" THEN "set" ELSE "removed"})
  /\ UNCHANGED <<hold, storeVars, evidenceVars, writeVars, faults>>

\* remove_ttl_disposal_at or restore_ttl_disposal_at, for one item.
SweepRecord(c, r) ==
  /\ Visit(c, "sweep_records", r)
  /\ ttl' = [ttl EXCEPT ![r] =
               IF Action[c] = "PLACE" THEN "removed" ELSE "set"]
  /\ UNCHANGED <<hold, storeVars, object, writeVars, faults>>

Stored(o) == object[o].tag # "absent"

ListVersions(c) ==
  /\ Swept(c, "sweep_records")
  /\ StartPass(c, "retag", {o \in Objects : Stored(o)})
  /\ UNCHANGED <<hold, storeVars, evidenceVars, writeVars, faults>>

Tag(c) == IF Action[c] = "PLACE" THEN "true" ELSE "false"

\* _retag_object_version, from retag_s3_versions or reconcile_versions.
RetagVersion(c, o) ==
  /\ Visit(c, "retag", o) \/ Visit(c, "reconcile", o)
  /\ object' = [object EXCEPT ![o].tag = Tag(c)]
  /\ UNCHANGED <<hold, storeVars, ttl, writeVars, faults>>

\* Mutant: only the objects strictly newer than the marker.
ListForReconciliation_StrictlyNewer(c) ==
  /\ Swept(c, "retag")
  /\ s3time' = s3time + 1
  /\ StartPass(c, "reconcile",
       {o \in Objects : /\ Stored(o)
                        /\ object[o].time > marker[TransitionOf(c)]})
  /\ UNCHANGED <<hold, event, marker, evidenceVars, writeVars, faults>>

\* reconcile_versions: the objects not older than the marker.  (The buffer of 5
\* seconds only adds older objects, and the look at the current tag only saves
\* the update of an object that has the right one.)
ListForReconciliation(c) ==
  /\ Swept(c, "retag")
  /\ s3time' = s3time + 1
  /\ StartPass(c, "reconcile",
       {o \in Objects : /\ Stored(o)
                        /\ object[o].time >= marker[TransitionOf(c)]})
  /\ UNCHANGED <<hold, event, marker, evidenceVars, writeVars, faults>>

FinishSweep(c) ==
  /\ Swept(c, "reconcile")
  /\ SetSweepStatus(c, "COMPLETE")
  /\ UNCHANGED <<hold, storeVars, evidenceVars, writeVars, faults>>

HoldCrash(c) ==
  /\ Running(c)
  /\ HoldGoto(c, "crashed")
  /\ Fault
  /\ UNCHANGED <<hold, storeVars, evidenceVars, writeVars>>

-----------------------------------------------------------------------------
(***************************************************************************)
(* HoldCoordinatedTransactionRunner.run                                    *)
(***************************************************************************)

\* get_legal_hold, at the start of an attempt.
ReadHoldForRecord(r) ==
  /\ writer[r].pc \in {"idle", "retry"}
  /\ writer' = [writer EXCEPT ![r].pc = "transact", ![r].seen = hold,
                              ![r].attempt = @ + 1]
  /\ UNCHANGED <<hold, storeVars, evidenceVars, command, uploader, faults>>

\* Mutant: one attempt too many.
Retry_OneTooMany(r) ==
  writer' = [writer EXCEPT
    ![r] = IF @.attempt <= MaxAttempts THEN [@ EXCEPT !.pc = "retry"]
           ELSE [@ EXCEPT !.pc = "idle", !.attempt = 0]]

\* The attempt ends: the loop goes on until the attempts are spent, and then
\* raises HoldStateConcurrencyExceededError.
Retry(r) ==
  writer' = [writer EXCEPT
    ![r] = IF @.attempt < MaxAttempts THEN [@ EXCEPT !.pc = "retry"]
           ELSE [@ EXCEPT !.pc = "idle", !.attempt = 0]]

\* run returns or raises.
EndRun(r) == writer' = [writer EXCEPT ![r].pc = "idle", ![r].attempt = 0]

\* compute_ttl_disposal_at: omitted if and only if the hold that was read is
\* ACTIVE.
GovernedPut(r) ==
  ttl' = [ttl EXCEPT ![r] =
            IF writer[r].seen.status = "ACTIVE" THEN "removed" ELSE "set"]

\* Mutant: the record is written without the condition on hold_version.
TransactWrite_Unconditioned(r) ==
  /\ writer[r].pc = "transact"
  /\ GovernedPut(r) /\ EndRun(r)
  /\ UNCHANGED <<hold, storeVars, object, command, uploader, faults>>

\* The transaction writes the record on condition that hold_version is still
\* the one read.  A cancelled transaction is tried again, whether the condition
\* or a transient conflict cancelled it; any other error is raised.
TransactWrite(r) ==
  /\ writer[r].pc = "transact"
  /\ \/ /\ hold.hold_version = writer[r].seen.hold_version
        /\ GovernedPut(r) /\ EndRun(r) /\ NoFault
     \/ /\ hold.hold_version # writer[r].seen.hold_version
        /\ Retry(r) /\ NoFault
        /\ UNCHANGED ttl
     \/ /\ Retry(r) \/ EndRun(r)
        /\ Fault
        /\ UNCHANGED ttl
  /\ UNCHANGED <<hold, storeVars, object, command, uploader>>

-----------------------------------------------------------------------------
(***************************************************************************)
(* S3StorageClient.write_raw_results_once                                  *)
(***************************************************************************)

ReadHoldForObject(o) ==
  /\ uploader[o].pc = "idle"
  /\ uploader' = [uploader EXCEPT ![o].pc = "put",
                                  ![o].held = hold.status = "ACTIVE"]
  /\ UNCHANGED <<hold, storeVars, evidenceVars, command, writer, faults>>

PutObject(o) ==
  /\ uploader[o].pc = "put"
  /\ object' = [object EXCEPT ![o] =
       [tag |-> IF uploader[o].held THEN "true" ELSE "false", time |-> s3time]]
  /\ uploader' = [uploader EXCEPT ![o].pc = "done"]
  /\ UNCHANGED <<hold, storeVars, ttl, command, writer, faults>>

-----------------------------------------------------------------------------

NeverHeld == [status |-> "NEVER_HELD", hold_id |-> NoHold, hold_version |-> 0,
              sweep_status |-> "PENDING"]

HoldInit ==
  /\ hold = NeverHeld
  /\ event = [t \in Transitions |-> "absent"]
  /\ marker = [t \in Transitions |-> 0]
  /\ ttl = [r \in Records |-> "absent"]
  /\ object = [o \in Objects |-> [tag |-> "absent", time |-> 0]]
  /\ s3time = 0
  /\ command = [c \in HoldCommands |->
       [pc |-> "idle", seen |-> NeverHeld, hold_id |-> NoHold,
        hold_version |-> 0, sweep_status |-> "PENDING", targets |-> {}]]
  /\ writer = [r \in Records |->
       [pc |-> "idle", seen |-> NeverHeld, attempt |-> 0]]
  /\ uploader = [o \in Objects |-> [pc |-> "idle", held |-> FALSE]]
  /\ faults = 0

HoldStep(c) ==
  \/ WriteHoldEvent(c) \/ UpsertHold(c)
  \/ CheckMarker(c) \/ EstablishMarker(c) \/ ConfirmMarker(c)
  \/ MarkEventMarkerFailed(c)
  \/ ReadHold(c) \/ OverwriteHold(c)
  \/ QueryRecords(c) \/ (\E r \in Records : SweepRecord(c, r))
  \/ ListVersions(c) \/ (\E o \in Objects : RetagVersion(c, o))
  \/ ListForReconciliation(c) \/ FinishSweep(c)

HoldNext ==
  \/ \E c \in HoldCommands : \/ BeginPlace(c) \/ BeginRelease(c)
                             \/ HoldStep(c) \/ HoldCrash(c)
  \/ \E r \in Records : ReadHoldForRecord(r) \/ TransactWrite(r)
  \/ \E o \in Objects : ReadHoldForObject(o) \/ PutObject(o)

HoldSpec == HoldInit /\ [][HoldNext]_holdVars

-----------------------------------------------------------------------------

HoldRecord ==
  [status : {"NEVER_HELD", "ACTIVE", "RELEASED"}, hold_id : HoldIds,
   hold_version : 0 .. MaxVersion, sweep_status : SweepStatuses]

HoldCommandRecord ==
  [pc : HoldCommandPcs, seen : HoldRecord, hold_id : HoldIds,
   hold_version : 0 .. MaxVersion, sweep_status : SweepStatuses \cup {"KEEP"},
   targets : SUBSET (Records \cup Objects)]

\* The stored items and every process have the shape the code gives them; a
\* governed write never makes more than the allowed number of attempts.
HoldTypeOK ==
  /\ hold \in HoldRecord
  /\ event \in [Transitions -> MarkerStatuses]
  /\ marker \in [Transitions -> Nat]
  /\ ttl \in [Records -> {"absent", "set", "removed"}]
  /\ object \in [Objects -> [tag : {"absent", "true", "false"}, time : Nat]]
  /\ s3time \in Nat
  /\ command \in [HoldCommands -> HoldCommandRecord]
  /\ writer \in [Records -> [pc : {"idle", "retry", "transact"},
                             seen : HoldRecord, attempt : 0 .. MaxAttempts]]
  /\ uploader \in [Objects -> [pc : {"idle", "put", "done"}, held : BOOLEAN]]
  /\ faults \in 0 .. MaxFaults

\* What a complete sweep says of the DynamoDB records is true of every one of
\* them, those written while the sweep ran included: under an ACTIVE hold no
\* record has ttl_disposal_at, after a RELEASED one every record has it again.
\* This holds through crashes and resumption as long as commands do not
\* overlap.
RecordsMatchHold ==
  hold.sweep_status = "COMPLETE" =>
    \A r \in Records : /\ hold.status = "ACTIVE" => ttl[r] # "set"
                       /\ hold.status = "RELEASED" => ttl[r] # "removed"

\* For S3 objects a complete sweep is true of all that were put before the
\* sweep listed them for reconciliation, which was the last time s3time moved:
\* an upload that read the hold before the transition and ends during the
\* sweep is caught, one that ends after it is not.
ObjectsMatchHold ==
  hold.sweep_status = "COMPLETE" =>
    \A o \in Objects :
      Stored(o) /\ object[o].time < s3time =>
        /\ hold.status = "ACTIVE" => object[o].tag = "true"
        /\ hold.status = "RELEASED" => object[o].tag = "false"

\* hold_version grows by exactly one whenever the audit is placed under hold
\* or released, and changes at no other time: writers that condition on it
\* notice every transition.
VersionCountsTransitions ==
  [][IF hold'.status # hold.status
     THEN hold'.hold_version = hold.hold_version + 1
     ELSE hold'.hold_version = hold.hold_version]_holdVars

=============================================================================
