-------------------------- MODULE LegalHold_proofs --------------------------
(***************************************************************************)
(* Proofs about LegalHold, for any number of commands, records and objects *)
(* and any number of faults: a complete sweep is true of the evidence, and *)
(* hold_version counts the transitions.                                    *)
(***************************************************************************)
EXTENDS LegalHold, TLAPS

(***************************************************************************)
(* The shape of the state                                                  *)
(***************************************************************************)

WriterRecord ==
  [pc : {"idle", "retry", "transact"}, seen : HoldRecord, attempt : 0 .. MaxAttempts]

ObjectRecord == [tag : {"absent", "true", "false"}, time : Nat]

\* A governed write counts its attempts from none, and another attempt is made
\* only while some are left.
AttemptsLeft(r) ==
  /\ writer[r].pc = "idle" => writer[r].attempt = 0
  /\ writer[r].pc = "retry" => writer[r].attempt < MaxAttempts

HoldShape == HoldTypeOK /\ \A r \in Records : AttemptsLeft(r)

-----------------------------------------------------------------------------

\* Every command but c is as it was.
OthersCommand(c) == \A d \in HoldCommands : d # c => command'[d] = command[d]

\* What the steps of a command change of it.
LEMMA GotoFields ==
  ASSUME command \in [HoldCommands -> HoldCommandRecord], NEW c \in HoldCommands,
         NEW p \in HoldCommandPcs, HoldGoto(c, p)
  PROVE  /\ command' \in [HoldCommands -> HoldCommandRecord]
         /\ OthersCommand(c)
         /\ command'[c].pc = p
         /\ command'[c].seen = command[c].seen
         /\ command'[c].hold_id = command[c].hold_id
         /\ command'[c].hold_version = command[c].hold_version
         /\ command'[c].sweep_status = command[c].sweep_status
         /\ command'[c].targets = command[c].targets
BY DEF HoldGoto, HoldCommandRecord, OthersCommand

LEMMA SetSweepStatusFields ==
  ASSUME command \in [HoldCommands -> HoldCommandRecord], NEW c \in HoldCommands,
         NEW s \in SweepStatuses \cup {"KEEP"}, SetSweepStatus(c, s)
  PROVE  /\ command' \in [HoldCommands -> HoldCommandRecord]
         /\ OthersCommand(c)
         /\ command'[c].pc = "read"
         /\ command'[c].hold_id = command[c].hold_id
         /\ command'[c].hold_version = command[c].hold_version
         /\ command'[c].sweep_status = s
<1>1. "read" \in HoldCommandPcs
  BY DEF HoldCommandPcs
<1>2. /\ command' \in [HoldCommands -> HoldCommandRecord]
      /\ command'[c] = [command[c] EXCEPT !.pc = "read", !.sweep_status = s]
      /\ OthersCommand(c)
  BY <1>1 DEF SetSweepStatus, HoldCommandRecord, OthersCommand
<1>3. command[c] \in HoldCommandRecord
  OBVIOUS
<1>. QED
  BY <1>2, <1>3 DEF HoldCommandRecord

LEMMA ChooseFields ==
  ASSUME command \in [HoldCommands -> HoldCommandRecord], NEW c \in HoldCommands,
         NEW i \in HoldIds, NEW v \in 0 .. MaxVersion, NEW p \in HoldCommandPcs,
         Choose(c, i, v, p)
  PROVE  /\ command' \in [HoldCommands -> HoldCommandRecord]
         /\ OthersCommand(c)
         /\ command'[c].pc = p
         /\ command'[c].hold_id = i
         /\ command'[c].hold_version = v
<1>1. /\ command' \in [HoldCommands -> HoldCommandRecord]
      /\ command'[c] = [command[c] EXCEPT !.pc = p, !.hold_id = i, !.hold_version = v]
      /\ OthersCommand(c)
  BY DEF Choose, HoldCommandRecord, OthersCommand
<1>2. command[c] \in HoldCommandRecord
  OBVIOUS
<1>. QED
  BY <1>1, <1>2 DEF HoldCommandRecord

LEMMA ReadHoldFields ==
  ASSUME command \in [HoldCommands -> HoldCommandRecord], NEW c \in HoldCommands,
         hold \in HoldRecord, ReadHold(c)
  PROVE  /\ command' \in [HoldCommands -> HoldCommandRecord]
         /\ OthersCommand(c)
         /\ command'[c].pc = "write"
         /\ command'[c].seen = hold
         /\ command'[c].hold_id = command[c].hold_id
         /\ command'[c].hold_version = command[c].hold_version
         /\ command'[c].sweep_status = command[c].sweep_status
<1>1. "write" \in HoldCommandPcs
  BY DEF HoldCommandPcs
<1>2. /\ command' \in [HoldCommands -> HoldCommandRecord]
      /\ command'[c] = [command[c] EXCEPT !.pc = "write", !.seen = hold]
      /\ OthersCommand(c)
  BY <1>1 DEF ReadHold, HoldCommandRecord, OthersCommand
<1>3. command[c] \in HoldCommandRecord
  OBVIOUS
<1>. QED
  BY <1>2, <1>3 DEF HoldCommandRecord

LEMMA StartPassFields ==
  ASSUME command \in [HoldCommands -> HoldCommandRecord], NEW c \in HoldCommands,
         NEW p \in HoldCommandPcs, NEW targets \in SUBSET (Records \cup Objects),
         StartPass(c, p, targets)
  PROVE  /\ command' \in [HoldCommands -> HoldCommandRecord]
         /\ OthersCommand(c)
         /\ command'[c].pc = p
         /\ command'[c].targets = targets
         /\ command'[c].hold_id = command[c].hold_id
         /\ command'[c].hold_version = command[c].hold_version
<1>1. /\ command' \in [HoldCommands -> HoldCommandRecord]
      /\ command'[c] = [command[c] EXCEPT !.pc = p, !.targets = targets]
      /\ OthersCommand(c)
  BY DEF StartPass, HoldCommandRecord, OthersCommand
<1>2. command[c] \in HoldCommandRecord
  OBVIOUS
<1>. QED
  BY <1>1, <1>2 DEF HoldCommandRecord

LEMMA VisitFields ==
  ASSUME command \in [HoldCommands -> HoldCommandRecord], NEW c \in HoldCommands,
         NEW p, NEW x, Visit(c, p, x)
  PROVE  /\ command' \in [HoldCommands -> HoldCommandRecord]
         /\ OthersCommand(c)
         /\ command'[c].pc = command[c].pc
         /\ command'[c].targets = command[c].targets \ {x}
         /\ command'[c].hold_id = command[c].hold_id
         /\ command'[c].hold_version = command[c].hold_version
         /\ command'[c].sweep_status = command[c].sweep_status
         /\ command'[c].seen = command[c].seen
<1>1. command[c] \in HoldCommandRecord
  OBVIOUS
<1>2. command'[c] = [command[c] EXCEPT !.targets = command[c].targets \ {x}]
        /\ OthersCommand(c)
  BY DEF Visit, HoldCommandRecord, OthersCommand
<1>3. command'[c] \in HoldCommandRecord
  BY <1>1, <1>2 DEF HoldCommandRecord
<1>4. command' \in [HoldCommands -> HoldCommandRecord]
  BY <1>3 DEF Visit
<1>. QED
  BY <1>1, <1>2, <1>4 DEF HoldCommandRecord

-----------------------------------------------------------------------------
(***************************************************************************)
(* The types of the state                                                  *)
(***************************************************************************)

LEMMA HoldInitShape == HoldInit => HoldShape
<1> SUFFICES ASSUME HoldInit
             PROVE  HoldShape
  OBVIOUS
<1>1. NeverHeld \in HoldRecord
  BY LegalHoldAssumption DEF LegalHoldAssumption, NeverHeld, HoldRecord, HoldIds,
    SweepStatuses
<1>2. [pc |-> "idle", seen |-> NeverHeld, hold_id |-> NoHold, hold_version |-> 0,
       sweep_status |-> "PENDING", targets |-> {}] \in HoldCommandRecord
  BY <1>1, LegalHoldAssumption DEF LegalHoldAssumption, HoldCommandRecord, HoldCommandPcs,
    HoldIds, SweepStatuses
<1>3. [pc |-> "idle", seen |-> NeverHeld, attempt |-> 0] \in WriterRecord
  BY <1>1, LegalHoldAssumption DEF LegalHoldAssumption, WriterRecord
<1>4. /\ event \in [Transitions -> MarkerStatuses]
      /\ marker \in [Transitions -> Nat]
      /\ ttl \in [Records -> {"absent", "set", "removed"}]
      /\ object \in [Objects -> ObjectRecord]
      /\ s3time \in Nat
      /\ uploader \in [Objects -> [pc : {"idle", "put", "done"}, held : BOOLEAN]]
      /\ faults \in 0 .. MaxFaults
  BY LegalHoldAssumption DEF LegalHoldAssumption, HoldInit, MarkerStatuses, ObjectRecord
<1>5. hold \in HoldRecord /\ command \in [HoldCommands -> HoldCommandRecord]
        /\ writer \in [Records -> WriterRecord]
  BY <1>1, <1>2, <1>3 DEF HoldInit
<1>6. \A r \in Records : AttemptsLeft(r)
  BY DEF HoldInit, AttemptsLeft
<1>. QED
  BY <1>4, <1>5, <1>6 DEF HoldShape, HoldTypeOK, WriterRecord, ObjectRecord

\* The steps of a command.
LEMMA CommandShape ==
  ASSUME HoldShape, NEW c \in HoldCommands,
         BeginPlace(c) \/ BeginRelease(c) \/ HoldStep(c) \/ HoldCrash(c)
  PROVE  HoldShape'
<1>1. /\ hold \in HoldRecord
      /\ event \in [Transitions -> MarkerStatuses]
      /\ marker \in [Transitions -> Nat]
      /\ ttl \in [Records -> {"absent", "set", "removed"}]
      /\ object \in [Objects -> ObjectRecord]
      /\ s3time \in Nat
      /\ command \in [HoldCommands -> HoldCommandRecord]
      /\ command[c] \in HoldCommandRecord
      /\ faults \in 0 .. MaxFaults
  BY DEF HoldShape, HoldTypeOK, ObjectRecord
<1>2. writer' = writer /\ uploader' = uploader
  BY DEF BeginPlace, BeginRelease, HoldStep, HoldCrash, WriteHoldEvent, UpsertHold,
    CheckMarker, EstablishMarker, ConfirmMarker, MarkEventMarkerFailed, ReadHold,
    OverwriteHold, QueryRecords, SweepRecord, ListVersions, RetagVersion,
    ListForReconciliation, FinishSweep, writeVars
<1> DEFINE Rest ==
             /\ hold' \in HoldRecord
             /\ event' \in [Transitions -> MarkerStatuses]
             /\ marker' \in [Transitions -> Nat]
             /\ ttl' \in [Records -> {"absent", "set", "removed"}]
             /\ object' \in [Objects -> ObjectRecord]
             /\ s3time' \in Nat
             /\ faults' \in 0 .. MaxFaults
<1>3. ASSUME command' \in [HoldCommands -> HoldCommandRecord], Rest
      PROVE  HoldShape'
  BY <1>2, <1>3 DEF HoldShape, HoldTypeOK, AttemptsLeft, ObjectRecord, WriterRecord
<1>4. "event" \in HoldCommandPcs /\ "upsert" \in HoldCommandPcs
        /\ "check_marker" \in HoldCommandPcs /\ "marker" \in HoldCommandPcs
        /\ "confirm" \in HoldCommandPcs /\ "marker_failed" \in HoldCommandPcs
        /\ "query" \in HoldCommandPcs /\ "sweep_records" \in HoldCommandPcs
        /\ "retag" \in HoldCommandPcs /\ "reconcile" \in HoldCommandPcs
        /\ "done" \in HoldCommandPcs /\ "raised" \in HoldCommandPcs
        /\ "crashed" \in HoldCommandPcs
  BY DEF HoldCommandPcs
<1>5. "IN_PROGRESS" \in SweepStatuses /\ "COMPLETE" \in SweepStatuses
        /\ "FAILED" \in SweepStatuses /\ "PENDING" \in SweepStatuses
  BY DEF SweepStatuses
<1>6. CASE BeginPlace(c) \/ BeginRelease(c)
  <2>1. Rest
    BY <1>1, <1>6 DEF BeginPlace, BeginRelease, storeVars, evidenceVars
  <2>2. /\ hold.hold_version \in 0 .. MaxVersion /\ hold.hold_version + 1 \in 0 .. MaxVersion
        /\ hold.hold_id \in HoldIds /\ c \in HoldIds
    BY <1>1, <1>6, LegalHoldAssumption DEF LegalHoldAssumption, BeginPlace, BeginRelease,
      Starts, HoldRecord, HoldIds
  <2>3. command' \in [HoldCommands -> HoldCommandRecord]
    BY <1>1, <1>4, <1>6, <2>2, ChooseFields, GotoFields DEF BeginPlace, BeginRelease
  <2>. QED
    BY <1>3, <2>1, <2>3
<1>7. CASE WriteHoldEvent(c) \/ CheckMarker(c)
  <2>1. Rest
    BY <1>1, <1>7 DEF WriteHoldEvent, CheckMarker, storeVars, evidenceVars, MarkerStatuses
  <2>. QED
    BY <1>1, <1>3, <1>4, <1>5, <1>7, <2>1, GotoFields, SetSweepStatusFields
      DEF WriteHoldEvent, CheckMarker
<1>8. CASE UpsertHold(c)
  <2>1. Rest
    BY <1>1, <1>5, <1>8 DEF UpsertHold, storeVars, evidenceVars, HoldRecord,
      HoldCommandRecord, Status
  <2>. QED
    BY <1>1, <1>3, <1>4, <1>8, <2>1, GotoFields DEF UpsertHold
<1>9. CASE EstablishMarker(c)
  <2>1. marker' \in [Transitions -> Nat] /\ s3time' \in Nat
    BY <1>1, <1>9 DEF EstablishMarker, PutMarker
  <2>2. faults' \in 0 .. MaxFaults
    BY <1>1, <1>9, LegalHoldAssumption DEF LegalHoldAssumption, EstablishMarker, Fault, NoFault
  <2>3. Rest
    BY <1>1, <1>9, <2>1, <2>2 DEF EstablishMarker, evidenceVars
  <2>. QED
    BY <1>1, <1>3, <1>4, <1>9, <2>3, GotoFields DEF EstablishMarker
<1>10. CASE ConfirmMarker(c) \/ MarkEventMarkerFailed(c) \/ FinishSweep(c)
  <2>1. Rest
    BY <1>1, <1>10 DEF ConfirmMarker, MarkEventMarkerFailed, FinishSweep, storeVars,
      evidenceVars, MarkerStatuses
  <2>. QED
    BY <1>1, <1>3, <1>5, <1>10, <2>1, SetSweepStatusFields DEF ConfirmMarker,
      MarkEventMarkerFailed, FinishSweep
<1>11. CASE ReadHold(c)
  <2>1. Rest
    BY <1>1, <1>11 DEF ReadHold, storeVars, evidenceVars
  <2>. QED
    BY <1>1, <1>3, <1>11, <2>1, ReadHoldFields
<1>12. CASE OverwriteHold(c)
  <2>1. /\ command[c].seen \in HoldRecord
        /\ command[c].sweep_status \in SweepStatuses \cup {"KEEP"}
    BY <1>1 DEF HoldCommandRecord
  <2>2. Rest
    BY <1>1, <1>12, <2>1 DEF OverwriteHold, storeVars, evidenceVars, HoldRecord
  <2>. QED
    BY <1>1, <1>3, <1>4, <1>5, <1>12, <2>2, GotoFields, SetSweepStatusFields
      DEF OverwriteHold
<1>13. CASE QueryRecords(c) \/ ListVersions(c) \/ ListForReconciliation(c)
  <2>1. Rest
    BY <1>1, <1>13 DEF QueryRecords, ListVersions, ListForReconciliation, storeVars,
      evidenceVars
  <2>. QED
    BY <1>1, <1>3, <1>4, <1>13, <2>1, StartPassFields DEF QueryRecords, ListVersions,
      ListForReconciliation
<1>14. ASSUME NEW r \in Records, SweepRecord(c, r)
      PROVE  HoldShape'
  <2>1. Rest
    BY <1>1, <1>14 DEF SweepRecord, storeVars
  <2>. QED
    BY <1>1, <1>3, <1>14, <2>1, VisitFields DEF SweepRecord
<1>15. ASSUME NEW o \in Objects, RetagVersion(c, o)
      PROVE  HoldShape'
  <2>1. object[o] \in ObjectRecord /\ Tag(c) \in {"true", "false"}
    BY <1>1 DEF Tag
  <2>2. [object[o] EXCEPT !.tag = Tag(c)] \in ObjectRecord
    BY <2>1 DEF ObjectRecord
  <2>3. object' = [object EXCEPT ![o] = [object[o] EXCEPT !.tag = Tag(c)]]
    BY <1>1, <1>15 DEF RetagVersion
  <2>4. object' \in [Objects -> ObjectRecord]
    BY <1>1, <2>2, <2>3
  <2>5. Rest
    BY <1>1, <1>15, <2>4 DEF RetagVersion, storeVars
  <2>. QED
    BY <1>1, <1>3, <1>15, <2>5, VisitFields DEF RetagVersion
<1>16. CASE HoldCrash(c)
  <2>1. Rest
    BY <1>1, <1>16, LegalHoldAssumption DEF LegalHoldAssumption, HoldCrash, Fault,
      storeVars, evidenceVars
  <2>. QED
    BY <1>1, <1>3, <1>4, <1>16, <2>1, GotoFields DEF HoldCrash
<1>. QED
  BY <1>6, <1>7, <1>8, <1>9, <1>10, <1>11, <1>12, <1>13, <1>14, <1>15, <1>16 DEF HoldStep

\* What an attempt's end does to the writer.
LEMMA WriterFields ==
  ASSUME HoldShape, NEW r \in Records,
         ReadHoldForRecord(r) \/ Retry(r) \/ EndRun(r)
  PROVE  /\ writer' \in [Records -> WriterRecord]
         /\ \A q \in Records : AttemptsLeft(q)'
         /\ \A q \in Records : writer'[q].seen = writer[q].seen \/ writer'[q].seen = hold
<1>1. /\ writer \in [Records -> WriterRecord]
      /\ writer[r] \in WriterRecord
      /\ hold \in HoldRecord
      /\ \A q \in Records : AttemptsLeft(q)
  BY DEF HoldShape, HoldTypeOK, WriterRecord
<1>2. MaxAttempts \in Nat \ {0} /\ 0 \in 0 .. MaxAttempts
  BY LegalHoldAssumption DEF LegalHoldAssumption
<1>3. \A q \in Records : q # r => writer'[q] = writer[q]
  BY <1>1 DEF ReadHoldForRecord, Retry, EndRun
<1>4. /\ writer'[r] \in WriterRecord
      /\ writer'[r].seen = writer[r].seen \/ writer'[r].seen = hold
      /\ AttemptsLeft(r)'
  <2>1. CASE ReadHoldForRecord(r)
    <3>1. writer'[r] = [writer[r] EXCEPT !.pc = "transact", !.seen = hold,
                                         !.attempt = writer[r].attempt + 1]
      BY <1>1, <2>1 DEF ReadHoldForRecord
    <3>2. writer[r].attempt + 1 \in 0 .. MaxAttempts
      BY <1>1, <1>2, <2>1 DEF ReadHoldForRecord, AttemptsLeft, WriterRecord
    <3>. QED
      BY <1>1, <3>1, <3>2 DEF WriterRecord, AttemptsLeft
  <2>2. CASE Retry(r)
    <3>1. CASE writer[r].attempt < MaxAttempts
      <4>1. writer'[r] = [writer[r] EXCEPT !.pc = "retry"]
        BY <1>1, <2>2, <3>1 DEF Retry
      <4>. QED
        BY <1>1, <3>1, <4>1 DEF WriterRecord, AttemptsLeft
    <3>2. CASE ~ (writer[r].attempt < MaxAttempts)
      <4>1. writer'[r] = [writer[r] EXCEPT !.pc = "idle", !.attempt = 0]
        BY <1>1, <2>2, <3>2 DEF Retry
      <4>. QED
        BY <1>1, <1>2, <4>1 DEF WriterRecord, AttemptsLeft
    <3>. QED
      BY <3>1, <3>2
  <2>3. CASE EndRun(r)
    <3>1. writer'[r] = [writer[r] EXCEPT !.pc = "idle", !.attempt = 0]
      BY <1>1, <2>3 DEF EndRun
    <3>. QED
      BY <1>1, <1>2, <3>1 DEF WriterRecord, AttemptsLeft
  <2>. QED
    BY <2>1, <2>2, <2>3
<1>5. writer' \in [Records -> WriterRecord]
  BY <1>1, <1>4 DEF ReadHoldForRecord, Retry, EndRun
<1>. QED
  BY <1>1, <1>3, <1>4, <1>5 DEF AttemptsLeft

\* The steps of a writer or an uploader.
LEMMA WriteShape ==
  ASSUME HoldShape,
         \/ \E r \in Records : ReadHoldForRecord(r) \/ TransactWrite(r)
         \/ \E o \in Objects : ReadHoldForObject(o) \/ PutObject(o)
  PROVE  HoldShape'
<1>1. /\ hold \in HoldRecord /\ s3time \in Nat
      /\ object \in [Objects -> ObjectRecord]
      /\ ttl \in [Records -> {"absent", "set", "removed"}]
      /\ faults \in 0 .. MaxFaults
  BY DEF HoldShape, HoldTypeOK, ObjectRecord
<1>2. ASSUME NEW r \in Records, ReadHoldForRecord(r) \/ TransactWrite(r)
      PROVE  HoldShape'
  <2>1. ReadHoldForRecord(r) \/ Retry(r) \/ EndRun(r)
    BY <1>2 DEF TransactWrite
  <2>2. /\ ttl' \in [Records -> {"absent", "set", "removed"}]
        /\ faults' \in 0 .. MaxFaults
    <3>1. CASE ReadHoldForRecord(r)
      BY <1>1, <3>1 DEF ReadHoldForRecord, evidenceVars
    <3>2. CASE TransactWrite(r)
      <4>1. ttl' \in [Records -> {"absent", "set", "removed"}]
        BY <1>1, <3>2 DEF TransactWrite, GovernedPut
      <4>2. faults' \in 0 .. MaxFaults
        BY <1>1, <3>2, LegalHoldAssumption DEF LegalHoldAssumption, TransactWrite, Fault,
          NoFault
      <4>. QED
        BY <4>1, <4>2
    <3>. QED
      BY <1>2, <3>1, <3>2
  <2>3. UNCHANGED <<hold, storeVars, object, command, uploader>>
    BY <1>2 DEF ReadHoldForRecord, TransactWrite, evidenceVars
  <2>4. writer' \in [Records -> WriterRecord] /\ \A q \in Records : AttemptsLeft(q)'
    BY <2>1, WriterFields
  <2>. QED
    BY <2>2, <2>3, <2>4 DEF HoldShape, HoldTypeOK, storeVars, WriterRecord
<1>3. ASSUME NEW o \in Objects, ReadHoldForObject(o) \/ PutObject(o)
      PROVE  HoldShape'
  <2>1. object' \in [Objects -> ObjectRecord]
    BY <1>1, <1>3 DEF ReadHoldForObject, PutObject, evidenceVars, ObjectRecord
  <2>2. uploader' \in [Objects -> [pc : {"idle", "put", "done"}, held : BOOLEAN]]
    BY <1>3 DEF ReadHoldForObject, PutObject, HoldShape, HoldTypeOK
  <2>3. UNCHANGED <<hold, storeVars, ttl, command, writer, faults>>
    BY <1>3 DEF ReadHoldForObject, PutObject, evidenceVars
  <2>. QED
    BY <2>1, <2>2, <2>3 DEF HoldShape, HoldTypeOK, AttemptsLeft, storeVars, ObjectRecord
<1>. QED
  BY <1>2, <1>3

LEMMA HoldShapeStep == HoldShape /\ [HoldNext]_holdVars => HoldShape'
<1>1. HoldShape /\ HoldNext => HoldShape'
  BY CommandShape, WriteShape DEF HoldNext
<1>2. HoldShape /\ UNCHANGED holdVars => HoldShape'
  BY DEF HoldShape, HoldTypeOK, AttemptsLeft, holdVars, storeVars, evidenceVars, writeVars
<1>. QED
  BY <1>1, <1>2

LEMMA HoldShapeHolds == HoldSpec => []HoldShape
BY HoldInitShape, HoldShapeStep, PTL DEF HoldSpec

\* The stored items and every process keep the shape the code gives them, with
\* overlapping commands too, and a governed write never makes more than the
\* allowed number of attempts, however many times the hold is changed under it.
THEOREM HoldTypeCorrect == HoldSpec => []HoldTypeOK
BY HoldShapeHolds, PTL DEF HoldShape

-----------------------------------------------------------------------------
(***************************************************************************)
(* The inductive invariant.  Without overlap one command at a time moves   *)
(* the hold, and only a command with a new transition finds the sweep of   *)
(* the last one complete.                                                  *)
(***************************************************************************)

\* A record and an object as the hold asks.
RecordMatches(status, r) ==
  /\ status = "ACTIVE" => ttl[r] # "set"
  /\ status = "RELEASED" => ttl[r] # "removed"

ObjectMatches(status, o) ==
  /\ status = "ACTIVE" => object[o].tag = "true"
  /\ status = "RELEASED" => object[o].tag = "false"

Completing(c) == command[c].pc \in {"read", "write"} /\ command[c].sweep_status = "COMPLETE"

\* A running command is about to make its transition, or works on the present
\* one, whose sweep is not complete.
TransitionInv(c) ==
  /\ command[c].hold_version \in 1 .. MaxVersion
  /\ \/ /\ command[c].pc \in {"event", "upsert"}
        /\ command[c].hold_version = hold.hold_version + 1
        /\ hold.status # Status(c)
     \/ /\ command[c].pc \notin {"event", "upsert"}
        /\ command[c].hold_version = hold.hold_version
        /\ hold.status = Status(c)
        /\ hold.sweep_status # "COMPLETE"
  /\ command[c].pc = "write" => command[c].seen = hold

\* What a sweep has passed is as it should be: a record once it has been visited,
\* an object once it has been visited, or when it is left to the reconciliation.
SweepInv(c) ==
  /\ command[c].pc = "sweep_records" =>
       \A r \in Records \ command[c].targets : RecordMatches(Status(c), r)
  /\ command[c].pc \in {"retag", "reconcile"} \/ Completing(c) =>
       \A r \in Records : RecordMatches(Status(c), r)
  /\ command[c].pc = "retag" =>
       \A o \in Objects \ command[c].targets :
         Stored(o) /\ object[o].time < marker[TransitionOf(c)] => ObjectMatches(Status(c), o)
  /\ command[c].pc = "reconcile" =>
       \A o \in Objects \ command[c].targets :
         Stored(o) /\ object[o].time < s3time => ObjectMatches(Status(c), o)
  /\ Completing(c) =>
       \A o \in Objects :
         Stored(o) /\ object[o].time < s3time => ObjectMatches(Status(c), o)

CommandInv(c) == Running(c) => TransitionInv(c) /\ SweepInv(c)

\* A writer that has read the present hold_version has read the present status.
WriterInv(r) ==
  /\ writer[r].seen.hold_version <= hold.hold_version
  /\ writer[r].seen.hold_version = hold.hold_version => writer[r].seen.status = hold.status

HoldInv ==
  /\ HoldShape
  /\ hold.status # "NEVER_HELD" => hold.hold_version # 0
  /\ \A t \in Transitions : marker[t] <= s3time
  /\ \A c, d \in HoldCommands : Running(c) /\ Running(d) => c = d
  /\ \A c \in HoldCommands : CommandInv(c)
  /\ \A r \in Records : WriterInv(r)
  /\ RecordsMatchHold
  /\ ObjectsMatchHold

LEMMA HoldInitSound == HoldInit => HoldInv
<1> SUFFICES ASSUME HoldInit
             PROVE  HoldInv
  OBVIOUS
<1>1. HoldShape
  BY HoldInitShape
<1>2. \A c \in HoldCommands : ~ Running(c)
  BY DEF HoldInit, Running
<1>. QED
  BY <1>1, <1>2 DEF HoldInit, HoldInv, NeverHeld, CommandInv, WriterInv, RecordsMatchHold,
    ObjectsMatchHold

\* While a command runs, or starts, no other one runs.
LEMMA OnlyCommand ==
  ASSUME HoldInv, ~ Overlapping, NEW c \in HoldCommands, Running(c) \/ Starts(c),
         OthersCommand(c)
  PROVE  \A d \in HoldCommands : Running(d)' => d = c
BY DEF HoldInv, Starts, OthersCommand, Running

LEMMA TransitionKept ==
  ASSUME NEW c \in HoldCommands, TransitionInv(c), hold' = hold,
         command[c].pc \notin {"event", "upsert"},
         command'[c].pc \notin {"event", "upsert", "write"},
         command'[c].hold_version = command[c].hold_version
  PROVE  TransitionInv(c)'
BY DEF TransitionInv

LEMMA NotSweeping ==
  ASSUME NEW c \in HoldCommands,
         command'[c].pc \notin {"sweep_records", "retag", "reconcile"},
         command'[c].pc \in {"read", "write"} => command'[c].sweep_status # "COMPLETE"
  PROVE  SweepInv(c)'
BY DEF SweepInv, Completing

\* A command step that touches neither the hold nor the evidence.
LEMMA QuietCommand ==
  ASSUME HoldInv, HoldShape', ~ Overlapping, NEW c \in HoldCommands,
         Running(c) \/ Starts(c), OthersCommand(c),
         UNCHANGED <<hold, marker, s3time, ttl, object, writer>>,
         Running(c)' => TransitionInv(c)' /\ SweepInv(c)'
  PROVE  HoldInv'
<1>1. \A d \in HoldCommands : Running(d)' => d = c
  BY OnlyCommand
<1>2. \A d \in HoldCommands : CommandInv(d)'
  BY <1>1 DEF CommandInv
<1>3. RecordsMatchHold' /\ ObjectsMatchHold' /\ \A r \in Records : WriterInv(r)'
  BY DEF HoldInv, RecordsMatchHold, ObjectsMatchHold, WriterInv, Stored
<1>. QED
  BY <1>1, <1>2, <1>3 DEF HoldInv

\* The beginning of a command, and its steps up to the sweep.
LEMMA BeginSound ==
  ASSUME HoldInv, HoldShape', ~ Overlapping, NEW c \in HoldCommands,
         BeginPlace(c) \/ BeginRelease(c)
  PROVE  HoldInv'
<1>1. /\ command \in [HoldCommands -> HoldCommandRecord]
      /\ hold \in HoldRecord
      /\ hold.status # "NEVER_HELD" => hold.hold_version # 0
  BY DEF HoldInv, HoldShape, HoldTypeOK
<1>2. /\ Starts(c)
      /\ UNCHANGED <<hold, marker, s3time, ttl, object, writer>>
  BY DEF BeginPlace, BeginRelease, storeVars, evidenceVars, writeVars
<1>3. /\ "event" \in HoldCommandPcs /\ "check_marker" \in HoldCommandPcs
      /\ "done" \in HoldCommandPcs /\ "raised" \in HoldCommandPcs
  BY DEF HoldCommandPcs
<1>4. /\ hold.hold_version \in 0 .. MaxVersion /\ hold.hold_version + 1 \in 1 .. MaxVersion
      /\ hold.hold_version + 1 \in 0 .. MaxVersion
      /\ hold.hold_id \in HoldIds /\ c \in HoldIds
  BY <1>1, <1>2, LegalHoldAssumption DEF LegalHoldAssumption, Starts, HoldRecord, HoldIds
<1>5. CASE HoldGoto(c, "done") \/ HoldGoto(c, "raised")
  BY <1>1, <1>2, <1>3, <1>5, GotoFields, QuietCommand DEF Running
<1>6. ASSUME NEW i \in HoldIds, hold.status # Status(c),
             Choose(c, i, hold.hold_version + 1, "event")
      PROVE  HoldInv'
  <2>1. /\ OthersCommand(c)
        /\ command'[c].pc = "event"
        /\ command'[c].hold_version = hold.hold_version + 1
    BY <1>1, <1>3, <1>4, <1>6, ChooseFields
  <2>2. TransitionInv(c)'
    BY <1>2, <1>4, <1>6, <2>1 DEF TransitionInv
  <2>3. SweepInv(c)'
    BY <2>1, NotSweeping
  <2>. QED
    BY <1>2, <2>1, <2>2, <2>3, QuietCommand
<1>7. ASSUME hold.status = Status(c), hold.sweep_status # "COMPLETE",
             Choose(c, hold.hold_id, hold.hold_version, "check_marker")
      PROVE  HoldInv'
  <2>1. /\ OthersCommand(c)
        /\ command'[c].pc = "check_marker"
        /\ command'[c].hold_version = hold.hold_version
    BY <1>1, <1>3, <1>4, <1>7, ChooseFields
  <2>2. hold.hold_version \in 1 .. MaxVersion
    BY <1>1, <1>4, <1>7 DEF Status
  <2>3. TransitionInv(c)'
    BY <1>2, <1>7, <2>1, <2>2 DEF TransitionInv
  <2>4. SweepInv(c)'
    BY <2>1, NotSweeping
  <2>. QED
    BY <1>2, <2>1, <2>3, <2>4, QuietCommand
<1>8. CASE BeginPlace(c)
  BY <1>4, <1>5, <1>6, <1>7, <1>8 DEF BeginPlace, Status
<1>9. CASE BeginRelease(c)
  BY <1>4, <1>5, <1>6, <1>7, <1>9 DEF BeginRelease, Status
<1>. QED
  BY <1>8, <1>9

LEMMA EventSound ==
  ASSUME HoldInv, HoldShape', ~ Overlapping, NEW c \in HoldCommands,
         WriteHoldEvent(c) \/ CheckMarker(c) \/ ConfirmMarker(c) \/ MarkEventMarkerFailed(c)
  PROVE  HoldInv'
<1>1. /\ command \in [HoldCommands -> HoldCommandRecord]
      /\ "upsert" \in HoldCommandPcs /\ "raised" \in HoldCommandPcs
      /\ "marker" \in HoldCommandPcs
  BY DEF HoldInv, HoldShape, HoldTypeOK, HoldCommandPcs
<1>2. Running(c) /\ TransitionInv(c)
  BY DEF HoldInv, CommandInv, Running, WriteHoldEvent, CheckMarker, ConfirmMarker,
    MarkEventMarkerFailed
<1>3. UNCHANGED <<hold, marker, s3time, ttl, object, writer>>
  BY DEF WriteHoldEvent, CheckMarker, ConfirmMarker, MarkEventMarkerFailed, storeVars,
    evidenceVars, writeVars
<1>4. CASE WriteHoldEvent(c)
  <2>1. OthersCommand(c) /\ command'[c].pc \in {"upsert", "raised"}
          /\ command'[c].hold_version = command[c].hold_version
    BY <1>1, <1>4, GotoFields DEF WriteHoldEvent
  <2>2. Running(c)' => TransitionInv(c)'
    BY <1>2, <1>3, <1>4, <2>1 DEF TransitionInv, Running, WriteHoldEvent
  <2>3. SweepInv(c)'
    BY <2>1, NotSweeping
  <2>. QED
    BY <1>2, <1>3, <2>1, <2>2, <2>3, QuietCommand
<1>5. CASE CheckMarker(c) \/ ConfirmMarker(c) \/ MarkEventMarkerFailed(c)
  <2>1. \/ HoldGoto(c, "marker")
        \/ \E s \in {"IN_PROGRESS", "KEEP", "FAILED"} : SetSweepStatus(c, s)
    BY <1>5 DEF CheckMarker, ConfirmMarker, MarkEventMarkerFailed
  <2>2. /\ OthersCommand(c)
        /\ \/ command'[c].pc = "marker"
           \/ command'[c].pc = "read" /\ command'[c].sweep_status # "COMPLETE"
        /\ command'[c].hold_version = command[c].hold_version
    <3>1. CASE HoldGoto(c, "marker")
      BY <1>1, <3>1, GotoFields
    <3>2. ASSUME NEW s \in {"IN_PROGRESS", "KEEP", "FAILED"}, SetSweepStatus(c, s)
          PROVE  /\ OthersCommand(c)
                 /\ command'[c].pc = "read" /\ command'[c].sweep_status # "COMPLETE"
                 /\ command'[c].hold_version = command[c].hold_version
      <4>1. s \in SweepStatuses \cup {"KEEP"} /\ s # "COMPLETE"
        BY DEF SweepStatuses
      <4>. QED
        BY <1>1, <3>2, <4>1, SetSweepStatusFields
    <3>. QED
      BY <2>1, <3>1, <3>2
  <2>3. command[c].pc \notin {"event", "upsert"}
    BY <1>5 DEF CheckMarker, ConfirmMarker, MarkEventMarkerFailed
  <2>4. TransitionInv(c)'
    BY <1>2, <1>3, <2>2, <2>3, TransitionKept
  <2>5. SweepInv(c)'
    BY <2>2, NotSweeping
  <2>. QED
    BY <1>2, <1>3, <2>2, <2>4, <2>5, QuietCommand
<1>. QED
  BY <1>4, <1>5

\* The transition takes effect: no writer has read the new version, and the
\* sweep of the new transition is not complete.
LEMMA UpsertSound ==
  ASSUME HoldInv, HoldShape', ~ Overlapping, NEW c \in HoldCommands, UpsertHold(c)
  PROVE  HoldInv'
<1>1. /\ command \in [HoldCommands -> HoldCommandRecord]
      /\ hold \in HoldRecord /\ writer \in [Records -> WriterRecord]
      /\ "check_marker" \in HoldCommandPcs
  BY DEF HoldInv, HoldShape, HoldTypeOK, HoldCommandPcs, WriterRecord
<1>2. /\ Running(c)
      /\ command[c].hold_version \in 1 .. MaxVersion
      /\ command[c].hold_version = hold.hold_version + 1
  BY DEF HoldInv, CommandInv, TransitionInv, Running, UpsertHold
<1>3. UNCHANGED <<marker, s3time, ttl, object, writer>>
  BY DEF UpsertHold, storeVars, evidenceVars, writeVars
<1>4. /\ OthersCommand(c)
      /\ command'[c].pc = "check_marker"
      /\ command'[c].hold_version = command[c].hold_version
  BY <1>1, GotoFields DEF UpsertHold
<1>5. /\ hold'.status = Status(c) /\ hold'.hold_version = command[c].hold_version
      /\ hold'.sweep_status = "PENDING"
  BY DEF UpsertHold
<1>6. TransitionInv(c)'
  BY <1>2, <1>4, <1>5 DEF TransitionInv
<1>7. \A d \in HoldCommands : Running(d)' => d = c
  BY <1>2, <1>4, OnlyCommand
<1>8. \A d \in HoldCommands : CommandInv(d)'
  BY <1>4, <1>6, <1>7, NotSweeping DEF CommandInv
<1>9. ASSUME NEW r \in Records
      PROVE  WriterInv(r)'
  <2>1. writer[r].seen.hold_version <= hold.hold_version
          /\ writer[r].seen.hold_version \in Nat /\ hold.hold_version \in Nat
    BY <1>1 DEF HoldInv, WriterInv, WriterRecord, HoldRecord
  <2>. QED
    BY <1>2, <1>3, <1>5, <2>1 DEF WriterInv
<1>. QED
  BY <1>2, <1>3, <1>5, <1>7, <1>8, <1>9 DEF HoldInv, RecordsMatchHold, ObjectsMatchHold

\* The marker is put while the sweep is not complete.
LEMMA MarkerSound ==
  ASSUME HoldInv, HoldShape', ~ Overlapping, NEW c \in HoldCommands, EstablishMarker(c)
  PROVE  HoldInv'
<1>1. /\ command \in [HoldCommands -> HoldCommandRecord]
      /\ marker \in [Transitions -> Nat] /\ s3time \in Nat
      /\ "confirm" \in HoldCommandPcs /\ "marker_failed" \in HoldCommandPcs
  BY DEF HoldInv, HoldShape, HoldTypeOK, HoldCommandPcs
<1>2. Running(c) /\ TransitionInv(c) /\ hold.sweep_status # "COMPLETE"
  BY DEF HoldInv, CommandInv, TransitionInv, Running, EstablishMarker
<1>3. UNCHANGED <<hold, ttl, object, writer>>
  BY DEF EstablishMarker, evidenceVars, writeVars
<1>4. /\ OthersCommand(c)
      /\ command'[c].pc \in {"confirm", "marker_failed"}
      /\ command'[c].hold_version = command[c].hold_version
  BY <1>1, GotoFields DEF EstablishMarker
<1>5. TransitionInv(c)'
  BY <1>2, <1>3, <1>4, TransitionKept DEF EstablishMarker
<1>6. \A d \in HoldCommands : Running(d)' => d = c
  BY <1>2, <1>4, OnlyCommand
<1>7. \A d \in HoldCommands : CommandInv(d)'
  BY <1>4, <1>5, <1>6, NotSweeping DEF CommandInv
<1>8. \A t \in Transitions : marker'[t] <= s3time'
  BY <1>1 DEF EstablishMarker, PutMarker, HoldInv
<1>. QED
  BY <1>2, <1>3, <1>6, <1>7, <1>8 DEF HoldInv, RecordsMatchHold, ObjectsMatchHold, WriterInv

\* The item is read and put back; nobody has changed it in between.
LEMMA ReadHoldSound ==
  ASSUME HoldInv, HoldShape', ~ Overlapping, NEW c \in HoldCommands, ReadHold(c)
  PROVE  HoldInv'
<1>1. /\ command \in [HoldCommands -> HoldCommandRecord]
      /\ hold \in HoldRecord
  BY DEF HoldInv, HoldShape, HoldTypeOK
<1>2. Running(c) /\ TransitionInv(c) /\ SweepInv(c) /\ command[c].pc = "read"
  BY DEF HoldInv, CommandInv, Running, ReadHold
<1>3. UNCHANGED <<hold, marker, s3time, ttl, object, writer>>
  BY DEF ReadHold, storeVars, evidenceVars, writeVars
<1>4. /\ OthersCommand(c)
      /\ command'[c].pc = "write"
      /\ command'[c].seen = hold
      /\ command'[c].hold_version = command[c].hold_version
      /\ command'[c].sweep_status = command[c].sweep_status
  BY <1>1, ReadHoldFields
<1>5. TransitionInv(c)'
  BY <1>2, <1>3, <1>4 DEF TransitionInv
<1>6. SweepInv(c)'
  BY <1>2, <1>3, <1>4 DEF SweepInv, Completing, RecordMatches, ObjectMatches, Stored
<1>. QED
  BY <1>2, <1>3, <1>4, <1>5, <1>6, QuietCommand

LEMMA OverwriteSound ==
  ASSUME HoldInv, HoldShape', ~ Overlapping, NEW c \in HoldCommands, OverwriteHold(c)
  PROVE  HoldInv'
<1>1. /\ command \in [HoldCommands -> HoldCommandRecord]
      /\ hold \in HoldRecord
      /\ command[c].sweep_status \in SweepStatuses \cup {"KEEP"}
      /\ "query" \in HoldCommandPcs /\ "done" \in HoldCommandPcs
      /\ "raised" \in HoldCommandPcs
  BY DEF HoldInv, HoldShape, HoldTypeOK, HoldCommandPcs, HoldCommandRecord
<1>2. /\ Running(c) /\ TransitionInv(c) /\ SweepInv(c) /\ command[c].pc = "write"
      /\ command[c].seen = hold
  BY DEF HoldInv, CommandInv, TransitionInv, Running, OverwriteHold
<1>3. UNCHANGED <<marker, s3time, ttl, object, writer>>
  BY DEF OverwriteHold, storeVars, evidenceVars, writeVars
<1>4. /\ hold'.status = hold.status /\ hold'.hold_version = hold.hold_version
      /\ hold'.sweep_status = IF command[c].sweep_status = "KEEP" THEN hold.sweep_status
                              ELSE command[c].sweep_status
  BY <1>1, <1>2 DEF OverwriteHold, HoldRecord
<1>5. /\ OthersCommand(c)
      /\ \/ /\ command[c].sweep_status = "COMPLETE" /\ command'[c].pc = "done"
         \/ /\ command[c].sweep_status = "FAILED" /\ command'[c].pc = "raised"
         \/ /\ command[c].sweep_status \in {"KEEP", "IN_PROGRESS"}
            /\ command'[c].hold_version = command[c].hold_version
            /\ \/ command'[c].pc = "query"
               \/ command'[c].pc = "read" /\ command'[c].sweep_status # "COMPLETE"
  <2>1. CASE command[c].sweep_status = "COMPLETE"
    BY <1>1, <2>1, GotoFields DEF OverwriteHold
  <2>2. CASE command[c].sweep_status = "FAILED"
    BY <1>1, <2>2, GotoFields DEF OverwriteHold
  <2>3. CASE command[c].sweep_status = "IN_PROGRESS"
    BY <1>1, <2>3, GotoFields DEF OverwriteHold
  <2>4. CASE command[c].sweep_status = "KEEP"
    <3>1. SetSweepStatus(c, "IN_PROGRESS") /\ "IN_PROGRESS" \in SweepStatuses \cup {"KEEP"}
      BY <2>4 DEF OverwriteHold, SweepStatuses
    <3>. QED
      BY <1>1, <2>4, <3>1, SetSweepStatusFields
  <2>. QED
    BY <2>1, <2>2, <2>3, <2>4 DEF OverwriteHold
<1>6. Running(c)' => TransitionInv(c)' /\ SweepInv(c)'
  <2> SUFFICES ASSUME Running(c)'
               PROVE  TransitionInv(c)' /\ SweepInv(c)'
    OBVIOUS
  <2>1. /\ command[c].sweep_status \in {"KEEP", "IN_PROGRESS"}
        /\ command'[c].hold_version = command[c].hold_version
        /\ \/ command'[c].pc = "query"
           \/ command'[c].pc = "read" /\ command'[c].sweep_status # "COMPLETE"
    BY <1>5 DEF Running
  <2>2. TransitionInv(c)'
    BY <1>2, <1>4, <2>1 DEF TransitionInv
  <2>3. SweepInv(c)'
    BY <2>1, NotSweeping
  <2>. QED
    BY <2>2, <2>3
<1>7. \A d \in HoldCommands : Running(d)' => d = c
  BY <1>2, <1>5, OnlyCommand
<1>8. \A d \in HoldCommands : CommandInv(d)'
  BY <1>6, <1>7 DEF CommandInv
<1>9. hold.sweep_status # "COMPLETE"
  BY <1>2 DEF TransitionInv
<1>10. ASSUME hold'.sweep_status = "COMPLETE"
       PROVE  /\ hold.status = Status(c)
              /\ \A r \in Records : RecordMatches(Status(c), r)
              /\ \A o \in Objects :
                   Stored(o) /\ object[o].time < s3time => ObjectMatches(Status(c), o)
  BY <1>2, <1>4, <1>9, <1>10 DEF TransitionInv, SweepInv, Completing
<1>11. RecordsMatchHold' /\ ObjectsMatchHold'
  BY <1>3, <1>4, <1>10 DEF RecordsMatchHold, ObjectsMatchHold, RecordMatches,
    ObjectMatches, Stored
<1>. QED
  BY <1>3, <1>4, <1>7, <1>8, <1>11 DEF HoldInv, WriterInv

\* A pass begins with a listing of what it has to visit.  The records that are
\* not listed, the objects older than the marker that the first pass has left
\* and those not older than it are as they should be, or come up in a later pass.
LEMMA QuerySound ==
  ASSUME HoldInv, HoldShape', ~ Overlapping, NEW c \in HoldCommands,
         QueryRecords(c) \/ ListVersions(c) \/ FinishSweep(c) \/ HoldCrash(c)
  PROVE  HoldInv'
<1>1. /\ command \in [HoldCommands -> HoldCommandRecord]
      /\ ttl \in [Records -> {"absent", "set", "removed"}]
      /\ "sweep_records" \in HoldCommandPcs /\ "retag" \in HoldCommandPcs
      /\ "crashed" \in HoldCommandPcs
  BY DEF HoldInv, HoldShape, HoldTypeOK, HoldCommandPcs
<1>2. Running(c) /\ TransitionInv(c) /\ SweepInv(c)
  BY DEF HoldInv, CommandInv, Running, QueryRecords, ListVersions, FinishSweep, HoldCrash,
    Swept
<1>3. UNCHANGED <<hold, marker, s3time, ttl, object, writer>>
  BY DEF QueryRecords, ListVersions, FinishSweep, HoldCrash, storeVars, evidenceVars,
    writeVars
<1>4. CASE QueryRecords(c)
  <2> DEFINE targets == {r \in Records :
                           ttl[r] = IF Action[c] = "PLACE" THEN "set" ELSE "removed"}
  <2>1. targets \in SUBSET (Records \cup Objects)
    OBVIOUS
  <2>2. StartPass(c, "sweep_records", targets)
    BY <1>4 DEF QueryRecords
  <2>3. \A r \in Records \ targets : RecordMatches(Status(c), r)
    BY DEF RecordMatches, Status
  <2> HIDE DEF targets
  <2>4. /\ OthersCommand(c)
        /\ command'[c].pc = "sweep_records" /\ command'[c].targets = targets
        /\ command'[c].hold_version = command[c].hold_version
    BY <1>1, <2>1, <2>2, StartPassFields
  <2>5. TransitionInv(c)'
    BY <1>2, <1>3, <1>4, <2>4, TransitionKept DEF QueryRecords
  <2>6. SweepInv(c)'
    BY <1>3, <2>3, <2>4 DEF SweepInv, Completing, RecordMatches
  <2>. QED
    BY <1>2, <1>3, <2>4, <2>5, <2>6, QuietCommand
<1>5. CASE ListVersions(c)
  <2> DEFINE targets == {o \in Objects : Stored(o)}
  <2>1. targets \in SUBSET (Records \cup Objects)
    OBVIOUS
  <2>2. StartPass(c, "retag", targets)
    BY <1>5 DEF ListVersions
  <2>3. \A o \in Objects \ targets : ~ Stored(o)
    OBVIOUS
  <2> HIDE DEF targets
  <2>4. /\ OthersCommand(c)
        /\ command'[c].pc = "retag" /\ command'[c].targets = targets
        /\ command'[c].hold_version = command[c].hold_version
    BY <1>1, <2>1, <2>2, StartPassFields
  <2>5. TransitionInv(c)'
    BY <1>2, <1>3, <1>5, <2>4, TransitionKept DEF ListVersions, Swept
  <2>6. \A r \in Records : RecordMatches(Status(c), r)
    BY <1>2, <1>5 DEF SweepInv, ListVersions, Swept
  <2>7. SweepInv(c)'
    BY <1>3, <2>3, <2>4, <2>6 DEF SweepInv, Completing, RecordMatches, Stored
  <2>. QED
    BY <1>2, <1>3, <2>4, <2>5, <2>7, QuietCommand
<1>6. CASE FinishSweep(c)
  <2>1. "COMPLETE" \in SweepStatuses \cup {"KEEP"}
    BY DEF SweepStatuses
  <2>2. /\ OthersCommand(c)
        /\ command'[c].pc = "read" /\ command'[c].sweep_status = "COMPLETE"
        /\ command'[c].hold_version = command[c].hold_version
    BY <1>1, <1>6, <2>1, SetSweepStatusFields DEF FinishSweep
  <2>3. TransitionInv(c)'
    BY <1>2, <1>3, <1>6, <2>2, TransitionKept DEF FinishSweep, Swept
  <2>4. /\ \A r \in Records : RecordMatches(Status(c), r)
        /\ \A o \in Objects :
             Stored(o) /\ object[o].time < s3time => ObjectMatches(Status(c), o)
    BY <1>2, <1>6 DEF SweepInv, FinishSweep, Swept
  <2>5. SweepInv(c)'
    BY <1>3, <2>2, <2>4 DEF SweepInv, Completing, RecordMatches, ObjectMatches, Stored
  <2>. QED
    BY <1>2, <1>3, <2>2, <2>3, <2>5, QuietCommand
<1>7. CASE HoldCrash(c)
  BY <1>1, <1>2, <1>3, <1>7, GotoFields, QuietCommand DEF HoldCrash, Running
<1>. QED
  BY <1>4, <1>5, <1>6, <1>7

\* A visit puts one record, or one object, right.
LEMMA SweepRecordSound ==
  ASSUME HoldInv, HoldShape', ~ Overlapping, NEW c \in HoldCommands, NEW r \in Records,
         SweepRecord(c, r)
  PROVE  HoldInv'
<1>1. /\ command \in [HoldCommands -> HoldCommandRecord]
      /\ ttl \in [Records -> {"absent", "set", "removed"}]
  BY DEF HoldInv, HoldShape, HoldTypeOK
<1>2. /\ Running(c) /\ TransitionInv(c) /\ SweepInv(c)
      /\ hold.sweep_status # "COMPLETE"
  BY DEF HoldInv, CommandInv, TransitionInv, Running, SweepRecord, Visit
<1>3. UNCHANGED <<hold, marker, s3time, object, writer>>
  BY DEF SweepRecord, storeVars, writeVars
<1>4. /\ OthersCommand(c)
      /\ command'[c].pc = "sweep_records" /\ command[c].pc = "sweep_records"
      /\ command'[c].targets = command[c].targets \ {r}
      /\ command'[c].hold_version = command[c].hold_version
  BY <1>1, VisitFields DEF SweepRecord, Visit
<1>5. TransitionInv(c)'
  BY <1>2, <1>3, <1>4, TransitionKept
<1>6. \A q \in Records \ command'[c].targets : RecordMatches(Status(c), q)'
  BY <1>1, <1>2, <1>4 DEF SweepInv, SweepRecord, RecordMatches, Status
<1>7. SweepInv(c)'
  BY <1>4, <1>6 DEF SweepInv, Completing
<1>8. \A d \in HoldCommands : Running(d)' => d = c
  BY <1>2, <1>4, OnlyCommand
<1>9. \A d \in HoldCommands : CommandInv(d)'
  BY <1>5, <1>7, <1>8 DEF CommandInv
<1>. QED
  BY <1>2, <1>3, <1>8, <1>9 DEF HoldInv, RecordsMatchHold, ObjectsMatchHold, WriterInv

LEMMA RetagSound ==
  ASSUME HoldInv, HoldShape', ~ Overlapping, NEW c \in HoldCommands, NEW o \in Objects,
         RetagVersion(c, o)
  PROVE  HoldInv'
<1>1. /\ command \in [HoldCommands -> HoldCommandRecord]
      /\ object \in [Objects -> ObjectRecord]
  BY DEF HoldInv, HoldShape, HoldTypeOK, ObjectRecord
<1>2. /\ Running(c) /\ TransitionInv(c) /\ SweepInv(c)
      /\ hold.sweep_status # "COMPLETE"
  BY DEF HoldInv, CommandInv, TransitionInv, Running, RetagVersion, Visit
<1>3. UNCHANGED <<hold, marker, s3time, ttl, writer>>
  BY DEF RetagVersion, storeVars, writeVars
<1>4. /\ OthersCommand(c)
      /\ command'[c].pc = command[c].pc /\ command[c].pc \in {"retag", "reconcile"}
      /\ command'[c].targets = command[c].targets \ {o}
      /\ command'[c].hold_id = command[c].hold_id
      /\ command'[c].hold_version = command[c].hold_version
  BY <1>1, VisitFields DEF RetagVersion, Visit
<1>5. TransitionInv(c)'
  BY <1>2, <1>3, <1>4, TransitionKept
<1>6. /\ object'[o] = [object[o] EXCEPT !.tag = Tag(c)]
      /\ \A x \in Objects : x # o => object'[x] = object[x]
  BY <1>1 DEF RetagVersion
<1>7. ObjectMatches(Status(c), o)'
  BY <1>1, <1>6 DEF ObjectMatches, Status, Tag, ObjectRecord
<1>8. \A x \in Objects : x # o =>
        /\ Stored(x)' = Stored(x) /\ object'[x].time = object[x].time
        /\ ObjectMatches(Status(c), x)' = ObjectMatches(Status(c), x)
  BY <1>6 DEF Stored, ObjectMatches
<1>9. \A r \in Records : RecordMatches(Status(c), r)'
  BY <1>2, <1>3, <1>4 DEF SweepInv, RecordMatches
<1>10. TransitionOf(c)' = TransitionOf(c)
  BY <1>4 DEF TransitionOf
<1>11. \A d \in HoldCommands : Running(d)' => d = c
  BY <1>2, <1>4, OnlyCommand DEF Running
<1>12. ASSUME command[c].pc = "retag"
       PROVE  SweepInv(c)'
  <2>1. ASSUME NEW x \in Objects \ command'[c].targets, Stored(x)',
               object'[x].time < marker[TransitionOf(c)]
        PROVE  ObjectMatches(Status(c), x)'
    <3>1. CASE x = o
      BY <1>7, <3>1
    <3>2. CASE x # o
      BY <1>2, <1>4, <1>8, <1>12, <2>1, <3>2 DEF SweepInv
    <3>. QED
      BY <3>1, <3>2
  <2>. QED
    BY <1>3, <1>4, <1>9, <1>10, <1>12, <2>1 DEF SweepInv, Completing
<1>13. ASSUME command[c].pc = "reconcile"
       PROVE  SweepInv(c)'
  <2>1. ASSUME NEW x \in Objects \ command'[c].targets, Stored(x)', object'[x].time < s3time
        PROVE  ObjectMatches(Status(c), x)'
    <3>1. CASE x = o
      BY <1>7, <3>1
    <3>2. CASE x # o
      BY <1>2, <1>4, <1>8, <1>13, <2>1, <3>2 DEF SweepInv
    <3>. QED
      BY <3>1, <3>2
  <2>. QED
    BY <1>3, <1>4, <1>9, <1>13, <2>1 DEF SweepInv, Completing
<1>14. \A d \in HoldCommands : CommandInv(d)'
  BY <1>4, <1>5, <1>11, <1>12, <1>13 DEF CommandInv
<1>. QED
  BY <1>2, <1>3, <1>11, <1>14 DEF HoldInv, RecordsMatchHold, ObjectsMatchHold, WriterInv

\* The objects not older than the marker are listed for the second pass.  The
\* older ones had been put when the first pass listed, which has tagged them.
LEMMA ReconciliationSound ==
  ASSUME HoldInv, HoldShape', ~ Overlapping, NEW c \in HoldCommands,
         ListForReconciliation(c)
  PROVE  HoldInv'
<1>1. /\ command \in [HoldCommands -> HoldCommandRecord]
      /\ object \in [Objects -> ObjectRecord]
      /\ marker \in [Transitions -> Nat] /\ s3time \in Nat
      /\ "reconcile" \in HoldCommandPcs
      /\ command[c] \in HoldCommandRecord
  BY DEF HoldInv, HoldShape, HoldTypeOK, HoldCommandPcs, ObjectRecord
<1>2. /\ Running(c) /\ TransitionInv(c) /\ SweepInv(c)
      /\ command[c].pc = "retag" /\ command[c].targets = {}
      /\ hold.sweep_status # "COMPLETE"
  BY DEF HoldInv, CommandInv, TransitionInv, Running, ListForReconciliation, Swept
<1>3. UNCHANGED <<hold, marker, ttl, object, writer>> /\ s3time' = s3time + 1
  BY DEF ListForReconciliation, evidenceVars, writeVars
<1> DEFINE targets == {o \in Objects : /\ Stored(o)
                                       /\ object[o].time >= marker[TransitionOf(c)]}
<1>4. targets \in SUBSET (Records \cup Objects)
  OBVIOUS
<1>5. StartPass(c, "reconcile", targets)
  BY DEF ListForReconciliation
<1>6. TransitionOf(c) \in Transitions
  BY <1>1, <1>2 DEF TransitionInv, TransitionOf, Transitions, HoldCommandRecord
<1>7. \A o \in Objects \ targets : Stored(o) => ObjectMatches(Status(c), o)
  BY <1>1, <1>2, <1>6 DEF SweepInv, ObjectRecord
<1> HIDE DEF targets
<1>8. /\ OthersCommand(c)
      /\ command'[c].pc = "reconcile" /\ command'[c].targets = targets
      /\ command'[c].hold_version = command[c].hold_version
  BY <1>1, <1>4, <1>5, StartPassFields
<1>9. TransitionInv(c)'
  BY <1>2, <1>3, <1>8, TransitionKept
<1>10. SweepInv(c)'
  BY <1>2, <1>3, <1>7, <1>8 DEF SweepInv, Completing, RecordMatches, ObjectMatches, Stored
<1>11. \A d \in HoldCommands : Running(d)' => d = c
  BY <1>2, <1>8, OnlyCommand
<1>12. \A d \in HoldCommands : CommandInv(d)'
  BY <1>9, <1>10, <1>11 DEF CommandInv
<1>13. \A t \in Transitions : marker'[t] <= s3time'
  BY <1>1, <1>3 DEF HoldInv
<1>. QED
  BY <1>2, <1>3, <1>11, <1>12, <1>13 DEF HoldInv, RecordsMatchHold, ObjectsMatchHold,
    WriterInv

\* A governed write that succeeds has read the status the hold still has.
LEMMA WriterSound ==
  ASSUME HoldInv, HoldShape', NEW r \in Records, ReadHoldForRecord(r) \/ TransactWrite(r)
  PROVE  HoldInv'
<1>1. /\ hold \in HoldRecord
      /\ ttl \in [Records -> {"absent", "set", "removed"}]
      /\ \A c \in HoldCommands : CommandInv(c)
      /\ WriterInv(r)
  BY DEF HoldInv, HoldShape, HoldTypeOK
<1>2. UNCHANGED <<hold, marker, s3time, object, command>>
  BY DEF ReadHoldForRecord, TransactWrite, storeVars, evidenceVars
<1>3. \A q \in Records : WriterInv(q)'
  <2>1. HoldShape /\ (ReadHoldForRecord(r) \/ Retry(r) \/ EndRun(r))
    BY DEF TransactWrite, HoldInv
  <2>2. \A q \in Records : writer'[q].seen = writer[q].seen \/ writer'[q].seen = hold
    BY <2>1, WriterFields
  <2>. QED
    BY <1>1, <1>2, <2>2 DEF WriterInv, HoldInv, HoldRecord
<1>4. /\ \A q \in Records : q # r => ttl'[q] = ttl[q]
      /\ \/ ttl'[r] = ttl[r]
         \/ ttl'[r] = IF hold.status = "ACTIVE" THEN "removed" ELSE "set"
  BY <1>1 DEF ReadHoldForRecord, TransactWrite, GovernedPut, WriterInv, evidenceVars
<1>5. \A q \in Records : RecordMatches(hold.status, q) => RecordMatches(hold.status, q)'
  BY <1>2, <1>4 DEF RecordMatches
<1>6. RecordsMatchHold'
  BY <1>2, <1>5 DEF HoldInv, RecordsMatchHold, RecordMatches
<1>7. ASSUME NEW c \in HoldCommands, Running(c)'
      PROVE  TransitionInv(c)' /\ SweepInv(c)'
  <2>1. TransitionInv(c) /\ SweepInv(c)
    BY <1>1, <1>2, <1>7 DEF CommandInv, Running
  <2>2. TransitionInv(c)'
    BY <1>2, <2>1 DEF TransitionInv
  <2>3. command[c].pc \notin {"event", "upsert"} => hold.status = Status(c)
    BY <2>1 DEF TransitionInv
  <2>4. command[c].pc \notin {"event", "upsert"} =>
          \A q \in Records : RecordMatches(Status(c), q) => RecordMatches(Status(c), q)'
    BY <1>4, <2>3 DEF RecordMatches
  <2>5. SweepInv(c)'
    BY <1>2, <2>1, <2>4 DEF SweepInv, Completing, ObjectMatches, Stored, TransitionOf
  <2>. QED
    BY <2>2, <2>5
<1>8. ObjectsMatchHold' /\ \A c \in HoldCommands : CommandInv(c)'
  BY <1>2, <1>7 DEF HoldInv, ObjectsMatchHold, Stored, CommandInv
<1>. QED
  BY <1>2, <1>3, <1>6, <1>8 DEF HoldInv, Running

\* An upload is dated by S3's clock: no sweep that has listed is about it.
LEMMA UploaderSound ==
  ASSUME HoldInv, HoldShape', NEW o \in Objects, ReadHoldForObject(o) \/ PutObject(o)
  PROVE  HoldInv'
<1>1. /\ object \in [Objects -> ObjectRecord]
      /\ marker \in [Transitions -> Nat] /\ s3time \in Nat
      /\ command \in [HoldCommands -> HoldCommandRecord]
      /\ \A c \in HoldCommands : CommandInv(c)
  BY DEF HoldInv, HoldShape, HoldTypeOK, ObjectRecord
<1>2. UNCHANGED <<hold, marker, s3time, ttl, command, writer>>
  BY DEF ReadHoldForObject, PutObject, storeVars, evidenceVars
<1>3. /\ \A x \in Objects : x # o => object'[x] = object[x]
      /\ object'[o] = object[o] \/ object'[o].time = s3time
  BY <1>1 DEF ReadHoldForObject, PutObject, evidenceVars
<1>4. ASSUME NEW x \in Objects, NEW n \in Nat, n <= s3time, Stored(x)', object'[x].time < n
      PROVE  Stored(x) /\ object'[x] = object[x]
  <2>1. object'[x].time # s3time
    BY <1>1, <1>4
  <2>2. object'[x] = object[x]
    BY <1>3, <2>1
  <2>. QED
    BY <1>4, <2>2 DEF Stored
<1>5. ObjectsMatchHold'
  <2>1. ASSUME NEW x \in Objects, Stored(x)', object'[x].time < s3time
        PROVE  Stored(x) /\ object'[x] = object[x]
    BY <1>1, <1>4, <2>1
  <2>. QED
    BY <1>2, <2>1 DEF HoldInv, ObjectsMatchHold
<1>6. ASSUME NEW c \in HoldCommands, Running(c)'
      PROVE  TransitionInv(c)' /\ SweepInv(c)'
  <2>1. TransitionInv(c) /\ SweepInv(c)
    BY <1>1, <1>2, <1>6 DEF CommandInv, Running
  <2>2. TransitionInv(c)'
    BY <1>2, <2>1 DEF TransitionInv
  <2>3. TransitionOf(c) \in Transitions
    BY <1>1, <2>1 DEF TransitionInv, TransitionOf, Transitions, HoldCommandRecord
  <2>4. marker[TransitionOf(c)] \in Nat /\ marker[TransitionOf(c)] <= s3time
    BY <1>1, <2>3 DEF HoldInv
  <2>5. ASSUME NEW x \in Objects, Stored(x)', object'[x].time < marker[TransitionOf(c)]
        PROVE  Stored(x) /\ object'[x] = object[x]
    BY <1>4, <2>4, <2>5
  <2>6. ASSUME NEW x \in Objects, Stored(x)', object'[x].time < s3time
        PROVE  Stored(x) /\ object'[x] = object[x]
    BY <1>1, <1>4, <2>6
  <2>7. SweepInv(c)'
    BY <1>2, <2>1, <2>5, <2>6 DEF SweepInv, Completing, RecordMatches, ObjectMatches,
      TransitionOf
  <2>. QED
    BY <2>2, <2>7
<1>7. /\ RecordsMatchHold'
      /\ \A c \in HoldCommands : CommandInv(c)'
      /\ \A r \in Records : WriterInv(r)'
  BY <1>2, <1>6 DEF HoldInv, RecordsMatchHold, CommandInv, WriterInv
<1>. QED
  BY <1>2, <1>5, <1>7 DEF HoldInv, Running

LEMMA HoldInvStep ==
  ASSUME HoldInv, ~ Overlapping, [HoldNext]_holdVars
  PROVE  HoldInv'
<1>1. HoldShape'
  BY HoldShapeStep DEF HoldInv
<1>2. ASSUME NEW c \in HoldCommands,
             BeginPlace(c) \/ BeginRelease(c) \/ HoldStep(c) \/ HoldCrash(c)
      PROVE  HoldInv'
  BY <1>1, <1>2, BeginSound, EventSound, UpsertSound, MarkerSound, ReadHoldSound,
    OverwriteSound, QuerySound, SweepRecordSound, RetagSound, ReconciliationSound
    DEF HoldStep
<1>3. CASE \/ \E r \in Records : ReadHoldForRecord(r) \/ TransactWrite(r)
           \/ \E o \in Objects : ReadHoldForObject(o) \/ PutObject(o)
  BY <1>1, <1>3, WriterSound, UploaderSound
<1>4. CASE UNCHANGED holdVars
  BY <1>1, <1>4 DEF holdVars, storeVars, evidenceVars, writeVars, HoldInv, CommandInv,
    WriterInv, TransitionInv, SweepInv, Completing, RecordMatches, ObjectMatches, Stored,
    Running, TransitionOf, RecordsMatchHold, ObjectsMatchHold
<1>. QED
  BY <1>2, <1>3, <1>4 DEF HoldNext

LEMMA HoldInvHolds == ASSUME ~ Overlapping PROVE HoldSpec => []HoldInv
<1>1. HoldInv /\ [HoldNext]_holdVars => HoldInv'
  BY HoldInvStep
<1>. QED
  BY <1>1, HoldInitSound, PTL DEF HoldSpec

-----------------------------------------------------------------------------
(***************************************************************************)
(* What a complete sweep says of the evidence                              *)
(***************************************************************************)

\* Under a hold whose sweep is complete no record has ttl_disposal_at, and after
\* a release every record has it again, those written while the sweep ran
\* included: for any number of records and commands, crashes and resumptions, as
\* long as commands do not overlap.
THEOREM CompleteSweepHoldsForRecords ==
  ASSUME ~ Overlapping
  PROVE  HoldSpec => []RecordsMatchHold
BY HoldInvHolds, PTL DEF HoldInv

\* The objects that were put before a complete sweep listed them have the tag the
\* hold asks for.
THEOREM CompleteSweepHoldsForObjects ==
  ASSUME ~ Overlapping
  PROVE  HoldSpec => []ObjectsMatchHold
BY HoldInvHolds, PTL DEF HoldInv

\* hold_version grows by exactly one with every transition and at no other time.
THEOREM VersionsCountTransitions ==
  ASSUME ~ Overlapping
  PROVE  HoldSpec => VersionCountsTransitions
<1> DEFINE Counts == IF hold'.status # hold.status
                     THEN hold'.hold_version = hold.hold_version + 1
                     ELSE hold'.hold_version = hold.hold_version
<1>1. HoldInv /\ [HoldNext]_holdVars => [Counts]_holdVars
  <2> SUFFICES ASSUME HoldInv, HoldNext
               PROVE  Counts
    BY DEF holdVars
  <2>1. CASE hold' = hold
    BY <2>1
  <2>2. ASSUME NEW c \in HoldCommands, UpsertHold(c)
        PROVE  Counts
    <3>1. /\ command[c].hold_version = hold.hold_version + 1
          /\ hold.status # Status(c)
      BY <2>2 DEF HoldInv, CommandInv, TransitionInv, Running, UpsertHold
    <3>. QED
      BY <2>2, <3>1 DEF UpsertHold
  <2>3. ASSUME NEW c \in HoldCommands, OverwriteHold(c)
        PROVE  Counts
    <3>1. command[c].seen = hold /\ hold \in HoldRecord
      BY <2>3 DEF HoldInv, HoldShape, HoldTypeOK, CommandInv, TransitionInv, Running,
        OverwriteHold
    <3>. QED
      BY <2>3, <3>1 DEF OverwriteHold, HoldRecord
  <2>4. \/ hold' = hold
        \/ \E c \in HoldCommands : UpsertHold(c) \/ OverwriteHold(c)
    BY DEF HoldNext, BeginPlace, BeginRelease, HoldStep, HoldCrash, WriteHoldEvent,
      CheckMarker, EstablishMarker, ConfirmMarker, MarkEventMarkerFailed, ReadHold,
      QueryRecords, SweepRecord, ListVersions, RetagVersion, ListForReconciliation,
      FinishSweep, ReadHoldForRecord, TransactWrite, ReadHoldForObject, PutObject
  <2>. QED
    BY <2>1, <2>2, <2>3, <2>4
<1>. QED
  BY <1>1, HoldInvHolds, PTL DEF HoldSpec, VersionCountsTransitions

=============================================================================
