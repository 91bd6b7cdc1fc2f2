-------------------------- MODULE FinalizationGate --------------------------
(***************************************************************************)
(* finalization_integrity_gate: the pure function the finalization handler *)
(* evaluates before FINALIZING -> COMPLETED.                               *)
(*                                                                         *)
(* A listing of RUN records is a function from run ids to a status, where  *)
(* "absent" means that no record has that run id; a listing of S3 keys is  *)
(* the set of run ids whose raw-results object is listed (the key is       *)
(* raw-results/<client>/<audit>/<run id>/results.json).                    *)
(***************************************************************************)
EXTENDS Naturals, FiniteSets

RunStatuses == {"STARTED", "COMPLETED", "FAILED"}

RunsWith(listing, statuses) == {r \in DOMAIN listing : listing[r] \in statuses}

TerminalRuns(listing) == RunsWith(listing, {"COMPLETED", "FAILED"})

\* execution_counters of the audit item; present is FALSE until the attribute
\* has been written (an audit made by create_from_files starts without it).
Counters == [present : BOOLEAN, total_started : Nat, total_completed : Nat,
             total_failed : Nat]

\* Check 1: as many terminal RUN records as finalization.execution_count.
TerminalCountMatchesExpected(listing, execution_count) ==
  Cardinality(TerminalRuns(listing)) = execution_count

\* Check 2: no RUN record is left in STARTED.
NoOrphanedStartedRecords(listing) == RunsWith(listing, {"STARTED"}) = {}

\* Check 3: every COMPLETED run has its evidence; FAILED runs are exempt.
EveryTerminalRunHasEvidence(listing, keys) ==
  RunsWith(listing, {"COMPLETED"}) \subseteq keys

\* Check 4: every evidence key belongs to exactly one RUN record.
EveryEvidenceMapsToOneRun(listing, keys) ==
  \A r \in keys : listing[r] # "absent"

\* Check 5: no evidence key belongs to a run that is still STARTED.
NoOrphanEvidence(listing, keys) == \A r \in keys : listing[r] # "STARTED"

\* Check 6: if the counter exists, it equals the number of terminal runs.
CounterReconciliation(listing, counters) ==
  counters.present =>
    counters.total_completed = Cardinality(TerminalRuns(listing))

finalization_integrity_gate(listing, keys, execution_count, counters) ==
  /\ TerminalCountMatchesExpected(listing, execution_count)
  /\ NoOrphanedStartedRecords(listing)
  /\ EveryTerminalRunHasEvidence(listing, keys)
  /\ EveryEvidenceMapsToOneRun(listing, keys)
  /\ NoOrphanEvidence(listing, keys)
  /\ CounterReconciliation(listing, counters)

=============================================================================
