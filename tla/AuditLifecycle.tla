--------------------------- MODULE AuditLifecycle ---------------------------
(***************************************************************************)
(* The lifecycle of one audit, as the platform promises it: the item       *)
(* CLIENT#<client>/AUDIT#<audit> carries a lifecycle_state that only moves *)
(* along TRANSITIONS, and a lifecycle_history that records every move.     *)
(* The one exception is the operator's force recreate, which takes a DRAFT *)
(* or FAILED audit back to DRAFT.                                          *)
(*                                                                         *)
(* This is the abstract specification: who moves the audit, when, and from *)
(* which (possibly stale) reading of it, is left open.  AuditExecution and *)
(* AuditScheduling are shown to implement it.                              *)
(***************************************************************************)
EXTENDS Naturals, Sequences

CONSTANT
  MaxHistory    \* bound: force recreate needs a history shorter than this

ASSUME MaxHistoryAssumption == MaxHistory \in Nat

VARIABLES
  lifecycle_state,
  lifecycle_history   \* append-only list of [from_state, to_state] entries

lifecycleVars == <<lifecycle_state, lifecycle_history>>

LifecycleStates ==
  {"DRAFT", "SCHEDULED", "RUNNING", "FINALIZING", "ANALYZING", "REPORTING",
   "COMPLETED", "FAILED", "CANCELLED"}

TerminalStates == {"COMPLETED", "FAILED", "CANCELLED"}

TRANSITIONS ==
  [s \in LifecycleStates |->
     CASE s = "DRAFT"      -> {"SCHEDULED", "CANCELLED", "FAILED"}
       [] s = "SCHEDULED"  -> {"RUNNING", "CANCELLED", "FAILED", "FINALIZING"}
       [] s = "RUNNING"    -> {"FINALIZING", "FAILED", "CANCELLED"}
       [] s = "FINALIZING" -> {"ANALYZING", "COMPLETED", "FAILED"}
       [] s = "ANALYZING"  -> {"REPORTING", "FAILED"}
       [] s = "REPORTING"  -> {"COMPLETED", "FAILED"}
       [] OTHER            -> {}]

\* The from_state that a force recreate writes, whichever of the two it was.
DraftOrFailed == "DRAFT_OR_FAILED"

HistoryEntry == [from_state : LifecycleStates \cup {DraftOrFailed},
                 to_state   : LifecycleStates]

-----------------------------------------------------------------------------

\* Mutant: the history is replaced by the new entry, not appended to.
Record_Replaces(from, to) ==
  /\ lifecycle_state' = to
  /\ lifecycle_history' = <<[from_state |-> from, to_state |-> to]>>

Record(from, to) ==
  /\ lifecycle_state' = to
  /\ lifecycle_history' =
       Append(lifecycle_history, [from_state |-> from, to_state |-> to])

-----------------------------------------------------------------------------
(***************************************************************************)
(* AuditLifecycleService.transition: the state machine refuses a pair that *)
(* is not in TRANSITIONS; the conditional update then succeeds only if the *)
(* stored state is still the expected one.                                 *)
(***************************************************************************)

\* Mutant: the update without its condition on the stored state.
Transition_Unconditional(expected, next) ==
  /\ next \in TRANSITIONS[expected]
  /\ Record(expected, next)

Transition(expected, next) ==
  /\ next \in TRANSITIONS[expected]
  /\ lifecycle_state = expected
  /\ Record(expected, next)

LifecycleConflict(expected, next) ==
  /\ next \in TRANSITIONS[expected]
  /\ lifecycle_state # expected
  /\ UNCHANGED lifecycleVars

InvalidTransition(expected, next) ==
  /\ next \notin TRANSITIONS[expected]
  /\ UNCHANGED lifecycleVars

-----------------------------------------------------------------------------

LifecycleInit ==
  /\ lifecycle_state = "DRAFT"
  /\ lifecycle_history = << >>

Advance ==
  \E next \in TRANSITIONS[lifecycle_state] : Record(lifecycle_state, next)

Recreate ==
  /\ lifecycle_state \in {"DRAFT", "FAILED"}
  /\ Len(lifecycle_history) < MaxHistory
  /\ Record(DraftOrFailed, "DRAFT")

LifecycleNext == Advance \/ Recreate

LifecycleSpec == LifecycleInit /\ [][LifecycleNext]_lifecycleVars

-----------------------------------------------------------------------------

LifecycleTypeOK ==
  /\ lifecycle_state \in LifecycleStates
  /\ lifecycle_history \in Seq(HistoryEntry)

\* May entry e follow a point of the history at which the audit was in s?
Continues(s, e) ==
  \/ /\ e.from_state = s
     /\ e.to_state \in TRANSITIONS[s]
  \/ /\ e.from_state = DraftOrFailed
     /\ s \in {"DRAFT", "FAILED"}
     /\ e.to_state = "DRAFT"

\* The state an audit with history h was in after the first n entries.
StateAfter(h, n) == IF n = 0 THEN "DRAFT" ELSE h[n].to_state

\* The stored history is a path of the state machine that starts in DRAFT and
\* ends in the stored state: each entry continues the one before it, whichever
\* of the concurrent handlers appended it, and the state field is never ahead
\* of or behind the last entry (append_lifecycle_transition writes both in one
\* conditional update).
HistoryIsPath ==
  /\ StateAfter(lifecycle_history, Len(lifecycle_history)) = lifecycle_state
  /\ \A n \in 1 .. Len(lifecycle_history) :
       Continues(StateAfter(lifecycle_history, n - 1), lifecycle_history[n])

=============================================================================
