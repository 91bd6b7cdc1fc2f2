----------------------- MODULE AuditLifecycle_proofs -----------------------
(***************************************************************************)
(* What the abstract lifecycle guarantees of every audit, for histories of *)
(* any length.                                                             *)
(***************************************************************************)
EXTENDS AuditLifecycle, TLAPS

\* The state machine never leads out of the set of lifecycle states.
LEMMA TransitionsStayInStates ==
  ASSUME NEW s \in LifecycleStates
  PROVE  /\ TRANSITIONS[s] \subseteq LifecycleStates
         /\ s \in TerminalStates => TRANSITIONS[s] = {}
BY DEF TRANSITIONS, LifecycleStates, TerminalStates

\* A conditional transition by any handler is a move of the abstract lifecycle.
LEMMA TransitionAdvances ==
  ASSUME NEW e, NEW n, Transition(e, n)
  PROVE  LifecycleNext
BY DEF Transition, Advance, LifecycleNext

\* One move of the audit, by whichever handler, keeps the item well typed.
LEMMA LifecycleTypeStep ==
  LifecycleTypeOK /\ [LifecycleNext]_lifecycleVars => LifecycleTypeOK'
<1> SUFFICES ASSUME LifecycleTypeOK, [LifecycleNext]_lifecycleVars
             PROVE  LifecycleTypeOK'
  OBVIOUS
<1>1. CASE Advance
  <2>1. PICK next \in TRANSITIONS[lifecycle_state] :
          Record(lifecycle_state, next)
    BY <1>1 DEF Advance
  <2>2. next \in LifecycleStates /\ lifecycle_state \in LifecycleStates
    BY TransitionsStayInStates DEF LifecycleTypeOK
  <2>3. [from_state |-> lifecycle_state, to_state |-> next] \in HistoryEntry
    BY <2>2 DEF HistoryEntry
  <2>. QED
    BY <2>1, <2>2, <2>3 DEF Record, LifecycleTypeOK
<1>2. CASE Recreate
  <2>1. "DRAFT" \in LifecycleStates
    BY DEF LifecycleStates
  <2>2. [from_state |-> DraftOrFailed, to_state |-> "DRAFT"] \in HistoryEntry
    BY <2>1 DEF HistoryEntry
  <2>. QED
    BY <1>2, <2>1, <2>2 DEF Recreate, Record, LifecycleTypeOK
<1>3. CASE UNCHANGED lifecycleVars
  BY <1>3 DEF lifecycleVars, LifecycleTypeOK
<1>. QED
  BY <1>1, <1>2, <1>3 DEF LifecycleNext

\* lifecycle_state and lifecycle_history keep their shape in every behaviour.
THEOREM LifecycleTypeCorrect == LifecycleSpec => []LifecycleTypeOK
<1>1. LifecycleInit => LifecycleTypeOK
  BY DEF LifecycleInit, LifecycleTypeOK, LifecycleStates
<1>. QED
  BY <1>1, LifecycleTypeStep, PTL DEF LifecycleSpec

-----------------------------------------------------------------------------

\* Appending an entry that continues the stored state keeps the history a path.
LEMMA AppendContinues ==
  ASSUME LifecycleTypeOK, HistoryIsPath,
         NEW from \in LifecycleStates \cup {DraftOrFailed},
         NEW to \in LifecycleStates,
         Record(from, to),
         Continues(lifecycle_state, [from_state |-> from, to_state |-> to])
  PROVE  HistoryIsPath'
<1> DEFINE entry == [from_state |-> from, to_state |-> to]
           h == lifecycle_history
           k == lifecycle_history'
<1>1. /\ entry \in HistoryEntry
      /\ h \in Seq(HistoryEntry)
      /\ k = Append(h, entry)
      /\ lifecycle_state' = to
  BY DEF HistoryEntry, LifecycleTypeOK, Record
<1>2. PICK len \in Nat : len = Len(h)
  BY <1>1
<1>3. /\ Len(k) = len + 1
      /\ k[len + 1] = entry
      /\ \A n \in 1 .. len : k[n] = h[n]
  BY <1>1, <1>2
<1>4. /\ StateAfter(h, len) = lifecycle_state
      /\ \A n \in 1 .. len : Continues(StateAfter(h, n - 1), h[n])
  BY <1>2 DEF HistoryIsPath
<1>5. entry.to_state = to /\ Continues(lifecycle_state, entry)
  OBVIOUS
<1> HIDE DEF entry, h, k
<1>6. \A n \in 0 .. len : StateAfter(k, n) = StateAfter(h, n)
  BY <1>2, <1>3 DEF StateAfter
<1>7. StateAfter(k, len + 1) = to
  BY <1>2, <1>3, <1>5 DEF StateAfter
<1>8. ASSUME NEW n \in 1 .. (len + 1)
      PROVE  Continues(StateAfter(k, n - 1), k[n])
  <2>1. CASE n = len + 1
    BY <2>1, <1>2, <1>3, <1>4, <1>5, <1>6
  <2>2. CASE n # len + 1
    <3>1. n \in 1 .. len /\ n - 1 \in 0 .. len
      BY <2>2, <1>2
    <3>. QED
      BY <3>1, <1>3, <1>4, <1>6
  <2>. QED
    BY <2>1, <2>2
<1>9. /\ StateAfter(k, Len(k)) = lifecycle_state'
      /\ \A n \in 1 .. Len(k) : Continues(StateAfter(k, n - 1), k[n])
  BY <1>1, <1>3, <1>7, <1>8
<1>. QED
  BY <1>9 DEF HistoryIsPath, k, StateAfter, Continues

\* In every behaviour of the lifecycle the stored history is a path of the
\* state machine from DRAFT to the stored state.
THEOREM HistoryPath == LifecycleSpec => []HistoryIsPath
<1>1. LifecycleInit => HistoryIsPath
  BY DEF LifecycleInit, HistoryIsPath, StateAfter
<1>2. LifecycleTypeOK /\ HistoryIsPath /\ [LifecycleNext]_lifecycleVars
        => HistoryIsPath'
  <2> SUFFICES ASSUME LifecycleTypeOK, HistoryIsPath,
                      [LifecycleNext]_lifecycleVars
               PROVE  HistoryIsPath'
    OBVIOUS
  <2>1. CASE Advance
    <3>1. PICK next \in TRANSITIONS[lifecycle_state] :
            Record(lifecycle_state, next)
      BY <2>1 DEF Advance
    <3>2. next \in LifecycleStates /\ lifecycle_state \in LifecycleStates
      BY TransitionsStayInStates DEF LifecycleTypeOK
    <3>3. Continues(lifecycle_state,
                    [from_state |-> lifecycle_state, to_state |-> next])
      BY DEF Continues
    <3>. QED
      BY <3>1, <3>2, <3>3, AppendContinues
  <2>2. CASE Recreate
    <3>1. Record(DraftOrFailed, "DRAFT") /\ "DRAFT" \in LifecycleStates
      BY <2>2 DEF Recreate, LifecycleStates
    <3>2. Continues(lifecycle_state,
                    [from_state |-> DraftOrFailed, to_state |-> "DRAFT"])
      BY <2>2 DEF Recreate, Continues
    <3>. QED
      BY <3>1, <3>2, AppendContinues
  <2>3. CASE UNCHANGED lifecycleVars
    BY <2>3 DEF lifecycleVars, HistoryIsPath, StateAfter, Continues
  <2>. QED
    BY <2>1, <2>2, <2>3 DEF LifecycleNext
<1>. QED
  BY <1>1, <1>2, LifecycleTypeCorrect, PTL DEF LifecycleSpec

=============================================================================
