-------------------------- MODULE MCAuditExecution --------------------------
(***************************************************************************)
(* Instances of AuditExecution for TLC.                                    *)
(***************************************************************************)
EXTENDS AuditExecution, TLC

CONSTANTS o1, o2, w1, w2, f1, f2

OneEach == [o \in Occurrences |-> 1]
RepeatFirst == [o \in Occurrences |-> IF o = o1 THEN 2 ELSE 1]

Invocations == Permutations(Workers) \cup Permutations(Finalizers)

=============================================================================
