\* Two deliveries of one or two occurrences race each other and a finalizer.
SPECIFICATION Spec
CONSTANTS
  o1 = o1
  o2 = o2
  w1 = w1
  w2 = w2
  f1 = f1
  f2 = f2
  NoOccurrence = NoOccurrence
  Occurrences = {o1, o2}
  MaxIterations = 2
  Iterations <- RepeatFirst
  Rejected = {}
  Workers = {w1, w2}
  Finalizers = {f1}
  InvokerConfigured = TRUE
  MaxFaults = 1
  MaxHistory = 1
SYMMETRY Invocations
CHECK_DEADLOCK FALSE
INVARIANTS
  TypeOK
  HistoryIsPath
  OneRunPerOccurrence
  CompletedRunHasEvidence
  CountsAreBacked
  CompletedClaimIsBacked
