\* Two overlapping deliveries of the finalization event, with recreation.
SPECIFICATION Spec
CONSTANTS
  o1 = o1
  o2 = o2
  w1 = w1
  w2 = w2
  f1 = f1
  f2 = f2
  NoOccurrence = NoOccurrence
  Occurrences = {o1}
  MaxIterations = 1
  Iterations <- OneEach
  Rejected = {}
  Workers = {w1}
  Finalizers = {f1, f2}
  InvokerConfigured = TRUE
  MaxFaults = 1
  MaxHistory = 5
SYMMETRY Invocations
CHECK_DEADLOCK FALSE
INVARIANTS
  CompletedAuditHasEvidence
  AtMostOneAggregation
PROPERTY LifecycleSpec
