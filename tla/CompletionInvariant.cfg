\* A worker with an old snapshot starts a run behind the gate.
SPECIFICATION Spec
CONSTANTS
  o1 = o1
  o2 = o2
  w1 = w1
  w2 = w2
  f1 = f1
  f2 = f2
  NoOccurrence = NoOccurrence
  Occurrences = {o1, o2}
  MaxIterations = 1
  Iterations <- OneEach
  Rejected = {}
  Workers = {w1, w2}
  Finalizers = {f1}
  InvokerConfigured = TRUE
  MaxFaults = 0
  MaxHistory = 0
CHECK_DEADLOCK FALSE
PROPERTY CompletionInvariant
