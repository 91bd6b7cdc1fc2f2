\* The finalizer's event is delivered twice while an operator sends another.
SPECIFICATION AggSpec
CONSTANTS
  i1 = i1
  i2 = i2
  i3 = i3
  j1 = j1
  j2 = j2
  e1 = e1
  Runs = {1, 2}
  Results <- TwoRuns
  Jobs = {j1, j2}
  Intents = {j1}
  Invocations = {i1, i2, i3}
  JobOf <- Deliveries
  SafeEndpoints = {e1}
  UnknownEndpoint = "unknown"
  PageSize = 2
  MaxAggregateRecords = 10
  NoId = NoId
  MaxAggFaults = 1
CHECK_DEADLOCK FALSE
INVARIANTS
  AggTypeOK
  AggregateSetIsSound
  SettledJobHasSet
  RetrievalShowsWholeSet
PROPERTY EventProducesSet
