\* Intelligence and report are generated twice while the audit is certified.
SPECIFICATION PipelineSpec
CONSTANTS
  i1 = i1
  i2 = i2
  r1 = r1
  r2 = r2
  k1 = k1
  PipelineCommands = {i1, i2, r1, r2, k1}
  PhaseOf <- Phase
  AggregateSet = AggregateSet
  Nothing = Nothing
  MaxPipelineFaults = 1
CHECK_DEADLOCK FALSE
INVARIANTS
  PipelineTypeOK
  CertificateIsOfItsReport
PROPERTIES
  ImplementsChain
  GenerationEnds
