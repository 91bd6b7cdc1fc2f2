\* No call fails and an operator redrives; TTL removes an endpoint aggregate.
SPECIFICATION RedriveSpec
CONSTANTS
  item = item
  undated = undated
  deleted = deleted
  anonymous = anonymous
  untimed = untimed
  object = object
  badKey = badKey
  StreamRemovals = {item, undated}
  ObjectRemovals = {}
  Scenarios <- OnePlane
  Event <- Events
  Copies = {1}
  Shard = Shard
  Operators = {o1}
  Times = {1}
  Nothing = Nothing
  BatchSize = 2
  MaximumRetryAttempts = 1
  MaximumAsyncRetries = 1
  MaxDisposalFaults = 0
CHECK_DEADLOCK FALSE
PROPERTIES
  EveryDisposalIsRecorded
