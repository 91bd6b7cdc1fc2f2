\* Removals that are recorded, malformed, irrelevant, refused by the validators and not
\* dated in the stream; a good and an unparsable object; an operator redrives.
SPECIFICATION DisposalSpec
CONSTANTS
  item = item
  undated = undated
  deleted = deleted
  anonymous = anonymous
  untimed = untimed
  object = object
  badKey = badKey
  StreamRemovals = {item, undated, deleted, anonymous, untimed}
  ObjectRemovals = {object, badKey}
  Scenarios <- TwoPlanes
  Event <- Events
  Copies = {1, 2}
  Shard = Shard
  Operators = {o1}
  Times = {0, 1, 2}
  Nothing = Nothing
  BatchSize = 2
  MaximumRetryAttempts = 1
  MaximumAsyncRetries = 1
  MaxDisposalFaults = 2
CHECK_DEADLOCK FALSE
INVARIANTS
  NothingLost
  RedeliveryIsDuplicate
  RedriveSettles
PROPERTIES
  RecordsNeverChange
  RemovalIsSettled
