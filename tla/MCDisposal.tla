----------------------------- MODULE MCDisposal -----------------------------
(***************************************************************************)
(* Instances of Disposal for TLC: removals of the kinds the stores make.   *)
(***************************************************************************)
EXTENDS Disposal

CONSTANTS
  item,      \* TTL removes an audit aggregate, which has a created_at
  undated,   \* TTL removes an endpoint aggregate, which has none
  deleted,   \* an operator deletes an item
  anonymous, \* TTL removes an item, in an event without an eventID
  untimed,   \* the same, in an event without a time
  object,    \* lifecycle expires a version of a raw result
  badKey     \* the same, of a key that does not parse

Events ==
  [r \in StreamRemovals \cup ObjectRemovals |->
     IF r = item THEN StreamChecks
     ELSE IF r = undated THEN StreamChecks \ {"created_at"}
     ELSE IF r = deleted THEN StreamChecks \ {"service"}
     ELSE IF r = anonymous THEN StreamChecks \ {"event_id"}
     ELSE IF r = untimed THEN StreamChecks \ {"dated"}
     ELSE [holds |-> IF r = badKey THEN ObjectChecks \ {"key"} ELSE ObjectChecks,
           deletion |-> "permanent",
           prefix |-> "recordable"]]

\* The stream alone, and with S3.  Deliveries of two objects share no state.
TwoPlanes ==
  {{item, undated, deleted}, {item, anonymous}, {untimed}, {item, object}, {item, badKey}}

OnePlane == {{item, undated}}

=============================================================================
