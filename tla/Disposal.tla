------------------------------ MODULE Disposal ------------------------------
(***************************************************************************)
(* The disposal recorder: a durable record of every piece of evidence that *)
(* retention has removed.  DynamoDB's TTL removals arrive in batches from  *)
(* the table's stream, S3's lifecycle deletions one by one, and more than  *)
(* once, as asynchronous invocations.  What the recorder cannot process is *)
(* retried, then parked: a batch in the recovery bucket, from which an     *)
(* operator redrives it, an S3 event in the dead letter queue.             *)
(*                                                                         *)
(* A removal is a model value; Event gives what the recorder's checks find *)
(* in the event of the removal.  Lambda's event source mapping and its     *)
(* asynchronous queue are external, with the parameters of serverless.yml. *)
(***************************************************************************)
EXTENDS Integers, Sequences, FiniteSets, FiniteSetsExt

CONSTANTS
  StreamRemovals, ObjectRemovals,
  Scenarios,         \* bound: the removals that one behaviour may see
  Event,             \* removal -> what its event holds
  Copies,            \* deliveries EventBridge may make of one event
  Shard,             \* the one invocation for the stream's shard
  Operators,         \* invocations of the redrive command
  Times,             \* what now_fn() may answer
  Nothing,
  BatchSize, MaximumRetryAttempts, MaximumAsyncRetries,
  MaxDisposalFaults  \* bound on failed calls and killed invocations

StreamChecks ==
  {"arn", "remove", "service", "image", "keys", "class", "created_at", "governed",
   "dated", "event_id", "sequence"}
ObjectChecks ==
  {"envelope", "account", "version", "bucket", "lifecycle", "version_id", "dated",
   "timestamp", "key"}

ASSUME DisposalAssumption ==
  /\ StreamRemovals \cap ObjectRemovals = {}
  /\ Scenarios \subseteq SUBSET (StreamRemovals \cup ObjectRemovals)
  /\ \A r \in StreamRemovals : Event[r] \in SUBSET StreamChecks
  /\ \A r \in ObjectRemovals :
       Event[r] \in [holds : SUBSET ObjectChecks,
                     deletion : {"permanent", "marker", "other"},
                     prefix : {"recordable", "retention_marker", "unrecognized"}]
  /\ {BatchSize, MaximumRetryAttempts, MaximumAsyncRetries, MaxDisposalFaults}
       \subseteq Nat
  /\ BatchSize > 0
  /\ Times \subseteq Nat
  /\ Shard \notin (ObjectRemovals \X Copies) \cup Operators
  /\ Operators \cap (ObjectRemovals \X Copies) = {}

VARIABLES
  removed,   \* the removals that have happened
  stream,    \* the stream behind the mapping's checkpoint
  retries,   \* failed invocations for the head of the stream
  limit,     \* the most records of the next batch: a bisected one is smaller
  recovery,  \* the recovery bucket: batches
  delivery,  \* Lambda's asynchronous queue: state and retries of each delivery
  records,   \* the disposal records, by disposal id
  proc,      \* the invocations of the recorder and of the redrive command
  redriven,  \* operator -> the batch and the exit code of its last redrive
  collided,  \* removals that were called an integrity failure
  disposalFaults

disposalVars ==
  <<removed, stream, retries, limit, recovery, delivery, records, proc, redriven,
    collided, disposalFaults>>

-----------------------------------------------------------------------------
(* What the recorder makes of an event                                     *)

Removals == StreamRemovals \cup ObjectRemovals
Deliveries == ObjectRemovals \X Copies
Procs == {Shard} \cup Deliveries \cup Operators

\* The dispositions that the handler hands back for another attempt, and those
\* for which the redrive command exits with 1.
RETRY_DISPOSITIONS == {"MALFORMED", "INTEGRITY_FAILURE"}
FailOnIntegrityOnly == {"UNKNOWN", "INTEGRITY_FAILURE"}
FAILING_DISPOSITIONS == {"MALFORMED", "UNKNOWN", "INTEGRITY_FAILURE"}

validate_dynamodb_provenance(r) ==
  LET has == Event[r] IN
  IF "arn" \notin has THEN "UNKNOWN"
  ELSE IF ~({"remove", "service"} \subseteq has) THEN "IRRELEVANT"
  ELSE IF ~({"image", "keys", "class", "created_at"} \subseteq has) THEN "MALFORMED"
  ELSE "RECORDABLE"

validate_s3_provenance(r) ==
  LET has == Event[r].holds
      known == {"envelope", "account", "version", "bucket", "lifecycle"}
  IN IF ~(known \subseteq has) THEN "UNKNOWN"
     ELSE IF "version_id" \notin has THEN "MALFORMED"
     ELSE [permanent |-> "RECORDABLE", marker |-> "IRRELEVANT", other |-> "UNKNOWN"]
            [Event[r].deletion]

classify_s3_key_prefix(r) ==
  [recordable |-> "RECORDABLE", retention_marker |-> "IRRELEVANT",
   unrecognized |-> "UNKNOWN"][Event[r].prefix]

governed_keys(r) == "governed" \in Event[r]
parse_s3_evidence_key(r) == "key" \in Event[r].holds

\* The verdict on an event before anything is written.
StreamVerdict(r) ==
  IF validate_dynamodb_provenance(r) # "RECORDABLE" THEN validate_dynamodb_provenance(r)
  ELSE IF governed_keys(r) THEN "RECORDABLE" ELSE "MALFORMED"

ObjectVerdict(r) ==
  IF validate_s3_provenance(r) # "RECORDABLE" THEN validate_s3_provenance(r)
  ELSE IF classify_s3_key_prefix(r) # "RECORDABLE" THEN classify_s3_key_prefix(r)
  ELSE IF parse_s3_evidence_key(r) THEN "RECORDABLE" ELSE "MALFORMED"

Verdict(r) == IF r \in StreamRemovals THEN StreamVerdict(r) ELSE ObjectVerdict(r)

\* SHA-256 over what identifies the source, taken as injective: the event id in the
\* stream, or the object version and how it was deleted.
compute_dynamodb_disposal_id(r) == <<"dynamodb_ttl_remove", r>>
compute_s3_disposal_id(r) == <<"s3_lifecycle_delete", r>>

disposal_id(r) == IF r \in StreamRemovals THEN compute_dynamodb_disposal_id(r)
                                          ELSE compute_s3_disposal_id(r)

Ids == {disposal_id(r) : r \in Removals}

EventTime == 1

\* now_fn() is called for the time of an undated event, and again for recorded_at;
\* the clock may have been set back in between.
Readings == Times \X Times

\* The record of r: it is dated by its event, if the event is.
StreamCandidate(r, now) ==
  [disposal_id |-> compute_dynamodb_disposal_id(r), disposed_identity_ref |-> r,
   disposed_at |-> IF "dated" \in Event[r] THEN EventTime ELSE now[1],
   recorded_at |-> now[2]]

ObjectCandidate(r, now) ==
  [disposal_id |-> compute_s3_disposal_id(r), disposed_identity_ref |-> r,
   disposed_at |-> IF "dated" \in Event[r].holds THEN EventTime ELSE now[1],
   recorded_at |-> now[2]]

Candidate(r, now) ==
  IF r \in StreamRemovals THEN StreamCandidate(r, now) ELSE ObjectCandidate(r, now)

\* DisposalRecord's validators, without which there is no record to write: it names
\* its source, and was not written before the disposal.
Valid(r, candidate) ==
  /\ r \in StreamRemovals => "event_id" \in Event[r]
  /\ r \in ObjectRemovals /\ "dated" \in Event[r].holds => "timestamp" \in Event[r].holds
  /\ candidate.disposed_at <= candidate.recorded_at

\* A record is told apart from none.
ASSUME NothingAssumption ==
  \A r \in Removals : \A now \in Readings : Candidate(r, now) # Nothing

CompareAllFields == {}
DUPLICATE_COMPARISON_EXCLUDED_FIELDS == {"recorded_at"}

verify_duplicate_or_collision(existing, candidate) ==
  IF existing = Nothing
     \/ \E f \in DOMAIN candidate \ DUPLICATE_COMPARISON_EXCLUDED_FIELDS :
          existing[f] # candidate[f]
  THEN "INTEGRITY_FAILURE" ELSE "DUPLICATE"

-----------------------------------------------------------------------------
(* An invocation goes through a batch of removals, one by one.  An S3      *)
(* delivery is a batch of one.                                             *)

Idle == [pc |-> "idle", batch |-> <<>>, at |-> 0, bad |-> {}, candidate |-> Nothing]

Invocation(batch) ==
  [pc |-> "record", batch |-> batch, at |-> 1, bad |-> {}, candidate |-> Nothing]

Current(p) == proc[p].batch[proc[p].at]

Running(p) == proc[p].pc \in {"record", "verify"} /\ proc[p].at <= Len(proc[p].batch)
Finished(p) == proc[p].pc = "record" /\ proc[p].at > Len(proc[p].batch)

\* A failed record is reported by its SequenceNumber, if it has one.
Fails(p, disposition) ==
  IF p \in Operators THEN disposition \in FAILING_DISPOSITIONS
  ELSE /\ disposition \in RETRY_DISPOSITIONS
       /\ p = Shard => "sequence" \in Event[Current(p)]

NextRecord(p, disposition) ==
  /\ proc' = [proc EXCEPT
       ![p] = [pc |-> "record", batch |-> @.batch, at |-> @.at + 1,
               bad |-> IF Fails(p, disposition) THEN @.bad \cup {@.at} ELSE @.bad,
               candidate |-> Nothing]]
  /\ collided' = IF disposition = "INTEGRITY_FAILURE" THEN collided \cup {Current(p)}
                                                      ELSE collided

\* A record that the checks reject is not written.
Reject(p) ==
  /\ Running(p) /\ proc[p].pc = "record"
  /\ Verdict(Current(p)) # "RECORDABLE"
  /\ NextRecord(p, Verdict(Current(p)))
  /\ UNCHANGED <<removed, stream, retries, limit, recovery, delivery, records, redriven,
                 disposalFaults>>

\* put_disposal_record: written once; a record that is there is read back.
OverwriteRecord(p) ==
  /\ Running(p) /\ proc[p].pc = "record"
  /\ Verdict(Current(p)) = "RECORDABLE"
  /\ \E now \in Readings :
       LET candidate == Candidate(Current(p), now) IN
       /\ Valid(Current(p), candidate)
       /\ records' = [records EXCEPT ![candidate.disposal_id] = candidate]
       /\ NextRecord(p, "RECORDABLE")
  /\ UNCHANGED <<removed, stream, retries, limit, recovery, delivery, redriven,
                 disposalFaults>>

PutRecord(p) ==
  /\ Running(p) /\ proc[p].pc = "record"
  /\ Verdict(Current(p)) = "RECORDABLE"
  /\ \E now \in Readings :
       LET candidate == Candidate(Current(p), now) IN
       /\ Valid(Current(p), candidate)
       /\ \/ /\ records[candidate.disposal_id] = Nothing
             /\ records' = [records EXCEPT ![candidate.disposal_id] = candidate]
             /\ NextRecord(p, "RECORDABLE")
          \/ /\ records[candidate.disposal_id] # Nothing
             /\ proc' = [proc EXCEPT ![p].pc = "verify", ![p].candidate = candidate]
             /\ UNCHANGED <<records, collided>>
  /\ UNCHANGED <<removed, stream, retries, limit, recovery, delivery, redriven,
                 disposalFaults>>

\* The conflicting record is read consistently and compared.
VerifyRecord(p) ==
  /\ Running(p) /\ proc[p].pc = "verify"
  /\ LET candidate == proc[p].candidate IN
     NextRecord(p, verify_duplicate_or_collision(records[candidate.disposal_id],
                                                 candidate))
  /\ UNCHANGED <<removed, stream, retries, limit, recovery, delivery, records, redriven,
                 disposalFaults>>

-----------------------------------------------------------------------------
(* The stream's event source mapping                                       *)

RetriesExhausted == retries = MaximumRetryAttempts

StreamInvoke ==
  /\ proc[Shard] = Idle /\ stream # <<>>
  /\ \E n \in 1 .. BatchSize :
       /\ n <= limit /\ n <= Len(stream)
       /\ proc' = [proc EXCEPT ![Shard] = Invocation(SubSeq(stream, 1, n))]
  /\ UNCHANGED <<removed, stream, retries, limit, recovery, delivery, records, redriven,
                 collided, disposalFaults>>

RetryForever(batch, done) ==
  IF done > 0
  THEN /\ stream' = SubSeq(stream, done + 1, Len(stream))
       /\ limit' = BatchSize
       /\ UNCHANGED <<retries, recovery>>
  ELSE UNCHANGED <<stream, retries, limit, recovery>>

\* The checkpoint moves to the first record that is still to be processed; the rest
\* of a batch that has been tried too often goes to the recovery bucket.
Retry(batch, done) ==
  IF done > 0
  THEN /\ stream' = SubSeq(stream, done + 1, Len(stream))
       /\ retries' = 0 /\ limit' = BatchSize
       /\ UNCHANGED recovery
  ELSE IF RetriesExhausted
  THEN /\ stream' = SubSeq(stream, Len(batch) + 1, Len(stream))
       /\ retries' = 0 /\ limit' = BatchSize
       /\ recovery' = recovery \cup {batch}
  ELSE /\ retries' = retries + 1
       /\ UNCHANGED <<stream, limit, recovery>>

\* The handler returns its batchItemFailures.
StreamReturn ==
  /\ Finished(Shard)
  /\ LET bad == proc[Shard].bad
         batch == proc[Shard].batch
     IN Retry(batch, IF bad = {} THEN Len(batch) ELSE Min(bad) - 1)
  /\ proc' = [proc EXCEPT ![Shard] = Idle]
  /\ UNCHANGED <<removed, delivery, records, redriven, collided, disposalFaults>>

\* A call raises, or the invocation is killed: the whole batch has failed.  A batch
\* of several records is bisected, which is not counted as a retry.
StreamError ==
  /\ LET batch == proc[Shard].batch IN
     IF Len(batch) > 1
     THEN /\ limit' = Len(batch) \div 2
          /\ UNCHANGED <<stream, retries, recovery>>
     ELSE Retry(batch, 0)
  /\ proc' = [proc EXCEPT ![Shard] = Idle]
  /\ UNCHANGED <<delivery, redriven>>

-----------------------------------------------------------------------------
(* S3 events: EventBridge and Lambda's asynchronous invocations            *)

Queued(n) == [at |-> "queued", tries |-> n]
Settled(where) == [at |-> where, tries |-> 0]

AsyncInvoke(d) ==
  /\ delivery[d].at = "queued" /\ proc[d] = Idle
  /\ proc' = [proc EXCEPT ![d] = Invocation(<<d[1]>>)]
  /\ UNCHANGED <<removed, stream, retries, limit, recovery, delivery, records, redriven,
                 collided, disposalFaults>>

AfterFailure(d) ==
  delivery' = [delivery EXCEPT
    ![d] = IF @.tries = MaximumAsyncRetries THEN Settled("dlq") ELSE Queued(@.tries + 1)]

\* The handler returns, or raises for a disposition that is to be retried.
AsyncReturn(d) ==
  /\ Finished(d)
  /\ IF proc[d].bad = {} THEN delivery' = [delivery EXCEPT ![d] = Settled("done")]
                         ELSE AfterFailure(d)
  /\ proc' = [proc EXCEPT ![d] = Idle]
  /\ UNCHANGED <<removed, stream, retries, limit, recovery, records, redriven, collided,
                 disposalFaults>>

AsyncError(d) ==
  /\ AfterFailure(d)
  /\ proc' = [proc EXCEPT ![d] = Idle]
  /\ UNCHANGED <<stream, retries, limit, recovery, redriven>>

-----------------------------------------------------------------------------
(* redrive_disposal_recorder                                               *)

\* The recovery object is read and its envelope fits; it stays in the bucket.
RedriveStart(o) ==
  /\ proc[o] = Idle
  /\ \E batch \in recovery :
       /\ proc' = [proc EXCEPT ![o] = Invocation(batch)]
       /\ redriven' = [redriven EXCEPT ![o] = Nothing]
  /\ UNCHANGED <<removed, stream, retries, limit, recovery, delivery, records, collided,
                 disposalFaults>>

\* The object cannot be read, or is not one the mapping has written for this stage:
\* exit code 1 before any record is looked at.
RedriveRejected(o) ==
  /\ proc[o] = Idle
  /\ redriven' = [redriven EXCEPT ![o] = [batch |-> <<>>, exit_code |-> 1]]
  /\ UNCHANGED <<removed, stream, retries, limit, recovery, delivery, records, proc,
                 collided, disposalFaults>>

RedriveReturn(o) ==
  /\ Finished(o)
  /\ redriven' = [redriven EXCEPT
       ![o] = [batch |-> proc[o].batch,
               exit_code |-> IF proc[o].bad = {} THEN 0 ELSE 1]]
  /\ proc' = [proc EXCEPT ![o] = Idle]
  /\ UNCHANGED <<removed, stream, retries, limit, recovery, delivery, records, collided,
                 disposalFaults>>

RedriveError(o) ==
  /\ redriven' = [redriven EXCEPT ![o] = [batch |-> proc[o].batch, exit_code |-> 1]]
  /\ proc' = [proc EXCEPT ![o] = Idle]
  /\ UNCHANGED <<stream, retries, limit, recovery, delivery>>

-----------------------------------------------------------------------------
(* Failures                                                                *)

SkipRecord(p) ==
  /\ proc' = [proc EXCEPT ![p].pc = "record", ![p].at = @ + 1, ![p].candidate = Nothing]
  /\ UNCHANGED <<stream, retries, limit, recovery, delivery, redriven>>

\* An exception is not caught anywhere below the handler and the redrive command.
Raise(p) ==
  \/ p = Shard /\ StreamError
  \/ p \in Deliveries /\ AsyncError(p)
  \/ p \in Operators /\ RedriveError(p)

\* The record cannot be built: a clock that is behind the event, or an event that
\* will be refused at every attempt.
BuildFails(p) ==
  /\ Running(p) /\ proc[p].pc = "record"
  /\ Verdict(Current(p)) = "RECORDABLE"
  /\ \E now \in Readings : ~Valid(Current(p), Candidate(Current(p), now))
  /\ Raise(p)
  /\ UNCHANGED <<removed, records, collided, disposalFaults>>

Fault == disposalFaults < MaxDisposalFaults /\ disposalFaults' = disposalFaults + 1

\* A storage call fails, or the process dies, with nothing written.
CallFails(p) ==
  /\ Running(p) /\ Verdict(Current(p)) = "RECORDABLE" /\ Fault
  /\ Raise(p)
  /\ UNCHANGED <<removed, records, collided>>

\* The record is written and the answer lost, or the process dies after the write.
AnswerLost(p) ==
  /\ Running(p) /\ proc[p].pc = "record" /\ Verdict(Current(p)) = "RECORDABLE" /\ Fault
  /\ records[disposal_id(Current(p))] = Nothing
  /\ \E now \in Readings :
       /\ Valid(Current(p), Candidate(Current(p), now))
       /\ records' = [records EXCEPT
            ![disposal_id(Current(p))] = Candidate(Current(p), now)]
  /\ Raise(p)
  /\ UNCHANGED <<removed, collided>>

\* EventBridge gives up on the target, or the event is too old when its turn comes.
DeliveryExpires(d) ==
  /\ delivery[d].at = "queued" /\ proc[d] = Idle /\ Fault
  /\ delivery' = [delivery EXCEPT ![d] = Settled("dlq")]
  /\ UNCHANGED <<removed, stream, retries, limit, recovery, records, proc, redriven,
                 collided>>

-----------------------------------------------------------------------------
(* The store removes an item or an object                                  *)

Removable(r) == r \notin removed /\ \E s \in Scenarios : removed \cup {r} \subseteq s

RemoveItem(r) ==
  /\ Removable(r)
  /\ removed' = removed \cup {r}
  /\ stream' = Append(stream, r)
  /\ UNCHANGED <<retries, limit, recovery, delivery, records, proc, redriven, collided,
                 disposalFaults>>

\* EventBridge delivers the event at least once.
RemoveObject(r) ==
  /\ Removable(r)
  /\ removed' = removed \cup {r}
  /\ \E times \in SUBSET Copies :
       /\ times # {}
       /\ delivery' = [d \in Deliveries |->
            IF d[1] = r /\ d[2] \in times THEN Queued(0) ELSE delivery[d]]
  /\ UNCHANGED <<stream, retries, limit, recovery, records, proc, redriven, collided,
                 disposalFaults>>

DisposalInit ==
  /\ removed = {} /\ stream = <<>> /\ recovery = {}
  /\ retries = 0 /\ limit = BatchSize
  /\ delivery = [d \in Deliveries |-> Settled("none")]
  /\ records = [id \in Ids |-> Nothing]
  /\ proc = [p \in Procs |-> Idle]
  /\ redriven = [o \in Operators |-> Nothing]
  /\ collided = {}
  /\ disposalFaults = 0

Recorder(p) == Reject(p) \/ PutRecord(p) \/ VerifyRecord(p) \/ BuildFails(p)

DisposalNext ==
  \/ \E r \in StreamRemovals : RemoveItem(r)
  \/ \E r \in ObjectRemovals : RemoveObject(r)
  \/ \E p \in Procs : Recorder(p) \/ CallFails(p) \/ AnswerLost(p)
  \/ StreamInvoke \/ StreamReturn
  \/ \E d \in Deliveries : AsyncInvoke(d) \/ AsyncReturn(d) \/ DeliveryExpires(d)
  \/ \E o \in Operators : RedriveStart(o) \/ RedriveRejected(o) \/ RedriveReturn(o)

\* Lambda runs an invocation to its end and starts the next one; nothing obliges an
\* operator to redrive.
LambdaFairness ==
  /\ WF_disposalVars(StreamInvoke \/ Recorder(Shard) \/ StreamReturn)
  /\ \A d \in Deliveries : WF_disposalVars(AsyncInvoke(d) \/ Recorder(d) \/ AsyncReturn(d))

DisposalSpec == DisposalInit /\ [][DisposalNext]_disposalVars /\ LambdaFairness

\* The same with operators who redrive what is in the recovery bucket.
RedriveSpec ==
  /\ DisposalSpec
  /\ \A o \in Operators :
       WF_disposalVars(RedriveStart(o) \/ Recorder(o) \/ RedriveReturn(o))

-----------------------------------------------------------------------------
(* Properties                                                              *)

\* A removal by retention itself whose event comes from a source the recorder knows.
Governed(r) ==
  IF r \in StreamRemovals THEN {"arn", "remove", "service"} \subseteq Event[r]
  ELSE /\ {"envelope", "account", "version", "bucket", "lifecycle"} \subseteq Event[r].holds
       /\ Event[r].deletion = "permanent" /\ Event[r].prefix = "recordable"

Recorded(r) == records[disposal_id(r)] # Nothing

Parked(r) ==
  \/ \E batch \in recovery : \E i \in DOMAIN batch : batch[i] = r
  \/ \E d \in Deliveries : d[1] = r /\ delivery[d].at = "dlq"

Pending(r) ==
  \/ \E i \in DOMAIN stream : stream[i] = r
  \/ \E d \in Deliveries : d[1] = r /\ delivery[d].at = "queued"

\* Whatever fails in a batch or in a delivery (a call, its answer, one record of
\* several), a removal of governed evidence is on record, still to be delivered, or
\* parked where an operator finds it: _handle_dynamodb_streams_batch lets an
\* exception fail the batch and reports the records it could not process.
NothingLost == \A r \in removed : Governed(r) => Recorded(r) \/ Pending(r) \/ Parked(r)

\* Redelivery, a retry after a lost answer, two copies of one event at the same time
\* and a redrive of what was already recorded are told apart from a collision of ids:
\* none of them is reported as an integrity failure (verify_duplicate_or_collision).
RedeliveryIsDuplicate ==
  \A r \in collided :
    "dated" \notin (IF r \in StreamRemovals THEN Event[r] ELSE Event[r].holds)

\* A redrive that exits with 0 leaves no governed removal of its batch unrecorded:
\* the operator may delete the recovery object.
RedriveSettles ==
  \A o \in Operators :
    redriven[o] # Nothing /\ redriven[o].exit_code = 0 =>
      \A i \in DOMAIN redriven[o].batch :
        Governed(redriven[o].batch[i]) => Recorded(redriven[o].batch[i])

\* A disposal record, once written, is never changed or removed, however often its
\* removal is delivered (_put_once).
RecordsNeverChange ==
  [][\A id \in Ids : records[id] # Nothing => records'[id] = records[id]]_disposalVars

\* Every governed removal is recorded or parked in the end: a record that cannot be
\* processed does not hold up the shard for ever (maximumRetryAttempts).
RemovalIsSettled ==
  \A r \in Removals : (r \in removed /\ Governed(r)) ~> (Recorded(r) \/ Parked(r))

\* "Every disposal action produces a durable, queryable record": with no call failing
\* and an operator who redrives, a governed removal is recorded in the end.
EveryDisposalIsRecorded ==
  \A r \in Removals : (r \in removed /\ Governed(r)) ~> Recorded(r)

=============================================================================
