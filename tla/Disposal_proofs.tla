--------------------------- MODULE Disposal_proofs ---------------------------
(***************************************************************************)
(* Proofs about Disposal, for any number of removals, deliveries,          *)
(* operators, retries and faults: no governed removal is lost, a record    *)
(* that is written stays, and delivering a removal again is recognised.    *)
(***************************************************************************)
EXTENDS Disposal, SequenceTheorems, WellFoundedInduction, TLAPS

(***************************************************************************)
(* The inductive invariant                                                 *)
(***************************************************************************)

Candidates == {Candidate(r, now) : r \in Removals, now \in Readings}

InvocationRecord ==
  [pc : {"idle", "record", "verify"}, batch : Seq(Removals), at : Nat, bad : SUBSET Nat,
   candidate : Candidates \cup {Nothing}]

\* The queues hold removals, the records are by id, and every process has what an
\* invocation has.
DisposalShape ==
  /\ removed \subseteq Removals
  /\ stream \in Seq(StreamRemovals)
  /\ recovery \subseteq Seq(StreamRemovals)
  /\ DOMAIN delivery = Deliveries
  /\ DOMAIN records = Ids
  /\ proc \in [Procs -> InvocationRecord]
  /\ DOMAIN redriven = Operators
  /\ \A o \in Operators : redriven[o] # Nothing => redriven[o].batch \in Seq(Removals)

\* A record is that of its removal.
RecordSound(r) ==
  Recorded(r) => \E now \in Readings : records[disposal_id(r)] = Candidate(r, now)

\* What an invocation is about: the shard's a part of the stream that the checkpoint
\* has not passed, a delivery's the removal it was made for.
BatchSound(p) ==
  /\ p = Shard =>
       /\ Len(proc[p].batch) \in 1 .. Len(stream)
       /\ \A i \in 1 .. Len(proc[p].batch) : proc[p].batch[i] = stream[i]
  /\ p \in Deliveries => proc[p].batch = <<p[1]>>
  /\ p \notin Deliveries => proc[p].batch \in Seq(StreamRemovals)

\* The mapping can be told that the record of r has failed.
Numbered(r) == r \in StreamRemovals => "sequence" \in Event[r]

\* What invocation p has passed at i it has recorded, or will report, or it was none
\* of the recorder's business.
Passed(p, i) ==
  Governed(proc[p].batch[i]) =>
    \/ i \in proc[p].bad
    \/ Recorded(proc[p].batch[i])
    \/ p = Shard /\ ~Numbered(proc[p].batch[i])

\* What it is verifying has a record.
Verifying(p) ==
  /\ proc[p].at <= Len(proc[p].batch)
  /\ Recorded(Current(p))
  /\ \E now \in Readings : proc[p].candidate = Candidate(Current(p), now)

ProgressSound(p) ==
  /\ proc[p].at \in 1 .. Len(proc[p].batch) + 1
  /\ proc[p].bad \subseteq 1 .. proc[p].at - 1
  /\ \A i \in 1 .. proc[p].at - 1 : Passed(p, i)
  /\ proc[p].pc = "verify" => Verifying(p)

ProcSound(p) == proc[p].pc # "idle" => BatchSound(p) /\ ProgressSound(p)

NumberedNotLost(r) ==
  Governed(r) /\ Numbered(r) => Recorded(r) \/ Pending(r) \/ Parked(r)

DisposalInv ==
  /\ DisposalShape
  /\ \A r \in Removals : RecordSound(r)
  /\ \A p \in Procs : ProcSound(p)
  /\ \A r \in removed : NumberedNotLost(r)
  /\ RedeliveryIsDuplicate
  /\ RedriveSettles

(***************************************************************************)
(* Lemmas about the operators                                              *)
(***************************************************************************)

Less == {ss \in Nat \X Nat : ss[1] < ss[2]}

LEMMA LessThan ==
  \A m \in Nat, n \in Nat : <<n, m>> \notin Less => m <= n
<1>1. \A m \in Nat, n \in Nat :
        <<n, m>>[1] = n /\ <<n, m>>[2] = m /\ <<n, m>> \in Nat \X Nat
  OBVIOUS
<1>2. \A m \in Nat, n \in Nat : <<n, m>> \notin Less => ~(n < m)
  BY <1>1, Zenon DEF Less
<1>. QED
  BY <1>2

\* A set of numbers has a least one.
LEMMA MinOfSet ==
  ASSUME NEW S \in SUBSET Nat, S # {}
  PROVE  Min(S) \in S /\ \A n \in S : Min(S) <= n
<1>1. Less = OpToRel(<, Nat)
  BY Zenon DEF Less, OpToRel
<1>2. IsWellFoundedOn(Less, Nat)
  BY <1>1, NatLessThanWellFounded, Zenon
<1>3. \E m \in S : \A n \in S : <<n, m>> \notin Less
  BY <1>2, WFMin
<1>4. \E m \in S : \A n \in S : m <= n
  BY <1>3, LessThan
<1>. QED
  BY <1>4 DEF Min

\* A part of a sequence, and what is left behind one.
LEMMA Dropped ==
  ASSUME NEW S, NEW s \in Seq(S), NEW k \in 0 .. Len(s)
  PROVE  /\ SubSeq(s, k + 1, Len(s)) \in Seq(S)
         /\ \A i \in k + 1 .. Len(s) :
              i - k \in DOMAIN SubSeq(s, k + 1, Len(s))
              /\ SubSeq(s, k + 1, Len(s))[i - k] = s[i]
<1>1. Len(s) \in Nat /\ \A i \in 1 .. Len(s) : s[i] \in S
  BY LenProperties
<1>2. \A i \in k + 1 .. Len(s) : s[i] \in S
  BY <1>1
<1>. DEFINE t == SubSeq(s, k + 1, Len(s))
<1>3. /\ t \in Seq(S)
      /\ Len(t) = IF k + 1 <= Len(s) THEN Len(s) - (k + 1) + 1 ELSE 0
      /\ \A i \in 1 .. Len(s) - (k + 1) + 1 : t[i] = s[k + 1 + i - 1]
  BY <1>1, <1>2, SubSeqProperties
<1>4. DOMAIN t = 1 .. Len(t)
  BY <1>3, LenProperties
<1>. QED
  <2>1. ASSUME NEW i \in k + 1 .. Len(s) PROVE i - k \in DOMAIN t /\ t[i - k] = s[i]
    <3>1. i - k \in 1 .. Len(s) - (k + 1) + 1 /\ k + 1 + (i - k) - 1 = i
      BY <1>1
    <3>. QED
      BY <3>1, <1>1, <1>3, <1>4
  <2>. QED
    BY <2>1, <1>3

LEMMA SeqOfSubset ==
  ASSUME NEW S, NEW T, S \subseteq T, NEW s \in Seq(S)
  PROVE  s \in Seq(T)
<1>1. Len(s) \in Nat /\ s \in [1 .. Len(s) -> S]
  BY LenProperties
<1>2. s \in [1 .. Len(s) -> T]
  BY <1>1
<1>. QED
  BY <1>1, <1>2

\* No two removals have one disposal id, and a record carries that of its removal.
LEMMA IdsAreDistinct ==
  ASSUME NEW r \in Removals, NEW s \in Removals, disposal_id(r) = disposal_id(s)
  PROVE  r = s
BY DEF disposal_id, compute_dynamodb_disposal_id, compute_s3_disposal_id

LEMMA CandidateFields ==
  ASSUME NEW r \in Removals, NEW now \in Readings
  PROVE  /\ Candidate(r, now).disposal_id = disposal_id(r)
         /\ disposal_id(r) \in Ids
         /\ Candidate(r, now) # Nothing
<1>1. Candidate(r, now).disposal_id = disposal_id(r)
  BY DEF Candidate, StreamCandidate, ObjectCandidate, disposal_id
<1>. QED
  BY <1>1, NothingAssumption DEF NothingAssumption, Ids

\* What the checks reject of governed evidence they call malformed, which is the
\* verdict that every caller reports.
LEMMA GovernedRejectIsMalformed ==
  ASSUME NEW r \in Removals, Governed(r), Verdict(r) # "RECORDABLE"
  PROVE  Verdict(r) = "MALFORMED"
<1>1. CASE r \in StreamRemovals
  BY <1>1 DEF Governed, Verdict, StreamVerdict, validate_dynamodb_provenance
<1>2. CASE r \notin StreamRemovals
  <2>1. /\ {"envelope", "account", "version", "bucket", "lifecycle"} \subseteq Event[r].holds
        /\ Event[r].deletion = "permanent"
        /\ Event[r].prefix = "recordable"
    BY <1>2 DEF Governed
  <2>2. validate_s3_provenance(r) = IF "version_id" \notin Event[r].holds THEN "MALFORMED"
                                    ELSE "RECORDABLE"
    BY <2>1 DEF validate_s3_provenance
  <2>3. classify_s3_key_prefix(r) = "RECORDABLE"
    BY <2>1 DEF classify_s3_key_prefix
  <2>. QED
    BY <1>2, <2>2, <2>3 DEF Verdict, ObjectVerdict
<1>. QED
  BY <1>1, <1>2

\* Two records of one removal differ in what is compared only if its event is not
\* dated.
LEMMA SameRemovalIsDuplicate ==
  ASSUME NEW r \in Removals, NEW t1 \in Readings, NEW t2 \in Readings,
         "dated" \in (IF r \in StreamRemovals THEN Event[r] ELSE Event[r].holds)
  PROVE  verify_duplicate_or_collision(Candidate(r, t1), Candidate(r, t2)) = "DUPLICATE"
<1>. DEFINE c1 == Candidate(r, t1)
            c2 == Candidate(r, t2)
<1>1. c1 # Nothing
  BY CandidateFields
<1>2. /\ DOMAIN c2 = {"disposal_id", "disposed_identity_ref", "disposed_at", "recorded_at"}
      /\ c1.disposal_id = c2.disposal_id
      /\ c1.disposed_identity_ref = c2.disposed_identity_ref
      /\ c1.disposed_at = c2.disposed_at
  <2>1. CASE r \in StreamRemovals
    BY <2>1 DEF Candidate, StreamCandidate
  <2>2. CASE r \notin StreamRemovals
    BY <2>2 DEF Candidate, ObjectCandidate
  <2>. QED
    BY <2>1, <2>2
<1>. HIDE DEF c1, c2
<1>3. verify_duplicate_or_collision(c1, c2) = "DUPLICATE"
  BY <1>1, <1>2
  DEF verify_duplicate_or_collision, DUPLICATE_COMPARISON_EXCLUDED_FIELDS
<1>. QED
  BY <1>3 DEF c1, c2

LEMMA IdleIsInvocation ==
  Idle \in InvocationRecord
<1>1. <<>> \in Seq(Removals)
  OBVIOUS
<1>. QED
  BY <1>1 DEF Idle, InvocationRecord

LEMMA InvocationIsInvocation ==
  ASSUME NEW b \in Seq(Removals)
  PROVE  Invocation(b) \in InvocationRecord
BY DEF Invocation, InvocationRecord

\* The shard, the deliveries and the operators are different invocations.
LEMMA ProcsAreDistinct ==
  /\ Shard \in Procs /\ Deliveries \subseteq Procs /\ Operators \subseteq Procs
  /\ Shard \notin Deliveries /\ Shard \notin Operators
  /\ Operators \cap Deliveries = {}
BY DisposalAssumption DEF DisposalAssumption, Procs, Deliveries

(***************************************************************************)
(* What a step keeps                                                       *)
(***************************************************************************)

\* Every invocation but p is as it was.
OthersProc(p) == \A q \in Procs : q # p => proc'[q] = proc[q]

\* What is on record stays on record, and is sound.
RecordsKept ==
  /\ DOMAIN records' = Ids
  /\ \A r \in Removals : RecordSound(r)'
  /\ \A r \in Removals :
       Recorded(r) => Recorded(r)' /\ records'[disposal_id(r)] = records[disposal_id(r)]

StreamKept ==
  /\ Len(stream) <= Len(stream')
  /\ \A i \in 1 .. Len(stream) : stream'[i] = stream[i]

\* A removal that is to be delivered, or parked, is so after the step, or recorded.
Traced(r) ==
  Governed(r) /\ Numbered(r) /\ (Pending(r) \/ Parked(r))
    => Recorded(r)' \/ Pending(r)' \/ Parked(r)'

LEMMA RecordsUnchanged ==
  ASSUME DisposalInv, UNCHANGED records
  PROVE  RecordsKept
<1>1. ASSUME NEW r \in Removals PROVE RecordSound(r)' /\ (Recorded(r) => Recorded(r)')
  BY DEF DisposalInv, RecordSound, Recorded
<1>. QED
  BY <1>1 DEF RecordsKept, DisposalInv, DisposalShape

LEMMA RecordWritten ==
  ASSUME DisposalInv, NEW r \in Removals, NEW now \in Readings,
         records[disposal_id(r)] = Nothing,
         records' = [records EXCEPT ![disposal_id(r)] = Candidate(r, now)]
  PROVE  RecordsKept /\ Recorded(r)'
<1>1. /\ DOMAIN records = Ids
      /\ disposal_id(r) \in Ids
      /\ Candidate(r, now) # Nothing
  BY CandidateFields DEF DisposalInv, DisposalShape
<1>2. records'[disposal_id(r)] = Candidate(r, now)
  BY <1>1
<1>3. ASSUME NEW s \in Removals, s # r
      PROVE  records'[disposal_id(s)] = records[disposal_id(s)]
  <2>1. disposal_id(s) # disposal_id(r) /\ disposal_id(s) \in Ids
    BY <1>3, IdsAreDistinct DEF Ids
  <2>. QED
    BY <2>1, <1>1
<1>4. Recorded(r)'
  BY <1>1, <1>2 DEF Recorded
<1>5. ASSUME NEW s \in Removals
      PROVE  /\ RecordSound(s)'
             /\ Recorded(s) => Recorded(s)' /\ records'[disposal_id(s)] = records[disposal_id(s)]
  <2>1. CASE s = r
    BY <2>1, <1>2, <1>4 DEF RecordSound, Recorded
  <2>2. CASE s # r
    BY <2>2, <1>3 DEF RecordSound, Recorded, DisposalInv
  <2>. QED
    BY <2>1, <2>2
<1>6. DOMAIN records' = Ids
  BY <1>1
<1>. QED
  BY <1>4, <1>5, <1>6 DEF RecordsKept

\* What an invocation has in its batch is a removal.
LEMMA BatchIsOfRemovals ==
  ASSUME DisposalShape, NEW p \in Procs
  PROVE  /\ proc[p] \in InvocationRecord
         /\ Len(proc[p].batch) \in Nat
         /\ proc[p].at \in Nat
         /\ DOMAIN proc[p].batch = 1 .. Len(proc[p].batch)
         /\ \A i \in 1 .. Len(proc[p].batch) : proc[p].batch[i] \in Removals
<1>1. proc[p] \in InvocationRecord
  BY DEF DisposalShape
<1>2. proc[p].batch \in Seq(Removals) /\ proc[p].at \in Nat
  BY <1>1 DEF InvocationRecord
<1>. QED
  BY <1>1, <1>2, LenProperties

\* An invocation that does not take a step stays sound.
LEMMA ProcKept ==
  ASSUME DisposalInv, NEW p \in Procs, RecordsKept, proc'[p] = proc[p],
         p = Shard => StreamKept
  PROVE  ProcSound(p)'
<1>. SUFFICES ASSUME proc[p].pc # "idle"
              PROVE  BatchSound(p)' /\ ProgressSound(p)'
  BY DEF ProcSound
<1>1. BatchSound(p) /\ ProgressSound(p) /\ DisposalShape
  BY DEF DisposalInv, ProcSound
<1>2. /\ proc[p].at \in Nat /\ Len(proc[p].batch) \in Nat
      /\ proc[p].at \in 1 .. Len(proc[p].batch) + 1
      /\ \A i \in 1 .. Len(proc[p].batch) : proc[p].batch[i] \in Removals
  BY <1>1, BatchIsOfRemovals DEF ProgressSound
<1>3. BatchSound(p)'
  <2>1. CASE p = Shard
    <3>1. Len(stream) \in Nat
      BY <1>1, LenProperties DEF DisposalShape
    <3>2. /\ Len(proc[p].batch) \in 1 .. Len(stream)
          /\ \A i \in 1 .. Len(proc[p].batch) : proc[p].batch[i] = stream[i]
      BY <2>1, <1>1 DEF BatchSound
    <3>3. Len(stream) <= Len(stream') /\ \A i \in 1 .. Len(stream) : stream'[i] = stream[i]
      BY <2>1 DEF StreamKept
    <3>. QED
      BY <2>1, <3>1, <3>2, <3>3, <1>1 DEF BatchSound
  <2>2. CASE p # Shard
    BY <2>2, <1>1 DEF BatchSound
  <2>. QED
    BY <2>1, <2>2
<1>4. ASSUME NEW i \in 1 .. proc[p].at - 1 PROVE Passed(p, i)'
  <2>1. proc[p].batch[i] \in Removals /\ Passed(p, i)
    BY <1>1, <1>2 DEF ProgressSound
  <2>2. PICK r \in Removals : r = proc[p].batch[i]
    BY <2>1
  <2>3. Recorded(r) => Recorded(r)'
    BY DEF RecordsKept
  <2>. QED
    BY <2>1, <2>2, <2>3 DEF Passed
<1>5. ASSUME proc[p].pc = "verify" PROVE Verifying(p)'
  <2>1. Verifying(p)
    BY <1>1, <1>5 DEF ProgressSound
  <2>2. PICK r \in Removals : r = Current(p)
    BY <2>1, <1>2 DEF Verifying, Current
  <2>3. Recorded(r) => Recorded(r)'
    BY DEF RecordsKept
  <2>. QED
    BY <2>1, <2>2, <2>3 DEF Verifying, Current
<1>6. ProgressSound(p)'
  BY <1>1, <1>2, <1>4, <1>5 DEF ProgressSound
<1>. QED
  BY <1>3, <1>6

\* The recorder's invariant after a step of invocation p.
LEMMA Assemble ==
  ASSUME DisposalInv, NEW p \in Procs, RecordsKept, OthersProc(p),
         p = Shard \/ StreamKept,
         DisposalShape', ProcSound(p)',
         \A r \in removed' : (r \in removed /\ Traced(r)) \/ NumberedNotLost(r)',
         RedeliveryIsDuplicate', RedriveSettles'
  PROVE  DisposalInv'
<1>1. ASSUME NEW q \in Procs PROVE ProcSound(q)'
  <2>1. CASE q = p
    BY <2>1
  <2>2. CASE q # p
    BY <2>2, ProcKept DEF OthersProc
  <2>. QED
    BY <2>1, <2>2
<1>2. ASSUME NEW r \in removed' PROVE NumberedNotLost(r)'
  <2>1. CASE r \in removed /\ Traced(r)
    <3>1. r \in Removals /\ NumberedNotLost(r)
      BY <2>1 DEF DisposalInv, DisposalShape
    <3>2. Recorded(r) => Recorded(r)'
      BY <3>1 DEF RecordsKept
    <3>. QED
      BY <2>1, <3>1, <3>2 DEF NumberedNotLost, Traced
  <2>2. CASE NumberedNotLost(r)'
    BY <2>2
  <2>. QED
    BY <2>1, <2>2
<1>3. \A r \in Removals : RecordSound(r)'
  BY DEF RecordsKept
<1>. QED
  BY <1>1, <1>2, <1>3 DEF DisposalInv

\* What an operator was told stays true.
LEMMA RedriveKept ==
  ASSUME DisposalInv, RecordsKept, UNCHANGED redriven
  PROVE  RedriveSettles'
<1>1. RedriveSettles /\ DisposalShape
  BY DEF DisposalInv
<1>. SUFFICES ASSUME NEW o \in Operators, redriven[o] # Nothing,
                     redriven[o].exit_code = 0,
                     NEW i \in DOMAIN redriven[o].batch,
                     Governed(redriven[o].batch[i])
              PROVE  records'[disposal_id(redriven[o].batch[i])] # Nothing
  BY DEF RedriveSettles, Recorded
<1>2. PICK r \in Removals : r = redriven[o].batch[i]
  <2>1. redriven[o].batch \in Seq(Removals)
    BY <1>1 DEF DisposalShape
  <2>. QED
    BY <2>1, LenProperties
<1>3. Recorded(r)
  BY <1>1, <1>2 DEF RedriveSettles
<1>4. Recorded(r)'
  BY <1>3 DEF RecordsKept
<1>. QED
  BY <1>2, <1>4 DEF Recorded

LEMMA UntouchedIsTraced ==
  ASSUME NEW r, UNCHANGED <<stream, recovery, delivery>>
  PROVE  Traced(r)
BY DEF Traced, Pending, Parked

LEMMA SameStreamIsKept ==
  ASSUME DisposalShape, UNCHANGED stream
  PROVE  StreamKept
<1>1. Len(stream) \in Nat
  BY LenProperties DEF DisposalShape
<1>. QED
  BY <1>1 DEF StreamKept

(***************************************************************************)
(* The steps of the recorder                                               *)
(***************************************************************************)

\* What is being recorded.
LEMMA CurrentIsRemoval ==
  ASSUME DisposalInv, NEW p \in Procs, Running(p)
  PROVE  /\ proc[p].pc # "idle"
         /\ BatchSound(p) /\ ProgressSound(p)
         /\ proc[p].at \in 1 .. Len(proc[p].batch)
         /\ Current(p) \in Removals
<1>1. DisposalShape /\ ProcSound(p)
  BY DEF DisposalInv
<1>2. proc[p].pc # "idle" /\ proc[p].at <= Len(proc[p].batch)
  BY DEF Running
<1>3. BatchSound(p) /\ ProgressSound(p)
  BY <1>1, <1>2 DEF ProcSound
<1>4. proc[p].at \in 1 .. Len(proc[p].batch)
  BY <1>1, <1>2, <1>3, BatchIsOfRemovals DEF ProgressSound
<1>. QED
  BY <1>1, <1>2, <1>3, <1>4, BatchIsOfRemovals DEF Current

LEMMA NextRecordFields ==
  ASSUME DisposalInv, NEW p \in Procs, Running(p), NEW d, NextRecord(p, d)
  PROVE  /\ proc' \in [Procs -> InvocationRecord]
         /\ OthersProc(p)
         /\ proc'[p].pc = "record"
         /\ proc'[p].batch = proc[p].batch
         /\ proc'[p].at = proc[p].at + 1
         /\ proc'[p].bad = IF Fails(p, d) THEN proc[p].bad \cup {proc[p].at}
                                          ELSE proc[p].bad
<1>1. proc \in [Procs -> InvocationRecord] /\ proc[p] \in InvocationRecord
  BY DEF DisposalInv, DisposalShape
<1>. DEFINE b == IF Fails(p, d) THEN proc[p].bad \cup {proc[p].at} ELSE proc[p].bad
            new == [pc |-> "record", batch |-> proc[p].batch, at |-> proc[p].at + 1,
                    bad |-> b, candidate |-> Nothing]
<1>2. proc' = [proc EXCEPT ![p] = new]
  BY DEF NextRecord
<1>3. b \in SUBSET Nat
  BY <1>1 DEF InvocationRecord
<1>4. new \in InvocationRecord
  <2>. HIDE DEF b
  <2>. QED
    BY <1>1, <1>3 DEF InvocationRecord
<1>5. proc'[p] = new /\ proc' \in [Procs -> InvocationRecord] /\ OthersProc(p)
  <2>. HIDE DEF new
  <2>. QED
    BY <1>1, <1>2, <1>4 DEF OthersProc
<1>. QED
  BY <1>5

\* The next record's turn: what is passed is recorded, or reported.
LEMMA NextRecordSound ==
  ASSUME DisposalInv, NEW p \in Procs, Running(p), RecordsKept, UNCHANGED stream,
         NEW d, NextRecord(p, d), NEW r \in Removals, r = Current(p),
         Governed(r) => Recorded(r)' \/ Fails(p, d) \/ (p = Shard /\ ~Numbered(r))
  PROVE  ProcSound(p)'
<1>1. /\ proc'[p].pc = "record"
      /\ proc'[p].batch = proc[p].batch
      /\ proc'[p].at = proc[p].at + 1
      /\ proc'[p].bad = IF Fails(p, d) THEN proc[p].bad \cup {proc[p].at}
                                       ELSE proc[p].bad
  BY NextRecordFields
<1>2. /\ BatchSound(p) /\ ProgressSound(p)
      /\ proc[p].at \in 1 .. Len(proc[p].batch)
  BY CurrentIsRemoval
<1>3. /\ Len(proc[p].batch) \in Nat
      /\ \A i \in 1 .. Len(proc[p].batch) : proc[p].batch[i] \in Removals
  BY BatchIsOfRemovals DEF DisposalInv
<1>4. BatchSound(p)'
  BY <1>1, <1>2 DEF BatchSound
<1>5. proc'[p].at \in 1 .. Len(proc'[p].batch) + 1
  BY <1>1, <1>2, <1>3
<1>6. proc'[p].bad \subseteq 1 .. proc'[p].at - 1
  <2>1. proc[p].bad \subseteq 1 .. proc[p].at - 1
    BY <1>2 DEF ProgressSound
  <2>. QED
    BY <2>1, <1>1, <1>2, <1>3
<1>7. ASSUME NEW i \in 1 .. proc[p].at PROVE Passed(p, i)'
  <2>1. CASE i = proc[p].at
    <3>1. r = proc[p].batch[i]
      BY <2>1 DEF Current
    <3>. QED
      BY <2>1, <3>1, <1>1 DEF Passed
  <2>2. CASE i # proc[p].at
    <3>1. i \in 1 .. proc[p].at - 1 /\ i \in 1 .. Len(proc[p].batch)
      BY <2>2, <1>2, <1>3
    <3>2. Passed(p, i) /\ proc[p].batch[i] \in Removals
      BY <3>1, <1>2, <1>3 DEF ProgressSound
    <3>3. PICK s \in Removals : s = proc[p].batch[i]
      BY <3>2
    <3>4. Recorded(s) => Recorded(s)'
      BY DEF RecordsKept
    <3>5. i \in proc[p].bad => i \in proc'[p].bad
      BY <1>1
    <3>. QED
      BY <3>2, <3>3, <3>4, <3>5, <1>1 DEF Passed
  <2>. QED
    BY <2>1, <2>2
<1>8. \A i \in 1 .. proc'[p].at - 1 : Passed(p, i)'
  BY <1>1, <1>2, <1>7
<1>9. ProgressSound(p)'
  BY <1>1, <1>5, <1>6, <1>8 DEF ProgressSound
<1>. QED
  BY <1>4, <1>9 DEF ProcSound

\* A step of the recorder leaves the queues alone.
LEMMA RecorderStep ==
  ASSUME DisposalInv, NEW p \in Procs, RecordsKept, OthersProc(p),
         proc' \in [Procs -> InvocationRecord], ProcSound(p)', RedeliveryIsDuplicate',
         UNCHANGED <<removed, stream, recovery, delivery, redriven>>
  PROVE  DisposalInv'
<1>1. DisposalShape
  BY DEF DisposalInv
<1>2. DisposalShape'
  BY <1>1 DEF DisposalShape, RecordsKept
<1>3. StreamKept
  BY <1>1, SameStreamIsKept
<1>4. \A r \in removed' : r \in removed /\ Traced(r)
  BY UntouchedIsTraced
<1>5. RedriveSettles'
  BY RedriveKept
<1>. QED
  BY <1>2, <1>3, <1>4, <1>5, Assemble

\* An integrity failure is only ever found of an event that is not dated.
LEMMA NextRecordCollides ==
  ASSUME DisposalInv, NEW p \in Procs, NEW d, NextRecord(p, d),
         NEW r \in Removals, r = Current(p),
         d = "INTEGRITY_FAILURE" =>
           "dated" \notin (IF r \in StreamRemovals THEN Event[r] ELSE Event[r].holds)
  PROVE  RedeliveryIsDuplicate'
<1>1. collided' \subseteq collided \cup IF d = "INTEGRITY_FAILURE" THEN {r} ELSE {}
  BY DEF NextRecord
<1>. QED
  BY <1>1 DEF DisposalInv, RedeliveryIsDuplicate

LEMMA RejectInv ==
  ASSUME DisposalInv, NEW p \in Procs, Reject(p)
  PROVE  DisposalInv'
<1>1. Running(p) /\ UNCHANGED <<removed, stream, recovery, delivery, records, redriven>>
  BY DEF Reject
<1>2. PICK r \in Removals : r = Current(p)
  BY <1>1, CurrentIsRemoval
<1>3. Verdict(r) # "RECORDABLE" /\ NextRecord(p, Verdict(r))
  BY <1>2 DEF Reject
<1>4. RecordsKept
  BY <1>1, RecordsUnchanged
<1>5. ASSUME Governed(r) PROVE Fails(p, Verdict(r)) \/ (p = Shard /\ ~Numbered(r))
  <2>1. Verdict(r) = "MALFORMED"
    BY <1>3, <1>5, GovernedRejectIsMalformed
  <2>2. CASE p \in Operators
    <3>1. Fails(p, "MALFORMED")
      BY <2>2 DEF Fails, FAILING_DISPOSITIONS
    <3>. QED
      BY <2>1, <3>1
  <2>3. CASE p \notin Operators
    <3>1. p = Shard => r \in StreamRemovals
      <4>1. /\ p = Shard => proc[p].batch \in Seq(StreamRemovals)
            /\ proc[p].at \in 1 .. Len(proc[p].batch)
        BY <1>1, CurrentIsRemoval, ProcsAreDistinct DEF BatchSound
      <4>. QED
        BY <4>1, <1>2, LenProperties DEF Current
    <3>2. Fails(p, "MALFORMED") \/ (p = Shard /\ ~Numbered(r))
      BY <3>1, <2>3, <1>2 DEF Fails, RETRY_DISPOSITIONS, Numbered
    <3>. QED
      BY <2>1, <3>2
  <2>. QED
    BY <2>2, <2>3
<1>6. ProcSound(p)'
  BY <1>1, <1>2, <1>3, <1>4, <1>5, NextRecordSound
<1>7. Verdict(r) # "INTEGRITY_FAILURE"
  <2>1. r \in ObjectRemovals => Event[r].deletion \in {"permanent", "marker", "other"}
                                /\ Event[r].prefix \in {"recordable", "retention_marker",
                                                        "unrecognized"}
    BY DisposalAssumption DEF DisposalAssumption
  <2>2. CASE r \in StreamRemovals
    BY <2>2 DEF Verdict, StreamVerdict, validate_dynamodb_provenance
  <2>3. CASE r \notin StreamRemovals
    <3>1. r \in ObjectRemovals
      BY <2>3 DEF Removals
    <3>2. validate_s3_provenance(r) # "INTEGRITY_FAILURE"
      BY <2>1, <3>1 DEF validate_s3_provenance
    <3>3. classify_s3_key_prefix(r) # "INTEGRITY_FAILURE"
      BY <2>1, <3>1 DEF classify_s3_key_prefix
    <3>. QED
      BY <2>3, <3>2, <3>3 DEF Verdict, ObjectVerdict
  <2>. QED
    BY <2>2, <2>3
<1>8. RedeliveryIsDuplicate'
  BY <1>2, <1>3, <1>7, NextRecordCollides
<1>. QED
  BY <1>1, <1>3, <1>4, <1>6, <1>8, NextRecordFields, RecorderStep

LEMMA PutRecordInv ==
  ASSUME DisposalInv, NEW p \in Procs, PutRecord(p)
  PROVE  DisposalInv'
<1>1. /\ Running(p) /\ proc[p].pc = "record"
      /\ UNCHANGED <<removed, stream, recovery, delivery, redriven>>
  BY DEF PutRecord
<1>2. PICK r \in Removals : r = Current(p)
  BY <1>1, CurrentIsRemoval
<1>3. PICK now \in Readings :
        LET candidate == Candidate(Current(p), now) IN
        \/ /\ records[candidate.disposal_id] = Nothing
           /\ records' = [records EXCEPT ![candidate.disposal_id] = candidate]
           /\ NextRecord(p, "RECORDABLE")
        \/ /\ records[candidate.disposal_id] # Nothing
           /\ proc' = [proc EXCEPT ![p].pc = "verify", ![p].candidate = candidate]
           /\ UNCHANGED <<records, collided>>
  BY DEF PutRecord
<1>4. Candidate(r, now).disposal_id = disposal_id(r)
  BY CandidateFields
<1>5. CASE /\ records[disposal_id(r)] = Nothing
           /\ records' = [records EXCEPT ![disposal_id(r)] = Candidate(r, now)]
           /\ NextRecord(p, "RECORDABLE")
  <2>1. RecordsKept /\ Recorded(r)'
    BY <1>5, RecordWritten
  <2>2. ProcSound(p)'
    BY <1>1, <1>2, <1>5, <2>1, NextRecordSound
  <2>3. RedeliveryIsDuplicate'
    BY <1>2, <1>5, NextRecordCollides
  <2>. QED
    BY <1>1, <1>5, <2>1, <2>2, <2>3, NextRecordFields, RecorderStep
<1>6. CASE /\ records[disposal_id(r)] # Nothing
           /\ proc' = [proc EXCEPT ![p].pc = "verify", ![p].candidate = Candidate(r, now)]
           /\ UNCHANGED <<records, collided>>
  <2>1. proc \in [Procs -> InvocationRecord] /\ proc[p] \in InvocationRecord
    BY DEF DisposalInv, DisposalShape
  <2>2. Candidate(r, now) \in Candidates
    BY DEF Candidates
  <2>. DEFINE new == [proc[p] EXCEPT !.pc = "verify", !.candidate = Candidate(r, now)]
  <2>3. /\ proc'[p] = new /\ OthersProc(p) /\ proc' = [proc EXCEPT ![p] = new]
    BY <1>6, <2>1 DEF OthersProc
  <2>4. /\ new \in InvocationRecord
        /\ new.pc = "verify" /\ new.batch = proc[p].batch /\ new.at = proc[p].at
        /\ new.bad = proc[p].bad /\ new.candidate = Candidate(r, now)
    BY <2>1, <2>2 DEF InvocationRecord
  <2>5. /\ proc' \in [Procs -> InvocationRecord]
        /\ proc'[p].pc = "verify" /\ proc'[p].batch = proc[p].batch
        /\ proc'[p].at = proc[p].at /\ proc'[p].bad = proc[p].bad
        /\ proc'[p].candidate = Candidate(r, now)
    <3>. HIDE DEF new
    <3>. QED
      BY <2>1, <2>3, <2>4
  <2>6. RecordsKept
    BY <1>6, RecordsUnchanged
  <2>7. BatchSound(p) /\ ProgressSound(p)
    BY <1>1, CurrentIsRemoval
  <2>8. BatchSound(p)'
    BY <2>5, <2>7, <1>1 DEF BatchSound
  <2>9. ProgressSound(p)'
    <3>1. Verifying(p)'
      <4>1. Recorded(r)'
        BY <1>6 DEF Recorded
      <4>2. Current(p)' = r
        BY <2>5, <1>2 DEF Current
      <4>3. (proc[p].at <= Len(proc[p].batch))'
        BY <1>1, <2>5 DEF Running
      <4>4. Recorded(Current(p))'
        BY <4>1, <4>2 DEF Recorded
      <4>. QED
        BY <4>2, <4>3, <4>4, <2>5 DEF Verifying
    <3>2. \A i \in 1 .. proc[p].at - 1 : Passed(p, i)'
      BY <2>5, <2>7, <1>6 DEF ProgressSound, Passed, Recorded
    <3>. QED
      BY <2>5, <2>7, <3>1, <3>2 DEF ProgressSound
  <2>10. ProcSound(p)'
    BY <2>8, <2>9 DEF ProcSound
  <2>11. RedeliveryIsDuplicate'
    BY <1>6 DEF DisposalInv, RedeliveryIsDuplicate
  <2>. QED
    BY <1>1, <2>3, <2>5, <2>6, <2>10, <2>11, RecorderStep
<1>. QED
  BY <1>2, <1>3, <1>4, <1>5, <1>6

LEMMA VerifyRecordInv ==
  ASSUME DisposalInv, NEW p \in Procs, VerifyRecord(p)
  PROVE  DisposalInv'
<1>1. /\ Running(p) /\ proc[p].pc = "verify"
      /\ UNCHANGED <<removed, stream, recovery, delivery, records, redriven>>
  BY DEF VerifyRecord
<1>2. PICK r \in Removals : r = Current(p)
  BY <1>1, CurrentIsRemoval
<1>3. Verifying(p)
  BY <1>1, CurrentIsRemoval DEF ProgressSound
<1>4. PICK now \in Readings : proc[p].candidate = Candidate(r, now)
  BY <1>2, <1>3 DEF Verifying
<1>5. Recorded(r)
  BY <1>2, <1>3 DEF Verifying
<1>6. PICK then \in Readings : records[disposal_id(r)] = Candidate(r, then)
  BY <1>5 DEF DisposalInv, RecordSound
<1>. DEFINE d == verify_duplicate_or_collision(Candidate(r, then), Candidate(r, now))
<1>7. NextRecord(p, d)
  <2>1. proc[p].candidate.disposal_id = disposal_id(r)
    BY <1>4, CandidateFields
  <2>. QED
    BY <1>4, <1>6, <2>1 DEF VerifyRecord
<1>8. RecordsKept
  BY <1>1, RecordsUnchanged
<1>9. d = "INTEGRITY_FAILURE" =>
        "dated" \notin (IF r \in StreamRemovals THEN Event[r] ELSE Event[r].holds)
  BY SameRemovalIsDuplicate
<1>. HIDE DEF d
<1>10. Recorded(r)'
  BY <1>5, <1>8 DEF RecordsKept
<1>11. ProcSound(p)'
  BY <1>1, <1>2, <1>7, <1>8, <1>10, NextRecordSound
<1>12. RedeliveryIsDuplicate'
  BY <1>2, <1>7, <1>9, NextRecordCollides
<1>. QED
  BY <1>1, <1>7, <1>8, <1>11, <1>12, NextRecordFields, RecorderStep

(***************************************************************************)
(* The stores' removals                                                    *)
(***************************************************************************)

LEMMA RemoveItemInv ==
  ASSUME DisposalInv, NEW r \in StreamRemovals, RemoveItem(r)
  PROVE  DisposalInv'
<1>1. /\ removed' = removed \cup {r} /\ stream' = Append(stream, r)
      /\ UNCHANGED <<recovery, delivery, records, proc, redriven, collided>>
  BY DEF RemoveItem
<1>2. DisposalShape
  BY DEF DisposalInv
<1>3. /\ stream' \in Seq(StreamRemovals)
      /\ Len(stream) \in Nat
      /\ DOMAIN stream = 1 .. Len(stream)
      /\ Len(stream') = Len(stream) + 1
      /\ DOMAIN stream' = 1 .. Len(stream) + 1
      /\ \A i \in 1 .. Len(stream) : stream'[i] = stream[i]
      /\ stream'[Len(stream) + 1] = r
  <2>1. stream \in Seq(StreamRemovals)
    BY <1>2 DEF DisposalShape
  <2>. QED
    BY <2>1, <1>1, AppendProperties, LenProperties
<1>4. StreamKept
  BY <1>3 DEF StreamKept
<1>5. RecordsKept
  BY <1>1, RecordsUnchanged
<1>6. DisposalShape'
  BY <1>1, <1>2, <1>3 DEF DisposalShape, Removals
<1>7. ASSUME NEW s \in removed'
      PROVE  (s \in removed /\ Traced(s)) \/ NumberedNotLost(s)'
  <2>1. CASE s = r
    <3>1. \E i \in DOMAIN stream' : stream'[i] = r
      BY <1>3
    <3>2. Pending(r)'
      BY <3>1 DEF Pending
    <3>. QED
      BY <2>1, <3>2 DEF NumberedNotLost
  <2>2. CASE s # r
    <3>1. s \in removed
      BY <2>2, <1>1
    <3>2. Pending(s) => Pending(s)'
      BY <1>1, <1>3 DEF Pending
    <3>3. Parked(s) => Parked(s)'
      BY <1>1 DEF Parked
    <3>. QED
      BY <3>1, <3>2, <3>3 DEF Traced
  <2>. QED
    BY <2>1, <2>2
<1>8. RedeliveryIsDuplicate'
  BY <1>1 DEF DisposalInv, RedeliveryIsDuplicate
<1>9. RedriveSettles'
  BY <1>1, <1>5, RedriveKept
<1>10. OthersProc(Shard) /\ Shard \in Procs
  BY <1>1, ProcsAreDistinct DEF OthersProc
<1>11. ProcSound(Shard)'
  BY <1>1, <1>4, <1>5, <1>10, ProcKept
<1>. QED
  BY <1>4, <1>5, <1>6, <1>7, <1>8, <1>9, <1>10, <1>11, Assemble

LEMMA RemoveObjectInv ==
  ASSUME DisposalInv, NEW r \in ObjectRemovals, RemoveObject(r)
  PROVE  DisposalInv'
<1>1. /\ removed' = removed \cup {r}
      /\ UNCHANGED <<stream, recovery, records, proc, redriven, collided>>
  BY DEF RemoveObject
<1>2. PICK times \in SUBSET Copies :
        /\ times # {}
        /\ delivery' = [d \in Deliveries |->
             IF d[1] = r /\ d[2] \in times THEN Queued(0) ELSE delivery[d]]
  BY DEF RemoveObject
<1>3. DisposalShape
  BY DEF DisposalInv
<1>4. StreamKept
  BY <1>1, <1>3, SameStreamIsKept
<1>5. RecordsKept
  BY <1>1, RecordsUnchanged
<1>6. DisposalShape'
  BY <1>1, <1>2, <1>3 DEF DisposalShape, Removals
<1>7. ASSUME NEW s \in removed'
      PROVE  (s \in removed /\ Traced(s)) \/ NumberedNotLost(s)'
  <2>1. CASE s = r
    <3>1. PICK c \in times : TRUE
      BY <1>2
    <3>2. <<r, c>> \in Deliveries /\ <<r, c>>[1] = r /\ <<r, c>>[2] = c
      BY <1>2, <3>1 DEF Deliveries
    <3>3. delivery'[<<r, c>>].at = "queued"
      BY <1>2, <3>1, <3>2 DEF Queued
    <3>4. Pending(r)'
      BY <3>2, <3>3 DEF Pending
    <3>. QED
      BY <2>1, <3>4 DEF NumberedNotLost
  <2>2. CASE s # r
    <3>1. s \in removed
      BY <2>2, <1>1
    <3>2. \A d \in Deliveries : d[1] = s => delivery'[d] = delivery[d]
      BY <2>2, <1>2
    <3>3. Pending(s) => Pending(s)'
      BY <1>1, <3>2 DEF Pending
    <3>4. Parked(s) => Parked(s)'
      BY <1>1, <3>2 DEF Parked
    <3>. QED
      BY <3>1, <3>3, <3>4 DEF Traced
  <2>. QED
    BY <2>1, <2>2
<1>8. RedeliveryIsDuplicate'
  BY <1>1 DEF DisposalInv, RedeliveryIsDuplicate
<1>9. RedriveSettles'
  BY <1>1, <1>5, RedriveKept
<1>10. OthersProc(Shard) /\ Shard \in Procs
  BY <1>1, ProcsAreDistinct DEF OthersProc
<1>11. ProcSound(Shard)'
  BY <1>1, <1>4, <1>5, <1>10, ProcKept
<1>. QED
  BY <1>4, <1>5, <1>6, <1>7, <1>8, <1>9, <1>10, <1>11, Assemble

(***************************************************************************)
(* Invocations begin and end                                               *)
(***************************************************************************)

LEMMA BecomesIdle ==
  ASSUME DisposalInv, NEW p \in Procs, proc' = [proc EXCEPT ![p] = Idle]
  PROVE  /\ proc' \in [Procs -> InvocationRecord]
         /\ OthersProc(p)
         /\ ProcSound(p)'
<1>1. proc \in [Procs -> InvocationRecord]
  BY DEF DisposalInv, DisposalShape
<1>2. proc'[p] = Idle /\ proc' \in [Procs -> InvocationRecord] /\ OthersProc(p)
  BY <1>1, IdleIsInvocation DEF OthersProc
<1>3. proc'[p].pc = "idle"
  BY <1>2 DEF Idle
<1>. QED
  BY <1>2, <1>3 DEF ProcSound

LEMMA BecomesInvocation ==
  ASSUME DisposalInv, NEW p \in Procs, NEW b \in Seq(Removals),
         proc' = [proc EXCEPT ![p] = Invocation(b)],
         p = Shard => /\ Len(b) \in 1 .. Len(stream')
                      /\ \A i \in 1 .. Len(b) : b[i] = stream'[i],
         p \in Deliveries => b = <<p[1]>>,
         p \notin Deliveries => b \in Seq(StreamRemovals)
  PROVE  /\ proc' \in [Procs -> InvocationRecord]
         /\ OthersProc(p)
         /\ ProcSound(p)'
<1>1. proc \in [Procs -> InvocationRecord]
  BY DEF DisposalInv, DisposalShape
<1>2. /\ proc'[p] = Invocation(b)
      /\ proc' \in [Procs -> InvocationRecord]
      /\ OthersProc(p)
  BY <1>1, InvocationIsInvocation DEF OthersProc
<1>3. /\ proc'[p].pc = "record" /\ proc'[p].batch = b /\ proc'[p].at = 1
      /\ proc'[p].bad = {}
  BY <1>2 DEF Invocation
<1>4. Len(b) \in Nat
  BY LenProperties
<1>5. BatchSound(p)'
  BY <1>3 DEF BatchSound
<1>6. ProgressSound(p)'
  <2>1. proc'[p].at \in 1 .. Len(proc'[p].batch) + 1
    BY <1>3, <1>4
  <2>2. \A i \in 1 .. proc'[p].at - 1 : FALSE
    BY <1>3
  <2>. QED
    BY <1>3, <2>1, <2>2 DEF ProgressSound
<1>. QED
  BY <1>2, <1>5, <1>6 DEF ProcSound

\* An invocation that is finished has passed all of its batch.
LEMMA FinishedPassed ==
  ASSUME DisposalInv, NEW p \in Procs, Finished(p)
  PROVE  /\ BatchSound(p)
         /\ Len(proc[p].batch) \in Nat
         /\ proc[p].bad \subseteq 1 .. Len(proc[p].batch)
         /\ \A i \in 1 .. Len(proc[p].batch) : Passed(p, i)
<1>1. DisposalShape /\ ProcSound(p) /\ proc[p].pc # "idle"
  BY DEF DisposalInv, Finished
<1>2. BatchSound(p) /\ ProgressSound(p)
  BY <1>1 DEF ProcSound
<1>3. Len(proc[p].batch) \in Nat /\ proc[p].at \in Nat
  BY <1>1, BatchIsOfRemovals
<1>4. proc[p].at - 1 = Len(proc[p].batch)
  BY <1>2, <1>3 DEF ProgressSound, Finished
<1>. QED
  BY <1>2, <1>3, <1>4 DEF ProgressSound

-----------------------------------------------------------------------------
(* The stream                                                              *)

\* The checkpoint moves past what is recorded or parked.
LEMMA DropTraced ==
  ASSUME DisposalInv, RecordsKept, NEW k \in 0 .. Len(stream),
         stream' = SubSeq(stream, k + 1, Len(stream)),
         recovery \subseteq recovery', UNCHANGED delivery,
         \A i \in 1 .. k : \A r \in Removals :
           r = stream[i] /\ Governed(r) /\ Numbered(r) => Recorded(r)' \/ Parked(r)'
  PROVE  stream' \in Seq(StreamRemovals) /\ \A r \in Removals : Traced(r)
<1>1. /\ stream \in Seq(StreamRemovals)
      /\ Len(stream) \in Nat /\ DOMAIN stream = 1 .. Len(stream)
  BY LenProperties DEF DisposalInv, DisposalShape
<1>2. /\ stream' \in Seq(StreamRemovals)
      /\ \A i \in k + 1 .. Len(stream) :
           i - k \in DOMAIN stream' /\ stream'[i - k] = stream[i]
  BY <1>1, Dropped
<1>3. ASSUME NEW r \in Removals, Governed(r), Numbered(r), Pending(r) \/ Parked(r)
      PROVE  Recorded(r)' \/ Pending(r)' \/ Parked(r)'
  <2>1. CASE Parked(r)
    <3>1. Parked(r)'
      BY <2>1 DEF Parked
    <3>. QED
      BY <3>1
  <2>2. CASE \E d \in Deliveries : d[1] = r /\ delivery[d].at = "queued"
    <3>1. Pending(r)'
      BY <2>2 DEF Pending
    <3>. QED
      BY <3>1
  <2>3. CASE \E i \in DOMAIN stream : stream[i] = r
    <3>1. PICK i \in DOMAIN stream : stream[i] = r
      BY <2>3
    <3>2. CASE i \in 1 .. k
      BY <3>1, <3>2, <1>3
    <3>3. CASE i \notin 1 .. k
      <4>1. i \in k + 1 .. Len(stream)
        BY <1>1, <3>1, <3>3
      <4>2. Pending(r)'
        BY <4>1, <3>1, <1>2 DEF Pending
      <4>. QED
        BY <4>2
    <3>. QED
      BY <3>2, <3>3
  <2>. QED
    BY <1>3, <2>1, <2>2, <2>3 DEF Pending
<1>4. \A r \in Removals : Traced(r)
  BY <1>3 DEF Traced
<1>. QED
  BY <1>2, <1>4

\* What the mapping does after an invocation keeps every removal of the batch in
\* the stream or in the recovery bucket, unless it is recorded.
LEMMA RetryTraced ==
  ASSUME DisposalInv, RecordsKept, NEW b \in Seq(StreamRemovals),
         Len(b) \in 1 .. Len(stream), \A i \in 1 .. Len(b) : b[i] = stream[i],
         NEW done \in 0 .. Len(b), Retry(b, done), UNCHANGED delivery,
         \A i \in 1 .. done : \A r \in Removals :
           r = b[i] /\ Governed(r) /\ Numbered(r) => Recorded(r)
  PROVE  /\ stream' \in Seq(StreamRemovals)
         /\ recovery' \subseteq Seq(StreamRemovals)
         /\ \A r \in Removals : Traced(r)
<1>1. /\ stream \in Seq(StreamRemovals) /\ recovery \subseteq Seq(StreamRemovals)
      /\ Len(stream) \in Nat /\ Len(b) \in Nat /\ DOMAIN b = 1 .. Len(b)
  BY LenProperties DEF DisposalInv, DisposalShape
<1>2. CASE done > 0
  <2>1. /\ stream' = SubSeq(stream, done + 1, Len(stream))
        /\ UNCHANGED recovery
    BY <1>2 DEF Retry
  <2>2. done \in 0 .. Len(stream)
    BY <1>1
  <2>3. \A i \in 1 .. done : \A r \in Removals :
          r = stream[i] /\ Governed(r) /\ Numbered(r) => Recorded(r)' \/ Parked(r)'
    <3>1. \A i \in 1 .. done : b[i] = stream[i]
      BY <1>1
    <3>. QED
      BY <3>1 DEF RecordsKept
  <2>. QED
    BY <1>1, <2>1, <2>2, <2>3, DropTraced
<1>3. CASE ~(done > 0) /\ RetriesExhausted
  <2>1. /\ stream' = SubSeq(stream, Len(b) + 1, Len(stream))
        /\ recovery' = recovery \cup {b}
    BY <1>3 DEF Retry
  <2>2. \A i \in 1 .. Len(b) : \A r \in Removals :
          r = stream[i] /\ Governed(r) /\ Numbered(r) => Recorded(r)' \/ Parked(r)'
    <3>1. ASSUME NEW i \in 1 .. Len(b), NEW r \in Removals, r = stream[i]
          PROVE  Parked(r)'
      BY <3>1, <1>1, <2>1 DEF Parked
    <3>. QED
      BY <3>1
  <2>3. Len(b) \in 0 .. Len(stream)
    BY <1>1
  <2>. QED
    BY <1>1, <2>1, <2>2, <2>3, DropTraced
<1>4. CASE ~(done > 0) /\ ~RetriesExhausted
  <2>1. UNCHANGED <<stream, recovery>>
    BY <1>4 DEF Retry
  <2>. QED
    BY <2>1, <1>1, UntouchedIsTraced
<1>. QED
  BY <1>2, <1>3, <1>4

\* The shard's invocation has ended.
LEMMA StreamEndInv ==
  ASSUME DisposalInv, RecordsKept, proc' = [proc EXCEPT ![Shard] = Idle],
         UNCHANGED <<removed, delivery, redriven, collided>>,
         stream' \in Seq(StreamRemovals), recovery' \subseteq Seq(StreamRemovals),
         \A r \in Removals : Traced(r)
  PROVE  DisposalInv'
<1>1. Shard \in Procs
  BY ProcsAreDistinct
<1>2. proc' \in [Procs -> InvocationRecord] /\ OthersProc(Shard) /\ ProcSound(Shard)'
  BY <1>1, BecomesIdle
<1>3. DisposalShape
  BY DEF DisposalInv
<1>4. DisposalShape'
  BY <1>2, <1>3 DEF DisposalShape, RecordsKept
<1>5. \A r \in removed' : r \in removed /\ Traced(r)
  BY <1>3 DEF DisposalShape
<1>6. RedeliveryIsDuplicate'
  BY DEF DisposalInv, RedeliveryIsDuplicate
<1>7. RedriveSettles'
  BY RedriveKept
<1>. QED
  BY <1>1, <1>2, <1>4, <1>5, <1>6, <1>7, Assemble

LEMMA StreamInvokeInv ==
  ASSUME DisposalInv, StreamInvoke
  PROVE  DisposalInv'
<1>1. UNCHANGED <<removed, stream, recovery, delivery, records, redriven, collided>>
  BY DEF StreamInvoke
<1>2. PICK n \in 1 .. BatchSize :
        /\ n <= Len(stream)
        /\ proc' = [proc EXCEPT ![Shard] = Invocation(SubSeq(stream, 1, n))]
  BY DEF StreamInvoke
<1>3. /\ stream \in Seq(StreamRemovals) /\ Len(stream) \in Nat
      /\ \A i \in 1 .. Len(stream) : stream[i] \in StreamRemovals
  BY LenProperties DEF DisposalInv, DisposalShape
<1>4. n \in Nat /\ n >= 1 /\ n <= Len(stream)
  BY <1>2, DisposalAssumption DEF DisposalAssumption
<1>5. PICK b : b = SubSeq(stream, 1, n)
  OBVIOUS
<1>6. /\ b \in Seq(StreamRemovals)
      /\ Len(b) = n
      /\ \A i \in 1 .. n : b[i] = stream[i]
  <2>1. \A i \in 1 .. n : stream[i] \in StreamRemovals
    BY <1>3, <1>4
  <2>2. /\ b \in Seq(StreamRemovals)
        /\ Len(b) = IF 1 <= n THEN n - 1 + 1 ELSE 0
        /\ \A i \in 1 .. n - 1 + 1 : b[i] = stream[1 + i - 1]
    BY <1>4, <1>5, <2>1, SubSeqProperties
  <2>3. n - 1 + 1 = n /\ \A i \in 1 .. n : 1 + i - 1 = i
    BY <1>4
  <2>. QED
    BY <1>4, <2>2, <2>3
<1>7. b \in Seq(Removals)
  BY <1>6, SeqOfSubset DEF Removals
<1>8. Shard \in Procs /\ Shard \notin Deliveries
  BY ProcsAreDistinct
<1>9. /\ Len(b) \in 1 .. Len(stream')
      /\ \A i \in 1 .. Len(b) : b[i] = stream'[i]
  BY <1>1, <1>3, <1>4, <1>6
<1>10. proc' = [proc EXCEPT ![Shard] = Invocation(b)]
  BY <1>2, <1>5
<1>11. proc' \in [Procs -> InvocationRecord] /\ OthersProc(Shard) /\ ProcSound(Shard)'
  BY <1>6, <1>7, <1>8, <1>9, <1>10, BecomesInvocation
<1>12. RecordsKept
  BY <1>1, RecordsUnchanged
<1>13. RedeliveryIsDuplicate'
  BY <1>1 DEF DisposalInv, RedeliveryIsDuplicate
<1>. QED
  BY <1>1, <1>8, <1>11, <1>12, <1>13, RecorderStep

LEMMA StreamReturnInv ==
  ASSUME DisposalInv, StreamReturn
  PROVE  DisposalInv'
<1>1. /\ Finished(Shard) /\ proc' = [proc EXCEPT ![Shard] = Idle]
      /\ UNCHANGED <<removed, delivery, records, redriven, collided>>
  BY DEF StreamReturn
<1>2. Shard \in Procs /\ Shard \notin Deliveries
  BY ProcsAreDistinct
<1>3. /\ BatchSound(Shard)
      /\ Len(proc[Shard].batch) \in Nat
      /\ proc[Shard].bad \subseteq 1 .. Len(proc[Shard].batch)
      /\ \A i \in 1 .. Len(proc[Shard].batch) : Passed(Shard, i)
  BY <1>1, <1>2, FinishedPassed
<1>4. PICK b : b = proc[Shard].batch
  OBVIOUS
<1>5. PICK bad : bad = proc[Shard].bad
  OBVIOUS
<1>6. PICK done : done = IF bad = {} THEN Len(b) ELSE Min(bad) - 1
  OBVIOUS
<1>7. Retry(b, done)
  BY <1>4, <1>5, <1>6 DEF StreamReturn
<1>8. /\ b \in Seq(StreamRemovals) /\ Len(b) \in Nat
      /\ Len(b) \in 1 .. Len(stream)
      /\ \A i \in 1 .. Len(b) : b[i] = stream[i]
  BY <1>2, <1>3, <1>4 DEF BatchSound
<1>9. done \in 0 .. Len(b) /\ \A i \in 1 .. done : i \in 1 .. Len(b) /\ i \notin bad
  <2>1. bad \subseteq 1 .. Len(b)
    BY <1>3, <1>4, <1>5
  <2>2. CASE bad = {}
    BY <2>2, <1>6, <1>8
  <2>3. CASE bad # {}
    <3>1. Min(bad) \in bad /\ \A n \in bad : Min(bad) <= n
      <4>1. bad \in SUBSET Nat
        BY <2>1, <1>8
      <4>. QED
        BY <4>1, <2>3, MinOfSet
    <3>2. Min(bad) \in 1 .. Len(b)
      BY <3>1, <2>1
    <3>3. done = Min(bad) - 1
      BY <2>3, <1>6
    <3>. QED
      BY <3>1, <3>2, <3>3, <1>8
  <2>. QED
    BY <2>2, <2>3
<1>10. ASSUME NEW i \in 1 .. done, NEW r \in Removals, r = b[i], Governed(r), Numbered(r)
       PROVE  Recorded(r)
  <2>1. Passed(Shard, i) /\ i \notin bad
    BY <1>3, <1>4, <1>9
  <2>. QED
    BY <2>1, <1>4, <1>5, <1>10 DEF Passed
<1>11. RecordsKept
  BY <1>1, RecordsUnchanged
<1>12. /\ stream' \in Seq(StreamRemovals)
       /\ recovery' \subseteq Seq(StreamRemovals)
       /\ \A r \in Removals : Traced(r)
  BY <1>1, <1>7, <1>8, <1>9, <1>10, <1>11, RetryTraced
<1>. QED
  BY <1>1, <1>11, <1>12, StreamEndInv

LEMMA StreamErrorInv ==
  ASSUME DisposalInv, RecordsKept, Running(Shard), StreamError,
         UNCHANGED <<removed, collided>>
  PROVE  DisposalInv'
<1>1. proc' = [proc EXCEPT ![Shard] = Idle] /\ UNCHANGED <<delivery, redriven>>
  BY DEF StreamError
<1>2. Shard \in Procs /\ Shard \notin Deliveries
  BY ProcsAreDistinct
<1>3. BatchSound(Shard) /\ DisposalShape
  BY <1>2, CurrentIsRemoval DEF DisposalInv
<1>4. PICK b : b = proc[Shard].batch
  OBVIOUS
<1>5. /\ b \in Seq(StreamRemovals) /\ Len(b) \in Nat
      /\ Len(b) \in 1 .. Len(stream)
      /\ \A i \in 1 .. Len(b) : b[i] = stream[i]
  BY <1>2, <1>3, <1>4, BatchIsOfRemovals DEF BatchSound
<1>6. CASE Len(b) > 1
  <2>1. UNCHANGED <<stream, recovery>>
    BY <1>4, <1>6 DEF StreamError
  <2>2. stream' \in Seq(StreamRemovals) /\ recovery' \subseteq Seq(StreamRemovals)
    BY <2>1, <1>3 DEF DisposalShape
  <2>. QED
    BY <2>1, <2>2, <1>1, UntouchedIsTraced, StreamEndInv
<1>7. CASE ~(Len(b) > 1)
  <2>1. Retry(b, 0)
    BY <1>4, <1>7 DEF StreamError
  <2>2. 0 \in 0 .. Len(b) /\ \A i \in 1 .. 0 : FALSE
    BY <1>5
  <2>3. /\ stream' \in Seq(StreamRemovals)
        /\ recovery' \subseteq Seq(StreamRemovals)
        /\ \A r \in Removals : Traced(r)
    BY <1>1, <1>5, <2>1, <2>2, RetryTraced
  <2>. QED
    BY <1>1, <2>3, StreamEndInv
<1>. QED
  BY <1>6, <1>7

-----------------------------------------------------------------------------
(* S3 events                                                               *)

LEMMA AsyncInvokeInv ==
  ASSUME DisposalInv, NEW d \in Deliveries, AsyncInvoke(d)
  PROVE  DisposalInv'
<1>1. /\ proc' = [proc EXCEPT ![d] = Invocation(<<d[1]>>)]
      /\ UNCHANGED <<removed, stream, recovery, delivery, records, redriven, collided>>
  BY DEF AsyncInvoke
<1>2. d \in Procs /\ d # Shard
  BY ProcsAreDistinct
<1>3. d[1] \in Removals
  BY DEF Deliveries, Removals
<1>4. <<d[1]>> \in Seq(Removals)
  BY <1>3
<1>5. proc' \in [Procs -> InvocationRecord] /\ OthersProc(d) /\ ProcSound(d)'
  BY <1>1, <1>2, <1>4, BecomesInvocation
<1>6. RecordsKept
  BY <1>1, RecordsUnchanged
<1>7. RedeliveryIsDuplicate'
  BY <1>1 DEF DisposalInv, RedeliveryIsDuplicate
<1>. QED
  BY <1>1, <1>2, <1>5, <1>6, <1>7, RecorderStep

\* A delivery changes hands: its removal is still to be delivered, parked or on
\* record, and the others are as they were.
LEMMA DeliveryTraced ==
  ASSUME DisposalInv, NEW d \in Deliveries, NEW e,
         delivery' = [delivery EXCEPT ![d] = e],
         e.at \in {"queued", "dlq"} \/ (Governed(d[1]) => Recorded(d[1])'),
         UNCHANGED <<stream, recovery>>
  PROVE  DOMAIN delivery' = Deliveries /\ \A r \in Removals : Traced(r)
<1>1. DOMAIN delivery = Deliveries
  BY DEF DisposalInv, DisposalShape
<1>2. /\ DOMAIN delivery' = Deliveries
      /\ delivery'[d] = e
      /\ \A c \in Deliveries : c # d => delivery'[c] = delivery[c]
  BY <1>1
<1>3. ASSUME NEW r \in Removals, Governed(r), Pending(r) \/ Parked(r)
      PROVE  Recorded(r)' \/ Pending(r)' \/ Parked(r)'
  <2>1. CASE d[1] = r
    <3>1. CASE e.at = "queued"
      BY <2>1, <3>1, <1>2 DEF Pending
    <3>2. CASE e.at = "dlq"
      BY <2>1, <3>2, <1>2 DEF Parked
    <3>3. CASE Governed(d[1]) => Recorded(d[1])'
      BY <2>1, <3>3, <1>3
    <3>. QED
      BY <3>1, <3>2, <3>3
  <2>2. CASE d[1] # r
    <3>1. \A c \in Deliveries : c[1] = r => delivery'[c] = delivery[c]
      BY <2>2, <1>2
    <3>2. Pending(r) => Pending(r)'
      BY <3>1 DEF Pending
    <3>3. Parked(r) => Parked(r)'
      BY <3>1 DEF Parked
    <3>. QED
      BY <1>3, <3>2, <3>3
  <2>. QED
    BY <2>1, <2>2
<1>. QED
  BY <1>2, <1>3 DEF Traced

LEMMA AfterFailureIsQueuedOrParked ==
  ASSUME DisposalInv, NEW d \in Deliveries, AfterFailure(d), UNCHANGED <<stream, recovery>>
  PROVE  DOMAIN delivery' = Deliveries /\ \A r \in Removals : Traced(r)
<1>. DEFINE e == IF delivery[d].tries = MaximumAsyncRetries THEN Settled("dlq")
                 ELSE Queued(delivery[d].tries + 1)
<1>1. delivery' = [delivery EXCEPT ![d] = e]
  BY DEF AfterFailure
<1>2. e.at \in {"queued", "dlq"}
  BY DEF Settled, Queued
<1>. HIDE DEF e
<1>3. PICK f : f = e
  OBVIOUS
<1>. QED
  BY <1>1, <1>2, <1>3, DeliveryTraced

\* A delivery's step, its invocation over or not begun.
LEMMA DeliveryStepInv ==
  ASSUME DisposalInv, RecordsKept, NEW d \in Deliveries,
         proc' \in [Procs -> InvocationRecord], OthersProc(d), ProcSound(d)',
         DOMAIN delivery' = Deliveries, \A r \in Removals : Traced(r),
         UNCHANGED <<removed, stream, recovery, redriven, collided>>
  PROVE  DisposalInv'
<1>1. d \in Procs /\ d # Shard
  BY ProcsAreDistinct
<1>2. DisposalShape
  BY DEF DisposalInv
<1>3. DisposalShape'
  BY <1>2 DEF DisposalShape, RecordsKept
<1>4. StreamKept
  BY <1>2, SameStreamIsKept
<1>5. \A r \in removed' : r \in removed /\ Traced(r)
  BY <1>2 DEF DisposalShape
<1>6. RedeliveryIsDuplicate'
  BY DEF DisposalInv, RedeliveryIsDuplicate
<1>7. RedriveSettles'
  BY RedriveKept
<1>. QED
  BY <1>1, <1>3, <1>4, <1>5, <1>6, <1>7, Assemble

LEMMA AsyncReturnInv ==
  ASSUME DisposalInv, NEW d \in Deliveries, AsyncReturn(d)
  PROVE  DisposalInv'
<1>1. /\ Finished(d) /\ proc' = [proc EXCEPT ![d] = Idle]
      /\ UNCHANGED <<removed, stream, recovery, records, redriven, collided>>
  BY DEF AsyncReturn
<1>2. d \in Procs /\ d # Shard
  BY ProcsAreDistinct
<1>3. proc' \in [Procs -> InvocationRecord] /\ OthersProc(d) /\ ProcSound(d)'
  BY <1>1, <1>2, BecomesIdle
<1>4. RecordsKept
  BY <1>1, RecordsUnchanged
<1>5. DOMAIN delivery' = Deliveries /\ \A r \in Removals : Traced(r)
  <2>1. CASE proc[d].bad = {}
    <3>1. delivery' = [delivery EXCEPT ![d] = Settled("done")]
      BY <2>1 DEF AsyncReturn
    <3>2. BatchSound(d) /\ \A i \in 1 .. Len(proc[d].batch) : Passed(d, i)
      BY <1>1, <1>2, FinishedPassed
    <3>3. proc[d].batch = <<d[1]>>
      BY <3>2 DEF BatchSound
    <3>4. Len(proc[d].batch) = 1 /\ proc[d].batch[1] = d[1]
      BY <3>3
    <3>5. Passed(d, 1)
      BY <3>2, <3>4
    <3>6. Governed(d[1]) => Recorded(d[1])
      BY <2>1, <3>4, <3>5, <1>2 DEF Passed
    <3>7. d[1] \in Removals
      BY DEF Deliveries, Removals
    <3>8. Governed(d[1]) => Recorded(d[1])'
      BY <3>6, <3>7, <1>4 DEF RecordsKept
    <3>9. PICK e : e = Settled("done")
      OBVIOUS
    <3>. QED
      BY <1>1, <3>1, <3>8, <3>9, DeliveryTraced
  <2>2. CASE proc[d].bad # {}
    <3>1. AfterFailure(d)
      BY <2>2 DEF AsyncReturn
    <3>. QED
      BY <1>1, <3>1, AfterFailureIsQueuedOrParked
  <2>. QED
    BY <2>1, <2>2
<1>. QED
  BY <1>1, <1>3, <1>4, <1>5, DeliveryStepInv

LEMMA AsyncErrorInv ==
  ASSUME DisposalInv, RecordsKept, NEW d \in Deliveries, AsyncError(d),
         UNCHANGED <<removed, collided>>
  PROVE  DisposalInv'
<1>1. /\ AfterFailure(d) /\ proc' = [proc EXCEPT ![d] = Idle]
      /\ UNCHANGED <<stream, recovery, redriven>>
  BY DEF AsyncError
<1>2. d \in Procs
  BY ProcsAreDistinct
<1>3. proc' \in [Procs -> InvocationRecord] /\ OthersProc(d) /\ ProcSound(d)'
  BY <1>1, <1>2, BecomesIdle
<1>4. DOMAIN delivery' = Deliveries /\ \A r \in Removals : Traced(r)
  BY <1>1, AfterFailureIsQueuedOrParked
<1>. QED
  BY <1>1, <1>3, <1>4, DeliveryStepInv

LEMMA DeliveryExpiresInv ==
  ASSUME DisposalInv, NEW d \in Deliveries, DeliveryExpires(d)
  PROVE  DisposalInv'
<1>1. /\ delivery' = [delivery EXCEPT ![d] = Settled("dlq")]
      /\ UNCHANGED <<removed, stream, recovery, records, proc, redriven, collided>>
  BY DEF DeliveryExpires
<1>2. d \in Procs /\ d # Shard
  BY ProcsAreDistinct
<1>3. RecordsKept
  BY <1>1, RecordsUnchanged
<1>4. ProcSound(d)'
  BY <1>1, <1>2, <1>3, ProcKept
<1>5. proc' \in [Procs -> InvocationRecord] /\ OthersProc(d)
  BY <1>1 DEF DisposalInv, DisposalShape, OthersProc
<1>6. Settled("dlq").at \in {"queued", "dlq"}
  BY DEF Settled
<1>7. PICK e : e = Settled("dlq")
  OBVIOUS
<1>8. DOMAIN delivery' = Deliveries /\ \A r \in Removals : Traced(r)
  BY <1>1, <1>6, <1>7, DeliveryTraced
<1>. QED
  BY <1>1, <1>3, <1>4, <1>5, <1>8, DeliveryStepInv

-----------------------------------------------------------------------------
(* The redrive command                                                     *)

\* Operator o is told v.
LEMMA RedriveStepInv ==
  ASSUME DisposalInv, RecordsKept, NEW o \in Operators,
         proc' \in [Procs -> InvocationRecord], OthersProc(o), ProcSound(o)',
         NEW v, redriven' = [redriven EXCEPT ![o] = v],
         v # Nothing => v.batch \in Seq(Removals),
         v # Nothing /\ v.exit_code = 0 =>
           \A i \in DOMAIN v.batch : \A r \in Removals :
             r = v.batch[i] /\ Governed(r) => Recorded(r)',
         UNCHANGED <<removed, stream, recovery, delivery, collided>>
  PROVE  DisposalInv'
<1>1. o \in Procs
  BY ProcsAreDistinct
<1>2. DisposalShape /\ RedriveSettles
  BY DEF DisposalInv
<1>3. /\ DOMAIN redriven' = Operators
      /\ redriven'[o] = v
      /\ \A q \in Operators : q # o => redriven'[q] = redriven[q]
  BY <1>2 DEF DisposalShape
<1>4. \A q \in Operators : redriven'[q] # Nothing => redriven'[q].batch \in Seq(Removals)
  <2>1. ASSUME NEW q \in Operators, redriven'[q] # Nothing
        PROVE  redriven'[q].batch \in Seq(Removals)
    <3>1. CASE q = o
      BY <3>1, <2>1, <1>3
    <3>2. CASE q # o
      BY <3>2, <2>1, <1>2, <1>3 DEF DisposalShape
    <3>. QED
      BY <3>1, <3>2
  <2>. QED
    BY <2>1
<1>5. DisposalShape'
  BY <1>2, <1>3, <1>4 DEF DisposalShape, RecordsKept
<1>6. StreamKept
  BY <1>2, SameStreamIsKept
<1>7. \A r \in removed' : r \in removed /\ Traced(r)
  BY UntouchedIsTraced
<1>8. RedeliveryIsDuplicate'
  BY DEF DisposalInv, RedeliveryIsDuplicate
<1>9. RedriveSettles'
  <2>. SUFFICES ASSUME NEW q \in Operators, redriven'[q] # Nothing,
                       redriven'[q].exit_code = 0,
                       NEW i \in DOMAIN redriven'[q].batch,
                       Governed(redriven'[q].batch[i])
                PROVE  records'[disposal_id(redriven'[q].batch[i])] # Nothing
    BY DEF RedriveSettles, Recorded
  <2>1. PICK r \in Removals : r = redriven'[q].batch[i]
    BY <1>4, LenProperties
  <2>2. Recorded(r)'
    <3>1. CASE q = o
      BY <3>1, <2>1, <1>3
    <3>2. CASE q # o
      <4>1. Recorded(r)
        BY <3>2, <2>1, <1>2, <1>3 DEF RedriveSettles
      <4>. QED
        BY <4>1 DEF RecordsKept
    <3>. QED
      BY <3>1, <3>2
  <2>. QED
    BY <2>1, <2>2 DEF Recorded
<1>. QED
  BY <1>1, <1>5, <1>6, <1>7, <1>8, <1>9, Assemble

LEMMA RedriveStartInv ==
  ASSUME DisposalInv, NEW o \in Operators, RedriveStart(o)
  PROVE  DisposalInv'
<1>1. UNCHANGED <<removed, stream, recovery, delivery, records, collided>>
  BY DEF RedriveStart
<1>2. PICK b \in recovery :
        /\ proc' = [proc EXCEPT ![o] = Invocation(b)]
        /\ redriven' = [redriven EXCEPT ![o] = Nothing]
  BY DEF RedriveStart
<1>3. b \in Seq(StreamRemovals)
  BY DEF DisposalInv, DisposalShape
<1>4. b \in Seq(Removals)
  BY <1>3, SeqOfSubset DEF Removals
<1>5. o \in Procs /\ o # Shard /\ o \notin Deliveries
  BY ProcsAreDistinct
<1>6. proc' \in [Procs -> InvocationRecord] /\ OthersProc(o) /\ ProcSound(o)'
  BY <1>2, <1>3, <1>4, <1>5, BecomesInvocation
<1>7. RecordsKept
  BY <1>1, RecordsUnchanged
<1>. QED
  BY <1>1, <1>2, <1>6, <1>7, RedriveStepInv

LEMMA RedriveRejectedInv ==
  ASSUME DisposalInv, NEW o \in Operators, RedriveRejected(o)
  PROVE  DisposalInv'
<1>1. UNCHANGED <<removed, stream, recovery, delivery, records, proc, collided>>
  BY DEF RedriveRejected
<1>2. PICK v : v = [batch |-> <<>>, exit_code |-> 1]
  OBVIOUS
<1>3. redriven' = [redriven EXCEPT ![o] = v]
  BY <1>2 DEF RedriveRejected
<1>4. v.batch \in Seq(Removals) /\ v.exit_code = 1
  BY <1>2
<1>5. o \in Procs /\ o # Shard
  BY ProcsAreDistinct
<1>6. RecordsKept
  BY <1>1, RecordsUnchanged
<1>7. ProcSound(o)'
  BY <1>1, <1>5, <1>6, ProcKept
<1>8. proc' \in [Procs -> InvocationRecord] /\ OthersProc(o)
  BY <1>1 DEF DisposalInv, DisposalShape, OthersProc
<1>. QED
  <2>1. v.exit_code # 0
    BY <1>4
  <2>2. v.batch \in Seq(Removals)
    BY <1>4
  <2>. QED
    BY <1>1, <1>3, <1>6, <1>7, <1>8, <2>1, <2>2, RedriveStepInv

LEMMA RedriveReturnInv ==
  ASSUME DisposalInv, NEW o \in Operators, RedriveReturn(o)
  PROVE  DisposalInv'
<1>1. /\ Finished(o) /\ proc' = [proc EXCEPT ![o] = Idle]
      /\ UNCHANGED <<removed, stream, recovery, delivery, records, collided>>
  BY DEF RedriveReturn
<1>2. o \in Procs /\ o # Shard
  BY ProcsAreDistinct
<1>3. PICK b : b = proc[o].batch
  OBVIOUS
<1>4. PICK code : code = IF proc[o].bad = {} THEN 0 ELSE 1
  OBVIOUS
<1>5. PICK v : v = [batch |-> b, exit_code |-> code]
  OBVIOUS
<1>6. redriven' = [redriven EXCEPT ![o] = v]
  BY <1>3, <1>4, <1>5 DEF RedriveReturn
<1>7. b \in Seq(Removals) /\ DOMAIN b = 1 .. Len(b)
  <2>1. proc[o] \in InvocationRecord
    BY <1>2 DEF DisposalInv, DisposalShape
  <2>2. b \in Seq(Removals)
    BY <2>1, <1>3 DEF InvocationRecord
  <2>. QED
    BY <2>2, LenProperties
<1>8. RecordsKept
  BY <1>1, RecordsUnchanged
<1>9. ASSUME code = 0, NEW i \in DOMAIN b, NEW r \in Removals, r = b[i], Governed(r)
      PROVE  Recorded(r)'
  <2>1. proc[o].bad = {}
    BY <1>4, <1>9
  <2>2. Passed(o, i)
    BY <1>1, <1>2, <1>3, <1>7, FinishedPassed
  <2>3. Recorded(r)
    BY <2>1, <2>2, <1>2, <1>3, <1>9 DEF Passed
  <2>. QED
    BY <2>3, <1>8 DEF RecordsKept
<1>10. proc' \in [Procs -> InvocationRecord] /\ OthersProc(o) /\ ProcSound(o)'
  BY <1>1, <1>2, BecomesIdle
<1>11. v.batch = b /\ v.exit_code = code
  BY <1>5
<1>. QED
  BY <1>1, <1>6, <1>7, <1>8, <1>9, <1>10, <1>11, RedriveStepInv

LEMMA RedriveErrorInv ==
  ASSUME DisposalInv, RecordsKept, NEW o \in Operators, RedriveError(o),
         UNCHANGED <<removed, collided>>
  PROVE  DisposalInv'
<1>1. /\ proc' = [proc EXCEPT ![o] = Idle]
      /\ UNCHANGED <<stream, recovery, delivery>>
  BY DEF RedriveError
<1>2. o \in Procs
  BY ProcsAreDistinct
<1>3. PICK b : b = proc[o].batch
  OBVIOUS
<1>4. PICK v : v = [batch |-> b, exit_code |-> 1]
  OBVIOUS
<1>5. redriven' = [redriven EXCEPT ![o] = v]
  BY <1>3, <1>4 DEF RedriveError
<1>6. b \in Seq(Removals)
  BY <1>2, <1>3 DEF DisposalInv, DisposalShape, InvocationRecord
<1>7. v.batch = b /\ v.exit_code = 1
  BY <1>4
<1>8. proc' \in [Procs -> InvocationRecord] /\ OthersProc(o) /\ ProcSound(o)'
  BY <1>1, <1>2, BecomesIdle
<1>. QED
  <2>1. v.exit_code # 0
    BY <1>7
  <2>2. v.batch \in Seq(Removals)
    BY <1>6, <1>7
  <2>. QED
    BY <1>1, <1>5, <1>8, <2>1, <2>2, RedriveStepInv

(***************************************************************************)
(* Failures                                                                *)
(***************************************************************************)

\* Whatever is on record when it happens, an exception loses nothing.
LEMMA RaiseInv ==
  ASSUME DisposalInv, RecordsKept, NEW p \in Procs, Running(p), Raise(p),
         UNCHANGED <<removed, collided>>
  PROVE  DisposalInv'
<1>1. CASE p = Shard /\ StreamError
  BY <1>1, StreamErrorInv
<1>2. CASE p \in Deliveries /\ AsyncError(p)
  BY <1>2, AsyncErrorInv
<1>3. CASE p \in Operators /\ RedriveError(p)
  BY <1>3, RedriveErrorInv
<1>. QED
  BY <1>1, <1>2, <1>3 DEF Raise

LEMMA CallFailsInv ==
  ASSUME DisposalInv, NEW p \in Procs, CallFails(p)
  PROVE  DisposalInv'
<1>1. Running(p) /\ Raise(p) /\ UNCHANGED <<removed, records, collided>>
  BY DEF CallFails
<1>2. RecordsKept
  BY <1>1, RecordsUnchanged
<1>. QED
  BY <1>1, <1>2, RaiseInv

LEMMA BuildFailsInv ==
  ASSUME DisposalInv, NEW p \in Procs, BuildFails(p)
  PROVE  DisposalInv'
<1>1. Running(p) /\ Raise(p) /\ UNCHANGED <<removed, records, collided>>
  BY DEF BuildFails
<1>2. RecordsKept
  BY <1>1, RecordsUnchanged
<1>. QED
  BY <1>1, <1>2, RaiseInv

LEMMA AnswerLostInv ==
  ASSUME DisposalInv, NEW p \in Procs, AnswerLost(p)
  PROVE  DisposalInv'
<1>1. Running(p) /\ Raise(p) /\ UNCHANGED <<removed, collided>>
  BY DEF AnswerLost
<1>2. PICK r \in Removals : r = Current(p)
  BY <1>1, CurrentIsRemoval
<1>3. /\ records[disposal_id(r)] = Nothing
      /\ \E now \in Readings :
           records' = [records EXCEPT ![disposal_id(r)] = Candidate(r, now)]
  BY <1>2 DEF AnswerLost
<1>4. RecordsKept
  BY <1>3, RecordWritten
<1>. QED
  BY <1>1, <1>4, RaiseInv

(***************************************************************************)
(* Theorems                                                                *)
(***************************************************************************)

LEMMA DisposalInitInv ==
  ASSUME DisposalInit
  PROVE  DisposalInv
<1>1. DisposalShape
  <2>1. <<>> \in Seq(StreamRemovals)
    OBVIOUS
  <2>. QED
    BY <2>1, IdleIsInvocation DEF DisposalInit, DisposalShape
<1>2. \A r \in Removals : RecordSound(r)
  BY DEF DisposalInit, RecordSound, Recorded, Ids
<1>3. ASSUME NEW p \in Procs PROVE ProcSound(p)
  BY DEF DisposalInit, ProcSound, Idle
<1>4. removed = {}
  BY DEF DisposalInit
<1>5. RedeliveryIsDuplicate
  BY DEF DisposalInit, RedeliveryIsDuplicate
<1>6. RedriveSettles
  BY DEF DisposalInit, RedriveSettles
<1>. QED
  BY <1>1, <1>2, <1>3, <1>4, <1>5, <1>6 DEF DisposalInv

LEMMA DisposalNextInv ==
  ASSUME DisposalInv, [DisposalNext]_disposalVars
  PROVE  DisposalInv'
<1>1. ASSUME NEW r \in StreamRemovals, RemoveItem(r) PROVE DisposalInv'
  BY <1>1, RemoveItemInv
<1>2. ASSUME NEW r \in ObjectRemovals, RemoveObject(r) PROVE DisposalInv'
  BY <1>2, RemoveObjectInv
<1>3. ASSUME NEW p \in Procs, Recorder(p) PROVE DisposalInv'
  BY <1>3, RejectInv, PutRecordInv, VerifyRecordInv, BuildFailsInv DEF Recorder
<1>4. ASSUME NEW p \in Procs, CallFails(p) \/ AnswerLost(p) PROVE DisposalInv'
  BY <1>4, CallFailsInv, AnswerLostInv
<1>5. ASSUME StreamInvoke \/ StreamReturn PROVE DisposalInv'
  BY <1>5, StreamInvokeInv, StreamReturnInv
<1>6. ASSUME NEW d \in Deliveries, AsyncInvoke(d) \/ AsyncReturn(d) \/ DeliveryExpires(d)
      PROVE  DisposalInv'
  BY <1>6, AsyncInvokeInv, AsyncReturnInv, DeliveryExpiresInv
<1>7. ASSUME NEW o \in Operators,
             RedriveStart(o) \/ RedriveRejected(o) \/ RedriveReturn(o)
      PROVE  DisposalInv'
  BY <1>7, RedriveStartInv, RedriveRejectedInv, RedriveReturnInv
<1>8. ASSUME UNCHANGED disposalVars PROVE DisposalInv'
  <2>1. UNCHANGED <<removed, stream, recovery, delivery, records, proc, redriven, collided>>
    BY <1>8 DEF disposalVars
  <2>2. DisposalShape'
    BY <2>1 DEF DisposalInv, DisposalShape
  <2>3. \A p \in Procs : ProcSound(p)'
    <3>1. StreamKept /\ RecordsKept
      BY <2>1, SameStreamIsKept, RecordsUnchanged DEF DisposalInv
    <3>. QED
      BY <2>1, <3>1, ProcKept
  <2>4. \A r \in Removals : RecordSound(r)'
    BY <2>1, RecordsUnchanged DEF RecordsKept
  <2>5. \A r \in removed' : NumberedNotLost(r)'
    BY <2>1 DEF DisposalInv, NumberedNotLost, Recorded, Pending, Parked
  <2>6. RedeliveryIsDuplicate' /\ RedriveSettles'
    BY <2>1 DEF DisposalInv, RedeliveryIsDuplicate, RedriveSettles, Recorded
  <2>. QED
    BY <2>2, <2>3, <2>4, <2>5, <2>6 DEF DisposalInv
<1>. QED
  BY <1>1, <1>2, <1>3, <1>4, <1>5, <1>6, <1>7, <1>8 DEF DisposalNext

\* The invariant of every behaviour of the recorder.
THEOREM DisposalInvariant ==
  DisposalSpec => []DisposalInv
<1>1. DisposalInit => DisposalInv
  BY DisposalInitInv
<1>2. DisposalInv /\ [DisposalNext]_disposalVars => DisposalInv'
  BY DisposalNextInv
<1>. QED
  BY <1>1, <1>2, PTL DEF DisposalSpec

\* A removal of governed evidence is on record, still to be delivered or parked,
\* whatever fails in its batch or its delivery (_handle_dynamodb_streams_batch), if
\* every record of the stream has the SequenceNumber by which the handler reports it.
THEOREM NoRemovalIsLost ==
  ASSUME \A r \in StreamRemovals : "sequence" \in Event[r]
  PROVE  DisposalSpec => []NothingLost
<1>1. DisposalInv => NothingLost
  BY DEF DisposalInv, NumberedNotLost, NothingLost, Numbered
<1>. QED
  BY <1>1, DisposalInvariant, PTL

\* Only a removal whose event has no date can be called an integrity failure: a
\* redelivery, a retry or a redrive never is (verify_duplicate_or_collision).
THEOREM RedeliveryIsRecognised ==
  DisposalSpec => []RedeliveryIsDuplicate
<1>1. DisposalInv => RedeliveryIsDuplicate
  BY DEF DisposalInv
<1>. QED
  BY <1>1, DisposalInvariant, PTL

\* An operator who is told 0 may delete the recovery object: all that was governed in
\* its batch is on record (redrive_disposal_recorder).
THEOREM RedriveLeavesNothing ==
  DisposalSpec => []RedriveSettles
<1>1. DisposalInv => RedriveSettles
  BY DEF DisposalInv
<1>. QED
  BY <1>1, DisposalInvariant, PTL

-----------------------------------------------------------------------------
(* Records                                                                 *)

\* A record is only ever written where there is none.
WriteOnce ==
  \/ UNCHANGED records
  \/ \E id, c : records[id] = Nothing /\ records' = [records EXCEPT ![id] = c]

LEMMA StepsWriteOnce ==
  ASSUME [DisposalNext]_disposalVars
  PROVE  WriteOnce
<1>1. ASSUME NEW p \in Procs, PutRecord(p) PROVE WriteOnce
  <2>1. PICK now \in Readings :
          LET candidate == Candidate(Current(p), now) IN
          \/ /\ records[candidate.disposal_id] = Nothing
             /\ records' = [records EXCEPT ![candidate.disposal_id] = candidate]
          \/ UNCHANGED records
    BY <1>1 DEF PutRecord
  <2>2. PICK c : c = Candidate(Current(p), now)
    OBVIOUS
  <2>. QED
    BY <2>1, <2>2 DEF WriteOnce
<1>2. ASSUME NEW p \in Procs, AnswerLost(p) PROVE WriteOnce
  BY <1>2 DEF AnswerLost, WriteOnce
<1>3. ASSUME NEW p \in Procs,
             Reject(p) \/ VerifyRecord(p) \/ BuildFails(p) \/ CallFails(p)
      PROVE  WriteOnce
  BY <1>3 DEF Reject, VerifyRecord, BuildFails, CallFails, WriteOnce
<1>4. ASSUME \/ \E r \in StreamRemovals : RemoveItem(r)
             \/ \E r \in ObjectRemovals : RemoveObject(r)
             \/ StreamInvoke \/ StreamReturn
      PROVE  WriteOnce
  BY <1>4 DEF RemoveItem, RemoveObject, StreamInvoke, StreamReturn, WriteOnce
<1>5. ASSUME NEW d \in Deliveries, AsyncInvoke(d) \/ AsyncReturn(d) \/ DeliveryExpires(d)
      PROVE  WriteOnce
  BY <1>5 DEF AsyncInvoke, AsyncReturn, DeliveryExpires, WriteOnce
<1>6. ASSUME NEW o \in Operators,
             RedriveStart(o) \/ RedriveRejected(o) \/ RedriveReturn(o)
      PROVE  WriteOnce
  BY <1>6 DEF RedriveStart, RedriveRejected, RedriveReturn, WriteOnce
<1>7. ASSUME UNCHANGED disposalVars PROVE WriteOnce
  BY <1>7 DEF disposalVars, WriteOnce
<1>. QED
  BY <1>1, <1>2, <1>3, <1>4, <1>5, <1>6, <1>7 DEF DisposalNext, Recorder

\* A disposal record is never changed or removed (_put_once).
THEOREM DisposalRecordsAreFinal ==
  DisposalSpec => RecordsNeverChange
<1>1. ASSUME DisposalInv, [DisposalNext]_disposalVars,
             NEW id \in Ids, records[id] # Nothing
      PROVE  records'[id] = records[id]
  <2>1. DOMAIN records = Ids
    BY <1>1 DEF DisposalInv, DisposalShape
  <2>2. WriteOnce
    BY <1>1, StepsWriteOnce
  <2>3. ASSUME NEW i, NEW c, records[i] = Nothing, records' = [records EXCEPT ![i] = c]
        PROVE  records'[id] = records[id]
    BY <2>1, <2>3, <1>1
  <2>. QED
    BY <2>2, <2>3 DEF WriteOnce
<1>2. DisposalInv /\ [DisposalNext]_disposalVars
        => [\A id \in Ids : records[id] # Nothing => records'[id] = records[id]]_disposalVars
  BY <1>1
<1>. QED
  BY <1>2, DisposalInvariant, PTL DEF DisposalSpec, RecordsNeverChange

=============================================================================
