-------------------------- MODULE Aggregation_proofs --------------------------
(***************************************************************************)
(* Proofs about Aggregation and EvidenceRetrieval, for any number of runs, *)
(* jobs, invocations and faults: there is one aggregate set for an audit,  *)
(* it is whole as soon as its marker is there, and a settled job has it.   *)
(***************************************************************************)
EXTENDS EvidenceRetrieval, FiniteSetTheorems, SequenceTheorems, TLAPS

(***************************************************************************)
(* The inductive invariant                                                 *)
(***************************************************************************)

\* What the set of an audit consists of when it covers the runs R.
PagesOf(id, R) == LineagePages(id, LoadedRecords(R))
SetOf(id, R) == PersistedRecords(id, LoadedRecords(R))

AllPages == UNION {PagesOf(id, R) : id \in Ids \cup {NoId}, R \in SUBSET Runs}

InvocationState ==
  [pc : InvocationPcs, status : JobStatuses \ {"absent"}, id : Ids \cup {NoId},
   count : 0 .. Cardinality(Runs), runs : SUBSET Runs, pages : SUBSET AllPages]

JobState == [status : JobStatuses, id : Ids \cup {NoId}, refused : BOOLEAN]

AuditState ==
  [lifecycle_state : {"ACTIVE", "COMPLETED"}, execution_count : 0 .. Cardinality(Runs)]

AggShape ==
  /\ audit \in AuditState
  /\ completed \subseteq Runs
  /\ job \in [Jobs -> JobState]
  /\ identity \in Ids \cup {NoId}
  /\ invocation \in [Invocations -> InvocationState]
  /\ aggFaults \in 0 .. MaxAggFaults

Listed(i) == invocation[i].pc \in {"build", "write", "recheck_set"}
Writes(i) == invocation[i].pc \in {"write", "recheck_set"}
Checked(i) == invocation[i].pc \in {"list_runs", "build", "write", "recheck_set"}

\* The audit has one id, which every invocation and every job uses.
IdSound(i) ==
  /\ invocation[i].id \in {NoId, identity}
  /\ invocation[i].pc = "check_set" \/ Checked(i) =>
       invocation[i].id = identity /\ identity # NoId
  /\ Checked(i) => job[JobOf[i]].id = identity

\* Only a finalized audit counts executions, and it is finalized once.
CountSound ==
  /\ audit.execution_count > 0 => audit.lifecycle_state = "COMPLETED"
  /\ \A i \in Invocations :
       invocation[i].count > 0 => invocation[i].count = audit.execution_count

\* Runs complete and stay completed: of two listings one is a part of the other.
Comparable(A, B) == A \subseteq B \/ B \subseteq A

ListingSound ==
  /\ \A i \in Invocations : Listed(i) => invocation[i].runs \subseteq completed
  /\ \A i, j \in Invocations :
       Listed(i) /\ Listed(j) => Comparable(invocation[i].runs, invocation[j].runs)

Started == items # {} \/ \E i \in Invocations : Writes(i)

\* Everything that is or will be written covers the runs R.
Covers(R) ==
  /\ \A i \in Invocations : Listed(i) => Comparable(invocation[i].runs, R)
  /\ \A i \in Invocations : Writes(i) => invocation[i].runs = R
  /\ Started => /\ Cardinality(R) = audit.execution_count
                /\ audit.execution_count > 0
                /\ identity # NoId

\* The pages come first, the rest in one transaction when all pages are there.
Written(R) ==
  /\ items \subseteq PagesOf(identity, R) \cup SetOf(identity, R)
  /\ \/ items \cap SetOf(identity, R) = {}
     \/ items = PagesOf(identity, R) \cup SetOf(identity, R)
  /\ \A i \in Invocations : invocation[i].pc = "write" =>
       /\ invocation[i].pages \subseteq PagesOf(identity, R)
       /\ PagesOf(identity, R) \subseteq items \cup invocation[i].pages

EvidenceSound == \E R \in SUBSET completed : Covers(R) /\ Written(R)

MarkerWritten == \E marker \in items : marker.kind = "SET"

\* A job is settled when the set is there, under the id that the job names.
SettledSound ==
  /\ \A j \in Jobs : job[j].status \in Settled => MarkerWritten /\ job[j].id = identity
  /\ \A i \in Invocations :
       invocation[i].pc = "finish" /\ invocation[i].status \in Settled =>
         MarkerWritten /\ job[JobOf[i]].id = identity

AggInv ==
  /\ AggShape
  /\ \A i \in Invocations : IdSound(i)
  /\ \A j \in Jobs : job[j].id \in {NoId, identity}
  /\ CountSound
  /\ ListingSound
  /\ EvidenceSound
  /\ SettledSound

(***************************************************************************)
(* Lemmas about the operators                                              *)
(***************************************************************************)

LEMMA ItemFields ==
  ASSUME NEW id, NEW kind, NEW scope, NEW page, NEW refs
  PROVE  /\ Item(id, kind, scope, page, refs).id = id
         /\ Item(id, kind, scope, page, refs).kind = kind
         /\ Item(id, kind, scope, page, refs).scope = scope
         /\ Item(id, kind, scope, page, refs).page = page
         /\ Item(id, kind, scope, page, refs).refs = refs
BY DEF Item

Kinds == {"LINEAGE", "AGGREGATE", "FAILURE_CLASSIFICATION"}

LEMMA PageFields ==
  ASSUME NEW id, NEW records, NEW x \in LineagePages(id, records)
  PROVE  /\ x.id = id /\ x.kind = "PAGE"
         /\ x.scope \in Scopes(records)
         /\ x.refs \subseteq Scope(records, x.scope)
<1>1. PICK scope \in Scopes(records) :
        \E p \in {PageOf(y, Scope(records, scope)) : y \in Scope(records, scope)} :
          x = Item(id, "PAGE", scope, p,
                   {y \in Scope(records, scope) : PageOf(y, Scope(records, scope)) = p})
  BY DEF LineagePages
<1>2. PICK p : x = Item(id, "PAGE", scope, p,
                        {y \in Scope(records, scope) :
                           PageOf(y, Scope(records, scope)) = p})
  BY <1>1
<1>. QED
  BY <1>2, ItemFields

LEMMA RecordFields ==
  ASSUME NEW id, NEW records, NEW x \in PersistedRecords(id, records)
  PROVE  /\ x.id = id /\ x.kind \in Kinds \cup {"SET"}
         /\ x.kind = "SET" => x = Item(id, "SET", "audit", 0, records)
         /\ x.kind \in Kinds =>
              /\ x.scope \in Scopes(records)
              /\ x = Item(id, x.kind, x.scope, 0, Scope(records, x.scope))
<1>1. CASE x = Item(id, "SET", "audit", 0, records)
  BY <1>1, ItemFields DEF Kinds
<1>2. CASE \E kind \in Kinds, scope \in Scopes(records) :
             x = Item(id, kind, scope, 0, Scope(records, scope))
  <2>1. PICK kind \in Kinds, scope \in Scopes(records) :
          x = Item(id, kind, scope, 0, Scope(records, scope))
    BY <1>2
  <2>2. x.id = id /\ x.kind = kind /\ x.scope = scope
    BY <2>1, ItemFields
  <2>3. kind # "SET"
    BY DEF Kinds
  <2>. QED
    BY <2>1, <2>2, <2>3
<1>. QED
  BY <1>1, <1>2 DEF PersistedRecords, Kinds

LEMMA RecordsPresent ==
  ASSUME NEW id, NEW records
  PROVE  /\ Item(id, "SET", "audit", 0, records) \in PersistedRecords(id, records)
         /\ \A kind \in Kinds, scope \in Scopes(records) :
              Item(id, kind, scope, 0, Scope(records, scope))
                \in PersistedRecords(id, records)
BY DEF PersistedRecords, Kinds

\* The pages of an audit cover what its manifest covers.
LEMMA PagesCover ==
  ASSUME NEW id, NEW records, NEW x \in records
  PROVE  \E page \in LineagePages(id, records) : page.scope = "audit" /\ x \in page.refs
<1>1. "audit" \in Scopes(records) /\ Scope(records, "audit") = records
  BY DEF Scopes, Scope
<1>2. PICK p : p = PageOf(x, records)
  OBVIOUS
<1>3. PICK page : page = Item(id, "PAGE", "audit", p, {y \in records : PageOf(y, records) = p})
  OBVIOUS
<1>4. page \in LineagePages(id, records)
  <2>. DEFINE OfScope(s) ==
         {Item(id, "PAGE", s, q, {y \in Scope(records, s) : PageOf(y, Scope(records, s)) = q}) :
            q \in {PageOf(y, Scope(records, s)) : y \in Scope(records, s)}}
  <2>1. page \in OfScope("audit")
    BY <1>1, <1>2, <1>3
  <2>2. LineagePages(id, records) = UNION {OfScope(s) : s \in Scopes(records)}
    BY DEF LineagePages
  <2>. HIDE DEF OfScope
  <2>. QED
    BY <1>1, <2>1, <2>2
<1>. QED
  BY <1>2, <1>3, <1>4, ItemFields

LEMMA EndpointsAreKnown ==
  ASSUME NEW R \in SUBSET Runs
  PROVE  /\ Endpoints(LoadedRecords(R)) \subseteq SafeEndpoints \cup {UnknownEndpoint}
         /\ "audit" \notin Endpoints(LoadedRecords(R))
<1>1. \A x \in LoadedRecords(R) : x.endpoint_id \in SafeEndpoints \cup {UnknownEndpoint}
  BY DEF LoadedRecords, SafeEndpointId
<1>. QED
  BY <1>1, AggregationAssumption DEF AggregationAssumption, Endpoints

\* Of two comparable listings of equally many runs, neither has more.
LEMMA ComparableOfOneSize ==
  ASSUME NEW A \in SUBSET Runs, NEW B \in SUBSET Runs, Comparable(A, B),
         Cardinality(A) = Cardinality(B)
  PROVE  A = B
<1>1. IsFiniteSet(A) /\ IsFiniteSet(B)
  BY FS_Subset, AggregationAssumption DEF AggregationAssumption
<1>2. CASE A \subseteq B
  BY <1>1, <1>2, FS_Subset
<1>3. CASE B \subseteq A
  BY <1>1, <1>3, FS_Subset
<1>. QED
  BY <1>2, <1>3 DEF Comparable

LEMMA CountOfRuns ==
  ASSUME NEW A \in SUBSET Runs
  PROVE  IsFiniteSet(A) /\ Cardinality(A) \in 0 .. Cardinality(Runs)
         /\ Cardinality(Runs) \in Nat
<1>1. IsFiniteSet(Runs)
  BY AggregationAssumption DEF AggregationAssumption
<1>2. IsFiniteSet(A) /\ Cardinality(A) <= Cardinality(Runs)
  BY <1>1, FS_Subset
<1>. QED
  BY <1>1, <1>2, FS_CardinalityType

\* The values of a function on a finite set are finitely many.
LEMMA FiniteRange ==
  ASSUME NEW S, IsFiniteSet(S), NEW T, NEW f \in [S -> T],
         \A y \in T : \E x \in S : f[x] = y
  PROVE  IsFiniteSet(T) /\ Cardinality(T) <= Cardinality(S)
<1>1. f \in Surjection(S, T)
  BY DEF Surjection
<1>. QED
  BY <1>1, FS_Surjection

LEMMA SameNumber ==
  ASSUME NEW S, IsFiniteSet(S), NEW T, NEW f \in [S -> T],
         \A y \in T : \E x \in S : f[x] = y,
         \A x, y \in S : f[x] = f[y] => x = y
  PROVE  IsFiniteSet(T) /\ Cardinality(T) = Cardinality(S)
<1>1. f \in Surjection(S, T) /\ f \in Injection(S, T)
  BY DEF Surjection, Injection, IsInjective
<1>. QED
  BY <1>1, FS_Surjection

LEMMA ThreeElements ==
  ASSUME NEW S, NEW a, NEW b, NEW c, a # b, a # c, b # c, S = {a, b, c}
  PROVE  Cardinality(S) = 3
<1>1. IsFiniteSet({a}) /\ Cardinality({a}) = 1
  BY FS_Singleton
<1>2. IsFiniteSet({a} \cup {b}) /\ Cardinality({a} \cup {b}) = 2
  BY <1>1, FS_AddElement
<1>3. Cardinality(({a} \cup {b}) \cup {c}) = 3
  BY <1>2, FS_AddElement
<1>4. ({a} \cup {b}) \cup {c} = S
  OBVIOUS
<1>. QED
  BY <1>3, <1>4

LEMMA UnionOfTwo ==
  ASSUME NEW S, NEW A, NEW B, S = A \cup B, A \cap B = {},
         NEW n \in Nat, IsFiniteSet(A), Cardinality(A) = n,
         IsFiniteSet(B), Cardinality(B) = n
  PROVE  Cardinality(S) = 2 * n
<1>1. Cardinality(A \cap B) = 0
  BY FS_EmptySet
<1>2. Cardinality(A \cup B) = Cardinality(A) + Cardinality(B) - Cardinality(A \cap B)
  BY FS_Union
<1>. QED
  BY <1>1, <1>2

\* The results of a run are finitely many, and so are those of several.
ResultsOf(r) ==
  {[run_id |-> r, result_index |-> n, endpoint_id |-> SafeEndpointId(Results[r][n])] :
     n \in DOMAIN Results[r]}

LEMMA FiniteResults ==
  ASSUME NEW R \in SUBSET Runs
  PROVE  IsFiniteSet(LoadedRecords(R))
<1>1. ASSUME NEW r \in Runs PROVE IsFiniteSet(ResultsOf(r))
  <2>. DEFINE f == [n \in DOMAIN Results[r] |->
                      [run_id |-> r, result_index |-> n,
                       endpoint_id |-> SafeEndpointId(Results[r][n])]]
  <2>1. IsFiniteSet(DOMAIN Results[r])
    <3>1. Results[r] \in Seq(SafeEndpoints \cup {"unsafe"})
      BY AggregationAssumption DEF AggregationAssumption
    <3>2. DOMAIN Results[r] = 1 .. Len(Results[r]) /\ Len(Results[r]) \in Nat
      BY <3>1, LenProperties
    <3>3. PICK k \in Nat : DOMAIN Results[r] = 1 .. k
      BY <3>2
    <3>4. IsFiniteSet(1 .. k)
      BY FS_Interval
    <3>. QED
      BY <3>3, <3>4
  <2>2. /\ f \in [DOMAIN Results[r] -> ResultsOf(r)]
        /\ \A y \in ResultsOf(r) : \E n \in DOMAIN Results[r] : f[n] = y
    BY DEF ResultsOf
  <2>. HIDE DEF f
  <2>. QED
    BY <2>1, <2>2, FiniteRange
<1>. DEFINE All == {ResultsOf(r) : r \in R}
<1>2. IsFiniteSet(All)
  <2>. DEFINE g == [r \in R |-> ResultsOf(r)]
  <2>1. g \in [R -> All] /\ \A y \in All : \E r \in R : g[r] = y
    OBVIOUS
  <2>2. IsFiniteSet(R)
    BY CountOfRuns
  <2>. HIDE DEF g, All
  <2>. QED
    BY <2>1, <2>2, FiniteRange
<1>3. IsFiniteSet(UNION All)
  <2>1. \A T \in All : IsFiniteSet(T)
    BY <1>1
  <2>. HIDE DEF All
  <2>. QED
    BY <1>2, <2>1, FS_UNION
<1>. QED
  BY <1>3 DEF LoadedRecords, ResultsOf

LEMMA FiniteEndpoints ==
  ASSUME NEW R \in SUBSET Runs
  PROVE  IsFiniteSet(Endpoints(LoadedRecords(R)))
<1>1. PICK S : S = LoadedRecords(R)
  OBVIOUS
<1>2. IsFiniteSet(S)
  BY <1>1, FiniteResults
<1>. DEFINE f == [x \in S |-> x.endpoint_id]
<1>3. f \in [S -> Endpoints(S)] /\ \A y \in Endpoints(S) : \E x \in S : f[x] = y
  BY DEF Endpoints
<1>4. IsFiniteSet(Endpoints(S))
  <2>. HIDE DEF f
  <2>. QED
    BY <1>2, <1>3, FiniteRange
<1>. QED
  BY <1>1, <1>4

\* A whole set passes the check of aggregate_set_exists.
LEMMA WholeSetExists ==
  ASSUME NEW R \in SUBSET Runs, NEW id, items = PagesOf(id, R) \cup SetOf(id, R)
  PROVE  AggregateSetExists(id)
<1>1. PICK records : records = LoadedRecords(R)
  OBVIOUS
<1>2. PICK E : E = Endpoints(records)
  OBVIOUS
<1>3. IsFiniteSet(E) /\ E \subseteq SafeEndpoints \cup {UnknownEndpoint} /\ "audit" \notin E
  BY <1>1, <1>2, FiniteEndpoints, EndpointsAreKnown
<1>4. items = LineagePages(id, records) \cup PersistedRecords(id, records)
  BY <1>1 DEF PagesOf, SetOf
<1>5. Scopes(records) = {"audit"} \cup E
  BY <1>2 DEF Scopes
<1>. DEFINE Known == SafeEndpoints \cup {UnknownEndpoint}
            written(kinds, scopes) ==
              {x \in items : x.id = id /\ x.kind \in kinds /\ x.scope \in scopes}
            Of(kind, scope) == Item(id, kind, scope, 0, Scope(records, scope))
<1>6. "audit" \notin Known
  BY AggregationAssumption DEF AggregationAssumption
<1>7. ASSUME NEW kinds \in SUBSET Kinds, NEW scopes
      PROVE  \A x : x \in written(kinds, scopes) <=>
               \E kind \in kinds, scope \in scopes \cap Scopes(records) : x = Of(kind, scope)
  <2>1. ASSUME NEW x \in written(kinds, scopes)
        PROVE  x.scope \in scopes \cap Scopes(records) /\ x.kind \in kinds
               /\ x = Of(x.kind, x.scope)
    <3>1. x \in items /\ x.kind \in kinds /\ x.scope \in scopes
      OBVIOUS
    <3>2. x \in PersistedRecords(id, records)
      BY <3>1, <1>4, PageFields DEF Kinds
    <3>. QED
      BY <3>1, <3>2, RecordFields
  <2>2. ASSUME NEW kind \in kinds, NEW scope \in scopes \cap Scopes(records)
        PROVE  Of(kind, scope) \in written(kinds, scopes)
    <3>1. Of(kind, scope) \in items
      BY <1>4, RecordsPresent
    <3>. QED
      BY <3>1, ItemFields
  <2>. QED
    BY <2>1, <2>2
<1>8. Cardinality(written(Kinds, {"audit"})) = 3
  <2>1. written(Kinds, {"audit"}) = {Of("LINEAGE", "audit"), Of("AGGREGATE", "audit"),
                                     Of("FAILURE_CLASSIFICATION", "audit")}
    <3>1. {"audit"} \cap Scopes(records) = {"audit"}
      BY <1>5
    <3>. HIDE DEF written, Of
    <3>2. \A x : x \in written(Kinds, {"audit"}) <=>
            \E kind \in Kinds, scope \in {"audit"} : x = Of(kind, scope)
      BY <1>7, <3>1
    <3>. QED
      BY <3>2 DEF Kinds
  <2>2. /\ Of("LINEAGE", "audit") # Of("AGGREGATE", "audit")
        /\ Of("LINEAGE", "audit") # Of("FAILURE_CLASSIFICATION", "audit")
        /\ Of("AGGREGATE", "audit") # Of("FAILURE_CLASSIFICATION", "audit")
    BY ItemFields
  <2>. HIDE DEF Of, written
  <2>. QED
    BY <2>1, <2>2, ThreeElements
<1>9. ASSUME NEW kind \in Kinds
      PROVE  /\ IsFiniteSet(written({kind}, Known))
             /\ Cardinality(written({kind}, Known)) = Cardinality(E)
  <2>. DEFINE f == [scope \in E |-> Of(kind, scope)]
  <2>1. Known \cap Scopes(records) = E
    BY <1>3, <1>5, <1>6
  <2>2. \A x : x \in written({kind}, Known) <=> \E scope \in E : x = Of(kind, scope)
    <3>. HIDE DEF written, Of
    <3>1. \A x : x \in written({kind}, Known) <=>
            \E k \in {kind}, scope \in E : x = Of(k, scope)
      BY <1>7, <2>1
    <3>. QED
      BY <3>1
  <2>3. /\ f \in [E -> written({kind}, Known)]
        /\ \A y \in written({kind}, Known) : \E scope \in E : f[scope] = y
    <3>. HIDE DEF written, Of
    <3>. QED
      BY <2>2
  <2>4. \A s, t \in E : f[s] = f[t] => s = t
    BY ItemFields
  <2>. HIDE DEF f, written
  <2>. QED
    BY <1>3, <2>3, <2>4, SameNumber
<1>10. Cardinality(written({"AGGREGATE", "FAILURE_CLASSIFICATION"}, Known))
         = 2 * Cardinality(E)
  <2>. DEFINE A == written({"AGGREGATE"}, Known)
              F == written({"FAILURE_CLASSIFICATION"}, Known)
  <2>1. written({"AGGREGATE", "FAILURE_CLASSIFICATION"}, Known) = A \cup F
    OBVIOUS
  <2>2. A \cap F = {}
    OBVIOUS
  <2>3. /\ IsFiniteSet(A) /\ Cardinality(A) = Cardinality(E)
        /\ IsFiniteSet(F) /\ Cardinality(F) = Cardinality(E)
    BY <1>9 DEF Kinds
  <2>4. Cardinality(E) \in Nat
    BY <1>3, FS_CardinalityType
  <2>. HIDE DEF A, F, written
  <2>. QED
    BY <2>1, <2>2, <2>3, <2>4, UnionOfTwo
<1>11. PICK marker : marker = Item(id, "SET", "audit", 0, records)
  OBVIOUS
<1>12. /\ marker \in items /\ marker.id = id /\ marker.kind = "SET"
       /\ Endpoints(marker.refs) = E
  BY <1>2, <1>4, <1>11, RecordsPresent, ItemFields
<1>13. {"LINEAGE"} \cup {"AGGREGATE", "FAILURE_CLASSIFICATION"} = Kinds
  BY DEF Kinds
<1>14. Cardinality(written({"AGGREGATE"}, Known)) = Cardinality(E)
  BY <1>9 DEF Kinds
<1>15. Cardinality(E) \in Nat
  BY <1>3, FS_CardinalityType
<1>. QED
  BY <1>8, <1>10, <1>12, <1>13, <1>14, <1>15 DEF AggregateSetExists

(***************************************************************************)
(* What the invariant says of the evidence                                 *)
(***************************************************************************)

\* Nothing but the transaction writes a record of the set.
LEMMA SetAndPagesDiffer ==
  ASSUME NEW id, NEW R, NEW x
  PROVE  ~ (x \in PagesOf(id, R) /\ x \in SetOf(id, R))
<1>1. x \in PagesOf(id, R) => x.kind = "PAGE"
  BY PageFields DEF PagesOf
<1>2. x \in SetOf(id, R) => x.kind # "PAGE"
  BY RecordFields DEF SetOf, Kinds
<1>. QED
  BY <1>1, <1>2

\* With the marker the set is whole.
LEMMA MarkerMeansWhole ==
  ASSUME AggInv, MarkerWritten
  PROVE  \E R \in SUBSET completed :
           /\ Cardinality(R) = audit.execution_count
           /\ items = PagesOf(identity, R) \cup SetOf(identity, R)
<1>1. PICK R \in SUBSET completed : Covers(R) /\ Written(R)
  BY DEF AggInv, EvidenceSound
<1>2. PICK marker \in items : marker.kind = "SET"
  BY DEF MarkerWritten
<1>3. marker \in SetOf(identity, R)
  <2>1. marker \notin PagesOf(identity, R)
    BY <1>2, PageFields DEF PagesOf
  <2>. QED
    BY <1>1, <1>2, <2>1 DEF Written
<1>4. items = PagesOf(identity, R) \cup SetOf(identity, R)
  BY <1>1, <1>2, <1>3 DEF Written
<1>5. Cardinality(R) = audit.execution_count
  BY <1>1, <1>2 DEF Covers, Started
<1>. QED
  BY <1>4, <1>5

LEMMA MarkerMeansExists ==
  ASSUME AggInv, MarkerWritten
  PROVE  AggregateSetExists(identity)
<1>1. PICK R \in SUBSET completed :
        items = PagesOf(identity, R) \cup SetOf(identity, R)
  BY MarkerMeansWhole
<1>2. R \in SUBSET Runs
  BY DEF AggInv, AggShape
<1>. QED
  BY <1>1, <1>2, WholeSetExists

\* Without the marker there is nothing but pages.
LEMMA NoMarkerMeansPages ==
  ASSUME AggInv, ~MarkerWritten, NEW x \in items
  PROVE  x.kind = "PAGE"
<1>1. PICK R \in SUBSET completed : Written(R)
  BY DEF AggInv, EvidenceSound
<1>2. items \cap SetOf(identity, R) = {}
  <2>1. PICK marker : marker = Item(identity, "SET", "audit", 0, LoadedRecords(R))
    OBVIOUS
  <2>2. marker \in SetOf(identity, R) /\ marker.kind = "SET"
    BY <2>1, RecordsPresent, ItemFields DEF SetOf
  <2>. QED
    BY <1>1, <2>2 DEF Written, MarkerWritten
<1>3. x \in PagesOf(identity, R)
  BY <1>1, <1>2 DEF Written
<1>. QED
  BY <1>3, PageFields DEF PagesOf

LEMMA WholeSetIsSound ==
  ASSUME AggInv
  PROVE  AggregateSetIsSound
<1>. SUFFICES ASSUME NEW marker \in items, marker.kind = "SET"
              PROVE  /\ marker.id = identity
                     /\ \E runs \in SUBSET completed :
                          /\ Cardinality(runs) = audit.execution_count
                          /\ marker.refs = LoadedRecords(runs)
                     /\ items = PersistedRecords(marker.id, marker.refs)
                                  \cup LineagePages(marker.id, marker.refs)
  BY DEF AggregateSetIsSound
<1>1. MarkerWritten
  BY DEF MarkerWritten
<1>2. PICK R \in SUBSET completed :
        /\ Cardinality(R) = audit.execution_count
        /\ items = PagesOf(identity, R) \cup SetOf(identity, R)
  BY <1>1, MarkerMeansWhole
<1>3. marker \in SetOf(identity, R)
  BY <1>2, PageFields DEF PagesOf
<1>4. marker = Item(identity, "SET", "audit", 0, LoadedRecords(R))
  BY <1>3, RecordFields DEF SetOf
<1>5. marker.id = identity /\ marker.refs = LoadedRecords(R)
  BY <1>4, ItemFields
<1>. QED
  BY <1>2, <1>5 DEF PagesOf, SetOf

LEMMA SettledIsSound ==
  ASSUME AggInv
  PROVE  SettledJobHasSet
BY MarkerMeansExists DEF AggInv, SettledSound, SettledJobHasSet

LEMMA ShapeIsTyped ==
  ASSUME AggInv
  PROVE  AggTypeOK
<1>1. AggShape /\ \A i \in Invocations : IdSound(i)
  BY DEF AggInv
<1>2. ASSUME NEW i \in Invocations
      PROVE  /\ invocation[i].pc \in InvocationPcs
             /\ invocation[i].status \in JobStatuses \ {"absent"}
             /\ invocation[i].runs \subseteq Runs
             /\ invocation[i].count \in 0 .. Cardinality(Runs)
             /\ invocation[i].pc \in {"build", "write", "recheck_set"} =>
                  invocation[i].id # NoId
  <2>1. invocation[i] \in InvocationState /\ IdSound(i)
    BY <1>1 DEF AggShape
  <2>. QED
    BY <2>1 DEF InvocationState, IdSound, Checked
<1>. QED
  BY <1>1, <1>2 DEF AggShape, AggTypeOK, AuditState, JobState

-----------------------------------------------------------------------------
(* What a retrieval shows                                                  *)

\* The references that are shown are the marker's.
LEMMA EvidenceOfWholeSet ==
  ASSUME NEW id, NEW R, items = PagesOf(id, R) \cup SetOf(id, R)
  PROVE  get_evidence_references = LoadedRecords(R)
<1>1. PICK records : records = LoadedRecords(R)
  OBVIOUS
<1>2. items = LineagePages(id, records) \cup PersistedRecords(id, records)
  BY <1>1 DEF PagesOf, SetOf
<1>3. "audit" \in Scopes(records) /\ Scope(records, "audit") = records
  BY DEF Scopes, Scope
<1>4. \E x \in list_lineage_manifests : x.scope = "audit"
  <2>1. PICK x : x = Item(id, "LINEAGE", "audit", 0, Scope(records, "audit"))
    OBVIOUS
  <2>2. x \in items
    BY <1>2, <1>3, <2>1, RecordsPresent DEF Kinds
  <2>. QED
    BY <2>1, <2>2, ItemFields DEF list_lineage_manifests, list_aggregate_records
<1>. DEFINE AuditPages == {x \in list_lineage_manifest_pages : x.scope = "audit"}
<1>5. ASSUME NEW p \in AuditPages PROVE p.refs \subseteq records
  <2>1. p \in items /\ p.kind = "PAGE" /\ p.scope = "audit"
    BY DEF list_lineage_manifest_pages, list_aggregate_records
  <2>2. p \in LineagePages(id, records)
    BY <1>2, <2>1, RecordFields DEF Kinds
  <2>. QED
    BY <1>3, <2>1, <2>2, PageFields
<1>6. ASSUME NEW y \in records PROVE \E p \in AuditPages : y \in p.refs
  <2>1. PICK p \in LineagePages(id, records) : p.scope = "audit" /\ y \in p.refs
    BY PagesCover
  <2>2. p.kind = "PAGE"
    BY PageFields
  <2>. QED
    BY <1>2, <2>1, <2>2 DEF list_lineage_manifest_pages, list_aggregate_records
<1>7. UNION {p.refs : p \in AuditPages} = records
  <2>. HIDE DEF AuditPages
  <2>. QED
    BY <1>5, <1>6
<1>. QED
  BY <1>1, <1>4, <1>7 DEF get_evidence_references

\* The endpoints that are shown are those of the evidence.
LEMMA EndpointsOfWholeSet ==
  ASSUME NEW id, NEW R \in SUBSET Runs, items = PagesOf(id, R) \cup SetOf(id, R)
  PROVE  {x.scope : x \in {y \in apply_filter(list_aggregate_records) :
                             y.kind = "AGGREGATE"}} \ {"audit"}
           = Endpoints(LoadedRecords(R))
<1>1. PICK records : records = LoadedRecords(R)
  OBVIOUS
<1>2. items = LineagePages(id, records) \cup PersistedRecords(id, records)
  BY <1>1 DEF PagesOf, SetOf
<1>3. "audit" \notin Endpoints(records) /\ Scopes(records) = {"audit"} \cup Endpoints(records)
  BY <1>1, EndpointsAreKnown DEF Scopes
<1>. DEFINE aggregates == {y \in apply_filter(list_aggregate_records) : y.kind = "AGGREGATE"}
<1>4. ASSUME NEW x \in aggregates PROVE x.scope \in Scopes(records)
  <2>1. x \in items /\ x.kind = "AGGREGATE"
    BY DEF apply_filter, list_aggregate_records
  <2>2. x \in PersistedRecords(id, records)
    BY <1>2, <2>1, PageFields
  <2>. QED
    BY <2>1, <2>2, RecordFields DEF Kinds
<1>5. ASSUME NEW e \in Endpoints(records) PROVE \E x \in aggregates : x.scope = e
  <2>1. PICK x : x = Item(id, "AGGREGATE", e, 0, Scope(records, e))
    OBVIOUS
  <2>2. x \in items
    BY <1>2, <1>3, <2>1, RecordsPresent DEF Kinds
  <2>3. x.kind = "AGGREGATE" /\ x.scope = e
    BY <2>1, ItemFields
  <2>. QED
    BY <2>2, <2>3 DEF apply_filter, list_aggregate_records
<1>6. {x.scope : x \in aggregates} \ {"audit"} = Endpoints(records)
  <2>. HIDE DEF aggregates
  <2>. QED
    BY <1>3, <1>4, <1>5
<1>. QED
  BY <1>1, <1>6

LEMMA RetrievalIsWhole ==
  ASSUME AggInv
  PROVE  RetrievalShowsWholeSet
<1>1. get_aggregate_set_completion # {} <=> MarkerWritten
  BY DEF get_aggregate_set_completion, list_aggregate_records, MarkerWritten
<1>2. (\E x \in apply_filter(list_aggregate_records) : x.kind = "SET") <=> MarkerWritten
  BY DEF apply_filter, list_aggregate_records, MarkerWritten
<1>3. CASE MarkerWritten
  <2>1. PICK R \in SUBSET completed :
          items = PagesOf(identity, R) \cup SetOf(identity, R)
    BY <1>3, MarkerMeansWhole
  <2>2. R \in SUBSET Runs
    BY DEF AggInv, AggShape
  <2>3. PICK records : records = LoadedRecords(R)
    OBVIOUS
  <2>4. \A x \in get_aggregate_set_completion : x.refs = records
    <3>1. ASSUME NEW x \in get_aggregate_set_completion
          PROVE  x = Item(identity, "SET", "audit", 0, records)
      <4>1. x \in items /\ x.kind = "SET"
        BY DEF get_aggregate_set_completion, list_aggregate_records
      <4>2. x \in SetOf(identity, R)
        BY <4>1, <2>1, PageFields DEF PagesOf
      <4>. QED
        BY <4>1, <4>2, <2>3, RecordFields DEF SetOf
    <3>. QED
      BY <3>1, ItemFields
  <2>5. get_evidence_references = records
    BY <2>1, <2>3, EvidenceOfWholeSet
  <2>6. {x.scope : x \in {y \in apply_filter(list_aggregate_records) :
                            y.kind = "AGGREGATE"}} \ {"audit"} = Endpoints(records)
    BY <2>1, <2>2, <2>3, EndpointsOfWholeSet
  <2>7. get_aggregation_results.completion_status = "COMPLETE"
        /\ get_aggregation_results.endpoint_count = Cardinality(Endpoints(records))
    BY <1>2, <1>3, <2>6 DEF get_aggregation_results
  <2>8. /\ get_aggregation_generation_status.completeness_status = "COMPLETE"
        /\ get_aggregation_generation_status.source_raw_result_count = {Cardinality(records)}
        /\ get_aggregation_generation_status.endpoint_aggregate_count
             = {Cardinality(Endpoints(records))}
    <3>1. get_aggregate_set_completion # {}
      BY <1>1, <1>3
    <3>2. {Cardinality(x.refs) : x \in get_aggregate_set_completion} = {Cardinality(records)}
      BY <3>1, <2>4
    <3>3. {Cardinality(Endpoints(x.refs)) : x \in get_aggregate_set_completion}
            = {Cardinality(Endpoints(records))}
      BY <3>1, <2>4
    <3>. QED
      BY <3>1, <3>2, <3>3 DEF get_aggregation_generation_status
  <2>. QED
    BY <2>5, <2>7, <2>8 DEF RetrievalShowsWholeSet
<1>4. CASE ~MarkerWritten
  <2>1. \A x \in items : x.kind = "PAGE"
    BY <1>4, NoMarkerMeansPages
  <2>2. get_evidence_references = {}
    BY <2>1 DEF get_evidence_references, list_lineage_manifests, list_aggregate_records
  <2>3. get_aggregation_results.records = {}
        /\ get_aggregation_results.completion_status = "none"
    <3>1. {x \in apply_filter(list_aggregate_records) : x.kind = "AGGREGATE"} = {}
      BY <2>1 DEF apply_filter, list_aggregate_records
    <3>. QED
      BY <1>2, <1>4, <3>1 DEF get_aggregation_results
  <2>4. get_aggregation_generation_status.completeness_status = "PENDING"
    BY <1>1, <1>4 DEF get_aggregation_generation_status
  <2>. QED
    BY <2>2, <2>3, <2>4 DEF RetrievalShowsWholeSet
<1>. QED
  BY <1>3, <1>4

(***************************************************************************)
(* A step of an invocation                                                 *)
(***************************************************************************)

\* Invocation i goes on as v; the others stay as they are.
Becomes(i, v) == invocation' = [invocation EXCEPT ![i] = v]

LEMMA BecomesFields ==
  ASSUME AggShape, NEW i \in Invocations, NEW v \in InvocationState, Becomes(i, v)
  PROVE  /\ invocation' \in [Invocations -> InvocationState]
         /\ invocation'[i] = v
         /\ \A k \in Invocations : k # i => invocation'[k] = invocation[k]
BY DEF AggShape, Becomes

\* The audit's id is only ever assigned once, before anything is written.
IdentityStep == identity' = identity \/ (identity = NoId /\ identity' \in Ids)

\* What i may become, given what is stored after the step.
SoundAs(i, v) ==
  /\ v.id \in {NoId, identity'}
  /\ v.pc \in {"check_set", "list_runs", "build", "write", "recheck_set"} =>
       v.id = identity' /\ identity' # NoId
  /\ v.pc \in {"list_runs", "build", "write", "recheck_set"} => job'[JobOf[i]].id = identity'
  /\ v.count > 0 => v.count = audit.execution_count
  /\ v.pc \in {"build", "write", "recheck_set"} =>
       v.runs = completed \/ (Listed(i) /\ v.runs = invocation[i].runs)
  /\ v.pc = "finish" /\ v.status \in Settled => MarkerWritten' /\ job'[JobOf[i]].id = identity'

\* A job's id is that of the audit, and it becomes settled when the set is there.
JobStep ==
  /\ job' \in [Jobs -> JobState]
  /\ \A j \in Jobs :
       /\ job'[j].id = job[j].id \/ job'[j].id = identity'
       /\ job'[j].status \in Settled =>
            job[j].status \in Settled \/ (MarkerWritten' /\ job'[j].id = identity')

LEMMA StartedHasId ==
  ASSUME AggInv, Started
  PROVE  identity # NoId /\ audit.execution_count > 0
BY DEF AggInv, EvidenceSound, Covers

LEMMA InvocationStep ==
  ASSUME AggInv, NEW i \in Invocations, NEW v \in InvocationState, Becomes(i, v),
         UNCHANGED <<audit, completed>>, IdentityStep, JobStep, SoundAs(i, v),
         items \subseteq items', aggFaults' \in 0 .. MaxAggFaults,
         EvidenceSound'
  PROVE  AggInv'
<1>1. AggShape
  BY DEF AggInv
<1>2. /\ invocation' \in [Invocations -> InvocationState]
      /\ invocation'[i] = v
      /\ \A k \in Invocations : k # i => invocation'[k] = invocation[k]
  BY <1>1, BecomesFields
<1>3. identity' \in Ids \cup {NoId}
  BY <1>1 DEF AggShape, IdentityStep
<1>4. AggShape'
  BY <1>1, <1>2, <1>3 DEF AggShape, JobStep
<1>5. ASSUME NEW k \in Invocations PROVE IdSound(k)'
  <2>1. CASE k = i
    BY <2>1, <1>2 DEF IdSound, Checked, SoundAs
  <2>2. CASE k # i
    <3>1. IdSound(k) /\ invocation'[k] = invocation[k]
      BY <2>2, <1>2 DEF AggInv
    <3>2. JobOf[k] \in Jobs
      BY AggregationAssumption DEF AggregationAssumption
    <3>3. job'[JobOf[k]].id = job[JobOf[k]].id \/ job'[JobOf[k]].id = identity'
      BY <3>2 DEF JobStep
    <3>. QED
      BY <3>1, <3>3 DEF IdSound, Checked, IdentityStep
  <2>. QED
    BY <2>1, <2>2
<1>6. \A j \in Jobs : job'[j].id \in {NoId, identity'}
  <2>1. ASSUME NEW j \in Jobs PROVE job'[j].id \in {NoId, identity'}
    <3>1. job[j].id \in {NoId, identity}
      BY DEF AggInv
    <3>2. job'[j].id = job[j].id \/ job'[j].id = identity'
      BY DEF JobStep
    <3>. QED
      BY <3>1, <3>2 DEF IdentityStep
  <2>. QED
    BY <2>1
<1>7. CountSound'
  BY <1>2 DEF AggInv, CountSound, SoundAs
<1>8. ListingSound'
  <2>1. ASSUME NEW k \in Invocations, Listed(k)'
        PROVE  /\ invocation'[k].runs \subseteq completed
               /\ \/ invocation'[k].runs = completed
                  \/ Listed(k) /\ invocation'[k].runs = invocation[k].runs
    <3>1. ListingSound
      BY DEF AggInv
    <3>2. CASE k = i
      BY <2>1, <3>1, <3>2, <1>2 DEF Listed, SoundAs, ListingSound
    <3>3. CASE k # i
      BY <2>1, <3>1, <3>3, <1>2 DEF Listed, ListingSound
    <3>. QED
      BY <3>2, <3>3
  <2>2. ASSUME NEW k \in Invocations, NEW l \in Invocations, Listed(k)', Listed(l)'
        PROVE  Comparable(invocation'[k].runs, invocation'[l].runs)
    <3>1. CASE invocation'[k].runs = completed \/ invocation'[l].runs = completed
      BY <3>1, <2>1, <2>2 DEF Comparable
    <3>2. CASE ~(invocation'[k].runs = completed \/ invocation'[l].runs = completed)
      <4>1. /\ Listed(k) /\ invocation'[k].runs = invocation[k].runs
            /\ Listed(l) /\ invocation'[l].runs = invocation[l].runs
        BY <3>2, <2>1, <2>2
      <4>. QED
        BY <4>1 DEF AggInv, ListingSound
    <3>. QED
      BY <3>1, <3>2
  <2>3. \A k \in Invocations : Listed(k)' => invocation'[k].runs \subseteq completed'
    BY <2>1
  <2>4. \A k, l \in Invocations :
          Listed(k)' /\ Listed(l)' => Comparable(invocation'[k].runs, invocation'[l].runs)
    BY <2>2
  <2>. QED
    BY <2>3, <2>4 DEF ListingSound, Comparable
<1>9. SettledSound'
  <2>1. MarkerWritten => MarkerWritten' /\ identity' = identity
    <3>1. MarkerWritten => MarkerWritten'
      BY DEF MarkerWritten
    <3>2. MarkerWritten => identity # NoId
      BY StartedHasId DEF MarkerWritten, Started
    <3>. QED
      BY <3>1, <3>2 DEF IdentityStep
  <2>2. ASSUME NEW j \in Jobs, job'[j].status \in Settled
        PROVE  MarkerWritten' /\ job'[j].id = identity'
    <3>1. CASE job[j].status \in Settled
      <4>1. MarkerWritten /\ job[j].id = identity
        BY <3>1 DEF AggInv, SettledSound
      <4>. QED
        BY <2>1, <4>1 DEF JobStep
    <3>2. CASE MarkerWritten' /\ job'[j].id = identity'
      BY <3>2
    <3>. QED
      BY <2>2, <3>1, <3>2 DEF JobStep
  <2>3. ASSUME NEW k \in Invocations, invocation'[k].pc = "finish",
               invocation'[k].status \in Settled
        PROVE  MarkerWritten' /\ job'[JobOf[k]].id = identity'
    <3>1. CASE k = i
      BY <2>3, <3>1, <1>2 DEF SoundAs
    <3>2. CASE k # i
      <4>1. MarkerWritten /\ job[JobOf[k]].id = identity
        BY <2>3, <3>2, <1>2 DEF AggInv, SettledSound
      <4>2. JobOf[k] \in Jobs
        BY AggregationAssumption DEF AggregationAssumption
      <4>. QED
        BY <2>1, <4>1, <4>2 DEF JobStep
    <3>. QED
      BY <3>1, <3>2
  <2>. QED
    BY <2>2, <2>3 DEF SettledSound
<1>. QED
  BY <1>4, <1>5, <1>6, <1>7, <1>8, <1>9 DEF AggInv

\* A step that writes no evidence, and does not begin to.
LEMMA EvidenceKept ==
  ASSUME AggInv, NEW i \in Invocations, NEW v \in InvocationState, Becomes(i, v),
         UNCHANGED <<audit, completed, items>>, IdentityStep,
         v.pc \notin {"write", "recheck_set"},
         v.pc = "build" => v.runs = completed
  PROVE  EvidenceSound'
<1>1. AggShape
  BY DEF AggInv
<1>2. /\ invocation'[i] = v
      /\ \A k \in Invocations : k # i => invocation'[k] = invocation[k]
  BY <1>1, BecomesFields
<1>3. PICK R \in SUBSET completed : Covers(R) /\ Written(R)
  BY DEF AggInv, EvidenceSound
<1>4. Started' => Started
  BY <1>2 DEF Started, Writes
<1>5. Started => identity' = identity
  BY StartedHasId DEF IdentityStep
<1>6. Covers(R)'
  <2>1. \A k \in Invocations : Listed(k)' => Comparable(invocation'[k].runs, R)
    <3>1. ASSUME NEW k \in Invocations, Listed(k)'
          PROVE  Comparable(invocation'[k].runs, R)
      <4>1. CASE k = i
        BY <3>1, <4>1, <1>2 DEF Listed, Comparable
      <4>2. CASE k # i
        BY <3>1, <4>2, <1>2, <1>3 DEF Listed, Covers
      <4>. QED
        BY <4>1, <4>2
    <3>. QED
      BY <3>1
  <2>2. \A k \in Invocations : Writes(k)' => invocation'[k].runs = R
    BY <1>2, <1>3 DEF Writes, Covers
  <2>. QED
    BY <2>1, <2>2, <1>3, <1>4, <1>5 DEF Covers, Comparable
<1>7. Written(R)'
  <2>1. CASE identity' = identity
    BY <2>1, <1>2, <1>3 DEF Written
  <2>2. CASE identity' # identity
    <3>1. ~Started
      BY <2>2, <1>5
    <3>2. items' = {}
      BY <3>1 DEF Started
    <3>3. \A k \in Invocations : invocation'[k].pc # "write"
      BY <3>1, <1>2 DEF Started, Writes
    <3>. QED
      BY <3>2, <3>3 DEF Written
  <2>. QED
    BY <2>1, <2>2
<1>. QED
  BY <1>3, <1>6, <1>7 DEF EvidenceSound

LEMMA QuietStep ==
  ASSUME AggInv, NEW i \in Invocations, NEW v \in InvocationState, Becomes(i, v),
         UNCHANGED <<audit, completed, items>>, IdentityStep, JobStep, SoundAs(i, v),
         v.pc \notin {"write", "recheck_set"},
         v.pc = "build" => v.runs = completed,
         aggFaults' \in 0 .. MaxAggFaults
  PROVE  AggInv'
<1>1. EvidenceSound'
  BY EvidenceKept
<1>. QED
  BY <1>1, InvocationStep

LEMMA JobUnchanged ==
  ASSUME AggInv, UNCHANGED job
  PROVE  JobStep
BY DEF AggInv, AggShape, JobStep

LEMMA IdentityUnchanged ==
  ASSUME UNCHANGED identity
  PROVE  IdentityStep
BY DEF IdentityStep

LEMMA InvocationIsState ==
  ASSUME AggInv, NEW i \in Invocations
  PROVE  invocation[i] \in InvocationState /\ IdSound(i) /\ JobOf[i] \in Jobs
         /\ (invocation[i].count > 0 => invocation[i].count = audit.execution_count)
BY AggregationAssumption
DEF AggregationAssumption, AggInv, AggShape, CountSound

LEMMA NothingReadIsState ==
  NothingRead \in InvocationState
<1>1. 0 \in 0 .. Cardinality(Runs)
  BY CountOfRuns
<1>2. "idle" \in InvocationPcs /\ "STARTED" \in JobStatuses \ {"absent"}
  BY DEF InvocationPcs, JobStatuses
<1>. QED
  BY <1>1, <1>2 DEF NothingRead, InvocationState

LEMMA GotoBecomes ==
  ASSUME AggInv, NEW i \in Invocations, NEW pc \in InvocationPcs, AggGoto(i, pc)
  PROVE  \E v \in InvocationState :
           /\ Becomes(i, v) /\ v.pc = pc
           /\ v.id = invocation[i].id /\ v.count = invocation[i].count
           /\ v.runs = invocation[i].runs /\ v.status = invocation[i].status
           /\ v.pages = invocation[i].pages
<1>1. invocation[i] \in InvocationState
  BY InvocationIsState
<1>. DEFINE v == [invocation[i] EXCEPT !.pc = pc]
<1>2. Becomes(i, v)
  BY DEF AggInv, AggShape, AggGoto, Becomes
<1>3. /\ v \in InvocationState /\ v.pc = pc
      /\ v.id = invocation[i].id /\ v.count = invocation[i].count
      /\ v.runs = invocation[i].runs /\ v.status = invocation[i].status
      /\ v.pages = invocation[i].pages
  BY <1>1 DEF InvocationState
<1>. QED
  BY <1>2, <1>3

LEMMA FinishBecomes ==
  ASSUME AggInv, NEW i \in Invocations, NEW status \in JobStatuses \ {"absent"},
         Finish(i, status)
  PROVE  \E v \in InvocationState :
           Becomes(i, v) /\ v.pc = "finish" /\ v.status = status /\ v.id = NoId /\ v.count = 0
<1>. DEFINE v == [NothingRead EXCEPT !.pc = "finish", !.status = status]
<1>1. Becomes(i, v)
  BY DEF Finish, Becomes
<1>2. "finish" \in InvocationPcs
  BY DEF InvocationPcs
<1>3. v \in InvocationState
  BY <1>2, NothingReadIsState DEF InvocationState
<1>4. v.pc = "finish" /\ v.status = status /\ v.id = NoId /\ v.count = 0
  BY DEF NothingRead
<1>. QED
  BY <1>1, <1>3, <1>4

LEMMA LeaveBecomes ==
  ASSUME AggInv, NEW i \in Invocations, NEW pc \in InvocationPcs, Leave(i, pc)
  PROVE  \E v \in InvocationState :
           Becomes(i, v) /\ v.pc = pc /\ v.id = NoId /\ v.count = 0
<1>. DEFINE v == [NothingRead EXCEPT !.pc = pc]
<1>1. Becomes(i, v)
  BY DEF Leave, Becomes
<1>2. v \in InvocationState
  BY NothingReadIsState DEF InvocationState
<1>3. v.pc = pc /\ v.id = NoId /\ v.count = 0
  BY DEF NothingRead
<1>. QED
  BY <1>1, <1>2, <1>3

\* An invocation that has nothing any more, and does not claim a set.
LEMMA EmptyHanded ==
  ASSUME AggInv, NEW i \in Invocations, NEW v \in InvocationState, v.id = NoId, v.count = 0,
         v.pc \notin {"check_set", "list_runs", "build", "write", "recheck_set"},
         v.pc = "finish" => v.status \notin Settled
  PROVE  SoundAs(i, v)
BY DEF SoundAs

LEMMA FaultsTyped ==
  ASSUME AggInv
  PROVE  /\ UNCHANGED aggFaults => aggFaults' \in 0 .. MaxAggFaults
         /\ aggFaults < MaxAggFaults /\ aggFaults' = aggFaults + 1 =>
              aggFaults' \in 0 .. MaxAggFaults
<1>1. MaxAggFaults \in Nat /\ aggFaults \in 0 .. MaxAggFaults
  BY AggregationAssumption DEF AggregationAssumption, AggInv, AggShape
<1>. QED
  BY <1>1

\* Leaving for an outcome that claims nothing is always sound.
LEMMA LeaveInv ==
  ASSUME AggInv, NEW i \in Invocations, NEW pc \in {"fail", "done", "raised", "crashed"},
         Leave(i, pc), UNCHANGED <<audit, completed, identity, items>>, JobStep,
         aggFaults' \in 0 .. MaxAggFaults
  PROVE  AggInv'
<1>1. pc \in InvocationPcs
  BY DEF InvocationPcs
<1>2. PICK v \in InvocationState : Becomes(i, v) /\ v.pc = pc /\ v.id = NoId /\ v.count = 0
  BY <1>1, LeaveBecomes
<1>3. SoundAs(i, v)
  BY <1>2, EmptyHanded
<1>. QED
  BY <1>2, <1>3, IdentityUnchanged, QuietStep

\* So is finishing, for a set that is there under the job's id.
LEMMA FinishInv ==
  ASSUME AggInv, NEW i \in Invocations, NEW status \in JobStatuses \ {"absent"},
         Finish(i, status), UNCHANGED <<audit, completed, identity, items>>, JobStep,
         UNCHANGED aggFaults,
         status \in Settled => MarkerWritten /\ job'[JobOf[i]].id = identity
  PROVE  AggInv'
<1>1. PICK v \in InvocationState :
        Becomes(i, v) /\ v.pc = "finish" /\ v.status = status /\ v.id = NoId /\ v.count = 0
  BY FinishBecomes
<1>2. SoundAs(i, v)
  BY <1>1 DEF SoundAs, MarkerWritten
<1>. QED
  BY <1>1, <1>2, IdentityUnchanged, QuietStep, FaultsTyped

-----------------------------------------------------------------------------
(* Claiming the job                                                        *)

\* A job gets a status that is not a settled one.
LEMMA Unsettled ==
  ASSUME AggInv, NEW j \in Jobs, NEW s \in JobStatuses \ Settled,
         job' = [job EXCEPT ![j].status = s]
  PROVE  JobStep
<1>1. job \in [Jobs -> JobState] /\ job[j] \in JobState
  BY DEF AggInv, AggShape
<1>2. /\ job' = [job EXCEPT ![j] = [job[j] EXCEPT !.status = s]]
      /\ [job[j] EXCEPT !.status = s] \in JobState
      /\ [job[j] EXCEPT !.status = s].status = s
      /\ [job[j] EXCEPT !.status = s].id = job[j].id
  BY <1>1 DEF JobState
<1>. QED
  BY <1>1, <1>2 DEF JobStep

LEMMA PutJobOnceInv ==
  ASSUME AggInv, NEW i \in Invocations, PutJobOnce(i)
  PROVE  AggInv'
<1>1. /\ invocation[i].pc = "idle"
      /\ UNCHANGED <<audit, completed, identity, items, aggFaults>>
  BY DEF PutJobOnce, environment
<1>2. PICK pc \in {"get_audit", "get_job"} : AggGoto(i, pc)
  BY DEF PutJobOnce
<1>3. JobStep
  <2>1. "STARTED" \in JobStatuses \ Settled
    BY DEF JobStatuses, Settled
  <2>. QED
    BY <2>1, Unsettled, JobUnchanged, InvocationIsState DEF PutJobOnce
<1>4. pc \in InvocationPcs
  BY DEF InvocationPcs
<1>5. PICK v \in InvocationState : Becomes(i, v) /\ v.pc = pc /\ v.id = invocation[i].id
                                   /\ v.count = invocation[i].count
  BY <1>2, <1>4, GotoBecomes
<1>6. SoundAs(i, v)
  BY <1>1, <1>5, InvocationIsState DEF SoundAs, IdSound
<1>. QED
  BY <1>1, <1>3, <1>5, <1>6, IdentityUnchanged, QuietStep, FaultsTyped

LEMMA GetJobInv ==
  ASSUME AggInv, NEW i \in Invocations, GetJob(i)
  PROVE  AggInv'
<1>1. UNCHANGED <<audit, completed, job, identity, items, aggFaults>>
  BY DEF GetJob, environment, stored
<1>2. PICK pc \in {"restart", "get_duplicate"} : AggGoto(i, pc)
  BY DEF GetJob
<1>3. pc \in InvocationPcs
  BY DEF InvocationPcs
<1>4. PICK v \in InvocationState : Becomes(i, v) /\ v.pc = pc /\ v.id = invocation[i].id
                                   /\ v.count = invocation[i].count
  BY <1>2, <1>3, GotoBecomes
<1>5. SoundAs(i, v)
  BY <1>1, <1>4, InvocationIsState DEF SoundAs, IdSound
<1>. QED
  BY <1>1, <1>4, <1>5, IdentityUnchanged, JobUnchanged, QuietStep, FaultsTyped

LEMMA RestartJobInv ==
  ASSUME AggInv, NEW i \in Invocations, RestartJob(i)
  PROVE  AggInv'
<1>1. /\ UNCHANGED <<audit, completed, identity, items, aggFaults>>
      /\ job' = [job EXCEPT ![JobOf[i]].status = "STARTED"]
      /\ AggGoto(i, "get_audit")
  BY DEF RestartJob, environment
<1>2. "get_audit" \in InvocationPcs /\ "STARTED" \in JobStatuses \ Settled
  BY DEF InvocationPcs, JobStatuses, Settled
<1>3. PICK v \in InvocationState : Becomes(i, v) /\ v.pc = "get_audit"
                                   /\ v.id = invocation[i].id
                                   /\ v.count = invocation[i].count
  BY <1>1, <1>2, GotoBecomes
<1>4. JobStep
  BY <1>1, <1>2, Unsettled, InvocationIsState
<1>5. SoundAs(i, v)
  BY <1>1, <1>3, InvocationIsState DEF SoundAs, IdSound
<1>. QED
  BY <1>1, <1>3, <1>4, <1>5, IdentityUnchanged, QuietStep, FaultsTyped

LEMMA HandleDuplicateJobInv ==
  ASSUME AggInv, NEW i \in Invocations, HandleDuplicateJob(i)
  PROVE  AggInv'
<1>1. UNCHANGED <<audit, completed, job, identity, items, aggFaults>>
  BY DEF HandleDuplicateJob, environment, stored
<1>2. PICK status : /\ Finish(i, status)
                    /\ status = IF job[JobOf[i]].status \in Settled
                                THEN "DUPLICATE_COMPLETED" ELSE "CONFLICT"
  BY DEF HandleDuplicateJob
<1>3. status \in JobStatuses \ {"absent"}
  BY <1>2 DEF JobStatuses, Settled
<1>4. status \in Settled => MarkerWritten /\ job'[JobOf[i]].id = identity
  <2>1. status \in Settled => job[JobOf[i]].status \in Settled
    BY <1>2 DEF Settled
  <2>. QED
    BY <1>1, <2>1, InvocationIsState DEF AggInv, SettledSound
<1>. QED
  BY <1>1, <1>2, <1>3, <1>4, JobUnchanged, FinishInv

-----------------------------------------------------------------------------
(* Identity and evidence                                                   *)

LEMMA GetAuditInv ==
  ASSUME AggInv, NEW i \in Invocations, GetAudit(i)
  PROVE  AggInv'
<1>1. /\ UNCHANGED <<audit, completed, job, identity, items, aggFaults>>
      /\ invocation' = [invocation EXCEPT ![i].pc = "get_identity",
                                          ![i].count = audit.execution_count]
  BY DEF GetAudit, environment, stored
<1>2. invocation[i] \in InvocationState /\ invocation \in [Invocations -> InvocationState]
      /\ audit.execution_count \in 0 .. Cardinality(Runs)
  BY InvocationIsState DEF AggInv, AggShape, AuditState
<1>. DEFINE v == [invocation[i] EXCEPT !.pc = "get_identity",
                                       !.count = audit.execution_count]
<1>3. Becomes(i, v)
  BY <1>1, <1>2 DEF Becomes
<1>4. v \in InvocationState /\ v.pc = "get_identity" /\ v.id = invocation[i].id
      /\ v.count = audit.execution_count
  BY <1>2 DEF InvocationState, InvocationPcs
<1>. HIDE DEF v
<1>5. PICK w : w = v
  OBVIOUS
<1>6. SoundAs(i, w)
  BY <1>1, <1>4, <1>5, InvocationIsState DEF SoundAs, IdSound
<1>. QED
  BY <1>1, <1>3, <1>4, <1>5, <1>6, IdentityUnchanged, JobUnchanged, QuietStep, FaultsTyped

LEMMA GetIdentityInv ==
  ASSUME AggInv, NEW i \in Invocations, GetIdentity(i)
  PROVE  AggInv'
<1>1. /\ UNCHANGED <<audit, completed, job, identity, items, aggFaults>>
      /\ invocation' =
           [invocation EXCEPT
              ![i].pc = IF identity = NoId THEN "put_identity" ELSE "check_set",
              ![i].id = identity]
  BY DEF GetIdentity, environment, stored
<1>2. invocation[i] \in InvocationState /\ invocation \in [Invocations -> InvocationState]
      /\ identity \in Ids \cup {NoId}
  BY InvocationIsState DEF AggInv, AggShape
<1>3. PICK pc : pc = IF identity = NoId THEN "put_identity" ELSE "check_set"
  OBVIOUS
<1>. DEFINE v == [invocation[i] EXCEPT !.pc = pc, !.id = identity]
<1>4. Becomes(i, v)
  BY <1>1, <1>2, <1>3 DEF Becomes
<1>5. pc \in InvocationPcs
  BY <1>3 DEF InvocationPcs
<1>6. v \in InvocationState /\ v.pc = pc /\ v.id = identity
      /\ v.count = invocation[i].count
  BY <1>2, <1>5 DEF InvocationState
<1>. HIDE DEF v
<1>7. PICK w : w = v
  OBVIOUS
<1>8. SoundAs(i, w)
  BY <1>1, <1>3, <1>6, <1>7, InvocationIsState DEF SoundAs
<1>9. w.pc \notin {"build", "write", "recheck_set"}
  BY <1>3, <1>6, <1>7
<1>. QED
  BY <1>1, <1>4, <1>6, <1>7, <1>8, <1>9, IdentityUnchanged, JobUnchanged, QuietStep,
     FaultsTyped

LEMMA PutIdentityOnceInv ==
  ASSUME AggInv, NEW i \in Invocations, PutIdentityOnce(i)
  PROVE  AggInv'
<1>1. /\ UNCHANGED <<audit, completed, job, items, aggFaults>>
      /\ identity' = IF identity = NoId THEN i ELSE identity
      /\ invocation' = [invocation EXCEPT ![i].pc = "check_set", ![i].id = identity']
  BY DEF PutIdentityOnce, environment
<1>2. invocation[i] \in InvocationState /\ invocation \in [Invocations -> InvocationState]
      /\ identity \in Ids \cup {NoId}
  BY InvocationIsState DEF AggInv, AggShape
<1>3. PICK id : id = IF identity = NoId THEN i ELSE identity
  OBVIOUS
<1>4. id \in Ids /\ id # NoId /\ identity' = id /\ IdentityStep
  BY <1>1, <1>2, <1>3, AggregationAssumption DEF AggregationAssumption, Ids, IdentityStep
<1>. DEFINE v == [invocation[i] EXCEPT !.pc = "check_set", !.id = id]
<1>5. Becomes(i, v)
  BY <1>1, <1>2, <1>4 DEF Becomes
<1>6. v \in InvocationState /\ v.pc = "check_set" /\ v.id = id
      /\ v.count = invocation[i].count
  BY <1>2, <1>4 DEF InvocationState, InvocationPcs
<1>. HIDE DEF v
<1>7. PICK w : w = v
  OBVIOUS
<1>8. SoundAs(i, w)
  BY <1>4, <1>6, <1>7, InvocationIsState DEF SoundAs
<1>. QED
  BY <1>1, <1>4, <1>5, <1>6, <1>7, <1>8, JobUnchanged, QuietStep, FaultsTyped

LEMMA CheckAggregateSetInv ==
  ASSUME AggInv, NEW i \in Invocations, CheckAggregateSet(i)
  PROVE  AggInv'
<1>1. /\ invocation[i].pc = "check_set"
      /\ UNCHANGED <<audit, completed, identity, items, aggFaults>>
      /\ job' = [job EXCEPT ![JobOf[i]].id = invocation[i].id]
  BY DEF CheckAggregateSet, environment
<1>2. invocation[i].id = identity /\ identity # NoId /\ identity \in Ids \cup {NoId}
  BY <1>1, InvocationIsState DEF IdSound, AggInv, AggShape
<1>3. job \in [Jobs -> JobState] /\ JobOf[i] \in Jobs /\ job[JobOf[i]] \in JobState
  BY InvocationIsState DEF AggInv, AggShape
<1>. DEFINE new == [job[JobOf[i]] EXCEPT !.id = identity]
<1>4. new \in JobState /\ new.id = identity /\ new.status = job[JobOf[i]].status
  BY <1>2, <1>3 DEF JobState
<1>5. job' = [job EXCEPT ![JobOf[i]] = new]
  BY <1>1, <1>2, <1>3
<1>. HIDE DEF new
<1>6. JobStep /\ job'[JobOf[i]].id = identity
  BY <1>1, <1>3, <1>4, <1>5 DEF JobStep
<1>7. CASE AggregateSetExists(invocation[i].id)
  <2>1. Finish(i, "DUPLICATE_COMPLETED")
    BY <1>7 DEF CheckAggregateSet
  <2>2. MarkerWritten
    BY <1>7 DEF AggregateSetExists, MarkerWritten
  <2>3. "DUPLICATE_COMPLETED" \in JobStatuses \ {"absent"}
    BY DEF JobStatuses, Settled
  <2>. QED
    BY <1>1, <1>6, <2>1, <2>2, <2>3, FinishInv
<1>8. CASE ~AggregateSetExists(invocation[i].id)
  <2>1. AggGoto(i, "list_runs") /\ "list_runs" \in InvocationPcs
    BY <1>8 DEF CheckAggregateSet, InvocationPcs
  <2>2. PICK v \in InvocationState : Becomes(i, v) /\ v.pc = "list_runs"
                                     /\ v.id = invocation[i].id
                                     /\ v.count = invocation[i].count
    BY <2>1, GotoBecomes
  <2>3. SoundAs(i, v)
    BY <1>1, <1>2, <1>6, <2>2, InvocationIsState DEF SoundAs
  <2>. QED
    BY <1>1, <1>6, <2>2, <2>3, IdentityUnchanged, QuietStep, FaultsTyped
<1>. QED
  BY <1>7, <1>8

LEMMA ListCompletedRunsInv ==
  ASSUME AggInv, NEW i \in Invocations, ListCompletedRuns(i)
  PROVE  AggInv'
<1>1. /\ invocation[i].pc = "list_runs"
      /\ UNCHANGED <<audit, completed, job, identity, items, aggFaults>>
      /\ invocation' = [invocation EXCEPT ![i].pc = "build", ![i].runs = completed]
  BY DEF ListCompletedRuns, environment, stored
<1>2. invocation[i] \in InvocationState /\ invocation \in [Invocations -> InvocationState]
      /\ completed \subseteq Runs
  BY InvocationIsState DEF AggInv, AggShape
<1>. DEFINE v == [invocation[i] EXCEPT !.pc = "build", !.runs = completed]
<1>3. Becomes(i, v)
  BY <1>1, <1>2 DEF Becomes
<1>4. v \in InvocationState /\ v.pc = "build" /\ v.id = invocation[i].id
      /\ v.count = invocation[i].count /\ v.runs = completed
  BY <1>2 DEF InvocationState, InvocationPcs
<1>. HIDE DEF v
<1>5. PICK w : w = v
  OBVIOUS
<1>6. SoundAs(i, w)
  BY <1>1, <1>4, <1>5, InvocationIsState DEF SoundAs, IdSound, Checked
<1>. QED
  BY <1>1, <1>3, <1>4, <1>5, <1>6, IdentityUnchanged, JobUnchanged, QuietStep, FaultsTyped

\* Of all listings that pass the integrity check there is one: each has as many runs
\* as the audit counts.
LEMMA BuildInv ==
  ASSUME AggInv, NEW i \in Invocations, Build(i)
  PROVE  AggInv'
<1>1. /\ invocation[i].pc = "build"
      /\ UNCHANGED <<audit, completed, job, identity, items, aggFaults>>
  BY DEF Build, environment, stored
<1>2. JobStep /\ IdentityStep /\ aggFaults' \in 0 .. MaxAggFaults
  BY <1>1, JobUnchanged, IdentityUnchanged, FaultsTyped
<1>. DEFINE me == invocation[i]
            records == LoadedRecords(me.runs)
<1>3. CASE ~Eligible(me.count)
  <2>1. Finish(i, "INELIGIBLE")
    BY <1>3 DEF Build
  <2>2. "INELIGIBLE" \in JobStatuses \ {"absent"} /\ "INELIGIBLE" \notin Settled
    BY DEF JobStatuses, Settled
  <2>. QED
    BY <1>1, <1>2, <2>1, <2>2, FinishInv
<1>4. CASE Eligible(me.count)
           /\ (~IntegrityHolds(me.count, me.runs, records) \/ TooLarge(me.id, records))
  <2>1. Leave(i, "fail")
    BY <1>4 DEF Build
  <2>. QED
    BY <1>1, <1>2, <2>1, LeaveInv
<1>5. CASE /\ Eligible(me.count)
           /\ IntegrityHolds(me.count, me.runs, records)
           /\ ~TooLarge(me.id, records)
  <2>1. invocation' = [invocation EXCEPT ![i].pc = "write",
                                         ![i].pages = LineagePages(me.id, records)]
    BY <1>5 DEF Build
  <2>2. /\ me \in InvocationState /\ invocation \in [Invocations -> InvocationState]
        /\ me.id = identity /\ identity # NoId /\ identity \in Ids \cup {NoId}
        /\ job[JobOf[i]].id = identity
    BY <1>1, InvocationIsState DEF AggInv, AggShape, IdSound, Checked
  <2>3. me.runs \in SUBSET Runs /\ me.runs \subseteq completed
    BY <1>1, <2>2 DEF InvocationState, AggInv, ListingSound, Listed
  <2>4. /\ me.count > 0 /\ me.count = Cardinality(me.runs)
        /\ me.count = audit.execution_count
    BY <1>5, InvocationIsState DEF Eligible, IntegrityHolds
  <2>5. PICK pages : pages = PagesOf(identity, me.runs)
    OBVIOUS
  <2>6. pages = LineagePages(me.id, records) /\ pages \in SUBSET AllPages
    BY <2>2, <2>3, <2>5 DEF PagesOf, AllPages
  <2>. DEFINE v == [invocation[i] EXCEPT !.pc = "write", !.pages = pages]
  <2>7. Becomes(i, v)
    BY <2>1, <2>2, <2>6 DEF Becomes
  <2>8. v \in InvocationState /\ v.pc = "write" /\ v.id = me.id /\ v.count = me.count
        /\ v.runs = me.runs /\ v.pages = pages
    BY <2>2, <2>6 DEF InvocationState, InvocationPcs
  <2>. HIDE DEF v
  <2>9. PICK w : w = v
    OBVIOUS
  <2>10. /\ invocation'[i] = w
         /\ \A k \in Invocations : k # i => invocation'[k] = invocation[k]
    BY <2>7, <2>8, <2>9, BecomesFields DEF AggInv
  <2>11. SoundAs(i, w)
    BY <1>1, <2>2, <2>4, <2>8, <2>9, InvocationIsState DEF SoundAs, Listed
  <2>12. PICK R \in SUBSET completed : Covers(R) /\ Written(R)
    BY DEF AggInv, EvidenceSound
  <2>13. PICK Q : Q = me.runs
    OBVIOUS
  <2>14. Started => R = Q
    <3>1. ASSUME Started PROVE Cardinality(Q) = Cardinality(R) /\ Comparable(Q, R)
      BY <3>1, <1>1, <2>4, <2>12, <2>13 DEF Covers, Listed
    <3>2. R \in SUBSET Runs
      BY DEF AggInv, AggShape
    <3>. QED
      BY <2>3, <2>13, <3>1, <3>2, ComparableOfOneSize
  <2>15. Covers(Q)'
    <3>1. ASSUME NEW k \in Invocations, Listed(k)'
          PROVE  Comparable(invocation'[k].runs, Q)
      <4>1. CASE k = i
        BY <4>1, <2>8, <2>9, <2>10, <2>13 DEF Comparable
      <4>2. CASE k # i
        <5>1. Listed(k) /\ invocation'[k] = invocation[k] /\ Listed(i)
          BY <3>1, <4>2, <1>1, <2>10 DEF Listed
        <5>. QED
          BY <5>1, <2>13 DEF AggInv, ListingSound
      <4>. QED
        BY <4>1, <4>2
    <3>2. ASSUME NEW k \in Invocations, Writes(k)'
          PROVE  invocation'[k].runs = Q
      <4>1. CASE k = i
        BY <4>1, <2>8, <2>9, <2>10, <2>13
      <4>2. CASE k # i
        <5>1. Writes(k) /\ invocation'[k] = invocation[k]
          BY <3>2, <4>2, <2>10 DEF Writes
        <5>2. invocation[k].runs = R /\ Started
          BY <5>1, <2>12 DEF Covers, Started
        <5>. QED
          BY <5>1, <5>2, <2>14
      <4>. QED
        BY <4>1, <4>2
    <3>3. Cardinality(Q) = audit.execution_count /\ audit.execution_count > 0
      BY <2>4, <2>13
    <3>. QED
      BY <1>1, <2>2, <3>1, <3>2, <3>3 DEF Covers, Comparable
  <2>16. Written(Q)'
    <3>1. CASE Started
      <4>1. Written(Q)
        BY <3>1, <2>12, <2>14
      <4>. QED
        BY <4>1, <1>1, <2>5, <2>8, <2>9, <2>10, <2>13 DEF Written
    <3>2. CASE ~Started
      <4>1. items = {} /\ \A k \in Invocations : ~Writes(k)
        BY <3>2 DEF Started
      <4>2. \A k \in Invocations : invocation'[k].pc = "write" => k = i
        BY <4>1, <2>10 DEF Writes
      <4>3. invocation'[i].pages = PagesOf(identity, Q)
        BY <2>5, <2>8, <2>9, <2>10, <2>13
      <4>. QED
        BY <4>1, <4>2, <4>3, <1>1 DEF Written
    <3>. QED
      BY <3>1, <3>2
  <2>17. EvidenceSound'
    BY <1>1, <2>3, <2>13, <2>15, <2>16 DEF EvidenceSound
  <2>. QED
    BY <1>1, <1>2, <2>7, <2>8, <2>9, <2>11, <2>17, InvocationStep
<1>. QED
  BY <1>3, <1>4, <1>5

-----------------------------------------------------------------------------
(* Writing the aggregate set                                               *)

\* An invocation that writes does it for the runs that everything covers.
LEMMA WriterCovers ==
  ASSUME AggInv, NEW i \in Invocations, Writes(i)
  PROVE  /\ Started
         /\ invocation[i].id = identity
         /\ \E R \in SUBSET completed :
              /\ Covers(R) /\ Written(R) /\ invocation[i].runs = R
<1>1. PICK R \in SUBSET completed : Covers(R) /\ Written(R)
  BY DEF AggInv, EvidenceSound
<1>2. invocation[i].runs = R
  BY <1>1 DEF Covers
<1>3. invocation[i].id = identity
  BY InvocationIsState DEF IdSound, Checked, Writes
<1>. QED
  BY <1>1, <1>2, <1>3 DEF Started

\* What is written still covers the same runs.
LEMMA WriterStep ==
  ASSUME AggInv, NEW i \in Invocations, Writes(i),
         NEW R \in SUBSET completed, Covers(R), Written(R)',
         NEW v \in InvocationState, Becomes(i, v),
         UNCHANGED <<audit, completed, identity>>,
         v.pc \in {"write", "recheck_set"} => v.runs = R,
         v.pc # "build"
  PROVE  EvidenceSound'
<1>1. /\ invocation'[i] = v
      /\ \A k \in Invocations : k # i => invocation'[k] = invocation[k]
  BY BecomesFields DEF AggInv
<1>2. Started
  BY DEF Started
<1>3. ASSUME NEW k \in Invocations, Listed(k)'
      PROVE  Comparable(invocation'[k].runs, R)
  <2>1. CASE k = i
    BY <1>1, <1>3, <2>1 DEF Listed, Comparable
  <2>2. CASE k # i
    BY <1>1, <1>3, <2>2 DEF Listed, Covers
  <2>. QED
    BY <2>1, <2>2
<1>4. ASSUME NEW k \in Invocations, Writes(k)'
      PROVE  invocation'[k].runs = R
  <2>1. CASE k = i
    BY <1>1, <1>4, <2>1 DEF Writes
  <2>2. CASE k # i
    BY <1>1, <1>4, <2>2 DEF Writes, Covers
  <2>. QED
    BY <2>1, <2>2
<1>5. Covers(R)'
  BY <1>2, <1>3, <1>4 DEF Covers, Comparable
<1>. QED
  BY <1>5 DEF EvidenceSound

LEMMA WriteLineagePageInv ==
  ASSUME AggInv, NEW i \in Invocations, WriteLineagePage(i)
  PROVE  AggInv'
<1>1. /\ invocation[i].pc = "write" /\ invocation[i].pages # {}
      /\ UNCHANGED <<audit, completed, job, identity, aggFaults>>
  BY DEF WriteLineagePage, environment
<1>2. PICK page : page = CHOOSE p \in invocation[i].pages : TRUE
  OBVIOUS
<1>3. page \in invocation[i].pages
  BY <1>1, <1>2
<1>4. JobStep /\ IdentityStep /\ aggFaults' \in 0 .. MaxAggFaults
  BY <1>1, JobUnchanged, IdentityUnchanged, FaultsTyped
<1>5. Writes(i)
  BY <1>1 DEF Writes
<1>6. CASE Exists(items, page) /\ page \notin items
  <2>1. Leave(i, "fail") /\ UNCHANGED items
    BY <1>2, <1>6 DEF WriteLineagePage
  <2>. QED
    BY <1>1, <1>4, <2>1, LeaveInv
<1>7. CASE ~(Exists(items, page) /\ page \notin items)
  <2>1. /\ invocation' = [invocation EXCEPT ![i].pages = @ \ {page}]
        /\ items' = items \cup {page}
        /\ page \in items \/ ~Exists(items, page)
    BY <1>2, <1>7 DEF WriteLineagePage
  <2>2. PICK R \in SUBSET completed :
          Covers(R) /\ Written(R) /\ invocation[i].runs = R
    BY <1>5, WriterCovers
  <2>3. invocation[i] \in InvocationState /\ invocation \in [Invocations -> InvocationState]
    BY InvocationIsState DEF AggInv, AggShape
  <2>. DEFINE v == [invocation[i] EXCEPT !.pages = @ \ {page}]
  <2>4. Becomes(i, v)
    BY <2>1, <2>3 DEF Becomes
  <2>5. v \in InvocationState /\ v.pc = "write" /\ v.id = invocation[i].id
        /\ v.count = invocation[i].count /\ v.runs = invocation[i].runs
        /\ v.pages = invocation[i].pages \ {page}
    BY <1>1, <2>3 DEF InvocationState
  <2>. HIDE DEF v
  <2>6. PICK w : w = v
    OBVIOUS
  <2>7. /\ invocation'[i] = w
        /\ \A k \in Invocations : k # i => invocation'[k] = invocation[k]
    BY <2>4, <2>5, <2>6, BecomesFields DEF AggInv
  <2>8. SoundAs(i, w)
    BY <1>1, <2>5, <2>6, InvocationIsState DEF SoundAs, IdSound, Checked, Listed
  <2>9. page \in PagesOf(identity, R)
    BY <1>1, <1>3, <2>2 DEF Written
  <2>10. Written(R)'
    <3>1. items' \subseteq PagesOf(identity, R) \cup SetOf(identity, R)
      BY <2>1, <2>2, <2>9 DEF Written
    <3>2. \/ items' \cap SetOf(identity, R) = {}
          \/ items' = PagesOf(identity, R) \cup SetOf(identity, R)
      <4>1. CASE items \cap SetOf(identity, R) = {}
        BY <2>1, <2>9, <4>1, SetAndPagesDiffer
      <4>2. CASE items = PagesOf(identity, R) \cup SetOf(identity, R)
        BY <2>1, <2>9, <4>2
      <4>. QED
        BY <2>2, <4>1, <4>2 DEF Written
    <3>3. ASSUME NEW k \in Invocations, invocation'[k].pc = "write"
          PROVE  /\ invocation'[k].pages \subseteq PagesOf(identity, R)
                 /\ PagesOf(identity, R) \subseteq items' \cup invocation'[k].pages
      <4>1. CASE k = i
        <5>1. /\ invocation[i].pages \subseteq PagesOf(identity, R)
              /\ PagesOf(identity, R) \subseteq items \cup invocation[i].pages
          BY <1>1, <2>2 DEF Written
        <5>2. invocation'[k].pages = invocation[i].pages \ {page}
          BY <4>1, <2>5, <2>6, <2>7
        <5>. QED
          BY <5>1, <5>2, <2>1
      <4>2. CASE k # i
        <5>1. /\ invocation[k].pages \subseteq PagesOf(identity, R)
              /\ PagesOf(identity, R) \subseteq items \cup invocation[k].pages
              /\ invocation'[k] = invocation[k]
          BY <2>2, <2>7, <3>3, <4>2 DEF Written
        <5>. QED
          BY <5>1, <2>1
      <4>. QED
        BY <4>1, <4>2
    <3>. QED
      BY <1>1, <3>1, <3>2, <3>3 DEF Written
  <2>11. EvidenceSound'
    BY <1>1, <1>5, <2>2, <2>4, <2>5, <2>6, <2>10, WriterStep
  <2>. QED
    BY <1>1, <1>4, <2>1, <2>4, <2>5, <2>6, <2>8, <2>11, InvocationStep
<1>. QED
  BY <1>6, <1>7

\* The transaction finds all pages, and nothing else of the set.
LEMMA TransactionCompletes ==
  ASSUME AggInv, NEW i \in Invocations, invocation[i].pc = "write",
         invocation[i].pages = {}, NEW R \in SUBSET completed, Written(R),
         ~ \E x \in SetOf(identity, R) : Exists(items, x),
         items' = items \cup SetOf(identity, R), UNCHANGED identity,
         NEW v \in InvocationState, Becomes(i, v), v.pc # "write"
  PROVE  Written(R)' /\ MarkerWritten'
<1>1. /\ invocation'[i] = v
      /\ \A k \in Invocations : k # i => invocation'[k] = invocation[k]
  BY BecomesFields DEF AggInv
<1>2. PagesOf(identity, R) \subseteq items
  BY DEF Written
<1>3. items' = PagesOf(identity, R) \cup SetOf(identity, R)
  BY <1>2 DEF Written
<1>4. ASSUME NEW k \in Invocations, invocation'[k].pc = "write"
      PROVE  invocation'[k].pages \subseteq PagesOf(identity, R)
  BY <1>1, <1>4 DEF Written
<1>5. Written(R)'
  BY <1>3, <1>4 DEF Written
<1>6. PICK marker : marker = Item(identity, "SET", "audit", 0, LoadedRecords(R))
  OBVIOUS
<1>7. marker \in items' /\ marker.kind = "SET"
  BY <1>3, <1>6, RecordsPresent, ItemFields DEF SetOf
<1>. QED
  BY <1>5, <1>7 DEF MarkerWritten

LEMMA PutRecordsOnceInv ==
  ASSUME AggInv, NEW i \in Invocations, PutRecordsOnce(i)
  PROVE  AggInv'
<1>1. /\ invocation[i].pc = "write" /\ invocation[i].pages = {}
      /\ UNCHANGED <<audit, completed, job, identity, aggFaults>>
  BY DEF PutRecordsOnce, environment
<1>2. Writes(i)
  BY <1>1 DEF Writes
<1>3. PICK R \in SUBSET completed : Covers(R) /\ Written(R) /\ invocation[i].runs = R
  BY <1>2, WriterCovers
<1>4. invocation[i].id = identity /\ job[JobOf[i]].id = identity
  BY <1>1, <1>2, WriterCovers, InvocationIsState DEF IdSound, Checked
<1>5. PersistedRecords(invocation[i].id, LoadedRecords(invocation[i].runs))
        = SetOf(identity, R)
  BY <1>3, <1>4 DEF SetOf
<1>6. JobStep /\ IdentityStep /\ aggFaults' \in 0 .. MaxAggFaults
  BY <1>1, JobUnchanged, IdentityUnchanged, FaultsTyped
<1>7. CASE \E x \in SetOf(identity, R) : Exists(items, x)
  <2>1. AggGoto(i, "recheck_set") /\ UNCHANGED items
    BY <1>5, <1>7 DEF PutRecordsOnce
  <2>2. "recheck_set" \in InvocationPcs
    BY DEF InvocationPcs
  <2>3. PICK v \in InvocationState :
          /\ Becomes(i, v) /\ v.pc = "recheck_set"
          /\ v.id = invocation[i].id /\ v.count = invocation[i].count
          /\ v.runs = invocation[i].runs
    BY <2>1, <2>2, GotoBecomes
  <2>4. SoundAs(i, v)
    BY <1>1, <2>3, InvocationIsState DEF SoundAs, IdSound, Checked, Listed
  <2>5. Written(R)'
    <3>1. /\ invocation'[i] = v
          /\ \A k \in Invocations : k # i => invocation'[k] = invocation[k]
      BY <2>3, BecomesFields DEF AggInv
    <3>. QED
      BY <1>1, <1>3, <2>1, <2>3, <3>1 DEF Written
  <2>6. EvidenceSound'
    BY <1>1, <1>2, <1>3, <2>3, <2>5, WriterStep
  <2>. QED
    BY <1>1, <1>6, <2>1, <2>3, <2>4, <2>6, InvocationStep
<1>8. CASE ~ \E x \in SetOf(identity, R) : Exists(items, x)
  <2>1. items' = items \cup SetOf(identity, R) /\ Finish(i, "COMPLETED")
    BY <1>5, <1>8 DEF PutRecordsOnce
  <2>2. "COMPLETED" \in JobStatuses \ {"absent"}
    BY DEF JobStatuses, Settled
  <2>3. PICK v \in InvocationState :
          Becomes(i, v) /\ v.pc = "finish" /\ v.id = NoId /\ v.count = 0
    BY <2>1, <2>2, FinishBecomes
  <2>4. Written(R)' /\ MarkerWritten'
    BY <1>1, <1>3, <1>8, <2>1, <2>3, TransactionCompletes
  <2>5. SoundAs(i, v)
    BY <1>1, <1>4, <2>3, <2>4 DEF SoundAs
  <2>6. EvidenceSound'
    BY <1>1, <1>2, <1>3, <2>3, <2>4, WriterStep
  <2>. QED
    BY <1>1, <1>6, <2>1, <2>3, <2>5, <2>6, InvocationStep
<1>. QED
  BY <1>7, <1>8

LEMMA PutRecordsAnswerLostInv ==
  ASSUME AggInv, NEW i \in Invocations, PutRecordsAnswerLost(i)
  PROVE  AggInv'
<1>1. /\ invocation[i].pc = "write" /\ invocation[i].pages = {}
      /\ UNCHANGED <<audit, completed, job, identity>>
      /\ aggFaults < MaxAggFaults /\ aggFaults' = aggFaults + 1
      /\ Leave(i, "fail")
  BY DEF PutRecordsAnswerLost, environment
<1>2. Writes(i)
  BY <1>1 DEF Writes
<1>3. PICK R \in SUBSET completed : Covers(R) /\ Written(R) /\ invocation[i].runs = R
  BY <1>2, WriterCovers
<1>4. PersistedRecords(invocation[i].id, LoadedRecords(invocation[i].runs))
        = SetOf(identity, R)
  BY <1>2, <1>3, WriterCovers DEF SetOf
<1>5. /\ ~ \E x \in SetOf(identity, R) : Exists(items, x)
      /\ items' = items \cup SetOf(identity, R)
  BY <1>4 DEF PutRecordsAnswerLost
<1>6. PICK v \in InvocationState : Becomes(i, v) /\ v.pc = "fail" /\ v.id = NoId
                                   /\ v.count = 0
  <2>1. "fail" \in InvocationPcs
    BY DEF InvocationPcs
  <2>. QED
    BY <1>1, <2>1, LeaveBecomes
<1>7. Written(R)'
  BY <1>1, <1>3, <1>5, <1>6, TransactionCompletes
<1>8. EvidenceSound'
  BY <1>1, <1>2, <1>3, <1>6, <1>7, WriterStep
<1>9. SoundAs(i, v)
  BY <1>6, EmptyHanded
<1>. QED
  BY <1>1, <1>5, <1>6, <1>8, <1>9, JobUnchanged, IdentityUnchanged, FaultsTyped,
     InvocationStep

LEMMA RecheckAggregateSetInv ==
  ASSUME AggInv, NEW i \in Invocations, RecheckAggregateSet(i)
  PROVE  AggInv'
<1>1. /\ invocation[i].pc = "recheck_set"
      /\ UNCHANGED <<audit, completed, job, identity, items, aggFaults>>
  BY DEF RecheckAggregateSet, environment, stored
<1>2. PICK status : /\ Finish(i, status)
                    /\ status = IF AggregateSetExists(invocation[i].id)
                                THEN "DUPLICATE_COMPLETED" ELSE "CONFLICT"
  BY DEF RecheckAggregateSet
<1>3. status \in JobStatuses \ {"absent"}
  BY <1>2 DEF JobStatuses, Settled
<1>4. status \in Settled => MarkerWritten /\ job'[JobOf[i]].id = identity
  <2>1. status \in Settled => AggregateSetExists(invocation[i].id)
    BY <1>2 DEF Settled
  <2>2. AggregateSetExists(invocation[i].id) => MarkerWritten
    BY DEF AggregateSetExists, MarkerWritten
  <2>3. job[JobOf[i]].id = identity
    BY <1>1, InvocationIsState DEF IdSound, Checked
  <2>. QED
    BY <1>1, <2>1, <2>2, <2>3
<1>. QED
  BY <1>1, <1>2, <1>3, <1>4, JobUnchanged, FinishInv

-----------------------------------------------------------------------------
(* Recording the outcome                                                   *)

LEMMA CompleteJobInv ==
  ASSUME AggInv, NEW i \in Invocations, CompleteJob(i)
  PROVE  AggInv'
<1>1. /\ invocation[i].pc = "finish"
      /\ UNCHANGED <<audit, completed, identity, items, aggFaults>>
      /\ job' = [job EXCEPT ![JobOf[i]].status = invocation[i].status]
      /\ Leave(i, "done")
  BY DEF CompleteJob, environment
<1>2. job \in [Jobs -> JobState] /\ JobOf[i] \in Jobs /\ job[JobOf[i]] \in JobState
  BY InvocationIsState DEF AggInv, AggShape
<1>3. PICK status : status = invocation[i].status
  OBVIOUS
<1>4. status \in JobStatuses
  BY <1>3, InvocationIsState DEF InvocationState
<1>. DEFINE new == [job[JobOf[i]] EXCEPT !.status = status]
<1>5. new \in JobState /\ new.status = status /\ new.id = job[JobOf[i]].id
  BY <1>2, <1>4 DEF JobState
<1>6. job' = [job EXCEPT ![JobOf[i]] = new]
  BY <1>1, <1>2, <1>3
<1>7. status \in Settled => MarkerWritten' /\ job[JobOf[i]].id = identity'
  BY <1>1, <1>3 DEF AggInv, SettledSound, MarkerWritten
<1>. HIDE DEF new
<1>8. JobStep
  BY <1>2, <1>5, <1>6, <1>7 DEF JobStep
<1>. QED
  BY <1>1, <1>8, LeaveInv, FaultsTyped

LEMMA FailJobInv ==
  ASSUME AggInv, NEW i \in Invocations, FailJob(i)
  PROVE  AggInv'
<1>1. /\ UNCHANGED <<audit, completed, identity, items, aggFaults>>
      /\ job' = [job EXCEPT ![JobOf[i]].status = "FAILED"]
      /\ Leave(i, "done")
  BY DEF FailJob, environment
<1>2. "FAILED" \in JobStatuses \ Settled
  BY DEF JobStatuses, Settled
<1>3. JobStep
  BY <1>1, <1>2, Unsettled, InvocationIsState
<1>. QED
  BY <1>1, <1>3, LeaveInv, FaultsTyped

LEMMA AggCallFailsInv ==
  ASSUME AggInv, NEW i \in Invocations, AggCallFails(i) \/ AggCrash(i)
  PROVE  AggInv'
<1>1. /\ UNCHANGED <<audit, completed, job, identity, items>>
      /\ aggFaults < MaxAggFaults /\ aggFaults' = aggFaults + 1
  BY DEF AggCallFails, AggCrash, environment, stored
<1>2. PICK pc \in {"fail", "done", "raised", "crashed"} : Leave(i, pc)
  BY DEF AggCallFails, AggCrash
<1>. QED
  BY <1>1, <1>2, JobUnchanged, LeaveInv, FaultsTyped

-----------------------------------------------------------------------------
(* The finalizer and the scheduled runs                                    *)

\* Before the audit is finalized nothing is counted, and nothing is written.
LEMMA NothingBeforeFinalization ==
  ASSUME AggInv, audit.lifecycle_state # "COMPLETED"
  PROVE  /\ ~Started
         /\ \A i \in Invocations : ~(invocation[i].count > 0)
<1>1. ~(audit.execution_count > 0)
  BY DEF AggInv, CountSound
<1>2. ~Started
  BY <1>1, StartedHasId
<1>3. ASSUME NEW i \in Invocations PROVE ~(invocation[i].count > 0)
  BY <1>1, InvocationIsState
<1>. QED
  BY <1>2, <1>3

LEMMA FinalizeAuditInv ==
  ASSUME AggInv, FinalizeAudit
  PROVE  AggInv'
<1>1. /\ audit.lifecycle_state # "COMPLETED"
      /\ UNCHANGED <<completed, identity, items, invocation, aggFaults>>
  BY DEF FinalizeAudit
<1>2. PICK count \in 1 .. Cardinality(completed) :
        audit' = [lifecycle_state |-> "COMPLETED", execution_count |-> count]
  BY DEF FinalizeAudit
<1>3. AggShape
  BY DEF AggInv
<1>4. completed \in SUBSET Runs
  BY <1>3 DEF AggShape
<1>5. count \in 0 .. Cardinality(Runs)
  <2>1. /\ Cardinality(completed) \in 0 .. Cardinality(Runs)
        /\ Cardinality(Runs) \in Nat
    BY <1>4, CountOfRuns
  <2>. QED
    BY <2>1
<1>6. audit' \in AuditState /\ audit'.lifecycle_state = "COMPLETED"
  BY <1>2, <1>5 DEF AuditState
<1>7. ASSUME NEW j \in Jobs
      PROVE  /\ job'[j] \in JobState /\ job'[j].id = job[j].id
             /\ job'[j].status \in Settled => job[j].status \in Settled
  <2>1. job[j] \in JobState
    BY <1>3 DEF AggShape
  <2>2. "INVOCATION_REQUESTED" \in JobStatuses \ Settled
    BY DEF JobStatuses, Reopenable, Settled
  <2>3. job'[j] = IF j \in Intents THEN [job[j] EXCEPT !.status = "INVOCATION_REQUESTED"]
                  ELSE job[j]
    BY DEF FinalizeAudit
  <2>. QED
    BY <2>1, <2>2, <2>3 DEF JobState
<1>8. job' \in [Jobs -> JobState]
  <2>1. DOMAIN job' = Jobs /\ job' = [j \in Jobs |-> job'[j]]
    BY DEF FinalizeAudit
  <2>. QED
    BY <2>1, <1>7
<1>9. AggShape'
  BY <1>1, <1>3, <1>6, <1>8 DEF AggShape
<1>10. ~Started /\ \A i \in Invocations : ~(invocation[i].count > 0)
  BY <1>1, NothingBeforeFinalization
<1>11. ~MarkerWritten
  BY <1>10 DEF Started, MarkerWritten
<1>12. ASSUME NEW i \in Invocations PROVE IdSound(i)'
  BY <1>1, <1>7, InvocationIsState DEF IdSound, Checked
<1>13. \A j \in Jobs : job'[j].id \in {NoId, identity'}
  BY <1>1, <1>7 DEF AggInv
<1>14. CountSound'
  BY <1>1, <1>6, <1>10 DEF CountSound
<1>15. ListingSound'
  BY <1>1 DEF AggInv, ListingSound, Listed, Comparable
<1>16. EvidenceSound'
  <2>1. PICK R \in SUBSET completed : Covers(R) /\ Written(R)
    BY DEF AggInv, EvidenceSound
  <2>2. ~Started'
    BY <1>1, <1>10 DEF Started, Writes
  <2>3. Covers(R)'
    BY <1>1, <2>1, <2>2 DEF Covers, Listed, Writes, Comparable
  <2>4. Written(R)'
    BY <1>1, <2>1 DEF Written
  <2>. QED
    BY <1>1, <2>3, <2>4 DEF EvidenceSound
<1>17. SettledSound'
  BY <1>1, <1>7, <1>11 DEF AggInv, SettledSound
<1>. QED
  BY <1>9, <1>12, <1>13, <1>14, <1>15, <1>16, <1>17 DEF AggInv

LEMMA CompleteRunInv ==
  ASSUME AggInv, NEW r \in Runs, CompleteRun(r)
  PROVE  AggInv'
<1>1. /\ completed' = completed \cup {r}
      /\ UNCHANGED <<audit, job, identity, items, invocation, aggFaults>>
  BY DEF CompleteRun, stored
<1>2. AggShape'
  BY <1>1 DEF AggInv, AggShape
<1>3. /\ \A i \in Invocations : IdSound(i)'
      /\ \A j \in Jobs : job'[j].id \in {NoId, identity'}
  BY <1>1 DEF AggInv, IdSound, Checked
<1>4. CountSound'
  BY <1>1 DEF AggInv, CountSound
<1>5. ListingSound'
  BY <1>1 DEF AggInv, ListingSound, Listed, Comparable
<1>6. EvidenceSound'
  <2>1. PICK R \in SUBSET completed : Covers(R) /\ Written(R)
    BY DEF AggInv, EvidenceSound
  <2>2. Covers(R)'
    BY <1>1, <2>1 DEF Covers, Listed, Writes, Comparable, Started
  <2>3. Written(R)'
    BY <1>1, <2>1 DEF Written
  <2>4. R \in SUBSET completed'
    BY <1>1
  <2>. QED
    BY <2>2, <2>3, <2>4 DEF EvidenceSound
<1>7. SettledSound'
  BY <1>1 DEF AggInv, SettledSound, MarkerWritten
<1>. QED
  BY <1>2, <1>3, <1>4, <1>5, <1>6, <1>7 DEF AggInv

\* A step that changes jobs only.
LEMMA JobsOnlyInv ==
  ASSUME AggInv, JobStep, aggFaults' \in 0 .. MaxAggFaults,
         UNCHANGED <<audit, completed, identity, items, invocation>>
  PROVE  AggInv'
<1>1. AggShape'
  BY DEF AggInv, AggShape, JobStep
<1>2. ASSUME NEW i \in Invocations PROVE IdSound(i)'
  <2>1. IdSound(i) /\ JobOf[i] \in Jobs
    BY InvocationIsState
  <2>2. job'[JobOf[i]].id = job[JobOf[i]].id \/ job'[JobOf[i]].id = identity'
    BY <2>1 DEF JobStep
  <2>. QED
    BY <2>1, <2>2 DEF IdSound, Checked
<1>3. \A j \in Jobs : job'[j].id \in {NoId, identity'}
  BY DEF AggInv, JobStep
<1>4. CountSound' /\ ListingSound'
  BY DEF AggInv, CountSound, ListingSound, Listed, Comparable
<1>5. EvidenceSound'
  <2>1. PICK R \in SUBSET completed : Covers(R) /\ Written(R)
    BY DEF AggInv, EvidenceSound
  <2>2. Covers(R)'
    BY <2>1 DEF Covers, Listed, Writes, Comparable, Started
  <2>3. Written(R)'
    BY <2>1 DEF Written
  <2>. QED
    BY <2>2, <2>3 DEF EvidenceSound
<1>6. SettledSound'
  <2>1. MarkerWritten' <=> MarkerWritten
    BY DEF MarkerWritten
  <2>2. ASSUME NEW j \in Jobs, job'[j].status \in Settled
        PROVE  MarkerWritten' /\ job'[j].id = identity'
    <3>1. CASE job[j].status \in Settled
      <4>1. MarkerWritten /\ job[j].id = identity
        BY <3>1 DEF AggInv, SettledSound
      <4>. QED
        BY <2>1, <4>1 DEF JobStep
    <3>2. CASE MarkerWritten' /\ job'[j].id = identity'
      BY <3>2
    <3>. QED
      BY <2>2, <3>1, <3>2 DEF JobStep
  <2>3. ASSUME NEW k \in Invocations, invocation[k].pc = "finish",
               invocation[k].status \in Settled
        PROVE  MarkerWritten' /\ job'[JobOf[k]].id = identity'
    <3>1. MarkerWritten /\ job[JobOf[k]].id = identity /\ JobOf[k] \in Jobs
      BY <2>3, InvocationIsState DEF AggInv, SettledSound
    <3>. QED
      BY <2>1, <3>1 DEF JobStep
  <2>. QED
    BY <2>2, <2>3 DEF SettledSound
<1>. QED
  BY <1>1, <1>2, <1>3, <1>4, <1>5, <1>6 DEF AggInv

LEMMA RecordInvocationFailedInv ==
  ASSUME AggInv, NEW j \in Jobs, RecordInvocationFailed(j)
  PROVE  AggInv'
<1>1. /\ UNCHANGED <<audit, completed, identity, items, invocation>>
      /\ aggFaults < MaxAggFaults /\ aggFaults' = aggFaults + 1
      /\ job' = [job EXCEPT ![j].status = "INVOCATION_FAILED", ![j].refused = TRUE]
  BY DEF RecordInvocationFailed, environment
<1>2. job \in [Jobs -> JobState] /\ job[j] \in JobState
  BY DEF AggInv, AggShape
<1>. DEFINE new == [[job[j] EXCEPT !.status = "INVOCATION_FAILED"] EXCEPT !.refused = TRUE]
<1>3. job' = [job EXCEPT ![j] = new]
  BY <1>1, <1>2
<1>4. "INVOCATION_FAILED" \in JobStatuses \ Settled
  BY DEF JobStatuses, Reopenable, Settled
<1>5. new \in JobState /\ new.id = job[j].id /\ new.status = "INVOCATION_FAILED"
  BY <1>2, <1>4 DEF JobState
<1>. HIDE DEF new
<1>6. JobStep
  BY <1>2, <1>3, <1>4, <1>5 DEF JobStep
<1>. QED
  BY <1>1, <1>6, FaultsTyped, JobsOnlyInv

-----------------------------------------------------------------------------
(* The specification                                                       *)

LEMMA AggInitInv ==
  ASSUME AggInit
  PROVE  AggInv
<1>1. /\ audit = [lifecycle_state |-> "ACTIVE", execution_count |-> 0]
      /\ completed = {}
      /\ job = [j \in Jobs |-> [status |-> "absent", id |-> NoId, refused |-> FALSE]]
      /\ identity = NoId /\ items = {} /\ aggFaults = 0
      /\ invocation = [i \in Invocations |-> NothingRead]
  BY DEF AggInit
<1>2. 0 \in 0 .. Cardinality(Runs) /\ 0 \in 0 .. MaxAggFaults
  <2>1. Cardinality(Runs) \in Nat /\ MaxAggFaults \in Nat
    BY CountOfRuns, AggregationAssumption DEF AggregationAssumption
  <2>. QED
    BY <2>1
<1>3. "absent" \in JobStatuses \ Settled
  BY DEF JobStatuses, Settled
<1>4. AggShape
  <2>1. audit \in AuditState
    BY <1>1, <1>2 DEF AuditState
  <2>2. job \in [Jobs -> JobState]
    BY <1>1, <1>3 DEF JobState
  <2>. QED
    BY <1>1, <1>2, <2>1, <2>2, NothingReadIsState DEF AggShape
<1>5. \A i \in Invocations :
        /\ invocation[i].pc = "idle" /\ invocation[i].id = NoId
        /\ invocation[i].count = 0
  BY <1>1 DEF NothingRead
<1>6. \A i \in Invocations : IdSound(i) /\ ~Listed(i) /\ ~Writes(i)
  BY <1>5 DEF IdSound, Checked, Listed, Writes
<1>7. \A j \in Jobs : job[j].id = NoId /\ job[j].status \notin Settled
  BY <1>1, <1>3
<1>8. CountSound /\ ListingSound
  BY <1>1, <1>5, <1>6 DEF CountSound, ListingSound
<1>9. EvidenceSound
  <2>1. Covers({}) /\ Written({})
    BY <1>1, <1>5, <1>6 DEF Covers, Written, Started
  <2>. QED
    BY <2>1 DEF EvidenceSound
<1>10. SettledSound
  BY <1>5, <1>7 DEF SettledSound
<1>. QED
  BY <1>4, <1>6, <1>7, <1>8, <1>9, <1>10 DEF AggInv

LEMMA AggStutterInv ==
  ASSUME AggInv, UNCHANGED aggVars
  PROVE  AggInv'
<1>1. UNCHANGED <<audit, completed, job, identity, items, invocation, aggFaults>>
  BY DEF aggVars
<1>2. aggFaults' \in 0 .. MaxAggFaults
  BY <1>1 DEF AggInv, AggShape
<1>. QED
  BY <1>1, <1>2, JobUnchanged, JobsOnlyInv

LEMMA AggNextInv ==
  ASSUME AggInv, [AggNext]_aggVars
  PROVE  AggInv'
<1>1. ASSUME NEW i \in Invocations, Invocation(i)
      PROVE  AggInv'
  BY <1>1, PutJobOnceInv, GetJobInv, RestartJobInv, HandleDuplicateJobInv, GetAuditInv,
     GetIdentityInv, PutIdentityOnceInv, CheckAggregateSetInv, ListCompletedRunsInv,
     BuildInv, WriteLineagePageInv, PutRecordsOnceInv, RecheckAggregateSetInv,
     CompleteJobInv, FailJobInv
  DEF Invocation
<1>2. ASSUME NEW i \in Invocations, AggFault(i)
      PROVE  AggInv'
  BY <1>2, AggCallFailsInv, PutRecordsAnswerLostInv DEF AggFault
<1>. QED
  BY <1>1, <1>2, CompleteRunInv, RecordInvocationFailedInv, FinalizeAuditInv,
     AggStutterInv DEF AggNext

(***************************************************************************)
(* The theorems                                                            *)
(***************************************************************************)

\* Whatever invocations are delivered, overtake each other and die, and whenever
\* runs complete: the listings are comparable, what is written covers one of
\* them, and a job is settled under the audit's id when the set is there.
THEOREM AggregationInvariant == AggSpec => []AggInv
<1>1. AggInit => AggInv
  BY AggInitInv
<1>2. AggInv /\ [AggNext]_aggVars => AggInv'
  BY AggNextInv
<1>. QED
  BY <1>1, <1>2, PTL DEF AggSpec

\* The state of the audit, the jobs and the invocations is what the code can
\* store, and no invocation lists, builds or writes without an audit_execution_id.
THEOREM AggregationTypeCorrect == AggSpec => []AggTypeOK
<1>1. AggInv => AggTypeOK
  BY ShapeIsTyped
<1>. QED
  BY <1>1, AggregationInvariant, PTL

\* put_records_once and the conditional puts of the lineage pages leave one set
\* for an audit: with the completion marker, everything it counts is there.
THEOREM AggregateSetsAreSound == AggSpec => []AggregateSetIsSound
<1>1. AggInv => AggregateSetIsSound
  BY WholeSetIsSound
<1>. QED
  BY <1>1, AggregationInvariant, PTL

\* A job that _complete_job has settled names a set that aggregate_set_exists finds.
THEOREM SettledJobsHaveSets == AggSpec => []SettledJobHasSet
<1>1. AggInv => SettledJobHasSet
  BY SettledIsSound
<1>. QED
  BY <1>1, AggregationInvariant, PTL

\* RetrievalService shows the evidence of an audit as a whole or not at all.
THEOREM RetrievalsShowWholeSets == AggSpec => []RetrievalShowsWholeSet
<1>1. AggInv => RetrievalShowsWholeSet
  BY RetrievalIsWhole
<1>. QED
  BY <1>1, AggregationInvariant, PTL

=============================================================================
