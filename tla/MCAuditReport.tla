---------------------------- MODULE MCAuditReport ----------------------------
(***************************************************************************)
(* Two endpoints, configured in the order 2, 1, and the results that the   *)
(* calculations tell apart. The batches meet the edges: 5 and 10 results   *)
(* (labels), 20 (95 per cent), 100 (99 per cent) and odd bursts.           *)
(***************************************************************************)
EXTENDS AuditReport

MCOrder == <<2, 1>>

MCPayloadIterations == {<<1, 1>>, <<1, 2>>}

MCOutcomes ==
  {[type |-> "PASS", ms |-> 10], [type |-> "PASS", ms |-> 80],
   [type |-> "HTTP_ERROR", ms |-> 10], [type |-> "TIMEOUT", ms |-> 300],
   [type |-> "PAYLOAD_VALIDATION_ERROR", ms |-> 0], NotPrepared}

=============================================================================
