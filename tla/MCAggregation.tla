---------------------------- MODULE MCAggregation ----------------------------
(***************************************************************************)
(* Instances of Aggregation for TLC.                                       *)
(***************************************************************************)
EXTENDS EvidenceRetrieval, TLC

CONSTANTS i1, i2, i3, j1, j2, e1

TwoRuns == 1 :> <<e1, "unsafe">> @@ 2 :> <<e1>>
Deliveries == i1 :> j1 @@ i2 :> j1 @@ i3 :> j2

=============================================================================
