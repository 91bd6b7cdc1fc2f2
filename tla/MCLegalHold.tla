----------------------------- MODULE MCLegalHold -----------------------------
(***************************************************************************)
(* Instances of LegalHold for TLC.                                         *)
(***************************************************************************)
EXTENDS LegalHold

CONSTANTS p1, p2, q1, r1, s1

PlaceAndRelease ==
  [c \in HoldCommands |-> IF c \in {p1, p2} THEN "PLACE" ELSE "RELEASE"]

=============================================================================
