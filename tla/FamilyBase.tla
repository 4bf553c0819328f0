----------------------------- MODULE FamilyBase -----------------------------
(***************************************************************************)
(* What the modules on the family's itinerary share: the trips.            *)
(***************************************************************************)
EXTENDS Rows

CONSTANT Trips
=============================================================================
