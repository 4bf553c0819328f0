------------------------------ MODULE MCFamily ------------------------------
(***************************************************************************)
(* The family's side of the service.  Access to trips, the owner's edits   *)
(* of bookings and the filing of reservations share nothing that one of    *)
(* them decides by, so an interleaving of them adds nothing: a behaviour   *)
(* exercises one of them, chosen at the start.                             *)
(***************************************************************************)
EXTENDS HouseholdAccess, Workspace, TripMatching, TLC

CONSTANTS s1, s2, r1, r2, paris, tokyo, b1, b2

VARIABLE focus

NoDates == {<<0, 0>>}

(* A city in two spellings, an airport code, another city, and no letters; *)
(* notices with dates that touch, and one without a start.                 *)
SomePlaces ==
  "Lisbon" :> [letters |-> "lisbon", words |-> {"lisbon"}] @@
  "LISBON, Portugal" :> [letters |-> "lisbon portugal", words |-> {"lisbon", "portugal"}] @@
  "LIS" :> [letters |-> "lis", words |-> {}] @@
  "Paris" :> [letters |-> "paris", words |-> {"paris"}] @@
  "--" :> [letters |-> "", words |-> {}]
Reserved(o, d, a, start, end) == [origin |-> o, destination |-> d, address |-> a, start |-> start, end |-> end]
SomeReservations ==
  {Reserved("LIS", "Lisbon", None, 4, 6), Reserved(None, "Paris", "--", 1, 3),
   Reserved(None, None, "LISBON, Portugal", 0, 7), Reserved("LIS", "Lisbon", None, 11, 0),
   Reserved(None, None, None, 9, 0), Reserved(None, None, None, 13, 0)}
OldTrip == [destination |-> "Lisbon", starts |-> 6, ends |-> 8]
SomeLegacies ==
  {[fits |-> f, dangling |-> TRUE, trips |-> <<OldTrip>>, filed |-> <<[trip |-> t, start |-> 7, end |-> 0, changes |-> 0]>>] :
     f \in BOOLEAN, t \in 1..2}

Init == AccessInit /\ WorkspaceInit /\ MatchingInit /\ focus \in {"access", "workspace", "matching"}

Next ==
  \/ focus = "access" /\ AccessNext /\ UNCHANGED <<workspace_vars, matching_vars, focus>>
  \/ focus = "workspace" /\ WorkspaceNext /\ UNCHANGED <<access_vars, matching_vars, focus>>
  \/ focus = "matching" /\ MatchingNext /\ UNCHANGED <<access_vars, workspace_vars, focus>>

Spec == Init /\ [][Next]_<<access_vars, workspace_vars, matching_vars, focus>>

(* Every table of every module holds rows of its type.                     *)
TypeOK == AccessTypeOK /\ WorkspaceTypeOK /\ MatchingTypeOK

(* Bookings are filed under a trip that takes them in, and appear to the   *)
(* family as what they are (handlers/travel.rs).                           *)
ItinerarySound == FamilySees /\ BookingsWithinTrips /\ OrderDecidesNothing

Symmetric == Permutations({s1, s2}) \cup Permutations({r1, r2})
             \cup Permutations({paris, tokyo})
=============================================================================
