----------------------------- MODULE TripMatching -----------------------------
(***************************************************************************)
(* Which trip a new reservation is filed under, and what filing it,        *)
(* amending it and importing an older product's records do to the trips.   *)
(* Time is in half days; a place is its letters and the words in it that   *)
(* tell places apart.  Edits by the owner are in module Workspace.         *)
(***************************************************************************)
EXTENDS Naturals, Sequences, Rows

CONSTANTS
  Place,          \* each spelling: its letters, and its telling words
  Reservations,   \* what a letter may say
  Legacies,       \* older databases: their trips, bookings, columns and dangling rows
  MaxBookings, MaxAmendments   \* bounds on the bookings filed, and on the changes of each

(* 0 is no date.                                                           *)
Journey == [destination : DOMAIN Place \cup {None}, starts : Nat, ends : Nat]
FiledRow == [trip : Nat, start : Nat, end : Nat, changes : 0..MaxAmendments]

(* The trip takes in the booking's dates, but for a beginning after its    *)
(* own end.                                                                *)
TakesIn(trip, row) ==
  /\ row.start # 0 => trip.starts # 0 /\ trip.starts <= row.start
  /\ row.end <= trip.ends /\ (row.end = 0 \/ row.start <= row.end => row.start <= trip.ends)

(* The import looks at no date: that an older database keeps its bookings  *)
(* within their trips is the older product's doing.                        *)
ASSUME MatchingAssumption ==
  /\ MaxBookings \in Nat \ {0} /\ MaxAmendments \in Nat
  /\ \A r \in Reservations : /\ {r.start, r.end} \subseteq Nat
                            /\ {r.origin, r.destination, r.address} \subseteq DOMAIN Place \cup {None}
  /\ \A old \in Legacies :
       /\ old.trips \in Seq(Journey) /\ old.filed \in Seq(FiledRow)
       /\ \A i \in DOMAIN old.filed : old.filed[i].trip \in DOMAIN old.trips =>
            TakesIn(old.trips[old.filed[i].trip], old.filed[i])

VARIABLES
  journeys,       \* travel_trips, in the order they are listed
  filed,       \* travel_bookings: trip, dates and changes
  checked      \* the older database an import has checked

matching_vars == <<journeys, filed, checked>>

MatchingTypeOK ==
  /\ journeys \in Seq(Journey) /\ filed \in Seq(FiledRow)
  /\ checked \in Legacies \cup {None}

MatchingInit == journeys = <<>> /\ filed = <<>> /\ checked = None

-----------------------------------------------------------------------------
(* Matching.                                                               *)
Either(a, b) == IF a # None THEN a ELSE b
Dated(a, b) == IF a # 0 THEN a ELSE b

places_match(p, q) == Place[p].letters = Place[q].letters \/ Place[p].words \cap Place[q].words # {}
Blank(p) == p = None \/ Place[p].letters = ""

(* Codes of airports and stations are weak: they contradict nothing.       *)
trip_place_relation(trip, r) ==
  LET said == {p \in {r.origin, r.destination, r.address} : ~Blank(p)}
  IN IF Blank(trip.destination) \/ said = {} THEN "unknown"
     ELSE IF \E p \in said : places_match(trip.destination, p) THEN "match"
     ELSE IF \E p \in said : Place[p].words # {} THEN "mismatch" ELSE "unknown"

(* 36 hours around the trip; another place only where one ends near the    *)
(* other's beginning.  0 is no match.                                      *)
trip_match_score(trip, r) ==
  LET end == Dated(trip.ends, trip.starts)
      near == r.start + 3 >= trip.starts /\ r.start <= end + 3
      continues_after == r.start + 1 >= end /\ r.start <= end + 3
      continues_before == r.end # 0 /\ r.end + 3 >= trip.starts /\ r.end <= trip.starts + 1
  IN IF r.start = 0 \/ trip.starts = 0 \/ ~near THEN 0
     ELSE CASE trip_place_relation(trip, r) = "match" -> 3
            [] trip_place_relation(trip, r) = "unknown" -> 1
            [] trip_place_relation(trip, r) = "mismatch" ->
                 IF continues_after \/ continues_before THEN 2 ELSE 0

weigh(at, i, score) ==
  IF score > at.score THEN [best |-> i, score |-> score, ambiguous |-> FALSE]
  ELSE [at EXCEPT !.ambiguous = @ \/ (score = at.score /\ score > 0)]

(* All trips in the order they are listed.                                 *)
Weighing(r) ==
  LET at[n \in 0..Len(journeys)] ==
        IF n = 0 THEN [best |-> 0, score |-> 0, ambiguous |-> FALSE]
                 ELSE weigh(at[n - 1], n, trip_match_score(journeys[n], r))
  IN at

(* Two trips that match as well leave none.                                *)
select_matching_trip(r) ==
  LET at == Weighing(r)[Len(journeys)]
  IN IF at.ambiguous THEN 0 ELSE at.best

-----------------------------------------------------------------------------
(* Filing.                                                                 *)
Earlier(a, b) == IF b # 0 /\ (a = 0 \/ b < a) THEN b ELSE a
Later(a, b) == IF b > a THEN b ELSE a

Expanded(trip, start, end, destination) ==
  [destination |-> Either(trip.destination, destination),
   starts |-> Earlier(trip.starts, start), ends |-> Later(trip.ends, Dated(end, start))]

(* The trip it goes to, for it or new, after the booking's own dates.      *)
find_or_create_trip(r) ==
  /\ r.start # 0 /\ Len(filed) < MaxBookings
  /\ LET i == select_matching_trip(r)
         t == IF i = 0 THEN Len(journeys) + 1 ELSE i
         trip == IF i = 0 THEN [destination |-> Either(r.destination, r.address), starts |-> r.start,
                                ends |-> Dated(r.end, r.start)]
                 ELSE Expanded(journeys[i], r.start, r.end, Either(r.destination, r.address))
     IN /\ journeys' = IF i = 0 THEN Append(journeys, trip) ELSE [journeys EXCEPT ![i] = trip]
        /\ filed' = Append(filed, [trip |-> t, start |-> r.start, end |-> r.end, changes |-> 0])
  /\ UNCHANGED checked

(* A booking already known keeps its trip, and the dates the notice omits. *)
Amend(i, r) ==
  LET start == Dated(r.start, filed[i].start)
      end == Dated(r.end, filed[i].end)
      place == Either(r.address, r.destination)
  IN /\ filed[i].changes < MaxAmendments
     /\ filed' = [filed EXCEPT ![i].start = start, ![i].end = end, ![i].changes = @ + 1]
     /\ journeys' = [journeys EXCEPT ![filed[i].trip] = Expanded(@, start, end, place)]
     /\ UNCHANGED checked

-----------------------------------------------------------------------------
(* Importing: the checks come first, then one transaction for all tables.  *)

(* The columns fit, no booking is without its trip, and nothing is there.  *)
CheckSnapshot ==
  /\ checked = None /\ journeys = <<>> /\ filed = <<>>
  /\ \E old \in Legacies :
       /\ old.fits
       /\ \A i \in DOMAIN old.filed : old.filed[i].trip \in DOMAIN old.trips
       /\ checked' = old
  /\ UNCHANGED <<journeys, filed>>

(* Rows that no check looked at may still undo it.                         *)
import_snapshot ==
  /\ checked # None /\ checked' = None
  /\ \/ /\ journeys' = journeys \o checked.trips
        /\ filed' = filed \o [i \in DOMAIN checked.filed |->
                                [checked.filed[i] EXCEPT !.trip = @ + Len(journeys)]]
     \/ checked.dangling /\ UNCHANGED <<journeys, filed>>

MatchingNext ==
  \/ \E r \in Reservations : find_or_create_trip(r) \/ \E i \in DOMAIN filed : Amend(i, r)
  \/ CheckSnapshot \/ import_snapshot

MatchingSpec == MatchingInit /\ [][MatchingNext]_matching_vars

-----------------------------------------------------------------------------
(* Whatever is filed, amended and imported in whatever order: the trip of  *)
(* a booking exists and takes in its dates, but for a beginning that an    *)
(* amendment left after its own end                                        *)
(* (handlers/travel.rs expand_trip_bounds_on, persist_parsed_document).    *)
BookingsWithinTrips ==
  \A i \in DOMAIN filed : filed[i].trip \in DOMAIN journeys /\ TakesIn(journeys[filed[i].trip], filed[i])

(* The order in which trips are listed decides nothing: a reservation goes *)
(* to the one trip that matches better than all others, if there is one    *)
(* (handlers/travel.rs select_matching_trip).                              *)
OrderDecidesNothing ==
  \A r \in Reservations :
    LET better(i, j) == trip_match_score(journeys[i], r) > trip_match_score(journeys[j], r)
        best == {i \in DOMAIN journeys : trip_match_score(journeys[i], r) > 0
                                      /\ \A j \in (DOMAIN journeys) \ {i} : better(i, j)}
    IN best = IF select_matching_trip(r) = 0 THEN {} ELSE {select_matching_trip(r)}
=============================================================================
