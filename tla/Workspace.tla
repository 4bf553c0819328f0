------------------------------ MODULE Workspace ------------------------------
(***************************************************************************)
(* The owner's own edits of the itinerary: bookings entered by hand,       *)
(* edits, moves between trips, action links - and what the family's        *)
(* calendar feed and reminders make of the rows.  A booking entered by     *)
(* hand is written row by row without a transaction, so a failure leaves   *)
(* the rows written before it; every other operation is one transaction.   *)
(* Bookings with several legs come from receipts (module TravelReceipts).  *)
(***************************************************************************)
EXTENDS Naturals, FiniteSets, FiniteSetsExt, Sequences, FamilyBase

CONSTANTS
  Bookings,
  Days,            \* dates; 0 is no date
  TripDates,       \* what a PUT of a trip may set as its first and last day
  MaxEdits         \* bound on the edits of all bookings together

When == Days \cup {0}
Status == {"confirmed", "cancelled"}
BookingRow == [trip : Trips, start : When, status : Status, version : Nat]

ASSUME WorkspaceAssumption ==
  /\ None \notin Trips \cup BookingRow /\ Days \subseteq Nat \ {0} /\ Days # {} /\ MaxEdits \in Nat
  /\ TripDates \subseteq When \X When

VARIABLES
  bookings,   \* travel_bookings
  legs,       \* travel_segments of each booking, in order
  alerts,     \* travel_alerts: reminders of each booking
  bounds,     \* first and last day of each trip
  receiptTrip \* trip of the receipt a booking came from

workspace_vars == <<bookings, legs, alerts, bounds, receiptTrip>>

Leg == [trip : Trips, start : When, status : Status]

TripDatesRow == When \X When
Reminder == [trip : Trips, due : Days]

WorkspaceTypeOK ==
  /\ bookings \in [Bookings -> BookingRow \cup {None}]
  /\ legs \in [Bookings -> UNION {[1..n -> Leg] : n \in 0..2}]
  /\ alerts \in [Bookings -> SUBSET Reminder]
  /\ bounds \in [Trips -> TripDatesRow]
  /\ receiptTrip \in [Bookings -> Trips \cup {None}]
  /\ \A b \in Bookings : IF bookings[b] = None THEN legs[b] = <<>> /\ alerts[b] = {}
                         ELSE bookings[b].version \in 1..MaxEdits + 1

WorkspaceInit ==
  /\ bookings = [b \in Bookings |-> None]
  /\ legs = [b \in Bookings |-> <<>>]
  /\ alerts = [b \in Bookings |-> {}]
  /\ bounds = [t \in Trips |-> <<0, 0>>]
  /\ receiptTrip = [b \in Bookings |-> None]

-----------------------------------------------------------------------------
(* The first and last day of a trip only ever widen.                       *)
earlier_timestamp(current, candidate) ==
  IF current = 0 THEN candidate ELSE IF candidate # 0 /\ candidate < current THEN candidate ELSE current
later_timestamp(current, candidate) == IF candidate > current THEN candidate ELSE current

expand_trip_bounds_on(t, start) ==
  [bounds EXCEPT ![t] = <<earlier_timestamp(@[1], start), later_timestamp(@[2], start)>>]

(* A live dated booking keeps the reminder for its date and no other; one  *)
(* that is there already keeps its row.                                    *)
delete_travel_booking_reminders_except(start, kept) == {a \in kept : a.due = start}
enqueue_travel_alert_on(t, start, kept) == IF kept = {} THEN {[trip |-> t, due |-> start]} ELSE kept

enqueue_booking_alerts_on(t, start, status, kept) ==
  IF status = "cancelled" \/ start = 0 THEN {}
  ELSE enqueue_travel_alert_on(t, start, delete_travel_booking_reminders_except(start, kept))

(* Mutant: the booking's own row is written last.                          *)
WritesReordered == <<"segment", "bounds", "alerts", "booking">>

(* Which of the writes of a booking entered by hand were done: a failure   *)
(* or a crash may come after each.                                         *)
Writes == <<"booking", "segment", "bounds", "alerts">>

create_booking(b, t) ==
  /\ bookings[b] = None
  /\ \E start \in When, status \in Status, done \in 0..Len(Writes) :
       LET written(table) == \E i \in 1..done : Writes[i] = table
       IN
       /\ bookings' = IF written("booking")
            THEN [bookings EXCEPT ![b] = [trip |-> t, start |-> start, status |-> status, version |-> 1]]
            ELSE bookings
       /\ legs' = IF written("segment")
            THEN [legs EXCEPT ![b] = <<[trip |-> t, start |-> start, status |-> status]>>]
            ELSE legs
       /\ bounds' = IF written("bounds") THEN expand_trip_bounds_on(t, start) ELSE bounds
       /\ alerts' = IF written("alerts")
            THEN [alerts EXCEPT ![b] = enqueue_booking_alerts_on(t, start, status, @)]
            ELSE alerts
  /\ UNCHANGED receiptTrip

(* A receipt with two legs was processed, in one transaction.              *)
ReceiptBooking(b, t) ==
  /\ bookings[b] = None
  /\ \E start \in Days, second \in Days :
       /\ start < second
       /\ bookings' = [bookings EXCEPT ![b] = [trip |-> t, start |-> start, status |-> "confirmed", version |-> 1]]
       /\ legs' = [legs EXCEPT ![b] = <<[trip |-> t, start |-> start, status |-> "confirmed"],
                                        [trip |-> t, start |-> second, status |-> "confirmed"]>>]
       /\ alerts' = [alerts EXCEPT ![b] = enqueue_booking_alerts_on(t, start, "confirmed", @)]
       /\ bounds' = expand_trip_bounds_on(t, start)
  /\ receiptTrip' = [receiptTrip EXCEPT ![b] = t]

-----------------------------------------------------------------------------
(* The bound: how many more versions the bookings may go through.          *)
EditsLeft == MaxEdits - MapThenSumSet(
  LAMBDA b : IF bookings[b] = None THEN 0 ELSE bookings[b].version - 1, Bookings)

(* Only the single leg of a booking follows a change of its dates; its     *)
(* status goes to all of them.                                             *)
LegsEdited(b, start, status) ==
  [i \in DOMAIN legs[b] |->
     [legs[b][i] EXCEPT !.status = status,
                        !.start = IF Len(legs[b]) = 1 /\ start # bookings[b].start THEN start ELSE @]]

edit_booking(b) ==
  /\ bookings[b] # None /\ EditsLeft > 0
  /\ \E expected \in 1..MaxEdits, start \in When, status \in Status :
       /\ expected = bookings[b].version
       /\ start # bookings[b].start => Len(legs[b]) <= 1
       /\ bookings' = [bookings EXCEPT ![b].start = start, ![b].status = status, ![b].version = @ + 1]
       /\ legs' = [legs EXCEPT ![b] = LegsEdited(b, start, status)]
       /\ alerts' = [alerts EXCEPT ![b] = enqueue_booking_alerts_on(bookings[b].trip, start, status, @)]
  /\ UNCHANGED <<bounds, receiptTrip>>

(* PUT of a trip: the owner sets the bounds as they please.                *)
edit_trip(t) ==
  /\ \E dates \in TripDates : /\ dates[1] # 0 /\ dates[2] # 0 => dates[1] <= dates[2]
                             /\ bounds' = [bounds EXCEPT ![t] = dates]
  /\ UNCHANGED <<bookings, legs, alerts, receiptTrip>>

(* A link, shown with the booking, marks it and its legs as changed.       *)
link(b) ==
  /\ bookings[b] # None /\ EditsLeft > 0
  /\ bookings' = [bookings EXCEPT ![b].version = @ + 1]
  /\ UNCHANGED <<legs, alerts, bounds, receiptTrip>>

(* Mutant: moving a booking leaves its legs behind.                        *)
LegsLeft(set, to) == legs

LegsMoved(set, to) ==
  [b \in Bookings |-> IF b \in set THEN [i \in DOMAIN legs[b] |-> [legs[b][i] EXCEPT !.trip = to]] ELSE legs[b]]

AlertsMoved(set, to) ==
  [b \in Bookings |-> IF b \in set THEN {[a EXCEPT !.trip = to] : a \in alerts[b]} ELSE alerts[b]]

(* One booking that is not on the source trip undoes the whole move.       *)
move_bookings(source, to) ==
  /\ source # to
  /\ \E set \in (SUBSET Bookings) \ {{}} :
       /\ \A b \in set : bookings[b] # None /\ bookings[b].trip = source
       /\ Cardinality(set) <= EditsLeft
       /\ bookings' = [b \in Bookings |->
            IF b \in set THEN [bookings[b] EXCEPT !.trip = to, !.version = @ + 1] ELSE bookings[b]]
       /\ legs' = LegsMoved(set, to)
       /\ alerts' = AlertsMoved(set, to)
       /\ receiptTrip' = [b \in Bookings |->
            IF b \in set /\ receiptTrip[b] # None THEN to ELSE receiptTrip[b]]
  /\ UNCHANGED bounds

WorkspaceNext ==
  \/ \E b \in Bookings : edit_booking(b) \/ link(b)
  \/ \E b \in Bookings, t \in Trips : create_booking(b, t) \/ ReceiptBooking(b, t)
  \/ \E t \in Trips : edit_trip(t)
  \/ \E source, to \in Trips : move_bookings(source, to)

WorkspaceSpec == WorkspaceInit /\ [][WorkspaceNext]_workspace_vars

-----------------------------------------------------------------------------
(* What the family sees.                                                   *)

(* public_trip_view_for_share: the rows of one trip.                       *)
ViewLegs(t) == {v \in Bookings \X (1..2) : v[2] \in DOMAIN legs[v[1]] /\ legs[v[1]][v[2]].trip = t}
ViewBookings(t) == {b \in Bookings : bookings[b] # None /\ bookings[b].trip = t}

(* public_calendar: an event for each dated leg, and one for each dated    *)
(* booking none of whose legs is in the view.                              *)
public_calendar(t) ==
  {[booking |-> v[1], leg |-> v[2], start |-> legs[v[1]][v[2]].start, status |-> legs[v[1]][v[2]].status] :
     v \in {w \in ViewLegs(t) : legs[w[1]][w[2]].start # 0}}
  \cup
  {[booking |-> b, leg |-> 0, start |-> bookings[b].start, status |-> bookings[b].status] :
     b \in {c \in ViewBookings(t) : bookings[c].start # 0 /\ \A v \in ViewLegs(t) : v[1] # c}}

(* Every dated booking is in the feed of its own trip and of no other,     *)
(* once, or once a leg, with its date and status - also after a booking    *)
(* entered by hand was written in part, after edits and after moves.       *)
FeedShowsBookings ==
  \A b \in Bookings, t \in Trips :
    LET events == {e \in public_calendar(t) : e.booking = b}
    IN IF bookings[b] = None \/ bookings[b].trip # t \/ bookings[b].start = 0 THEN events = {}
       ELSE /\ events # {} /\ \E e \in events : e.start = bookings[b].start
            /\ Cardinality(events) = IF legs[b] = <<>> THEN 1 ELSE Len(legs[b])
            /\ \A e \in events : e.status = bookings[b].status

(* Whatever fails half-way, nobody is reminded of a cancelled booking, of  *)
(* a date it no longer has, or twice; and the reminder is filed under the  *)
(* trip the booking is on, where members scoped to that trip see it.       *)
RemindersMatch ==
  \A b \in Bookings :
    /\ Cardinality(alerts[b]) <= 1
    /\ \A a \in alerts[b] : a.due = bookings[b].start /\ a.trip = bookings[b].trip
                            /\ bookings[b].status # "cancelled"

(* What the family sees, in the feed and as reminders, is what the         *)
(* bookings say, however many of their rows are written by then.           *)
FamilySees == FeedShowsBookings /\ RemindersMatch
=============================================================================
