SPECIFICATION Spec
CONSTANTS
  s1 = s1
  s2 = s2
  r1 = r1
  r2 = r2
  paris = paris
  tokyo = tokyo
  b1 = b1
  b2 = b2
  Members = {m1}
  Trips = {paris, tokyo}
  Tasks = {pack}
  Sessions = {s1, s2}
  Codes = {code}
  Shares = {share}
  Requests = {r1, r2}
  Owner = Owner
  None = None
  SessionLife = 1
  HandoffLife = 1
  MaxHandoffs = 1
  MaxClock = 1
  MaxChanges = 1
  Bookings = {b1, b2}
  Days = {1, 2}
  MaxEdits = 3
  TripDates <- NoDates
  Scopes = {{paris}, {tokyo}}
  Place <- SomePlaces
  Reservations <- SomeReservations
  Legacies <- SomeLegacies
  MaxBookings = 2
  MaxAmendments = 1
SYMMETRY Symmetric
INVARIANTS TypeOK CapabilitySpentOnce 
PROPERTIES RevokedStaysOut ChangesAreEntitled
CHECK_DEADLOCK FALSE
