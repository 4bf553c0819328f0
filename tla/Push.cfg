SPECIFICATION Spec
CONSTANTS
  browser = browser
  phone = phone
  guest = guest
  gate = gate
  delay = delay
  checkin = checkin
  Test = Test
  None = None
  Procs = {p1, p2}
  Devices = {phone}
  Members = {guest}
  Alerts = {gate}
  Testers = {phone}
  MemberOf <- MCMemberOf
  ScopeOf <- MCScopeOf
  Lease = 2
  Ttl = 2
  TestTtl = 1
  RetryLimit = 1
  Limit = 2
  SendLimit = 1
  DbLimit = 1
  RunLimit = 1
  LastAlert = 0
  MaxTime = 3
  MaxFaults = 1
SYMMETRY Symmetric
INVARIANTS TypeOK SendsOwned
PROPERTY NothingStale
CHECK_DEADLOCK FALSE
