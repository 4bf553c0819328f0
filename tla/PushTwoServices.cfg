SPECIFICATION Spec
CONSTANTS
  browser = browser
  phone = phone
  guest = guest
  gate = gate
  delay = delay
  checkin = checkin
  Test = Test
  None = None
  Procs = {p1, p2}
  Devices = {browser}
  Members = {guest}
  Alerts = {gate, delay, checkin}
  Testers = {}
  MemberOf <- MCMemberOf
  ScopeOf <- MCScopeOf
  Lease = 2
  Ttl = 5
  TestTtl = 2
  RetryLimit = 4
  Limit = 3
  SendLimit = 1
  DbLimit = 0
  RunLimit = 9
  LastAlert = 0
  MaxTime = 3
  MaxFaults = 0
INVARIANT NoConcurrentSend
CHECK_DEADLOCK FALSE
