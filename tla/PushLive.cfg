SPECIFICATION FairSpec
CONSTANTS
  browser = browser
  phone = phone
  guest = guest
  gate = gate
  delay = delay
  checkin = checkin
  Test = Test
  None = None
  Procs = {p1}
  Devices = {phone}
  Members = {guest}
  Alerts = {gate}
  Testers = {phone}
  MemberOf <- MCMemberOf
  ScopeOf <- MCScopeOf
  Lease = 2
  Ttl = 3
  TestTtl = 1
  RetryLimit = 1
  Limit = 2
  SendLimit = 1
  DbLimit = 0
  RunLimit = 2
  LastAlert = 0
  MaxTime = 5
  MaxFaults = 1
PROPERTY EventuallySettled
CHECK_DEADLOCK FALSE
