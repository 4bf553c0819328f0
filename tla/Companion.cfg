SPECIFICATION FairSpec
CONSTANTS
  stay = stay
  visa = visa
  other = other
  home = home
  away = away
  timer = timer
  wake = wake
  Nothing = Nothing
  Deleted = Deleted
  Items = {visa, other}
  Servers = {home, away}
  Triggers = {timer, wake}
  Contents = {1, 2}
  Undatable = {2}
  KindOf <- MCKindOf
  ServerOf <- MCServerOf
  MaxNative = 6
  MaxChanges = 1
  MaxEdits = 2
  MaxFaults = 2
  MaxSettings = 1
INVARIANTS TypeOK MirroredOnce
PROPERTIES NeitherSideLost EventuallyMirroredOrReported
CHECK_DEADLOCK FALSE
