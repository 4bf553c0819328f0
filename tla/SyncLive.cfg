SPECIFICATION FairSpec
CONSTANTS
  None = None
  Sweepers = {s1}
  Noise <- MCNoise
  Poison <- MCPoison
  Limit = 1
  MaxAttempts = 2
  MaxMail = 3
  MaxEpoch = 2
  MaxRescans = 1
  MaxFaults = 3
INVARIANT QuarantineEarned
PROPERTY HistoryResolved
