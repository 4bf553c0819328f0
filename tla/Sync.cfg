SPECIFICATION Spec
CONSTANTS
  None = None
  Sweepers = {s1, s2}
  Noise = {}
  Poison <- MCPoison
  Limit = 1
  MaxAttempts = 2
  MaxMail = 2
  MaxEpoch = 2
  MaxRescans = 1
  MaxFaults = 1
SYMMETRY Symmetric
INVARIANTS TypeOK CursorHonest
PROPERTY CursorAdvances
