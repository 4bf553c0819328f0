SPECIFICATION Spec
CONSTANTS
  Contents = {hello, bye}
  Actors = {sweep, cli}
  None = None
  MaxRevision = 1
  MaxClaims = 3
  MaxFaults = 1
INVARIANTS TypeOK 
PROPERTIES HeldNotSwept KeepsPromise
SYMMETRY Symmetric
