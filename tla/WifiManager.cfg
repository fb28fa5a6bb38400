CONSTANTS
  Creds = {home, cafe}
  None = None
  MaxSteps = 3
  MaxFaults = 1
SPECIFICATION Spec
INVARIANTS
  AppliedPairBoots
  AppliedIsJoined
PROPERTY AttemptsContinue
CHECK_DEADLOCK FALSE
