CONSTANTS
  Creds = {home, cafe}
  None = None
  MaxSteps = 0
  MaxFaults = 0
SPECIFICATION Spec
PROPERTY ConnectingTries
CHECK_DEADLOCK FALSE
