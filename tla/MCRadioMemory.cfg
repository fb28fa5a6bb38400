CONSTANTS
  home = home
  cafe = cafe
  NoCred = NoCred
  Missing = Missing
  NoSlot = NoSlot
  Creds = {home, cafe}
  Ssid <- MCSsid
  Legacy = {home}
  MemorySlots = 1
  MaxBacklog = 1
  MaxFaults = 1
  MaxSteps = 3

SPECIFICATION MCSpec

INVARIANTS
  RestartFindsMemory
  SavedDecodes
  MigrationKeeps
  OneScanAtATime
PROPERTIES
  RememberedIsProven
  RememberedIsWanted
  Reconnects
