CONSTANTS
  Periods = {0, 1, 2}
  DefaultPeriod = 2
  NameBytes = 2
  SegmentBytes = 2
  Timeout = 1
  MaxLate = 2
  NotIndicated = NotIndicated

SPECIFICATION FairSpec
CHECK_DEADLOCK FALSE

INVARIANT Punctual
PROPERTY HeartbeatsContinue
PROPERTY NetworkLearnsState
PROPERTY TransferEnds
