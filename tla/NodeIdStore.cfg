CONSTANTS
  NodeIds = {1, 2, 3}
  BadId = 0
  Default = 1
  Absent = Absent
  Nothing = Nothing

SPECIFICATION IdSpec

INVARIANT UnsavedNeverActive
INVARIANT BeliefTrue
