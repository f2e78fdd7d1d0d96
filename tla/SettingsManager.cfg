SPECIFICATION Spec
CONSTANTS
  Versions <- TwoVersions
  CurrentVersion = 1
  Absent = Absent
  Garbage = Garbage
  None = None
  MaxCrashes = 3
INVARIANTS
  RepliesAreTrue
PROPERTIES
  StartsAgain
CHECK_DEADLOCK FALSE
