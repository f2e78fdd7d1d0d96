SPECIFICATION FairSpec
CONSTANTS
  Calls = {c1, c2}
  Nobody = Nobody
  Requests = {"read", "alert", "settings", "rejected", "garbage"}
  Backlog = 2
  MaxStarts = 1
PROPERTIES
  QueueDrains
  StopCompletes
CHECK_DEADLOCK FALSE
