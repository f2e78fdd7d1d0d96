SPECIFICATION FairSpec
CONSTANTS
  Targets = {a}
  Messages = {m1, cut}
  Legacy = {old}
  Big = Big
  Unsafe = Unsafe
  Absent = Absent
  Users = {u1}
  Cut = cut
  None = None
  Visits <- MCVisits
  Foreign <- MCForeign
  MaxRequests = 2
  MaxVisits = 1
  MaxOutside = 1
  MaxDeaths = 1
INVARIANTS
  ChangesInv
  AppliedOnce
  PagesAreTrue
  
  AnsweredMeansOrdered
PROPERTIES
  EveryRequestEnds
CHECK_DEADLOCK FALSE
