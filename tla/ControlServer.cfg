SPECIFICATION Spec
CONSTANTS
  Calls = {c1, c2, c3}
  Nobody = Nobody
  Requests = {"alert", "settings", "rejected"}
  Backlog = 2
  MaxStarts = 2
SYMMETRY Symmetry
INVARIANTS
  AuditInv
  ExecutedInOrder
  AnswersAreTrue
  StoreOutlivesRequests
CHECK_DEADLOCK FALSE
