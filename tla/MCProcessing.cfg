SPECIFICATION Spec
CONSTANTS
  Orders = {a, b}
  Malformed = {b}
  Foreign = {b}
  Workers = {w1, w2}
  Nobody = nobody
  MaxRetries = 1
  MaxCopies = 1
  FaultKinds = {"crash", "dberror", "lostcommit", "lostreply", "blankid"}
  MaxFaults = 1
  MaxEvictions = 1
SYMMETRY WorkerSymmetry
CONSTRAINT ShortLog
INVARIANTS TypeOK CommittedAccounted NoOrderForgotten ReservationsBalanced
  RepeatsExplained
CHECK_DEADLOCK FALSE
