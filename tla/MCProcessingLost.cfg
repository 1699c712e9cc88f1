SPECIFICATION Spec
CONSTANTS
  Orders = {a}
  Malformed = {}
  Foreign = {}
  Workers = {w1}
  Nobody = nobody
  MaxRetries = 1
  MaxCopies = 1
  FaultKinds = {"publish"}
  MaxFaults = 1
  MaxEvictions = 0
INVARIANTS CommittedAccounted
CHECK_DEADLOCK FALSE
