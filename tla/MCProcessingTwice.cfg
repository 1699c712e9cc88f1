SPECIFICATION Spec
CONSTANTS
  Orders = {a}
  Malformed = {}
  Foreign = {}
  Workers = {w1}
  Nobody = nobody
  MaxRetries = 1
  MaxCopies = 1
  FaultKinds = {"crash"}
  MaxFaults = 1
  MaxEvictions = 0
INVARIANTS OncePerRecord
CHECK_DEADLOCK FALSE
