SPECIFICATION FairSpec
CONSTANTS
  Orders = {a}
  Malformed = {}
  Foreign = {}
  Workers = {w1, w2}
  Nobody = nobody
  MaxRetries = 1
  MaxCopies = 1
  FaultKinds = {"publish", "cancel"}
  MaxFaults = 1
  MaxEvictions = 1
INVARIANTS RepeatsExplained ReservationsBalanced NoneSkipped
CONSTRAINT ShortAfterFault
PROPERTY EveryOrderSettled
CHECK_DEADLOCK FALSE
