\* The revocations are not announced.
CONSTANTS
  Partitions = {p1, p2}
  MaxOffset = 2
  BufSize = 1
  CommitCap = 3
  MaxMoves = 1
  Modes = {FALSE}
SPECIFICATION Spec
PROPERTY RebalanceSafe
CHECK_DEADLOCK FALSE
