\* A stable group and enough records to fill every channel.
CONSTANTS
  Partitions = {p1, p2}
  MaxOffset = 3
  BufSize = 1
  CommitCap = 3
  MaxMoves = 0
  Modes = {TRUE}
SPECIFICATION Spec
INVARIANT NeverStuck
PROPERTIES ShutdownEnds DispatchedIsHandled
CHECK_DEADLOCK FALSE
