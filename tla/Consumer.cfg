\* One rebalance or eviction, with and without announced revocations.
CONSTANTS
  Partitions = {p1, p2}
  MaxOffset = 2
  BufSize = 1
  CommitCap = 3
  MaxMoves = 1
  Modes = {TRUE, FALSE}
SPECIFICATION Spec
INVARIANTS TypeOK NothingStranded
PROPERTIES CommitsWhatIsHandled NeverRewinds HandsOverDrained
CHECK_DEADLOCK FALSE
