\* Two workers and a connection more than workers.
CONSTANTS
  Workers = {w1, w2}
  Requests = {r1}
  Relay = Relay
  MaxConns = 3
  Buffer = 1
SPECIFICATION Spec
INVARIANTS TypeOK PoolNeverStuck ReleasedLast
PROPERTIES NestedServed Stops
CHECK_DEADLOCK FALSE
