SPECIFICATION BusySpec
CONSTANTS
  Callers = {g1, g2, g3}
  MaxFailures = 2
  HalfOpenSuccesses = 2
INVARIANTS TypeOK ProbeSlot
PROPERTIES Linearizable Recovers
