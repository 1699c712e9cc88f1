SPECIFICATION Spec
CONSTANTS
  Callers = {g1, g2}
  MaxFailures = 1
  HalfOpenSuccesses = 1
PROPERTY ClosedByProbe
