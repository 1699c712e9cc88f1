SPECIFICATION FairSpec
CONSTANTS
  Msgs = {1, 2}
  Relays = {r1, r2}
  Small = r1
  BatchSize <- MCBatchSize
  MaxAttempts = 2
  FaultKinds = {"nack", "lostack", "dberror", "lostcommit", "crash", "cancel"}
  MaxFaults = 2
INVARIANTS TypeOK DuplicatesExplained
PROPERTIES AtLeastOnceDelivery EventuallySettled
