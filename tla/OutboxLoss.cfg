SPECIFICATION HealthyBrokerSpec
CONSTANTS
  Msgs = {1}
  Relays = {r1}
  Small = r1
  BatchSize <- MCBatchSize
  MaxAttempts = 5
  FaultKinds = {"nack"}
  MaxFaults = 0
PROPERTY EventuallyStored
