SPECIFICATION FairSpec
CONSTANTS
  Workers = {w1, w2}
  Jobs = {j1}
  NoJob = NoJob
  MaxAttempts = 3
  MaxMsgs = 4
  MaxFaults = 2
  TimelyRenewal = TRUE
CHECK_DEADLOCK FALSE
INVARIANTS TypeOK OneLiveDelivery ExclusiveExecution LeaseHeld
PROPERTIES ImplementsDelivery DeliveriesDrain
