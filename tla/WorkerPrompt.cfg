SPECIFICATION FairPromptSpec
CONSTANTS
  Workers = {w1, w2}
  Jobs = {j1, j2}
  NoJob = NoJob
  MaxAttempts = 2
  MaxMsgs = 5
  MaxFaults = 1
  TimelyRenewal = TRUE
CHECK_DEADLOCK FALSE
INVARIANTS NoStrandedJob
PROPERTIES DeliveryRunsOnce ExhaustedJobStaysFailed JobSettles
