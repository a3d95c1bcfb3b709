SPECIFICATION Spec
CONSTANTS
  Workers = {w1, w2}
  Jobs = {j1}
  NoJob = NoJob
  MaxAttempts = 2
  MaxMsgs = 2
  MaxFaults = 0
  TimelyRenewal = TRUE
CHECK_DEADLOCK FALSE
PROPERTIES ExhaustedJobStaysFailed
