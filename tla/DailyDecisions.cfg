SPECIFICATION FairSpec
CONSTANTS
  Days = 1
  Procs = {p1, p2}
  Urgent = {p1}
  MaxDeep = 1
  Prints = {f1}
  NoPrint = NoPrint
  MaxDecisions = 2
  MaxFaults = 1
  Devices = {d1}
  Notices <- MCNotices
INVARIANTS TypeOK NotifiedOncePerFault
PROPERTIES ReportStands DecisionApplied
