SPECIFICATION Spec
CONSTANTS
  Days = 2
  Procs = {p1, p2}
  Urgent = {}
  MaxDeep = 1
  Prints = {f1, f2}
  NoPrint = NoPrint
  MaxDecisions = 0
  MaxFaults = 1
  Devices = {}
  Notices <- MCNotices
INVARIANTS CapKept DuplicateIsKnown EndedIsSettled
