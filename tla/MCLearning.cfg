CONSTANTS
  Cell = {m1, m2}
  Worker = {w1}
  NULL = NULL
  Switch = {s1}
  Mac = {"a1", "a2"}
  Threads = 3
  Script <- MCScript
  Startup <- MCStartup
  MaxReports = 0
  Leaving = {}
  MAX_MACS = 1
  None = None
  P4_BG_QUEUE_SIZE = 2
  MaxMsgs = 4
  MaxDigests = 2
SPECIFICATION BothFairSpec
INVARIANTS
  TablesForwardWhatTheyKnow
PROPERTIES
  AddressLearned
  EveryMessageApplied
  EveryCellReturns
CHECK_DEADLOCK FALSE
