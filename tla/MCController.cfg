CONSTANTS
  Switch = {"s1", "s2"}
  Mac = {"m1"}
  Threads = 3
  Script <- MCScript
  Startup <- MCStartup
  P4_BG_QUEUE_SIZE = 3
  MaxReports = 2
  Leaving = {"s1"}
  MAX_MACS = 1
  None = None
SPECIFICATION FairSpec
INVARIANTS
  EveryMessageInOnePlace
  HandledOneByOne
  KnownIsForwardable
PROPERTIES
  ReportedIsLearned
CHECK_DEADLOCK FALSE
