SPECIFICATION Spec
CONSTANTS
  Cell = {m1, m2}
  Worker = {w1}
  P4_BG_QUEUE_SIZE = 2
  NULL = NULL
  Kinds = {"valid", "header_only"}
  MaxMsgs = 1
  MaxDigests = 1
INVARIANT
  ClosesOnlyAtEnd
CHECK_DEADLOCK FALSE
