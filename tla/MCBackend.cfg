SPECIFICATION Spec
CONSTANTS
  Cell = {m1, m2, m3}
  Worker = {w1}
  P4_BG_QUEUE_SIZE = 3
  NULL = NULL
  Kinds = {"valid", "rejected", "unknown", "header_only", "too_long"}
  MaxMsgs = 2
  MaxDigests = 3
INVARIANTS
  TypeOK
  OneOwner
  QueuesHaveRoom
  LossesAccountedFor
  MessagesInOrder
  DigestsInOrder
SYMMETRY Symmetry
CHECK_DEADLOCK FALSE
