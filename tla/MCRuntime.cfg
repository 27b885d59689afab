SPECIFICATION RuntimeSpec
CONSTANTS
  Element = {m1, m2}
  Consumer = {c1, c2}
  P4_BG_QUEUE_SIZE = 3
  None = None
  queue_size = 5
INVARIANTS
  RingInv
  WakeupsKeepUp
  ListsPartitionCells
  BackLinks
PROPERTIES
  ImplementsBoundedQueue
  EventuallyRemoved
  ImplementsCellPool
