CONSTANTS
  Arguments <- MCArguments
  Capabilities <- MCCapabilities
  MAX_PKTIOS = 4
  MAC_MAX_LCORE = 3
  None = None
  MAX_PKT_BURST = 2
  EgressPort <- MCEgressPort
  MaxPackets = 4
SPECIFICATION Spec
INVARIANTS
  QueuesAreServed
  WorkersHaveOwnCpu
  NothingWaits
  PoolBalance
CHECK_DEADLOCK FALSE
