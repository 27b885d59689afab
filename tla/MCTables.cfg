CONSTANTS
  Worker = {w1, w2}
  Table <- MCTable
  Kind <- MCKind
  First = "dmac_classifier"
  NextTable <- MCNextTable
  Keyless = {"uplink"}
  Preset <- MCPreset
  Width = 2
  Octet = 1
  Packet <- MCPacket
  Script <- MCScript
  None = None
SPECIFICATION Spec
INVARIANTS
  TablesFollowUpdates
  UndisturbedActsRight
  FreedOnlyByReset
CONSTRAINT FirstUpdateLast
SYMMETRY Symmetry
CHECK_DEADLOCK FALSE
