CONSTANTS
  Program <- MCProgram
  Sends <- MCSends
  Tables <- MCTables
  MaxLength = 2048
SPECIFICATION Spec
INVARIANTS
  Framing
  RoundTrip
  RulesInstalled
