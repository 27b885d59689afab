\* A worker ends when the code dereferences NULL.
CHECK_DEADLOCK FALSE
SPECIFICATION Spec
CONSTANTS
  Program <- MCProgram
  Packet <- MCPacket
  Port <- MCPort
INVARIANT FieldsHoldTheirValues
INVARIANT KeysMatch
INVARIANT ChecksumsHold
INVARIANT CrashOnlyOnMissingHeader
PROPERTY SentWhereTold
