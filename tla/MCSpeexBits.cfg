SPECIFICATION Spec
CONSTANTS
  C = 3
  MaxChars = 2
  Widths = {1, 2}
  Packets <- MCPackets
  MaxBits = 7
INVARIANTS
  RoomToWrite
PROPERTIES
  IsBitQueue
CHECK_DEADLOCK FALSE
