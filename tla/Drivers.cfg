CONSTANTS
  Size = 3
  Width = 6
  Byte = {b1, b2}
  Junk = Junk
  FifoDepth = 2
  MaxLen = 3
  Channels = {1, 2}
  SHORT = 2
  Periods = {7}
  FIRST_PERIOD = 10
  Percents = {10, 40, 60, 90, 100}
  MaxChanges = 3
  Bits = 3
  FamilyBits = 2
SPECIFICATION DriversSpec
CHECK_DEADLOCK FALSE
INVARIANTS
  PhasesInRange
  DutiesOut
  FoundOnce
PROPERTIES
  QueueSpec
  Drained
