CONSTANT
  MaxFd = 4
  NumberBuffer = 32
  EmergencyLen = 1024
  SizeEnd = 1048576
  MaxFrames = 64
  PageSize = 4
  IovecsMax = 3
  LongSize = 2
  AddressEnd = 64
  MachineRegs = {0, 4, 5, 7, 13, 14, 15}
  WordBits = 12
  WordBytes = 4
  StackMax = 4
  OpsMax = 10
  Calls <- MCCalls

SPECIFICATION LogSpec

INVARIANT FailsOnlyWithExcuse
INVARIANT DescriptorsAccounted
INVARIANT FormatFits
INVARIANT LocalTimeRight
INVARIANT BacktraceStaysInside
INVARIANT ReadExact
INVARIANT ExpressionEnds
