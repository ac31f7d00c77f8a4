CONSTANT
  MachineRegs = {0, 4, 5, 7, 13, 14, 15}
  RuleRegs = {0, 4, 5, 7, 13, 14, 15}
  RegOrder <- MCRegOrder
  SpReg = 13
  PcReg = 15
  WordBits = 12
  WordBytes = 4
  StackMax = 4
  OpsMax = 10
  HeaderSize = 16
  Jobs <- MCJobs
  Pcs = {1, 2, 3, 4}
  Sps = {5, 6}
  DeviceSps = {6}
  FramesMax = 4
  Place <- MCPlace

SPECIFICATION UnwinderSpec

INVARIANT FoundLastBefore
INVARIANT LinkedAddress
INVARIANT CallerRestored
INVARIANT FramesLinked
INVARIANT GuessesConfirmed
PROPERTY WalkEnds
