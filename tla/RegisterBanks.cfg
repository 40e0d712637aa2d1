SPECIFICATION S51Spec
CONSTANTS
  Addr <- MCAddr
  Succ <- MCSucc
  ResetVector = 0
  Source <- MCSource
  ItSources <- MCItSources
  Vector <- MCVector
  Enable <- MCEnable
  EnableOf <- MCEnableOf
  IpBit <- MCIpBit
  PriorityMask <- MCPriorityMask
  ClrBit <- MCClrBit
  PinSource <- MCPinSource
  Raised <- MCRaised
  Rom <- AnyProgram
  Slots = 2
  StopSelfJump = {FALSE, TRUE}
  Poll <- FamilyPoll
  Orders <- FamilyOrders
  Fixed <- PcaSource
  FixedAt = 4
  Top = 2
  RS = {0, 1}
  ChipSize <- ChipSizes
  RegsChip = "iram"
  Begins = {0, 1}
  MaxCommands = 3
  Operands = {0, 1, 127, 128, 255}
  Decimals = {0, 9, 16, 69, 85, 144, 153}
  Digits = 2
  Lines = {0, 1}
  Base = 2
  Prescale = 1
  Loads = {0, 1}
  T2Setups <- SetupsOfT2
  T2Levels <- LevelsOfT2
  MaxEdges = 1
INVARIANT RegsFollowRS
