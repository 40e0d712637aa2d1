SPECIFICATION FairSpec
CONSTANTS
  Addr <- MCAddr
  Succ <- MCSucc
  ResetVector = 0
  Source <- MCSource
  ItSources <- MCItSources
  Vector <- MCVector
  Enable <- MCEnable
  EnableOf <- MCEnableOf
  IpBit <- MCIpBit
  PriorityMask <- MCPriorityMask
  ClrBit <- MCSource
  PinSource <- MCPinSource
  Raised <- MCRaised
  Rom <- MCRom
  Slots = 5
  StopSelfJump = {FALSE}
INVARIANT ReturnsPair
PROPERTIES TransparentInterrupts ProgramsGetOn PinWakesIdle
