SPECIFICATION FairSpec
CONSTANTS
  FrameBits <- ShortFrames
  FixedDiv = 2
  SlowDiv = 2
  FastDiv = 1
  Base = 2
  Prescale = 2
  Modes = {0, 1}
  Loads = {1}
  Timer1Runs = {FALSE}
  MaxWrites = 2
  MaxInjects = 2
  Duplex = FALSE
INVARIANT UartTypeOK
PROPERTIES UartIsTwoChannels FramesTakeTheirTime FramesEnd
