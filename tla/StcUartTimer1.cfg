SPECIFICATION FairSpec
CONSTANTS
  FrameBits <- ShortFrames
  FixedDiv = 1
  SlowDiv = 2
  FastDiv = 1
  Base = 2
  Prescale = 1
  Modes = {1}
  Loads = {1}
  Timer1Runs = {FALSE, TRUE}
  MaxWrites = 1
  MaxInjects = 0
  Duplex = FALSE
PROPERTY Timer1Clocks
