SPECIFICATION TimersSpec
CONSTANTS
  Ids = {0, 1}
  Base = 4
  Low = 2
  Prescale = 2
  Modes = {0, 1, 2, 3}
  Counters = {FALSE, TRUE}
  Loads = {0, 3}
  Flags = {{}}
  Levels <- Pins
  MaxEdge = 1
INVARIANTS TimersTypeOK CountsAdd
PROPERTIES OverflowPeriod EveryEdgeCountsOnce KeepsOverflowing BaudTickEndsPeriod
