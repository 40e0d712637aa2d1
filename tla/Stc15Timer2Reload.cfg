SPECIFICATION Timer2Spec
CONSTANTS
  Base = 4
  Prescale = 3
  Loads = {0, 2, 3}
PROPERTY ReloadsItsStart
