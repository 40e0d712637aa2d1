SPECIFICATION ListSpec
CONSTANTS
  Poll <- FamilyPoll
  Orders <- Orders15W
  Fixed <- PcaSource
  FixedAt = 4
INVARIANT SortedByPoll
CHECK_DEADLOCK FALSE
