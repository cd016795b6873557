SPECIFICATION Spec
CONSTANTS
  Capacity = 5
  Readings = {1, 3, 4}
  Default = 2
  MaxLines = 6
INVARIANTS
  TypeOK
  WholeReference
  ModesHalve
  UpperModeEmpty
  DistinctIsFitted
CHECK_DEADLOCK FALSE
