SPECIFICATION Spec
CONSTANTS
  Sizes <- MCSizes
  Window = 3
INVARIANTS AddedIsRead ReadsOnlyAdded
CHECK_DEADLOCK FALSE
