CONSTANTS
  Procs = {"p", "q"}
  Modules = {"m", "n", "long"}
  Available = {"m"}
  Installed = {"m", "long"}
  LongNames = {"long"}
  MaxUpdates = 3
  MaxCommands = 3
SPECIFICATION Spec
INVARIANTS UpdateIsRead EverySlotRegistered LoadsWhatIsEnabled
PROPERTIES LoadEnds
CHECK_DEADLOCK FALSE
