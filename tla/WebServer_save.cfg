CONSTANTS
  Server = "server"
  Tool = "tool"
  Procs = {"server", "tool"}
  EmptyName = ""
  Freed = "freed"
  Names = {"", "day", "hour"}
  Keys = {"tld", "port", "_x", "a/b"}
  HiddenKeys = {"_x"}
  BadKeys = {"a/b"}
  Info = "_info"
  EmptyValue = "nothing"
  Values = {"org"}
  ToolItems <- OneItem
  Recorded <- Hour
  MaxOpen = 2
  MaxCount = 2
SPECIFICATION Spec
CONSTRAINT FewItems
INVARIANT ClosedIsSaved
CHECK_DEADLOCK FALSE
