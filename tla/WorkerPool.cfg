SPECIFICATION Spec
CONSTANTS
  Workers = 2
  NoConn = none
  Conns = {c1, c2, c3}
  Locking = {c1, c2}
INVARIANTS InOnePlace FreedWhenQuiet
PROPERTIES  StopEnds
CHECK_DEADLOCK FALSE
