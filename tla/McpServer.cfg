SPECIFICATION Spec
CONSTANTS
  Lines <- ClientLines
  MaxLines = 2
  Limit = 2
  Buffer = 2
  Piece = 2
  Interval = 3
  Idle = 9
  Late = 1
  Sleeps = {2, 7}
  MaxTime = 14
INVARIANTS
  TypeOK
  
  ServedLines
PROPERTIES
  SilentCallEnds
CONSTRAINT Sequential
CHECK_DEADLOCK FALSE
