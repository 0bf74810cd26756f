SPECIFICATION Spec
CONSTANTS
  MaxHuman = 3
  MaxWarnings = 2
  MaxWarningBytes = 4
  MarkerBytes = 1
  Sizes = {1, 3}
  OwnSize = 2
  MaxAsks = 2
INVARIANTS
  TypeOK
  TurnOnOwnThread
  HandoffTaken
  WarningsAccounted
CHECK_DEADLOCK FALSE
