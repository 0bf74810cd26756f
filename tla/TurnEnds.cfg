SPECIFICATION FairSpec
CONSTANTS
  mine = mine
  other = other
  NoTurn = NoTurn
  Refused = Refused
  NoResponse = NoResponse
  Turns = {mine, other}
  Events <- UsageAndEndEvents
  Responses = {mine, NoTurn, Refused}
  MaxText = 2
  MaxEvents = 4
INVARIANTS
  DoneClosedOnce
PROPERTIES
  UsageIsTheTurns
  CompletedTurnReturned
  ReviewReturns
CHECK_DEADLOCK FALSE
