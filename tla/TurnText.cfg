SPECIFICATION Spec
CONSTANTS
  mine = mine
  other = other
  NoTurn = NoTurn
  Refused = Refused
  NoResponse = NoResponse
  Turns = {mine, other}
  Events <- TextEvents
  Responses = {mine}
  MaxText = 4
  MaxEvents = 5
INVARIANTS
  TextIsTheTurns
CHECK_DEADLOCK FALSE
