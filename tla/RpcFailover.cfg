SPECIFICATION Spec
CONSTANTS
  u1 = u1
  u2 = u2
  u3 = u3
  Urls = {u1, u2, u3}
  Starts <- MCStarts
  MaxChanges = 3
  MaxTrades = 1
  MaxEdits = 1
  None = None
INVARIANTS
  TypeOK
  ActiveIsConnected
PROPERTIES
  NoFalseAlarm
  Recovers
CHECK_DEADLOCK FALSE
