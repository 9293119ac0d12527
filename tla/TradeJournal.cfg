SPECIFICATION Spec
CONSTANTS
  t1 = t1
  t2 = t2
  t3 = t3
  Trades <- MCTrades
  MaxEntries = 2
  MaxCrashes = 1
SYMMETRY Symmetry
CHECK_DEADLOCK FALSE
INVARIANTS
  TypeOK
  ConfirmedLanded
  WrittenAhead
  NoLeftovers
