SPECIFICATION FairSpec
CONSTANTS
  WindowSize = 5
  MinSamples = 3
  RateNum = 2
  RateDen = 5
  ConsecutiveThreshold = 2
  Cooldown = 2
  MaxCooldown = 4
  open1 = open1
  close1 = close1
  cancel2 = cancel2
  cancel3 = cancel3
  reverse2 = reverse2
  longSOL = longSOL
  shortETH = shortETH
  Trades = {open1, close1, cancel2, cancel3}
  Keys = {longSOL, shortETH}
  KeyOf <- KeyOfTrades
  Locking = {open1, close1}
  Reversals = {}
  ManualReset = TRUE
INVARIANTS
  TypeOK
  TradeMutex
PROPERTIES
  LocksReleased
  AdmissionsResume
  ImplementsGate
