SPECIFICATION Spec
CONSTANTS
  t1 = t1
  t2 = t2
  t3 = t3
  Commands = {t1, t2, t3}
  Sessions <- MCSessions
  Wallets = {home, other}
  Home = home
  Registered = {home}
  MaxExposure = 1
  Limits <- MCLimits
  None = None
INVARIANTS
  TypeOK
  ConfirmedAfterShown
  OneExecution
  LimitsHold
  ExposureHolds
  SignedAsShown
PROPERTIES
  CommandsEnd
CHECK_DEADLOCK FALSE
