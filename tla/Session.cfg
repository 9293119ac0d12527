SPECIFICATION FairSessionSpec
CONSTANTS
  open1 = open1
  open2 = open2
  change = change
  look = look
  SOL = SOL
  Calls = {open1, open2, change, look}
  Requests <- MCRequests
  Markets = {SOL}
  Prices = {6, 14}
  Targets = {14}
  InitialBalance = 12
  Slippage = 1
  FeePercent = 20
  MarginPercent = 20
  Leverages = {1, 2, 3}
  Dust = 2
  call1 = call1
  call2 = call2
  main = main
  other = other
  longSOL = longSOL
  shortBTC = shortBTC
  garbled = garbled
  Slots = {call1, call2}
  Wallets = {main, other}
  Entries = {longSOL, shortBTC, garbled}
  Corrupt = {garbled}
  Open <- MCOpen
  Cycles = 3
  c1 = c1
  c2 = c2
  small = small
  large = large
  usdc = usdc
  sol = sol
  Commands = {c1, c2}
  Args = {small, large}
  Tokens = {usdc, sol}
  Default = usdc
  Tasks <- MCTasks
  Configs <- MCConfigs
  Nothing = Nothing
INVARIANTS
  PaperTypeOK
  Conservation
  Solvent
  PlanIsCurrent
  ReconcilerTypeOK
  MagicTypeOK
  EffectOnce
  SignatureMatches
  SentOnceAMinute
PROPERTIES
  CallsEnd
  ShrinksAfterCycles
  Converges
CHECK_DEADLOCK FALSE
