SPECIFICATION RegistrationSafety
CONSTANTS
  ConnectionIds = {c1}
  EventIds = {e1}
  Workers = {w1}
  PushTokens = {a, b}
  RelayCount = 1
  InitialRetryDelay = 1
  MaxRetryDelay = 2
  MaxTime = 3
  MayArriveLate = FALSE
  MaxFaults = 0
  MaxRequeues = 1
  KeyPair <- MCKeyPair
  Limit <- MCZero
  MaximumFee <- MCZero
  CountFees <- MCFalse
  Interval <- MCZero
  ExpiresAt <- MCZero
  MayPay <- MCFalse
SYMMETRY MCSymmetry
INVARIANTS RotationNotLost
CHECK_DEADLOCK FALSE
