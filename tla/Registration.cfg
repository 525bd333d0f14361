SPECIFICATION RegistrationSpec
CONSTANTS
  ConnectionIds = {c1}
  EventIds = {e1}
  Workers = {w1, w2}
  PushTokens = {a}
  RelayCount = 2
  InitialRetryDelay = 1
  MaxRetryDelay = 2
  MaxTime = 3
  MayArriveLate = TRUE
  MaxFaults = 1
  MaxRequeues = 1
  KeyPair <- MCKeyPair
  Limit <- MCZero
  MaximumFee <- MCZero
  CountFees <- MCFalse
  Interval <- MCZero
  ExpiresAt <- MCZero
  MayPay <- MCFalse
INVARIANTS RegistrationTypeOK RevocationSticks
PROPERTIES EventuallyDisabled
CHECK_DEADLOCK FALSE
