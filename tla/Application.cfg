SPECIFICATION ApplicationSpec
CONSTANTS
  ConnectionIds = {"c1", "c2"}
  EventIds = {e1}
  Workers = {w1, w2}
  PushTokens = {a, b}
  RelayCount = 1
  InitialRetryDelay = 1
  MaxRetryDelay = 2
  MaxTime = 2
  MayArriveLate = FALSE
  MaxFaults = 0
  MaxRequeues = 0
  KeyPair <- MCKeyPair
  Limit <- MCZero
  MaximumFee <- MCZero
  CountFees <- MCFalse
  Interval <- MCZero
  ExpiresAt <- MCExpiresAt
  MayPay <- MCFalse
  MaximumLifetime = 3
  MaximumBudget = 1000
  MaximumRelays = 2
  MinimumRetryDelay = 1
  FailedPause = 1
  Casts <- MCCasts
INVARIANTS  PassesSerialized GrantedAsShown CallbackNotReplaced ConnectionHasSecret InfoEventsCurrent
PROPERTIES  RevokedSecretDeleted
CHECK_DEADLOCK FALSE
