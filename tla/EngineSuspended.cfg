SPECIFICATION EngineSafety
CONSTANTS
  ConnectionIds = {c1}
  EventIds = {e1}
  Processes = {p1, p2}
  Tokens = {k1, k2, k3}
  Nobody = Nobody
  External = External
  Hashes = {h1}
  Principals = {2}
  SettledMsat = {2000}
  FeeMsat = {1}
  Leases = {1}
  RetryDelay = 1
  Responses = {"result", "error"}
  MaxTime = 0
  SettledFee = 1
  LimitValue = 3
  Casts <- MCSuspended
  KeyPair <- MCKeyPair
  Limit <- MCLimit
  MaximumFee <- MCMaximumFee
  CountFees <- MCCountFees
  Interval <- MCZero
  ExpiresAt <- MCZero
  MayPay <- MCMayPay
SYMMETRY MCSymmetry
INVARIANT EveryPaymentIsDebited
CHECK_DEADLOCK FALSE
