SPECIFICATION LedgerSpec
CONSTANTS
  ConnectionIds = {c1}
  EventIds = {e1, e2}
  Hashes = {h1, h2}
  Principals = {0, 1, 2}
  SettledMsat = {1000, 1001}
  FeeMsat = {0, 1}
  Processes = {p1, p2}
  Tokens = {k1, k2, k3, k4}
  Nobody = Nobody
  Leases = {1, 2}
  RetryDelay = 1
  Responses = {"result"}
  MaxTime = 2
  LimitValue = 4
  FeeValue = 1
  IntervalValue = 2
  KeyPair <- MCKeyPair
  Limit <- MCLimit
  MaximumFee <- MCMaximumFee
  CountFees <- MCCountFees
  Interval <- MCInterval
  ExpiresAt <- MCExpiresAt
  MayPay <- MCMayPay
SYMMETRY MCSymmetry
INVARIANTS AccountingTypeOK BudgetIsSumOfDebits OneAttemptPerHash ClaimsTypeOK ExclusiveLease
PROPERTIES LimitExceededOnlyBySettlement ImplementsLifecycle ImplementsEventLifecycle
CHECK_DEADLOCK FALSE
