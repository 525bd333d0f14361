SPECIFICATION NotificationsSpec
CONSTANTS
  ConnectionIds = {c1}
  EventIds = {1, 2, 3, 4}
  InvoiceRequests = {1, 2}
  PaymentRequests = {3, 4}
  ConnectionOf <- MCConnectionOf
  RelayCount = 2
  Engines = {p1, p2}
  Workers = {w1, w2}
  p1 = p1
  p2 = p2
  w1 = w1
  w2 = w2
  Casts <- MCCasts
  BatchSize = 1
  Lifetime = 1
  Grace = 2
  MaxWalletInvoices = 3
  MaxTime = 3
  KeyPair <- MCKeyPair
  Limit <- MCZero
  MaximumFee <- MCZero
  CountFees <- MCFalse
  Interval <- MCZero
  ExpiresAt <- MCZero
  MayPay <- MCFalse
INVARIANTS NotificationsTypeOK OneEventPerRequest CompletedIsEverywhere PaidInvoiceIsTracked NotifiedOnlyIfPaid
PROPERTIES EventuallyNotified EventuallyReported
CHECK_DEADLOCK FALSE
