SPECIFICATION DeliverySpec
CONSTANTS
  e1 = e1
  e2 = e2
  EventIds = {e1, e2}
  Invoices = {e1}
  MaxPendingRequests = 1
  MaximumRetryAttempts = 1
  Casts <- MCOneCut
INVARIANT QueuedWorkReplayed
CHECK_DEADLOCK FALSE
