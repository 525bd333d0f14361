SPECIFICATION DeliverySpec
CONSTANTS
  e1 = e1
  e2 = e2
  EventIds = {e1, e2}
  Invoices = {e1}
  MaxPendingRequests = 1
  MaximumRetryAttempts = 1
  Casts <- MCCasts
INVARIANTS ContentDeliveredOnce WakeNotForgotten
PROPERTIES MonitoringEnds
CHECK_DEADLOCK FALSE
