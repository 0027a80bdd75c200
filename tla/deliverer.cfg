CONSTANTS
  a = a
  b = b
  p = p
  NoPayload = NoPayload
  Deliveries = {a, b}
  Payloads = {p}
  MaxAttempts = 5
SPECIFICATION DelivererSpec
INVARIANT AttemptsAccounted
PROPERTIES NoPostAfterReturn DeliverReturns
CHECK_DEADLOCK FALSE
