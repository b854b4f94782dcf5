CONSTANTS
  Price = {1, 2, 3}
  Tx = {t1, t2}
  NInvoice = 2
SPECIFICATION Spec
INVARIANTS ChargedWithinOk PaidOnce
PROPERTY CancelledStays
