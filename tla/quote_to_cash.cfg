CONSTANTS
  Booking = {b1}
  None = None
  NQuote = 2
  Seat = {s1, s2}
  NPayment = 1
  NWeekly = 1
  Till = {t1, t2}
SYMMETRY Symm
SPECIFICATION PaymentsSpec
INVARIANT ChargedPriceAgreed
PROPERTY AcceptedKept
