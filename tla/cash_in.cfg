CONSTANTS
  Booking = {b1}
  None = None
  NQuote = 1
  Seat = {s1}
  NPayment = 2
  NWeekly = 1
  Till = {t1, t2}
SPECIFICATION PaymentsFairSpec
INVARIANT PaidByMoney
PROPERTIES CollectedSettles RefundShown
