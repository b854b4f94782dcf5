CONSTANTS
  Unit = {u1, u2}
  Rental = {r1}
  Hold = {h1, h2}
  Request = {}
  Clerk = {c1, c2}
  Window <- OneWindow
  Day = {2}
  Edit = {}
  None = None
SPECIFICATION BookingsFairSpec
PROPERTIES BookingRequestsEnd
