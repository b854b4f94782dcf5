CONSTANTS
  Unit = {u1}
  Rental = {r1, r2}
  Hold = {h1, h2}
  Request = {}
  Clerk = {c1, c2}
  Window <- OneWindow
  Day = {2}
  Edit = {}
  None = None
SPECIFICATION BookingsSpec
INVARIANT NeverDoubleBooked
