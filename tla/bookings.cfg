CONSTANTS
  Unit = {u1}
  Rental = {r1, r2}
  Hold = {h1, h2}
  Request = {q1}
  Clerk = {c1, c2}
  Window <- Windows
  Day = {2}
  Edit = {"maintenance"}
  None = None
SYMMETRY Symm
SPECIFICATION BookingsSpec
INVARIANT NeverOverbooked
PROPERTY LeavesInService
