CONSTANTS
  Company = {k1}
  Field = {"tin"}
  DocType = {"government_id", "bir_cor"}
  Tin = {n1, n2}
  Tab = {w1}
  Desk = {r1}
  NDoc = 3
  MaxUnlock = 1
SPECIFICATION Spec
SYMMETRY Symmetry
INVARIANTS VerifiedWasChecked VouchedTin HandedBackLocked
