CONSTANTS
  p1 = p1  d1 = d1  d2 = d2
  rental = rental  unit = unit  day = day
  Log = {p1, d1, d2}
  Rental = {rental}
  Unit = {unit}
  Clerk = {c1, c2, c3}
  BillingRun = {b1, b2}
  None = None
  NotRecorded = NotRecorded
  Reading <- Readings
  Confidence = {80, 95}
  RentalOf <- OneRental
  UnitOf <- OneUnit
  DayOf <- OneDay
  Source <- Sources
  Rate <- Rates
  Unpriced = {}
  Deposit <- Deposits
  LowBalancePct = 20
  Flags <- OcrFlags
  CONFIDENCE_GATE = 90
  Tolerance = 1
SYMMETRY Symm
SPECIFICATION Spec
INVARIANTS TypeOK   RowChargedOnce EvidenceChargedOnce NoLockCycle AccrualsBilledExactly ModelChargeAttested
PROPERTIES UncorrectedChargeAgreed  HoursCharged
