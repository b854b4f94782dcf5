CONSTANTS
  Room <- Rooms
  Horizon = 2
  Tx = {t1, t2}
SYMMETRY Symm
SPECIFICATION Spec
INVARIANTS OnePriceAtATime SupersededNeverPrices ParametersInForce
CHECK_DEADLOCK FALSE
