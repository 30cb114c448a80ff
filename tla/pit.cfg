SPECIFICATION Spec
CONSTANTS
  Base = 4
  Divisor = 11
  Hz = 2
  TICK_FREQ = 4
  Rate = 2
  WordSize = 64
  MaxStart = 2
  MaxElapsed = 40
CHECK_DEADLOCK FALSE
INVARIANT WaitAlmostExact
INVARIANT CalibrationRight
