SPECIFICATION FairSpec
CONSTANTS
  TOTAL = 2
  ARRIVAL <- TwoArrivals
  BURST = 1
  MAX_TICKS = 3
  PAUSES = 0
  OPERATOR_STOPS = FALSE
  CLOCK_BOUND = 5
  Free = Free
PROPERTY RunReturns
CHECK_DEADLOCK FALSE
