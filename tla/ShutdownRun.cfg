SPECIFICATION FairSpec
CONSTANTS
  TOTAL = 2
  ARRIVAL <- TwoArrivals
  BURST = 2
  MAX_TICKS = 0
  PAUSES = 2
  OPERATOR_STOPS = FALSE
  CLOCK_BOUND = 4
  Free = Free
PROPERTY RunReturns
