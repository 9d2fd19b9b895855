SPECIFICATION FairSpec
CONSTANTS
  TOTAL = 2
  ARRIVAL <- TwoArrivals
  BURST = 1
  MAX_TICKS = 0
  PAUSES = 0
  OPERATOR_STOPS = TRUE
  CLOCK_BOUND = 4
  Free = Free
PROPERTY WaitFollowsStop
CHECK_DEADLOCK FALSE
