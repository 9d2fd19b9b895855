SPECIFICATION Spec
CONSTANTS
  TOTAL = 2
  ARRIVAL <- TwoArrivals
  BURST = 2
  MAX_TICKS = 3
  PAUSES = 1
  OPERATOR_STOPS = TRUE
  CLOCK_BOUND = 5
  Free = Free
INVARIANTS ReportIsLast CutOffOnlyOnDemand NotificationComing GateWakeupComing
CHECK_DEADLOCK FALSE
