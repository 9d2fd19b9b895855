SPECIFICATION Spec
CONSTANTS
  PID = {p1, p2}
  None = None
  TickRange = 1000
  LEVEL_QUANTA <- MixedQuanta
  RR_QUANTUM = 1
  BOOST_INTERVAL = 3
  AGING_THRESHOLD = 3
  MAX_PRIORITY_BOOSTS = 2
  COOLDOWN_TICKS = 2
  PREEMPTION_ENABLED = TRUE
  TARGETS = {"PRIORITY"}
  ARRIVALS = {0, 1, 2}
  BURSTS = {1, 6}
  PRIORITIES = {0, 1}
  MAX_TICKS = 6
  MAX_LAG = 1
PROPERTY PriorityArrivalPreempts
CHECK_DEADLOCK FALSE
