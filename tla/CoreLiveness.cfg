SPECIFICATION FairSpec
CONSTANTS
  PID = {p1, p2}
  None = None
  TickRange = 1000
  LEVEL_QUANTA <- MixedQuanta
  RR_QUANTUM = 1
  BOOST_INTERVAL = 2
  AGING_THRESHOLD = 2
  MAX_PRIORITY_BOOSTS = 1
  COOLDOWN_TICKS = 3
  PREEMPTION_ENABLED = TRUE
  TARGETS = {"FCFS", "ROUND_ROBIN", "PRIORITY", "MLFQ"}
  ARRIVALS = {0}
  BURSTS = {0, 2}
  PRIORITIES = {0, 1}
  MAX_TICKS = 8
  MAX_LAG = 1
PROPERTY EveryProcessCompletes
CHECK_DEADLOCK FALSE
