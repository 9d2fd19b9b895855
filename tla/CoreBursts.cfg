SPECIFICATION Spec
CONSTANTS
  PID = {p1, p2}
  None = None
  TickRange = 1000
  LEVEL_QUANTA <- ShortQuanta
  RR_QUANTUM = 2
  BOOST_INTERVAL = 5
  AGING_THRESHOLD = 1
  MAX_PRIORITY_BOOSTS = 2
  COOLDOWN_TICKS = 3
  PREEMPTION_ENABLED = TRUE
  TARGETS = {"PRIORITY", "MLFQ"}
  ARRIVALS = {0, 1}
  BURSTS = {5}
  PRIORITIES = {0, 1}
  MAX_TICKS = 8
  MAX_LAG = 1
SYMMETRY Symmetry
INVARIANTS FiledByLevel PrioritySorted TimesOrdered
CHECK_DEADLOCK FALSE
