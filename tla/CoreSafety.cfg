SPECIFICATION Spec
CONSTANTS
  PID = {p1, p2, p3}
  None = None
  TickRange = 1000
  LEVEL_QUANTA <- ShortQuanta
  RR_QUANTUM = 1
  BOOST_INTERVAL = 3
  AGING_THRESHOLD = 2
  MAX_PRIORITY_BOOSTS = 1
  COOLDOWN_TICKS = 2
  PREEMPTION_ENABLED = TRUE
  TARGETS = {"FCFS", "ROUND_ROBIN", "PRIORITY", "MLFQ"}
  ARRIVALS = {0, 1}
  BURSTS = {2}
  PRIORITIES = {0, 1}
  MAX_TICKS = 4
  MAX_LAG = 1
SYMMETRY Symmetry
INVARIANTS TypeOK Conservation CompletedOnce StarvedAreBoosted CpuTimeFitsClock
PROPERTIES SwitchesAreSpaced MigrationKeepsWork ImplementsContract
CHECK_DEADLOCK FALSE
