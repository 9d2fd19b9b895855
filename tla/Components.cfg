SPECIFICATION ComponentsSpec
CONSTANTS
  p1 = p1
  p2 = p2
  p3 = p3
  PID = {p1, p2, p3}
  None = None
  TickRange = 16
  User = {u1, u2, u3}
  NoUser = NoUser
  Table <- KeyTable
  MAX_BATCH = 2
  Ticker = {k1, k2}
  OneShot = {e1}
  Periodic = {q1}
  Intervals = {1, 2}
  MAX_ADVANCE = 2
  LAST_TICK = 5
  SjfBursts <- ThreeWorkloads
  STARVATION_PASS = 3
  LAST_SUBMISSION = 1
  SJF_LAST_TICK = 8
  Job = {j1, j2, j3}
  By = {b1, b2}
  WAITS = {0, 2}
  TIMELINE_CAP = 2
  RUNS = 2
  MAX_SWITCHES = 2
  COOLDOWN_TICKS = 2
  MAX_TICKS = 4
  Profiles <- TwoProfiles
  DefaultProfile = "mixed"
  DEFAULT_COUNT = 4
  Files <- FiveFiles
  CommandLines <- TwoOptions
  Unreadable = Unreadable
  NoFile = NoFile
  CastOfNegative = {0, 9}
  DynamicProfile = "mixed"
  GEN_LAST_TICK = 6
INVARIANTS
  NoWakeupLost CalledWhenDue
  OnlyPreemptedAreMissing BatchIsOptimal
  FairnessIsAnIndex ReadingsAgree SwitchLogIsHistory
  UtilizationIsFraction CompletionsCountedOnce EventsFitWindow
  CountIsRespected GeneratedIsLegal CsvKeepsRows
  InjectsTheWorkload NoneEarlyAfterStop
PROPERTIES
  ImplementsQueueContract PeriodsKept ShortestFirst
  WaitingGoOn GeneratorEnds
CHECK_DEADLOCK FALSE
