SPECIFICATION TelemetrySpec
CONSTANTS
  COOLDOWN_TICKS = 2
  MAX_TICKS = 3
INVARIANT BusyTicksAreWorkTicks
CHECK_DEADLOCK FALSE
