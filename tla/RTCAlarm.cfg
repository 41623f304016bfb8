CONSTANTS
  MaxTime = 5
  Proximity = 3
SPECIFICATION AlarmSpec
INVARIANTS ValidatedHasFired AlarmFires
CHECK_DEADLOCK FALSE
