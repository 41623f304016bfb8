CONSTANTS
  Calls = {c1, c2}
SPECIFICATION Persevering
INVARIANTS HooksRestarted EndOfPipe
PROPERTIES KillsAll EventuallyCollected
CHECK_DEADLOCK FALSE
