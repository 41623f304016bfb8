CONSTANTS
  FdSetSize = 1024
  Fds = {3, 4, 5}
  Slots = 2
  Nodes = {1, 2}
  QueueSize = 2
  MaxEvents = 3
  MaxChurn = 3
SPECIFICATION Spec
PROPERTIES TimerReported
INVARIANTS DescriptorsConsistent TimerListIntact EventsKept
CHECK_DEADLOCK FALSE
