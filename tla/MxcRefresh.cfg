CONSTANTS
  Devices <- MCDevices
  MaxMarker = 4
  MaxUpdates = 3
SPECIFICATION Spec
INVARIANTS FullsFenced WaitedOnce
PROPERTIES SentAfterPrevious
CHECK_DEADLOCK FALSE
