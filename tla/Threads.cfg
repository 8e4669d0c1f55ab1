SPECIFICATION ThreadsSpec
CONSTANTS
  MaxLog = 7
  MaxAddresses = 2
  MaxSockets = 3
PROPERTIES WrittenOrStopped StopHangsOnlyIdle DisconnectEnds
CHECK_DEADLOCK FALSE
