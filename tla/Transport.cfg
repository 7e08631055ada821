\* Plain and SSL transports, two writes, a server with another transport.
CONSTANTS
  Kinds = {"socket", "ssl"}
  High = 1
  Low = 0
  MaxWrites = 2
  MaxOthers = 1
SPECIFICATION TransportSpec
INVARIANTS EndsCleanly ServerWaitsForAll
PROPERTIES KeepsToProtocol ClosedIsLost PausedIsResumed
CHECK_DEADLOCK FALSE
