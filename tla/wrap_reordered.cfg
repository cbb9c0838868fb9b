SPECIFICATION Spec
CONSTANTS
  ClientHost = client
  ServerHost = server
  MaxPossibleId = 7
  MaxReliable <- ClientSends9
  MaxAhead = 3
  SendsUnreliable = {}
  MaxReady = 1
  MaxInFlight = 2
  Faults = {}
INVARIANTS InOrder
CHECK_DEADLOCK FALSE
