SPECIFICATION Spec
CONSTANTS
  ClientHost = client
  ServerHost = server
  MaxPossibleId = 7
  MaxReliable <- ClientSends16ServerSends2
  MaxAhead = 3
  SendsUnreliable = {client}
  MaxReady = 1
  MaxInFlight = 1
  Faults = {"duplication"}
CONSTRAINT FirstHeadersInTime
INVARIANTS TypeOK InOrder LapInv
CHECK_DEADLOCK FALSE
