SPECIFICATION FairSpec
CONSTANTS
  ClientHost = client
  ServerHost = server
  MaxPossibleId = 7
  MaxReliable <- ClientSends4
  MaxAhead = 4
  SendsUnreliable = {server}
  MaxReady = 1
  MaxInFlight = 1
  Faults = {"loss"}
PROPERTIES GuaranteedToArrive
CHECK_DEADLOCK FALSE
