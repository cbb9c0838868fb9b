SPECIFICATION Spec
CONSTANTS
  ClientHost = client
  ServerHost = server
  MaxPossibleId = 15
  MaxReliable <- ClientSends6
  MaxAhead = 6
  SendsUnreliable = {server}
  MaxReady = 1
  MaxInFlight = 1
  Faults = {"loss"}
PROPERTIES MissingRescheduled
CHECK_DEADLOCK FALSE
