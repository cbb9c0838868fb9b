SPECIFICATION FairSpec
CONSTANTS
  ClientHost = client
  ServerHost = server
  MaxPossibleId = 15
  MaxReliable <- ClientSends5
  MaxAhead = 5
  SendsUnreliable = {server}
  MaxReady = 1
  MaxInFlight = 1
  Faults = {"loss"}
INVARIANTS AckIdIsLatest NoStall
PROPERTIES CatchesUp MissingRescheduled
CHECK_DEADLOCK FALSE
