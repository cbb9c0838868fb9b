SPECIFICATION ThreadSpec
CONSTANTS
  ClientHost = client
  ServerHost = server
  MaxPossibleId = 7
  MaxReliable <- ClientSends3ServerSends2
  MaxAhead = 3
  SendsUnreliable = {}
  MaxReady = 1
  MaxInFlight = 1
  Faults = {"loss", "duplication"}
  Threaded = {server}
INVARIANTS ThreadTypeOK NoDeadlock ForgottenIsStored AcksReceived ThreadInv
INVARIANTS LatestInv NoStall AsksForMissing
PROPERTIES StreamToServer
CHECK_DEADLOCK FALSE
