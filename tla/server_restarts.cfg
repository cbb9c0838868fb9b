SPECIFICATION RestartSpec
CONSTANTS
  ClientHost = client
  ServerHost = server
  MaxPossibleId = 7
  MaxReliable <- ServerSends2
  MaxAhead = 2
  SendsUnreliable = {client}
  MaxReady = 1
  MaxInFlight = 1
  Faults = {}
INVARIANTS NothingForgottenSince
CHECK_DEADLOCK FALSE
