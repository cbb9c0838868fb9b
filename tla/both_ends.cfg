SPECIFICATION Spec
CONSTANTS
  ClientHost = client
  ServerHost = server
  MaxPossibleId = 5
  MaxReliable <- ClientSends1ServerSends3
  MaxAhead = 2
  SendsUnreliable = {client}
  MaxReady = 1
  MaxInFlight = 2
  Faults = {"loss", "duplication"}
INVARIANTS InOrder NothingForgotten DeliveryInv AckInv
PROPERTIES StreamToClient
CHECK_DEADLOCK FALSE
