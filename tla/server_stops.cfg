SPECIFICATION FairSpec
CONSTANTS
  Client = {a, b}
  MaxSent <- OneSends2
  MaxLines = 0
  Failures = {"send", "receive"}
  Ends = "destroy"
INVARIANTS HeardInOrder ServerInv
PROPERTIES EveryoneHears ThreadsEnd
CHECK_DEADLOCK FALSE
