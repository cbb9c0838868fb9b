SPECIFICATION Spec
CONSTANTS
  Client = {a, b}
  MaxSent <- OneSends1
  MaxLines = 2
  Failures = {}
  Ends = "never"
INVARIANTS ServerTypeOK NoEcho NobodyPassedOver OperatorInOrder
CHECK_DEADLOCK FALSE
