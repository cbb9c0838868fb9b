SPECIFICATION FairSpec
CONSTANTS
  User <- Threads
  BindsFirst = TRUE
  Faults = {"loss", "error"}
  MaxQueued = 2
  MaxInFlight = 2
  MaxAnswers = 2
INVARIANTS ClientTypeOK NothingLeaks ClientInv AnswersHeard
PROPERTIES ThreadsEnd ServerLearns
CHECK_DEADLOCK FALSE
