CONSTANTS
  Client <- MCClient
  Worker <- MCWorker
  QueueBound = 1
  Backlog = 1
  AllowShutdownOp = TRUE
  Calls <- MCCalls
  Silent = {2}
  Attempts <- MCAttempts
  Budget <- MCBudget
SPECIFICATION Spec
CHECK_DEADLOCK FALSE
INVARIANTS
  TypeOK
  NobodySleepsOnWork
PROPERTIES
  ActsAsService
  QueuedLeaves
  CallsEnd
  ShutdownCompletesUnlessMissed
