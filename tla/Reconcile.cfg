CONSTANTS
  request = request
  worker = worker
  timer = timer
  Threads <- MCThreads
  Timers <- MCTimers
SPECIFICATION FairSpec
INVARIANTS
  PassesAreSerialized
  NoEventDropped
PROPERTIES
  ImplementsEvaluation
  EveryEventIsEvaluated
