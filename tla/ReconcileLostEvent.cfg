CONSTANTS
  request = request
  worker = worker
  timer = timer
  Threads <- MCThreads
  Timers <- MCTimers
SPECIFICATION Undisturbed
INVARIANT NothingLeftBehind
