CONSTANTS
  w1 = w1
  td = td
  cb = cb
  Workers <- MCWorkers
  TraceThread <- td
  CallbackThread <- cb
  OldLogs = {0}
  MaxQuit = 3
  TraceRethrow = TRUE
  HasCallback = TRUE

SPECIFICATION FairTraceSpec

INVARIANT AtMostOneLateTrace
INVARIANT NoInventedSigquit
PROPERTY QuitsTakenUp

\* The process may end, and SIGQUITs are bounded by MaxQuit.
CHECK_DEADLOCK FALSE
