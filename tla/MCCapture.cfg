CONSTANTS
  w1 = w1
  td = td
  cb = cb
  none = none
  Workers <- MCWorkers
  TraceThread <- td
  CallbackThread <- cb
  NoThread <- none
  Rethrow = FALSE
  OldLogs = {}
  MaxQuit = 1
  TraceRethrow = TRUE
  HasCallback = TRUE

SPECIFICATION CaptureSpec

INVARIANT StderrComesBack
INVARIANT LostOnlyToATrace
PROPERTY ImplementsCrashSpec
PROPERTY ImplementsTraceSpec

\* The process may end, and SIGQUITs are bounded by MaxQuit.
CHECK_DEADLOCK FALSE
