CONSTANTS
  w1 = w1
  w2 = w2
  td = td
  cb = cb
  none = none
  Workers <- MCWorkers
  TraceThread <- td
  CallbackThread <- cb
  NoThread <- none
  Rethrow = TRUE

SPECIFICATION FairCrashSpec

INVARIANT OneReport
INVARIANT CallbackCarriesReport
INVARIANT NothingTwice
INVARIANT TraceableOnlyWhileRecording
PROPERTY CrashEnds
PROPERTY KeepsContract

\* The process ends: nothing follows.
CHECK_DEADLOCK FALSE
