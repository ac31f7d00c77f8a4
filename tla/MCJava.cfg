CONSTANTS
  t1 = t1
  t2 = t2
  t3 = t3
  JavaThread <- MCThreads
  JavaRethrow = FALSE
  HasPrevious = TRUE
  HasListener = TRUE
  NativeReady = TRUE
  MaxTime = 1

SPECIFICATION FairJavaSpec


INVARIANT OneReportPerFile
INVARIANT ReportInOnePlace
PROPERTY UncaughtEndsProcess

\* The process ends: nothing follows.
CHECK_DEADLOCK FALSE
