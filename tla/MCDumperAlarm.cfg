CONSTANTS
  c = c
  t1 = t1
  t2 = t2
  none = none
  Tid <- MCTid
  CrashTid <- c
  NoTid <- none

SPECIFICATION FairDumpSpec

PROPERTY DumperEndsInTime

\* The dumper ends: nothing follows.
CHECK_DEADLOCK FALSE
