----------------------------- MODULE AnrDetectors -----------------------------
(***************************************************************************)
(* The two detectors of ANRs side by side: on ART the trace thread that     *)
(* nativeInit starts, before ART the FileObserver of AnrHandler.  A crash   *)
(* of a Java thread tells both to stop, the observer first.                 *)
(***************************************************************************)
EXTENDS NativeInit, AnrObserver

detectorVars == <<initVars, anrVars>>

DetectorsInit ==
  /\ InitInit
  /\ AnrInit

\* AnrHandler.initialize returns at once on ART.  The process must not have been
\* aborted by the initialisation of the native layer.
AnrSide ==
  /\ npc # "dead"
  /\ ObserverStep \/ NotifyObserver \/ (~art /\ InitializeObserver)
  /\ UNCHANGED initVars

InitSide ==
  /\ InitCallStep \/ TraceThreadStep
  /\ UNCHANGED anrVars

\* JavaCrashHandler.handleException: AnrHandler is told, then NativeHandler.
NativeIsTold ==
  /\ crashed
  /\ NotifyNative
  /\ UNCHANGED anrVars

DetectorsNext == AnrSide \/ InitSide \/ NativeIsTold

DetectorsSpec == DetectorsInit /\ [][DetectorsNext]_detectorVars
==============================================================================
