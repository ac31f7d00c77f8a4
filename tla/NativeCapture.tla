---------------------------- MODULE NativeCapture ----------------------------
(***************************************************************************)
(* The native layer of one process: the crash handler and the trace dumper  *)
(* together, sharing the crash flag, dump_status, descriptor 2 and the      *)
(* trace thread itself, which may crash anywhere in its loop.               *)
(***************************************************************************)
EXTENDS CrashHandler, TraceDumper

captureVars == <<crashVars, privateVars>>

crashPrivateVars == <<handlerVars, callbackVars, dumperVars>>

CaptureInit ==
  /\ CrashInit
  /\ TraceInit

\* The trace thread has just left the handler by siglongjmp.
JumpsBack == pc[TraceThread] = "report" /\ pc'[TraceThread] = "run"

\* Mutant: the jump lands behind the dup2 back to /dev/null.
CrashSideJumpsTooFar ==
  /\ CrashStep
  /\ ThreadGone => pc'[TraceThread] = pc[TraceThread]
  /\ tpc' = IF JumpsBack THEN "close" ELSE tpc
  /\ UNCHANGED <<quitVars, java_crashed, catcher, fileVars, forwarded>>

\* A step of the crash handler; a jump moves the trace thread to the else
\* branch of its sigsetjmp.  A thread that has ended takes no signal.
CrashSide ==
  /\ CrashStep
  /\ ThreadGone => pc'[TraceThread] = pc[TraceThread]
  /\ tpc' = IF JumpsBack THEN JumpTarget ELSE tpc
  /\ UNCHANGED <<quitVars, java_crashed, catcher, fileVars, forwarded>>

\* Mutant: the trace thread goes on while it is inside the crash handler.
TraceSideInHandler ==
  /\ TraceThreadRuns
  /\ UNCHANGED crashPrivateVars

\* A step of the trace thread, outside the crash handler.
TraceSide ==
  /\ pc[TraceThread] \in InProgram
  /\ TraceThreadRuns
  /\ UNCHANGED crashPrivateVars

SignalsAndJava ==
  /\ SigquitHandler \/ NotifyJavaCrashed
  /\ UNCHANGED crashPrivateVars

CaptureNext == CrashSide \/ TraceSide \/ SignalsAndJava

CaptureSpec == CaptureInit /\ [][CaptureNext]_captureVars

-----------------------------------------------------------------------------
(* Each component, with the other one as it really is, stays within the      *)
(* behaviours checked for it alone.                                          *)

\* The trace dumper does to the crash handler only what TraceThreadStep says.
ImplementsCrashSpec == CrashSpec

\* The crash handler does to the trace dumper only what CrashThreadStep says.
ImplementsTraceSpec == TraceSpec

\* Two writers of descriptor 2: whoever redirected it last, it is not left on
\* a log once no dump is under way on either side.
StderrComesBack ==
  stderr # "null" =>
    \/ \E t \in Thread : pc[t] \in {"dump", "undup", "wild"}
    \/ tpc \in {"begin", "arm", "dumping", "restore"}

\* A crash goes unrecorded, its mutex never released, only in a process that
\* has opened a trace log: without SIGQUIT no crash is lost to siglongjmp.
LostOnlyToATrace == Abandoned => opened > 0
==============================================================================
