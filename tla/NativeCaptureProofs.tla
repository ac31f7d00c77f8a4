-------------------------- MODULE NativeCaptureProofs --------------------------
(***************************************************************************)
(* Safety of TraceDumper for every bound on the SIGQUITs and every setting, *)
(* and of the composition: the crash handler and the trace dumper running   *)
(* in one process each stay within the behaviours that were proved correct  *)
(* for them alone, so that what was proved of either holds of both together.*)
(***************************************************************************)
EXTENDS NativeCapture, CrashHandlerProofs

-----------------------------------------------------------------------------
(* The inductive invariant.                                                 *)

\* Between the read of the count and the end of the turn.
InTurn == tpc \notin {"attach", "read", "exited", "unattached"}

\* A turn has taken a SIGQUIT that is not forwarded yet, and so has a dump that
\* is still ON_GOING: after a `continue` the thread is back at the read, but a
\* crash can throw it into the turn again, up to the rethrow.
SigquitInHand ==
  /\ NoInventedSigquit
  /\ InTurn \/ dump_status = "ON_GOING" => forwarded + quits < received

\* The flags are looked at between two opens.
LateTraceAhead ==
  /\ AtMostOneLateTrace
  /\ ~Crashed => late_traces = 0
  /\ tpc \in {"clean", "open"} => late_traces = 0

TraceInv ==
  /\ TraceTypeOK
  /\ SigquitInHand
  /\ LateTraceAhead
  /\ StderrOnlyForTrace

-----------------------------------------------------------------------------
(* The steps of TraceNext, grouped.                                         *)

Starts == AttachThread \/ ReadQuits \/ CheckCrashed

BeforeDump == LogsClean \/ OpenTraceLog \/ PrepareDump \/ BeginDump

DuringDump == SetJump \/ DumpReturns \/ RestoreTraceStderr

AfterDump == CloseTraceLog \/ CallJava \/ TraceCallback

Elsewhere == SigquitHandler \/ NotifyJavaCrashed \/ UNCHANGED traceVars

\* Every step belongs to one of the groups.
LEMMA TraceStepCases ==
  ASSUME [TraceNext]_traceVars
  PROVE  \/ Starts \/ BeforeDump \/ DuringDump \/ AfterDump
         \/ EndTurn \/ CrashThreadStep \/ Elsewhere
BY DEF TraceNext, TraceThreadRuns, TraceTurn, Starts, BeforeDump, DuringDump, AfterDump, Elsewhere

-----------------------------------------------------------------------------
\* Every step of the trace thread and its environment keeps the types.
LEMMA TraceTypeOKStep ==
  ASSUME TraceTypeOK, [TraceNext]_traceVars
  PROVE  TraceTypeOK'
<1> USE DEF TraceTypeOK, TraceStepName, Catcher, Move, quitVars, fileVars
<1>1. CASE AttachThread \/ ReadQuits
  <2>1. CASE ReadQuits
    BY <2>1 DEF ReadQuits
  <2>2. CASE AttachThread
    <3>1. notifier_open' \in BOOLEAN
      BY <2>2 DEF AttachThread
    <3> QED
      BY <2>2, <3>1 DEF AttachThread
  <2> QED
    BY <1>1, <2>1, <2>2
<1>2. CASE CheckCrashed
  BY <1>2 DEF CheckCrashed
<1>3. CASE LogsClean
  BY <1>3 DEF LogsClean
<1>4. CASE OpenTraceLog
  <2>1. late_traces' \in {late_traces, late_traces + 1}
    BY <1>4 DEF OpenTraceLog
  <2>2. opened' \in {opened, opened + 1}
    BY <1>4 DEF OpenTraceLog
  <2>3. trace_files' \in {trace_files, trace_files \cup {opened + 1}}
    BY <1>4 DEF OpenTraceLog
  <2>4. trace_files' \in SUBSET Nat
    BY <2>3
  <2> QED
    BY <1>4, <2>1, <2>2, <2>4 DEF OpenTraceLog
<1>5. CASE PrepareDump \/ BeginDump
  BY <1>5 DEF PrepareDump, BeginDump
<1>6. CASE DuringDump
  BY <1>6 DEF DuringDump, SetJump, DumpReturns, RestoreTraceStderr
<1>7. CASE CloseTraceLog \/ CallJava
  BY <1>7 DEF CloseTraceLog, CallJava
<1>8. CASE TraceCallback
  BY <1>8 DEF TraceCallback
<1>9. CASE EndTurn
  BY <1>9 DEF EndTurn, SendSigquit
<1>10. CASE CrashThreadStep
  BY <1>10 DEF CrashThreadStep, JumpBack, JumpTarget
<1>11. CASE SigquitHandler
  BY <1>11 DEF SigquitHandler
<1>12. CASE NotifyJavaCrashed
  BY <1>12 DEF NotifyJavaCrashed
<1>13. CASE UNCHANGED traceVars
  BY <1>13 DEF traceVars, privateVars
<1> QED
  BY <1>1, <1>2, <1>3, <1>4, <1>5, <1>6, <1>7, <1>8, <1>9, <1>10, <1>11, <1>12, <1>13, TraceStepCases
     DEF Starts, BeforeDump, AfterDump, Elsewhere

\* The rethrow spends the SIGQUIT that the turn has in hand.
LEMMA SigquitInHandStep ==
  ASSUME TraceTypeOK, SigquitInHand, [TraceNext]_traceVars
  PROVE  SigquitInHand'
<1> USE DEF TraceTypeOK, SigquitInHand, NoInventedSigquit, InTurn, Move, quitVars, fileVars
<1>1. CASE AttachThread \/ ReadQuits
  BY <1>1 DEF AttachThread, ReadQuits
<1>2. CASE CheckCrashed
  BY <1>2 DEF CheckCrashed
<1>3. CASE BeforeDump
  BY <1>3 DEF BeforeDump, LogsClean, OpenTraceLog, PrepareDump, BeginDump
<1>4. CASE DuringDump
  BY <1>4 DEF DuringDump, SetJump, DumpReturns, RestoreTraceStderr
<1>5. CASE AfterDump
  BY <1>5 DEF AfterDump, CloseTraceLog, CallJava, TraceCallback
<1>6. CASE EndTurn
  <2>1. forwarded + quits < received
    BY <1>6 DEF EndTurn
  <2>2. forwarded' \in {forwarded, forwarded + 1}
    BY <1>6 DEF EndTurn, SendSigquit
  <2>3. tpc' = "read" /\ dump_status' = "END" /\ UNCHANGED <<quits, received>>
    BY <1>6 DEF EndTurn
  <2>4. forwarded' + quits' <= received'
    <3>1. CASE forwarded' = forwarded
      BY <2>1, <2>3, <3>1
    <3>2. CASE forwarded' = forwarded + 1
      BY <2>1, <2>3, <3>2
    <3> QED
      BY <2>2, <3>1, <3>2
  <2> QED
    BY <2>3, <2>4
<1>7. CASE CrashThreadStep
  BY <1>7 DEF CrashThreadStep, JumpBack, JumpTarget
<1>8. CASE Elsewhere
  BY <1>8 DEF Elsewhere, SigquitHandler, NotifyJavaCrashed, traceVars, privateVars
<1> QED
  BY <1>1, <1>2, <1>3, <1>4, <1>5, <1>6, <1>7, <1>8, TraceStepCases DEF Starts

\* A second trace log would have to pass the look at the flags.
LEMMA LateTraceAheadStep ==
  ASSUME TraceTypeOK, LateTraceAhead, [TraceNext]_traceVars
  PROVE  LateTraceAhead'
<1> USE DEF TraceTypeOK, LateTraceAhead, AtMostOneLateTrace, Crashed, Move, quitVars, fileVars
<1>1. CASE Starts
  BY <1>1 DEF Starts, AttachThread, ReadQuits, CheckCrashed
<1>2. CASE BeforeDump
  BY <1>2 DEF BeforeDump, LogsClean, OpenTraceLog, PrepareDump, BeginDump
<1>3. CASE DuringDump \/ AfterDump
  BY <1>3 DEF DuringDump, SetJump, DumpReturns, RestoreTraceStderr,
              AfterDump, CloseTraceLog, CallJava, TraceCallback
<1>4. CASE EndTurn
  BY <1>4 DEF EndTurn
<1>5. CASE CrashThreadStep
  BY <1>5 DEF CrashThreadStep, JumpBack, JumpTarget
<1>6. CASE Elsewhere
  BY <1>6 DEF Elsewhere, SigquitHandler, NotifyJavaCrashed, traceVars, privateVars
<1> QED
  BY <1>1, <1>2, <1>3, <1>4, <1>5, <1>6, TraceStepCases

\* Every way out of the dump, the jump included, passes the dup2 back.
LEMMA StderrOnlyForTraceStep ==
  ASSUME TraceTypeOK, StderrOnlyForTrace, [TraceNext]_traceVars
  PROVE  StderrOnlyForTrace'
<1> USE DEF TraceTypeOK, StderrOnlyForTrace, Move, quitVars, fileVars
<1>1. CASE Starts
  BY <1>1 DEF Starts, AttachThread, ReadQuits, CheckCrashed
<1>2. CASE BeforeDump
  BY <1>2 DEF BeforeDump, LogsClean, OpenTraceLog, PrepareDump, BeginDump
<1>3. CASE DuringDump \/ AfterDump
  BY <1>3 DEF DuringDump, SetJump, DumpReturns, RestoreTraceStderr,
              AfterDump, CloseTraceLog, CallJava, TraceCallback
<1>4. CASE EndTurn
  BY <1>4 DEF EndTurn
<1>5. CASE CrashThreadStep
  BY <1>5 DEF CrashThreadStep, JumpBack, JumpTarget
<1>6. CASE Elsewhere
  BY <1>6 DEF Elsewhere, SigquitHandler, NotifyJavaCrashed, traceVars, privateVars
<1> QED
  BY <1>1, <1>2, <1>3, <1>4, <1>5, <1>6, TraceStepCases

-----------------------------------------------------------------------------
\* The invariant holds in every reachable state of the trace dumper.
THEOREM TraceInvariant == TraceSpec => []TraceInv
<1>1. TraceInit => TraceInv
  <2> SUFFICES ASSUME TraceInit PROVE TraceInv
    OBVIOUS
  <2>1. TraceTypeOK
    <3>1. trace_files \in SUBSET Nat
      BY TraceAssumption DEF TraceInit
    <3> QED
      BY <3>1 DEF TraceInit, TraceTypeOK, TraceStepName, Catcher
  <2>2. SigquitInHand
    BY DEF TraceInit, CommonInit, SigquitInHand, NoInventedSigquit, InTurn
  <2>3. LateTraceAhead /\ StderrOnlyForTrace
    BY DEF TraceInit, CommonInit, LateTraceAhead, AtMostOneLateTrace, StderrOnlyForTrace
  <2> QED
    BY <2>1, <2>2, <2>3 DEF TraceInv
<1>2. TraceInv /\ [TraceNext]_traceVars => TraceInv'
  BY TraceTypeOKStep, SigquitInHandStep, LateTraceAheadStep, StderrOnlyForTraceStep
     DEF TraceInv
<1> QED
  BY <1>1, <1>2, PTL DEF TraceSpec

\* The variables of the trace dumper keep their types.
THEOREM TraceTypesHold == TraceSpec => []TraceTypeOK
<1>1. TraceInv => TraceTypeOK
  BY DEF TraceInv
<1> QED
  BY <1>1, TraceInvariant, PTL

\* ART never gets a SIGQUIT that the process did not get, though a crash may
\* throw the thread back into a turn that it had left.
THEOREM SigquitsNotInvented == TraceSpec => []NoInventedSigquit
<1>1. TraceInv => NoInventedSigquit
  BY DEF TraceInv, SigquitInHand
<1> QED
  BY <1>1, TraceInvariant, PTL

\* A crashed process begins at most one more trace log.
THEOREM OneLateTrace == TraceSpec => []AtMostOneLateTrace
<1>1. TraceInv => AtMostOneLateTrace
  BY DEF TraceInv, LateTraceAhead
<1> QED
  BY <1>1, TraceInvariant, PTL

\* Descriptor 2 refers to the trace log only while the runtime may dump.
THEOREM TraceStderrLentOnly == TraceSpec => []StderrOnlyForTrace
<1>1. TraceInv => StderrOnlyForTrace
  BY DEF TraceInv
<1> QED
  BY <1>1, TraceInvariant, PTL

-----------------------------------------------------------------------------
(* To the crash handler the trace thread is TraceThreadStep.                *)

\* Every step of the trace thread leaves the flags of the crash handler alone
\* and descriptor 2 where it was, on /dev/null or on the trace log.
LEMMA TraceRunsAsEnvironment ==
  ASSUME TypeOK, TraceThreadRuns
  PROVE  /\ life = "alive"
         /\ dump_status' \in DumpStatus
         /\ stderr' \in {stderr, "null", "trace_log"}
         /\ UNCHANGED <<native_crashed, life>>
<1> USE DEF TypeOK, CommonTypeOK, DumpStatus, Move
<1>1. CASE AttachThread \/ ReadQuits \/ CheckCrashed \/ LogsClean \/ OpenTraceLog
  BY <1>1 DEF AttachThread, ReadQuits, CheckCrashed, LogsClean, OpenTraceLog
<1>2. CASE PrepareDump \/ BeginDump \/ SetJump \/ DumpReturns \/ RestoreTraceStderr
  BY <1>2 DEF PrepareDump, BeginDump, SetJump, DumpReturns, RestoreTraceStderr
<1>3. CASE CloseTraceLog \/ CallJava \/ TraceCallback \/ EndTurn
  BY <1>3 DEF CloseTraceLog, CallJava, TraceCallback, EndTurn
<1> QED
  BY <1>1, <1>2, <1>3 DEF TraceThreadRuns, TraceTurn

\* Every step of the composition is one of the crash handler, or nothing to it.
LEMMA CaptureStepIsCrashStep ==
  ASSUME CrashInv, [CaptureNext]_captureVars
  PROVE  [CrashNext]_crashVars
<1>1. CASE CrashSide
  BY <1>1 DEF CrashSide, CrashNext
<1>2. CASE TraceSide
  <2>1. TypeOK /\ TraceThreadRuns /\ pc[TraceThread] \in InProgram /\ UNCHANGED crashPrivateVars
    BY <1>2 DEF TraceSide, CrashInv
  <2>2. TraceThreadStep
    BY <2>1, TraceRunsAsEnvironment DEF TraceThreadStep, crashPrivateVars
  <2> QED
    BY <2>2 DEF CrashNext
<1>3. CASE SignalsAndJava
  BY <1>3 DEF SignalsAndJava, SigquitHandler, NotifyJavaCrashed, crashPrivateVars,
              crashVars, commonVars
<1>4. CASE UNCHANGED captureVars
  BY <1>4 DEF captureVars
<1> QED
  BY <1>1, <1>2, <1>3, <1>4 DEF CaptureNext

\* The crash handler beside the real trace dumper behaves as CrashSpec says.
THEOREM CaptureImplementsCrash == CaptureSpec => ImplementsCrashSpec /\ []CrashInv
<1>1. CaptureInit => CrashInit /\ CrashInv
  BY CrashInvInit DEF CaptureInit
<1>2. CrashInv /\ [CaptureNext]_captureVars => [CrashNext]_crashVars
  BY CaptureStepIsCrashStep
<1>3. CrashInv /\ [CrashNext]_crashVars => CrashInv'
  BY CrashInvStep
<1> QED
  BY <1>1, <1>2, <1>3, PTL DEF CaptureSpec, ImplementsCrashSpec, CrashSpec

-----------------------------------------------------------------------------
(* To the trace thread the crash handler is CrashThreadStep.                *)

\* The part of CrashThreadStep that a step of the handler can be.
HandlerEffect ==
  \/ JumpsBack /\ native_crashed /\ dump_status = "ON_GOING" /\ dump_status' = "ART_CRASH"
       /\ life = "alive" /\ UNCHANGED <<stderr, native_crashed, life>>
  \/ /\ ~JumpsBack
     /\ \/ UNCHANGED commonVars
        \/ life = "alive" /\ native_crashed' = TRUE /\ UNCHANGED <<stderr, dump_status, life>>
        \/ /\ life = "alive" /\ native_crashed
           /\ stderr' \in {stderr, "null", "crash_log"}
           /\ dump_status' \in {dump_status, "ART_CRASH", "END"}
           /\ UNCHANGED <<native_crashed, life>>
        \/ life = "alive" /\ life' \in Life /\ UNCHANGED <<stderr, dump_status, native_crashed>>

\* Only a recorder writes the shared globals, and it has marked the process.
LEMMA CrashStepEffect ==
  ASSUME CrashInv, CrashStep
  PROVE  HandlerEffect
<1> USE HandlerAssumption
    DEF CrashInv, TypeOK, CrashMarked, Recording, Goto, HandlerEffect, JumpsBack, Thread,
        handlerVars, callbackVars, dumperVars, commonVars, Life
<1>1. ASSUME NEW t \in Thread, Fault(t) \/ Lock(t) \/ OnlyOnce(t) PROVE HandlerEffect
  BY <1>1 DEF Fault, Lock, OnlyOnce
<1>2. ASSUME NEW t \in Thread, RestoreHandler(t) PROVE HandlerEffect
  BY <1>2 DEF RestoreHandler
<1>3. ASSUME NEW t \in Thread, JumpToTraceDumper(t) PROVE HandlerEffect
  BY <1>3 DEF JumpToTraceDumper
<1>4. ASSUME NEW t \in Thread, Records(t) PROVE HandlerEffect
  BY <1>4 DEF Records, OpenCrashLog, Prepare, SpawnDumper, WaitDumper, CheckBacktrace
<1>5. ASSUME NEW t \in Thread, Fallback(t) PROVE HandlerEffect
  BY <1>5 DEF Fallback
<1>6. ASSUME NEW t \in Thread, TakesJavaStack(t) PROVE HandlerEffect
  BY <1>6 DEF TakesJavaStack, JavaStacktrace, DumpJavaStack, RestoreStderr
<1>7. ASSUME NEW t \in Thread, Leaves(t) PROVE HandlerEffect
  BY <1>7 DEF Leaves, Notify, Join, QueueAndReturn, GoesOn
<1>8. ASSUME NEW t \in Thread, Dies(t) PROVE HandlerEffect
  BY <1>8 DEF Dies, Reraise, ExitProcess, FaultUnhandled, Wild
<1>9. CASE CallbackStep
  BY <1>9 DEF CallbackStep, CallbackGivesUp, CallbackCalls, CallbackReturns, CallbackRuns
<1>10. CASE DumperRuns \/ Killed
  BY <1>10 DEF DumperRuns, Killed
<1> QED
  BY <1>1, <1>2, <1>3, <1>4, <1>5, <1>6, <1>7, <1>8, <1>9, <1>10
     DEF CrashStep, HandlerStep, OwnStep, Records, TakesJavaStack, Leaves, Dies

\* Every step of the composition is one of the trace dumper, or nothing to it.
LEMMA CaptureStepIsTraceStep ==
  ASSUME CrashInv, [CaptureNext]_captureVars
  PROVE  [TraceNext]_traceVars
<1>1. CASE CrashSide
  <2>1. HandlerEffect
    BY <1>1, CrashStepEffect DEF CrashSide
  <2>2. /\ tpc' = IF JumpsBack THEN JumpTarget ELSE tpc
        /\ UNCHANGED <<quitVars, java_crashed, catcher, fileVars, forwarded>>
    BY <1>1 DEF CrashSide
  <2>3. JumpsBack => ~ThreadGone
    BY <1>1 DEF CrashSide, JumpsBack
  <2>4. CrashThreadStep \/ UNCHANGED traceVars
    BY <2>1, <2>2, <2>3 DEF HandlerEffect, CrashThreadStep, JumpBack, traceVars, privateVars, commonVars
  <2> QED
    BY <2>4 DEF TraceNext
<1>2. CASE TraceSide
  BY <1>2 DEF TraceSide, TraceNext
<1>3. CASE SignalsAndJava
  BY <1>3 DEF SignalsAndJava, TraceNext
<1>4. CASE UNCHANGED captureVars
  BY <1>4 DEF captureVars, traceVars, crashVars, commonVars
<1> QED
  BY <1>1, <1>2, <1>3, <1>4 DEF CaptureNext

\* The trace dumper beside the real crash handler behaves as TraceSpec says.
THEOREM CaptureImplementsTrace == CaptureSpec => ImplementsTraceSpec
<1>1. CaptureInit => TraceInit
  BY DEF CaptureInit
<1>2. CrashInv /\ [CaptureNext]_captureVars => [TraceNext]_traceVars
  BY CaptureStepIsTraceStep
<1> QED
  BY <1>1, <1>2, CaptureImplementsCrash, PTL DEF CaptureSpec, ImplementsTraceSpec, TraceSpec

-----------------------------------------------------------------------------
(* What was proved of the parts, of the whole.                              *)

\* With both writers at work descriptor 2 is on a log only during a dump.
THEOREM CaptureStderrComesBack == CaptureSpec => []StderrComesBack
<1>1. CrashInv /\ TraceInv => StderrComesBack
  BY DEF CrashInv, TraceInv, TypeOK, CommonTypeOK, StderrTarget, StderrOnlyForJavaStack,
         StderrOnlyForTrace, StderrComesBack
<1> QED
  BY <1>1, CaptureImplementsCrash, CaptureImplementsTrace, TraceInvariant, PTL
     DEF ImplementsTraceSpec

\* The promise to the application survives the trace dumper.
THEOREM CaptureKeepsContract == CaptureSpec => KeepsContract
BY CaptureImplementsCrash, HandlerKeepsContract, PTL DEF ImplementsCrashSpec
-----------------------------------------------------------------------------
(* A crash is lost only to a trace.                                          *)

\* The trace thread is past the open of a log, or a dump was begun and not
\* ended: a log was opened.
DumpNeedsLog ==
  (InTurn /\ tpc \notin {"check", "clean", "open"}) \/ dump_status = "ON_GOING" => opened > 0

\* No step of the trace dumper, and none of the crash handler as it sees it,
\* begins a dump without a log.
LEMMA DumpNeedsLogStep ==
  ASSUME TraceTypeOK, DumpNeedsLog, [TraceNext]_traceVars
  PROVE  DumpNeedsLog' /\ opened' >= opened
<1> USE DEF TraceTypeOK, DumpNeedsLog, InTurn, Move, quitVars, fileVars
<1>1. CASE Starts
  BY <1>1 DEF Starts, AttachThread, ReadQuits, CheckCrashed
<1>2. CASE BeforeDump
  BY <1>2 DEF BeforeDump, LogsClean, OpenTraceLog, PrepareDump, BeginDump
<1>3. CASE DuringDump
  BY <1>3 DEF DuringDump, SetJump, DumpReturns, RestoreTraceStderr
<1>4. CASE AfterDump
  BY <1>4 DEF AfterDump, CloseTraceLog, CallJava, TraceCallback
<1>5. CASE EndTurn
  BY <1>5 DEF EndTurn
<1>6. CASE CrashThreadStep
  BY <1>6 DEF CrashThreadStep, JumpBack, JumpTarget
<1>7. CASE Elsewhere
  BY <1>7 DEF Elsewhere, SigquitHandler, NotifyJavaCrashed, traceVars, privateVars
<1> QED
  BY <1>1, <1>2, <1>3, <1>4, <1>5, <1>6, <1>7, TraceStepCases

\* Only the jump out of the handler leaves the mutex locked behind it.
LEMMA OnlyJumpAbandons ==
  ASSUME TypeOK, CrashStep, Abandoned'
  PROVE  Abandoned \/ dump_status = "ON_GOING"
<1> USE HandlerAssumption
    DEF TypeOK, Abandoned, Goto, Thread, handlerVars, callbackVars, dumperVars, commonVars
<1>1. ASSUME NEW t \in Thread, Fault(t) \/ Lock(t) \/ OnlyOnce(t) \/ RestoreHandler(t)
      PROVE Abandoned
  BY <1>1 DEF Fault, Lock, OnlyOnce, RestoreHandler
<1>2. ASSUME NEW t \in Thread, JumpToTraceDumper(t) PROVE dump_status = "ON_GOING"
  BY <1>2 DEF JumpToTraceDumper
<1>3. ASSUME NEW t \in Thread, Records(t) PROVE Abandoned
  BY <1>3 DEF Records, OpenCrashLog, Prepare, SpawnDumper, WaitDumper, CheckBacktrace
<1>4. ASSUME NEW t \in Thread, Fallback(t) PROVE Abandoned
  BY <1>4 DEF Fallback
<1>5. ASSUME NEW t \in Thread, TakesJavaStack(t) PROVE Abandoned
  BY <1>5 DEF TakesJavaStack, JavaStacktrace, DumpJavaStack, RestoreStderr
<1>6. ASSUME NEW t \in Thread, Leaves(t) PROVE Abandoned
  BY <1>6 DEF Leaves, Notify, Join, QueueAndReturn, GoesOn
<1>7. ASSUME NEW t \in Thread, Dies(t) PROVE Abandoned
  BY <1>7 DEF Dies, Reraise, ExitProcess, FaultUnhandled, Wild
<1>8. CASE CallbackStep \/ DumperRuns \/ Killed
  BY <1>8 DEF CallbackStep, CallbackGivesUp, CallbackCalls, CallbackReturns, CallbackRuns,
              DumperRuns, Killed
<1> QED
  BY <1>1, <1>2, <1>3, <1>4, <1>5, <1>6, <1>7, <1>8
     DEF CrashStep, HandlerStep, OwnStep, Records, TakesJavaStack, Leaves, Dies

\* Nobody but the crash handler touches its mutex and its place.
LEMMA AbandonedKeepsPace ==
  ASSUME CrashInv, TraceTypeOK, DumpNeedsLog, LostOnlyToATrace,
         opened' \in Nat, opened' >= opened, [CaptureNext]_captureVars
  PROVE  LostOnlyToATrace'
<1> USE DEF LostOnlyToATrace, DumpNeedsLog, TraceTypeOK, CrashInv
<1>1. CASE CrashSide
  <2>1. opened' = opened
    BY <1>1 DEF CrashSide, fileVars
  <2> QED
    BY <1>1, <2>1, OnlyJumpAbandons DEF CrashSide
<1>2. CASE TraceSide \/ SignalsAndJava
  <2>1. Abandoned' => Abandoned
    BY <1>2 DEF TraceSide, SignalsAndJava, crashPrivateVars, handlerVars, Abandoned
  <2> QED
    BY <2>1
<1>3. CASE UNCHANGED captureVars
  BY <1>3 DEF captureVars, crashVars, privateVars, handlerVars, fileVars, Abandoned
<1> QED
  BY <1>1, <1>2, <1>3 DEF CaptureNext

\* tac_crash_signal_handler with the siglongjmp to tac_trace_dumper: for any
\* threads and any number of SIGQUITs a mutex is left locked by a thread that is
\* out of the handler only in a process that opened a trace log.
THEOREM LostOnlyAfterTrace == CaptureSpec => []LostOnlyToATrace
<1>1. CaptureInit => DumpNeedsLog /\ LostOnlyToATrace
  BY HandlerAssumption
     DEF CaptureInit, TraceInit, CommonInit, CrashInit, DumpNeedsLog, LostOnlyToATrace,
         Abandoned, HandlerAssumption, InTurn
<1>2. /\ CrashInv /\ TraceInv /\ DumpNeedsLog /\ LostOnlyToATrace
      /\ [CaptureNext]_captureVars
      => (DumpNeedsLog /\ LostOnlyToATrace)'
  <2> SUFFICES ASSUME CrashInv, TraceInv, DumpNeedsLog, LostOnlyToATrace,
                      [CaptureNext]_captureVars
               PROVE  DumpNeedsLog' /\ LostOnlyToATrace'
    OBVIOUS
  <2>1. DumpNeedsLog' /\ opened' >= opened
    BY CaptureStepIsTraceStep, DumpNeedsLogStep DEF TraceInv
  <2>2. opened' \in Nat
    BY CaptureStepIsTraceStep, TraceTypeOKStep DEF TraceInv, TraceTypeOK
  <2> QED
    BY <2>1, <2>2, AbandonedKeepsPace DEF TraceInv
<1> QED
  BY <1>1, <1>2, CaptureImplementsCrash, CaptureImplementsTrace, TraceInvariant, PTL
     DEF CaptureSpec, ImplementsTraceSpec
=============================================================================
