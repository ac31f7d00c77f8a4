----------------------------- MODULE TraceDumper -----------------------------
(***************************************************************************)
(* tac_trace.c: SIGQUIT, by which Android asks an unresponsive process for  *)
(* its traces, is counted in an eventfd; the trace thread cleans old trace  *)
(* logs, writes a new one through the ART runtime, calls Java and sends the *)
(* signal on to ART's Signal Catcher.  The crash handler appears only as    *)
(* the environment that writes the shared globals; see CrashHandler.        *)
(***************************************************************************)
EXTENDS TACCommon, LogNames

CONSTANTS
  OldLogs,        \* trace logs an earlier run may have left: none, or number 0
  MaxQuit,        \* bound: SIGQUITs sent to the process in one behaviour
  TraceRethrow,   \* tac_trace_rethrow
  HasCallback     \* tac_trace_cb_method # NULL

ASSUME TraceAssumption ==
  /\ OldLogs \subseteq {0}
  /\ MaxQuit \in Nat
  /\ TraceRethrow \in BOOLEAN
  /\ HasCallback \in BOOLEAN

VARIABLES
  tpc,            \* where the thread is in tac_trace_dumper
  notifier_open,  \* tac_trace_notifier >= 0
  quits,          \* the count in the eventfd
  java_crashed,   \* tac_common_java_crashed
  catcher,        \* tac_trace_signal_catcher_tid
  trace_files,    \* trace logs on disk under their own suffix, by number
  anr_files,      \* trace logs that Java renamed to the ANR suffix
  trace_fd,       \* the local fd: "none", "open" or "closed"
  opened,         \* trace logs opened (history)
  received,       \* SIGQUITs that reached tac_trace_handler (history)
  forwarded,      \* SIGQUITs sent to the Signal Catcher (history)
  late_traces     \* trace logs opened after a crash was marked (history)

quitVars == <<notifier_open, quits, received>>
fileVars == <<trace_files, anr_files, trace_fd, opened, late_traces>>
privateVars == <<tpc, quitVars, java_crashed, catcher, fileVars, forwarded>>
traceVars == <<privateVars, native_crashed, dump_status, stderr, life>>

-----------------------------------------------------------------------------
\* "attach" before the thread is one of the Java VM's; "unattached" when it could
\* not become one and has ended, "exited" when it has left its loop.
TraceStepName == {"attach", "read", "check", "clean", "open", "write", "begin",
                  "arm", "dumping", "restore", "close", "callback", "java",
                  "forward", "exited", "unattached"}

Catcher == {"UNLOAD", "UNKNOWN", "known"}

TraceTypeOK ==
  /\ tpc \in TraceStepName
  /\ notifier_open \in BOOLEAN
  /\ quits \in Nat
  /\ java_crashed \in BOOLEAN
  /\ catcher \in Catcher
  /\ trace_files \in SUBSET Nat
  /\ anr_files \in SUBSET Nat
  /\ trace_fd \in {"none", "open", "closed"}
  /\ opened \in Nat
  /\ received \in Nat
  /\ forwarded \in Nat
  /\ late_traces \in Nat

\* tac_trace_init has succeeded: SIGQUIT is counted from now on, the thread has
\* not run yet.
TraceInit ==
  /\ CommonInit
  /\ tpc = "attach"
  /\ notifier_open = TRUE
  /\ quits = 0
  /\ java_crashed = FALSE
  /\ catcher = "UNLOAD"
  /\ trace_files \in SUBSET OldLogs
  /\ anr_files = {}
  /\ trace_fd = "none"
  /\ opened = 0
  /\ received = 0
  /\ forwarded = 0
  /\ late_traces = 0

Crashed == native_crashed \/ java_crashed

ThreadGone == tpc \in {"exited", "unattached"}

Move(from, to) ==
  /\ life = "alive"
  /\ tpc = from
  /\ tpc' = to

-----------------------------------------------------------------------------
(* The signal handler, on whatever thread the kernel picks.                 *)

SigquitHandler ==
  /\ life = "alive"
  /\ received < MaxQuit
  /\ received' = received + 1
  /\ quits' = IF notifier_open THEN quits + 1 ELSE quits
  /\ UNCHANGED <<tpc, notifier_open, java_crashed, catcher, fileVars, forwarded,
                 native_crashed, dump_status, stderr, life>>

-----------------------------------------------------------------------------
(* The thread: tac_trace_dumper, and one turn of its loop.                  *)

\* AttachCurrentThread.  When it fails the thread ends at once; SIGQUIT stays
\* with tac_trace_handler, and what it has counted is never read.
AttachThread ==
  /\ \/ Move("attach", "read") /\ UNCHANGED notifier_open
     \/ Move("attach", "unattached") /\ notifier_open' = FALSE
  /\ UNCHANGED <<quits, received, java_crashed, catcher, fileVars, forwarded,
                 native_crashed, dump_status, stderr, life>>

\* Mutant: the count stays in the eventfd.
PeekQuits ==
  /\ quits > 0
  /\ Move("read", "check")
  /\ UNCHANGED <<quitVars, java_crashed, catcher, fileVars, forwarded,
                 native_crashed, dump_status, stderr, life>>

\* read() blocks while the count is 0 and takes all of it: SIGQUITs that came
\* during a turn are served together by the next.
ReadQuits ==
  /\ quits > 0
  /\ Move("read", "check")
  /\ quits' = 0
  /\ UNCHANGED <<notifier_open, received, java_crashed, catcher, fileVars,
                 forwarded, native_crashed, dump_status, stderr, life>>

\* Mutant: no look at the crash flags.
CheckNothing ==
  /\ Move("check", "clean")
  /\ UNCHANGED <<quitVars, java_crashed, catcher, fileVars, forwarded,
                 native_crashed, dump_status, stderr, life>>

\* A crashed process is left alone: the thread ends and SIGQUIT is ignored
\* from here on.
CheckCrashed ==
  /\ \/ ~Crashed /\ Move("check", "clean") /\ UNCHANGED notifier_open
     \/ Crashed /\ Move("check", "exited") /\ notifier_open' = FALSE
  /\ UNCHANGED <<quits, received, java_crashed, catcher, fileVars, forwarded,
                 native_crashed, dump_status, stderr, life>>

\* Mutant: `break` for `continue` where the old logs could not be cleaned.
CleanFailureEnds ==
  LET victims == IF TraceFilter(TraceSuffix) THEN trace_files ELSE {}
  IN /\ \/ trace_files' = trace_files \ victims /\ Move("clean", "open") /\ UNCHANGED notifier_open
        \/ /\ trace_files' \in {trace_files \ v : v \in SUBSET victims}
           /\ Move("clean", "exited")
           /\ notifier_open' = FALSE
     /\ UNCHANGED <<quits, received, java_crashed, catcher, anr_files, trace_fd, opened,
                    late_traces, forwarded, native_crashed, dump_status, stderr, life>>

\* tac_trace_logs_clean: unlink what the filter picks; scandir or any unlink
\* may fail, and the turn is over.
LogsClean ==
  LET victims == IF TraceFilter(TraceSuffix) THEN trace_files ELSE {}
  IN /\ \/ trace_files' = trace_files \ victims /\ Move("clean", "open")
        \/ trace_files' \in {trace_files \ v : v \in SUBSET victims} /\ Move("clean", "read")
     /\ UNCHANGED <<quitVars, java_crashed, catcher, anr_files, trace_fd, opened,
                    late_traces, forwarded, native_crashed, dump_status, stderr, life>>

\* tac_common_open_trace_log; a late trace is one that begins in a process
\* already marked as crashed.
OpenTraceLog ==
  /\ \/ /\ Move("open", "write")
        /\ opened' = opened + 1
        /\ trace_files' = trace_files \cup {opened + 1}
        /\ trace_fd' = "open"
        /\ late_traces' = late_traces + (IF Crashed THEN 1 ELSE 0)
     \/ Move("open", "read") /\ UNCHANGED <<opened, trace_files, trace_fd, late_traces>>
  /\ UNCHANGED <<quitVars, java_crashed, catcher, anr_files, forwarded,
                 native_crashed, dump_status, stderr, life>>

\* Header, mode line, symbols, address check, dup2: any of them may fail, and
\* the log is closed without a dump.
PrepareDump ==
  /\ \/ Move("write", "begin") /\ stderr' = "trace_log"
     \/ Move("write", "close") /\ UNCHANGED stderr
  /\ UNCHANGED <<quitVars, java_crashed, catcher, fileVars, forwarded,
                 native_crashed, dump_status, life>>

\* dump_status is set before sigsetjmp fills jmpenv.
BeginDump ==
  /\ Move("begin", "arm")
  /\ dump_status' = "ON_GOING"
  /\ UNCHANGED <<quitVars, java_crashed, catcher, fileVars, forwarded,
                 native_crashed, stderr, life>>

SetJump ==
  /\ Move("arm", "dumping")
  /\ UNCHANGED <<quitVars, java_crashed, catcher, fileVars, forwarded,
                 native_crashed, dump_status, stderr, life>>

\* Runtime::DumpForSigQuit returns.  dump_status stays ON_GOING.
DumpReturns ==
  /\ Move("dumping", "restore")
  /\ UNCHANGED <<quitVars, java_crashed, catcher, fileVars, forwarded,
                 native_crashed, dump_status, stderr, life>>

\* Mutant: the dump leaves descriptor 2 on the trace log.
LeaveTraceStderr ==
  /\ Move("restore", "close")
  /\ UNCHANGED <<quitVars, java_crashed, catcher, fileVars, forwarded,
                 native_crashed, dump_status, stderr, life>>

RestoreTraceStderr ==
  /\ Move("restore", "close")
  /\ stderr' = "null"
  /\ UNCHANGED <<quitVars, java_crashed, catcher, fileVars, forwarded,
                 native_crashed, dump_status, life>>

CloseTraceLog ==
  /\ Move("close", "callback")
  /\ trace_fd' = "closed"
  /\ UNCHANGED <<quitVars, java_crashed, catcher, trace_files, anr_files, opened,
                 late_traces, forwarded, native_crashed, dump_status, stderr, life>>

\* No callback, or no memory for the path: `continue`, past the rethrow and
\* past the reset of dump_status.
CallJava ==
  /\ \/ HasCallback /\ Move("callback", "java")
     \/ Move("callback", "read")
  /\ UNCHANGED <<quitVars, java_crashed, catcher, fileVars, forwarded,
                 native_crashed, dump_status, stderr, life>>

\* NativeHandler.traceCallback: an ANR that the system confirms gets the ANR
\* suffix, anything else keeps its name.
TraceCallback ==
  /\ Move("java", "forward")
  /\ \/ /\ opened \in trace_files
        /\ trace_files' = trace_files \ {opened}
        /\ anr_files' = anr_files \cup {opened}
     \/ UNCHANGED <<trace_files, anr_files>>
  /\ UNCHANGED <<quitVars, java_crashed, catcher, trace_fd, opened, late_traces,
                 forwarded, native_crashed, dump_status, stderr, life>>

\* tac_trace_send_sigquit, where the Signal Catcher is looked up once.
SendSigquit ==
  /\ catcher' \in IF catcher = "UNLOAD" THEN {"known", "UNKNOWN"} ELSE {catcher}
  /\ forwarded' = forwarded + (IF catcher' = "known" THEN 1 ELSE 0)

EndTurn ==
  /\ Move("forward", "read")
  /\ IF TraceRethrow /\ dump_status # "ART_CRASH"
     THEN SendSigquit
     ELSE UNCHANGED <<catcher, forwarded>>
  /\ dump_status' = "END"
  /\ UNCHANGED <<quitVars, java_crashed, fileVars, native_crashed, stderr, life>>

\* What the thread does by itself, and its calls into ART and Java.
TraceTurn ==
  \/ ReadQuits \/ CheckCrashed \/ LogsClean \/ OpenTraceLog \/ PrepareDump
  \/ BeginDump \/ SetJump \/ RestoreTraceStderr \/ CloseTraceLog
  \/ CallJava \/ EndTurn

TraceThreadRuns == TraceTurn \/ AttachThread \/ DumpReturns \/ TraceCallback

-----------------------------------------------------------------------------
(* Environment.                                                             *)

\* nativeNotifyJavaCrashed, from JavaCrashHandler.handleException.
NotifyJavaCrashed ==
  /\ life = "alive"
  /\ java_crashed' = TRUE
  /\ UNCHANGED <<tpc, quitVars, catcher, fileVars, forwarded,
                 native_crashed, dump_status, stderr, life>>

\* Where siglongjmp takes the trace thread: the else branch of sigsetjmp.
JumpTarget == "restore"

\* siglongjmp out of the handler that interrupted the trace thread: on from
\* the else branch of sigsetjmp, whatever the thread was doing.
JumpBack ==
  /\ native_crashed
  /\ ~ThreadGone
  /\ dump_status = "ON_GOING"
  /\ dump_status' = "ART_CRASH"
  /\ tpc' = JumpTarget
  /\ UNCHANGED <<stderr, native_crashed, life>>

\* tac_crash.c as far as this module can tell.
CrashThreadStep ==
  /\ life = "alive"
  /\ \/ JumpBack
     \/ native_crashed' = TRUE /\ UNCHANGED <<tpc, stderr, dump_status, life>>
     \/ /\ native_crashed
        /\ stderr' \in {stderr, "null", "crash_log"}
        /\ dump_status' \in {dump_status, "ART_CRASH", "END"}
        /\ UNCHANGED <<tpc, native_crashed, life>>
     \/ life' \in Life /\ UNCHANGED <<tpc, stderr, dump_status, native_crashed>>
  /\ UNCHANGED <<quitVars, java_crashed, catcher, fileVars, forwarded>>

TraceNext ==
  \/ TraceThreadRuns
  \/ SigquitHandler
  \/ NotifyJavaCrashed
  \/ CrashThreadStep

TraceSpec == TraceInit /\ [][TraceNext]_traceVars

\* The thread is scheduled.  How long ART takes to attach it and to dump is not
\* up to it; TraceCallback may wait for the system for 15 or 30 s and runs the
\* application's listener.
FairTraceSpec == TraceSpec /\ WF_traceVars(TraceTurn)

-----------------------------------------------------------------------------
(* Properties.                                                              *)

\* Check-then-act: a crash between the look at the flags and the open lets one
\* trace log begin in a crashed process, never a second.
AtMostOneLateTrace == late_traces <= 1

\* Signals may be merged, and lost once the thread has ended, but ART is never
\* sent one that the process did not get, over any number of turns.
NoInventedSigquit == forwarded + quits <= received

\* Descriptor 2 refers to the trace log only between dup2 and the dup2 back.
StderrOnlyForTrace ==
  stderr = "trace_log" => tpc \in {"begin", "arm", "dumping", "restore"}

\* Every SIGQUIT that was counted is taken up, unless a call into ART or Java
\* hangs, the process crashed or ended, or the thread could not attach: then what
\* was counted between sigaction and that failure stays in the eventfd.
QuitsTakenUp ==
  \/ <>[](tpc \in {"attach", "dumping", "java"})
  \/ quits > 0 ~> (quits = 0 \/ tpc = "unattached" \/ Crashed \/ life # "alive")
==============================================================================
