----------------------------- MODULE CrashHandler -----------------------------
(***************************************************************************)
(* tac_crash.c: the handler of the eight crash signals, from the delivery   *)
(* of the signal to the return from the handler, which the process survives *)
(* only when the signal does not come again, and the thread that takes the  *)
(* result to Java.  Any thread of the process may run the handler.  The     *)
(* trace thread appears here only as the environment that writes            *)
(* dump_status and redirects stderr; TraceDumper says what it really does.  *)
(***************************************************************************)
EXTENDS TACCommon, DumperContract, Naturals

CONSTANTS
  NoThread,   \* nobody holds the mutex
  Rethrow     \* tac_crash_rethrow, from crashRethrow of nativeInit

ASSUME HandlerAssumption ==
  /\ NoThread \notin Thread
  /\ Rethrow \in BOOLEAN

VARIABLES
  pc,            \* where each thread is in tac_crash_signal_handler
  crash_mutex,   \* holder of tac_crash_mutex
  disposition,   \* the action installed for the crash signals
  prctls,        \* process attributes changed and not yet restored
  log_fd,        \* tac_crash_log_fd: "closed" or "open"
  dump_ok,       \* the handler's local dump_ok
  emergency,     \* tac_crash_emergency[0] # '\0'
  java_flag,     \* tac_crash_dump_java_stacktrace
  notified,      \* a count waits in tac_crash_cb_notifier
  callback,      \* the callback thread
  given,         \* what crashCallback was called with, and the log behind it
  reports        \* how many times a crash log was opened (history)

handlerVars == <<pc, crash_mutex, disposition, prctls, log_fd, dump_ok,
                 emergency, java_flag, reports>>
callbackVars == <<notified, callback, given>>
dumperVars == <<dumper, crash_log>>
commonVars == <<native_crashed, dump_status, stderr, life>>
crashVars == <<handlerVars, callbackVars, dumperVars, commonVars>>

-----------------------------------------------------------------------------
(* Types.                                                                   *)

\* In the order of the code; "run" is outside the handler, "reraise" after its
\* return, "resumed" when the thread then goes on with its program, "wild" after
\* a siglongjmp onto another thread's stack.
Recording == {"report", "prepare", "spawn", "wait", "check", "end", "java",
              "dump", "undup", "notify", "join", "queue"}
Critical == {"once", "restore", "exit"} \cup Recording
Handling == {"lock", "reraise"} \cup Critical
InProgram == {"run", "resumed"}
Step == InProgram \cup {"wild"} \cup Handling

\* "ours" is tac_crash_signal_handler; "original" what it replaced.
Disposition == {"ours", "original", "default"}

\* "absent": tac_crash_init_callback failed; "gone": the thread returned
\* without calling Java; "returned": after the call.
CallbackState == {"absent", "blocked", "calling", "gone", "returned"}

Delivery == [log : SUBSET Section, emergency : BOOLEAN, java : BOOLEAN]

NoDelivery == [log |-> {}, emergency |-> FALSE, java |-> FALSE]

TypeOK ==
  /\ CommonTypeOK
  /\ DumperTypeOK
  /\ pc \in [Thread -> Step]
  /\ crash_mutex \in Thread \cup {NoThread}
  /\ disposition \in Disposition
  /\ prctls \in SUBSET {"dumpable", "ptracer"}
  /\ log_fd \in {"closed", "open"}
  /\ dump_ok \in BOOLEAN
  /\ emergency \in BOOLEAN
  /\ java_flag \in BOOLEAN
  /\ notified \in BOOLEAN
  /\ callback \in CallbackState
  /\ given \in Delivery
  /\ reports \in Nat

CrashInit ==
  /\ CommonInit
  /\ DumperInit
  /\ pc = [t \in Thread |-> "run"]
  /\ crash_mutex = NoThread
  /\ disposition = "ours"
  /\ prctls = {}
  /\ log_fd = "closed"
  /\ dump_ok = FALSE
  /\ emergency = FALSE
  /\ java_flag = FALSE
  /\ notified = FALSE
  /\ callback \in {"absent", "blocked", "gone"}
  /\ given = NoDelivery
  /\ reports = 0

Goto(t, from, to) ==
  /\ life = "alive"
  /\ pc[t] = from
  /\ pc' = [pc EXCEPT ![t] = to]

\* The callback thread is there to take a signal or to run.
CallbackLives == callback \in {"blocked", "calling"}

-----------------------------------------------------------------------------
(* Delivery of a signal and entry into the handler.                         *)

\* A crash signal meets thread t while our handler is installed.
Fault(t) ==
  /\ disposition = "ours"
  /\ t = CallbackThread => CallbackLives
  /\ Goto(t, "run", "lock")
  /\ UNCHANGED <<crash_mutex, disposition, prctls, log_fd, dump_ok, emergency,
                 java_flag, reports, callbackVars, dumperVars, commonVars>>

\* The same after the handler put the earlier action back.
FaultUnhandled(t) ==
  /\ life = "alive"
  /\ pc[t] \in InProgram
  /\ disposition # "ours"
  /\ t = CallbackThread => CallbackLives
  /\ life' = "signal"
  /\ UNCHANGED <<handlerVars, callbackVars, dumperVars,
                 native_crashed, dump_status, stderr>>

\* Mutant: no pthread_mutex_lock.
LockWithoutMutex(t) ==
  /\ Goto(t, "lock", "once")
  /\ crash_mutex' = t
  /\ UNCHANGED <<disposition, prctls, log_fd, dump_ok, emergency, java_flag,
                 reports, callbackVars, dumperVars, commonVars>>

Lock(t) ==
  /\ crash_mutex = NoThread
  /\ Goto(t, "lock", "once")
  /\ crash_mutex' = t
  /\ UNCHANGED <<disposition, prctls, log_fd, dump_ok, emergency, java_flag,
                 reports, callbackVars, dumperVars, commonVars>>

\* Only the first crash is recorded; a later one ends the process.
OnlyOnce(t) ==
  /\ Goto(t, "once", IF native_crashed THEN "exit" ELSE "restore")
  /\ UNCHANGED <<crash_mutex, disposition, prctls, log_fd, dump_ok, emergency,
                 java_flag, reports, callbackVars, dumperVars, commonVars>>

\* Mark the process as crashed and put the earlier action back.
\* tacc_signal_crash_unregister goes through all signals even when one
\* sigaction fails, so after a failure the action is the old or the new one.
RestoreHandler(t) ==
  LET earlier == IF Rethrow THEN "original" ELSE "default"
  IN /\ native_crashed' = TRUE
     /\ \/ Goto(t, "restore", "report") /\ disposition' = earlier
        \/ Goto(t, "restore", "exit") /\ disposition' \in {disposition, earlier}
     /\ UNCHANGED <<crash_mutex, prctls, log_fd, dump_ok, emergency, java_flag,
                    reports, callbackVars, dumperVars, dump_status, stderr, life>>

\* Mutant: any dump that is not over is taken for one under way.
JumpUnlessEnded(t) ==
  /\ dump_status # "END"
  /\ dump_status' = "ART_CRASH"
  /\ Goto(t, "report", IF t = TraceThread THEN "run" ELSE "wild")
  /\ UNCHANGED <<crash_mutex, disposition, prctls, log_fd, dump_ok, emergency,
                 java_flag, reports, callbackVars, dumperVars,
                 native_crashed, stderr, life>>

\* A crash while dump_status is ON_GOING is taken for one inside the ART dump:
\* siglongjmp to the sigsetjmp of tac_trace_dumper, the mutex still held.  On
\* any thread but the trace thread that resumes a frame of a foreign stack.
JumpToTraceDumper(t) ==
  /\ dump_status = "ON_GOING"
  /\ dump_status' = "ART_CRASH"
  /\ Goto(t, "report", IF t = TraceThread THEN "run" ELSE "wild")
  /\ UNCHANGED <<crash_mutex, disposition, prctls, log_fd, dump_ok, emergency,
                 java_flag, reports, callbackVars, dumperVars,
                 native_crashed, stderr, life>>

-----------------------------------------------------------------------------
(* Recording the crash.                                                     *)

OpenCrashLog(t) ==
  /\ dump_status # "ON_GOING"
  /\ \/ Goto(t, "report", "prepare") /\ log_fd' = "open" /\ reports' = reports + 1
     \/ Goto(t, "report", "end") /\ UNCHANGED <<log_fd, reports>>
  /\ UNCHANGED <<crash_mutex, disposition, prctls, dump_ok, emergency, java_flag,
                 callbackVars, dumperVars, commonVars>>

\* PR_SET_DUMPABLE, then PR_SET_PTRACER; EINVAL of the second is no error.
Prepare(t) ==
  /\ \/ prctls' \in {{}, {"dumpable"}} /\ Goto(t, "prepare", "end")
     \/ prctls' \in {{"dumpable"}, {"dumpable", "ptracer"}} /\ Goto(t, "prepare", "spawn")
  /\ UNCHANGED <<crash_mutex, disposition, log_fd, dump_ok, emergency, java_flag,
                 reports, callbackVars, dumperVars, commonVars>>

SpawnDumper(t) ==
  /\ \/ Goto(t, "spawn", "wait") /\ dumper' = "running"
     \/ Goto(t, "spawn", "end") /\ UNCHANGED dumper
  /\ UNCHANGED <<crash_mutex, disposition, prctls, log_fd, dump_ok, emergency,
                 java_flag, reports, callbackVars, crash_log, commonVars>>

\* waitpid returns only when the child is gone, and may then still fail
\* (ECHILD when the host ignores SIGCHLD).
WaitDumper(t) ==
  /\ dumper \in {"exit0", "failed"}
  /\ \/ dumper = "exit0" /\ Goto(t, "wait", "check")
     \/ Goto(t, "wait", "end")
  /\ UNCHANGED <<crash_mutex, disposition, prctls, log_fd, dump_ok, emergency,
                 java_flag, reports, callbackVars, dumperVars, commonVars>>

\* The log is read back: status 0 of the child is not believed.  The log may
\* not open again, so a written backtrace can also be missed.
CheckBacktrace(t) ==
  /\ Goto(t, "check", "end")
  /\ \E opens \in BOOLEAN : dump_ok' = (opens /\ "backtrace" \in crash_log)
  /\ UNCHANGED <<crash_mutex, disposition, prctls, log_fd, emergency, java_flag,
                 reports, callbackVars, dumperVars, commonVars>>

\* Mutant: the buffer is emptied although the log could not take it.
FallbackAlwaysClears(t) ==
  /\ prctls' = {}
  /\ Goto(t, "end", IF dump_ok THEN "java" ELSE "notify")
  /\ log_fd' = IF dump_ok THEN log_fd ELSE "closed"
  /\ emergency' = FALSE
  /\ UNCHANGED <<crash_mutex, disposition, dump_ok, java_flag, reports,
                 callbackVars, dumperVars, commonVars>>

\* Mutant: the buffer keeps what was already written to the log.
FallbackNeverClears(t) ==
  /\ prctls' = {}
  /\ Goto(t, "end", "java")
  /\ crash_log' = IF dump_ok THEN crash_log ELSE crash_log \cup {"fallback"}
  /\ emergency' = ~dump_ok
  /\ UNCHANGED <<crash_mutex, disposition, log_fd, dump_ok, java_flag, reports,
                 callbackVars, dumper, commonVars>>

\* Mutant: the attributes are restored only after a good dump.
FallbackKeepsPrctls(t) ==
  /\ prctls' = IF dump_ok THEN {} ELSE prctls
  /\ Goto(t, "end", IF dump_ok THEN "java" ELSE "notify")
  /\ emergency' = ~dump_ok
  /\ UNCHANGED <<crash_mutex, disposition, log_fd, dump_ok, java_flag, reports,
                 callbackVars, dumperVars, commonVars>>

\* Label end: restore the attributes; without a valid dump fill the emergency
\* buffer and append it to the log.  Written there, the buffer is emptied.
Fallback(t) ==
  /\ prctls' = {}
  /\ \/ /\ dump_ok
        /\ Goto(t, "end", "java")
        /\ UNCHANGED <<log_fd, emergency, crash_log>>
     \/ /\ ~dump_ok /\ log_fd = "open"
        /\ Goto(t, "end", "java")
        /\ crash_log' = crash_log \cup {"fallback"}
        /\ emergency' = FALSE
        /\ UNCHANGED log_fd
     \/ /\ ~dump_ok
        /\ Goto(t, "end", "notify")
        /\ log_fd' = "closed"
        /\ emergency' = TRUE
        /\ UNCHANGED crash_log
  /\ UNCHANGED <<crash_mutex, disposition, dump_ok, java_flag, reports,
                 callbackVars, dumper, commonVars>>

\* tac_tacrash_record_java_stacktrace up to the redirection of stderr.
JavaStacktrace(t) ==
  /\ \/ \* not a Java thread, no ART symbols (flag 1), or title or dup2 failed
        /\ Goto(t, "java", "notify")
        /\ java_flag' \in BOOLEAN
        /\ log_fd' = "closed"
        /\ UNCHANGED stderr
     \/ /\ Goto(t, "java", "dump")
        /\ java_flag' = FALSE
        /\ stderr' = "crash_log"
        /\ UNCHANGED log_fd
  /\ UNCHANGED <<crash_mutex, disposition, prctls, dump_ok, emergency, reports,
                 callbackVars, dumperVars, native_crashed, dump_status, life>>

\* Thread::DumpState writes to whatever descriptor 2 is at that moment.
DumpJavaStack(t) ==
  /\ Goto(t, "dump", "undup")
  /\ crash_log' = IF stderr = "crash_log" THEN crash_log \cup {"java"} ELSE crash_log
  /\ UNCHANGED <<crash_mutex, disposition, prctls, log_fd, dump_ok, emergency,
                 java_flag, reports, callbackVars, dumper, commonVars>>

RestoreStderr(t) ==
  /\ Goto(t, "undup", "notify")
  /\ stderr' = "null"
  /\ log_fd' = "closed"
  /\ UNCHANGED <<crash_mutex, disposition, prctls, dump_ok, emergency, java_flag,
                 reports, callbackVars, dumperVars, native_crashed, dump_status, life>>

-----------------------------------------------------------------------------
(* Callback to Java and the way out.                                        *)

\* Mutant: pthread_join even when the notifier could not be written.
NotifyUnchecked(t) ==
  /\ Goto(t, "notify", "join")
  /\ notified' \in BOOLEAN
  /\ UNCHANGED <<crash_mutex, disposition, prctls, log_fd, dump_ok, emergency,
                 java_flag, reports, callback, given, dumperVars, commonVars>>

Notify(t) ==
  /\ \/ callback # "absent" /\ Goto(t, "notify", "join") /\ notified' = TRUE
     \/ Goto(t, "notify", "queue") /\ UNCHANGED notified
  /\ UNCHANGED <<crash_mutex, disposition, prctls, log_fd, dump_ok, emergency,
                 java_flag, reports, callback, given, dumperVars, commonVars>>

\* pthread_join waits for the thread to end; on oneself it fails with EDEADLK.
Join(t) ==
  /\ t = CallbackThread \/ ~CallbackLives
  /\ Goto(t, "join", "queue")
  /\ UNCHANGED <<crash_mutex, disposition, prctls, log_fd, dump_ok, emergency,
                 java_flag, reports, callbackVars, dumperVars, commonVars>>

\* tacc_signal_crash_queue, unlock and return.  SIGABRT and what another process
\* or thread sent is queued again, which may fail; any other signal is left to
\* the instruction that raised it.
QueueAndReturn(t) ==
  /\ \/ Goto(t, "queue", "reraise") /\ crash_mutex' = NoThread
     \/ Goto(t, "queue", "exit") /\ UNCHANGED crash_mutex
  /\ UNCHANGED <<disposition, prctls, log_fd, dump_ok, emergency, java_flag,
                 reports, callbackVars, dumperVars, commonVars>>

\* The signal arrives again, now at the earlier action, which ends the process.
Reraise(t) ==
  /\ life = "alive"
  /\ pc[t] = "reraise"
  /\ life' = "signal"
  /\ UNCHANGED <<handlerVars, callbackVars, dumperVars,
                 native_crashed, dump_status, stderr>>

\* It does not: a SIGSYS of seccomp, whose system call is skipped, a SIGTRAP of
\* a breakpoint, a fault whose cause has gone; or the earlier action returned.
GoesOn(t) ==
  /\ Goto(t, "reraise", "resumed")
  /\ UNCHANGED <<crash_mutex, disposition, prctls, log_fd, dump_ok, emergency,
                 java_flag, reports, callbackVars, dumperVars, commonVars>>

\* Label exit.
ExitProcess(t) ==
  /\ life = "alive"
  /\ pc[t] = "exit"
  /\ crash_mutex' = NoThread
  /\ life' = "exit1"
  /\ UNCHANGED <<pc, disposition, prctls, log_fd, dump_ok, emergency, java_flag,
                 reports, callbackVars, dumperVars, native_crashed, dump_status, stderr>>

CallbackRuns ==
  /\ life = "alive"
  /\ pc[CallbackThread] \in InProgram
  /\ UNCHANGED <<handlerVars, dumperVars, commonVars>>

\* NewStringUTF fails for one of the arguments: Java is never called.
CallbackGivesUp ==
  /\ CallbackRuns
  /\ callback = "blocked" /\ notified
  /\ callback' = "gone"
  /\ notified' = FALSE
  /\ UNCHANGED given

CallbackCalls ==
  /\ CallbackRuns
  /\ callback = "blocked" /\ notified
  /\ callback' = "calling"
  /\ notified' = FALSE
  /\ given' = [log |-> crash_log, emergency |-> emergency, java |-> java_flag]

CallbackReturns ==
  /\ CallbackRuns
  /\ callback = "calling"
  /\ callback' = "returned"
  /\ UNCHANGED <<notified, given>>

CallbackStep == CallbackGivesUp \/ CallbackCalls \/ CallbackReturns

-----------------------------------------------------------------------------
(* Environment.                                                             *)

\* Undefined behaviour after the jump onto a foreign stack: the process dies,
\* or the thread runs on through the tail of tac_trace_dumper's loop.
Wild(t) ==
  /\ life = "alive"
  /\ pc[t] = "wild"
  /\ \/ life' = "signal" /\ UNCHANGED <<dump_status, stderr>>
     \/ stderr' = "null" /\ UNCHANGED <<dump_status, life>>
     \/ dump_status' = "END" /\ UNCHANGED <<stderr, life>>
  /\ UNCHANGED <<handlerVars, callbackVars, dumperVars, native_crashed>>

\* tac_trace_dumper as far as this module can tell.
TraceThreadStep ==
  /\ life = "alive"
  /\ pc[TraceThread] \in InProgram
  /\ dump_status' \in DumpStatus
  /\ stderr' \in {stderr, "null", "trace_log"}
  /\ UNCHANGED <<handlerVars, callbackVars, dumperVars, native_crashed, life>>

\* SIGKILL, or a fault inside the handler, where every signal is blocked.
Killed ==
  /\ life = "alive"
  /\ life' = "killed"
  /\ UNCHANGED <<handlerVars, callbackVars, dumperVars,
                 native_crashed, dump_status, stderr>>

\* The dumper is a process of its own: it outlives the crashed one.
DumperRuns ==
  /\ DumperStep
  /\ UNCHANGED <<handlerVars, callbackVars, commonVars>>

\* What the thread does by itself; how long ART takes is not up to it.
OwnStep(t) ==
  \/ Lock(t) \/ OnlyOnce(t) \/ RestoreHandler(t) \/ JumpToTraceDumper(t)
  \/ OpenCrashLog(t) \/ Prepare(t) \/ SpawnDumper(t) \/ WaitDumper(t)
  \/ CheckBacktrace(t) \/ Fallback(t) \/ JavaStacktrace(t) \/ RestoreStderr(t)
  \/ Notify(t) \/ Join(t) \/ QueueAndReturn(t) \/ Reraise(t) \/ GoesOn(t)
  \/ ExitProcess(t)

HandlerStep(t) == OwnStep(t) \/ DumpJavaStack(t)

CrashStep ==
  \/ \E t \in Thread : HandlerStep(t) \/ Fault(t) \/ FaultUnhandled(t) \/ Wild(t)
  \/ CallbackStep
  \/ DumperRuns
  \/ Killed

CrashNext == CrashStep \/ TraceThreadStep

CrashSpec == CrashInit /\ [][CrashNext]_crashVars

\* A runnable thread is scheduled; nothing says that the dumper ends, that ART's
\* dump of the Java stack does or that the application's callback returns.
CrashFairness ==
  /\ \A t \in Thread : WF_crashVars(OwnStep(t))
  /\ WF_crashVars(CallbackGivesUp \/ CallbackCalls)

FairCrashSpec == CrashSpec /\ CrashFairness

-----------------------------------------------------------------------------
(* Safety.                                                                  *)

\* However many threads crash, and at whatever moment, one crash log is opened
\* (tac_crash.c "only once").
OneReport == reports <= 1

\* The report itself: frames from the dumper, or the fallback of the handler.
Reported(log) == log \cap {"backtrace", "fallback"} # {}

\* When crashCallback is called, the report is complete in the log behind the
\* path it gets or in the emergency string, whichever step failed before.
CallbackCarriesReport ==
  callback \in {"calling", "returned"} => Reported(given.log) \/ given.emergency

\* Java never gets a second time what the log already holds: neither the
\* emergency text nor the request to take the Java stack.
NothingTwice ==
  callback \in {"calling", "returned"} =>
    /\ ~(given.emergency /\ "fallback" \in given.log)
    /\ ~(given.java /\ "java" \in given.log)

\* The process may be traced by strangers only while a report is being made,
\* on every path through the handler.
TraceableOnlyWhileRecording ==
  prctls # {} => \E t \in Thread : pc[t] \in {"spawn", "wait", "check", "end"}

\* Descriptor 2 refers to the crash log only while the Java stack is dumped,
\* whatever the trace thread does to it meanwhile.
StderrOnlyForJavaStack ==
  stderr = "crash_log" => \E t \in Thread : pc[t] \in {"dump", "undup"}

-----------------------------------------------------------------------------
(* Liveness and the promise to the application.                             *)

\* The mutex was left locked by siglongjmp.
Abandoned == \E t \in Thread : crash_mutex = t /\ pc[t] \in {"run", "wild"}

\* The callback thread took a signal of its own and waits for the mutex of
\* the handler that is about to join it.
CallbackCaught == pc[CallbackThread] = "lock"

\* The signal that was recorded did not come again: its thread is back in the
\* program and nobody else stands in the handler.
LivesOn ==
  /\ \E t \in Thread : pc[t] = "resumed"
  /\ \A t \in Thread : pc[t] \notin Handling

\* Once a thread enters the handler the process ends, or lives on with nobody
\* left in the handler, except in exactly these ways to hang: the dumper does
\* not end, ART's dump of the Java stack or the Java callback does not return,
\* the mutex was abandoned, or the callback thread itself stands in the handler.
CrashEnds ==
  \/ <>[](dumper = "running")
  \/ <>[](\E t \in Thread : pc[t] = "dump")
  \/ <>[](callback = "calling")
  \/ <>[]Abandoned
  \/ <>[]CallbackCaught
  \/ (\E t \in Thread : pc[t] \in Handling) ~> (life # "alive" \/ LivesOn)

HandedToJava == callback \in {"calling", "returned"}

\* The variables of the contract in terms of the handler's.
CapturePhase ==
  IF life # "alive" THEN "ended"
  ELSE IF HandedToJava THEN "handed"
  ELSE IF ~native_crashed THEN "armed"
  ELSE IF Abandoned THEN "lost"
  ELSE "capturing"

HandedPlace ==
  IF ~HandedToJava THEN "nowhere"
  ELSE IF given.emergency THEN "emergency"
  ELSE IF Reported(given.log) THEN "log"
  ELSE "nowhere"

Contract == INSTANCE CrashContract WITH phase <- CapturePhase, handed <- HandedPlace

\* The handler keeps the promise of CrashContract.
KeepsContract == Contract!ContractSpec
==============================================================================
