------------------------------ MODULE NativeInit ------------------------------
(***************************************************************************)
(* Initialisation of the native layer: TACrash.initNativeCrashHandler down  *)
(* to nativeInit, tac_common_init, tac_crash_init and tac_trace_init, called *)
(* again and again by the application (each onCreate calls it), while       *)
(* signals and Java crashes may come between any two of its steps, and the  *)
(* thread that it starts attaches to the Java VM at its own pace.           *)
(***************************************************************************)
EXTENDS Naturals

VARIABLES
  art,            \* tac_common_api_level >= 21; the same for every call
  crash_enable,   \* crash_enable of the last call
  trace_enable,   \* trace_enable of the last call; NativeHandler.anrEnable
  npc,            \* where the calling thread is
  initialized,    \* TACrash.nativeInitialized
  init_success,   \* NativeHandler.initNativeSuccess
  init_status,    \* tac_jni_init_status
  result_crash,   \* 0 or an error
  result_trace,
  crash_data,     \* what tac_crash_signal_handler uses is allocated and set
  handled,        \* crash signals that have our action
  notifier,       \* tac_trace_notifier >= 0
  quit_handler,   \* SIGQUIT has our action
  trace_thread,   \* the thread of tac_trace_dumper
  java_crashed,   \* tac_common_java_crashed
  java_notified   \* notifyJavaCrashed was called while that thread was alive
                  \* (history)

crashPart == <<crash_data, handled>>
tracePart == <<notifier, quit_handler, trace_thread>>
javaPart == <<java_crashed, java_notified>>
arguments == <<art, crash_enable, trace_enable>>
results == <<result_crash, result_trace>>
initVars == <<arguments, npc, initialized, init_success, init_status, results,
              crashPart, tracePart, javaPart>>

InitStep == {"idle", "entry", "common", "crash", "register", "trace", "sigquit",
             "thread", "unregister", "unnotify", "leave", "dead"}
Error == {"0", "error"}

\* sigaction is called for eight signals, one after the other; a failure
\* leaves the actions that were set before it.
Handled == {"none", "some", "all"}

\* "starting" until the thread is attached, "unattached" when that failed and it
\* has ended, "ended" when it has seen a crash.
TraceThreadState == {"none", "starting", "running", "unattached", "ended"}
TraceThreadLives == trace_thread \in {"starting", "running"}

InitTypeOK ==
  /\ npc \in InitStep
  /\ {art, crash_enable, trace_enable, initialized, init_success, init_status,
      crash_data, notifier, quit_handler,
      java_crashed, java_notified} \subseteq BOOLEAN
  /\ {result_crash, result_trace} \subseteq Error
  /\ handled \in Handled
  /\ trace_thread \in TraceThreadState

InitInit ==
  /\ art \in BOOLEAN
  /\ crash_enable = FALSE
  /\ trace_enable = FALSE
  /\ npc = "idle"
  /\ initialized = FALSE
  /\ init_success = FALSE
  /\ init_status = FALSE
  /\ result_crash = "error"
  /\ result_trace = "error"
  /\ crash_data = FALSE
  /\ handled = "none"
  /\ notifier = FALSE
  /\ quit_handler = FALSE
  /\ trace_thread = "none"
  /\ java_crashed = FALSE
  /\ java_notified = FALSE

Advance(from, to) == npc = from /\ npc' = to

-----------------------------------------------------------------------------
(* TACrash and NativeHandler.                                               *)

\* initNativeCrashHandler, unless the library cannot be loaded.
InitNativeCrashHandler ==
  /\ ~initialized
  /\ Advance("idle", "entry")
  /\ crash_enable' \in BOOLEAN
  /\ trace_enable' \in BOOLEAN
  /\ UNCHANGED <<art, initialized, init_success, init_status, results, crashPart,
                 tracePart, javaPart>>

\* nativeInit: refused after the first call, whatever became of it; bad
\* parameters use up the one call as well.
NativeInitEntry ==
  /\ init_status' = TRUE
  /\ result_crash' = "error"
  /\ result_trace' = "error"
  /\ \/ ~init_status /\ (crash_enable \/ trace_enable) /\ Advance("entry", "common")
     \/ Advance("entry", "leave")
  /\ UNCHANGED <<arguments, initialized, init_success, crashPart, tracePart,
                 javaPart>>

\* GetStringUTFChars and tac_common_init.  On its error path the latter frees
\* what it set, the literal "unknown" of an empty value too, on which the
\* allocator aborts the process.
CommonInit ==
  /\ \/ /\ Advance("common", IF crash_enable THEN "crash" ELSE "trace")
        /\ result_crash' = "0"
        /\ result_trace' = "0"
     \/ npc' \in {"leave", "dead"} /\ npc = "common" /\ UNCHANGED results
  /\ UNCHANGED <<arguments, initialized, init_success, init_status, crashPart,
                 tracePart, javaPart>>

AfterCrash == IF trace_enable THEN "trace" ELSE "leave"

\* Mutant: the actions are installed before the data is complete.
RegisterFirst ==
  /\ Advance("crash", "register")
  /\ handled' = "all"
  /\ UNCHANGED <<arguments, initialized, init_success, init_status, results,
                 crash_data,
                 tracePart, javaPart>>

\* tac_crash_init up to the registration.  A callback thread that cannot be
\* created is no error here.
CrashData ==
  /\ \/ Advance("crash", "register") /\ crash_data' = TRUE /\ UNCHANGED result_crash
     \/ Advance("crash", AfterCrash) /\ result_crash' = "error" /\ UNCHANGED crash_data
  /\ UNCHANGED <<arguments, initialized, init_success, init_status,
                 result_trace, handled,
                 tracePart, javaPart>>

\* Mutant: the result of the registration is dropped.
RegisterUnchecked ==
  /\ Advance("register", AfterCrash)
  /\ handled' \in Handled
  /\ crash_data' = TRUE
  /\ UNCHANGED <<arguments, initialized, init_success, init_status, results,
                 tracePart, javaPart>>

\* tacc_signal_crash_register.
CrashRegister ==
  /\ Advance("register", AfterCrash)
  /\ handled' \in Handled
  /\ result_crash' = IF handled' = "all" THEN "0" ELSE "error"
  /\ UNCHANGED <<arguments, initialized, init_success, init_status,
                 result_trace, crash_data,
                 tracePart, javaPart>>

\* tac_trace_init: only for ART; the eventfd.
TraceNotifier ==
  /\ \/ art /\ Advance("trace", "sigquit") /\ notifier' = TRUE /\ UNCHANGED result_trace
     \/ art /\ Advance("trace", "leave") /\ result_trace' = "error" /\ UNCHANGED notifier
     \/ ~art /\ Advance("trace", "leave") /\ result_trace' = "0" /\ UNCHANGED notifier
  /\ UNCHANGED <<arguments, initialized, init_success, init_status,
                 result_crash, crashPart,
                 quit_handler, trace_thread, javaPart>>

TraceRegister ==
  /\ \/ Advance("sigquit", "thread") /\ quit_handler' = TRUE
     \/ Advance("sigquit", "unnotify") /\ UNCHANGED quit_handler
  /\ UNCHANGED <<arguments, initialized, init_success, init_status, results,
                 crashPart,
                 notifier, trace_thread, javaPart>>

\* Mutant: a thread that cannot be created leaves SIGQUIT with our action.
SkipUnregister == "unnotify"

\* Label err1, where a thread that cannot be created leads.
ThreadFails == "unregister"

\* pthread_create; nobody waits for the thread to get anywhere.
TraceThreadCreate ==
  /\ \/ Advance("thread", "leave") /\ trace_thread' = "starting"
     \/ Advance("thread", ThreadFails) /\ UNCHANGED trace_thread
  /\ UNCHANGED <<arguments, initialized, init_success, init_status, results,
                 crashPart,
                 notifier, quit_handler, javaPart>>

TraceUnregister ==
  /\ Advance("unregister", "unnotify")
  /\ quit_handler' = FALSE
  /\ UNCHANGED <<arguments, initialized, init_success, init_status, results,
                 crashPart,
                 notifier, trace_thread, javaPart>>

\* Label err2.
TraceUnnotify ==
  /\ Advance("unnotify", "leave")
  /\ notifier' = FALSE
  /\ result_trace' = "error"
  /\ UNCHANGED <<arguments, initialized, init_success, init_status,
                 result_crash, crashPart,
                 quit_handler, trace_thread, javaPart>>

\* Both results, back through NativeHandler.initialize and TACrash.
Leave ==
  LET ok == result_crash = "0" /\ result_trace = "0"
  IN /\ Advance("leave", "idle")
     /\ init_success' = (init_success \/ ok)
     /\ initialized' = ok
     /\ UNCHANGED <<arguments, init_status, results, crashPart, tracePart,
                    javaPart>>

-----------------------------------------------------------------------------
(* Beside the call.                                                         *)

\* AttachCurrentThread in the new thread, before or after the call has returned.
\* When it fails the thread gives up its notifier and ends; SIGQUIT stays ours.
TraceThreadAttach ==
  /\ trace_thread = "starting"
  /\ \/ trace_thread' = "running" /\ UNCHANGED notifier
     \/ trace_thread' = "unattached" /\ notifier' = FALSE
  /\ UNCHANGED <<arguments, npc, initialized, init_success, init_status, results,
                 crashPart, quit_handler, javaPart>>

\* Its next turn after a Java crash that it was told of; TraceDumper has the
\* turns and NativeCapture the native crashes.
TraceThreadEnd ==
  /\ trace_thread = "running"
  /\ java_crashed
  /\ trace_thread' = "ended"
  /\ notifier' = FALSE
  /\ UNCHANGED <<arguments, npc, initialized, init_success, init_status, results,
                 crashPart, quit_handler, javaPart>>

\* NativeHandler.notifyJavaCrashed on a crashing Java thread.
NotifyNative ==
  /\ npc # "dead"
  /\ java_notified' = (java_notified \/ TraceThreadLives)
  /\ java_crashed' = (java_crashed \/ (init_success /\ trace_enable))
  /\ UNCHANGED <<arguments, npc, initialized, init_success, init_status,
                 results, crashPart,
                 tracePart>>

InitCallStep ==
  \/ InitNativeCrashHandler \/ NativeInitEntry \/ CommonInit \/ CrashData
  \/ CrashRegister \/ TraceNotifier \/ TraceRegister \/ TraceThreadCreate
  \/ TraceUnregister \/ TraceUnnotify \/ Leave

TraceThreadStep == TraceThreadAttach \/ TraceThreadEnd

InitNext == InitCallStep \/ TraceThreadStep \/ NotifyNative

InitSpec == InitInit /\ [][InitNext]_initVars

-----------------------------------------------------------------------------
(* Properties.                                                              *)

\* A crash signal can meet the handler from the first sigaction on: all that
\* the handler uses is there by then.
HandlerFindsData == handled # "none" => crash_data

\* What Java takes for success is an armed native layer: every signal that was
\* asked for has its handler, and SIGQUIT has a reader, unless the thread that
\* was started could not attach to the VM, of which nobody is told, or has
\* stopped because Java crashed.
SuccessMeansArmed ==
  init_success =>
    /\ crash_enable => handled = "all"
    /\ trace_enable /\ art =>
         /\ quit_handler
         /\ \/ notifier /\ TraceThreadLives
            \/ trace_thread = "unattached"
            \/ trace_thread = "ended" /\ java_crashed

\* A tac_trace_init that fails leaves SIGQUIT to ART, as it found it.  SIGQUIT
\* is ours without a reader only behind a thread that was started and has gone,
\* and a thread that may still read finds the notifier open.
TraceAllOrNothing ==
  /\ npc = "idle" => (quit_handler <=> trace_thread # "none")
  /\ npc = "idle" => (notifier <=> TraceThreadLives)
  /\ TraceThreadLives => notifier /\ quit_handler

\* tac_trace.c: "check if process already crashed": a Java crash that was
\* notified while the trace thread lived is what the thread finds at its check.
NoticeReaches == java_notified => java_crashed
==============================================================================
