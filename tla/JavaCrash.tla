------------------------------- MODULE JavaCrash -------------------------------
(***************************************************************************)
(* JavaCrashHandler: what any number of Java threads do between an uncaught *)
(* exception and the death of the process, sharing one process-wide default *)
(* handler and one log directory in which names differ by milliseconds.     *)
(***************************************************************************)
EXTENDS Naturals, FiniteSets

CONSTANTS
  JavaThread,    \* the Java threads of the application
  JavaRethrow,   \* rethrow
  HasPrevious,   \* defaultHandler # null
  HasListener,   \* logListener # null in the lambda of TACrash
  NativeReady,   \* initNativeSuccess && anrEnable
  MaxTime        \* bound: milliseconds that pass

ASSUME JavaAssumption ==
  /\ {JavaRethrow, HasPrevious, HasListener, NativeReady} \subseteq BOOLEAN
  /\ MaxTime \in Nat

VARIABLES
  jpc,         \* where each thread is in uncaughtException
  installed,   \* the default uncaught exception handler of the process
  told,        \* who knows of the Java crash
  now,         \* the clock, in milliseconds
  stamp,       \* crashTime of each thread
  files,       \* Java crash logs in the directory, by the time in their name
  content,     \* whose report each of them holds
  log_file,    \* logFile # null
  emergency,   \* emergency # null
  built,       \* getEmergency returned (history)
  heard,       \* the listener got the file of this thread (history)
  process      \* "alive", or what ended the process

javaVars == <<jpc, installed, told, now, stamp, files, content, log_file,
              emergency, built, heard, process>>

Time == 0 .. MaxTime

\* "run" outside the handler; "escaped" after an Error left it; "unhandled" in
\* the handler that was installed before this library's.
Recorded == {"callback", "listening", "sleep"}
InHandler == {"restore", "notify", "create", "emergency", "write"} \cup Recorded
JavaStep == {"run", "escaped", "unhandled"} \cup InHandler

JavaTypeOK ==
  /\ jpc \in [JavaThread -> JavaStep]
  /\ installed \in {"ours", "previous"}
  /\ told \in SUBSET {"anr", "native"}
  /\ now \in Time
  /\ stamp \in [JavaThread -> Time]
  /\ files \in SUBSET Time
  /\ content \in [Time -> SUBSET JavaThread]
  /\ log_file \in [JavaThread -> BOOLEAN]
  /\ emergency \in [JavaThread -> BOOLEAN]
  /\ built \in [JavaThread -> BOOLEAN]
  /\ heard \in [JavaThread -> BOOLEAN]
  /\ process \in {"alive", "previous", "killed"}

JavaInit ==
  /\ jpc = [t \in JavaThread |-> "run"]
  /\ installed = "ours"
  /\ told = {}
  /\ now = 0
  /\ stamp = [t \in JavaThread |-> 0]
  /\ files = {}
  /\ content = [s \in Time |-> {}]
  /\ log_file = [t \in JavaThread |-> FALSE]
  /\ emergency = [t \in JavaThread |-> FALSE]
  /\ built = [t \in JavaThread |-> FALSE]
  /\ heard = [t \in JavaThread |-> FALSE]
  /\ process = "alive"

Step(t, from, to) ==
  /\ process = "alive"
  /\ jpc[t] = from
  /\ jpc' = [jpc EXCEPT ![t] = to]

Tick ==
  /\ process = "alive"
  /\ now < MaxTime
  /\ now' = now + 1
  /\ UNCHANGED <<jpc, installed, told, stamp, files, content, log_file, emergency,
                 built, heard, process>>

-----------------------------------------------------------------------------
(* uncaughtException.                                                       *)

\* The runtime looks up the default handler when the exception is thrown: two
\* threads may both find ours before either has put the previous one back.
UncaughtException(t) ==
  /\ installed = "ours"
  /\ Step(t, "run", "restore")
  /\ UNCHANGED <<installed, told, now, stamp, files, content, log_file, emergency,
                 built, heard, process>>

\* A later exception goes to the previous handler, which ends the process
\* whatever the first thread is doing.
UncaughtByPrevious(t) ==
  /\ installed = "previous"
  /\ Step(t, "run", "unhandled")
  /\ process' = "previous"
  /\ UNCHANGED <<installed, told, now, stamp, files, content, log_file, emergency,
                 built, heard>>

RestoreDefault(t) ==
  /\ Step(t, "restore", "notify")
  /\ installed' = IF HasPrevious THEN "previous" ELSE installed
  /\ UNCHANGED <<told, now, stamp, files, content, log_file, emergency, built,
                 heard, process>>

\* crashTime, AnrHandler.notifyJavaCrashed and NativeHandler.notifyJavaCrashed.
NotifyCrashed(t) ==
  /\ Step(t, "notify", "create")
  /\ stamp' = [stamp EXCEPT ![t] = now]
  /\ told' = told \cup {"anr"} \cup (IF NativeReady THEN {"native"} ELSE {})
  /\ UNCHANGED <<installed, now, files, content, log_file, emergency, built,
                 heard, process>>

\* Mutant: a file that is there already is taken.
CreateOrReuse(t) ==
  /\ Step(t, "create", "emergency")
  /\ files' = files \cup {stamp[t]}
  /\ log_file' = [log_file EXCEPT ![t] = TRUE]
  /\ UNCHANGED <<installed, told, now, stamp, content, emergency, built, heard, process>>

\* Utils.createFile: createNewFile is atomic, and a file that exists is no
\* file for this thread; neither is one that cannot be created.
CreateFile(t) ==
  /\ Step(t, "create", "emergency")
  /\ \/ /\ stamp[t] \notin files
        /\ files' = files \cup {stamp[t]}
        /\ log_file' = [log_file EXCEPT ![t] = TRUE]
     \/ UNCHANGED <<files, log_file>>
  /\ UNCHANGED <<installed, told, now, stamp, content, emergency, built, heard, process>>

\* An Exception in getEmergency leaves null.
GetEmergency(t) ==
  /\ Step(t, "emergency", "write")
  /\ \E ok \in BOOLEAN :
       /\ emergency' = [emergency EXCEPT ![t] = ok]
       /\ built' = [built EXCEPT ![t] = ok]
  /\ UNCHANGED <<installed, told, now, stamp, files, content, log_file, heard, process>>

Writes(t) ==
  content' = IF emergency[t] THEN [content EXCEPT ![stamp[t]] = @ \cup {t}] ELSE content

\* Mutant: `emergency = null` before the write that may fail.
ClearThenWrite(t) ==
  /\ Step(t, "write", "callback")
  /\ emergency' = [emergency EXCEPT ![t] = ~log_file[t] /\ @]
  /\ \/ log_file[t] /\ Writes(t)
     \/ UNCHANGED content
  /\ UNCHANGED <<installed, told, now, stamp, files, log_file, built, heard, process>>

\* Open the log, write the report, forget it, write the foreground line.  When
\* the open or the first write fails the report stays in `emergency`.
WriteLog(t) ==
  /\ Step(t, "write", "callback")
  /\ \/ /\ log_file[t]
        /\ Writes(t)
        /\ emergency' = [emergency EXCEPT ![t] = FALSE]
     \/ UNCHANGED <<content, emergency>>
  /\ UNCHANGED <<installed, told, now, stamp, files, log_file, built, heard, process>>

\* onCrash of TACrash: without a file crashType is null and crashType.name()
\* throws before the listener; with one the listener gets the file only.
OnCrash(t) ==
  /\ \/ /\ log_file[t] /\ HasListener
        /\ Step(t, "callback", "listening")
        /\ heard' = [heard EXCEPT ![t] = TRUE]
     \/ /\ ~(log_file[t] /\ HasListener)
        /\ Step(t, "callback", "sleep")
        /\ UNCHANGED heard
  /\ UNCHANGED <<installed, told, now, stamp, files, content, log_file, emergency,
                 built, process>>

ListenerReturns(t) ==
  /\ Step(t, "listening", "sleep")
  /\ UNCHANGED <<installed, told, now, stamp, files, content, log_file, emergency,
                 built, heard, process>>

\* Mutant: the process is ended only through the previous handler.
OnlyRethrow(t) ==
  /\ JavaRethrow /\ HasPrevious
  /\ Step(t, "sleep", "unhandled")
  /\ process' = "previous"
  /\ UNCHANGED <<installed, told, now, stamp, files, content, log_file, emergency,
                 built, heard>>

\* After a second of sleep the previous handler or killProcess ends it all.
Finish(t) ==
  /\ Step(t, "sleep", "unhandled")
  /\ process' = IF JavaRethrow /\ HasPrevious THEN "previous" ELSE "killed"
  /\ UNCHANGED <<installed, told, now, stamp, files, content, log_file, emergency,
                 built, heard>>

\* Every catch is for Exception: an Error (no memory, a stack that overflowed)
\* leaves uncaughtException, the runtime drops it and the thread is gone.
ErrorEscapes(t) ==
  /\ \E from \in InHandler \ {"restore", "sleep"} : Step(t, from, "escaped")
  /\ UNCHANGED <<installed, told, now, stamp, files, content, log_file, emergency,
                 built, heard, process>>

HandlesException(t) ==
  \/ RestoreDefault(t) \/ NotifyCrashed(t) \/ CreateFile(t) \/ GetEmergency(t)
  \/ WriteLog(t) \/ OnCrash(t) \/ Finish(t)

JavaNext ==
  \/ Tick
  \/ \E t \in JavaThread :
       \/ UncaughtException(t) \/ UncaughtByPrevious(t) \/ HandlesException(t)
       \/ ListenerReturns(t) \/ ErrorEscapes(t)

JavaSpec == JavaInit /\ [][JavaNext]_javaVars

\* Threads are scheduled; the application's listener need not return.
FairJavaSpec ==
  JavaSpec /\ \A t \in JavaThread : WF_javaVars(HandlesException(t))

-----------------------------------------------------------------------------
(* Properties.                                                              *)

\* Reports of two threads never mix in one file, even when they crash in the
\* same millisecond.
OneReportPerFile == \A s \in Time : Cardinality(content[s]) <= 1

\* handleException: once the log was tried, a report that was built is in the
\* thread's own file or still in `emergency`, in one place and not in both.
ReportInOnePlace ==
  \A t \in JavaThread :
    jpc[t] \in Recorded /\ built[t] =>
      (emergency[t] # (log_file[t] /\ t \in content[stamp[t]]))

\* uncaughtException ends the process, unless an Error leaves the handler or
\* the application's listener does not return.
UncaughtEndsProcess ==
  \/ <>[](\E t \in JavaThread : jpc[t] = "escaped")
  \/ <>[](\E t \in JavaThread : jpc[t] = "listening")
  \/ (\E t \in JavaThread : jpc[t] \in InHandler) ~> process # "alive"
==============================================================================
