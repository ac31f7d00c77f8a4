-------------------------- MODULE CrashHandlerProofs --------------------------
(***************************************************************************)
(* Safety of CrashHandler for every set of application threads and for both *)
(* values of Rethrow.                                                       *)
(***************************************************************************)
EXTENDS CrashHandler, TLAPS

-----------------------------------------------------------------------------
(* The inductive invariant.                                                 *)

\* Every thread past the lock holds tac_crash_mutex.
HoldsMutex ==
  life = "alive" => \A t \in Thread : pc[t] \in Critical => crash_mutex = t

\* tac_common_native_crashed is set by the thread that records, on its way in,
\* and by nobody before.
CrashMarked ==
  \A t \in Thread : /\ pc[t] = "restore" => ~native_crashed
                    /\ pc[t] \in Recording \cup {"reraise", "wild"} => native_crashed

\* No log is open before the one recorder gets to it.
NotYetOpened ==
  /\ ~native_crashed => reports = 0
  /\ \A t \in Thread : pc[t] = "report" => reports = 0

\* From the end of the recording on the report is somewhere.
ReportSaved ==
  /\ dump_ok => "backtrace" \in crash_log
  /\ notified \/ (\E t \in Thread : pc[t] \in {"java", "dump", "undup", "notify"})
       => Reported(crash_log) \/ emergency

\* What the handler itself adds to the log, and what it keeps back, is settled
\* once: nothing of it exists before the recorder reaches that point.
NothingAhead ==
  /\ ~native_crashed => ~emergency /\ ~java_flag /\ crash_log \cap {"fallback", "java"} = {}
  /\ \A t \in Thread :
       /\ pc[t] \in {"report", "prepare", "spawn", "wait", "check", "end"}
            => ~emergency /\ ~java_flag /\ crash_log \cap {"fallback", "java"} = {}
       /\ pc[t] = "java" => ~java_flag /\ "java" \notin crash_log
       /\ pc[t] \in {"dump", "undup"} => ~java_flag

\* Fallback text and Java stack are in one place only.
OnePlaceOnly ==
  /\ ~(emergency /\ "fallback" \in crash_log)
  /\ ~(java_flag /\ "java" \in crash_log)

\* Java gets the capture after its recording.  An abandoned capture, its mutex
\* left locked by siglongjmp, is never handed over: no thread can enter the
\* handler again.
HandsOverLast ==
  /\ ~native_crashed => ~notified /\ ~HandedToJava
  /\ \A t \in Thread :
       pc[t] \in Recording \ {"join", "queue"} => ~notified /\ ~HandedToJava
  /\ \A t \in Thread : pc[t] = "report" => disposition # "ours"
  /\ life = "alive" /\ Abandoned =>
       native_crashed /\ disposition # "ours" /\ ~notified /\ ~HandedToJava

CrashInv ==
  /\ TypeOK
  /\ HoldsMutex
  /\ CrashMarked
  /\ NotYetOpened
  /\ OneReport
  /\ ReportSaved
  /\ NothingAhead
  /\ OnePlaceOnly
  /\ CallbackCarriesReport
  /\ NothingTwice
  /\ TraceableOnlyWhileRecording
  /\ StderrOnlyForJavaStack
  /\ HandsOverLast

-----------------------------------------------------------------------------
(* The steps of CrashNext, grouped by the part of the handler they are in.  *)

Enters(t) ==
  Fault(t) \/ Lock(t) \/ OnlyOnce(t) \/ RestoreHandler(t) \/ JumpToTraceDumper(t)

Records(t) ==
  OpenCrashLog(t) \/ Prepare(t) \/ SpawnDumper(t) \/ WaitDumper(t) \/ CheckBacktrace(t)

TakesJavaStack(t) == JavaStacktrace(t) \/ DumpJavaStack(t) \/ RestoreStderr(t)

Leaves(t) == Notify(t) \/ Join(t) \/ QueueAndReturn(t) \/ GoesOn(t)

Dies(t) == Reraise(t) \/ ExitProcess(t) \/ FaultUnhandled(t) \/ Wild(t)

Outside == DumperRuns \/ Killed \/ TraceThreadStep \/ UNCHANGED crashVars

\* Every step belongs to one of the groups.
LEMMA StepCases ==
  ASSUME [CrashNext]_crashVars
  PROVE  \/ \E t \in Thread : \/ Enters(t) \/ Records(t) \/ Fallback(t)
                              \/ TakesJavaStack(t) \/ Leaves(t) \/ Dies(t)
         \/ CallbackStep
         \/ Outside
BY DEF CrashNext, CrashStep, HandlerStep, OwnStep, Enters, Records, TakesJavaStack,
       Leaves, Dies, Outside

-----------------------------------------------------------------------------
(* Types.                                                                   *)

\* Every step of the handler and its environment keeps the types.
LEMMA TypeOKStep ==
  ASSUME TypeOK, [CrashNext]_crashVars
  PROVE  TypeOK'
<1> USE HandlerAssumption, ThreadAssumption
    DEF TypeOK, CommonTypeOK, DumperTypeOK, Goto, handlerVars, callbackVars,
        dumperVars, commonVars, Step, InProgram, Handling, Critical, Recording, Disposition,
        DumpStatus, StderrTarget, Life, DumperState, Section, CallbackState
<1>1. ASSUME NEW t \in Thread, Fault(t) PROVE TypeOK'
  BY <1>1 DEF Fault
<1>2. ASSUME NEW t \in Thread, Lock(t) PROVE TypeOK'
  BY <1>2 DEF Lock
<1>3. ASSUME NEW t \in Thread, OnlyOnce(t) PROVE TypeOK'
  BY <1>3 DEF OnlyOnce
<1>4. ASSUME NEW t \in Thread, RestoreHandler(t) PROVE TypeOK'
  BY <1>4 DEF RestoreHandler
<1>5. ASSUME NEW t \in Thread, JumpToTraceDumper(t) PROVE TypeOK'
  BY <1>5 DEF JumpToTraceDumper
<1>6. ASSUME NEW t \in Thread, OpenCrashLog(t) PROVE TypeOK'
  BY <1>6 DEF OpenCrashLog
<1>7. ASSUME NEW t \in Thread, Prepare(t) PROVE TypeOK'
  BY <1>7 DEF Prepare
<1>8. ASSUME NEW t \in Thread, SpawnDumper(t) PROVE TypeOK'
  BY <1>8 DEF SpawnDumper
<1>9. ASSUME NEW t \in Thread, WaitDumper(t) PROVE TypeOK'
  BY <1>9 DEF WaitDumper
<1>10. ASSUME NEW t \in Thread, CheckBacktrace(t) PROVE TypeOK'
  BY <1>10 DEF CheckBacktrace
<1>11. ASSUME NEW t \in Thread, Fallback(t) PROVE TypeOK'
  <2>1. emergency' \in BOOLEAN
    BY <1>11 DEF Fallback
  <2>2. crash_log' \in SUBSET Section
    BY <1>11 DEF Fallback
  <2>3. pc' \in [Thread -> Step] /\ log_fd' \in {"closed", "open"}
    BY <1>11 DEF Fallback
  <2> QED
    BY <1>11, <2>1, <2>2, <2>3 DEF Fallback
<1>12. ASSUME NEW t \in Thread, JavaStacktrace(t) PROVE TypeOK'
  <2>1. java_flag' \in BOOLEAN
    BY <1>12 DEF JavaStacktrace
  <2> QED
    BY <1>12, <2>1 DEF JavaStacktrace
<1>13. ASSUME NEW t \in Thread, DumpJavaStack(t) PROVE TypeOK'
  BY <1>13 DEF DumpJavaStack
<1>14. ASSUME NEW t \in Thread, RestoreStderr(t) PROVE TypeOK'
  BY <1>14 DEF RestoreStderr
<1>15. ASSUME NEW t \in Thread, Notify(t) PROVE TypeOK'
  <2>1. notified' \in BOOLEAN
    BY <1>15 DEF Notify
  <2> QED
    BY <1>15, <2>1 DEF Notify
<1>16. ASSUME NEW t \in Thread, Join(t) PROVE TypeOK'
  BY <1>16 DEF Join
<1>17. ASSUME NEW t \in Thread, QueueAndReturn(t) PROVE TypeOK'
  BY <1>17 DEF QueueAndReturn
<1>18. ASSUME NEW t \in Thread, Reraise(t) PROVE TypeOK'
  BY <1>18 DEF Reraise
<1>19. ASSUME NEW t \in Thread, ExitProcess(t) PROVE TypeOK'
  BY <1>19 DEF ExitProcess
<1>20. ASSUME NEW t \in Thread, FaultUnhandled(t) PROVE TypeOK'
  BY <1>20 DEF FaultUnhandled
<1>21. ASSUME NEW t \in Thread, Wild(t) PROVE TypeOK'
  BY <1>21 DEF Wild
<1>22. CASE CallbackGivesUp
  <2>1. notified' \in BOOLEAN
    BY <1>22 DEF CallbackGivesUp
  <2> QED
    BY <1>22, <2>1 DEF CallbackGivesUp, CallbackRuns
<1>23. CASE CallbackCalls
  <2>1. given' \in Delivery
    <3>1. given' = [log |-> crash_log, emergency |-> emergency, java |-> java_flag]
      BY <1>23 DEF CallbackCalls
    <3> QED
      BY <3>1, Zenon DEF Delivery
  <2>2. notified' \in BOOLEAN
    BY <1>23 DEF CallbackCalls
  <2> QED
    BY <1>23, <2>1, <2>2 DEF CallbackCalls, CallbackRuns
<1>24. CASE CallbackReturns
  BY <1>24 DEF CallbackReturns, CallbackRuns
<1>25. CASE DumperRuns
  <2>1. crash_log' \in SUBSET Section /\ dumper' \in DumperState
    BY <1>25 DEF DumperRuns, DumperStep, DumperWritesBacktrace, DumperEnds
  <2> QED
    BY <1>25, <2>1 DEF DumperRuns
<1>26. CASE Killed
  BY <1>26 DEF Killed
<1>27. CASE TraceThreadStep
  BY <1>27 DEF TraceThreadStep
<1>28. CASE UNCHANGED crashVars
  BY <1>28 DEF crashVars
<1>29. ASSUME NEW t \in Thread, GoesOn(t) PROVE TypeOK'
  BY <1>29 DEF GoesOn
<1> QED
  BY <1>1, <1>2, <1>3, <1>4, <1>5, <1>6, <1>7, <1>8, <1>9, <1>10, <1>11,
     <1>12, <1>13, <1>14, <1>15, <1>16, <1>17, <1>18, <1>19, <1>20, <1>21,
     <1>22, <1>23, <1>24, <1>25, <1>26, <1>27, <1>28, <1>29
     DEF CrashNext, CrashStep, HandlerStep, OwnStep, CallbackStep

-----------------------------------------------------------------------------
(* One lemma per part of the invariant: the parts it rests on, and the step. *)

\* tac_crash_mutex has one holder, and everybody past the lock is that holder.
LEMMA HoldsMutexStep ==
  ASSUME TypeOK, HoldsMutex, [CrashNext]_crashVars
  PROVE  HoldsMutex'
<1> USE HandlerAssumption DEF TypeOK, HoldsMutex, Critical, Recording, Goto, handlerVars, callbackVars, dumperVars, commonVars
<1>1. ASSUME NEW t \in Thread, Enters(t) PROVE HoldsMutex'
  BY <1>1 DEF Enters, Fault, Lock, OnlyOnce, RestoreHandler, JumpToTraceDumper
<1>2. ASSUME NEW t \in Thread, Records(t) PROVE HoldsMutex'
  BY <1>2 DEF Records, OpenCrashLog, Prepare, SpawnDumper, WaitDumper, CheckBacktrace
<1>3. ASSUME NEW t \in Thread, Fallback(t) PROVE HoldsMutex'
  BY <1>3 DEF Fallback
<1>4. ASSUME NEW t \in Thread, TakesJavaStack(t) PROVE HoldsMutex'
  BY <1>4 DEF TakesJavaStack, JavaStacktrace, DumpJavaStack, RestoreStderr
<1>5. ASSUME NEW t \in Thread, Leaves(t) PROVE HoldsMutex'
  BY <1>5 DEF Leaves, Notify, Join, QueueAndReturn, GoesOn
<1>6. ASSUME NEW t \in Thread, Dies(t) PROVE HoldsMutex'
  BY <1>6 DEF Dies, Reraise, ExitProcess, FaultUnhandled, Wild
<1>7. CASE CallbackStep
  BY <1>7 DEF CallbackStep, CallbackGivesUp, CallbackCalls, CallbackReturns, CallbackRuns
<1>8. CASE Outside
  BY <1>8 DEF Outside, DumperRuns, DumperStep, DumperWritesBacktrace, DumperEnds,
              Killed, TraceThreadStep, crashVars
<1> QED
  BY <1>1, <1>2, <1>3, <1>4, <1>5, <1>6, <1>7, <1>8, StepCases

\* tac_common_native_crashed is set by the thread that holds the mutex.
LEMMA CrashMarkedStep ==
  ASSUME TypeOK, HoldsMutex, CrashMarked, [CrashNext]_crashVars
  PROVE  CrashMarked'
<1> USE HandlerAssumption DEF TypeOK, HoldsMutex, CrashMarked, Critical, Recording, Goto, handlerVars, callbackVars, dumperVars, commonVars
<1>1. ASSUME NEW t \in Thread, Enters(t) PROVE CrashMarked'
  BY <1>1 DEF Enters, Fault, Lock, OnlyOnce, RestoreHandler, JumpToTraceDumper
<1>2. ASSUME NEW t \in Thread, Records(t) PROVE CrashMarked'
  BY <1>2 DEF Records, OpenCrashLog, Prepare, SpawnDumper, WaitDumper, CheckBacktrace
<1>3. ASSUME NEW t \in Thread, Fallback(t) PROVE CrashMarked'
  BY <1>3 DEF Fallback
<1>4. ASSUME NEW t \in Thread, TakesJavaStack(t) PROVE CrashMarked'
  BY <1>4 DEF TakesJavaStack, JavaStacktrace, DumpJavaStack, RestoreStderr
<1>5. ASSUME NEW t \in Thread, Leaves(t) PROVE CrashMarked'
  BY <1>5 DEF Leaves, Notify, Join, QueueAndReturn, GoesOn
<1>6. ASSUME NEW t \in Thread, Dies(t) PROVE CrashMarked'
  BY <1>6 DEF Dies, Reraise, ExitProcess, FaultUnhandled, Wild
<1>7. CASE CallbackStep
  BY <1>7 DEF CallbackStep, CallbackGivesUp, CallbackCalls, CallbackReturns, CallbackRuns
<1>8. CASE Outside
  BY <1>8 DEF Outside, DumperRuns, DumperStep, DumperWritesBacktrace, DumperEnds,
              Killed, TraceThreadStep, crashVars
<1> QED
  BY <1>1, <1>2, <1>3, <1>4, <1>5, <1>6, <1>7, <1>8, StepCases

\* No log is open before the recorder opens one.
LEMMA NotYetOpenedStep ==
  ASSUME TypeOK, HoldsMutex, CrashMarked, NotYetOpened, [CrashNext]_crashVars
  PROVE  NotYetOpened'
<1> USE HandlerAssumption DEF TypeOK, HoldsMutex, CrashMarked, NotYetOpened, Critical, Recording, Goto, handlerVars, callbackVars, dumperVars, commonVars
<1>1. ASSUME NEW t \in Thread, Enters(t) PROVE NotYetOpened'
  BY <1>1 DEF Enters, Fault, Lock, OnlyOnce, RestoreHandler, JumpToTraceDumper
<1>2. ASSUME NEW t \in Thread, Records(t) PROVE NotYetOpened'
  BY <1>2 DEF Records, OpenCrashLog, Prepare, SpawnDumper, WaitDumper, CheckBacktrace
<1>3. ASSUME NEW t \in Thread, Fallback(t) PROVE NotYetOpened'
  BY <1>3 DEF Fallback
<1>4. ASSUME NEW t \in Thread, TakesJavaStack(t) PROVE NotYetOpened'
  BY <1>4 DEF TakesJavaStack, JavaStacktrace, DumpJavaStack, RestoreStderr
<1>5. ASSUME NEW t \in Thread, Leaves(t) PROVE NotYetOpened'
  BY <1>5 DEF Leaves, Notify, Join, QueueAndReturn, GoesOn
<1>6. ASSUME NEW t \in Thread, Dies(t) PROVE NotYetOpened'
  BY <1>6 DEF Dies, Reraise, ExitProcess, FaultUnhandled, Wild
<1>7. CASE CallbackStep
  BY <1>7 DEF CallbackStep, CallbackGivesUp, CallbackCalls, CallbackReturns, CallbackRuns
<1>8. CASE Outside
  BY <1>8 DEF Outside, DumperRuns, DumperStep, DumperWritesBacktrace, DumperEnds,
              Killed, TraceThreadStep, crashVars
<1> QED
  BY <1>1, <1>2, <1>3, <1>4, <1>5, <1>6, <1>7, <1>8, StepCases

\* The recorder that opens a log is the first to do so.
LEMMA OneReportStep ==
  ASSUME TypeOK, NotYetOpened, OneReport, [CrashNext]_crashVars
  PROVE  OneReport'
<1> USE HandlerAssumption DEF TypeOK, NotYetOpened, OneReport, Goto, handlerVars, callbackVars, dumperVars, commonVars
<1>1. ASSUME NEW t \in Thread, Enters(t) PROVE OneReport'
  BY <1>1 DEF Enters, Fault, Lock, OnlyOnce, RestoreHandler, JumpToTraceDumper
<1>2. ASSUME NEW t \in Thread, Records(t) PROVE OneReport'
  BY <1>2 DEF Records, OpenCrashLog, Prepare, SpawnDumper, WaitDumper, CheckBacktrace
<1>3. ASSUME NEW t \in Thread, Fallback(t) PROVE OneReport'
  BY <1>3 DEF Fallback
<1>4. ASSUME NEW t \in Thread, TakesJavaStack(t) PROVE OneReport'
  BY <1>4 DEF TakesJavaStack, JavaStacktrace, DumpJavaStack, RestoreStderr
<1>5. ASSUME NEW t \in Thread, Leaves(t) PROVE OneReport'
  BY <1>5 DEF Leaves, Notify, Join, QueueAndReturn, GoesOn
<1>6. ASSUME NEW t \in Thread, Dies(t) PROVE OneReport'
  BY <1>6 DEF Dies, Reraise, ExitProcess, FaultUnhandled, Wild
<1>7. CASE CallbackStep
  BY <1>7 DEF CallbackStep, CallbackGivesUp, CallbackCalls, CallbackReturns, CallbackRuns
<1>8. CASE Outside
  BY <1>8 DEF Outside, DumperRuns, DumperStep, DumperWritesBacktrace, DumperEnds,
              Killed, TraceThreadStep, crashVars
<1> QED
  BY <1>1, <1>2, <1>3, <1>4, <1>5, <1>6, <1>7, <1>8, StepCases

\* Fallback leaves a report in the log or in the emergency buffer.
LEMMA ReportSavedStep ==
  ASSUME TypeOK, ReportSaved, [CrashNext]_crashVars
  PROVE  ReportSaved'
<1> USE HandlerAssumption DEF TypeOK, ReportSaved, Reported, Goto, handlerVars, callbackVars, dumperVars, commonVars
<1>1. ASSUME NEW t \in Thread, Enters(t) PROVE ReportSaved'
  BY <1>1 DEF Enters, Fault, Lock, OnlyOnce, RestoreHandler, JumpToTraceDumper
<1>2. ASSUME NEW t \in Thread, Records(t) PROVE ReportSaved'
  BY <1>2 DEF Records, OpenCrashLog, Prepare, SpawnDumper, WaitDumper, CheckBacktrace
<1>3. ASSUME NEW t \in Thread, Fallback(t) PROVE ReportSaved'
  BY <1>3 DEF Fallback
<1>4. ASSUME NEW t \in Thread, TakesJavaStack(t) PROVE ReportSaved'
  BY <1>4 DEF TakesJavaStack, JavaStacktrace, DumpJavaStack, RestoreStderr
<1>5. ASSUME NEW t \in Thread, Leaves(t) PROVE ReportSaved'
  BY <1>5 DEF Leaves, Notify, Join, QueueAndReturn, GoesOn
<1>6. ASSUME NEW t \in Thread, Dies(t) PROVE ReportSaved'
  BY <1>6 DEF Dies, Reraise, ExitProcess, FaultUnhandled, Wild
<1>7. CASE CallbackStep
  BY <1>7 DEF CallbackStep, CallbackGivesUp, CallbackCalls, CallbackReturns, CallbackRuns
<1>8. CASE Outside
  BY <1>8 DEF Outside, DumperRuns, DumperStep, DumperWritesBacktrace, DumperEnds,
              Killed, TraceThreadStep, crashVars
<1> QED
  BY <1>1, <1>2, <1>3, <1>4, <1>5, <1>6, <1>7, <1>8, StepCases

\* What the handler adds to the log and keeps back is settled once.
LEMMA NothingAheadStep ==
  ASSUME TypeOK, HoldsMutex, CrashMarked, NothingAhead, [CrashNext]_crashVars
  PROVE  NothingAhead'
<1> USE HandlerAssumption DEF TypeOK, HoldsMutex, CrashMarked, NothingAhead, Critical, Recording, Goto, handlerVars, callbackVars, dumperVars, commonVars
<1>1. ASSUME NEW t \in Thread, Enters(t) PROVE NothingAhead'
  BY <1>1 DEF Enters, Fault, Lock, OnlyOnce, RestoreHandler, JumpToTraceDumper
<1>2. ASSUME NEW t \in Thread, Records(t) PROVE NothingAhead'
  BY <1>2 DEF Records, OpenCrashLog, Prepare, SpawnDumper, WaitDumper, CheckBacktrace
<1>3. ASSUME NEW t \in Thread, Fallback(t) PROVE NothingAhead'
  BY <1>3 DEF Fallback
<1>4. ASSUME NEW t \in Thread, TakesJavaStack(t) PROVE NothingAhead'
  BY <1>4 DEF TakesJavaStack, JavaStacktrace, DumpJavaStack, RestoreStderr
<1>5. ASSUME NEW t \in Thread, Leaves(t) PROVE NothingAhead'
  BY <1>5 DEF Leaves, Notify, Join, QueueAndReturn, GoesOn
<1>6. ASSUME NEW t \in Thread, Dies(t) PROVE NothingAhead'
  BY <1>6 DEF Dies, Reraise, ExitProcess, FaultUnhandled, Wild
<1>7. CASE CallbackStep
  BY <1>7 DEF CallbackStep, CallbackGivesUp, CallbackCalls, CallbackReturns, CallbackRuns
<1>8. CASE Outside
  BY <1>8 DEF Outside, DumperRuns, DumperStep, DumperWritesBacktrace, DumperEnds,
              Killed, TraceThreadStep, crashVars
<1> QED
  BY <1>1, <1>2, <1>3, <1>4, <1>5, <1>6, <1>7, <1>8, StepCases

\* Nothing comes to be in two places.
LEMMA OnePlaceOnlyStep ==
  ASSUME TypeOK, NothingAhead, OnePlaceOnly, [CrashNext]_crashVars
  PROVE  OnePlaceOnly'
<1> USE HandlerAssumption DEF TypeOK, NothingAhead, OnePlaceOnly, Goto, handlerVars, callbackVars, dumperVars, commonVars
<1>1. ASSUME NEW t \in Thread, Enters(t) PROVE OnePlaceOnly'
  BY <1>1 DEF Enters, Fault, Lock, OnlyOnce, RestoreHandler, JumpToTraceDumper
<1>2. ASSUME NEW t \in Thread, Records(t) PROVE OnePlaceOnly'
  BY <1>2 DEF Records, OpenCrashLog, Prepare, SpawnDumper, WaitDumper, CheckBacktrace
<1>3. ASSUME NEW t \in Thread, Fallback(t) PROVE OnePlaceOnly'
  BY <1>3 DEF Fallback
<1>4. ASSUME NEW t \in Thread, TakesJavaStack(t) PROVE OnePlaceOnly'
  BY <1>4 DEF TakesJavaStack, JavaStacktrace, DumpJavaStack, RestoreStderr
<1>5. ASSUME NEW t \in Thread, Leaves(t) PROVE OnePlaceOnly'
  BY <1>5 DEF Leaves, Notify, Join, QueueAndReturn, GoesOn
<1>6. ASSUME NEW t \in Thread, Dies(t) PROVE OnePlaceOnly'
  BY <1>6 DEF Dies, Reraise, ExitProcess, FaultUnhandled, Wild
<1>7. CASE CallbackStep
  BY <1>7 DEF CallbackStep, CallbackGivesUp, CallbackCalls, CallbackReturns, CallbackRuns
<1>8. CASE Outside
  BY <1>8 DEF Outside, DumperRuns, DumperStep, DumperWritesBacktrace, DumperEnds,
              Killed, TraceThreadStep, crashVars
<1> QED
  BY <1>1, <1>2, <1>3, <1>4, <1>5, <1>6, <1>7, <1>8, StepCases

\* Java is called with what Fallback left.
LEMMA CarriesReportStep ==
  ASSUME TypeOK, ReportSaved, CallbackCarriesReport, [CrashNext]_crashVars
  PROVE  CallbackCarriesReport'
<1> USE HandlerAssumption DEF TypeOK, ReportSaved, CallbackCarriesReport, Reported, Goto, handlerVars, callbackVars, dumperVars, commonVars
<1>1. ASSUME NEW t \in Thread, Enters(t) PROVE CallbackCarriesReport'
  BY <1>1 DEF Enters, Fault, Lock, OnlyOnce, RestoreHandler, JumpToTraceDumper
<1>2. ASSUME NEW t \in Thread, Records(t) PROVE CallbackCarriesReport'
  BY <1>2 DEF Records, OpenCrashLog, Prepare, SpawnDumper, WaitDumper, CheckBacktrace
<1>3. ASSUME NEW t \in Thread, Fallback(t) PROVE CallbackCarriesReport'
  BY <1>3 DEF Fallback
<1>4. ASSUME NEW t \in Thread, TakesJavaStack(t) PROVE CallbackCarriesReport'
  BY <1>4 DEF TakesJavaStack, JavaStacktrace, DumpJavaStack, RestoreStderr
<1>5. ASSUME NEW t \in Thread, Leaves(t) PROVE CallbackCarriesReport'
  BY <1>5 DEF Leaves, Notify, Join, QueueAndReturn, GoesOn
<1>6. ASSUME NEW t \in Thread, Dies(t) PROVE CallbackCarriesReport'
  BY <1>6 DEF Dies, Reraise, ExitProcess, FaultUnhandled, Wild
<1>7. CASE CallbackStep
  BY <1>7 DEF CallbackStep, CallbackGivesUp, CallbackCalls, CallbackReturns, CallbackRuns
<1>8. CASE Outside
  BY <1>8 DEF Outside, DumperRuns, DumperStep, DumperWritesBacktrace, DumperEnds,
              Killed, TraceThreadStep, crashVars
<1> QED
  BY <1>1, <1>2, <1>3, <1>4, <1>5, <1>6, <1>7, <1>8, StepCases

\* Java is not asked for what the log holds.
LEMMA NothingTwiceStep ==
  ASSUME TypeOK, OnePlaceOnly, NothingTwice, [CrashNext]_crashVars
  PROVE  NothingTwice'
<1> USE HandlerAssumption DEF TypeOK, OnePlaceOnly, NothingTwice, Goto, handlerVars, callbackVars, dumperVars, commonVars
<1>1. ASSUME NEW t \in Thread, Enters(t) PROVE NothingTwice'
  BY <1>1 DEF Enters, Fault, Lock, OnlyOnce, RestoreHandler, JumpToTraceDumper
<1>2. ASSUME NEW t \in Thread, Records(t) PROVE NothingTwice'
  BY <1>2 DEF Records, OpenCrashLog, Prepare, SpawnDumper, WaitDumper, CheckBacktrace
<1>3. ASSUME NEW t \in Thread, Fallback(t) PROVE NothingTwice'
  BY <1>3 DEF Fallback
<1>4. ASSUME NEW t \in Thread, TakesJavaStack(t) PROVE NothingTwice'
  BY <1>4 DEF TakesJavaStack, JavaStacktrace, DumpJavaStack, RestoreStderr
<1>5. ASSUME NEW t \in Thread, Leaves(t) PROVE NothingTwice'
  BY <1>5 DEF Leaves, Notify, Join, QueueAndReturn, GoesOn
<1>6. ASSUME NEW t \in Thread, Dies(t) PROVE NothingTwice'
  BY <1>6 DEF Dies, Reraise, ExitProcess, FaultUnhandled, Wild
<1>7. CASE CallbackStep
  BY <1>7 DEF CallbackStep, CallbackGivesUp, CallbackCalls, CallbackReturns, CallbackRuns
<1>8. CASE Outside
  BY <1>8 DEF Outside, DumperRuns, DumperStep, DumperWritesBacktrace, DumperEnds,
              Killed, TraceThreadStep, crashVars
<1> QED
  BY <1>1, <1>2, <1>3, <1>4, <1>5, <1>6, <1>7, <1>8, StepCases

\* Process attributes are changed and restored between Prepare and Fallback.
LEMMA TraceableStep ==
  ASSUME TypeOK, TraceableOnlyWhileRecording, [CrashNext]_crashVars
  PROVE  TraceableOnlyWhileRecording'
<1> USE HandlerAssumption DEF TypeOK, TraceableOnlyWhileRecording, Goto, handlerVars, callbackVars, dumperVars, commonVars
<1>1. ASSUME NEW t \in Thread, Enters(t) PROVE TraceableOnlyWhileRecording'
  BY <1>1 DEF Enters, Fault, Lock, OnlyOnce, RestoreHandler, JumpToTraceDumper
<1>2. ASSUME NEW t \in Thread, Records(t) PROVE TraceableOnlyWhileRecording'
  BY <1>2 DEF Records, OpenCrashLog, Prepare, SpawnDumper, WaitDumper, CheckBacktrace
<1>3. ASSUME NEW t \in Thread, Fallback(t) PROVE TraceableOnlyWhileRecording'
  BY <1>3 DEF Fallback
<1>4. ASSUME NEW t \in Thread, TakesJavaStack(t) PROVE TraceableOnlyWhileRecording'
  BY <1>4 DEF TakesJavaStack, JavaStacktrace, DumpJavaStack, RestoreStderr
<1>5. ASSUME NEW t \in Thread, Leaves(t) PROVE TraceableOnlyWhileRecording'
  BY <1>5 DEF Leaves, Notify, Join, QueueAndReturn, GoesOn
<1>6. ASSUME NEW t \in Thread, Dies(t) PROVE TraceableOnlyWhileRecording'
  BY <1>6 DEF Dies, Reraise, ExitProcess, FaultUnhandled, Wild
<1>7. CASE CallbackStep
  BY <1>7 DEF CallbackStep, CallbackGivesUp, CallbackCalls, CallbackReturns, CallbackRuns
<1>8. CASE Outside
  BY <1>8 DEF Outside, DumperRuns, DumperStep, DumperWritesBacktrace, DumperEnds,
              Killed, TraceThreadStep, crashVars
<1> QED
  BY <1>1, <1>2, <1>3, <1>4, <1>5, <1>6, <1>7, <1>8, StepCases

\* Only the thread that dumps the Java stack has descriptor 2 on the log.
LEMMA StderrStep ==
  ASSUME TypeOK, StderrOnlyForJavaStack, [CrashNext]_crashVars
  PROVE  StderrOnlyForJavaStack'
<1> USE HandlerAssumption DEF TypeOK, StderrOnlyForJavaStack, Goto, handlerVars, callbackVars, dumperVars, commonVars
<1>1. ASSUME NEW t \in Thread, Enters(t) PROVE StderrOnlyForJavaStack'
  BY <1>1 DEF Enters, Fault, Lock, OnlyOnce, RestoreHandler, JumpToTraceDumper
<1>2. ASSUME NEW t \in Thread, Records(t) PROVE StderrOnlyForJavaStack'
  BY <1>2 DEF Records, OpenCrashLog, Prepare, SpawnDumper, WaitDumper, CheckBacktrace
<1>3. ASSUME NEW t \in Thread, Fallback(t) PROVE StderrOnlyForJavaStack'
  BY <1>3 DEF Fallback
<1>4. ASSUME NEW t \in Thread, TakesJavaStack(t) PROVE StderrOnlyForJavaStack'
  BY <1>4 DEF TakesJavaStack, JavaStacktrace, DumpJavaStack, RestoreStderr
<1>5. ASSUME NEW t \in Thread, Leaves(t) PROVE StderrOnlyForJavaStack'
  BY <1>5 DEF Leaves, Notify, Join, QueueAndReturn, GoesOn
<1>6. ASSUME NEW t \in Thread, Dies(t) PROVE StderrOnlyForJavaStack'
  BY <1>6 DEF Dies, Reraise, ExitProcess, FaultUnhandled, Wild
<1>7. CASE CallbackStep
  BY <1>7 DEF CallbackStep, CallbackGivesUp, CallbackCalls, CallbackReturns, CallbackRuns
<1>8. CASE Outside
  BY <1>8 DEF Outside, DumperRuns, DumperStep, DumperWritesBacktrace, DumperEnds,
              Killed, TraceThreadStep, crashVars
<1> QED
  BY <1>1, <1>2, <1>3, <1>4, <1>5, <1>6, <1>7, <1>8, StepCases

\* A capture is handed to Java after its recording, and never once it is lost.
LEMMA HandsOverLastStep ==
  ASSUME TypeOK, HoldsMutex, CrashMarked, HandsOverLast, [CrashNext]_crashVars
  PROVE  HandsOverLast'
<1> USE HandlerAssumption DEF TypeOK, HoldsMutex, CrashMarked, HandsOverLast, HandedToJava, Abandoned, Critical, Recording, Goto, handlerVars, callbackVars, dumperVars, commonVars
<1>1. ASSUME NEW t \in Thread, Enters(t) PROVE HandsOverLast'
  BY <1>1 DEF Enters, Fault, Lock, OnlyOnce, RestoreHandler, JumpToTraceDumper
<1>2. ASSUME NEW t \in Thread, Records(t) PROVE HandsOverLast'
  BY <1>2 DEF Records, OpenCrashLog, Prepare, SpawnDumper, WaitDumper, CheckBacktrace
<1>3. ASSUME NEW t \in Thread, Fallback(t) PROVE HandsOverLast'
  BY <1>3 DEF Fallback
<1>4. ASSUME NEW t \in Thread, TakesJavaStack(t) PROVE HandsOverLast'
  BY <1>4 DEF TakesJavaStack, JavaStacktrace, DumpJavaStack, RestoreStderr
<1>5. ASSUME NEW t \in Thread, Leaves(t) PROVE HandsOverLast'
  BY <1>5 DEF Leaves, Notify, Join, QueueAndReturn, GoesOn
<1>6. ASSUME NEW t \in Thread, Dies(t) PROVE HandsOverLast'
  BY <1>6 DEF Dies, Reraise, ExitProcess, FaultUnhandled, Wild
<1>7. CASE CallbackStep
  BY <1>7 DEF CallbackStep, CallbackGivesUp, CallbackCalls, CallbackReturns, CallbackRuns
<1>8. CASE Outside
  BY <1>8 DEF Outside, DumperRuns, DumperStep, DumperWritesBacktrace, DumperEnds,
              Killed, TraceThreadStep, crashVars
<1> QED
  BY <1>1, <1>2, <1>3, <1>4, <1>5, <1>6, <1>7, <1>8, StepCases

-----------------------------------------------------------------------------
\* The process starts with everything at rest.
LEMMA CrashInvInit == CrashInit => CrashInv
<1> SUFFICES ASSUME CrashInit PROVE CrashInv
  OBVIOUS
<1> USE HandlerAssumption, ThreadAssumption DEF CrashInit, CommonInit, DumperInit
<1>1. TypeOK
  BY DEF TypeOK, CommonTypeOK, DumperTypeOK, Step, InProgram, Handling, Critical, Recording,
         Disposition, DumpStatus, StderrTarget, Life, DumperState, Section,
         CallbackState, Delivery, NoDelivery
<1>2. HoldsMutex /\ CrashMarked /\ NotYetOpened /\ OneReport
  BY DEF HoldsMutex, CrashMarked, NotYetOpened, OneReport, Critical, Recording
<1>3. ReportSaved /\ NothingAhead /\ OnePlaceOnly
  BY DEF ReportSaved, NothingAhead, OnePlaceOnly, Reported
<1>4. CallbackCarriesReport /\ NothingTwice
  BY DEF CallbackCarriesReport, NothingTwice
<1>5. TraceableOnlyWhileRecording /\ StderrOnlyForJavaStack
  BY DEF TraceableOnlyWhileRecording, StderrOnlyForJavaStack
<1>6. HandsOverLast
  BY DEF HandsOverLast, HandedToJava, Abandoned, Recording
<1> QED
  BY <1>1, <1>2, <1>3, <1>4, <1>5, <1>6 DEF CrashInv

\* The parts together are inductive.
LEMMA CrashInvStep == CrashInv /\ [CrashNext]_crashVars => CrashInv'
<1> SUFFICES ASSUME CrashInv, [CrashNext]_crashVars PROVE CrashInv'
  OBVIOUS
<1> USE DEF CrashInv
<1>1. TypeOK' /\ HoldsMutex' /\ CrashMarked'
  BY TypeOKStep, HoldsMutexStep, CrashMarkedStep
<1>2. NotYetOpened' /\ OneReport'
  BY NotYetOpenedStep, OneReportStep
<1>3. ReportSaved' /\ NothingAhead' /\ OnePlaceOnly'
  BY ReportSavedStep, NothingAheadStep, OnePlaceOnlyStep
<1>4. CallbackCarriesReport' /\ NothingTwice'
  BY CarriesReportStep, NothingTwiceStep
<1>5. TraceableOnlyWhileRecording' /\ StderrOnlyForJavaStack' /\ HandsOverLast'
  BY TraceableStep, StderrStep, HandsOverLastStep
<1> QED
  BY <1>1, <1>2, <1>3, <1>4, <1>5

\* The invariant holds in every reachable state of the handler.
THEOREM CrashInvariant == CrashSpec => []CrashInv
<1>1. CrashInit => CrashInv
  BY CrashInvInit
<1>2. CrashInv /\ [CrashNext]_crashVars => CrashInv'
  BY CrashInvStep
<1> QED
  BY <1>1, <1>2, PTL DEF CrashSpec

-----------------------------------------------------------------------------
(* The properties of the safety run, for every set of application threads.  *)

\* The variables of the handler keep their types.
THEOREM TypesHold == CrashSpec => []TypeOK
<1>1. CrashInv => TypeOK
  BY DEF CrashInv
<1> QED
  BY <1>1, CrashInvariant, PTL

\* However many threads crash, the handler opens one crash log.
THEOREM AtMostOneReport == CrashSpec => []OneReport
<1>1. CrashInv => OneReport
  BY DEF CrashInv
<1> QED
  BY <1>1, CrashInvariant, PTL

\* crashCallback is called with a report, in the log or in the emergency string.
THEOREM ReportReachesJava == CrashSpec => []CallbackCarriesReport
<1>1. CrashInv => CallbackCarriesReport
  BY DEF CrashInv
<1> QED
  BY <1>1, CrashInvariant, PTL

\* The emergency string and the request for the Java stack are given up once the
\* log holds what they stand for.
THEOREM NothingReachesJavaTwice == CrashSpec => []NothingTwice
<1>1. CrashInv => NothingTwice
  BY DEF CrashInv
<1> QED
  BY <1>1, CrashInvariant, PTL

\* PR_SET_DUMPABLE and PR_SET_PTRACER are in force only during the recording.
THEOREM NotTraceableOtherwise == CrashSpec => []TraceableOnlyWhileRecording
<1>1. CrashInv => TraceableOnlyWhileRecording
  BY DEF CrashInv
<1> QED
  BY <1>1, CrashInvariant, PTL

\* Descriptor 2 refers to the crash log only while the Java stack is dumped.
THEOREM StderrLentOnly == CrashSpec => []StderrOnlyForJavaStack
<1>1. CrashInv => StderrOnlyForJavaStack
  BY DEF CrashInv
<1> QED
  BY <1>1, CrashInvariant, PTL

-----------------------------------------------------------------------------
(* CrashHandler implements CrashContract.                                   *)

\* Before the first crash the contract is armed.
LEMMA ContractInitHolds == CrashInit => Contract!ContractInit
BY DEF CrashInit, CommonInit, DumperInit, Contract!ContractInit, CapturePhase,
       HandedPlace, HandedToJava

\* While the capture is under way it can be lost only by a jump to the trace
\* dumper, and once lost it stays lost.
LEMMA ContractStepHolds ==
  ASSUME CrashInv, [CrashNext]_crashVars
  PROVE  [Contract!ContractNext]_<<CapturePhase, HandedPlace>>
<1> DEFINE Goal == [Contract!ContractNext]_<<CapturePhase, HandedPlace>>
<1> USE HandlerAssumption
    DEF CrashInv, TypeOK, HoldsMutex, CrashMarked, HandsOverLast, HandedToJava, Abandoned,
        CapturePhase, HandedPlace, Goto, Critical, Recording, handlerVars,
        callbackVars, dumperVars, commonVars, Contract!ContractNext,
        Contract!FirstCrash, Contract!HandOver, Contract!LoseToTrace,
        Contract!ProcessEnds, Contract!Place
<1>1. ASSUME NEW t \in Thread, Fault(t) PROVE Goal
  BY <1>1 DEF Fault
<1>2. ASSUME NEW t \in Thread, Lock(t) \/ OnlyOnce(t) PROVE Goal
  BY <1>2 DEF Lock, OnlyOnce
<1>3. ASSUME NEW t \in Thread, RestoreHandler(t) PROVE Goal
  BY <1>3 DEF RestoreHandler
<1>4. ASSUME NEW t \in Thread, JumpToTraceDumper(t) PROVE Goal
  BY <1>4 DEF JumpToTraceDumper
<1>5. ASSUME NEW t \in Thread, Records(t) PROVE Goal
  BY <1>5 DEF Records, OpenCrashLog, Prepare, SpawnDumper, WaitDumper, CheckBacktrace
<1>6. ASSUME NEW t \in Thread, Fallback(t) PROVE Goal
  BY <1>6 DEF Fallback
<1>7. ASSUME NEW t \in Thread, TakesJavaStack(t) PROVE Goal
  BY <1>7 DEF TakesJavaStack, JavaStacktrace, DumpJavaStack, RestoreStderr
<1>8. ASSUME NEW t \in Thread, Leaves(t) PROVE Goal
  BY <1>8 DEF Leaves, Notify, Join, QueueAndReturn, GoesOn
<1>9. ASSUME NEW t \in Thread, Dies(t) PROVE Goal
  BY <1>9 DEF Dies, Reraise, ExitProcess, FaultUnhandled, Wild
<1>10. CASE CallbackGivesUp
  BY <1>10 DEF CallbackGivesUp, CallbackRuns
<1>11. CASE CallbackCalls
  <2>1. life = "alive" /\ native_crashed /\ ~Abandoned /\ ~HandedToJava
    BY <1>11 DEF CallbackCalls, CallbackRuns
  <2>2. life' = "alive" /\ HandedToJava'
    BY <1>11 DEF CallbackCalls, CallbackRuns
  <2>3. CapturePhase = "capturing" /\ CapturePhase' = "handed"
    BY <2>1, <2>2
  <2>4. HandedPlace' \in {"log", "emergency"}
    <3>1. CallbackCarriesReport'
      BY CarriesReportStep
    <3>2. Reported(given.log)' \/ (given.emergency)'
      BY <2>2, <3>1 DEF CallbackCarriesReport
    <3> QED
      BY <2>2, <3>2
  <2> QED
    BY <2>3, <2>4
<1>12. CASE CallbackReturns
  BY <1>12 DEF CallbackReturns, CallbackRuns
<1>13. CASE Outside
  BY <1>13 DEF Outside, DumperRuns, DumperStep, DumperWritesBacktrace, DumperEnds,
              Killed, TraceThreadStep, crashVars
<1> QED
  BY <1>1, <1>2, <1>3, <1>4, <1>5, <1>6, <1>7, <1>8, <1>9, <1>10, <1>11, <1>12, <1>13,
     StepCases DEF Enters, CallbackStep

\* Whatever fails on the way, the application sees what CrashContract says.
THEOREM HandlerKeepsContract == CrashSpec => KeepsContract
<1>1. CrashInit => Contract!ContractInit
  BY ContractInitHolds
<1>2. CrashInv /\ [CrashNext]_crashVars => [Contract!ContractNext]_<<CapturePhase, HandedPlace>>
  BY ContractStepHolds
<1> QED
  BY <1>1, <1>2, CrashInvariant, PTL
     DEF CrashSpec, KeepsContract, Contract!ContractSpec, Contract!contractVars

-----------------------------------------------------------------------------
(* The way through the handler.                                              *)

\* The places of the handler in the order of its code.
Place == [s \in Step \ {"run"} |->
  CASE s = "lock" -> 1     [] s = "once" -> 2     [] s = "restore" -> 3
    [] s = "report" -> 4   [] s = "prepare" -> 5  [] s = "spawn" -> 6
    [] s = "wait" -> 7     [] s = "check" -> 8    [] s = "end" -> 9
    [] s = "java" -> 10    [] s = "dump" -> 11    [] s = "undup" -> 12
    [] s = "notify" -> 13  [] s = "join" -> 14    [] s = "queue" -> 15
    [] s = "reraise" -> 16 [] s = "resumed" -> 17 [] s = "exit" -> 18
    [] s = "wild" -> 19]

\* How far each thread is: not yet in the handler and still able to enter it,
\* at one of its places, or out of it for good.
Passed == [t \in Thread |->
  IF pc[t] # "run" THEN Place[pc[t]] ELSE IF disposition = "ours" THEN 0 ELSE 19]

\* A thread that takes a step goes on in the handler or ends the process, and
\* no step takes a thread back.
Advances(t) ==
  /\ Passed[t] <= Passed'[t]
  /\ HandlerStep(t) => life' # "alive" \/ Passed[t] < Passed'[t]

\* The places are numbers.
LEMMA PlaceTyped == \A s \in Step \ {"run"} : Place[s] \in 1 .. 19
BY DEF Place, Step, InProgram, Handling, Critical, Recording

\* A step that leaves the threads and the handler where they are.
LEMMA StaysPut ==
  ASSUME TypeOK, pc' = pc, disposition' = disposition
  PROVE  Passed' = Passed /\ \A t \in Thread : Passed[t] \in 0 .. 19 /\ Passed[t] <= Passed'[t]
<1>1. Passed' = Passed
  BY DEF Passed
<1>2. \A t \in Thread : Passed[t] \in 0 .. 19
  BY PlaceTyped DEF Passed, TypeOK
<1> QED  BY <1>1, <1>2

\* A step of one thread from a place to a later one.
Forward(t, from, to) ==
  /\ Goto(t, from, to)
  /\ disposition' = disposition \/ disposition' # "ours"
  /\ from = "run" => disposition = "ours"
  /\ IF to = "run" THEN disposition' # "ours" /\ from \notin {"run", "wild"}
     ELSE from = "run" \/ Place[from] < Place[to]

LEMMA GoesForward ==
  ASSUME TypeOK, NEW t \in Thread, NEW from \in Step, NEW to \in Step, Forward(t, from, to)
  PROVE  /\ Passed[t] < Passed'[t]
         /\ \A u \in Thread : Passed[u] <= Passed'[u]
<1> USE DEF Forward
<1>1. pc \in [Thread -> Step] /\ pc[t] = from /\ pc' = [pc EXCEPT ![t] = to]
  BY DEF TypeOK, Goto
<1>2. Passed[t] < Passed'[t]
  <2>1. Passed[t] = (IF from # "run" THEN Place[from] ELSE 0)
    BY <1>1 DEF Passed
  <2>2. Passed'[t] = (IF to # "run" THEN Place[to] ELSE 19)
    BY <1>1 DEF Passed
  <2>3. from \notin {"run", "wild"} => Place[from] < 19
    BY DEF Place, Step, InProgram, Handling, Critical, Recording
  <2> QED  BY <2>1, <2>2, <2>3, PlaceTyped
<1>3. ASSUME NEW u \in Thread \ {t} PROVE Passed[u] <= Passed'[u]
  <2>1. pc'[u] = pc[u] /\ pc[u] \in Step
    BY <1>1
  <2>2. Passed[u] = (IF pc[u] # "run" THEN Place[pc[u]] ELSE IF disposition = "ours" THEN 0 ELSE 19)
    BY DEF Passed
  <2>3. Passed'[u] = (IF pc[u] # "run" THEN Place[pc[u]] ELSE IF disposition' = "ours" THEN 0 ELSE 19)
    BY <2>1 DEF Passed
  <2>4. pc[u] # "run" => Place[pc[u]] \in 1 .. 19
    BY <2>1, PlaceTyped
  <2> QED  BY <2>2, <2>3, <2>4
<1>4. Passed[t] <= Passed'[t]
  <2>1. {Passed[t], Passed'[t]} \subseteq Nat
    BY <1>1, PlaceTyped DEF Passed
  <2> QED  BY <1>2, <2>1
<1> QED  BY <1>2, <1>3, <1>4

\* Where each action of the handler leads.
LEMMA HandlerGoesForward ==
  ASSUME CrashInv, NEW t \in Thread, HandlerStep(t) \/ Fault(t)
  PROVE  \/ \E from, to \in Step : Forward(t, from, to)
         \/ life' # "alive" /\ pc' = pc /\ disposition' = disposition
<1> USE DEF Forward, Place, Step, InProgram, Handling, Critical, Recording, handlerVars
<1> DEFINE Goal == \/ \E from, to \in Step : Forward(t, from, to)
                   \/ life' # "alive" /\ pc' = pc /\ disposition' = disposition
<1>1. CASE Fault(t)
  <2>1. Forward(t, "run", "lock")
    BY <1>1 DEF Fault
  <2> QED  BY <2>1
<1>2. CASE Lock(t)
  <2>1. Forward(t, "lock", "once")
    BY <1>2 DEF Lock
  <2> QED  BY <2>1
<1>3. CASE OnlyOnce(t)
  <2>1. Forward(t, "once", "exit") \/ Forward(t, "once", "restore")
    BY <1>3 DEF OnlyOnce
  <2> QED  BY <2>1
<1>4. CASE RestoreHandler(t)
  <2>1. Forward(t, "restore", "report") \/ Forward(t, "restore", "exit")
    BY <1>4 DEF RestoreHandler
  <2> QED  BY <2>1
<1>5. CASE JumpToTraceDumper(t)
  <2>1. disposition # "ours" /\ disposition' = disposition
    BY <1>5 DEF JumpToTraceDumper, Goto, CrashInv, HandsOverLast
  <2>2. Forward(t, "report", "run") \/ Forward(t, "report", "wild")
    BY <1>5, <2>1 DEF JumpToTraceDumper
  <2> QED  BY <2>2
<1>6. CASE OpenCrashLog(t)
  <2>1. Forward(t, "report", "prepare") \/ Forward(t, "report", "end")
    BY <1>6 DEF OpenCrashLog
  <2> QED  BY <2>1
<1>7. CASE Prepare(t)
  <2>1. Forward(t, "prepare", "spawn") \/ Forward(t, "prepare", "end")
    BY <1>7 DEF Prepare
  <2> QED  BY <2>1
<1>8. CASE SpawnDumper(t)
  <2>1. Forward(t, "spawn", "wait") \/ Forward(t, "spawn", "end")
    BY <1>8 DEF SpawnDumper
  <2> QED  BY <2>1
<1>9. CASE WaitDumper(t)
  <2>1. Forward(t, "wait", "check") \/ Forward(t, "wait", "end")
    BY <1>9 DEF WaitDumper
  <2> QED  BY <2>1
<1>10. CASE CheckBacktrace(t)
  <2>1. Forward(t, "check", "end")
    BY <1>10 DEF CheckBacktrace
  <2> QED  BY <2>1
<1>11. CASE Fallback(t)
  <2>1. Forward(t, "end", "java") \/ Forward(t, "end", "notify")
    BY <1>11 DEF Fallback
  <2> QED  BY <2>1
<1>12. CASE JavaStacktrace(t)
  <2>1. Forward(t, "java", "notify") \/ Forward(t, "java", "dump")
    BY <1>12 DEF JavaStacktrace
  <2> QED  BY <2>1
<1>13. CASE DumpJavaStack(t)
  <2>1. Forward(t, "dump", "undup")
    BY <1>13 DEF DumpJavaStack
  <2> QED  BY <2>1
<1>14. CASE RestoreStderr(t)
  <2>1. Forward(t, "undup", "notify")
    BY <1>14 DEF RestoreStderr
  <2> QED  BY <2>1
<1>15. CASE Notify(t)
  <2>1. Forward(t, "notify", "join") \/ Forward(t, "notify", "queue")
    BY <1>15 DEF Notify
  <2> QED  BY <2>1
<1>16. CASE Join(t)
  <2>1. Forward(t, "join", "queue")
    BY <1>16 DEF Join
  <2> QED  BY <2>1
<1>17. CASE QueueAndReturn(t)
  <2>1. Forward(t, "queue", "reraise") \/ Forward(t, "queue", "exit")
    BY <1>17 DEF QueueAndReturn
  <2> QED  BY <2>1
<1>18. CASE Reraise(t) \/ ExitProcess(t)
  BY <1>18 DEF Reraise, ExitProcess
<1>19. CASE GoesOn(t)
  <2>1. Forward(t, "reraise", "resumed")
    BY <1>19 DEF GoesOn
  <2> QED  BY <2>1
<1> QED
  BY <1>1, <1>2, <1>3, <1>4, <1>5, <1>6, <1>7, <1>8, <1>9, <1>10, <1>11, <1>12, <1>13,
     <1>14, <1>15, <1>16, <1>17, <1>18, <1>19 DEF HandlerStep, OwnStep

\* No step of the process takes a thread back.
LEMMA NobodyGoesBack ==
  ASSUME CrashInv, [CrashNext]_crashVars
  PROVE  \A t \in Thread : Advances(t)
<1>1. TypeOK
  BY DEF CrashInv
<1>2. ASSUME NEW t \in Thread, HandlerStep(t) \/ Fault(t)
      PROVE  /\ \A u \in Thread : Passed[u] <= Passed'[u]
             /\ life' # "alive" \/ Passed[t] < Passed'[t]
  BY <1>1, <1>2, HandlerGoesForward, GoesForward, StaysPut
<1>3. ASSUME \A t \in Thread : ~HandlerStep(t) /\ ~Fault(t)
      PROVE  \A t \in Thread : Passed[t] <= Passed'[t]
  <2>1. pc' = pc /\ disposition' = disposition
    BY <1>3 DEF CrashNext, CrashStep, FaultUnhandled, Wild, CallbackStep, CallbackGivesUp,
                CallbackCalls, CallbackReturns, CallbackRuns, DumperRuns, Killed,
                TraceThreadStep, handlerVars, crashVars
  <2> QED  BY <1>1, <2>1, StaysPut
<1>4. \A u \in Thread : Passed[u] <= Passed'[u]
  BY <1>2, <1>3
<1> QED  BY <1>2, <1>4 DEF Advances

\* A thread that crashes goes through the handler once and in one direction:
\* each of its steps, on every path through the error branches, is a later place
\* of the code or the end of the process, and a thread that siglongjmp has taken
\* out, or whose signal did not come again, never comes back in.  What can keep
\* a thread in the handler is a step that waits and none that goes round.
THEOREM HandlerAdvances == CrashSpec => [][\A t \in Thread : Advances(t)]_crashVars
<1>1. CrashInv /\ [CrashNext]_crashVars => [\A t \in Thread : Advances(t)]_crashVars
  BY NobodyGoesBack
<1> QED  BY <1>1, CrashInvariant, PTL DEF CrashSpec
==============================================================================
