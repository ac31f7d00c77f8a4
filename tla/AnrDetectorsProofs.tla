-------------------------- MODULE AnrDetectorsProofs --------------------------
(***************************************************************************)
(* Proofs about the initialisation of the native layer and the observer of  *)
(* ANRs, for any timeout and for the clock of any length.                    *)
(***************************************************************************)
EXTENDS AnrDetectors, TLAPS

-----------------------------------------------------------------------------
(* The initialising call.                                                    *)

\* The first call goes through these steps; later ones are refused at the entry.
Working == {"common", "crash", "register", "trace", "sigquit", "thread",
            "unregister", "unnotify", "dead"}
TraceWork == {"trace", "sigquit", "thread", "unregister", "unnotify"}
Armed ==
  /\ crash_enable => handled = "all"
  /\ trace_enable /\ art => quit_handler /\ trace_thread # "none"

\* Nothing is touched before the first call, nothing of SIGQUIT before
\* tac_trace_init.
Untouched ==
  ~init_status \/ npc \in {"common", "crash", "register", "trace", "dead"} =>
    ~notifier /\ ~quit_handler /\ trace_thread = "none"
OneCallWorks == npc \in Working \cup {"leave"} => init_status
DataFirst ==
  /\ HandlerFindsData
  /\ npc = "register" => crash_data

\* What has been asked for and not yet failed.
Requested ==
  /\ npc \in {"common", "crash", "register"} => crash_enable \/ trace_enable
  /\ npc = "common" => result_crash = "error"
  /\ npc \in TraceWork => trace_enable
  /\ npc \in TraceWork \cup {"leave"} /\ result_crash = "0" => (crash_enable => handled = "all")
  /\ npc = "leave" /\ result_crash = "0" /\ result_trace = "0" => Armed

\* How far tac_trace_init is.
TraceProgress ==
  /\ npc \in {"sigquit", "unnotify"} => notifier /\ ~quit_handler /\ trace_thread = "none"
  /\ npc \in {"thread", "unregister"} => notifier /\ quit_handler /\ trace_thread = "none"
  /\ npc \in {"idle", "entry", "leave"} =>
       /\ quit_handler <=> trace_thread # "none"
       /\ notifier <=> TraceThreadLives

\* The thread outlives the call that started it; after a crash it ends.
ThreadGoesItsWay ==
  /\ trace_thread # "none" => npc \in {"idle", "entry", "leave"}
  /\ trace_thread = "ended" => java_crashed

\* After a success there is no further call, so that nothing is disarmed.
SuccessIsLast ==
  /\ initialized => npc = "idle"
  /\ init_success => initialized /\ Armed

InitInv ==
  /\ npc \in InitStep
  /\ art \in BOOLEAN /\ crash_enable \in BOOLEAN /\ trace_enable \in BOOLEAN
  /\ notifier \in BOOLEAN /\ quit_handler \in BOOLEAN
  /\ trace_thread \in TraceThreadState
  /\ Untouched
  /\ OneCallWorks
  /\ DataFirst
  /\ Requested
  /\ TraceProgress
  /\ ThreadGoesItsWay
  /\ SuccessIsLast

-----------------------------------------------------------------------------
(* The observer.                                                            *)

Times ==
  /\ now \in Nat /\ anr_time \in Nat /\ last_time \in Nat
  /\ apc \in {"poll", "trace"} => anr_time >= last_time + Timeout
ReportsPast ==
  /\ \A r \in reports : r.at \in Nat /\ r.at <= last_time
  /\ ReportsApart

\* A watch that a notice can meet is one that it can remove.
WatchKnown ==
  /\ ipc # "done" => ~watching /\ ~rewatched
  /\ ~crashed /\ (ipc = "created" \/ watching) => fileObserver

\* Each late report takes one event of those that the first notice left.
EventsCounted ==
  /\ queued \in Nat /\ backlog \in Nat /\ late \in Nat
  /\ ~crashed => late = 0
  /\ crashed /\ ~rewatched => ~watching /\ late + queued + InHand <= backlog

AnrInv == Times /\ ReportsPast /\ WatchKnown /\ EventsCounted

DetectorsInv == InitInv /\ AnrInv

-----------------------------------------------------------------------------
(* Every step of the initialising call keeps InitInv.                        *)

\* The call from the application and its refusal, up to the two components.
LEMMA EntryKeeps ==
  ASSUME InitInv, InitNativeCrashHandler \/ NativeInitEntry \/ CommonInit
  PROVE  InitInv'
<1> USE DEF InitInv, InitStep, Advance, arguments, results, crashPart, tracePart, javaPart
<1>1. CASE InitNativeCrashHandler
  <2> USE <1>1 DEF InitNativeCrashHandler
  <2>1. Untouched' /\ OneCallWorks' /\ DataFirst'
    BY DEF Untouched, OneCallWorks, DataFirst, HandlerFindsData, Working
  <2>2. Requested' /\ TraceProgress' /\ SuccessIsLast' /\ ThreadGoesItsWay'
    BY DEF Requested, TraceWork, TraceProgress, TraceThreadLives, SuccessIsLast, ThreadGoesItsWay, Armed
  <2> QED BY <2>1, <2>2
<1>2. CASE NativeInitEntry
  <2> USE <1>2 DEF NativeInitEntry
  <2>1. Untouched' /\ OneCallWorks' /\ DataFirst'
    BY DEF Untouched, OneCallWorks, DataFirst, HandlerFindsData, Working
  <2>2. Requested' /\ TraceProgress'
    BY DEF Requested, TraceWork, TraceProgress, TraceThreadLives, Armed
  <2>3. SuccessIsLast' /\ ThreadGoesItsWay'
    BY DEF SuccessIsLast, ThreadGoesItsWay, Untouched, Armed
  <2> QED BY <2>1, <2>2, <2>3
<1>3. CASE CommonInit
  <2> USE <1>3 DEF CommonInit
  <2>1. Untouched' /\ OneCallWorks' /\ DataFirst'
    BY DEF Untouched, OneCallWorks, DataFirst, HandlerFindsData, Working
  <2>2. Requested' /\ TraceProgress'
    BY DEF Requested, TraceWork, TraceProgress, TraceThreadLives, Untouched, Armed
  <2>3. SuccessIsLast' /\ ThreadGoesItsWay'
    BY DEF SuccessIsLast, ThreadGoesItsWay, Untouched, Armed
  <2> QED BY <2>1, <2>2, <2>3
<1> QED BY <1>1, <1>2, <1>3

\* tac_crash_init.
LEMMA CrashPartKeeps ==
  ASSUME InitInv, CrashData \/ CrashRegister
  PROVE  InitInv'
<1> USE DEF InitInv, InitStep, Advance, AfterCrash, arguments, results, tracePart, javaPart
<1>1. CASE CrashData
  <2> USE <1>1 DEF CrashData
  <2>1. Untouched' /\ OneCallWorks' /\ DataFirst'
    BY DEF Untouched, OneCallWorks, DataFirst, HandlerFindsData, Working
  <2>2. Requested' /\ TraceProgress'
    BY DEF Requested, TraceWork, TraceProgress, TraceThreadLives, Untouched, Armed
  <2>3. SuccessIsLast' /\ ThreadGoesItsWay'
    BY DEF SuccessIsLast, ThreadGoesItsWay, Untouched, Armed
  <2> QED BY <2>1, <2>2, <2>3
<1>2. CASE CrashRegister
  <2> USE <1>2 DEF CrashRegister
  <2>1. Untouched' /\ OneCallWorks' /\ DataFirst'
    BY DEF Untouched, OneCallWorks, DataFirst, HandlerFindsData, Working
  <2>2. Requested' /\ TraceProgress'
    BY DEF Requested, TraceWork, TraceProgress, TraceThreadLives, Untouched, Armed
  <2>3. SuccessIsLast' /\ ThreadGoesItsWay'
    BY DEF SuccessIsLast, ThreadGoesItsWay, Untouched, Armed
  <2> QED BY <2>1, <2>2, <2>3
<1> QED BY <1>1, <1>2

\* tac_trace_init with its two error labels.
LEMMA TracePartKeeps ==
  ASSUME InitInv,
         TraceNotifier \/ TraceRegister \/ TraceThreadCreate \/ TraceUnregister \/ TraceUnnotify
  PROVE  InitInv'
<1> USE DEF InitInv, InitStep, Advance, arguments, results, crashPart, javaPart,
            TraceNotifier, TraceRegister, TraceThreadCreate, ThreadFails, TraceUnregister, TraceUnnotify
<1>1. npc \in {"trace", "sigquit", "thread", "unregister", "unnotify"}
  OBVIOUS
<1>2. ~initialized /\ ~init_success /\ init_status /\ trace_enable /\ trace_thread = "none"
  BY <1>1 DEF SuccessIsLast, OneCallWorks, Working, Requested, TraceWork, ThreadGoesItsWay
<1>3. UNCHANGED <<initialized, init_success, java_crashed, init_status, trace_enable, crash_enable, art>>
  OBVIOUS
<1>4. trace_thread' \in {"none", "starting"} /\ (trace_thread' = "starting" => npc' = "leave")
  BY <1>2
<1>5. Untouched' /\ OneCallWorks'
  BY <1>2, <1>3 DEF Untouched, OneCallWorks, Working
<1>6. DataFirst'
  BY DEF DataFirst, HandlerFindsData
<1>7. Requested'
  BY <1>2, <1>3, <1>4 DEF Requested, TraceWork, TraceProgress, Armed
<1>8. TraceProgress'
  <2>1. CASE TraceNotifier
    BY <1>2, <2>1 DEF TraceProgress, Untouched, TraceThreadLives
  <2>2. CASE TraceRegister
    BY <1>2, <2>2 DEF TraceProgress, TraceThreadLives
  <2>3. CASE TraceThreadCreate
    BY <1>2, <2>3 DEF TraceProgress, TraceThreadLives
  <2>4. CASE TraceUnregister
    BY <1>2, <2>4 DEF TraceProgress, TraceThreadLives
  <2>5. CASE TraceUnnotify
    <3>1. npc' = "leave" /\ trace_thread' = "none" /\ ~notifier' /\ ~quit_handler'
      BY <1>2, <2>5 DEF TraceProgress
    <3> QED BY <3>1 DEF TraceProgress, TraceThreadLives
  <2> QED BY <2>1, <2>2, <2>3, <2>4, <2>5
<1>9. SuccessIsLast' /\ ThreadGoesItsWay'
  BY <1>2, <1>3, <1>4 DEF SuccessIsLast, ThreadGoesItsWay
<1>10. /\ npc' \in InitStep
       /\ art' \in BOOLEAN /\ crash_enable' \in BOOLEAN /\ trace_enable' \in BOOLEAN
       /\ notifier' \in BOOLEAN /\ quit_handler' \in BOOLEAN
       /\ trace_thread' \in TraceThreadState
  BY <1>3, <1>4 DEF TraceThreadState
<1> QED BY <1>5, <1>6, <1>7, <1>8, <1>9, <1>10

LEMMA LeaveKeeps ==
  ASSUME InitInv, Leave
  PROVE  InitInv'
<1> USE DEF InitInv, InitStep, Leave, Advance, arguments, results, crashPart, tracePart, javaPart
<1>1. Untouched' /\ OneCallWorks' /\ DataFirst'
  BY DEF Untouched, OneCallWorks, DataFirst, HandlerFindsData, Working
<1>2. Requested' /\ TraceProgress' /\ ThreadGoesItsWay'
  BY DEF Requested, TraceWork, TraceProgress, TraceThreadLives, ThreadGoesItsWay
<1>3. SuccessIsLast'
  BY DEF SuccessIsLast, Requested, Armed
<1> QED BY <1>1, <1>2, <1>3

LEMMA InitCallKeeps ==
  ASSUME InitInv, InitCallStep
  PROVE  InitInv'
BY EntryKeeps, CrashPartKeeps, TracePartKeeps, LeaveKeeps DEF InitCallStep

-----------------------------------------------------------------------------
(* Nor is it disturbed from beside the call.                                 *)

\* The thread that the call has started, at any later moment.
LEMMA TraceThreadKeeps ==
  ASSUME InitInv, TraceThreadStep
  PROVE  InitInv'
<1> USE DEF InitInv, TraceThreadStep, TraceThreadAttach, TraceThreadEnd,
            arguments, results, crashPart, javaPart
<1>1. trace_thread \in {"starting", "running"} /\ npc \in {"idle", "entry", "leave"} /\ init_status
  BY DEF ThreadGoesItsWay, Untouched
<1>2. /\ trace_thread' \in {"running", "unattached", "ended"}
      /\ notifier' = (notifier /\ trace_thread' = "running")
      /\ trace_thread' = "ended" => java_crashed
  BY <1>1 DEF TraceProgress, TraceThreadLives
<1>3. UNCHANGED <<arguments, npc, initialized, init_success, init_status, results,
                  crashPart, quit_handler, java_crashed>>
  OBVIOUS
<1>4. Untouched' /\ OneCallWorks' /\ DataFirst'
  BY <1>1, <1>2, <1>3 DEF Untouched, OneCallWorks, DataFirst, HandlerFindsData
<1>5. Requested'
  BY <1>1, <1>2, <1>3 DEF Requested, TraceWork, Armed
<1>6. TraceProgress'
  BY <1>1, <1>2, <1>3 DEF TraceProgress, TraceThreadLives
<1>7. ThreadGoesItsWay' /\ SuccessIsLast'
  BY <1>1, <1>2, <1>3 DEF ThreadGoesItsWay, SuccessIsLast, Armed
<1> QED BY <1>2, <1>3, <1>4, <1>5, <1>6, <1>7 DEF TraceThreadState

\* A Java crash that falls between two steps of the call, or after it.
LEMMA NoticeKeeps ==
  ASSUME InitInv, NotifyNative
  PROVE  InitInv'
BY DEF InitInv, NotifyNative, arguments, results, crashPart, tracePart, Untouched, OneCallWorks,
       DataFirst, HandlerFindsData, Requested, TraceProgress, TraceThreadLives, ThreadGoesItsWay,
       SuccessIsLast, Armed, Working, TraceWork

LEMMA InitUntouched ==
  ASSUME InitInv, UNCHANGED initVars
  PROVE  InitInv'
BY DEF InitInv, initVars, arguments, results, crashPart, tracePart, javaPart, Untouched,
       OneCallWorks, DataFirst, HandlerFindsData, Requested, TraceProgress, TraceThreadLives,
       ThreadGoesItsWay, SuccessIsLast, Armed

-----------------------------------------------------------------------------
(* Every step of the observer keeps AnrInv.                                  *)

LEMMA InitializeKeeps ==
  ASSUME AnrInv, InitializeObserver
  PROVE  AnrInv'
<1> USE DEF AnrInv, InitializeObserver, CreateObserver, StartWatching, handlingVars, noticeVars
<1>1. Times' /\ ReportsPast'
  BY DEF Times, ReportsPast, ReportsApart
<1>2. WatchKnown'
  BY DEF WatchKnown
<1>3. EventsCounted'
  BY DEF WatchKnown, EventsCounted, InHand
<1> QED BY <1>1, <1>2, <1>3

\* What only moves the thread, the clock or the queue.
LEMMA HandlingKeeps ==
  ASSUME AnrInv, UNCHANGED <<watchVars, noticeVars>>,
         Tick \/ TracesWritten \/ OnEvent \/ HandleAnr \/ CheckProcessAnrState \/ Report \/ Sleep
  PROVE  AnrInv'
<1> USE ObserverAssumption DEF AnrInv, Move, watchVars, handlingVars, noticeVars,
        Tick, TracesWritten, OnEvent, HandleAnr, CheckProcessAnrState, Report, Sleep
<1>1. UNCHANGED <<last_time, reports, late>>
  OBVIOUS
<1>2. Times'
  BY DEF Times
<1>3. ReportsPast'
  BY <1>1 DEF ReportsPast, ReportsApart
<1>4. WatchKnown'
  BY DEF WatchKnown
<1>5. EventsCounted'
  BY <1>1 DEF EventsCounted, InHand
<1> QED BY <1>2, <1>3, <1>4, <1>5

\* Where a report begins: it keeps its distance, and takes the event in hand.
LEMMA GetTraceKeeps ==
  ASSUME AnrInv, GetTrace
  PROVE  AnrInv'
<1> USE ObserverAssumption DEF AnrInv, Move, GetTrace, watchVars, noticeVars
<1>1. CASE apc' = "sleep"
  <2>1. apc = "trace" /\ UNCHANGED <<queued, now, anr_time, last_time, reports, late,
                                     watchVars, noticeVars>>
    BY <1>1
  <2>2. Times' /\ ReportsPast'
    BY <1>1, <2>1 DEF Times, ReportsPast, ReportsApart
  <2>3. WatchKnown' /\ EventsCounted'
    BY <1>1, <2>1 DEF WatchKnown, EventsCounted, InHand
  <2> QED BY <2>2, <2>3
<1>2. CASE apc' = "report"
  <2> USE <1>2
  <2>1. /\ reports' = reports \cup {[at |-> anr_time, confirmed |-> confirmed]}
        /\ last_time' = anr_time /\ anr_time >= last_time + Timeout
    BY DEF Times
  <2>2. Times'
    BY <2>1 DEF Times
  <2>3. ReportsPast'
    <3>1. \A r \in reports' : r.at \in Nat /\ r.at <= last_time'
      BY <2>1 DEF Times, ReportsPast
    <3>2. ASSUME NEW r \in reports', NEW q \in reports', r.at < q.at
          PROVE  q.at >= r.at + Timeout
      <4>1. CASE r \in reports /\ q \in reports
        BY <3>2, <4>1 DEF ReportsPast, ReportsApart
      <4>2. CASE r \in reports /\ q \notin reports
        BY <2>1, <4>2 DEF Times, ReportsPast
      <4>3. CASE r \notin reports
        BY <2>1, <3>2, <4>3 DEF Times, ReportsPast
      <4> QED BY <4>1, <4>2, <4>3
    <3> QED BY <3>1, <3>2 DEF ReportsPast, ReportsApart
  <2>4. WatchKnown'
    BY DEF WatchKnown
  <2>5. EventsCounted'
    <3>1. InHand = 1 /\ InHand' = 0 /\ late' = late + (IF crashed THEN 1 ELSE 0)
      BY DEF InHand
    <3> QED BY <3>1 DEF EventsCounted
  <2> QED BY <2>2, <2>3, <2>4, <2>5
<1> QED BY <1>1, <1>2

LEMMA CollectedKeeps ==
  ASSUME AnrInv, ObserverCollected
  PROVE  AnrInv'
BY DEF AnrInv, ObserverCollected, handlingVars, noticeVars, Times, ReportsPast, ReportsApart,
       WatchKnown, EventsCounted, InHand

LEMMA ObserverKeeps ==
  ASSUME AnrInv, ObserverStep
  PROVE  AnrInv'
<1>1. CASE ObserverCollected
  BY <1>1, CollectedKeeps
<1>2. CASE GetTrace
  BY <1>2, GetTraceKeeps
<1>3. CASE Tick \/ TracesWritten \/ OnEvent \/ HandleAnr \/ CheckProcessAnrState \/ Report \/ Sleep
  <2>1. UNCHANGED <<watchVars, noticeVars>>
    BY <1>3 DEF Tick, TracesWritten, OnEvent, HandleAnr, CheckProcessAnrState, Report, Sleep
  <2> QED BY <1>3, <2>1, HandlingKeeps
<1> QED BY <1>1, <1>2, <1>3 DEF ObserverStep

\* The first notice finds a watch that it removes, and counts what is left.
LEMMA NotifyObserverKeeps ==
  ASSUME AnrInv, NotifyObserver
  PROVE  AnrInv'
<1> USE DEF AnrInv, NotifyObserver, handlingVars
<1>1. Times' /\ ReportsPast'
  BY DEF Times, ReportsPast, ReportsApart
<1>2. WatchKnown'
  BY DEF WatchKnown
<1>3. EventsCounted'
  <2>1. InHand' = InHand /\ InHand \in {0, 1}
    BY DEF InHand
  <2>2. CASE crashed
    BY <2>1, <2>2 DEF EventsCounted
  <2>3. CASE ~crashed
    <3>1. late = 0 /\ late' = 0 /\ backlog' = queued + InHand /\ queued' = queued
      BY <2>3 DEF EventsCounted
    <3>2. ~watching'
      BY <2>3 DEF WatchKnown
    <3> QED BY <2>1, <3>1, <3>2 DEF EventsCounted
  <2> QED BY <2>2, <2>3
<1> QED BY <1>1, <1>2, <1>3

LEMMA ObserverUntouched ==
  ASSUME AnrInv, UNCHANGED anrVars
  PROVE  AnrInv'
BY DEF AnrInv, anrVars, watchVars, handlingVars, noticeVars, Times, ReportsPast, ReportsApart,
       WatchKnown, EventsCounted, InHand

-----------------------------------------------------------------------------
(* Both together.                                                            *)

\* The inductive invariant of the two detectors: one call does the work and
\* nothing follows a success, while its thread goes its own way; the reports
\* lie before lastTime; after a notice each report takes an event that was left.
THEOREM DetectorsInvariant == DetectorsSpec => []DetectorsInv
<1>1. DetectorsInit => DetectorsInv
  <2> SUFFICES ASSUME DetectorsInit PROVE DetectorsInv
    OBVIOUS
  <2>1. InitInv
    BY DEF DetectorsInit, InitInit, InitInv, InitStep, TraceThreadState, Untouched, OneCallWorks,
           DataFirst, HandlerFindsData, Requested, TraceProgress, TraceThreadLives,
           ThreadGoesItsWay, SuccessIsLast, Working, TraceWork
  <2>2. AnrInv
    BY ObserverAssumption
    DEF DetectorsInit, AnrInit, AnrInv, Times, ReportsPast, ReportsApart, WatchKnown,
        EventsCounted
  <2> QED BY <2>1, <2>2 DEF DetectorsInv
<1>2. DetectorsInv /\ [DetectorsNext]_detectorVars => DetectorsInv'
  <2> SUFFICES ASSUME DetectorsInv, [DetectorsNext]_detectorVars PROVE DetectorsInv'
    OBVIOUS
  <2> USE DEF DetectorsInv
  <2>1. CASE AnrSide
    BY <2>1, ObserverKeeps, InitializeKeeps, NotifyObserverKeeps, InitUntouched DEF AnrSide
  <2>2. CASE InitSide
    BY <2>2, InitCallKeeps, TraceThreadKeeps, ObserverUntouched DEF InitSide
  <2>3. CASE NativeIsTold
    BY <2>3, NoticeKeeps, ObserverUntouched DEF NativeIsTold
  <2>4. CASE UNCHANGED detectorVars
    BY <2>4, InitUntouched, ObserverUntouched DEF detectorVars
  <2> QED BY <2>1, <2>2, <2>3, <2>4 DEF DetectorsNext
<1> QED BY <1>1, <1>2, PTL DEF DetectorsSpec

\* tac_crash_init: whenever a crash signal meets the handler, its data is there.
THEOREM DataBeforeHandlers == DetectorsSpec => []HandlerFindsData
<1>1. DetectorsInv => HandlerFindsData
  BY DEF DetectorsInv, InitInv, DataFirst
<1> QED BY <1>1, DetectorsInvariant, PTL

\* nativeInit: what Java takes for success is an armed native layer, for any
\* number of calls, but for a trace thread that could not attach or has seen
\* its crash.
THEOREM SuccessIsArmed == DetectorsSpec => []SuccessMeansArmed
<1>1. DetectorsInv => SuccessMeansArmed
  <2> SUFFICES ASSUME InitInv, init_success PROVE SuccessMeansArmed
    BY DEF DetectorsInv, SuccessMeansArmed
  <2>1. npc = "idle" /\ Armed
    BY DEF InitInv, SuccessIsLast
  <2>2. notifier <=> TraceThreadLives
    BY <2>1 DEF InitInv, TraceProgress
  <2> QED BY <2>1, <2>2
          DEF InitInv, Armed, ThreadGoesItsWay, TraceThreadState, TraceThreadLives, SuccessMeansArmed
<1> QED BY <1>1, DetectorsInvariant, PTL

\* tac_trace_init: a failure leaves SIGQUIT to ART, for any number of calls, and
\* a thread that lives has its notifier and its signal wherever the call is.
THEOREM TraceNothingHalf == DetectorsSpec => []TraceAllOrNothing
<1>1. DetectorsInv => TraceAllOrNothing
  <2> SUFFICES ASSUME InitInv PROVE TraceAllOrNothing
    BY DEF DetectorsInv
  <2>1. npc = "idle" => (quit_handler <=> trace_thread # "none") /\ (notifier <=> TraceThreadLives)
    BY DEF InitInv, TraceProgress
  <2>2. TraceThreadLives => notifier /\ quit_handler
    BY DEF InitInv, TraceProgress, ThreadGoesItsWay, TraceThreadLives
  <2> QED BY <2>1, <2>2 DEF TraceAllOrNothing
<1> QED BY <1>1, DetectorsInvariant, PTL

\* handleAnr: reports keep apart by any timeout, however long the process runs.
THEOREM ReportsKeepApart == DetectorsSpec => []ReportsApart
<1>1. DetectorsInv => ReportsApart
  BY DEF DetectorsInv, AnrInv, ReportsPast
<1> QED BY <1>1, DetectorsInvariant, PTL

\* AnrHandler.notifyJavaCrashed: however many events are queued by then and
\* however they fall, what follows the notice are reports of those events.
THEOREM LateReportsEnd == DetectorsSpec => []LateAnrsEnd
<1>1. DetectorsInv => LateAnrsEnd
  <2> SUFFICES ASSUME AnrInv, crashed, ~rewatched PROVE late <= backlog
    BY DEF DetectorsInv, LateAnrsEnd
  <2>1. InHand \in {0, 1}
    BY DEF InHand
  <2> QED BY <2>1 DEF AnrInv, EventsCounted
<1> QED BY <1>1, DetectorsInvariant, PTL
==============================================================================
