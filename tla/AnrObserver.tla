------------------------------ MODULE AnrObserver ------------------------------
(***************************************************************************)
(* AnrHandler: before ART (API level < 21) a FileObserver on /data/anr sees *)
(* that the system wrote a traces file.  One thread takes the events, waits *)
(* for the system's verdict, and reports, while a Java crash on any thread  *)
(* may tell it to stop.                                                     *)
(***************************************************************************)
EXTENDS Naturals

CONSTANTS
  Timeout,      \* anrTimeoutMs, in the unit of the clock
  MaxTime,      \* bound: the end of time
  MaxQueued,    \* bound: events between the kernel and onEvent
  CheckState    \* checkProcessState

ASSUME ObserverAssumption ==
  /\ Timeout \in Nat \ {0}
  /\ MaxTime \in Nat /\ MaxTime >= Timeout
  /\ MaxQueued \in Nat
  /\ CheckState \in BOOLEAN

VARIABLES
  ipc,           \* where the initialising thread is in AnrHandler.initialize
  fileObserver,  \* fileObserver # null
  watching,      \* the kernel has the watch
  queued,        \* events on their way: in the inotify queue or read from it
  apc,           \* where the observer thread is in handleAnr
  now,           \* the clock
  anr_time,      \* anrTime of the event in hand
  last_time,     \* lastTime
  confirmed,     \* the system said NOT_RESPONDING for the event in hand (history)
  crashed,       \* a Java crash was notified
  backlog,       \* events queued or in hand at the first notice (history)
  rewatched,     \* startWatching succeeded after a notice (history)
  reports,       \* reports begun, by anrTime, with the system's verdict (history)
  late           \* reports begun after a notice (history)

watchVars == <<ipc, fileObserver, watching, rewatched>>
handlingVars == <<anr_time, last_time, confirmed, reports, late>>
noticeVars == <<crashed, backlog>>
anrVars == <<watchVars, queued, apc, now, handlingVars, noticeVars>>

AnrTypeOK ==
  /\ ipc \in {"none", "created", "done"}
  /\ apc \in {"idle", "handle", "poll", "trace", "report", "sleep"}
  /\ {fileObserver, watching, confirmed, crashed, rewatched} \subseteq BOOLEAN
  /\ queued \in 0 .. MaxQueued
  /\ {now, anr_time, last_time} \subseteq 0 .. MaxTime
  /\ reports \in SUBSET [at : 0 .. MaxTime, confirmed : BOOLEAN]
  /\ {backlog, late} \subseteq Nat

\* The clock is far from lastTime = 0.
AnrInit ==
  /\ ipc = "none"
  /\ fileObserver = FALSE
  /\ watching = FALSE
  /\ queued = 0
  /\ apc = "idle"
  /\ now = Timeout
  /\ anr_time = 0
  /\ last_time = 0
  /\ confirmed = FALSE
  /\ crashed = FALSE
  /\ backlog = 0
  /\ rewatched = FALSE
  /\ reports = {}
  /\ late = 0

Move(from, to) == apc = from /\ apc' = to

\* An event was taken and its report not begun.
InHand == IF apc \in {"handle", "poll", "trace"} THEN 1 ELSE 0

-----------------------------------------------------------------------------
(* The clock, the system, and the watch.                                    *)

Tick ==
  /\ now < MaxTime
  /\ now' = now + 1
  /\ UNCHANGED <<watchVars, queued, apc, handlingVars, noticeVars>>

\* The system, or anyone else, has written a traces file.
TracesWritten ==
  /\ watching
  /\ queued < MaxQueued
  /\ queued' = queued + 1
  /\ UNCHANGED <<watchVars, apc, now, handlingVars, noticeVars>>

\* AnrHandler.initialize, which TACrash calls once.
CreateObserver ==
  /\ ipc = "none"
  /\ ipc' = "created"
  /\ fileObserver' = TRUE
  /\ UNCHANGED <<watching, rewatched, queued, apc, now, handlingVars, noticeVars>>

\* inotify may refuse the watch.  A notice may have cleared the field since it
\* was set: the call finds null, and throws, or had loaded it before.
StartWatching ==
  /\ ipc = "created"
  /\ ipc' = "done"
  /\ \/ /\ watching' \in BOOLEAN
        /\ rewatched' = (crashed /\ watching')
        /\ UNCHANGED fileObserver
     \/ /\ fileObserver' = FALSE
        /\ UNCHANGED <<watching, rewatched>>
  /\ UNCHANGED <<queued, apc, now, handlingVars, noticeVars>>

\* Mutant: the reference is cleared, the observer goes on.
NotifyWithoutStop ==
  /\ crashed' = TRUE
  /\ backlog' = IF crashed THEN backlog ELSE queued + InHand
  /\ fileObserver' = FALSE
  /\ UNCHANGED <<ipc, watching, rewatched, queued, apc, now, handlingVars>>

\* AnrHandler.notifyJavaCrashed: the watch is removed; what the kernel has
\* queued or the observer thread has read is delivered all the same.
NotifyObserver ==
  /\ crashed' = TRUE
  /\ backlog' = IF crashed THEN backlog ELSE queued + InHand
  /\ watching' = (watching /\ ~fileObserver)
  /\ fileObserver' = FALSE
  /\ UNCHANGED <<ipc, rewatched, queued, apc, now, handlingVars>>

\* android.os.FileObserver keeps its observers by weak references, and the
\* finalizer stops the watch: what was queued for one is dropped.
ObserverCollected ==
  /\ ipc = "done" /\ ~fileObserver
  /\ apc = "idle"
  /\ watching' = FALSE
  /\ queued' = 0
  /\ UNCHANGED <<ipc, fileObserver, rewatched, apc, now, handlingVars, noticeVars>>

-----------------------------------------------------------------------------
(* onEvent and handleAnr.                                                   *)

OnEvent ==
  /\ queued > 0
  /\ Move("idle", "handle")
  /\ queued' = queued - 1
  /\ UNCHANGED <<watchVars, now, handlingVars, noticeVars>>

\* Mutant: every event is handled.
HandleEvery ==
  /\ Move("handle", IF CheckState THEN "poll" ELSE "trace")
  /\ anr_time' = now
  /\ confirmed' = FALSE
  /\ UNCHANGED <<watchVars, queued, now, last_time, reports, late, noticeVars>>

\* Events within anrTimeoutMs of the last report are dropped.  Every call of
\* onEvent for a traces file ends in a second of sleep.
HandleAnr ==
  /\ \/ /\ now >= last_time + Timeout
        /\ Move("handle", IF CheckState THEN "poll" ELSE "trace")
     \/ now < last_time + Timeout /\ Move("handle", "sleep")
  /\ anr_time' = now
  /\ confirmed' = FALSE
  /\ UNCHANGED <<watchVars, queued, now, last_time, reports, late, noticeVars>>

\* Utils.checkProcessAnrState: TRUE as soon as the process is listed as
\* NOT_RESPONDING; FALSE without an ActivityManager, or after a wait that an
\* interrupt shortens.  handleAnr returns on TRUE.
CheckProcessAnrState ==
  /\ \/ Move("poll", "sleep") /\ confirmed' = TRUE
     \/ Move("poll", "trace") /\ UNCHANGED confirmed
  /\ UNCHANGED <<watchVars, queued, now, anr_time, last_time, reports, late, noticeVars>>

\* No block of this process near anrTime in the file, or on to the report.
GetTrace ==
  /\ \/ Move("trace", "sleep") /\ UNCHANGED <<last_time, reports, late>>
     \/ /\ Move("trace", "report")
        /\ last_time' = anr_time
        /\ reports' = reports \cup {[at |-> anr_time, confirmed |-> confirmed]}
        /\ late' = late + (IF crashed THEN 1 ELSE 0)
  /\ UNCHANGED <<watchVars, queued, now, anr_time, confirmed, noticeVars>>

\* Emergency, file, write and callback change nothing that is told apart here.
Report ==
  /\ Move("report", "sleep")
  /\ UNCHANGED <<watchVars, queued, now, handlingVars, noticeVars>>

Sleep ==
  /\ Move("sleep", "idle")
  /\ UNCHANGED <<watchVars, queued, now, handlingVars, noticeVars>>

ObserverStep ==
  \/ Tick \/ TracesWritten \/ ObserverCollected
  \/ OnEvent \/ HandleAnr \/ CheckProcessAnrState \/ GetTrace \/ Report \/ Sleep

InitializeObserver == CreateObserver \/ StartWatching

AnrNext == ObserverStep \/ InitializeObserver \/ NotifyObserver

AnrSpec == AnrInit /\ [][AnrNext]_anrVars

-----------------------------------------------------------------------------
(* Properties.                                                              *)

\* handleAnr: two reports are at least anrTimeoutMs apart, however the events,
\* the wait for the system and the clock fall together.
ReportsApart ==
  \A r, q \in reports : r.at < q.at => q.at >= r.at + Timeout

\* notifyJavaCrashed stops the observer: after the notice only what was queued
\* or in hand by then is still reported, each event once, however the reports
\* and the clock fall; unless startWatching came after the notice, which then
\* meets an observer that nobody stops.
LateAnrsEnd == crashed /\ ~rewatched => late <= backlog

\* AnrHandler: "Used to catch ANR exceptions.": what the system calls an ANR
\* is what is reported.
ReportsAnrs == \A r \in reports : CheckState => r.confirmed
==============================================================================
