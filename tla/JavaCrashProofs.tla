---------------------------- MODULE JavaCrashProofs ----------------------------
(***************************************************************************)
(* Proofs about JavaCrash, for any set of threads and any clock: reports do *)
(* not mix, and none is in two places or in none.                            *)
(***************************************************************************)
EXTENDS JavaCrash, FiniteSetTheorems, TLAPS

\* Before Utils.createFile, and before the write.
NoFileYet == {"run", "restore", "notify", "create"}
NotWritten == NoFileYet \cup {"emergency", "write"}

\* A name belongs to the one thread that created the file.
FileOwner ==
  /\ \A t \in JavaThread : log_file[t] => stamp[t] \in files
  /\ \A t, u \in JavaThread :
       log_file[t] /\ log_file[u] /\ stamp[t] = stamp[u] => t = u
  /\ \A t \in JavaThread : jpc[t] \in NoFileYet => ~log_file[t]

\* Only the owner writes, and only once.
OwnerWrites ==
  /\ \A t \in JavaThread, s \in Time : t \in content[s] => log_file[t] /\ stamp[t] = s
  /\ \A t \in JavaThread, s \in Time : jpc[t] \in NotWritten => t \notin content[s]

BuiltIsKept == \A t \in JavaThread : jpc[t] = "write" => emergency[t] = built[t]

JavaInv == JavaTypeOK /\ FileOwner /\ OwnerWrites /\ BuiltIsKept /\ ReportInOnePlace

-----------------------------------------------------------------------------
\* The invariant holds before anybody crashed.
LEMMA JavaInitial == JavaInit => JavaInv
  BY JavaAssumption
  DEF JavaAssumption, JavaInit, JavaInv, JavaTypeOK, JavaStep, InHandler, Recorded, Time,
      FileOwner, NoFileYet, OwnerWrites, NotWritten, BuiltIsKept, ReportInOnePlace

\* Steps that leave files, content and the report of every thread alone.
LEMMA JavaBystander ==
  ASSUME NEW t \in JavaThread, NEW from \in JavaStep, NEW to \in JavaStep,
         JavaInv, Step(t, from, to),
         to \in NoFileYet => from \in NoFileYet,
         to \in NotWritten => from \in NotWritten,
         to # "write",
         to \in Recorded => from \in Recorded,
         UNCHANGED <<stamp, files, content, log_file, emergency, built>>
  PROVE FileOwner' /\ OwnerWrites' /\ BuiltIsKept' /\ ReportInOnePlace'
  BY DEF JavaInv, JavaTypeOK, Step, FileOwner, OwnerWrites, BuiltIsKept, ReportInOnePlace

\* Every step of a thread or of the clock keeps the types.
LEMMA JavaTypesKept == JavaTypeOK /\ [JavaNext]_javaVars => JavaTypeOK'
<1> SUFFICES ASSUME JavaTypeOK, [JavaNext]_javaVars PROVE JavaTypeOK'
  OBVIOUS
<1> USE DEF JavaTypeOK, JavaStep, InHandler, Recorded
<1>1. CASE UNCHANGED javaVars
  BY <1>1 DEF javaVars
<1>2. CASE Tick
  BY <1>2, JavaAssumption DEF JavaAssumption, Tick, Time
<1>3. ASSUME NEW t \in JavaThread,
             \/ UncaughtException(t) \/ UncaughtByPrevious(t) \/ HandlesException(t)
             \/ ListenerReturns(t) \/ ErrorEscapes(t)
      PROVE JavaTypeOK'
  <2>1. CASE UncaughtException(t) BY <2>1 DEF UncaughtException, Step
  <2>2. CASE UncaughtByPrevious(t) BY <2>2 DEF UncaughtByPrevious, Step
  <2>3. CASE RestoreDefault(t) BY <2>3 DEF RestoreDefault, Step
  <2>4. CASE NotifyCrashed(t) BY <2>4 DEF NotifyCrashed, Step
  <2>5. CASE CreateFile(t)
    <3>1. stamp[t] \in Time
      OBVIOUS
    <3>2. files' \in SUBSET Time
      BY <2>5, <3>1 DEF CreateFile
    <3>3. log_file' \in [JavaThread -> BOOLEAN]
      BY <2>5 DEF CreateFile
    <3> QED BY <2>5, <3>2, <3>3 DEF CreateFile, Step
  <2>6. CASE GetEmergency(t) BY <2>6 DEF GetEmergency, Step
  <2>7. CASE WriteLog(t)
    <3>1. content' \in [Time -> SUBSET JavaThread]
      BY <2>7 DEF WriteLog, Writes
    <3>2. emergency' \in [JavaThread -> BOOLEAN]
      BY <2>7 DEF WriteLog
    <3> QED BY <2>7, <3>1, <3>2 DEF WriteLog, Step
  <2>8. CASE OnCrash(t) BY <2>8 DEF OnCrash, Step
  <2>9. CASE Finish(t) BY <2>9 DEF Finish, Step
  <2>10. CASE ListenerReturns(t) BY <2>10 DEF ListenerReturns, Step
  <2>11. CASE ErrorEscapes(t) BY <2>11 DEF ErrorEscapes, Step
  <2> QED BY <1>3, <2>1, <2>2, <2>3, <2>4, <2>5, <2>6, <2>7, <2>8, <2>9, <2>10, <2>11
          DEF HandlesException
<1> QED BY <1>1, <1>2, <1>3 DEF JavaNext

-----------------------------------------------------------------------------
\* createNewFile is atomic: the name of a new file is nobody's yet.
LEMMA JavaCreates ==
  ASSUME NEW t \in JavaThread, JavaInv, CreateFile(t)
  PROVE FileOwner' /\ OwnerWrites' /\ BuiltIsKept' /\ ReportInOnePlace'
<1> USE DEF JavaInv, JavaTypeOK, CreateFile, Step
<1>1. FileOwner'
  BY DEF FileOwner, NoFileYet
<1>2. OwnerWrites'
  BY DEF OwnerWrites, NotWritten, NoFileYet
<1>3. BuiltIsKept'
  BY DEF BuiltIsKept
<1>4. ReportInOnePlace'
  BY DEF FileOwner, ReportInOnePlace, Recorded, NoFileYet
<1> QED BY <1>1, <1>2, <1>3, <1>4

\* The write moves the report from `emergency` to the thread's own file.
LEMMA JavaWrites ==
  ASSUME NEW t \in JavaThread, JavaInv, WriteLog(t)
  PROVE FileOwner' /\ OwnerWrites' /\ BuiltIsKept' /\ ReportInOnePlace'
<1> USE DEF JavaInv, JavaTypeOK, WriteLog, Writes, Step
<1>1. FileOwner'
  BY DEF FileOwner, NoFileYet
<1>2. OwnerWrites'
  BY DEF OwnerWrites, NotWritten, NoFileYet
<1>3. BuiltIsKept'
  BY DEF BuiltIsKept
<1>4. ReportInOnePlace'
  <2>1. t \notin content[stamp[t]] /\ emergency[t] = built[t]
    BY DEF OwnerWrites, BuiltIsKept, NotWritten
  <2>2. ASSUME NEW u \in JavaThread, jpc'[u] \in Recorded, built'[u]
        PROVE emergency'[u] # (log_file'[u] /\ u \in content'[stamp'[u]])
    <3>1. CASE u = t
      <4>1. CASE ~emergency[t]
        BY <2>1, <2>2, <3>1, <4>1
      <4>2. CASE content' = content /\ emergency' = emergency
        BY <2>1, <2>2, <3>1, <4>2
      <4>3. CASE emergency[t] /\ log_file[t] /\ Writes(t) /\ emergency' = [emergency EXCEPT ![t] = FALSE]
        <5>1. stamp[t] \in Time /\ stamp' = stamp /\ log_file' = log_file
          OBVIOUS
        <5>2. content'[stamp[t]] = content[stamp[t]] \cup {t}
          BY <4>3, <5>1
        <5>3. ~emergency'[t]
          BY <4>3
        <5> QED BY <3>1, <4>3, <5>1, <5>2, <5>3
      <4> QED BY <4>1, <4>2, <4>3
    <3>2. CASE u # t BY <2>2, <3>2 DEF ReportInOnePlace
    <3> QED BY <3>1, <3>2
  <2> QED BY <2>2 DEF ReportInOnePlace
<1> QED BY <1>1, <1>2, <1>3, <1>4

\* The stamp is taken while the thread has no file and no report.
LEMMA JavaStamps ==
  ASSUME NEW t \in JavaThread, JavaInv, NotifyCrashed(t)
  PROVE FileOwner' /\ OwnerWrites' /\ BuiltIsKept' /\ ReportInOnePlace'
<1> USE DEF JavaInv, JavaTypeOK, NotifyCrashed, Step
<1>1. FileOwner'
  BY DEF FileOwner, NoFileYet
<1>2. OwnerWrites'
  BY DEF OwnerWrites, NotWritten, NoFileYet
<1>3. BuiltIsKept' /\ ReportInOnePlace'
  BY DEF BuiltIsKept, ReportInOnePlace, Recorded
<1> QED BY <1>1, <1>2, <1>3

LEMMA JavaBuilds ==
  ASSUME NEW t \in JavaThread, JavaInv, GetEmergency(t)
  PROVE FileOwner' /\ OwnerWrites' /\ BuiltIsKept' /\ ReportInOnePlace'
<1> USE DEF JavaInv, JavaTypeOK, GetEmergency, Step
<1>1. FileOwner' /\ OwnerWrites'
  BY DEF FileOwner, OwnerWrites, NotWritten, NoFileYet
<1>2. BuiltIsKept' /\ ReportInOnePlace'
  BY DEF BuiltIsKept, ReportInOnePlace, Recorded
<1> QED BY <1>1, <1>2

\* Every step keeps the invariant.
LEMMA JavaStepKeeps == JavaInv /\ [JavaNext]_javaVars => JavaInv'
<1> SUFFICES ASSUME JavaInv, [JavaNext]_javaVars PROVE JavaInv'
  OBVIOUS
<1>0. JavaTypeOK'
  BY JavaTypesKept DEF JavaInv
<1>1. ASSUME UNCHANGED <<jpc, stamp, files, content, log_file, emergency, built>>
      PROVE JavaInv'
  BY <1>0, <1>1 DEF JavaInv, FileOwner, OwnerWrites, BuiltIsKept, ReportInOnePlace
<1>2. ASSUME NEW t \in JavaThread,
             \/ UncaughtException(t) \/ UncaughtByPrevious(t) \/ HandlesException(t)
             \/ ListenerReturns(t) \/ ErrorEscapes(t)
      PROVE FileOwner' /\ OwnerWrites' /\ BuiltIsKept' /\ ReportInOnePlace'
  <2> USE DEF NoFileYet, NotWritten, Recorded, JavaStep, InHandler
  <2>1. CASE UncaughtException(t)
    BY <2>1, JavaBystander DEF UncaughtException
  <2>2. CASE UncaughtByPrevious(t)
    BY <2>2, JavaBystander DEF UncaughtByPrevious
  <2>3. CASE RestoreDefault(t)
    BY <2>3, JavaBystander DEF RestoreDefault
  <2>4. CASE OnCrash(t)
    <3>1. PICK from \in {"callback"}, to \in {"listening", "sleep"} : Step(t, from, to)
      BY <2>4 DEF OnCrash
    <3> QED BY <2>4, <3>1, JavaBystander DEF OnCrash
  <2>5. CASE Finish(t)
    BY <2>5, JavaBystander DEF Finish
  <2>6. CASE ListenerReturns(t)
    BY <2>6, JavaBystander DEF ListenerReturns
  <2>7. CASE ErrorEscapes(t)
    <3>1. PICK from \in InHandler \ {"restore", "sleep"} : Step(t, from, "escaped")
      BY <2>7 DEF ErrorEscapes
    <3> QED BY <2>7, <3>1, JavaBystander DEF ErrorEscapes
  <2> QED BY <1>2, <2>1, <2>2, <2>3, <2>4, <2>5, <2>6, <2>7, JavaCreates, JavaWrites,
             JavaStamps, JavaBuilds DEF HandlesException
<1>3. CASE Tick
  BY <1>1, <1>3 DEF Tick
<1> QED BY <1>0, <1>1, <1>2, <1>3 DEF JavaNext, javaVars, JavaInv

-----------------------------------------------------------------------------
(* Theorems.                                                                 *)

\* uncaughtException with everything it calls, on any number of threads: the
\* inductive invariant.
THEOREM JavaInvariant == JavaSpec => []JavaInv
  BY JavaInitial, JavaStepKeeps, PTL DEF JavaSpec

\* JavaCrashHandler.handleException: for any number of threads that crash, in
\* the same millisecond or not, one log never holds two reports.
THEOREM ReportsNeverMix == JavaSpec => []OneReportPerFile
<1>1. JavaInv => OneReportPerFile
  <2> SUFFICES ASSUME JavaInv, NEW s \in Time PROVE Cardinality(content[s]) <= 1
    BY DEF OneReportPerFile
  <2>1. CASE content[s] = {}
    BY <2>1, FS_EmptySet
  <2>2. CASE content[s] # {}
    <3>1. PICK t \in content[s] : TRUE
      BY <2>2
    <3>2. content[s] = {t}
      BY <3>1 DEF JavaInv, JavaTypeOK, OwnerWrites, FileOwner
    <3>3. Cardinality(content[s]) = 1
      BY <3>2, FS_Singleton
    <3> QED BY <3>3
  <2> QED BY <2>1, <2>2
<1> QED BY <1>1, JavaInvariant, PTL

\* handleException: whatever fails and whoever crashes beside, a report that was
\* built is in the log of its thread or in `emergency`, and not in both.
THEOREM ReportNeverLost == JavaSpec => []ReportInOnePlace
<1>1. JavaInv => ReportInOnePlace
  BY DEF JavaInv
<1> QED BY <1>1, JavaInvariant, PTL
==============================================================================
