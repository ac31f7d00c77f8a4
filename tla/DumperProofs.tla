----------------------------- MODULE DumperProofs -----------------------------
(***************************************************************************)
(* Safety of Dumper for every set of threads of the crashed process, and how *)
(* far it is from its end.                                                   *)
(***************************************************************************)
EXTENDS Dumper, Naturals, FiniteSetTheorems, TLAPS

-----------------------------------------------------------------------------
(* The inductive invariant.                                                 *)

\* While the dumper runs, at most the thread it waits for has a SIGSTOP under
\* way, and nothing has stopped the whole process.
SigstopInHand ==
  dumper = "running" =>
    \A t \in Tid : /\ target[t] # "halted"
                   /\ target[t] = "stopping" => dpc = "wait" /\ t = cur

\* From the list of threads to the end of the recording.
Tracing == dumper = "running" /\ dpc \in {"suspend", "wait", "info", "record", "resume"}

\* The crashed thread is in the list, and all of the list is dealt with before
\* anything is read.
ListDone ==
  Tracing => /\ CrashTid \in thds
             /\ dpc \in {"info", "record", "resume"} => todo = {}

\* A thread that was dealt with and whose status is good is held or gone, or it
\* is the one that is waited for.
GoodMeansHeld ==
  Tracing =>
    \A t \in thds \ todo :
      status[t] = "OK" => \/ target[t] \in {"stopped", "gone"}
                          \/ dpc = "wait" /\ t = cur

DumpInv ==
  /\ DumpTypeOK
  /\ SigstopInHand
  /\ NothingStaysStopped
  /\ ListDone
  /\ GoodMeansHeld

-----------------------------------------------------------------------------
(* The steps of DumpNext, grouped.                                          *)

Prepares == ExecDumper \/ ReadArgs \/ OpenLog \/ RegisterSelfCrash \/ RecordSys

Ends == SelfCrash \/ DumperKilled

OfTarget == TargetDies \/ \E t \in Tid : ThreadStops(t) \/ ThreadExits(t) \/ ThreadStarts(t)

\* Every step belongs to one of the groups.
LEMMA DumpStepCases ==
  ASSUME [DumpNext]_dumpVars
  PROVE  \/ Prepares \/ CreateProcess \/ AttachThread \/ WaitThread \/ LoadInfo
         \/ RecordProcess \/ Finish \/ AlarmExpires \/ Ends \/ OfTarget
         \/ UNCHANGED dumpVars
BY DEF DumpNext, Main, Prepares, Ends, OfTarget

\* What the kernel does to the threads when the dumper ends leaves none of them
\* with its SIGSTOP, and halts them only if one had it under way.
LEMMA ReleasedThreads ==
  ASSUME DumpTypeOK
  PROVE  /\ Released \in [Tid -> TargetState]
         /\ \A t \in Tid : Released[t] \notin {"stopping", "stopped"}
         /\ (\A t \in Tid : target[t] \notin {"stopping", "halted"})
              => \A t \in Tid : Released[t] # "halted"
<1>1. CASE \E t \in Tid : target[t] = "stopping"
  BY <1>1 DEF DumpTypeOK, Released, Live, TargetState
<1>2. CASE ~ \E t \in Tid : target[t] = "stopping"
  BY <1>2 DEF DumpTypeOK, Released, TargetState
<1> QED
  BY <1>1, <1>2

-----------------------------------------------------------------------------
(* Steps that end the dumper.                                               *)

\* The dumper ends of itself where it waits for no thread.
LEMMA ExitKeepsInv ==
  ASSUME DumpInv, NEW from \in DumperStepName \ {"wait"}, Exits(from)
  PROVE  DumpInv'
<1> USE DEF Exits, EndsWith, At, ownVars
<1>1. DumpTypeOK'
  BY ReleasedThreads DEF DumpInv, DumpTypeOK, DumperTypeOK, DumperState
<1>2. \A t \in Tid : target[t] \notin {"stopping", "halted"}
  BY DEF DumpInv, SigstopInHand
<1>3. NothingStaysStopped'
  BY <1>2, ReleasedThreads DEF DumpInv, NothingStaysStopped
<1> QED
  BY <1>1, <1>3 DEF DumpInv, SigstopInHand, ListDone, GoodMeansHeld, Tracing

\* A fault or a kill ends it anywhere; only a kill can do so during the wait.
LEMMA EndsKeepInv ==
  ASSUME DumpInv, Ends
  PROVE  DumpInv'
<1> USE DEF EndsWith, At, ownVars
<1>1. dumper = "running" /\ dumper' = "failed" /\ target' = Released
  BY DEF Ends, SelfCrash, DumperKilled
<1>2. DumpTypeOK'
  BY <1>1, ReleasedThreads
  DEF Ends, SelfCrash, DumperKilled, DumpInv, DumpTypeOK, DumperTypeOK, DumperState
<1>3. NothingStaysStopped'
  <2>1. CASE SelfCrash
    <3>1. \A t \in Tid : target[t] \notin {"stopping", "halted"}
      BY <2>1 DEF SelfCrash, DumpInv, SigstopInHand
    <3> QED
      BY <3>1, <1>1, ReleasedThreads DEF DumpInv, NothingStaysStopped
  <2>2. CASE DumperKilled
    BY <2>2, <1>1, ReleasedThreads DEF DumperKilled, DumpInv, NothingStaysStopped
  <2> QED
    BY <2>1, <2>2 DEF Ends
<1> QED
  BY <1>1, <1>2, <1>3 DEF DumpInv, SigstopInHand, ListDone, GoodMeansHeld, Tracing

-----------------------------------------------------------------------------
(* Steps of main that go on.                                                *)

\* What does not touch the threads: the set-up, and the system information.
LEMMA PreparesKeepsInv ==
  ASSUME DumpInv, Prepares
  PROVE  DumpInv'
<1> USE DEF Prepares, ExecDumper, ReadArgs, OpenLog, RegisterSelfCrash, RecordSys
<1>1. CASE \E from \in {"exec", "args", "open", "info"} : Exits(from)
  BY <1>1, ExitKeepsInv DEF DumperStepName
<1>2. CASE ~ \E from \in {"exec", "args", "open", "info"} : Exits(from)
  <2> USE <1>2 DEF GoesOn, At
  <2>1. DumpTypeOK'
    BY DEF DumpInv, DumpTypeOK, DumperTypeOK, DumperStepName
  <2>2. SigstopInHand' /\ NothingStaysStopped'
    BY DEF DumpInv, SigstopInHand, NothingStaysStopped
  <2>3. ListDone' /\ GoodMeansHeld'
    BY DEF DumpInv, ListDone, GoodMeansHeld, Tracing
  <2> QED
    BY <2>1, <2>2, <2>3 DEF DumpInv
<1> QED
  BY <1>1, <1>2

\* The list is read: nothing in it is dealt with yet.
LEMMA CreateKeepsInv ==
  ASSUME DumpInv, CreateProcess
  PROVE  DumpInv'
<1>1. CASE Exits("create")
  BY <1>1, ExitKeepsInv DEF DumperStepName
<1>2. CASE ~ Exits("create")
  <2> USE <1>2 DEF CreateProcess, GoesOn, At
  <2>1. DumpTypeOK'
    BY DEF DumpInv, DumpTypeOK, DumperTypeOK, DumperStepName, Live
  <2>2. SigstopInHand' /\ NothingStaysStopped'
    BY DEF DumpInv, SigstopInHand, NothingStaysStopped
  <2>3. ListDone' /\ GoodMeansHeld'
    BY DEF ListDone, GoodMeansHeld, Tracing
  <2> QED
    BY <2>1, <2>2, <2>3 DEF DumpInv
<1> QED
  BY <1>1, <1>2

\* A thread is attached and waited for, or its status says that it was not.
LEMMA AttachKeepsInv ==
  ASSUME DumpInv, AttachThread
  PROVE  DumpInv'
<1>1. PICK t \in todo :
        /\ todo' = todo \ {t}
        /\ \/ /\ target[t] = "running"
              /\ GoesOn("suspend", "wait")
              /\ target' = [target EXCEPT ![t] = "stopping"]
              /\ cur' = t
              /\ UNCHANGED status
           \/ /\ GoesOn("suspend", "suspend")
              /\ status' = [status EXCEPT ![t] = "ATTACH"]
              /\ UNCHANGED <<target, cur>>
        /\ UNCHANGED <<crash_log, thds, alarm>>
  BY DEF AttachThread
<1>2. t \in Tid
  BY DEF DumpInv, DumpTypeOK
<1> USE <1>1, <1>2 DEF GoesOn, At
<1>3. DumpTypeOK'
  BY DEF DumpInv, DumpTypeOK, DumperTypeOK, DumperStepName, TargetState, Status
<1>4. SigstopInHand' /\ NothingStaysStopped'
  BY DEF DumpInv, DumpTypeOK, SigstopInHand, NothingStaysStopped
<1>5. ListDone'
  BY DEF DumpInv, ListDone, Tracing
<1>6. GoodMeansHeld'
  BY DEF DumpInv, DumpTypeOK, GoodMeansHeld, Tracing
<1> QED
  BY <1>3, <1>4, <1>5, <1>6 DEF DumpInv

\* After the wait nothing has its SIGSTOP under way any more.
LEMMA WaitKeepsInv ==
  ASSUME DumpInv, WaitThread
  PROVE  DumpInv'
<1> USE DEF WaitThread, GoesOn, At
<1>1. DumpTypeOK'
  BY DEF DumpInv, DumpTypeOK, DumperTypeOK, DumperStepName, Status
<1>2. SigstopInHand' /\ NothingStaysStopped'
  BY DEF DumpInv, SigstopInHand, NothingStaysStopped
<1>3. ListDone'
  BY DEF DumpInv, ListDone, Tracing
<1>4. GoodMeansHeld'
  BY DEF DumpInv, DumpTypeOK, GoodMeansHeld, Tracing
<1> QED
  BY <1>1, <1>2, <1>3, <1>4 DEF DumpInv

\* The registers are read when the list is done; a status gets only worse.
LEMMA LoadKeepsInv ==
  ASSUME DumpInv, LoadInfo
  PROVE  DumpInv'
<1> USE DEF LoadInfo, GoesOn, At
<1>1. DumpTypeOK'
  BY DEF DumpInv, DumpTypeOK, DumperTypeOK, DumperStepName, Status
<1>2. SigstopInHand' /\ NothingStaysStopped'
  BY DEF DumpInv, SigstopInHand, NothingStaysStopped
<1>3. ListDone'
  BY DEF DumpInv, ListDone, Tracing
<1>4. GoodMeansHeld'
  BY DEF DumpInv, DumpTypeOK, GoodMeansHeld, Tracing
<1> QED
  BY <1>1, <1>2, <1>3, <1>4 DEF DumpInv

\* The frames go to the log.
LEMMA RecordKeepsInv ==
  ASSUME DumpInv, RecordProcess
  PROVE  DumpInv'
<1>1. CASE Exits("record")
  BY <1>1, ExitKeepsInv DEF DumperStepName
<1>2. CASE ~ Exits("record")
  <2> USE <1>2 DEF RecordProcess, GoesOn, At
  <2>1. crash_log' \in {crash_log, crash_log \cup {"backtrace"}}
    OBVIOUS
  <2>2. DumpTypeOK'
    BY <2>1 DEF DumpInv, DumpTypeOK, DumperTypeOK, DumperStepName, Section
  <2>3. SigstopInHand' /\ NothingStaysStopped'
    BY DEF DumpInv, SigstopInHand, NothingStaysStopped
  <2>4. ListDone' /\ GoodMeansHeld'
    BY DEF DumpInv, ListDone, GoodMeansHeld, Tracing
  <2> QED
    BY <2>2, <2>3, <2>4 DEF DumpInv
<1> QED
  BY <1>1, <1>2

\* The dumper returns: every thread it stopped runs on.
LEMMA FinishKeepsInv ==
  ASSUME DumpInv, Finish
  PROVE  DumpInv'
<1>1. CASE Exits("resume")
  BY <1>1, ExitKeepsInv DEF DumperStepName
<1>2. CASE ~ Exits("resume")
  <2> USE <1>2 DEF Finish, EndsWith, At
  <2>1. DumpTypeOK'
    BY ReleasedThreads DEF DumpInv, DumpTypeOK, DumperTypeOK, DumperState, DumperStepName
  <2>2. \A t \in Tid : target[t] \notin {"stopping", "halted"}
    BY DEF DumpInv, SigstopInHand
  <2>3. NothingStaysStopped'
    BY <2>2, ReleasedThreads DEF DumpInv, NothingStaysStopped
  <2> QED
    BY <2>1, <2>3 DEF DumpInv, SigstopInHand, ListDone, GoodMeansHeld, Tracing
<1> QED
  BY <1>1, <1>2

-----------------------------------------------------------------------------
(* Steps of the timer and of the crashed process.                           *)

\* SIGALRM stays pending.
LEMMA AlarmKeepsInv ==
  ASSUME DumpInv, AlarmExpires
  PROVE  DumpInv'
BY DEF AlarmExpires, InheritedMask, ownVars, DumpInv, DumpTypeOK, DumperTypeOK,
       SigstopInHand, NothingStaysStopped, ListDone, GoodMeansHeld, Tracing

\* A thread stops, ends or is started, or the whole process dies.
LEMMA TargetKeepsInv ==
  ASSUME DumpInv, OfTarget
  PROVE  DumpInv'
<1>1. UNCHANGED <<dumper, crash_log, ownVars, alarm, end>>
  BY DEF OfTarget, TargetDies, ThreadStops, ThreadExits, ThreadStarts, TargetOnly
<1> DEFINE Moves ==
      /\ target' \in [Tid -> TargetState]
      /\ \A t \in Tid : \/ target'[t] = target[t]
                        \/ target'[t] = "gone"
                        \/ target[t] = "stopping" /\ target'[t] = "stopped"
                        \/ target[t] = "unborn" /\ target'[t] = "running"
<1>2. Moves
  <2>1. CASE TargetDies
    BY <2>1 DEF TargetDies, DumpInv, DumpTypeOK, TargetState
  <2>2. ASSUME NEW u \in Tid, ThreadStops(u) \/ ThreadExits(u) \/ ThreadStarts(u)
        PROVE  Moves
    BY <2>2 DEF ThreadStops, ThreadExits, ThreadStarts, TargetOnly,
                DumpInv, DumpTypeOK, TargetState
  <2> QED
    BY <2>1, <2>2 DEF OfTarget
<1> USE <1>1, <1>2 DEF ownVars
<1>3. DumpTypeOK'
  BY DEF DumpInv, DumpTypeOK, DumperTypeOK
<1>4. SigstopInHand' /\ NothingStaysStopped'
  BY DEF DumpInv, SigstopInHand, NothingStaysStopped
<1>5. ListDone'
  BY DEF DumpInv, ListDone, Tracing
<1>6. GoodMeansHeld'
  BY DEF DumpInv, DumpTypeOK, GoodMeansHeld, Tracing
<1> QED
  BY <1>3, <1>4, <1>5, <1>6 DEF DumpInv

-----------------------------------------------------------------------------
(* The theorems.                                                            *)

\* The invariant holds of every behaviour, however many threads there are and
\* whatever they do while they are stopped one by one.
THEOREM DumperInvariant == DumpSpec => []DumpInv
<1>1. DumpInit => DumpInv
  BY TidAssumption
  DEF DumpInit, DumpInv, DumpTypeOK, DumperTypeOK, DumperState, DumperStepName,
      TargetState, Status, SigstopInHand, NothingStaysStopped, ListDone,
      GoodMeansHeld, Tracing
<1>2. DumpInv /\ [DumpNext]_dumpVars => DumpInv'
  <2> SUFFICES ASSUME DumpInv, [DumpNext]_dumpVars
               PROVE  DumpInv'
    OBVIOUS
  <2>1. CASE UNCHANGED dumpVars
    BY <2>1 DEF dumpVars, ownVars, DumpInv, DumpTypeOK, DumperTypeOK, SigstopInHand,
                NothingStaysStopped, ListDone, GoodMeansHeld, Tracing
  <2> QED
    BY <2>1, DumpStepCases, PreparesKeepsInv, CreateKeepsInv, AttachKeepsInv,
       WaitKeepsInv, LoadKeepsInv, RecordKeepsInv, FinishKeepsInv, AlarmKeepsInv,
       EndsKeepInv, TargetKeepsInv
<1> QED
  BY <1>1, <1>2, PTL DEF DumpSpec

\* Every variable of the dumper keeps its type.
THEOREM DumperTypesHold == DumpSpec => []DumpTypeOK
BY DumperInvariant, PTL DEF DumpInv

\* Whatever ends the dumper, it leaves no thread of the crashed process stopped,
\* and it halts the process only when it is killed during a wait.
THEOREM NothingLeftStopped == DumpSpec => []NothingStaysStopped
BY DumperInvariant, PTL DEF DumpInv

\* From the reading of the registers to the end of the recording each thread of
\* the list that lives is held, unless its status is bad.
THEOREM ListedAreHeld == DumpSpec => []ListedThreadsHeld
<1>1. DumpInv => ListedThreadsHeld
  <2> SUFFICES ASSUME DumpInv, dumper = "running",
                      dpc \in {"info", "record", "resume"},
                      NEW t \in thds \cap Live, status[t] = "OK"
               PROVE  target[t] = "stopped"
    BY DEF ListedThreadsHeld
  <2>1. t \in thds \ todo
    BY DEF DumpInv, ListDone, Tracing
  <2>2. target[t] \in {"stopped", "gone"}
    BY <2>1 DEF DumpInv, GoodMeansHeld, Tracing
  <2> QED
    BY <2>2 DEF Live
<1> QED
  BY <1>1, DumperInvariant, PTL

\* The frames of the crashed thread are taken only when it is held or gone.
THEOREM FramesFromHeldThread == DumpSpec => FramesOfHeldThread
<1>1. DumpInv /\ [DumpNext]_dumpVars
        => [crash_log' # crash_log => target[CrashTid] \in {"stopped", "gone"}]_dumpVars
  <2> SUFFICES ASSUME DumpInv, [DumpNext]_dumpVars, crash_log' # crash_log
               PROVE  target[CrashTid] \in {"stopped", "gone"}
    OBVIOUS
  <2>1. RecordProcess /\ ~ Exits("record")
    BY DumpStepCases
    DEF dumpVars, Prepares, ExecDumper, ReadArgs, OpenLog, RegisterSelfCrash, RecordSys,
        CreateProcess, AttachThread, WaitThread, LoadInfo, RecordProcess, Finish,
        AlarmExpires, Ends, SelfCrash, DumperKilled, OfTarget, TargetDies, ThreadStops,
        ThreadExits, ThreadStarts, TargetOnly, Exits
  <2>2. dumper = "running" /\ dpc = "record" /\ status[CrashTid] = "OK"
    BY <2>1 DEF RecordProcess, GoesOn, At
  <2>3. CrashTid \in thds \ todo
    BY <2>2 DEF DumpInv, ListDone, Tracing
  <2> QED
    BY <2>2, <2>3 DEF DumpInv, GoodMeansHeld, Tracing
<1> QED
  BY <1>1, DumperInvariant, PTL DEF DumpSpec, FramesOfHeldThread

\* As far as the crash handler can tell, the dumper adds a backtrace or ends, and
\* does nothing else: what CrashHandler assumes of its child is what it does.
THEOREM DumperKeepsPromise == DumpSpec => DumperPromise
<1>1. DumpInit => dumper = "running" /\ crash_log = {}
  BY DEF DumpInit
<1>2. [DumpNext]_dumpVars => [DumperStep]_<<dumper, crash_log>>
  <2> SUFFICES ASSUME [DumpNext]_dumpVars
               PROVE  [DumperStep]_<<dumper, crash_log>>
    OBVIOUS
  <2> USE DEF DumperStep, DumperEnds
  <2>1. CASE \E from \in DumperStepName : Exits(from)
    BY <2>1 DEF Exits, EndsWith, At
  <2>2. CASE RecordProcess /\ ~ Exits("record")
    BY <2>2 DEF RecordProcess, GoesOn, At, DumperWritesBacktrace
  <2>3. CASE Finish /\ ~ Exits("resume")
    BY <2>3 DEF Finish, EndsWith, At
  <2>4. CASE Ends
    BY <2>4 DEF Ends, SelfCrash, DumperKilled, EndsWith, At
  <2>5. CASE AlarmExpires \/ OfTarget
    BY <2>5 DEF AlarmExpires, InheritedMask, OfTarget, TargetDies, ThreadStops,
                ThreadExits, ThreadStarts, TargetOnly
  <2>6. CASE UNCHANGED dumpVars
    BY <2>6 DEF dumpVars
  <2>7. CASE /\ Prepares \/ CreateProcess \/ AttachThread \/ WaitThread \/ LoadInfo
             /\ ~ \E from \in DumperStepName : Exits(from)
    BY <2>7 DEF Prepares, ExecDumper, ReadArgs, OpenLog, RegisterSelfCrash, RecordSys,
                CreateProcess, AttachThread, WaitThread, LoadInfo, GoesOn, DumperStepName
  <2> QED
    BY <2>1, <2>2, <2>3, <2>4, <2>5, <2>6, <2>7, DumpStepCases DEF DumperStepName
<1> QED
  BY <1>1, <1>2, PTL DEF DumpSpec, DumperPromise

-----------------------------------------------------------------------------
(* The way through the dumper.                                               *)

\* How many steps main has left, at most: two for every thread that is still
\* to be suspended, which before the list is read may be any thread.
StepsLeft ==
  IF dumper # "running" THEN 0
  ELSE CASE dpc = "exec"     -> 2 * Cardinality(Tid) + 9
         [] dpc = "args"     -> 2 * Cardinality(Tid) + 8
         [] dpc = "open"     -> 2 * Cardinality(Tid) + 7
         [] dpc = "register" -> 2 * Cardinality(Tid) + 6
         [] dpc = "create"   -> 2 * Cardinality(Tid) + 5
         [] dpc = "wait"     -> 2 * Cardinality(todo) + 5
         [] dpc = "suspend"  -> 2 * Cardinality(todo) + 4
         [] dpc = "info"     -> 3
         [] dpc = "record"   -> 2
         [] dpc = "resume"   -> 1
         [] OTHER            -> 0

\* How many threads there are to suspend.
LEMMA TodoSizes ==
  ASSUME IsFiniteSet(Tid), DumpInv
  PROVE  /\ Cardinality(Tid) \in Nat /\ Cardinality(todo) \in Nat
         /\ \A t \in todo : Cardinality(todo \ {t}) \in Nat /\ Cardinality(todo) = Cardinality(todo \ {t}) + 1
         /\ Cardinality(Live) \in Nat /\ Cardinality(Live) <= Cardinality(Tid)
<1>1. todo \in SUBSET Tid /\ Live \in SUBSET Tid
  BY DEF DumpInv, DumpTypeOK, Live
<1>2. IsFiniteSet(todo) /\ IsFiniteSet(Live) /\ Cardinality(Live) <= Cardinality(Tid)
  BY <1>1, FS_Subset
<1>3. Cardinality(Tid) \in Nat /\ Cardinality(todo) \in Nat /\ Cardinality(Live) \in Nat
  BY <1>2, FS_CardinalityType
<1>4. ASSUME NEW t \in todo
      PROVE  Cardinality(todo \ {t}) \in Nat /\ Cardinality(todo) = Cardinality(todo \ {t}) + 1
  <2>1. IsFiniteSet(todo \ {t}) /\ Cardinality(todo \ {t}) = Cardinality(todo) - 1
    BY <1>2, FS_RemoveElement
  <2>2. Cardinality(todo \ {t}) \in Nat
    BY <2>1, FS_CardinalityType
  <2> QED  BY <1>3, <2>1, <2>2
<1> QED  BY <1>2, <1>3, <1>4

\* The measure is a number.
LEMMA StepsLeftTyped == ASSUME IsFiniteSet(Tid), DumpInv PROVE StepsLeft \in Nat
BY TodoSizes DEF StepsLeft

\* An exit leaves no step.
LEMMA ExitLeavesNone ==
  ASSUME NEW from \in DumperStepName, Exits(from) PROVE dumper = "running" /\ dpc = from /\ StepsLeft' = 0
BY DEF Exits, At, EndsWith, StepsLeft

\* Every step of main has fewer after it.
LEMMA MainShrinks ==
  ASSUME IsFiniteSet(Tid), DumpInv, Main
  PROVE  StepsLeft' < StepsLeft
<1> DEFINE all == Cardinality(Tid)
           left == Cardinality(todo)
<1>1. all \in Nat /\ left \in Nat
  BY TodoSizes
<1>2. dumper = "running" /\ dpc \in {"exec", "args", "open", "register", "create", "suspend",
                                     "wait", "info", "record", "resume"}
  BY DEF Main, ExecDumper, ReadArgs, OpenLog, RegisterSelfCrash, CreateProcess, AttachThread,
         WaitThread, LoadInfo, RecordSys, RecordProcess, Finish, Exits, GoesOn, At
<1>3. StepsLeft \in Nat /\ StepsLeft > 0
  BY <1>1, <1>2 DEF StepsLeft
<1>4. CASE dumper' # "running"
  BY <1>3, <1>4 DEF StepsLeft
<1>5. CASE dumper' = "running"
  <2> USE <1>1, <1>5 DEF StepsLeft, GoesOn, At, Exits, EndsWith
  <2>1. CASE ExecDumper \/ ReadArgs \/ OpenLog \/ RegisterSelfCrash
    BY <2>1 DEF ExecDumper, ReadArgs, OpenLog, RegisterSelfCrash
  <2>2. CASE CreateProcess
    <3>1. todo' = Live /\ dpc = "create" /\ dpc' = "suspend"
      BY <2>2 DEF CreateProcess
    <3>2. Cardinality(Live) \in Nat /\ Cardinality(Live) <= all
      BY TodoSizes
    <3>3. StepsLeft' = 2 * Cardinality(Live) + 4 /\ StepsLeft = 2 * all + 5
      BY <1>2, <3>1
    <3> QED  BY <3>2, <3>3
  <2>3. CASE AttachThread
    <3>1. PICK t \in todo : todo' = todo \ {t}
      BY <2>3 DEF AttachThread
    <3>2. dpc = "suspend" /\ dpc' \in {"wait", "suspend"}
      BY <2>3 DEF AttachThread
    <3> DEFINE rest == Cardinality(todo \ {t})
    <3>3. rest \in Nat /\ left = rest + 1
      BY TodoSizes
    <3>4. StepsLeft = 2 * left + 4 /\ (StepsLeft' = 2 * rest + 5 \/ StepsLeft' = 2 * rest + 4)
      BY <1>2, <3>1, <3>2
    <3> HIDE DEF rest
    <3> QED  BY <3>3, <3>4
  <2>4. CASE WaitThread
    BY <2>4 DEF WaitThread
  <2>5. CASE LoadInfo
    BY <2>5 DEF LoadInfo
  <2>6. CASE RecordSys \/ RecordProcess \/ Finish
    BY <2>6 DEF RecordSys, RecordProcess, Finish
  <2> QED  BY <2>1, <2>2, <2>3, <2>4, <2>5, <2>6 DEF Main
<1> QED  BY <1>4, <1>5

\* Nothing else gives it more to do.
LEMMA OthersAddNothing ==
  ASSUME IsFiniteSet(Tid), DumpInv, [DumpNext]_dumpVars, ~Main
  PROVE  StepsLeft' <= StepsLeft
<1>1. StepsLeft \in Nat
  BY StepsLeftTyped
<1>2. dumper' # "running" \/ UNCHANGED <<dumper, dpc, todo>>
  BY DEF DumpNext, AlarmExpires, SelfCrash, DumperKilled, EndsWith, TargetDies, ThreadStops,
         ThreadExits, ThreadStarts, TargetOnly, ownVars, dumpVars
<1>3. CASE dumper' # "running"
  BY <1>1, <1>3 DEF StepsLeft
<1>4. CASE UNCHANGED <<dumper, dpc, todo>>
  <2>1. StepsLeft' = StepsLeft
    BY <1>4 DEF StepsLeft
  <2> QED  BY <1>1, <2>1
<1> QED  BY <1>2, <1>3, <1>4

\* However many threads the process has, starts and loses, and whichever of them
\* cannot be attached, the dumper comes to its end in a number of steps that is
\* known from the beginning: the list is read once and each thread in it is
\* tried once.  What DumperEndsOrWaits adds is that a step can be taken.
THEOREM DumperShrinks ==
  ASSUME IsFiniteSet(Tid)
  PROVE  DumpSpec => [][StepsLeft' <= StepsLeft /\ (Main => StepsLeft' < StepsLeft)]_dumpVars
<1>1. DumpInv => StepsLeft \in Nat
  BY StepsLeftTyped
<1>2. DumpInv /\ StepsLeft \in Nat /\ (StepsLeft \in Nat)' /\ [DumpNext]_dumpVars =>
        [StepsLeft' <= StepsLeft /\ (Main => StepsLeft' < StepsLeft)]_dumpVars
  <2> SUFFICES ASSUME DumpInv, StepsLeft \in Nat, StepsLeft' \in Nat, [DumpNext]_dumpVars
               PROVE  StepsLeft' <= StepsLeft /\ (Main => StepsLeft' < StepsLeft)
    OBVIOUS
  <2> QED  BY MainShrinks, OthersAddNothing
<1> QED  BY <1>1, <1>2, DumperInvariant, PTL DEF DumpSpec
==============================================================================
