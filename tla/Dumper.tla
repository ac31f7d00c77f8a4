-------------------------------- MODULE Dumper --------------------------------
(***************************************************************************)
(* The dumper process: tac_crash_exec_dumper after the clone and main of    *)
(* tacd_core.c, which stops the threads of the crashed process one by one   *)
(* with ptrace, records the crashed one and lets them go.  The crashed      *)
(* process goes on creating and losing threads meanwhile.                   *)
(***************************************************************************)
EXTENDS DumperContract

CONSTANTS
  Tid,        \* thread ids of the crashed process, used or not
  CrashTid,   \* crash_tid
  NoTid       \* nobody is waited for

ASSUME TidAssumption == CrashTid \in Tid /\ NoTid \notin Tid

VARIABLES
  dpc,          \* where the dumper is
  target,       \* what each thread of the crashed process does
  thds,         \* the threads that tacd_process_load_threads listed
  todo,         \* those of them that are still to be suspended
  cur,          \* the thread that tacd_thread_suspend waits for
  status,       \* tacd_thread_t.status
  alarm,        \* the timer of alarm(30) and its SIGALRM
  end           \* why the dumper ended (history)

ownVars == <<dpc, thds, todo, cur, status>>
dumpVars == <<dumper, crash_log, ownVars, target, alarm, end>>

\* "stopping": attached, the SIGSTOP not yet taken.  "halted": a SIGSTOP that
\* outlived its tracer has stopped the whole process.
TargetState == {"unborn", "running", "stopping", "stopped", "halted", "gone"}

Status == {"OK", "ATTACH", "ATTACH_WAIT", "REGS"}

DumperStepName == {"exec", "args", "open", "register", "create", "suspend", "wait",
                   "info", "sys", "record", "resume", "over"}

DumpTypeOK ==
  /\ DumperTypeOK
  /\ dpc \in DumperStepName
  /\ target \in [Tid -> TargetState]
  /\ thds \in SUBSET Tid
  /\ todo \in SUBSET thds
  /\ cur \in Tid \cup {NoTid}
  /\ status \in [Tid -> Status]
  /\ alarm \in {"off", "set", "pending"}
  /\ end \in {"none", "returned", "exit", "fault", "killed"}

\* The signal handler runs with every signal blocked (sigfillset), clone and
\* execl keep the mask and nothing in the dumper changes it.
InheritedMask == TRUE

DumpInit ==
  /\ dumper = "running"
  /\ crash_log = {}
  /\ dpc = "exec"
  /\ target \in {[t \in Tid |-> IF t \in live THEN "running" ELSE "unborn"] :
                   live \in {s \in SUBSET Tid : CrashTid \in s}}
  /\ thds = {}
  /\ todo = {}
  /\ cur = NoTid
  /\ status = [t \in Tid |-> "OK"]
  /\ alarm = "off"
  /\ end = "none"

Live == {t \in Tid : target[t] \notin {"unborn", "gone"}}

At(from) == dumper = "running" /\ dpc = from

-----------------------------------------------------------------------------
(* The end of the dumper.  The kernel detaches what it still traces: a thread  *)
(* that was stopped runs on, a SIGSTOP under way hits the process itself.      *)

Released ==
  IF \E t \in Tid : target[t] = "stopping"
  THEN [t \in Tid |-> IF t \in Live THEN "halted" ELSE target[t]]
  ELSE [t \in Tid |-> IF target[t] = "stopped" THEN "running" ELSE target[t]]

EndsWith(how, why) ==
  /\ dumper' = how
  /\ end' = why
  /\ target' = Released

\* exit(1) to exit(6), and the return values of tac_crash_exec_dumper.
Exits(from) ==
  /\ At(from)
  /\ EndsWith("failed", "exit")
  /\ UNCHANGED <<crash_log, ownVars, alarm>>

GoesOn(from, to) ==
  /\ At(from)
  /\ dpc' = to
  /\ UNCHANGED <<dumper, end>>

-----------------------------------------------------------------------------
(* tac_crash_exec_dumper and main.                                          *)

\* Descriptors, the pipe with the arguments and execl; then alarm(30).
ExecDumper ==
  \/ Exits("exec")
  \/ /\ GoesOn("exec", "args")
     /\ alarm' = "set"
     /\ UNCHANGED <<crash_log, thds, todo, cur, status, target>>

ReadArgs ==
  \/ Exits("args")
  \/ /\ GoesOn("args", "open")
     /\ UNCHANGED <<crash_log, thds, todo, cur, status, target, alarm>>

OpenLog ==
  \/ Exits("open")
  \/ /\ GoesOn("open", "register")
     /\ UNCHANGED <<crash_log, thds, todo, cur, status, target, alarm>>

\* tacc_signal_crash_register: the result is not looked at, and the handler
\* cannot run (see SelfCrash).
RegisterSelfCrash ==
  /\ GoesOn("register", "create")
  /\ UNCHANGED <<crash_log, thds, todo, cur, status, target, alarm>>

\* tacd_process_create: the list of the threads there are now, with the
\* crashed one among them.
CreateProcess ==
  \/ Exits("create")
  \/ /\ CrashTid \in Live
     /\ GoesOn("create", "suspend")
     /\ thds' = Live
     /\ todo' = Live
     /\ UNCHANGED <<crash_log, cur, status, target, alarm>>

\* Mutant: a thread that cannot be attached is tried again.
AttachAgain ==
  \E t \in todo :
    /\ \/ /\ target[t] = "running"
          /\ GoesOn("suspend", "wait")
          /\ target' = [target EXCEPT ![t] = "stopping"]
          /\ cur' = t
          /\ todo' = todo \ {t}
       \/ GoesOn("suspend", "suspend") /\ UNCHANGED <<target, cur, todo>>
    /\ UNCHANGED <<crash_log, thds, status, alarm>>

\* tacd_thread_suspend: PTRACE_ATTACH of the next thread in the list.  It fails
\* when the thread is gone, or has another tracer.
AttachThread ==
  \E t \in todo :
    /\ todo' = todo \ {t}
    /\ \/ /\ target[t] = "running"
          /\ GoesOn("suspend", "wait")
          /\ target' = [target EXCEPT ![t] = "stopping"]
          /\ cur' = t
          /\ UNCHANGED status
       \/ /\ GoesOn("suspend", "suspend")
          /\ status' = [status EXCEPT ![t] = "ATTACH"]
          /\ UNCHANGED <<target, cur>>
    /\ UNCHANGED <<crash_log, thds, alarm>>

\* Mutant: no waitpid after PTRACE_ATTACH.
WaitNot ==
  /\ GoesOn("wait", "suspend")
  /\ cur' = NoTid
  /\ UNCHANGED <<crash_log, thds, todo, status, target, alarm>>

\* waitpid for the thread: it has stopped; or it is gone, which the call
\* reports as a success or as ECHILD.
WaitThread ==
  /\ GoesOn("wait", "suspend")
  /\ target[cur] \in {"stopped", "gone"}
  /\ \/ UNCHANGED status
     \/ target[cur] = "gone" /\ status' = [status EXCEPT ![cur] = "ATTACH_WAIT"]
  /\ cur' = NoTid
  /\ UNCHANGED <<crash_log, thds, todo, target, alarm>>

\* tacd_process_load_info: registers of every thread but the crashed one, whose
\* registers come with the arguments; PTRACE_GETREGSET needs a stopped thread.
LoadInfo ==
  /\ todo = {}
  /\ GoesOn("suspend", "info")
  /\ status' = [t \in Tid |-> IF t \in thds \ {CrashTid} /\ target[t] # "stopped"
                              THEN "REGS" ELSE status[t]]
  /\ UNCHANGED <<crash_log, thds, todo, cur, target, alarm>>

\* tacd_sys_record.
RecordSys ==
  \/ Exits("info")
  \/ /\ GoesOn("info", "record")
     /\ UNCHANGED <<crash_log, thds, todo, cur, status, target, alarm>>

\* Mutant: the frames are taken whatever became of the attach.
RecordAnyway ==
  \/ Exits("record")
  \/ /\ GoesOn("record", "resume")
     /\ crash_log' = crash_log \cup {"backtrace"}
     /\ UNCHANGED <<thds, todo, cur, status, target, alarm>>

\* tacd_process_record: no frames for a thread that could not be attached, and
\* no error either; a write that fails ends the dumper, before or after the
\* frames are in the log.
RecordProcess ==
  \/ Exits("record")
  \/ /\ GoesOn("record", "resume")
     /\ crash_log' \in {crash_log} \cup
          (IF status[CrashTid] = "OK" THEN {crash_log \cup {"backtrace"}} ELSE {})
     /\ UNCHANGED <<thds, todo, cur, status, target, alarm>>

\* Mutant: what was recorded is buffered until the process ends.
FinishFlushes ==
  /\ At("resume")
  /\ EndsWith("exit0", "returned")
  /\ dpc' = "over"
  /\ crash_log' = crash_log \cup {"backtrace"}
  /\ UNCHANGED <<thds, todo, cur, status, alarm>>

\* tacd_process_resume_threads and `return 0`, or the write before it fails.
Finish ==
  \/ Exits("resume")
  \/ /\ At("resume")
     /\ EndsWith("exit0", "returned")
     /\ dpc' = "over"
     /\ UNCHANGED <<crash_log, thds, todo, cur, status, alarm>>

Main ==
  \/ ExecDumper \/ ReadArgs \/ OpenLog \/ RegisterSelfCrash \/ CreateProcess
  \/ AttachThread \/ WaitThread \/ LoadInfo \/ RecordSys \/ RecordProcess \/ Finish

-----------------------------------------------------------------------------
(* Signals of the dumper.                                                   *)

\* SIGALRM after 30 s: the default action, if it is delivered.
AlarmExpires ==
  /\ dumper = "running"
  /\ alarm = "set"
  /\ alarm' = "pending"
  /\ IF InheritedMask
     THEN UNCHANGED <<dumper, end, target>>
     ELSE EndsWith("failed", "killed")
  /\ UNCHANGED <<crash_log, ownVars>>

\* A fault of the dumper, while it parses what the crash left behind: a handler
\* that is blocked is not called, the process ends.
SelfCrash ==
  /\ \E at \in {"info", "record"} : At(at)
  /\ EndsWith("failed", "fault")
  /\ UNCHANGED <<crash_log, ownVars, alarm>>

\* The system needs memory.
DumperKilled ==
  /\ dumper = "running"
  /\ EndsWith("failed", "killed")
  /\ UNCHANGED <<crash_log, ownVars, alarm>>

-----------------------------------------------------------------------------
(* The crashed process.                                                     *)

TargetOnly(t, state) ==
  /\ target' = [target EXCEPT ![t] = state]
  /\ UNCHANGED <<dumper, crash_log, ownVars, alarm, end>>

ThreadStops(t) == target[t] = "stopping" /\ TargetOnly(t, "stopped")

\* The crashed thread stands in its signal handler and ends with the process only.
ThreadExits(t) ==
  t # CrashTid /\ target[t] \in {"running", "stopping"} /\ TargetOnly(t, "gone")

\* _exit on another thread, or the system kills the process.
TargetDies ==
  /\ CrashTid \in Live
  /\ target' = [t \in Tid |-> IF t \in Live THEN "gone" ELSE target[t]]
  /\ UNCHANGED <<dumper, crash_log, ownVars, alarm, end>>

ThreadStarts(t) ==
  /\ target[t] = "unborn"
  /\ \E u \in Tid \ {CrashTid} : target[u] = "running"
  /\ TargetOnly(t, "running")

DumpNext ==
  \/ Main
  \/ AlarmExpires \/ SelfCrash \/ DumperKilled \/ TargetDies
  \/ \E t \in Tid : ThreadStops(t) \/ ThreadExits(t) \/ ThreadStarts(t)

DumpSpec == DumpInit /\ [][DumpNext]_dumpVars

\* The dumper is scheduled, its timer runs, and the crashed thread, which waits
\* for the dumper, takes the SIGSTOP.  A thread in an uninterruptible sleep, say
\* on a file system that does not answer, need not take it.
FairDumpSpec ==
  /\ DumpSpec
  /\ WF_dumpVars(Main)
  /\ WF_dumpVars(AlarmExpires)
  /\ WF_dumpVars(ThreadStops(CrashTid))

-----------------------------------------------------------------------------
(* Properties.                                                              *)

\* The dumper, with all its exits, does only what the crash handler expects.
DumperPromise ==
  dumper = "running" /\ crash_log = {} /\ [][DumperStep]_<<dumper, crash_log>>

\* However the dumper ends, none of the threads it attached stays stopped; the
\* process is halted only when the dumper is killed between ATTACH and the stop.
NothingStaysStopped ==
  dumper # "running" =>
    \A t \in Tid : target[t] \notin {"stopping", "stopped"}
                   /\ (target[t] = "halted" => end = "killed")

\* Frames are taken only of a crashed thread that is held, or gone for good.
FramesOfHeldThread ==
  [][crash_log' # crash_log => target[CrashTid] \in {"stopped", "gone"}]_dumpVars

\* While the process is recorded, every thread of the list that still lives is
\* held, or its status says that it could not be.  A thread that was started
\* after the list was read is neither in it nor held.
ListedThreadsHeld ==
  dumper = "running" /\ dpc \in {"info", "record", "resume"} =>
    \A t \in thds \cap Live : target[t] = "stopped" \/ status[t] # "OK"

\* The dumper ends, unless a thread it attached does not take the SIGSTOP.
DumperEndsOrWaits ==
  <>(dumper # "running") \/ <>[](\E t \in Tid : target[t] = "stopping")

\* tacd_core.c: "don't leave a zombie process": the alarm ends the dumper.
DumperEndsInTime == <>(dumper # "running")
==============================================================================
