---------------------------- MODULE DumperContract ----------------------------
(***************************************************************************)
(* What the crash handler may rely on of the process it clones: the child   *)
(* adds a backtrace to the crash log or does not, and then is gone with     *)
(* exit status 0, another status, or a signal.  The two are independent:    *)
(* tacd_thread_record_* returns 0 without writing when the crashed thread   *)
(* could not be attached, so status 0 promises no backtrace, and a write    *)
(* that fails after the backtrace makes the status 6.                       *)
(***************************************************************************)

VARIABLES
  dumper,     \* the child: not cloned, running, or how waitpid finds it
  crash_log   \* the sections that are complete in the crash log file

Section == {"backtrace", "fallback", "java"}

DumperState == {"none", "running", "exit0", "failed"}

DumperTypeOK ==
  /\ dumper \in DumperState
  /\ crash_log \in SUBSET Section

DumperInit ==
  /\ dumper = "none"
  /\ crash_log = {}

\* tacd_process_record: frames of the crashed thread reach the log.
DumperWritesBacktrace ==
  /\ dumper = "running"
  /\ "backtrace" \notin crash_log
  /\ crash_log' = crash_log \cup {"backtrace"}
  /\ UNCHANGED dumper

\* The child ends: return 0, exit(1..6), 90..94 or 100+errno before execl, or
\* a signal of its own.
DumperEnds ==
  /\ dumper = "running"
  /\ dumper' \in {"exit0", "failed"}
  /\ UNCHANGED crash_log

DumperStep == DumperWritesBacktrace \/ DumperEnds
==============================================================================
