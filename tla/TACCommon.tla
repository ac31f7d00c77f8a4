------------------------------ MODULE TACCommon ------------------------------
(***************************************************************************)
(* The state that the native components of one application process share:  *)
(* its threads, the globals of tac_common.c and tac_trace.c that both the   *)
(* crash handler and the trace dumper read and write, the target of file    *)
(* descriptor 2, and whether the process still lives.                       *)
(***************************************************************************)

CONSTANTS
  Workers,         \* the application's own threads, Java or native
  TraceThread,     \* "tacrash_trace_dp", started by tac_trace_init
  CallbackThread   \* "tacrash_crash_cb", started by tac_crash_init_callback

ASSUME ThreadAssumption ==
  /\ TraceThread \notin Workers
  /\ CallbackThread \notin Workers
  /\ TraceThread # CallbackThread

Thread == Workers \cup {TraceThread, CallbackThread}

VARIABLES
  native_crashed,  \* tac_common_native_crashed
  dump_status,     \* tac_trace_dump_status
  stderr,          \* what STDERR_FILENO refers to
  life             \* "alive", or how the process ended

DumpStatus == {"NOT_START", "ON_GOING", "ART_CRASH", "END"}

\* /dev/null, the open crash log or the open trace log.
StderrTarget == {"null", "crash_log", "trace_log"}

\* "exit1": _exit(1) in the handler; "signal": a crash signal met the handler
\* that was installed before this library's, or the default action; "killed":
\* ended from outside, or by a second fault inside the handler.
Life == {"alive", "exit1", "signal", "killed"}

CommonTypeOK ==
  /\ native_crashed \in BOOLEAN
  /\ dump_status \in DumpStatus
  /\ stderr \in StderrTarget
  /\ life \in Life

CommonInit ==
  /\ native_crashed = FALSE
  /\ dump_status = "NOT_START"
  /\ stderr = "null"
  /\ life = "alive"
==============================================================================
