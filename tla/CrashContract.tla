---------------------------- MODULE CrashContract ----------------------------
(***************************************************************************)
(* What the native crash capture promises to the application, without       *)
(* threads, locks, files or processes: the first crash starts the only      *)
(* capture; Java is called at most once, with a report that is complete     *)
(* either in the log file or in the emergency string; there is no second    *)
(* capture, even in a process that survives because its signal does not     *)
(* come again.  A capture can be lost to the trace dumper (siglongjmp), and *)
(* the process can end at any moment.                                       *)
(***************************************************************************)

VARIABLES
  phase,   \* how far the capture is
  handed   \* where the report is that Java was called with

contractVars == <<phase, handed>>

Phase == {"armed", "capturing", "handed", "lost", "ended"}
Place == {"nowhere", "log", "emergency"}

ContractInit ==
  /\ phase = "armed"
  /\ handed = "nowhere"

FirstCrash ==
  /\ phase = "armed"
  /\ phase' = "capturing"
  /\ UNCHANGED handed

HandOver ==
  /\ phase = "capturing"
  /\ phase' = "handed"
  /\ handed' \in Place \ {"nowhere"}

LoseToTrace ==
  /\ phase = "capturing"
  /\ phase' = "lost"
  /\ UNCHANGED handed

ProcessEnds ==
  /\ phase # "ended"
  /\ phase' = "ended"
  /\ UNCHANGED handed

ContractNext == FirstCrash \/ HandOver \/ LoseToTrace \/ ProcessEnds

ContractSpec == ContractInit /\ [][ContractNext]_contractVars
==============================================================================
