---------------------------- MODULE MCCrashHandler ----------------------------
(* Two application threads, so that two of them, the trace thread and the   *)
(* callback thread can be in the handler together.                          *)
EXTENDS CrashHandler

CONSTANTS w1, w2, td, cb, none

MCWorkers == {w1, w2}
==============================================================================
