------------------------------ MODULE MCCapture ------------------------------
(* One application thread beside the trace and the callback thread: a crash *)
(* of the application, of the trace thread, and of both.                    *)
EXTENDS NativeCapture

CONSTANTS w1, td, cb, none

MCWorkers == {w1}
==============================================================================
