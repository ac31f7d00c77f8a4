------------------------------- MODULE MCTrace -------------------------------
(* TraceDumper on its own, with the crash handler as its environment.       *)
EXTENDS TraceDumper

CONSTANTS w1, td, cb

MCWorkers == {w1}
==============================================================================
