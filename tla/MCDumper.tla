------------------------------- MODULE MCDumper -------------------------------
(* The crashed thread and two others, of which none, one or two exist when    *)
(* the dumper starts.                                                         *)
EXTENDS Dumper

CONSTANTS c, t1, t2, none

MCTid == {c, t1, t2}
==============================================================================
