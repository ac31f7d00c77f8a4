------------------------------ MODULE MCDetectors ------------------------------
(* Every device and every choice of arguments; two timeouts of two ticks each: *)
(* room for two reports and for an event that falls between them.  Two queued *)
(* events and one in hand: more than one report after a notice.               *)
EXTENDS AnrDetectors
==============================================================================
