------------------------------ MODULE MCLogOpen ------------------------------
(* The openers of a log with four descriptors (the two reserves, one log and   *)
(* one for the others) and, as behaviours of their own, the calls that keep    *)
(* nothing: a behaviour is either of the one or of the other.                  *)
EXTENDS LogOpen, MCPureCalls

NoCall == [done |-> FALSE]

LogInit ==
  \/ OpenInit /\ call = NoCall
  \/ OpenInit /\ ~placeholder /\ CallInit
LogNext ==
  \/ call = NoCall /\ OpenNext /\ UNCHANGED call
  \/ call # NoCall /\ CallNext /\ UNCHANGED openVars
LogSpec == LogInit /\ [][LogNext]_<<openVars, call>>
==============================================================================
