-------------------------------- MODULE MCJava --------------------------------
(* Three threads and two milliseconds: two crashes with the same time and a  *)
(* third one with another.                                                    *)
EXTENDS JavaCrash

CONSTANTS t1, t2, t3

MCThreads == {t1, t2, t3}
==============================================================================
