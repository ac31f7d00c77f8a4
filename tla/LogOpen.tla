-------------------------------- MODULE LogOpen --------------------------------
(***************************************************************************)
(* tac_common_open_log: how the crash handler and the trace thread open a   *)
(* log when the process has run out of descriptors, each with a descriptor  *)
(* of /dev/null in reserve, while the rest of the process takes every one   *)
(* that becomes free.  One action per open(2) or close(2) that matters.     *)
(***************************************************************************)
EXTENDS LogNames, FiniteSets

CONSTANT MaxFd   \* descriptors left to the process before tac_common_init

ASSUME DescriptorAssumption == MaxFd \in Nat /\ MaxFd >= 2

VARIABLES
  opc,           \* where each opener is in tac_common_open_log
  free,          \* descriptors the process has left
  app_fds,       \* descriptors that the rest of the process has open
  prepared,      \* openers whose tac_common_*_prepared_fd >= 0
  dir_fds,       \* openers that have the log directory open
  log_fds,       \* openers that have their log open
  directory,     \* the log directory exists
  placeholder,   \* it holds a placeholder file
  excuse         \* openers whose call may fail (history)

openVars == <<opc, free, app_fds, prepared, dir_fds, log_fds, directory,
              placeholder, excuse>>

\* is_crash = 1 and is_crash = 0.
Opener == {"crash", "trace"}

Busy == {"opendir", "opendir again", "scan", "closedir", "reserve", "create",
         "create again"}
OpenStep == {"idle", "opened", "closed", "failed", "done"} \cup Busy

OpenTypeOK ==
  /\ opc \in [Opener -> OpenStep]
  /\ {free, app_fds} \subseteq 0 .. MaxFd
  /\ {prepared, dir_fds, log_fds, excuse} \subseteq SUBSET Opener
  /\ {directory, placeholder} \subseteq BOOLEAN

\* tac_common_init has opened both reserves.
OpenInit ==
  /\ opc = [o \in Opener |-> "idle"]
  /\ free = MaxFd - 2
  /\ app_fds = 0
  /\ prepared = Opener
  /\ dir_fds = {}
  /\ log_fds = {}
  /\ directory = TRUE
  /\ placeholder \in BOOLEAN
  /\ excuse = {}

To(o, from, to) == opc[o] = from /\ opc' = [opc EXCEPT ![o] = to]

InProgress == {o \in Opener : opc[o] \in Busy}

\* An open(2) that succeeds.  Whoever else is in the middle of a call with its
\* reserve given up has lost a descriptor to it.
Takes(who) ==
  /\ free > 0
  /\ free' = free - 1
  /\ excuse' = excuse \cup (InProgress \ (prepared \cup {who}))

\* tac_common_close_prepared_fd.
GivesUp(o) ==
  /\ o \in prepared
  /\ prepared' = prepared \ {o}
  /\ free' = free + 1

-----------------------------------------------------------------------------
(* tac_common_open_log.                                                     *)

\* The crash handler calls it once, the trace thread once a turn.
Start(o) ==
  /\ To(o, "idle", "opendir")
  /\ excuse' = IF directory /\ o \in prepared THEN excuse \ {o} ELSE excuse \cup {o}
  /\ UNCHANGED <<free, app_fds, prepared, dir_fds, log_fds, directory, placeholder>>

OpenDir(o) ==
  /\ \/ To(o, "opendir", "scan") \/ To(o, "opendir again", "scan")
  /\ directory /\ Takes(o)
  /\ dir_fds' = dir_fds \cup {o}
  /\ UNCHANGED <<app_fds, prepared, log_fds, directory, placeholder>>

\* No directory or no descriptor: once more after the reserve is closed.
OpenDirFails(o) ==
  /\ ~directory \/ free = 0
  /\ \/ To(o, "opendir", "opendir again") /\ GivesUp(o)
     \/ /\ \/ To(o, "opendir", "create") /\ o \notin prepared
           \/ To(o, "opendir again", "create")
        /\ UNCHANGED <<free, prepared>>
  /\ UNCHANGED <<app_fds, dir_fds, log_fds, directory, placeholder, excuse>>

\* A placeholder that is found gets the name of the log and is opened in place
\* of the directory.
Scan(o) ==
  LET found == placeholder /\ PlaceholderFilter(CleanSuffix)
  IN /\ To(o, "scan", IF found THEN "opened" ELSE "closedir")
     /\ placeholder' = (placeholder /\ ~found)
     /\ dir_fds' = IF found THEN dir_fds \ {o} ELSE dir_fds
     /\ log_fds' = IF found THEN log_fds \cup {o} ELSE log_fds
     /\ UNCHANGED <<free, app_fds, prepared, directory, excuse>>

CloseDir(o) ==
  /\ To(o, "closedir", "reserve")
  /\ dir_fds' = dir_fds \ {o}
  /\ free' = free + 1
  /\ UNCHANGED <<app_fds, prepared, log_fds, directory, placeholder, excuse>>

\* Mutant: a reserve is opened whether there is one or not.
ReserveAnyway(o) ==
  /\ To(o, "reserve", "create") \/ To(o, "closed", "idle")
  /\ \/ Takes(o) /\ prepared' = prepared \cup {o}
     \/ free = 0 /\ UNCHANGED <<free, prepared, excuse>>
  /\ UNCHANGED <<app_fds, dir_fds, log_fds, directory, placeholder>>

\* tac_common_open_prepared_fd, before the log is created and after it is
\* closed: does nothing with a reserve, or without a descriptor for one.
Reserve(o) ==
  /\ To(o, "reserve", "create") \/ To(o, "closed", "idle")
  /\ \/ o \notin prepared /\ Takes(o) /\ prepared' = prepared \cup {o}
     \/ (o \in prepared \/ free = 0) /\ UNCHANGED <<free, prepared, excuse>>
  /\ UNCHANGED <<app_fds, dir_fds, log_fds, directory, placeholder>>

Create(o) ==
  /\ To(o, "create", "opened") \/ To(o, "create again", "opened")
  /\ directory /\ Takes(o)
  /\ log_fds' = log_fds \cup {o}
  /\ UNCHANGED <<app_fds, prepared, dir_fds, directory, placeholder>>

\* Mutant: no second attempt with the reserve.
CreateFailsAtOnce(o) ==
  /\ ~directory \/ free = 0
  /\ To(o, "create", "failed")
  /\ UNCHANGED <<free, prepared, app_fds, dir_fds, log_fds, directory, placeholder, excuse>>

CreateFails(o) ==
  /\ ~directory \/ free = 0
  /\ \/ To(o, "create", "create again") /\ GivesUp(o)
     \/ /\ \/ To(o, "create", "failed") /\ o \notin prepared
           \/ To(o, "create again", "failed")
        /\ UNCHANGED <<free, prepared>>
  /\ UNCHANGED <<app_fds, dir_fds, log_fds, directory, placeholder, excuse>>

\* The trace thread takes the next SIGQUIT after a failure.
NextTurn ==
  /\ To("trace", "failed", "idle")
  /\ UNCHANGED <<free, app_fds, prepared, dir_fds, log_fds, directory, placeholder, excuse>>

\* The crash handler closes its log itself; tac_common_close_log, which takes
\* care of the reserve, is for the trace thread.
CloseLog(o) ==
  /\ To(o, "opened", IF o = "trace" THEN "closed" ELSE "done")
  /\ log_fds' = log_fds \ {o}
  /\ free' = free + 1
  /\ UNCHANGED <<app_fds, prepared, dir_fds, directory, placeholder, excuse>>

-----------------------------------------------------------------------------
(* The rest of the process, and whoever clears its cache directory.         *)

AppOpens ==
  /\ Takes("app")
  /\ app_fds' = app_fds + 1
  /\ UNCHANGED <<opc, prepared, dir_fds, log_fds, directory, placeholder>>

AppCloses ==
  /\ app_fds > 0
  /\ app_fds' = app_fds - 1
  /\ free' = free + 1
  /\ UNCHANGED <<opc, prepared, dir_fds, log_fds, directory, placeholder, excuse>>

DirectoryChanges ==
  /\ directory' = ~directory
  /\ excuse' = IF directory THEN excuse \cup InProgress ELSE excuse
  /\ UNCHANGED <<opc, free, app_fds, prepared, dir_fds, log_fds, placeholder>>

OpenNext ==
  \/ \E o \in Opener :
       \/ Start(o) \/ OpenDir(o) \/ OpenDirFails(o) \/ Scan(o) \/ CloseDir(o)
       \/ Reserve(o) \/ Create(o) \/ CreateFails(o) \/ CloseLog(o)
  \/ NextTurn \/ AppOpens \/ AppCloses \/ DirectoryChanges

OpenSpec == OpenInit /\ [][OpenNext]_openVars

-----------------------------------------------------------------------------
(* Properties.                                                              *)

\* tac_common_init: with its reserve in hand and the directory in place, an
\* opener gets its log however few descriptors are left, unless another
\* thread is faster in taking the one that it has just given up.
FailsOnlyWithExcuse == \A o \in Opener : opc[o] = "failed" => o \in excuse

\* tac_common_open_log, tac_common_close_log: on every path each descriptor
\* that was taken is closed once.  All are free, with the rest of the process,
\* in reserve or where an opener will close it, and an opener that is between
\* two calls has at most its reserve.
DescriptorsAccounted ==
  /\ free + app_fds + Cardinality(prepared) + Cardinality(dir_fds) + Cardinality(log_fds) = MaxFd
  /\ \A o \in Opener :
       /\ o \in dir_fds <=> opc[o] \in {"scan", "closedir"}
       /\ o \in log_fds <=> opc[o] = "opened"
==============================================================================
