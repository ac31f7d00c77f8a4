------------------------------- MODULE LogProofs -------------------------------
(***************************************************************************)
(* How a log is opened with the last descriptors, for any number of them.    *)
(***************************************************************************)
EXTENDS LogOpen, FiniteSetTheorems, TLAPS

\* What an opener that has not been excused needs to go on: it has its reserve,
\* or the directory in its place, or else what it has given up is still free.
Holding(o) == o \in prepared \/ o \in dir_fds \/ free > 0
StillEntitled ==
  \A o \in Opener : opc[o] \in Busy /\ o \notin excuse => directory /\ Holding(o)

\* The second attempt is made without the reserve.
AgainWithout ==
  \A o \in Opener : opc[o] \in {"opendir again", "create again"} => o \notin prepared

\* The inductive invariant.
OpenInv ==
  OpenTypeOK /\ DescriptorsAccounted /\ StillEntitled /\ AgainWithout /\ FailsOnlyWithExcuse

\* Openers are counted one by one.
LEMMA OneOpenerMore ==
  ASSUME NEW S \in SUBSET Opener, NEW o \in Opener
  PROVE  /\ Cardinality(S) \in Nat
         /\ o \notin S => Cardinality(S \cup {o}) = Cardinality(S) + 1
         /\ o \in S => Cardinality(S \ {o}) + 1 = Cardinality(S)
<1>1. IsFiniteSet(Opener)
  <2>1. Opener = {"crash"} \cup {"trace"}
    BY DEF Opener
  <2>2. IsFiniteSet({"crash"})
    BY FS_Singleton
  <2>3. IsFiniteSet({"crash"} \cup {"trace"})
    BY <2>2, FS_AddElement
  <2> QED  BY <2>1, <2>3
<1>2. IsFiniteSet(S)
  BY <1>1, FS_Subset
<1>3. Cardinality(S) \in Nat
  BY <1>2, FS_CardinalityType
<1>4. o \notin S => Cardinality(S \cup {o}) = Cardinality(S) + 1
  BY <1>2, FS_AddElement
<1>5. o \in S => Cardinality(S \ {o}) = Cardinality(S) - 1
  BY <1>2, FS_RemoveElement
<1> QED  BY <1>3, <1>4, <1>5

\* The numbers that the account is made of.
LEMMA AccountTypes ==
  ASSUME OpenTypeOK
  PROVE  /\ {free, app_fds, Cardinality(prepared), Cardinality(dir_fds), Cardinality(log_fds)} \subseteq Nat
         /\ {prepared, dir_fds, log_fds} \subseteq SUBSET Opener
<1>1. {prepared, dir_fds, log_fds} \subseteq SUBSET Opener
  BY DEF OpenTypeOK
<1>2. /\ Cardinality(prepared) \in Nat
      /\ Cardinality(dir_fds) \in Nat
      /\ Cardinality(log_fds) \in Nat
  BY <1>1, OneOpenerMore DEF Opener
<1>3. free \in Nat /\ app_fds \in Nat
  BY DescriptorAssumption DEF OpenTypeOK
<1> QED  BY <1>1, <1>2, <1>3

\* When the account is right, no number in it exceeds MaxFd.
LEMMA AccountBounds ==
  ASSUME free' \in Nat, app_fds' \in Nat,
         {prepared, dir_fds, log_fds, excuse}' \subseteq SUBSET Opener,
         {directory, placeholder}' \subseteq BOOLEAN,
         opc' \in [Opener -> OpenStep],
         DescriptorsAccounted'
  PROVE  OpenTypeOK'
<1>1. /\ Cardinality(prepared') \in Nat
      /\ Cardinality(dir_fds') \in Nat
      /\ Cardinality(log_fds') \in Nat
  BY OneOpenerMore DEF Opener
<1>2. free' + app_fds' + Cardinality(prepared') + Cardinality(dir_fds') + Cardinality(log_fds') = MaxFd
  BY DEF DescriptorsAccounted
<1>3. free' <= MaxFd /\ app_fds' <= MaxFd
  BY <1>1, <1>2, DescriptorAssumption
<1> QED  BY <1>3, DescriptorAssumption DEF OpenTypeOK

\* It holds when the app starts.
LEMMA OpenInitInv == OpenInit => OpenInv
<1> SUFFICES ASSUME OpenInit PROVE OpenInv
  OBVIOUS
<1>1. Cardinality({}) = 0
  BY FS_EmptySet
<1>2. Cardinality(Opener) = 2
  <2>1. {} \cup {"crash"} = {"crash"} /\ {"crash"} \cup {"trace"} = Opener
    BY DEF Opener
  <2>2. Cardinality({"crash"}) = 1
    BY FS_Singleton
  <2>3. {"crash"} \in SUBSET Opener /\ "trace" \in Opener /\ "trace" \notin {"crash"}
    BY DEF Opener
  <2> QED  BY <2>1, <2>2, <2>3, OneOpenerMore
<1>3. OpenTypeOK
  BY DescriptorAssumption DEF OpenInit, OpenTypeOK, OpenStep, Opener
<1>4. DescriptorsAccounted
  BY <1>1, <1>2, DescriptorAssumption DEF OpenInit, DescriptorsAccounted
<1> QED
  BY <1>3, <1>4 DEF OpenInit, OpenInv, StillEntitled, AgainWithout, FailsOnlyWithExcuse, Busy

\* Where an opener goes.
LEMMA ToKeepsOthers ==
  ASSUME OpenTypeOK, NEW o \in Opener, NEW from, NEW to \in OpenStep, To(o, from, to)
  PROVE  /\ opc[o] = from
         /\ opc' \in [Opener -> OpenStep]
         /\ opc'[o] = to
         /\ \A p \in Opener : p # o => opc'[p] = opc[p]
BY DEF OpenTypeOK, To

\* A descriptor taken from the free ones keeps the others' entitlement: whoever
\* lives on a free descriptor is excused.
LEMMA TakesKeeps ==
  ASSUME OpenTypeOK, NEW who, Takes(who)
  PROVE  /\ free' \in Nat /\ free' + 1 = free
         /\ excuse' \in SUBSET Opener /\ excuse \subseteq excuse'
         /\ \A p \in Opener : p # who /\ opc[p] \in Busy /\ p \notin excuse' => p \in prepared
<1>1. free \in Nat /\ free > 0 /\ free' = free - 1
  BY DescriptorAssumption DEF OpenTypeOK, Takes
<1> QED  BY <1>1 DEF OpenTypeOK, Takes, InProgress

\* Every step keeps it: a log is wanted,
LEMMA StartInv == ASSUME OpenInv, NEW o \in Opener, Start(o) PROVE OpenInv'
<1> USE DEF OpenInv
<1>1. /\ opc[o] = "idle"
      /\ opc' \in [Opener -> OpenStep]
      /\ opc'[o] = "opendir"
      /\ \A p \in Opener : p # o => opc'[p] = opc[p]
  BY ToKeepsOthers DEF Start, OpenStep, Busy
<1>2. OpenTypeOK'
  BY <1>1 DEF Start, OpenTypeOK
<1>3. DescriptorsAccounted'
  BY <1>1 DEF Start, DescriptorsAccounted
<1>4. StillEntitled'
  BY <1>1 DEF Start, StillEntitled, Holding
<1>5. AgainWithout' /\ FailsOnlyWithExcuse'
  BY <1>1 DEF Start, AgainWithout, FailsOnlyWithExcuse
<1> QED  BY <1>2, <1>3, <1>4, <1>5

\* the directory is opened, which may take the last free descriptor,
LEMMA OpenDirInv == ASSUME OpenInv, NEW o \in Opener, OpenDir(o) PROVE OpenInv'
<1> USE DEF OpenInv
<1>1. /\ opc[o] \in {"opendir", "opendir again"}
      /\ opc' \in [Opener -> OpenStep]
      /\ opc'[o] = "scan"
      /\ \A p \in Opener : p # o => opc'[p] = opc[p]
  BY ToKeepsOthers DEF OpenDir, OpenStep, Busy
<1>2. /\ free' \in Nat /\ free' + 1 = free
      /\ excuse' \in SUBSET Opener /\ excuse \subseteq excuse'
      /\ \A p \in Opener : p # o /\ opc[p] \in Busy /\ p \notin excuse' => p \in prepared
  BY TakesKeeps DEF OpenDir
<1>3. o \notin dir_fds /\ dir_fds' = dir_fds \cup {o}
  BY <1>1 DEF OpenDir, DescriptorsAccounted
<1>4. DescriptorsAccounted'
  <2>1. /\ Cardinality(dir_fds') = Cardinality(dir_fds) + 1
        /\ UNCHANGED <<prepared, log_fds, app_fds>>
    BY <1>3, AccountTypes, OneOpenerMore DEF OpenDir
  <2>2. free' + app_fds' + Cardinality(prepared') + Cardinality(dir_fds') + Cardinality(log_fds') = MaxFd
    BY <1>2, <2>1, AccountTypes DEF DescriptorsAccounted
  <2> QED  BY <1>1, <1>3, <2>1, <2>2 DEF DescriptorsAccounted
<1>5. OpenTypeOK'
  BY <1>1, <1>2, <1>4, AccountTypes, AccountBounds DEF OpenDir, OpenTypeOK
<1>6. StillEntitled'
  BY <1>1, <1>2 DEF OpenDir, StillEntitled, Holding
<1>7. AgainWithout' /\ FailsOnlyWithExcuse'
  BY <1>1, <1>2 DEF OpenDir, AgainWithout, FailsOnlyWithExcuse
<1> QED  BY <1>4, <1>5, <1>6, <1>7

\* or cannot be, with the reserve given up once,
LEMMA OpenDirFailsInv == ASSUME OpenInv, NEW o \in Opener, OpenDirFails(o) PROVE OpenInv'
<1> USE DEF OpenInv
<1>1. ~directory \/ free = 0
  BY DEF OpenDirFails
<1>2. CASE To(o, "opendir", "opendir again") /\ GivesUp(o)
  <2>1. /\ opc[o] = "opendir"
        /\ opc' \in [Opener -> OpenStep]
        /\ opc'[o] = "opendir again"
        /\ \A p \in Opener : p # o => opc'[p] = opc[p]
    BY <1>2, ToKeepsOthers DEF OpenStep, Busy
  <2>2. /\ o \in prepared /\ prepared' = prepared \ {o} /\ free' = free + 1
        /\ UNCHANGED <<app_fds, dir_fds, log_fds, directory, placeholder, excuse>>
    BY <1>2 DEF OpenDirFails, GivesUp
  <2>3. DescriptorsAccounted'
    <3>1. Cardinality(prepared') + 1 = Cardinality(prepared)
      BY <2>2, AccountTypes, OneOpenerMore
    <3>2. Cardinality(prepared') \in Nat
      BY <2>2, AccountTypes, OneOpenerMore
    <3>3. free' + app_fds' + Cardinality(prepared') + Cardinality(dir_fds') + Cardinality(log_fds') = MaxFd
      BY <2>2, <3>1, <3>2, AccountTypes DEF DescriptorsAccounted
    <3> QED  BY <2>1, <2>2, <3>3 DEF DescriptorsAccounted
  <2>4. OpenTypeOK'
    <3>1. free' \in Nat /\ app_fds' \in Nat
      BY <2>2, AccountTypes
    <3>2. {prepared, dir_fds, log_fds, excuse}' \subseteq SUBSET Opener /\ {directory, placeholder}' \subseteq BOOLEAN
      BY <2>2 DEF OpenTypeOK
    <3> QED  BY <2>1, <2>3, <3>1, <3>2, AccountBounds
  <2>5. StillEntitled'
    <3>1. free \in Nat /\ free' > 0
      BY <2>2, AccountTypes
    <3> QED  BY <2>1, <2>2, <3>1 DEF StillEntitled, Holding, Busy
  <2>6. AgainWithout' /\ FailsOnlyWithExcuse'
    BY <2>1, <2>2 DEF AgainWithout, FailsOnlyWithExcuse
  <2> QED  BY <2>3, <2>4, <2>5, <2>6
<1>3. CASE /\ \/ To(o, "opendir", "create") /\ o \notin prepared
              \/ To(o, "opendir again", "create")
           /\ UNCHANGED <<free, prepared>>
  <2>1. /\ opc[o] \in {"opendir", "opendir again"}
        /\ opc' \in [Opener -> OpenStep]
        /\ opc'[o] = "create"
        /\ \A p \in Opener : p # o => opc'[p] = opc[p]
    BY <1>3, ToKeepsOthers DEF OpenStep, Busy
  <2>2. UNCHANGED <<free, prepared, app_fds, dir_fds, log_fds, directory, placeholder, excuse>>
    BY <1>3 DEF OpenDirFails
  <2>3. o \notin prepared /\ o \notin dir_fds
    <3>1. o \notin prepared
      BY <1>3, <2>1 DEF AgainWithout, To
    <3> QED  BY <2>1, <3>1 DEF DescriptorsAccounted
  <2>4. o \in excuse
    <3>1. free = 0 => ~(free > 0)
      OBVIOUS
    <3> QED  BY <1>1, <2>1, <2>3, <3>1 DEF StillEntitled, Holding, Busy
  <2>5. DescriptorsAccounted'
    BY <2>1, <2>2 DEF DescriptorsAccounted
  <2>6. OpenTypeOK'
    BY <2>1, <2>2 DEF OpenTypeOK
  <2>7. StillEntitled' /\ AgainWithout' /\ FailsOnlyWithExcuse'
    BY <2>1, <2>2, <2>4 DEF StillEntitled, Holding, AgainWithout, FailsOnlyWithExcuse
  <2> QED  BY <2>5, <2>6, <2>7
<1> QED  BY <1>2, <1>3 DEF OpenDirFails

\* it is searched for a placeholder,
LEMMA ScanInv == ASSUME OpenInv, NEW o \in Opener, Scan(o) PROVE OpenInv'
<1> USE DEF OpenInv
<1> DEFINE found == placeholder /\ PlaceholderFilter(CleanSuffix)
<1>1. CASE found
  <2>1. /\ opc[o] = "scan"
        /\ opc' \in [Opener -> OpenStep]
        /\ opc'[o] = "opened"
        /\ \A p \in Opener : p # o => opc'[p] = opc[p]
    BY <1>1, ToKeepsOthers DEF Scan, OpenStep, Busy
  <2>2. /\ dir_fds' = dir_fds \ {o} /\ log_fds' = log_fds \cup {o} /\ placeholder' = FALSE
        /\ UNCHANGED <<free, app_fds, prepared, directory, excuse>>
    BY <1>1 DEF Scan
  <2>3. o \in dir_fds /\ o \notin log_fds
    BY <2>1 DEF DescriptorsAccounted
  <2>4. DescriptorsAccounted'
    <3>1. /\ Cardinality(dir_fds') + 1 = Cardinality(dir_fds)
          /\ Cardinality(log_fds') = Cardinality(log_fds) + 1
      BY <2>2, <2>3, AccountTypes, OneOpenerMore
    <3>2. Cardinality(dir_fds') \in Nat
      BY <2>2, AccountTypes, OneOpenerMore
    <3>3. free' + app_fds' + Cardinality(prepared') + Cardinality(dir_fds') + Cardinality(log_fds') = MaxFd
      BY <2>2, <3>1, <3>2, AccountTypes DEF DescriptorsAccounted
    <3> QED  BY <2>1, <2>2, <3>3 DEF DescriptorsAccounted
  <2>5. OpenTypeOK'
    BY <2>1, <2>2 DEF OpenTypeOK
  <2>6. StillEntitled' /\ AgainWithout' /\ FailsOnlyWithExcuse'
    BY <2>1, <2>2 DEF StillEntitled, Holding, AgainWithout, FailsOnlyWithExcuse, Busy
  <2> QED  BY <2>4, <2>5, <2>6
<1>2. CASE ~found
  <2>1. /\ opc[o] = "scan"
        /\ opc' \in [Opener -> OpenStep]
        /\ opc'[o] = "closedir"
        /\ \A p \in Opener : p # o => opc'[p] = opc[p]
    BY <1>2, ToKeepsOthers DEF Scan, OpenStep, Busy
  <2>2. /\ placeholder' \in BOOLEAN
        /\ UNCHANGED <<dir_fds, log_fds, free, app_fds, prepared, directory, excuse>>
    BY <1>2 DEF Scan
  <2>3. o \in dir_fds
    BY <2>1 DEF DescriptorsAccounted
  <2>4. DescriptorsAccounted'
    BY <2>1, <2>2 DEF DescriptorsAccounted
  <2>5. OpenTypeOK'
    BY <2>1, <2>2 DEF OpenTypeOK
  <2>6. StillEntitled' /\ AgainWithout' /\ FailsOnlyWithExcuse'
    BY <2>1, <2>2, <2>3 DEF StillEntitled, Holding, AgainWithout, FailsOnlyWithExcuse, Busy
  <2> QED  BY <2>4, <2>5, <2>6
<1> QED  BY <1>1, <1>2

\* it is closed,
LEMMA CloseDirInv == ASSUME OpenInv, NEW o \in Opener, CloseDir(o) PROVE OpenInv'
<1> USE DEF OpenInv
<1>1. /\ opc[o] = "closedir"
      /\ opc' \in [Opener -> OpenStep]
      /\ opc'[o] = "reserve"
      /\ \A p \in Opener : p # o => opc'[p] = opc[p]
  BY ToKeepsOthers DEF CloseDir, OpenStep, Busy
<1>2. /\ o \in dir_fds /\ dir_fds' = dir_fds \ {o} /\ free' = free + 1
      /\ UNCHANGED <<app_fds, prepared, log_fds, directory, placeholder, excuse>>
  BY <1>1 DEF CloseDir, DescriptorsAccounted
<1>3. DescriptorsAccounted'
  <2>1. Cardinality(dir_fds') + 1 = Cardinality(dir_fds) /\ Cardinality(dir_fds') \in Nat
    BY <1>2, AccountTypes, OneOpenerMore
  <2>2. free' + app_fds' + Cardinality(prepared') + Cardinality(dir_fds') + Cardinality(log_fds') = MaxFd
    BY <1>2, <2>1, AccountTypes DEF DescriptorsAccounted
  <2> QED  BY <1>1, <1>2, <2>2 DEF DescriptorsAccounted
<1>4. OpenTypeOK'
  BY <1>1, <1>2, <1>3, AccountTypes, AccountBounds DEF OpenTypeOK
<1>5. StillEntitled'
  <2>1. free \in Nat /\ free' > 0
    BY <1>2, AccountTypes
  <2> QED  BY <1>1, <1>2, <2>1 DEF StillEntitled, Holding, Busy
<1>6. AgainWithout' /\ FailsOnlyWithExcuse'
  BY <1>1, <1>2 DEF AgainWithout, FailsOnlyWithExcuse
<1> QED  BY <1>3, <1>4, <1>5, <1>6

\* the reserve is taken again,
LEMMA ReserveInv == ASSUME OpenInv, NEW o \in Opener, Reserve(o) PROVE OpenInv'
<1> USE DEF OpenInv
<1>1. /\ \/ opc[o] = "reserve" /\ opc'[o] = "create"
         \/ opc[o] = "closed" /\ opc'[o] = "idle"
      /\ opc' \in [Opener -> OpenStep]
      /\ \A p \in Opener : p # o => opc'[p] = opc[p]
  BY ToKeepsOthers DEF Reserve, OpenStep, Busy
<1>2. o \notin dir_fds /\ o \notin log_fds /\ UNCHANGED <<app_fds, dir_fds, log_fds, directory, placeholder>>
  BY <1>1 DEF Reserve, DescriptorsAccounted
<1>3. CASE o \notin prepared /\ Takes(o) /\ prepared' = prepared \cup {o}
  <2>1. /\ free' \in Nat /\ free' + 1 = free
        /\ excuse' \in SUBSET Opener /\ excuse \subseteq excuse'
        /\ \A p \in Opener : p # o /\ opc[p] \in Busy /\ p \notin excuse' => p \in prepared
    BY <1>3, TakesKeeps
  <2>2. DescriptorsAccounted'
    <3>1. Cardinality(prepared') = Cardinality(prepared) + 1
      BY <1>3, AccountTypes, OneOpenerMore
    <3>2. free' + app_fds' + Cardinality(prepared') + Cardinality(dir_fds') + Cardinality(log_fds') = MaxFd
      BY <1>2, <2>1, <3>1, AccountTypes DEF DescriptorsAccounted
    <3> QED  BY <1>1, <1>2, <3>2 DEF DescriptorsAccounted
  <2>3. OpenTypeOK'
    BY <1>1, <1>2, <1>3, <2>1, <2>2, AccountTypes, AccountBounds DEF OpenTypeOK
  <2>4. StillEntitled' /\ AgainWithout' /\ FailsOnlyWithExcuse'
    BY <1>1, <1>2, <1>3, <2>1 DEF StillEntitled, Holding, AgainWithout, FailsOnlyWithExcuse, Busy
  <2> QED  BY <2>2, <2>3, <2>4
<1>4. CASE (o \in prepared \/ free = 0) /\ UNCHANGED <<free, prepared, excuse>>
  <2>1. DescriptorsAccounted'
    BY <1>1, <1>2, <1>4 DEF DescriptorsAccounted
  <2>2. OpenTypeOK'
    BY <1>1, <1>2, <1>4 DEF OpenTypeOK
  <2>3. StillEntitled' /\ AgainWithout' /\ FailsOnlyWithExcuse'
    BY <1>1, <1>2, <1>4 DEF StillEntitled, Holding, AgainWithout, FailsOnlyWithExcuse, Busy
  <2> QED  BY <2>1, <2>2, <2>3
<1> QED  BY <1>3, <1>4 DEF Reserve

\* the log is created,
LEMMA CreateInv == ASSUME OpenInv, NEW o \in Opener, Create(o) PROVE OpenInv'
<1> USE DEF OpenInv
<1>1. /\ opc[o] \in {"create", "create again"}
      /\ opc' \in [Opener -> OpenStep]
      /\ opc'[o] = "opened"
      /\ \A p \in Opener : p # o => opc'[p] = opc[p]
  BY ToKeepsOthers DEF Create, OpenStep, Busy
<1>2. /\ free' \in Nat /\ free' + 1 = free
      /\ excuse' \in SUBSET Opener /\ excuse \subseteq excuse'
      /\ \A p \in Opener : p # o /\ opc[p] \in Busy /\ p \notin excuse' => p \in prepared
  BY TakesKeeps DEF Create
<1>3. /\ o \notin log_fds /\ log_fds' = log_fds \cup {o}
      /\ UNCHANGED <<app_fds, prepared, dir_fds, directory, placeholder>>
  BY <1>1 DEF Create, DescriptorsAccounted
<1>4. DescriptorsAccounted'
  <2>1. Cardinality(log_fds') = Cardinality(log_fds) + 1
    BY <1>3, AccountTypes, OneOpenerMore
  <2>2. free' + app_fds' + Cardinality(prepared') + Cardinality(dir_fds') + Cardinality(log_fds') = MaxFd
    BY <1>2, <1>3, <2>1, AccountTypes DEF DescriptorsAccounted
  <2> QED  BY <1>1, <1>3, <2>2 DEF DescriptorsAccounted
<1>5. OpenTypeOK'
  BY <1>1, <1>2, <1>3, <1>4, AccountTypes, AccountBounds DEF OpenTypeOK
<1>6. StillEntitled' /\ AgainWithout' /\ FailsOnlyWithExcuse'
  BY <1>1, <1>2, <1>3 DEF StillEntitled, Holding, AgainWithout, FailsOnlyWithExcuse, Busy
<1> QED  BY <1>4, <1>5, <1>6

\* or cannot be, with the reserve given up once,
LEMMA CreateFailsInv == ASSUME OpenInv, NEW o \in Opener, CreateFails(o) PROVE OpenInv'
<1> USE DEF OpenInv
<1>1. ~directory \/ free = 0
  BY DEF CreateFails
<1>2. CASE To(o, "create", "create again") /\ GivesUp(o)
  <2>1. /\ opc[o] = "create"
        /\ opc' \in [Opener -> OpenStep]
        /\ opc'[o] = "create again"
        /\ \A p \in Opener : p # o => opc'[p] = opc[p]
    BY <1>2, ToKeepsOthers DEF OpenStep, Busy
  <2>2. /\ o \in prepared /\ prepared' = prepared \ {o} /\ free' = free + 1
        /\ UNCHANGED <<app_fds, dir_fds, log_fds, directory, placeholder, excuse>>
    BY <1>2 DEF CreateFails, GivesUp
  <2>3. DescriptorsAccounted'
    <3>1. Cardinality(prepared') + 1 = Cardinality(prepared)
      BY <2>2, AccountTypes, OneOpenerMore
    <3>2. Cardinality(prepared') \in Nat
      BY <2>2, AccountTypes, OneOpenerMore
    <3>3. free' + app_fds' + Cardinality(prepared') + Cardinality(dir_fds') + Cardinality(log_fds') = MaxFd
      BY <2>2, <3>1, <3>2, AccountTypes DEF DescriptorsAccounted
    <3> QED  BY <2>1, <2>2, <3>3 DEF DescriptorsAccounted
  <2>4. OpenTypeOK'
    <3>1. free' \in Nat /\ app_fds' \in Nat
      BY <2>2, AccountTypes
    <3>2. {prepared, dir_fds, log_fds, excuse}' \subseteq SUBSET Opener /\ {directory, placeholder}' \subseteq BOOLEAN
      BY <2>2 DEF OpenTypeOK
    <3> QED  BY <2>1, <2>3, <3>1, <3>2, AccountBounds
  <2>5. StillEntitled'
    <3>1. free \in Nat /\ free' > 0
      BY <2>2, AccountTypes
    <3> QED  BY <2>1, <2>2, <3>1 DEF StillEntitled, Holding, Busy
  <2>6. AgainWithout' /\ FailsOnlyWithExcuse'
    BY <2>1, <2>2 DEF AgainWithout, FailsOnlyWithExcuse
  <2> QED  BY <2>3, <2>4, <2>5, <2>6
<1>3. CASE /\ \/ To(o, "create", "failed") /\ o \notin prepared
              \/ To(o, "create again", "failed")
           /\ UNCHANGED <<free, prepared>>
  <2>1. /\ opc[o] \in {"create", "create again"}
        /\ opc' \in [Opener -> OpenStep]
        /\ opc'[o] = "failed"
        /\ \A p \in Opener : p # o => opc'[p] = opc[p]
    BY <1>3, ToKeepsOthers DEF OpenStep, Busy
  <2>2. UNCHANGED <<free, prepared, app_fds, dir_fds, log_fds, directory, placeholder, excuse>>
    BY <1>3 DEF CreateFails
  <2>3. o \notin prepared /\ o \notin dir_fds
    <3>1. o \notin prepared
      BY <1>3, <2>1 DEF AgainWithout, To
    <3> QED  BY <2>1, <3>1 DEF DescriptorsAccounted
  <2>4. o \in excuse
    <3>1. free = 0 => ~(free > 0)
      OBVIOUS
    <3> QED  BY <1>1, <2>1, <2>3, <3>1 DEF StillEntitled, Holding, Busy
  <2>5. DescriptorsAccounted'
    BY <2>1, <2>2 DEF DescriptorsAccounted
  <2>6. OpenTypeOK'
    BY <2>1, <2>2 DEF OpenTypeOK
  <2>7. StillEntitled' /\ AgainWithout' /\ FailsOnlyWithExcuse'
    BY <2>1, <2>2, <2>4 DEF StillEntitled, Holding, AgainWithout, FailsOnlyWithExcuse
  <2> QED  BY <2>5, <2>6, <2>7
<1> QED  BY <1>2, <1>3 DEF CreateFails

\* it is closed,
LEMMA CloseLogInv == ASSUME OpenInv, NEW o \in Opener, CloseLog(o) PROVE OpenInv'
<1> USE DEF OpenInv
<1>1. /\ opc[o] = "opened"
      /\ opc' \in [Opener -> OpenStep]
      /\ opc'[o] \in {"closed", "done"}
      /\ \A p \in Opener : p # o => opc'[p] = opc[p]
  BY ToKeepsOthers DEF CloseLog, OpenStep
<1>2. /\ o \in log_fds /\ log_fds' = log_fds \ {o} /\ free' = free + 1
      /\ UNCHANGED <<app_fds, prepared, dir_fds, directory, placeholder, excuse>>
  BY <1>1 DEF CloseLog, DescriptorsAccounted
<1>3. DescriptorsAccounted'
  <2>1. Cardinality(log_fds') + 1 = Cardinality(log_fds) /\ Cardinality(log_fds') \in Nat
    BY <1>2, AccountTypes, OneOpenerMore
  <2>2. free' + app_fds' + Cardinality(prepared') + Cardinality(dir_fds') + Cardinality(log_fds') = MaxFd
    BY <1>2, <2>1, AccountTypes DEF DescriptorsAccounted
  <2> QED  BY <1>1, <1>2, <2>2 DEF DescriptorsAccounted
<1>4. OpenTypeOK'
  BY <1>1, <1>2, <1>3, AccountTypes, AccountBounds DEF OpenTypeOK
<1>5. StillEntitled'
  <2>1. free \in Nat /\ free' > 0
    BY <1>2, AccountTypes
  <2> QED  BY <1>1, <1>2, <2>1 DEF StillEntitled, Holding, Busy
<1>6. AgainWithout' /\ FailsOnlyWithExcuse'
  BY <1>1, <1>2 DEF AgainWithout, FailsOnlyWithExcuse
<1> QED  BY <1>3, <1>4, <1>5, <1>6

\* What the rest of the process does to descriptors and to the directory.
LEMMA OthersInv ==
  ASSUME OpenInv, NextTurn \/ AppOpens \/ AppCloses \/ DirectoryChanges PROVE OpenInv'
<1> USE DEF OpenInv
<1>1. CASE NextTurn
  <2>1. /\ opc["trace"] = "failed" /\ "trace" \in Opener
        /\ opc' \in [Opener -> OpenStep]
        /\ opc'["trace"] = "idle"
        /\ \A p \in Opener : p # "trace" => opc'[p] = opc[p]
        /\ UNCHANGED <<free, app_fds, prepared, dir_fds, log_fds, directory, placeholder, excuse>>
    <3>1. "trace" \in Opener /\ "idle" \in OpenStep
      BY DEF Opener, OpenStep
    <3> QED  BY <1>1, <3>1, ToKeepsOthers DEF NextTurn
  <2>2. OpenTypeOK' /\ DescriptorsAccounted'
    BY <2>1 DEF OpenTypeOK, DescriptorsAccounted
  <2>3. StillEntitled' /\ AgainWithout' /\ FailsOnlyWithExcuse'
    BY <2>1 DEF StillEntitled, Holding, AgainWithout, FailsOnlyWithExcuse, Busy
  <2> QED  BY <2>2, <2>3
<1>2. CASE AppOpens
  <2>1. "app" \notin Opener
    BY DEF Opener
  <2>2. /\ free' \in Nat /\ free' + 1 = free /\ app_fds' = app_fds + 1
        /\ excuse' \in SUBSET Opener /\ excuse \subseteq excuse'
        /\ \A p \in Opener : opc[p] \in Busy /\ p \notin excuse' => p \in prepared
        /\ UNCHANGED <<opc, prepared, dir_fds, log_fds, directory, placeholder>>
    BY <1>2, <2>1, TakesKeeps DEF AppOpens
  <2>3. DescriptorsAccounted'
    <3>1. free' + app_fds' + Cardinality(prepared') + Cardinality(dir_fds') + Cardinality(log_fds') = MaxFd
      BY <2>2, AccountTypes DEF DescriptorsAccounted
    <3> QED  BY <2>2, <3>1 DEF DescriptorsAccounted
  <2>4. OpenTypeOK'
    BY <2>2, <2>3, AccountTypes, AccountBounds DEF OpenTypeOK
  <2>5. StillEntitled' /\ AgainWithout' /\ FailsOnlyWithExcuse'
    BY <2>2 DEF StillEntitled, Holding, AgainWithout, FailsOnlyWithExcuse
  <2> QED  BY <2>3, <2>4, <2>5
<1>3. CASE AppCloses
  <2>1. /\ app_fds' \in Nat /\ app_fds' + 1 = app_fds /\ free' = free + 1 /\ free' \in Nat /\ free' > 0
        /\ UNCHANGED <<opc, prepared, dir_fds, log_fds, directory, placeholder, excuse>>
    BY <1>3, AccountTypes DEF AppCloses
  <2>2. DescriptorsAccounted'
    <3>1. free' + app_fds' + Cardinality(prepared') + Cardinality(dir_fds') + Cardinality(log_fds') = MaxFd
      BY <2>1, AccountTypes DEF DescriptorsAccounted
    <3> QED  BY <2>1, <3>1 DEF DescriptorsAccounted
  <2>3. OpenTypeOK'
    BY <2>1, <2>2, AccountTypes, AccountBounds DEF OpenTypeOK
  <2>4. StillEntitled' /\ AgainWithout' /\ FailsOnlyWithExcuse'
    BY <2>1 DEF StillEntitled, Holding, AgainWithout, FailsOnlyWithExcuse
  <2> QED  BY <2>2, <2>3, <2>4
<1>4. CASE DirectoryChanges
  <2>1. /\ directory' = ~directory
        /\ excuse \subseteq excuse' /\ excuse' \in SUBSET Opener
        /\ directory => \A p \in Opener : opc[p] \in Busy => p \in excuse'
        /\ UNCHANGED <<opc, free, app_fds, prepared, dir_fds, log_fds, placeholder>>
    BY <1>4 DEF DirectoryChanges, InProgress, OpenTypeOK
  <2>2. OpenTypeOK' /\ DescriptorsAccounted'
    BY <2>1 DEF OpenTypeOK, DescriptorsAccounted
  <2>3. StillEntitled' /\ AgainWithout' /\ FailsOnlyWithExcuse'
    BY <2>1 DEF StillEntitled, Holding, AgainWithout, FailsOnlyWithExcuse
  <2> QED  BY <2>2, <2>3
<1> QED  BY <1>1, <1>2, <1>3, <1>4

\* So the invariant is inductive.
LEMMA OpenNextInv == OpenInv /\ [OpenNext]_openVars => OpenInv'
<1> SUFFICES ASSUME OpenInv, [OpenNext]_openVars PROVE OpenInv'
  OBVIOUS
<1>1. CASE UNCHANGED openVars
  BY <1>1 DEF openVars, OpenInv, OpenTypeOK, DescriptorsAccounted, StillEntitled, Holding,
              AgainWithout, FailsOnlyWithExcuse
<1>2. CASE OpenNext
  BY <1>2, StartInv, OpenDirInv, OpenDirFailsInv, ScanInv, CloseDirInv, ReserveInv, CreateInv,
     CreateFailsInv, CloseLogInv, OthersInv DEF OpenNext
<1> QED  BY <1>1, <1>2

\* The account of the descriptors, the types and what an opener is entitled to
\* hold in every reachable state.
THEOREM OpenInvariant == OpenSpec => []OpenInv
<1> QED  BY OpenInitInv, OpenNextInv, PTL DEF OpenSpec

\* An opener with its reserve and a directory gets its log, for any number of
\* descriptors and any interference: it fails only with an excuse.
THEOREM LogOpensOrExcused == OpenSpec => []FailsOnlyWithExcuse
<1>1. OpenInv => FailsOnlyWithExcuse
  BY DEF OpenInv
<1> QED  BY <1>1, OpenInvariant, PTL

\* Each descriptor that is taken is closed once, on every path.
THEOREM NoDescriptorLeaks == OpenSpec => []DescriptorsAccounted
<1>1. OpenInv => DescriptorsAccounted
  BY DEF OpenInv
<1> QED  BY <1>1, OpenInvariant, PTL
==============================================================================
