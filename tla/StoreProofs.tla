---------------------------- MODULE StoreProofs ----------------------------
(***************************************************************************)
(* Proofs about service-node/src/store/index.ts: the promise chain of its  *)
(* mutex (AsyncMutex) and the writers of its files (JsonStore).            *)
(*                                                                         *)
(* JsonStore, for any set of calls, any mixture of kinds and both values   *)
(* of LockGrants.  NeverTorn and ReturnedIsDurable are not inductive: why  *)
(* a rename puts a whole and late enough version under the file's name     *)
(* depends on what the writer serialised, on who else may have the .tmp    *)
(* file open, and on the lock.  IInv says so step by step: only the holder *)
(* of the lock writes store.json and stats-history.json, what it has       *)
(* written so far is in the .tmp file, and that version lies between the   *)
(* file's and the cache's.                                                 *)
(*                                                                         *)
(* AsyncMutex, for any finite set of calls.  Everything follows from       *)
(* ChainInv: a call's places in the chain are distinct, only handed-out    *)
(* release functions are called, and a call was handed its release         *)
(* function only once `wait` was fulfilled.  With line 59 as written a     *)
(* first hand-over would need its own release before it, so NobodyEnters   *)
(* is part of the invariant: it is inductive only together with the fact   *)
(* that nothing is released that was not handed out.                       *)
(***************************************************************************)
EXTENDS JsonStore, AsyncMutex, FiniteSetTheorems, TLAPS

-----------------------------------------------------------------------------
(* JsonStore: the files and their writers.                                 *)

OneInside == \A c, d \in inside : c = d

Locked(t) == FileOf(t) \in LockedFiles

WritersInside == \A t \in Tasks : Locked(t) /\ pc[t] \in Writing => t \in inside

OpenOnlyWhileWriting == \A t \in Tasks : fd[t] # "closed" => pc[t] = "write"

TmpIsMine ==
    \A t \in Tasks : Locked(t) =>
        /\ pc[t] = "write" => fd[t] = "tmp" /\ tmp[FileOf(t)] = Partial
        /\ pc[t] = "rename" => tmp[FileOf(t)] = data[t]

DataIsRecent ==
    \A t \in Tasks : Locked(t) /\ pc[t] \in Writing =>
        /\ Version(disk[FileOf(t)]) <= data[t]
        /\ data[t] <= mem[FileOf(t)]
        /\ made[t] <= data[t]

QueuedIsInMemory ==
    \A t \in Tasks : Locked(t) /\ pc[t] = "queued" => made[t] <= mem[FileOf(t)]

DiskIsBehind == \A f \in LockedFiles : Version(disk[f]) <= mem[f]

NothingInFlightWhenDown ==
    process = "down" => \A t \in Tasks : pc[t] \notin InFlight

IInv == /\ TypeOK
        /\ OneInside
        /\ WritersInside
        /\ OpenOnlyWhileWriting
        /\ TmpIsMine
        /\ DataIsRecent
        /\ QueuedIsInMemory
        /\ DiskIsBehind
        /\ NothingInFlightWhenDown
        /\ NeverTorn
        /\ ReturnedIsDurable
-----------------------------------------------------------------------------
\* Every call writes one of the three files.
LEMMA FileOfType == \A t \in Tasks : FileOf(t) \in Files
  BY KindAssumption DEF FileOf, Kinds, Files

\* The calls that write a locked file are the two kinds of persist.
LEMMA LockedKinds ==
    \A t \in Tasks : Locked(t) <=> Kind[t] \in {"persistStore", "persistStats"}
  BY KindAssumption DEF FileOf, Locked, LockedFiles, Kinds

\* A ticket is a natural number.
LEMMA AskType ==
    ASSUME TypeOK, NEW t \in Tasks, Lock!Ask(t)
    PROVE  ticket' \in [Tasks -> Nat] /\ inside' = inside /\ left' = left
  <1>1. IsFiniteSet(Lock!Asked)
    BY TasksAssumption, FS_Subset DEF Lock!Asked
  <1>2. Cardinality(Lock!Asked) \in Nat
    BY <1>1, FS_CardinalityType
  <1>3. Lock!Cardinality(Lock!Asked) = Cardinality(Lock!Asked)
    BY DEF Lock!Cardinality, Cardinality
  <1> QED
    BY <1>2, <1>3 DEF Lock!Ask, TypeOK

LEMMA InitInductive == Init => IInv
  <1> SUFFICES ASSUME Init PROVE IInv
    OBVIOUS
  <1>1. TypeOK
    BY DEF Init, Lock!Init, TypeOK, Files, Content, PCs, InFlight, Writing
  <1>2. \A f \in Files : Version(disk[f]) = 0 /\ disk[f] \notin Torn
    BY ContentAssumption DEF Init, Version, Torn
  <1> QED
    BY <1>1, <1>2 DEF Init, Lock!Init, IInv, OneInside, WritersInside,
         OpenOnlyWhileWriting, TmpIsMine, DataIsRecent, QueuedIsInMemory, DiskIsBehind,
         NothingInFlightWhenDown, NeverTorn, ReturnedIsDurable, Writing, InFlight,
         Files, LockedFiles

\* Persist adds a version to one cache and queues its writer.
LEMMA PersistInductive ==
    ASSUME IInv, NEW t \in Tasks, Persist(t)
    PROVE  IInv'
  <1> DEFINE f == FileOf(t)
  <1>1. /\ TypeOK /\ f \in Files /\ pc[t] = "idle"
        /\ ticket' \in [Tasks -> Nat] /\ inside' = inside /\ left' = left
    BY FileOfType, AskType DEF IInv, Persist
  <1>2. /\ \A g \in Files : mem'[g] = IF g = f THEN mem[g] + 1 ELSE mem[g]
        /\ \A u \in Tasks : pc'[u] = IF u = t THEN "queued" ELSE pc[u]
        /\ \A u \in Tasks : made'[u] = IF u = t THEN mem[f] + 1 ELSE made[u]
        /\ disk' = disk /\ tmp' = tmp /\ data' = data /\ fd' = fd
        /\ process' = process /\ process # "down" /\ returned' = returned
    BY <1>1 DEF Persist, TypeOK, Running
  <1> HIDE DEF f
  <1>3. TypeOK'
    BY <1>1 DEF Persist, TypeOK, PCs, InFlight, Writing, f
  <1>4. OneInside' /\ WritersInside' /\ OpenOnlyWhileWriting' /\ TmpIsMine'
    BY <1>1, <1>2 DEF IInv, OneInside, WritersInside, OpenOnlyWhileWriting, TmpIsMine,
                      Writing, Locked
  <1>5. DataIsRecent'
    BY <1>1, <1>2, FileOfType DEF IInv, DataIsRecent, TypeOK, Writing, Locked
  <1>6. QueuedIsInMemory'
    BY <1>1, <1>2, FileOfType DEF IInv, QueuedIsInMemory, TypeOK, Locked, f
  <1>7. DiskIsBehind'
    BY <1>1, <1>2, ContentAssumption
       DEF IInv, DiskIsBehind, TypeOK, Version, LockedFiles, Files
  <1>8. NothingInFlightWhenDown' /\ NeverTorn' /\ ReturnedIsDurable'
    BY <1>2 DEF IInv, NothingInFlightWhenDown, NeverTorn, ReturnedIsDurable
  <1> QED
    BY <1>3, <1>4, <1>5, <1>6, <1>7, <1>8 DEF IInv

\* An update of the ip history leaves the locked files alone.
LEMMA UpdateIpsInductive ==
    ASSUME IInv, UpdateIps
    PROVE  IInv'
  <1>1. /\ TypeOK
        /\ \A g \in LockedFiles : mem'[g] = mem[g]
        /\ pc' = pc /\ made' = made /\ disk' = disk /\ tmp' = tmp /\ data' = data
        /\ fd' = fd /\ inside' = inside /\ process' = process /\ returned' = returned
    BY DEF IInv, UpdateIps, TypeOK, LockedFiles, Files, lock
  <1>2. TypeOK'
    BY DEF IInv, UpdateIps, TypeOK, Files, lock
  <1>3. DataIsRecent' /\ QueuedIsInMemory' /\ DiskIsBehind'
    BY <1>1 DEF IInv, DataIsRecent, QueuedIsInMemory, DiskIsBehind, Locked
  <1> QED
    BY <1>1, <1>2, <1>3
       DEF IInv, OneInside, WritersInside, OpenOnlyWhileWriting, TmpIsMine,
           NothingInFlightWhenDown, NeverTorn, ReturnedIsDurable

\* The timer's callback queues, at most, a writer of the ip history.
LEMMA TimerFiresInductive ==
    ASSUME IInv, NEW t \in Tasks, TimerFires(t)
    PROVE  IInv'
  <1>1. /\ TypeOK /\ ~Locked(t) /\ pc[t] = "idle"
        /\ ticket' \in [Tasks -> Nat] /\ inside' = inside /\ left' = left
    BY AskType, LockedKinds DEF IInv, TimerFires, lock, TypeOK
  <1>2. /\ \A u \in Tasks \ {t} : pc'[u] = pc[u]
        /\ pc'[t] \in {"idle", "queued"}
        /\ pc' \in [Tasks -> PCs]
    BY <1>1 DEF TimerFires, TypeOK, PCs, InFlight
  <1>3. /\ mem' = mem /\ made' = made /\ disk' = disk /\ tmp' = tmp /\ data' = data
        /\ fd' = fd /\ process' = process /\ process # "down" /\ returned' = returned
    BY DEF TimerFires, Running
  <1>4. TypeOK'
    BY <1>1, <1>2 DEF TimerFires, TypeOK
  <1>5. OneInside' /\ WritersInside' /\ OpenOnlyWhileWriting' /\ TmpIsMine'
    BY <1>1, <1>2, <1>3 DEF IInv, OneInside, WritersInside, OpenOnlyWhileWriting,
                            TmpIsMine, Writing, Locked
  <1>6. DataIsRecent' /\ QueuedIsInMemory' /\ DiskIsBehind'
    BY <1>1, <1>2, <1>3 DEF IInv, DataIsRecent, QueuedIsInMemory, DiskIsBehind, Writing,
                            Locked
  <1> QED
    BY <1>3, <1>4, <1>5, <1>6
       DEF IInv, NothingInFlightWhenDown, NeverTorn, ReturnedIsDurable

\* removeIpHistory starts a write beside the lock, but not of a locked file.
LEMMA RemoveIpsInductive ==
    ASSUME IInv, NEW t \in Tasks, RemoveIps(t)
    PROVE  IInv'
  <1>1. TypeOK /\ ~Locked(t) /\ pc[t] = "idle"
    BY LockedKinds DEF IInv, RemoveIps
  <1>2. /\ \A u \in Tasks \ {t} : pc'[u] = pc[u] /\ data'[u] = data[u] /\ made'[u] = made[u]
        /\ pc'[t] = "open"
        /\ \A g \in LockedFiles : mem'[g] = mem[g]
    BY <1>1 DEF RemoveIps, TypeOK, LockedFiles, Files
  <1>3. /\ disk' = disk /\ tmp' = tmp /\ fd' = fd /\ inside' = inside
        /\ process' = process /\ process # "down" /\ returned' = returned
    BY DEF RemoveIps, Running, lock
  <1>4. TypeOK'
    BY <1>1 DEF RemoveIps, TypeOK, lock, Files, PCs, InFlight, Writing
  <1>5. OneInside' /\ WritersInside' /\ OpenOnlyWhileWriting' /\ TmpIsMine'
    BY <1>1, <1>2, <1>3 DEF IInv, OneInside, WritersInside, OpenOnlyWhileWriting,
                            TmpIsMine, Writing, Locked
  <1>6. DataIsRecent' /\ QueuedIsInMemory' /\ DiskIsBehind'
    BY <1>1, <1>2, <1>3 DEF IInv, DataIsRecent, QueuedIsInMemory, DiskIsBehind, Writing,
                            Locked
  <1> QED
    BY <1>3, <1>4, <1>5, <1>6
       DEF IInv, NothingInFlightWhenDown, NeverTorn, ReturnedIsDurable

\* Whatever takes the process down leaves nothing in flight; the files and the
\* caches stay as they are until the restart.
LEMMA GoDownInductive ==
    ASSUME IInv, NEW S \in SUBSET Tasks, GoDown(S),
           mem' = mem, made' = made, data' = data,
           TypeOK', NeverTorn', ReturnedIsDurable',
           \A f \in LockedFiles : disk'[f] = disk[f]
    PROVE  IInv'
  <1>1. /\ \A u \in Tasks : pc'[u] \notin InFlight /\ fd'[u] = "closed"
        /\ inside' = {}
    BY DEF GoDown, InFlight, Writing, IInv
  <1>2. DiskIsBehind'
    BY DEF IInv, DiskIsBehind
  <1> QED
    BY <1>1, <1>2
       DEF IInv, OneInside, WritersInside, OpenOnlyWhileWriting, TmpIsMine, DataIsRecent,
           QueuedIsInMemory, NothingInFlightWhenDown, InFlight, Writing

LEMMA GoDownType ==
    ASSUME TypeOK, NEW S \in SUBSET Tasks, GoDown(S)
    PROVE  /\ pc' \in [Tasks -> PCs]
           /\ fd' \in [Tasks -> {"closed", "tmp", "disk", "unlinked"}]
           /\ ticket' \in [Tasks -> Nat] /\ inside' = {} /\ left' = {}
           /\ process' = "down" /\ stops' \in Nat
  BY DEF GoDown, TypeOK, PCs

LEMMA CrashInductive ==
    ASSUME IInv, Crash
    PROVE  IInv'
  <1>1. TypeOK'
    BY GoDownType DEF IInv, Crash, TypeOK
  <1>2. NeverTorn' /\ ReturnedIsDurable'
    BY DEF IInv, Crash, NeverTorn, ReturnedIsDurable
  <1> QED
    BY <1>1, <1>2, GoDownInductive DEF Crash

\* SIGTERM exits or queues a writer of the ip history.
LEMMA SigtermInductive ==
    ASSUME IInv, NEW t \in Tasks, Sigterm(t)
    PROVE  IInv'
  <1>1. TypeOK /\ ~Locked(t) /\ pc[t] = "idle" /\ process # "down"
    BY LockedKinds DEF IInv, Sigterm
  <1>2. CASE dirty
    <2>1. /\ ticket' \in [Tasks -> Nat] /\ inside' = inside /\ left' = left
          /\ pc' = [pc EXCEPT ![t] = "queued"]
          /\ mem' = mem /\ made' = made /\ disk' = disk /\ tmp' = tmp /\ data' = data
          /\ fd' = fd /\ process' # "down" /\ returned' = returned
      BY <1>1, <1>2, AskType DEF Sigterm
    <2>2. TypeOK'
      BY <1>1, <1>2, <2>1 DEF Sigterm, TypeOK, PCs, InFlight
    <2>3. OneInside' /\ WritersInside' /\ OpenOnlyWhileWriting' /\ TmpIsMine'
      BY <1>1, <2>1 DEF IInv, OneInside, WritersInside, OpenOnlyWhileWriting, TmpIsMine,
                        Writing, Locked, TypeOK
    <2>4. DataIsRecent' /\ QueuedIsInMemory' /\ DiskIsBehind'
      BY <1>1, <2>1 DEF IInv, DataIsRecent, QueuedIsInMemory, DiskIsBehind, Writing,
                        Locked, TypeOK
    <2> QED
      BY <2>1, <2>2, <2>3, <2>4
         DEF IInv, NothingInFlightWhenDown, NeverTorn, ReturnedIsDurable
  <1>3. CASE ~dirty
    <2>1. GoDown({t})
      BY <1>3 DEF Sigterm
    <2>2. TypeOK'
      BY <1>1, <2>1, GoDownType DEF Sigterm, TypeOK
    <2>3. NeverTorn' /\ ReturnedIsDurable'
      BY DEF IInv, Sigterm, NeverTorn, ReturnedIsDurable
    <2> QED
      BY <2>1, <2>2, <2>3, GoDownInductive DEF Sigterm
  <1> QED
    BY <1>2, <1>3

\* The new holder of the lock serialises a version between the file's and the
\* cache's.
LEMMA EnterInductive ==
    ASSUME IInv, NEW t \in Tasks, Enter(t)
    PROVE  IInv'
  <1>1. /\ TypeOK /\ FileOf(t) \in Files /\ pc[t] = "queued" /\ process # "down"
        /\ inside = {} /\ inside' = {t}
        /\ mem' = mem /\ made' = made /\ disk' = disk /\ tmp' = tmp
        /\ fd' = fd /\ process' = process /\ returned' = returned
    BY FileOfType DEF IInv, Enter, Lock!Enter, Running
  <1>2. /\ \A u \in Tasks \ {t} : pc'[u] = pc[u] /\ data'[u] = data[u]
        /\ pc'[t] = "open" /\ data'[t] = mem[FileOf(t)]
    BY <1>1 DEF Enter, TypeOK
  <1>3. TypeOK'
    BY <1>1 DEF Enter, Lock!Enter, TypeOK, PCs, InFlight, Writing
  <1>4. OneInside' /\ WritersInside' /\ OpenOnlyWhileWriting' /\ TmpIsMine'
    BY <1>1, <1>2 DEF IInv, OneInside, WritersInside, OpenOnlyWhileWriting, TmpIsMine,
                      Writing, Locked
  <1>5. DataIsRecent'
    <2> SUFFICES ASSUME NEW u \in Tasks, Locked(u), pc'[u] \in Writing
                 PROVE  /\ Version(disk[FileOf(u)]) <= data'[u]
                        /\ data'[u] <= mem[FileOf(u)]
                        /\ made[u] <= data'[u]
      BY <1>1 DEF DataIsRecent, Locked
    <2>1. CASE u = t
      BY <1>1, <1>2, <2>1 DEF IInv, DiskIsBehind, QueuedIsInMemory, Locked, TypeOK
    <2>2. CASE u # t
      BY <1>2, <2>2 DEF IInv, DataIsRecent
    <2> QED
      BY <2>1, <2>2
  <1>6. QueuedIsInMemory' /\ DiskIsBehind' /\ NothingInFlightWhenDown'
    BY <1>1, <1>2 DEF IInv, QueuedIsInMemory, DiskIsBehind, NothingInFlightWhenDown, Locked
  <1> QED
    BY <1>1, <1>3, <1>4, <1>5, <1>6 DEF IInv, NeverTorn, ReturnedIsDurable

\* Opening a .tmp file truncates it for every writer of the same file; a locked
\* file has no other.
LEMMA OpenTmpInductive ==
    ASSUME IInv, NEW t \in Tasks, OpenTmp(t)
    PROVE  IInv'
  <1>1. /\ TypeOK /\ FileOf(t) \in Files /\ pc[t] = "open" /\ process # "down"
        /\ inside' = inside
        /\ mem' = mem /\ made' = made /\ disk' = disk /\ data' = data
        /\ process' = process /\ returned' = returned
    BY FileOfType DEF IInv, OpenTmp, Running, lock
  <1>2. /\ \A u \in Tasks \ {t} : pc'[u] = pc[u] /\ fd'[u] = fd[u]
        /\ pc'[t] = "write" /\ fd'[t] = "tmp"
        /\ \A g \in Files : tmp'[g] = IF g = FileOf(t) THEN Partial ELSE tmp[g]
    BY <1>1 DEF OpenTmp, TypeOK
  <1>3. TypeOK'
    BY <1>1 DEF OpenTmp, TypeOK, PCs, InFlight, Writing, Content, Torn, lock
  <1>4. OneInside' /\ WritersInside' /\ OpenOnlyWhileWriting'
    BY <1>1, <1>2 DEF IInv, OneInside, WritersInside, OpenOnlyWhileWriting,
                      Writing, Locked
  <1>5. TmpIsMine'
    <2> SUFFICES ASSUME NEW u \in Tasks, Locked(u)
                 PROVE  /\ pc'[u] = "write" => fd'[u] = "tmp" /\ tmp'[FileOf(u)] = Partial
                        /\ pc'[u] = "rename" => tmp'[FileOf(u)] = data[u]
      BY <1>1 DEF TmpIsMine, Locked
    <2>1. CASE u = t
      BY <1>1, <1>2, <2>1
    <2>2. CASE u # t /\ FileOf(u) = FileOf(t)
      BY <1>1, <1>2, <2>2 DEF IInv, WritersInside, OneInside, Writing, Locked
    <2>3. CASE FileOf(u) # FileOf(t)
      BY <1>1, <1>2, <2>3, FileOfType DEF IInv, TmpIsMine
    <2> QED
      BY <2>1, <2>2, <2>3
  <1>6. /\ DataIsRecent' /\ QueuedIsInMemory' /\ DiskIsBehind'
        /\ NothingInFlightWhenDown'
    BY <1>1, <1>2 DEF IInv, DataIsRecent, QueuedIsInMemory, DiskIsBehind,
                      NothingInFlightWhenDown, Locked, Writing
  <1> QED
    BY <1>1, <1>3, <1>4, <1>5, <1>6 DEF IInv, NeverTorn, ReturnedIsDurable

\* The holder of the lock writes into its own, empty .tmp file.
LEMMA WriteTmpInductive ==
    ASSUME IInv, NEW t \in Tasks, WriteTmp(t)
    PROVE  IInv'
  <1>1. /\ TypeOK /\ FileOf(t) \in Files /\ pc[t] = "write" /\ process # "down"
        /\ inside' = inside
        /\ mem' = mem /\ made' = made /\ data' = data
        /\ process' = process /\ returned' = returned
    BY FileOfType DEF IInv, WriteTmp, Running, lock
  <1>2. /\ \A u \in Tasks \ {t} : pc'[u] = pc[u] /\ fd'[u] = fd[u]
        /\ pc'[t] = "rename" /\ fd'[t] = "closed"
        /\ \A g \in Files \ {FileOf(t)} : tmp'[g] = tmp[g] /\ disk'[g] = disk[g]
    BY <1>1 DEF WriteTmp, TypeOK
  <1>3. \A old : Written(old, data[t]) \subseteq Content
    BY <1>1 DEF Written, Content, Torn, TypeOK
  <1>4. tmp' \in [Files -> Content] /\ disk' \in [Files -> Content]
    BY <1>1, <1>3 DEF WriteTmp, TypeOK
  <1>5. TypeOK'
    BY <1>1, <1>4 DEF WriteTmp, TypeOK, PCs, InFlight, Writing, lock
  <1>6. Locked(t) => /\ tmp' = [tmp EXCEPT ![FileOf(t)] = data[t]]
                     /\ disk' = disk
    BY <1>1 DEF IInv, TmpIsMine, WriteTmp, Written
  <1>7. \A g \in LockedFiles : disk'[g] = disk[g]
    BY <1>1, <1>2, <1>6 DEF Locked, Files, LockedFiles
  <1>8. OneInside' /\ WritersInside' /\ OpenOnlyWhileWriting'
    BY <1>1, <1>2 DEF IInv, OneInside, WritersInside, OpenOnlyWhileWriting,
                      Writing, Locked
  <1>9. TmpIsMine'
    <2> SUFFICES ASSUME NEW u \in Tasks, Locked(u)
                 PROVE  /\ pc'[u] = "write" => fd'[u] = "tmp" /\ tmp'[FileOf(u)] = Partial
                        /\ pc'[u] = "rename" => tmp'[FileOf(u)] = data[u]
      BY <1>1 DEF TmpIsMine, Locked
    <2>1. CASE u = t
      BY <1>1, <1>2, <1>6, <2>1 DEF TypeOK
    <2>2. CASE u # t /\ FileOf(u) = FileOf(t)
      BY <1>1, <1>2, <2>2 DEF IInv, WritersInside, OneInside, Writing, Locked
    <2>3. CASE FileOf(u) # FileOf(t)
      BY <1>1, <1>2, <2>3, FileOfType DEF IInv, TmpIsMine
    <2> QED
      BY <2>1, <2>2, <2>3
  <1>10. /\ DataIsRecent' /\ QueuedIsInMemory' /\ DiskIsBehind'
         /\ NothingInFlightWhenDown' /\ NeverTorn' /\ ReturnedIsDurable'
    BY <1>1, <1>2, <1>7 DEF IInv, DataIsRecent, QueuedIsInMemory, DiskIsBehind,
         NothingInFlightWhenDown, NeverTorn, ReturnedIsDurable, Locked, Writing
  <1> QED
    BY <1>5, <1>8, <1>9, <1>10 DEF IInv

\* A call that ends gives the lock back or keeps it, and nobody else gets it.
LEMMA UnlockType ==
    ASSUME TypeOK, NEW t \in Tasks, Unlock(t)
    PROVE  /\ ticket' \in [Tasks -> Nat]
           /\ inside' \subseteq inside /\ inside \ {t} \subseteq inside'
           /\ left' \subseteq Tasks
  BY DEF Unlock, lock, Lock!Leave, TypeOK

\* The rename of a locked file puts the holder's version under the file's name;
\* no other call has that file open.
LEMMA RenamedFiles ==
    ASSUME IInv, NEW t \in Tasks, pc[t] = "rename", tmp[FileOf(t)] # Missing, Renamed(t)
    PROVE  /\ FileOf(t) \in Files
           /\ disk' \in [Files -> Content] /\ tmp' \in [Files -> Content]
           /\ returned' \in [Files -> Nat]
           /\ \A g \in Files \ {FileOf(t)} :
                 disk'[g] = disk[g] /\ tmp'[g] = tmp[g] /\ returned'[g] = returned[g]
           /\ Locked(t) => /\ disk'[FileOf(t)] = data[t]
                           /\ returned'[FileOf(t)] <= data[t]
                           /\ returned[FileOf(t)] <= returned'[FileOf(t)]
                           /\ Version(disk[FileOf(t)]) <= data[t]
                           /\ data[t] <= mem[FileOf(t)]
  <1>1. TypeOK /\ FileOf(t) \in Files
    BY FileOfType DEF IInv
  <1>2. disk' \in [Files -> Content] /\ tmp' \in [Files -> Content]
    BY <1>1 DEF Renamed, TypeOK, Content
  <1>3. returned' \in [Files -> Nat]
    BY <1>1 DEF Renamed, TypeOK
  <1>4. \A g \in Files \ {FileOf(t)} :
           disk'[g] = disk[g] /\ tmp'[g] = tmp[g] /\ returned'[g] = returned[g]
    BY <1>1 DEF Renamed, TypeOK
  <1>5. ASSUME Locked(t)
        PROVE  /\ disk'[FileOf(t)] = data[t]
               /\ returned'[FileOf(t)] <= data[t]
               /\ returned[FileOf(t)] <= returned'[FileOf(t)]
               /\ Version(disk[FileOf(t)]) <= data[t]
               /\ data[t] <= mem[FileOf(t)]
    <2>1. /\ tmp[FileOf(t)] = data[t]
          /\ Version(disk[FileOf(t)]) <= data[t] /\ made[t] <= data[t]
          /\ data[t] <= mem[FileOf(t)]
          /\ returned[FileOf(t)] <= Version(disk[FileOf(t)])
      BY <1>5 DEF IInv, TmpIsMine, DataIsRecent, ReturnedIsDurable, Writing, Locked
    <2>2. /\ data[t] \in Nat /\ made[t] \in Nat /\ returned[FileOf(t)] \in Nat
          /\ Version(disk[FileOf(t)]) \in Nat
      BY <1>1 DEF TypeOK, Version
    <2>3. /\ disk'[FileOf(t)] = tmp[FileOf(t)]
          /\ returned'[FileOf(t)] = IF made[t] > returned[FileOf(t)]
                                    THEN made[t] ELSE returned[FileOf(t)]
      BY <1>1 DEF Renamed, TypeOK
    <2> HIDE DEF Version
    <2> QED
      BY <2>1, <2>2, <2>3
  <1> QED
    BY <1>1, <1>2, <1>3, <1>4, <1>5

LEMMA RenameInductive ==
    ASSUME IInv, NEW t \in Tasks, Rename(t)
    PROVE  IInv'
  <1>1. /\ TypeOK /\ pc[t] = "rename" /\ process # "down"
        /\ tmp[FileOf(t)] # Missing /\ Renamed(t)
        /\ mem' = mem /\ made' = made /\ data' = data /\ timer' = timer
        /\ dirty' \in BOOLEAN
    BY DEF IInv, Rename, Renamed, Running, TypeOK
  <1>2. /\ FileOf(t) \in Files
        /\ disk' \in [Files -> Content] /\ tmp' \in [Files -> Content]
        /\ returned' \in [Files -> Nat]
        /\ \A g \in Files \ {FileOf(t)} :
              disk'[g] = disk[g] /\ tmp'[g] = tmp[g] /\ returned'[g] = returned[g]
        /\ Locked(t) => /\ disk'[FileOf(t)] = data[t]
                        /\ returned'[FileOf(t)] <= data[t]
                        /\ data[t] <= mem[FileOf(t)]
    BY <1>1, RenamedFiles
  <1>3. data[t] \in Nat
    BY <1>1 DEF TypeOK
  <1>4. NeverTorn' /\ ReturnedIsDurable' /\ DiskIsBehind'
    <2> SUFFICES ASSUME NEW g \in LockedFiles
                 PROVE  /\ disk'[g] \notin Torn /\ returned'[g] <= Version(disk'[g])
                        /\ Version(disk'[g]) <= mem[g]
      BY <1>1 DEF NeverTorn, ReturnedIsDurable, DiskIsBehind, Version
    <2>1. CASE g = FileOf(t)
      BY <1>2, <1>3, <2>1, ContentAssumption DEF Locked, Torn, Version
    <2>2. CASE g # FileOf(t)
      BY <1>2, <2>2 DEF IInv, NeverTorn, ReturnedIsDurable, DiskIsBehind, Files,
                        LockedFiles, Version
    <2> QED
      BY <2>1, <2>2
  <1>5. CASE Kind[t] = "exitFlush"
    <2>1. GoDown({t})
      BY <1>5 DEF Rename
    <2>2. TypeOK'
      BY <1>1, <1>2, <2>1, GoDownType DEF TypeOK
    <2>3. \A g \in LockedFiles : disk'[g] = disk[g]
      BY <1>2, <1>5 DEF FileOf, LockedFiles, Files
    <2> QED
      BY <1>1, <1>4, <2>1, <2>2, <2>3, GoDownInductive
  <1>6. CASE Kind[t] # "exitFlush"
    <2>1. /\ FollowRename(t) /\ pc' = [pc EXCEPT ![t] = "done"] /\ Unlock(t)
          /\ process' = process /\ stops' = stops
      BY <1>6 DEF Rename
    <2>2. /\ \A u \in Tasks \ {t} : pc'[u] = pc[u]
          /\ pc'[t] = "done"
          /\ inside' \subseteq inside /\ inside \ {t} \subseteq inside'
      BY <1>1, <2>1, UnlockType DEF TypeOK
    <2>3. /\ fd' \in [Tasks -> {"closed", "tmp", "disk", "unlinked"}]
          /\ fd'[t] = "closed"
          /\ \A u \in Tasks : fd'[u] # "closed" => fd[u] # "closed"
          /\ \A u \in Tasks : FileOf(u) # FileOf(t) => fd'[u] = fd[u]
      BY <1>1, <2>1 DEF FollowRename, TypeOK, IInv, OpenOnlyWhileWriting
    <2>4. TypeOK'
      BY <1>1, <1>2, <2>1, <2>3, UnlockType DEF TypeOK, PCs
    <2>5. OneInside' /\ WritersInside' /\ OpenOnlyWhileWriting'
      BY <1>1, <2>2, <2>3 DEF IInv, OneInside, WritersInside, OpenOnlyWhileWriting,
                              Writing, Locked
    <2>6. \A u \in Tasks \ {t} : Locked(u) /\ pc[u] \in Writing => FileOf(u) # FileOf(t)
      BY <1>1 DEF IInv, WritersInside, OneInside, Writing, Locked
    <2>7. TmpIsMine'
      BY <1>1, <1>2, <2>2, <2>3, <2>6, FileOfType
         DEF IInv, TmpIsMine, Writing, Locked
    <2>8. DataIsRecent'
      BY <1>1, <1>2, <2>2, <2>6, FileOfType DEF IInv, DataIsRecent, Writing, Locked, Version
    <2>9. QueuedIsInMemory' /\ NothingInFlightWhenDown'
      BY <1>1, <2>1, <2>2 DEF IInv, QueuedIsInMemory, NothingInFlightWhenDown, Locked
    <2> QED
      BY <1>4, <2>4, <2>5, <2>7, <2>8, <2>9 DEF IInv
  <1> QED
    BY <1>5, <1>6

LEMMA IoFailsInductive ==
    ASSUME IInv, NEW t \in Tasks, IoFails(t)
    PROVE  IInv'
  <1>1. /\ TypeOK /\ process # "down"
        /\ mem' = mem /\ made' = made /\ data' = data /\ disk' = disk /\ tmp' = tmp
        /\ dirty' = dirty /\ timer' = timer /\ returned' = returned
    BY DEF IInv, IoFails, Running
  <1>2. CASE Kind[t] = "exitFlush"
    <2>1. GoDown({t})
      BY <1>2 DEF IoFails
    <2>2. TypeOK'
      BY <1>1, <2>1, GoDownType DEF TypeOK
    <2>3. NeverTorn' /\ ReturnedIsDurable'
      BY <1>1 DEF IInv, NeverTorn, ReturnedIsDurable
    <2> QED
      BY <1>1, <2>1, <2>2, <2>3, GoDownInductive
  <1>3. CASE Kind[t] # "exitFlush"
    <2>1. /\ pc' = [pc EXCEPT ![t] = "failed"] /\ fd' = [fd EXCEPT ![t] = "closed"]
          /\ Unlock(t) /\ process' = process /\ stops' = stops
      BY <1>3 DEF IoFails
    <2>2. /\ \A u \in Tasks \ {t} : pc'[u] = pc[u] /\ fd'[u] = fd[u]
          /\ pc'[t] = "failed" /\ fd'[t] = "closed"
          /\ inside' \subseteq inside /\ inside \ {t} \subseteq inside'
      BY <1>1, <2>1, UnlockType DEF TypeOK
    <2>3. TypeOK'
      BY <1>1, <2>1, UnlockType DEF TypeOK, PCs
    <2>4. OneInside' /\ WritersInside' /\ OpenOnlyWhileWriting' /\ TmpIsMine'
      BY <1>1, <2>2 DEF IInv, OneInside, WritersInside, OpenOnlyWhileWriting, TmpIsMine,
                        Writing, Locked
    <2>5. /\ DataIsRecent' /\ QueuedIsInMemory' /\ DiskIsBehind'
          /\ NothingInFlightWhenDown' /\ NeverTorn' /\ ReturnedIsDurable'
      BY <1>1, <2>1, <2>2 DEF IInv, DataIsRecent, QueuedIsInMemory, DiskIsBehind,
           NothingInFlightWhenDown, NeverTorn, ReturnedIsDurable, Locked, Writing
    <2> QED
      BY <2>3, <2>4, <2>5 DEF IInv
  <1> QED
    BY <1>2, <1>3

\* A restart reads back the files, which hold whole versions.
LEMMA RestartInductive ==
    ASSUME IInv, Restart
    PROVE  IInv'
  <1>1. /\ TypeOK /\ process = "down" /\ process' = "up"
        /\ pc' = pc /\ made' = made /\ data' = data /\ fd' = fd /\ tmp' = tmp
        /\ inside' = inside /\ returned' = returned
        /\ \A t \in Tasks : pc[t] \notin InFlight
    BY DEF IInv, Restart, NothingInFlightWhenDown, lock
  <1>2. \A f \in Files : Loaded(f) \in Nat /\ Loaded(f) = Version(disk[f])
    BY <1>1 DEF Loaded, Version, TypeOK
  <1>3. /\ \A f \in Files : mem'[f] = Version(disk[f])
        /\ \A f \in Files : Version(disk'[f]) = Version(disk[f])
        /\ \A f \in Files : disk'[f] \in Torn => disk[f] \in Torn
    BY <1>1, <1>2, ContentAssumption DEF Restart, Version, TypeOK, Files, Torn
  <1>4. TypeOK'
    BY <1>1, <1>2 DEF Restart, TypeOK, Content, lock, Files
  <1>5. NeverTorn' /\ ReturnedIsDurable' /\ DiskIsBehind'
    <2> SUFFICES ASSUME NEW f \in LockedFiles
                 PROVE  /\ disk'[f] \notin Torn /\ returned[f] <= Version(disk'[f])
                        /\ Version(disk'[f]) <= mem'[f]
      BY <1>1 DEF NeverTorn, ReturnedIsDurable, DiskIsBehind, Version
    <2>1. f \in Files /\ Version(disk[f]) \in Nat
      BY <1>2 DEF Files, LockedFiles
    <2> QED
      BY <1>3, <2>1 DEF IInv, NeverTorn, ReturnedIsDurable
  <1> QED
    BY <1>1, <1>4, <1>5
       DEF IInv, OneInside, WritersInside, OpenOnlyWhileWriting, TmpIsMine, DataIsRecent,
           QueuedIsInMemory, NothingInFlightWhenDown, Writing, InFlight

LEMMA NextInductive == IInv /\ [Next]_vars => IInv'
  <1> SUFFICES ASSUME IInv, [Next]_vars PROVE IInv'
    OBVIOUS
  <1>1. CASE UNCHANGED vars
    BY <1>1 DEF vars, IInv, TypeOK, OneInside, WritersInside, OpenOnlyWhileWriting,
         TmpIsMine, DataIsRecent, QueuedIsInMemory, DiskIsBehind,
         NothingInFlightWhenDown, NeverTorn, ReturnedIsDurable, Version, Locked, FileOf
  <1>2. CASE UpdateIps
    BY <1>2, UpdateIpsInductive
  <1>3. CASE Crash
    BY <1>3, CrashInductive
  <1>4. CASE Restart
    BY <1>4, RestartInductive
  <1>5. ASSUME NEW t \in Tasks,
               \/ Persist(t) \/ TimerFires(t) \/ RemoveIps(t) \/ Sigterm(t)
               \/ Enter(t) \/ OpenTmp(t) \/ WriteTmp(t) \/ Rename(t) \/ IoFails(t)
        PROVE  IInv'
    BY <1>5, PersistInductive, TimerFiresInductive, RemoveIpsInductive, SigtermInductive,
       EnterInductive, OpenTmpInductive, WriteTmpInductive, RenameInductive,
       IoFailsInductive
  <1> QED
    BY <1>1, <1>2, <1>3, <1>4, <1>5 DEF Next

LEMMA Inductive == Spec => []IInv
  BY InitInductive, NextInductive, PTL DEF Spec

-----------------------------------------------------------------------------
\* The state of the files, the caches and the calls always has the shape TypeOK
\* says (store/index.ts).
THEOREM TypeCorrect == Spec => []TypeOK
  <1>1. IInv => TypeOK
    BY DEF IInv
  <1> QED
    BY <1>1, Inductive, PTL

\* For any number of concurrent calls of any kind, whatever crashes, store.json
\* and stats-history.json never hold anything but a whole version of their
\* cache.
THEOREM LockedFilesAreWhole == Spec => []NeverTorn
  <1>1. IInv => NeverTorn
    BY DEF IInv
  <1> QED
    BY <1>1, Inductive, PTL

\* For any number of concurrent calls, a change of the store or of the
\* statistics whose call has returned is in its file, after any crash as well.
THEOREM ReturnedChangesSurvive == Spec => []ReturnedIsDurable
  <1>1. IInv => ReturnedIsDurable
    BY DEF IInv
  <1> QED
    BY <1>1, Inductive, PTL
-----------------------------------------------------------------------------
(* Each locked file is a DurableFile.                                      *)

Stays(f) == /\ Version(disk[f])' = Version(disk[f])
            /\ returned'[f] = returned[f]

Changes(f) == Current(f)' = Current(f) + 1 /\ Stays(f)

Saves(f) == /\ Version(disk[f])' \in Nat /\ returned'[f] \in Nat
            /\ Version(disk[f]) <= Version(disk[f])'
            /\ Version(disk[f])' <= Current(f)
            /\ returned[f] <= returned'[f] /\ returned'[f] <= Version(disk[f])'
            /\ Current(f)' = Current(f)

Reloads(f) == Current(f)' = Version(disk[f]) /\ Stays(f)

Stutters(f) == Current(f)' = Current(f) /\ Stays(f)

\* A step that leaves a file, its cache and the process alone is a stutter.
LEMMA Untouched ==
    ASSUME NEW f \in LockedFiles, process' = process, mem'[f] = mem[f],
           disk'[f] = disk[f], returned'[f] = returned[f]
    PROVE  Stutters(f)
  BY DEF Stutters, Stays, Current, Version

\* When the process goes down without a rename of the file, its object becomes
\* what a restart will load.
LEMMA DownReloads ==
    ASSUME NEW f \in LockedFiles, process' = "down",
           disk'[f] = disk[f], returned'[f] = returned[f]
    PROVE  Reloads(f)
  BY DEF Reloads, Stays, Current, Version

\* Every step of the store is a step of each locked file or none.
LEMMA FileStep ==
    ASSUME IInv, [Next]_vars, NEW f \in LockedFiles
    PROVE  Changes(f) \/ Saves(f) \/ Reloads(f) \/ Stutters(f)
  <1>1. TypeOK /\ f \in Files
    BY DEF IInv, LockedFiles, Files
  <1>2. CASE UNCHANGED vars
    BY <1>2, Untouched DEF vars
  <1>3. CASE UpdateIps
    BY <1>1, <1>3, Untouched DEF UpdateIps, TypeOK, LockedFiles
  <1>4. CASE Crash
    BY <1>4, DownReloads DEF Crash, GoDown
  <1>5. CASE Restart
    <2>1. process = "down" /\ process' = "up" /\ returned' = returned
      BY <1>5 DEF Restart
    <2>2. Loaded(f) = Version(disk[f]) /\ Loaded("store") \in Nat
      BY <1>1 DEF Loaded, Version, TypeOK
    <2>3. mem'[f] = Version(disk[f]) /\ Version(disk'[f]) = Version(disk[f])
      BY <1>1, <1>5, <2>2 DEF Restart, Version, Loaded, TypeOK, Files
    <2> QED
      BY <2>1, <2>3 DEF Stutters, Stays, Current, Version
  <1>6. ASSUME NEW t \in Tasks, Persist(t) PROVE Changes(f) \/ Stutters(f)
    <2>1. /\ process' = process /\ process # "down"
          /\ disk' = disk /\ returned' = returned
          /\ mem' = [mem EXCEPT ![FileOf(t)] = @ + 1]
      BY <1>6 DEF Persist, Running
    <2>2. CASE FileOf(t) = f
      BY <1>1, <2>1, <2>2 DEF Changes, Stays, Current, Version, TypeOK
    <2>3. CASE FileOf(t) # f
      BY <1>1, <2>1, <2>3, Untouched DEF TypeOK
    <2> QED
      BY <2>2, <2>3
  <1>7. ASSUME NEW t \in Tasks, RemoveIps(t) PROVE Stutters(f)
    BY <1>1, <1>7, Untouched DEF RemoveIps, TypeOK, LockedFiles
  <1>8. ASSUME NEW t \in Tasks, TimerFires(t) \/ Enter(t) \/ OpenTmp(t)
        PROVE  Stutters(f)
    BY <1>8, Untouched DEF TimerFires, Enter, OpenTmp
  <1>9. ASSUME NEW t \in Tasks, Sigterm(t) PROVE Reloads(f) \/ Stutters(f)
    <2>1. mem' = mem /\ disk' = disk /\ returned' = returned
      BY <1>9 DEF Sigterm
    <2>2. CASE dirty
      BY <1>9, <2>1, <2>2 DEF Sigterm, Stutters, Stays, Current, Version
    <2>3. CASE ~dirty
      BY <1>9, <2>1, <2>3, DownReloads DEF Sigterm, GoDown
    <2> QED
      BY <2>2, <2>3
  <1>10. ASSUME NEW t \in Tasks, WriteTmp(t) PROVE Stutters(f)
    <2>1. mem' = mem /\ process' = process /\ returned' = returned /\ pc[t] = "write"
      BY <1>10 DEF WriteTmp
    <2>2. CASE FileOf(t) = f
      BY <1>10, <2>1, <2>2, Untouched DEF WriteTmp, IInv, TmpIsMine, Locked
    <2>3. CASE FileOf(t) # f
      <3>1. disk'[f] = disk[f]
        BY <1>1, <1>10, <2>3 DEF WriteTmp, TypeOK
      <3> QED
        BY <2>1, <3>1, Untouched
    <2> QED
      BY <2>2, <2>3
  <1>11. ASSUME NEW t \in Tasks, Rename(t)
         PROVE  Saves(f) \/ Reloads(f) \/ Stutters(f)
    <2>1. mem' = mem /\ process # "down"
      BY <1>11 DEF Rename, Running
    <2>2. /\ \A g \in Files \ {FileOf(t)} : disk'[g] = disk[g] /\ returned'[g] = returned[g]
          /\ Locked(t) => /\ disk'[FileOf(t)] = data[t]
                          /\ returned'[FileOf(t)] <= data[t]
                          /\ returned[FileOf(t)] <= returned'[FileOf(t)]
                          /\ Version(disk[FileOf(t)]) <= data[t]
                          /\ data[t] <= mem[FileOf(t)]
          /\ returned' \in [Files -> Nat]
      BY <1>11, RenamedFiles DEF Rename
    <2>3. CASE FileOf(t) = f
      <3>1. Locked(t) /\ Kind[t] # "exitFlush"
        BY <2>3, LockedKinds DEF Locked
      <3>2. process' = process
        BY <1>11, <3>1 DEF Rename
      <3>3. data[t] \in Nat
        BY <1>1 DEF TypeOK
      <3>4. Version(disk'[f]) = data[t]
        BY <2>2, <2>3, <3>1, <3>3 DEF Version
      <3>5. Version(disk[f])' = Version(disk'[f])
        BY DEF Version
      <3>6. Current(f)' = mem[f] /\ Current(f) = mem[f]
        BY <2>1, <3>2 DEF Current
      <3> QED
        BY <1>1, <2>2, <2>3, <3>1, <3>3, <3>4, <3>5, <3>6 DEF Saves
    <2>4. CASE FileOf(t) # f
      <3>1. disk'[f] = disk[f] /\ returned'[f] = returned[f]
        BY <1>1, <2>2, <2>4
      <3>2. CASE Kind[t] = "exitFlush"
        BY <1>11, <3>1, <3>2, DownReloads DEF Rename, GoDown
      <3>3. CASE Kind[t] # "exitFlush"
        BY <1>11, <2>1, <3>1, <3>3, Untouched DEF Rename
      <3> QED
        BY <3>2, <3>3
    <2> QED
      BY <2>3, <2>4
  <1>12. ASSUME NEW t \in Tasks, IoFails(t) PROVE Reloads(f) \/ Stutters(f)
    <2>1. mem' = mem /\ disk' = disk /\ returned' = returned
      BY <1>12 DEF IoFails
    <2>2. CASE Kind[t] = "exitFlush"
      BY <1>12, <2>1, <2>2, DownReloads DEF IoFails, GoDown
    <2>3. CASE Kind[t] # "exitFlush"
      BY <1>12, <2>1, <2>3, Untouched DEF IoFails
    <2> QED
      BY <2>2, <2>3
  <1> QED
    BY <1>2, <1>3, <1>4, <1>5, <1>6, <1>7, <1>8, <1>9, <1>10, <1>11, <1>12 DEF Next

\* At a first start every version is the first one.
LEMMA FileInit ==
    ASSUME Init, NEW f \in LockedFiles
    PROVE  Current(f) = 0 /\ Version(disk[f]) = 0 /\ returned[f] = 0
  BY ContentAssumption DEF Init, Current, Version, LockedFiles, Files

\* For any number of concurrent calls, errors and crashes, store.json implements
\* the durable file that the header of store/index.ts promises.
THEOREM StoreImplementsDurableFile == Spec => StoreIsDurable
  <1>1. Init => StoreFile!Init
    BY FileInit DEF StoreFile!Init, LockedFiles
  <1>2. IInv /\ [Next]_vars => [StoreFile!Next]_StoreFile!fileVars
    <2> SUFFICES ASSUME IInv, [Next]_vars
                 PROVE  [StoreFile!Next]_StoreFile!fileVars
      OBVIOUS
    <2>1. Changes("store") \/ Saves("store") \/ Reloads("store") \/ Stutters("store")
      BY FileStep DEF LockedFiles
    <2> QED
      BY <2>1 DEF Changes, Saves, Reloads, Stutters, Stays, StoreFile!Next,
                  StoreFile!Change, StoreFile!Save, StoreFile!Reload, StoreFile!fileVars
  <1> QED
    BY <1>1, <1>2, Inductive, PTL DEF Spec, StoreIsDurable, StoreFile!Spec

\* So does stats-history.json.
THEOREM StatsImplementDurableFile == Spec => StatsAreDurable
  <1>1. Init => StatsFile!Init
    BY FileInit DEF StatsFile!Init, LockedFiles
  <1>2. IInv /\ [Next]_vars => [StatsFile!Next]_StatsFile!fileVars
    <2> SUFFICES ASSUME IInv, [Next]_vars
                 PROVE  [StatsFile!Next]_StatsFile!fileVars
      OBVIOUS
    <2>1. Changes("stats") \/ Saves("stats") \/ Reloads("stats") \/ Stutters("stats")
      BY FileStep DEF LockedFiles
    <2> QED
      BY <2>1 DEF Changes, Saves, Reloads, Stutters, Stays, StatsFile!Next,
                  StatsFile!Change, StatsFile!Save, StatsFile!Reload, StatsFile!fileVars
  <1> QED
    BY <1>1, <1>2, Inductive, PTL DEF Spec, StatsAreDurable, StatsFile!Spec
-----------------------------------------------------------------------------
(* AsyncMutex: the promise chain.                                          *)

PlacesBounded == \A c \in Calls : at[c] <= Cardinality(Acquired)

PlacesDistinct == \A c, d \in Acquired : at[c] = at[d] => c = d

ReleasedWasHanded == fulfilled \subseteq handed

HandedWasFulfilled == \A c \in handed : c \in Acquired /\ WaitFulfilled(c)

ChainInv == /\ MutexTypeOK
            /\ PlacesBounded
            /\ PlacesDistinct
            /\ ReleasedWasHanded
            /\ HandedWasFulfilled
            /\ NobodyEnters

-----------------------------------------------------------------------------
\* The chain grows by exactly the call that asks: the number of promises in it
\* is a natural number and goes up by one.
LEMMA ChainGrows ==
    ASSUME MutexTypeOK, NEW c \in Calls, Acquire(c)
    PROVE  /\ Cardinality(Acquired) \in Nat
           /\ Acquired' = Acquired \cup {c}
           /\ Cardinality(Acquired') = Cardinality(Acquired) + 1
  <1>1. IsFiniteSet(Acquired)
    BY CallsAssumption, FS_Subset DEF Acquired
  <1>2. Cardinality(Acquired) \in Nat
    BY <1>1, FS_CardinalityType
  <1>3. Acquired' = Acquired \cup {c}
    BY <1>2 DEF Acquire, Acquired, MutexTypeOK
  <1>4. c \notin Acquired
    BY DEF Acquire, Acquired
  <1> QED
    BY <1>1, <1>2, <1>3, <1>4, FS_AddElement

LEMMA ChainInitInductive == MutexInit => ChainInv
  <1> SUFFICES ASSUME MutexInit PROVE ChainInv
    OBVIOUS
  <1>1. Acquired = {}
    BY DEF MutexInit, Acquired
  <1>2. Cardinality(Acquired) = 0
    BY <1>1, FS_EmptySet
  <1> QED
    BY <1>1, <1>2 DEF MutexInit, ChainInv, MutexTypeOK, PlacesBounded, PlacesDistinct,
                      ReleasedWasHanded, HandedWasFulfilled, NobodyEnters

LEMMA AcquireInductive ==
    ASSUME ChainInv, NEW c \in Calls, Acquire(c)
    PROVE  ChainInv'
  <1> DEFINE n == Cardinality(Acquired)
  <1>1. MutexTypeOK /\ at[c] = 0
    BY DEF ChainInv, Acquire
  <1>2. /\ n \in Nat
        /\ Acquired' = Acquired \cup {c}
        /\ Cardinality(Acquired') = n + 1
    BY <1>1, ChainGrows
  <1>3. \A d \in Calls : at'[d] = IF d = c THEN n + 1 ELSE at[d]
    BY <1>1 DEF Acquire, MutexTypeOK
  <1> HIDE DEF n
  <1>4. MutexTypeOK'
    BY <1>1, <1>2 DEF Acquire, MutexTypeOK, n
  <1>5. PlacesBounded'
    BY <1>1, <1>2, <1>3 DEF ChainInv, PlacesBounded, MutexTypeOK, n
  <1>6. \A d \in Acquired : at[d] < n + 1
    BY <1>1, <1>2 DEF ChainInv, PlacesBounded, Acquired, MutexTypeOK, n
  <1>7. c \notin Acquired
    BY <1>1 DEF Acquired
  <1>8. PlacesDistinct'
    BY <1>1, <1>2, <1>3, <1>6, <1>7 DEF ChainInv, PlacesDistinct, MutexTypeOK, Acquired
  <1>9. ReleasedWasHanded'
    BY DEF ChainInv, ReleasedWasHanded, Acquire
  <1>10. HandedWasFulfilled'
    <2> SUFFICES ASSUME NEW d \in handed'
                 PROVE  d \in Acquired' /\ WaitFulfilled(d)'
      BY DEF HandedWasFulfilled
    <2>1. d \in Acquired /\ WaitFulfilled(d)
      BY DEF ChainInv, HandedWasFulfilled, Acquire
    <2>2. \A e \in Acquired' : at'[e] < at'[d] => e \in fulfilled'
      BY <1>1, <1>2, <1>3, <1>6, <1>7, <2>1
         DEF WaitFulfilled, ChainFulfilled, Acquired, Acquire, MutexTypeOK
    <2> QED
      BY <1>2, <2>1, <2>2 DEF WaitFulfilled, ChainFulfilled, Acquire
  <1>11. NobodyEnters'
    BY DEF ChainInv, NobodyEnters, Acquire
  <1> QED
    BY <1>4, <1>5, <1>8, <1>9, <1>10, <1>11 DEF ChainInv

LEMMA HandOverInductive ==
    ASSUME ChainInv, NEW c \in Calls, HandOver(c)
    PROVE  ChainInv'
  <1>1. at' = at /\ fulfilled' = fulfilled /\ Acquired' = Acquired
    BY DEF HandOver, Acquired
  <1>2. \A d : WaitFulfilled(d)' <=> WaitFulfilled(d)
    BY <1>1 DEF WaitFulfilled, ChainFulfilled
  <1>3. HandedWasFulfilled'
    BY <1>1, <1>2 DEF ChainInv, HandedWasFulfilled, HandOver
  <1>4. NobodyEnters'
    <2> SUFFICES ASSUME WaitAdoptsNext PROVE FALSE
      BY DEF NobodyEnters
    <2>1. c \in fulfilled
      BY DEF HandOver, WaitFulfilled
    <2> QED
      BY <2>1 DEF ChainInv, ReleasedWasHanded, NobodyEnters
  <1> QED
    BY <1>1, <1>3, <1>4 DEF ChainInv, MutexTypeOK, PlacesBounded, PlacesDistinct,
                            ReleasedWasHanded, HandOver

LEMMA ReleaseInductive ==
    ASSUME ChainInv, NEW c \in Calls, Release(c)
    PROVE  ChainInv'
  <1>1. at' = at /\ handed' = handed /\ Acquired' = Acquired
    BY DEF Release, Acquired
  <1>2. \A d : WaitFulfilled(d) => WaitFulfilled(d)'
    BY <1>1 DEF WaitFulfilled, ChainFulfilled, Release
  <1>3. HandedWasFulfilled'
    BY <1>1, <1>2 DEF ChainInv, HandedWasFulfilled
  <1> QED
    BY <1>1, <1>3 DEF ChainInv, MutexTypeOK, PlacesBounded, PlacesDistinct,
                      ReleasedWasHanded, NobodyEnters, Release

LEMMA ChainNextInductive == ChainInv /\ [MutexNext]_mutexVars => ChainInv'
  <1> SUFFICES ASSUME ChainInv, [MutexNext]_mutexVars PROVE ChainInv'
    OBVIOUS
  <1>1. ASSUME NEW c \in Calls, Acquire(c) PROVE ChainInv'
    BY <1>1, AcquireInductive
  <1>2. ASSUME NEW c \in Calls, HandOver(c) PROVE ChainInv'
    BY <1>2, HandOverInductive
  <1>3. ASSUME NEW c \in Calls, Release(c) PROVE ChainInv'
    BY <1>3, ReleaseInductive
  <1>4. CASE UNCHANGED mutexVars
    BY <1>4 DEF mutexVars, ChainInv, MutexTypeOK, PlacesBounded, PlacesDistinct, Acquired,
                ReleasedWasHanded, HandedWasFulfilled, WaitFulfilled, ChainFulfilled,
                NobodyEnters
  <1> QED
    BY <1>1, <1>2, <1>3, <1>4 DEF MutexNext

LEMMA ChainInductive == MutexSpec => []ChainInv
  <1> QED
    BY ChainInitInductive, ChainNextInductive, PTL DEF MutexSpec

-----------------------------------------------------------------------------
\* The state of the promise chain always has the shape MutexTypeOK says
\* (store/index.ts:54-63).
THEOREM MutexTypeCorrect == MutexSpec => []MutexTypeOK
  <1>1. ChainInv => MutexTypeOK
    BY DEF ChainInv
  <1> QED
    BY <1>1, ChainInductive, PTL

\* For any number of callers, with line 59 as it is written, nobody is ever
\* handed the lock: the callers of persistStore, persistStatsHistory and
\* flushIpHistory stay at their await for good.
THEOREM NobodyIsAdmitted == MutexSpec => []NobodyEnters
  <1>1. ChainInv => NobodyEnters
    BY DEF ChainInv
  <1> QED
    BY <1>1, ChainInductive, PTL

\* For any number of callers and both forms of line 59, two callers never are
\* between acquire() and release() at once: of two calls that hold the lock the
\* later one would have been handed it before the earlier one released.
THEOREM AtMostOneHolder == MutexSpec => []MutualExclusion
  <1>1. ChainInv => MutualExclusion
    <2> SUFFICES ASSUME ChainInv, NEW c \in Holders, NEW d \in Holders, c # d
                 PROVE  FALSE
      BY DEF MutualExclusion
    <2>1. c \in handed \ fulfilled /\ d \in handed \ fulfilled
      BY DEF Holders
    <2>2. /\ c \in Acquired /\ ChainFulfilled(c)
          /\ d \in Acquired /\ ChainFulfilled(d)
      BY <2>1 DEF ChainInv, HandedWasFulfilled, WaitFulfilled
    <2>3. at[c] # at[d] /\ at[c] \in Nat /\ at[d] \in Nat
      BY <2>2 DEF ChainInv, PlacesDistinct, MutexTypeOK, Acquired
    <2>4. at[c] < at[d] \/ at[d] < at[c]
      BY <2>3
    <2> QED
      BY <2>1, <2>2, <2>4 DEF ChainFulfilled
  <1> QED
    BY <1>1, ChainInductive, PTL

\* The promise chain implements the first-come-first-served lock that the
\* store's writers are verified against: with line 59 as written the one that
\* admits nobody, with the plain chain the one that admits in order.
THEOREM ChainIsLock == MutexSpec => ImplementsLock
  <1>1. MutexInit => ChainLock!Init
    BY DEF MutexInit, ChainLock!Init, Holders
  <1>2. ChainInv /\ [MutexNext]_mutexVars => [ChainLock!Next]_ChainLock!lockVars
    <2> SUFFICES ASSUME ChainInv, [MutexNext]_mutexVars
                 PROVE  [ChainLock!Next]_ChainLock!lockVars
      OBVIOUS
    <2>1. ASSUME NEW c \in Calls, Acquire(c) PROVE ChainLock!Ask(c)
      BY <2>1 DEF Acquire, Acquired, Holders, ChainLock!Ask, ChainLock!Asked,
                    Cardinality, ChainLock!Cardinality
    <2>2. ASSUME NEW c \in Calls, HandOver(c) PROVE ChainLock!Enter(c)
      <3>1. ~WaitAdoptsNext
        BY <2>2 DEF ChainInv, NobodyEnters, ReleasedWasHanded, HandOver, WaitFulfilled
      <3>2. c \in Acquired \ handed /\ ChainFulfilled(c)
        BY <2>2 DEF HandOver, WaitFulfilled
      <3>3. c \notin fulfilled
        BY <3>2 DEF ChainInv, ReleasedWasHanded
      <3>4. Holders = {}
        <4> SUFFICES ASSUME NEW d \in Holders PROVE FALSE
          OBVIOUS
        <4>1. d \in handed \ fulfilled /\ d # c
          BY <3>2 DEF Holders
        <4>2. d \in Acquired /\ ChainFulfilled(d)
          BY <4>1 DEF ChainInv, HandedWasFulfilled, WaitFulfilled
        <4>3. at[c] # at[d] /\ at[c] \in Nat /\ at[d] \in Nat
          BY <3>2, <4>1, <4>2 DEF ChainInv, PlacesDistinct, MutexTypeOK, Acquired
        <4>4. at[c] < at[d] \/ at[d] < at[c]
          BY <4>3
        <4> QED
          BY <3>2, <3>3, <4>1, <4>2, <4>4 DEF ChainFulfilled
      <3>5. \A d \in Calls : ChainLock!Waiting(d) => at[c] <= at[d]
        <4> SUFFICES ASSUME NEW d \in Calls, ChainLock!Waiting(d), ~(at[c] <= at[d])
                     PROVE  FALSE
          OBVIOUS
        <4>1. d \in Acquired /\ d \notin fulfilled
          BY DEF ChainLock!Waiting, Acquired
        <4>2. at[d] < at[c]
          BY <3>2 DEF ChainInv, MutexTypeOK, Acquired
        <4> QED
          BY <3>2, <4>1, <4>2 DEF ChainFulfilled
      <3>6. ChainLock!Waiting(c)
        BY <3>2, <3>3 DEF ChainLock!Waiting, Acquired, Holders
      <3>7. Holders' = {c} /\ at' = at /\ fulfilled' = fulfilled
        BY <2>2, <3>3, <3>4 DEF HandOver, Holders
      <3> QED
        BY <3>1, <3>4, <3>5, <3>6, <3>7 DEF ChainLock!Enter
    <2>3. ASSUME NEW c \in Calls, Release(c) PROVE ChainLock!Leave(c)
      BY <2>3 DEF Release, Holders, ChainLock!Leave
    <2>4. CASE UNCHANGED mutexVars
      BY <2>4 DEF mutexVars, ChainLock!lockVars, Holders
    <2> QED
      BY <2>1, <2>2, <2>3, <2>4 DEF MutexNext, ChainLock!Next
  <1> QED
    BY <1>1, <1>2, ChainInductive, PTL DEF MutexSpec, ImplementsLock, ChainLock!Spec
=============================================================================
