----------------------------- MODULE JsonStore -----------------------------
(***************************************************************************)
(* The three JSON files of a service node and everything that writes them: *)
(* service-node/src/store/index.ts with the SIGTERM handler of index.ts.   *)
(*                                                                         *)
(* A file's content is abstracted to the version of the cached object it   *)
(* holds.  Every mutation of a cache makes a new version.  writeFile to    *)
(* `<file>.tmp` is three steps of the operating system, between which any  *)
(* other call may run: open with truncation, write, rename.  A file        *)
(* descriptor follows its file through a rename, so two writers that share *)
(* the .tmp name can tear each other's data.                               *)
(*                                                                         *)
(* A task is one call, of one of the kinds                                 *)
(*   "persistStore"  a change of the store cache and persistStore          *)
(*   "persistStats"  a change of the history and persistStatsHistory       *)
(*   "timerFlush"    one firing of the ip-history flush timer              *)
(*   "exitFlush"     the SIGTERM handler with its flushIpHistory           *)
(*   "removeIps"     removeIpHistory, which takes no lock                  *)
(*                                                                         *)
(* The lock is FifoLock.  LockGrants = FALSE is AsyncMutex as the source   *)
(* has it (StoreProofs); with TRUE the modules above the mutex are         *)
(* verified against a mutex that keeps its promise.                        *)
(***************************************************************************)
EXTENDS Naturals, FiniteSets

CONSTANTS Tasks,        \* the calls of one run
          Kind,         \* the kind of each call
          LockGrants,   \* does storeMutex ever admit a call?
          MaxIpUpdates, \* bound: updates of the ip-history cache
          MaxStops,     \* bound: crashes and exits of the process
          Missing,      \* what a file name can hold besides a whole version:
          Partial,      \*   no file, a file still being written,
          Mixed         \*   or the bytes of two writers

Kinds == {"persistStore", "persistStats", "timerFlush", "exitFlush", "removeIps"}

ASSUME TasksAssumption == IsFiniteSet(Tasks)
ASSUME KindAssumption == Kind \in [Tasks -> Kinds]
ASSUME LockGrantsAssumption == LockGrants \in BOOLEAN
ASSUME BoundsAssumption == MaxIpUpdates \in Nat /\ MaxStops \in Nat
ASSUME ContentAssumption == /\ \A c \in {Missing, Partial, Mixed} : c \notin Nat
                            /\ Missing # Partial /\ Missing # Mixed /\ Partial # Mixed

Files == {"store", "stats", "ips"}
LockedFiles == {"store", "stats"}

FileOf(t) == CASE Kind[t] = "persistStore" -> "store"
               [] Kind[t] = "persistStats" -> "stats"
               [] OTHER -> "ips"

Torn == {Partial, Mixed}
Content == Nat \cup {Missing} \cup Torn

VARIABLES
    mem,       \* version of each cache in memory
    disk,      \* content behind each file name
    tmp,       \* content behind each `<file>.tmp`
    pc,        \* where each call stands
    made,      \* the version a call's own change made
    data,      \* the version a call has serialised
    fd,        \* the name its open file has now
    ticket, inside, left,    \* storeMutex
    dirty, timer,            \* ipHistoryDirty, ipHistoryFlushTimer # null
    process,   \* "up", "stopping" (SIGTERM seen) or "down"
    stops,     \* how often the process went down
    returned   \* per file, the greatest version whose call returned

lock == <<ticket, inside, left>>
vars == <<mem, disk, tmp, pc, made, data, fd, ticket, inside, left,
          dirty, timer, process, stops, returned>>

Lock == INSTANCE FifoLock WITH Calls <- Tasks, Grants <- LockGrants

Writing == {"open", "write", "rename"}
InFlight == {"queued"} \cup Writing
PCs == {"idle", "done", "failed", "dead"} \cup InFlight

TypeOK == /\ mem \in [Files -> Nat]
          /\ disk \in [Files -> Content]
          /\ tmp \in [Files -> Content]
          /\ pc \in [Tasks -> PCs]
          /\ made \in [Tasks -> Nat]
          /\ data \in [Tasks -> Nat]
          /\ fd \in [Tasks -> {"closed", "tmp", "disk", "unlinked"}]
          /\ ticket \in [Tasks -> Nat]
          /\ inside \subseteq Tasks
          /\ left \subseteq Tasks
          /\ dirty \in BOOLEAN
          /\ timer \in BOOLEAN
          /\ process \in {"up", "stopping", "down"}
          /\ stops \in Nat
          /\ returned \in [Files -> Nat]

\* warmupCaches of a first start: loadStore writes the empty store.
Init == /\ mem = [f \in Files |-> 0]
        /\ disk = [f \in Files |-> IF f = "store" THEN 0 ELSE Missing]
        /\ tmp = [f \in Files |-> Missing]
        /\ pc = [t \in Tasks |-> "idle"]
        /\ made = [t \in Tasks |-> 0]
        /\ data = [t \in Tasks |-> 0]
        /\ fd = [t \in Tasks |-> "closed"]
        /\ Lock!Init
        /\ dirty = FALSE
        /\ timer = FALSE
        /\ process = "up"
        /\ stops = 0
        /\ returned = [f \in Files |-> 0]

Running == process # "down"
-----------------------------------------------------------------------------
(* The calls.                                                              *)

\* addProxy, updateProxy, removeProxy, setCustomDomains, setBlacklistedIps,
\* addStatsSnapshot, removeStatsHistory: change the cache, then ask for the
\* mutex, in one turn of the event loop.
Persist(t) ==
    /\ Running
    /\ Kind[t] \in {"persistStore", "persistStats"}
    /\ pc[t] = "idle"
    /\ mem' = [mem EXCEPT ![FileOf(t)] = @ + 1]
    /\ made' = [made EXCEPT ![t] = mem[FileOf(t)] + 1]
    /\ pc' = [pc EXCEPT ![t] = "queued"]
    /\ Lock!Ask(t)
    /\ UNCHANGED <<disk, tmp, data, fd, dirty, timer, process, stops, returned>>

\* updateIpHistorySync: one synchronous change; the timer is armed once.
UpdateIps ==
    /\ Running
    /\ mem["ips"] < MaxIpUpdates
    /\ mem' = [mem EXCEPT !["ips"] = @ + 1]
    /\ dirty' = TRUE
    /\ timer' = TRUE
    /\ UNCHANGED <<disk, tmp, pc, made, data, fd, lock, process, stops, returned>>

\* The flush timer fires: nothing to do unless the cache is dirty.
TimerFires(t) ==
    /\ Running
    /\ timer
    /\ Kind[t] = "timerFlush"
    /\ pc[t] = "idle"
    /\ timer' = FALSE
    /\ IF dirty
       THEN /\ pc' = [pc EXCEPT ![t] = "queued"]
            /\ Lock!Ask(t)
       ELSE UNCHANGED <<pc, lock>>
    /\ UNCHANGED <<mem, disk, tmp, made, data, fd, dirty, process, stops, returned>>

\* removeIpHistory: delete the entry and write at once, beside the mutex.
RemoveIps(t) ==
    /\ Running
    /\ Kind[t] = "removeIps"
    /\ pc[t] = "idle"
    /\ mem' = [mem EXCEPT !["ips"] = @ + 1]
    /\ made' = [made EXCEPT ![t] = mem["ips"] + 1]
    /\ data' = [data EXCEPT ![t] = mem["ips"] + 1]
    /\ pc' = [pc EXCEPT ![t] = "open"]
    /\ UNCHANGED <<disk, tmp, fd, lock, dirty, timer, process, stops, returned>>

\* What is lost with the process: the caches, the mutex, the open files, every
\* call in flight and the calls that ended it.
GoDown(ended) ==
    /\ process' = "down"
    /\ stops' = stops + 1
    /\ pc' = [t \in Tasks |-> IF t \in ended \/ pc[t] \in InFlight
                              THEN "dead" ELSE pc[t]]
    /\ fd' = [t \in Tasks |-> "closed"]
    /\ ticket' = [t \in Tasks |-> 0]
    /\ inside' = {}
    /\ left' = {}

\* SIGTERM: flushIpHistory returns at once unless the cache is dirty, and then
\* process.exit(0) follows.
Sigterm(t) ==
    /\ process = "up"
    /\ stops < MaxStops
    /\ Kind[t] = "exitFlush"
    /\ pc[t] = "idle"
    /\ IF dirty
       THEN /\ process' = "stopping"
            /\ pc' = [pc EXCEPT ![t] = "queued"]
            /\ Lock!Ask(t)
            /\ UNCHANGED <<fd, stops>>
       ELSE GoDown({t})
    /\ UNCHANGED <<mem, disk, tmp, made, data, dirty, timer, returned>>
-----------------------------------------------------------------------------
(* The write of the .tmp file and its rename.                              *)

\* The mutex is handed over and the cache is serialised as it is by then.
Enter(t) ==
    /\ Running
    /\ pc[t] = "queued"
    /\ Lock!Enter(t)
    /\ data' = [data EXCEPT ![t] = mem[FileOf(t)]]
    /\ pc' = [pc EXCEPT ![t] = "open"]
    /\ UNCHANGED <<mem, disk, tmp, made, fd, dirty, timer, process, stops, returned>>

\* A mutation: a write of the file itself.
OpenInPlace(t) ==
    /\ Running
    /\ pc[t] = "open"
    /\ disk' = [disk EXCEPT ![FileOf(t)] = Partial]
    /\ fd' = [fd EXCEPT ![t] = "disk"]
    /\ pc' = [pc EXCEPT ![t] = "write"]
    /\ UNCHANGED <<mem, tmp, made, data, lock, dirty, timer, process, stops, returned>>

\* open(tmpPath, O_CREAT | O_TRUNC)
OpenTmp(t) ==
    /\ Running
    /\ pc[t] = "open"
    /\ tmp' = [tmp EXCEPT ![FileOf(t)] = Partial]
    /\ fd' = [fd EXCEPT ![t] = "tmp"]
    /\ pc' = [pc EXCEPT ![t] = "write"]
    /\ UNCHANGED <<mem, disk, made, data, lock, dirty, timer, process, stops, returned>>

\* What a file holds once v is written from its start: v alone if the file was
\* still empty, otherwise v or, when the other writer's text is longer, a mix.
Written(old, v) == IF old = Partial THEN {v} ELSE {v, Mixed}

WriteTmp(t) ==
    /\ Running
    /\ pc[t] = "write"
    /\ \/ /\ fd[t] = "tmp"
          /\ \E c \in Written(tmp[FileOf(t)], data[t]) :
               tmp' = [tmp EXCEPT ![FileOf(t)] = c]
          /\ UNCHANGED disk
       \/ /\ fd[t] = "disk"
          /\ \E c \in Written(disk[FileOf(t)], data[t]) :
               disk' = [disk EXCEPT ![FileOf(t)] = c]
          /\ UNCHANGED tmp
       \/ /\ fd[t] = "unlinked"
          /\ UNCHANGED <<tmp, disk>>
    /\ fd' = [fd EXCEPT ![t] = "closed"]
    /\ pc' = [pc EXCEPT ![t] = "rename"]
    /\ UNCHANGED <<mem, made, data, lock, dirty, timer, process, stops, returned>>

\* A mutation: no `finally`.
UnlockNever(t) == UNCHANGED lock

\* The end of a call with the lock: `finally { release() }`, except in the
\* callback of the flush timer, which has no release.
Unlock(t) == IF Kind[t] \in {"timerFlush", "removeIps"}
             THEN UNCHANGED lock
             ELSE Lock!Leave(t)

\* rename(tmpPath, filePath), the rest of the call, and its return.  Open files
\* keep their inode under its new name; the file replaced loses its name.
Renamed(t) ==
    LET f == FileOf(t) IN
    /\ disk' = [disk EXCEPT ![f] = tmp[f]]
    /\ tmp' = [tmp EXCEPT ![f] = Missing]
    /\ dirty' = (dirty /\ Kind[t] \notin {"timerFlush", "exitFlush"})
    /\ returned' = [returned EXCEPT ![f] = IF made[t] > @ THEN made[t] ELSE @]

FollowRename(t) ==
    fd' = [u \in Tasks |->
             IF FileOf(u) = FileOf(t) /\ fd[u] = "tmp" THEN "disk"
             ELSE IF FileOf(u) = FileOf(t) /\ fd[u] = "disk" THEN "unlinked"
             ELSE fd[u]]

Rename(t) ==
    /\ Running
    /\ pc[t] = "rename"
    /\ tmp[FileOf(t)] # Missing
    /\ Renamed(t)
    /\ IF Kind[t] = "exitFlush"
       THEN GoDown({t})
       ELSE /\ FollowRename(t)
            /\ pc' = [pc EXCEPT ![t] = "done"]
            /\ Unlock(t)
            /\ UNCHANGED <<process, stops>>
    /\ UNCHANGED <<mem, made, data, timer>>

\* A mutation: a persist that swallows the error.
IoFailsSilently(t) ==
    /\ Running
    /\ pc[t] \in {"open", "write"}
    /\ Kind[t] # "exitFlush"
    /\ pc' = [pc EXCEPT ![t] = "done"]
    /\ fd' = [fd EXCEPT ![t] = "closed"]
    /\ Unlock(t)
    /\ returned' = [returned EXCEPT ![FileOf(t)] = made[t]]
    /\ UNCHANGED <<mem, disk, tmp, made, data, dirty, timer, process, stops>>

\* open, write or rename throws (no space, no .tmp to rename).  The caller of a
\* persist gets the error and the change stays in memory.  An error in the
\* SIGTERM handler is an unhandled rejection, which ends the process.
IoFails(t) ==
    /\ Running
    /\ \/ pc[t] \in {"open", "write"}
       \/ pc[t] = "rename" /\ tmp[FileOf(t)] = Missing
    /\ IF Kind[t] = "exitFlush"
       THEN GoDown({t})
       ELSE /\ pc' = [pc EXCEPT ![t] = "failed"]
            /\ fd' = [fd EXCEPT ![t] = "closed"]
            /\ Unlock(t)
            /\ UNCHANGED <<process, stops>>
    /\ UNCHANGED <<mem, disk, tmp, made, data, dirty, timer, returned>>
-----------------------------------------------------------------------------
(* The process goes down and comes back.                                   *)

Crash ==
    /\ Running
    /\ stops < MaxStops
    /\ GoDown({})
    /\ UNCHANGED <<mem, disk, tmp, made, data, dirty, timer, returned>>

\* Mutations: a file that is not parsed, and a history that is not loaded.
LoadedBlindly(f) == disk[f]
LoadedStoreOnly(f) == IF f = "store" THEN disk[f] ELSE 0

\* loadStore, loadStatsHistory and loadIpHistory read an absent or unreadable
\* file as the empty object.
Loaded(f) == IF disk[f] \in Nat THEN disk[f] ELSE 0

\* warmupCaches: loadStore also writes an empty store over a file it could not
\* read, before the server listens.
Restart ==
    /\ process = "down"
    /\ process' = "up"
    /\ mem' = [f \in Files |-> Loaded(f)]
    /\ disk' = [disk EXCEPT !["store"] = Loaded("store")]
    /\ dirty' = FALSE
    /\ timer' = FALSE
    /\ UNCHANGED <<tmp, pc, made, data, fd, lock, stops, returned>>

Next == \/ UpdateIps \/ Crash \/ Restart
        \/ \E t \in Tasks :
             \/ Persist(t) \/ TimerFires(t) \/ RemoveIps(t) \/ Sigterm(t)
             \/ Enter(t) \/ OpenTmp(t) \/ WriteTmp(t) \/ Rename(t) \/ IoFails(t)

Spec == Init /\ [][Next]_vars

\* The event loop keeps running timers and promise jobs, and the operating
\* system answers every request for a file; calls, signals, crashes and errors
\* need not happen.
Progress(t) == \/ TimerFires(t) \/ Enter(t) \/ OpenTmp(t) \/ WriteTmp(t) \/ Rename(t)
               \/ pc[t] = "rename" /\ IoFails(t)

FairSpec == /\ Spec
            /\ \A t \in Tasks : WF_vars(Progress(t))
-----------------------------------------------------------------------------
(* What the store promises.                                                *)

Version(c) == IF c \in Nat THEN c ELSE 0

\* store.json and stats-history.json always hold a whole version of the cache,
\* at any moment a crash may come: "atomic write through .tmp + rename".
NeverTorn == \A f \in LockedFiles : disk[f] \notin Torn

\* A change whose call returned is in the file, and stays there through
\* crashes, later failed writes and concurrent writers.
ReturnedIsDurable == \A f \in LockedFiles : returned[f] <= Version(disk[f])

\* Each of the two files behaves as a DurableFile, its object in memory being
\* what a restart would load while the process is down.
Current(f) == IF process = "down" THEN Version(disk[f]) ELSE mem[f]

StoreFile == INSTANCE DurableFile WITH current <- Current("store"),
                                       stored <- Version(disk["store"]),
                                       returned <- returned["store"]
StatsFile == INSTANCE DurableFile WITH current <- Current("stats"),
                                       stored <- Version(disk["stats"]),
                                       returned <- returned["stats"]
StoreIsDurable == StoreFile!Spec
StatsAreDurable == StatsFile!Spec

\* The timer's flush keeps the mutex when it has ended.
Leaked == \E t \in inside : Kind[t] = "timerFlush" /\ pc[t] \in {"done", "failed"}

Ended(t) == pc[t] \in {"done", "failed", "dead"}

\* A queued write ends, unless a flush of the timer was admitted before it and
\* kept the mutex.
QueuedEndsUnlessLeaked ==
    \A t \in Tasks : (pc[t] = "queued") ~> (Ended(t) \/ Leaked)
=============================================================================
