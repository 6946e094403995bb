--------------------------- MODULE DataHookProofs ---------------------------
(***************************************************************************)
(* Proofs about DataHook, for any keys, fetches and versions.              *)
(*                                                                         *)
(* One fetch under way is not aborted at most, and the hook loads exactly   *)
(* while there is one (OneLive).  What it brings is at least what the page  *)
(* has of its key, and what the page wrote, because the data do not change *)
(* and no write of the page ends without another fetch while it is out.    *)
(***************************************************************************)
EXTENDS DataHook, TLAPS

Hooks == [on: BOOLEAN, list: BOOLEAN, stable: BOOLEAN, key: Keys,
          data: Data \cup {NoData}, loading: BOOLEAN, error: BOOLEAN]
Flights == [at: {"idle", "sent", "data", "error"}, key: Keys \cup {None}, version: Versions]
Writes == [at: {"idle", "panel", "node", "done", "refused"}, op: ListOps \cup DetailOps \cup {None},
           key: Keys \cup {None}, version: Versions]

OneLive ==
    /\ aborted \subseteq InFlight
    /\ \A f \in InFlight \ aborted : f = live
    /\ live # None => live \in InFlight \ aborted
    /\ hook.loading <=> live # None

HookFits ==
    /\ ~hook.on => live = None /\ write = NoWrite
    /\ dirty => hook.on
    /\ hook.data # NoData => hook.data.version <= version[hook.data.key]

FlightsFit ==
    \A f \in Fetches :
        /\ fetch[f].at \in {"sent", "data"} => fetch[f].key \in Keys
        /\ fetch[f].at = "data" => fetch[f].version <= version[fetch[f].key]

\* What the fetch that counts will bring.
LiveBrings ==
    live # None =>
        /\ crossed \/ fetch[live].at = "error" \/ fetch[live].key = hook.key
        /\ fetch[live].at = "data" =>
             /\ wrote[fetch[live].key] <= fetch[live].version
             /\ hook.data.key = fetch[live].key => hook.data.version <= fetch[live].version

WriteFits ==
    /\ \A k \in Keys : wrote[k] <= version[k]
    /\ write.at # "idle" => write.key \in Keys /\ (crossed \/ write.key = hook.key)
    /\ write.at = "done" => write.version <= version[write.key]

IInv == /\ TypeOK
        /\ OneLive
        /\ HookFits
        /\ FlightsFit
        /\ LiveBrings
        /\ WriteFits
        /\ RestingPageIsCurrent
-----------------------------------------------------------------------------
\* TypeOK in the names of this module.
LEMMA Types ==
    ASSUME TypeOK
    PROVE  /\ version \in [Keys -> Versions] /\ wrote \in [Keys -> Versions]
           /\ fetch \in [Fetches -> Flights] /\ aborted \subseteq Fetches
           /\ live \in Fetches \cup {None} /\ hook \in Hooks /\ write \in Writes
  BY DEF TypeOK, Hooks, Flights, Writes

\* A version is a number.
LEMMA VersionsAreNumbers == Versions \subseteq Nat /\ 0 \in Versions
  BY MaxVersionAssumption DEF Versions

LEMMA NotBehind ==
    ASSUME NEW a \in Versions, NEW b \in Versions, NEW c \in Versions, a <= b, b <= c
    PROVE  a <= c
  BY VersionsAreNumbers

LEMMA NotBehindItself ==
    ASSUME NEW a \in Versions
    PROVE  a <= a /\ a >= a
  BY VersionsAreNumbers

\* A page and its data.
LEMMA DataTypes ==
    ASSUME NEW h \in Hooks
    PROVE  /\ h.data.version \in Versions /\ h.key \in Keys
           /\ h.data # NoData => h.data.key \in Keys
           /\ h.data.key \in Keys => h.data # NoData
           /\ NoData.key \notin Keys
  BY NoneAssumption, VersionsAreNumbers DEF Hooks, Data, NoData

\* The page of `h` fetches again: the data it had and its writes are not ahead of the
\* versions, and the new fetch is of its key, or a key was changed during a write.
LEMMA RefetchInductive ==
    ASSUME IInv, NEW h \in Hooks, NEW key \in Keys, Refetch(h, key), h.on,
           h.data = hook.data \/ h.data = NoData,
           version' = version, wrote' \in [Keys -> Versions], write' \in Writes,
           crossed' \in BOOLEAN, crossed' \/ key = h.key,
           \A k \in Keys : wrote'[k] <= version[k],
           write'.at # "idle" => write'.key \in Keys /\ (crossed' \/ write'.key = h.key),
           write'.at = "done" => write'.version <= version[write'.key]
    PROVE  IInv'
  <1> PICK f \in Fetches \ InFlight :
           /\ fetch' = [fetch EXCEPT ![f] = [at |-> "sent", key |-> key, version |-> 0]]
           /\ aborted' = Cancelled
           /\ live' = f
           /\ hook' = [h EXCEPT !.loading = TRUE, !.error = FALSE]
           /\ dirty' = ~h.stable
    BY DEF Refetch
  <1>1. /\ hook'.on /\ hook'.loading /\ ~hook'.error /\ hook'.key = h.key /\ hook'.data = h.data
        /\ hook' \in Hooks
    BY DEF Hooks
  <1>2. f # None /\ f \notin aborted /\ f # live
    BY NoneAssumption DEF IInv, OneLive, InFlight
  <1>3. fetch'[f] = [at |-> "sent", key |-> key, version |-> 0]
    BY Types DEF IInv
  <1>4. fetch' \in [Fetches -> Flights]
    BY Types, VersionsAreNumbers DEF IInv, Flights
  <1>5. \A g \in Fetches \ {f} : fetch'[g] = fetch[g]
    BY Types DEF IInv
  <1>6. InFlight' = InFlight \cup {f}
    BY <1>3, <1>5 DEF InFlight
  <1>7. TypeOK'
    <2>1. aborted' \subseteq Fetches
      BY Types DEF IInv, Cancelled
    <2>2. dirty' \in BOOLEAN
      BY DEF Hooks
    <2>3. version' \in [Keys -> Versions] /\ live' \in Fetches
      BY Types DEF IInv
    <2> QED
      BY <1>1, <1>4, <2>1, <2>2, <2>3 DEF TypeOK, Hooks, Flights, Writes
  <1>8. OneLive'
    <2>1. aborted' \subseteq InFlight'
      BY <1>6 DEF IInv, OneLive, Cancelled
    <2>2. f \notin aborted'
      BY <1>2 DEF Cancelled
    <2>3. \A g \in InFlight : g \in aborted'
      BY <1>2, NoneAssumption DEF IInv, OneLive, Cancelled, InFlight
    <2> QED
      BY <1>1, <1>2, <1>6, <2>1, <2>2, <2>3 DEF OneLive
  <1>9. HookFits'
    BY <1>1 DEF IInv, HookFits
  <1>10. FlightsFit'
    BY <1>3, <1>5 DEF IInv, FlightsFit
  <1>11. LiveBrings'
    BY <1>1, <1>3 DEF LiveBrings
  <1>12. WriteFits'
    BY <1>1 DEF WriteFits
  <1>13. RestingPageIsCurrent'
    BY <1>1 DEF RestingPageIsCurrent
  <1> QED
    BY <1>7, <1>8, <1>9, <1>10, <1>11, <1>12, <1>13 DEF IInv

\* A step of a write, or of another page: no fetch and nothing the page shows changes.
LEMMA WriteInductive ==
    ASSUME IInv, UNCHANGED <<fetch, aborted, live, hook, dirty, wrote, crossed>>,
           version' \in [Keys -> Versions], \A k \in Keys : version[k] <= version'[k],
           write' \in Writes, ~hook.on => write' = NoWrite,
           write'.at # "idle" => write'.key \in Keys /\ (crossed \/ write'.key = hook.key),
           write'.at = "done" => write'.version <= version'[write'.key]
    PROVE  IInv'
  <1>1. hook \in Hooks /\ wrote \in [Keys -> Versions] /\ version \in [Keys -> Versions]
    BY Types DEF IInv
  <1>2. TypeOK'
    BY DEF IInv, TypeOK, Writes
  <1>3. OneLive' /\ FlightsFit' /\ LiveBrings' /\ RestingPageIsCurrent'
    <2>1. OneLive'
      BY DEF IInv, OneLive, InFlight
    <2>2. FlightsFit'
      <3> SUFFICES ASSUME NEW f \in Fetches, fetch[f].at = "data"
                   PROVE  fetch[f].version <= version'[fetch[f].key]
        BY DEF IInv, FlightsFit
      <3>1. fetch[f].key \in Keys /\ fetch[f].version \in Versions
        BY Types DEF IInv, FlightsFit, Flights
      <3>2. fetch[f].version <= version[fetch[f].key]
        BY DEF IInv, FlightsFit
      <3> QED
        BY <1>1, <3>1, <3>2, NotBehind
    <2>3. LiveBrings'
      BY DEF IInv, LiveBrings
    <2>4. RestingPageIsCurrent'
      BY DEF IInv, RestingPageIsCurrent
    <2> QED
      BY <2>1, <2>2, <2>3, <2>4
  <1>4. HookFits'
    <2>1. hook.data # NoData => hook.data.version <= version'[hook.data.key]
      <3> SUFFICES ASSUME hook.data # NoData
                   PROVE  hook.data.version <= version'[hook.data.key]
        OBVIOUS
      <3>1. hook.data.version \in Versions /\ hook.data.key \in Keys
        BY <1>1, DataTypes
      <3>2. hook.data.version <= version[hook.data.key]
        BY DEF IInv, HookFits
      <3> QED
        BY <1>1, <3>1, <3>2, NotBehind
    <2> QED
      BY <2>1 DEF IInv, HookFits
  <1>5. WriteFits'
    <2>1. \A k \in Keys : wrote[k] <= version'[k]
      <3> SUFFICES ASSUME NEW k \in Keys
                   PROVE  wrote[k] <= version'[k]
        OBVIOUS
      <3>1. wrote[k] <= version[k]
        BY DEF IInv, WriteFits
      <3> QED
        BY <1>1, <3>1, NotBehind
    <2> QED
      BY <2>1 DEF IInv, WriteFits
  <1> QED
    BY <1>2, <1>3, <1>4, <1>5 DEF IInv

\* The pages' own steps.
LEMMA PageInductive ==
    ASSUME IInv, Mount \/ Rerender \/ Poll \/ Written \/ \E k \in Keys : ChangeKey(k)
    PROVE  IInv'
  <1>1. /\ hook \in Hooks /\ hook.key \in Keys /\ wrote \in [Keys -> Versions]
        /\ write \in Writes /\ crossed \in BOOLEAN /\ version \in [Keys -> Versions]
    BY Types, DataTypes DEF IInv, TypeOK
  <1>2. NoWrite \in Writes /\ NoWrite.at = "idle"
    BY VersionsAreNumbers DEF NoWrite, Writes
  <1>3. CASE Mount
    <2> DEFINE h == [hook EXCEPT !.on = TRUE, !.data = NoData]
    <2>1. h \in Hooks /\ h.on /\ h.key = hook.key /\ h.data = NoData
      BY <1>1 DEF Hooks
    <2>2. write = NoWrite
      BY <1>3 DEF Mount, IInv, HookFits
    <2>3. Refetch(h, hook.key)
      BY <1>3 DEF Mount
    <2> HIDE DEF h
    <2> QED
      BY <1>1, <1>2, <1>3, <2>1, <2>2, <2>3, RefetchInductive DEF Mount, IInv, WriteFits
  <1>4. CASE Rerender \/ Poll
    <2>1. hook.on /\ Refetch(hook, hook.key) /\ UNCHANGED <<version, write, wrote, crossed>>
      BY <1>4 DEF Rerender, Poll, IInv, HookFits
    <2> QED
      BY <1>1, <2>1, RefetchInductive DEF IInv, WriteFits
  <1>5. CASE Written
    <2>1. /\ hook.on /\ write.key \in Keys /\ (crossed \/ write.key = hook.key)
          /\ write.version <= version[write.key] /\ write.version \in Versions
      <3>1. write.at = "done" /\ write # NoWrite
        BY <1>2, <1>5 DEF Written
      <3> QED
        BY <1>1, <3>1 DEF IInv, HookFits, WriteFits, Writes
    <2>2. /\ wrote' \in [Keys -> Versions]
          /\ \A k \in Keys : wrote'[k] <= version[k]
      BY <1>1, <1>5, <2>1 DEF Written, IInv, WriteFits
    <2> QED
      BY <1>1, <1>2, <1>5, <2>1, <2>2, RefetchInductive DEF Written
  <1>6. ASSUME NEW k \in Keys, ChangeKey(k)
        PROVE  IInv'
    <2> DEFINE h == [hook EXCEPT !.key = k]
    <2>1. h \in Hooks /\ (h.on <=> hook.on) /\ h.key = k /\ h.data = hook.data
      BY <1>1 DEF Hooks
    <2>2. Refetch(h, k) /\ hook.on /\ UNCHANGED <<version, write, wrote>>
      BY <1>6 DEF ChangeKey
    <2>3. crossed' \in BOOLEAN /\ (write.at # "idle" => crossed')
      BY <1>2, <1>6 DEF ChangeKey
    <2> HIDE DEF h
    <2> QED
      BY <1>1, <2>1, <2>2, <2>3, RefetchInductive DEF IInv, WriteFits
  <1> QED
    BY <1>3, <1>4, <1>5, <1>6

\* Leaving the page.
LEMMA UnmountInductive ==
    ASSUME IInv, Unmount
    PROVE  IInv'
  <1>1. /\ hook \in Hooks /\ wrote \in [Keys -> Versions] /\ live \in Fetches \cup {None}
        /\ aborted \subseteq Fetches
    BY Types DEF IInv
  <1>2. /\ hook' \in Hooks /\ ~hook'.on /\ ~hook'.loading /\ hook'.data = hook.data
    BY <1>1 DEF Unmount, Hooks
  <1>3. NoWrite \in Writes /\ NoWrite.at = "idle"
    BY VersionsAreNumbers DEF NoWrite, Writes
  <1>4. TypeOK'
    <2>1. aborted' \subseteq Fetches
      BY <1>1 DEF Unmount, Cancelled
    <2> QED
      BY <1>2, <1>3, <2>1 DEF Unmount, IInv, TypeOK, Hooks, Writes
  <1>5. OneLive'
    <2>1. InFlight' = InFlight
      BY DEF Unmount, InFlight
    <2>2. aborted' = InFlight
      BY NoneAssumption DEF Unmount, IInv, OneLive, Cancelled, InFlight
    <2> QED
      BY <1>2, <2>1, <2>2 DEF Unmount, OneLive
  <1>6. HookFits'
    BY <1>2 DEF Unmount, IInv, HookFits
  <1>7. FlightsFit'
    BY DEF Unmount, IInv, FlightsFit
  <1>8. LiveBrings'
    BY DEF Unmount, LiveBrings
  <1>9. WriteFits'
    BY <1>3 DEF Unmount, IInv, WriteFits
  <1>10. RestingPageIsCurrent'
    BY <1>2 DEF RestingPageIsCurrent
  <1> QED
    BY <1>4, <1>5, <1>6, <1>7, <1>8, <1>9, <1>10 DEF IInv

\* What the hook makes of an answer it takes.
LEMMA TakenTypes ==
    ASSUME IInv, NEW f \in InFlight, fetch[f].at \in {"data", "error"}
    PROVE  /\ Taken(f) \in Hooks /\ ~Taken(f).loading /\ (Taken(f).on <=> hook.on)
           /\ Taken(f).key = hook.key
           /\ (Taken(f).stable <=> hook.stable)
           /\ fetch[f].at = "error" => Taken(f).error /\ Taken(f).data = hook.data
           /\ fetch[f].at = "data" => /\ Taken(f).data.key = fetch[f].key
                                      /\ Taken(f).data.version = fetch[f].version
  <1>1. hook \in Hooks /\ fetch[f] \in Flights /\ f \in Fetches
    BY Types DEF IInv, InFlight
  <1>2. CASE fetch[f].at = "error"
    BY <1>1, <1>2 DEF Taken, Hooks
  <1>3. CASE fetch[f].at = "data"
    <2>1. [key |-> fetch[f].key, version |-> fetch[f].version] \in Data
      BY <1>1, <1>3 DEF IInv, FlightsFit, Flights, Data
    <2> QED
      BY <1>1, <1>3, <2>1 DEF Taken, Hooks
  <1> QED
    BY <1>2, <1>3

\* An answer comes.
LEMMA ArriveInductive ==
    ASSUME IInv, NEW f \in Fetches, Arrive(f)
    PROVE  /\ IInv'
           /\ f \in aborted => hook' = hook
           /\ f \notin aborted => f = live /\ hook' = Taken(f)
  <1>1. f \in InFlight /\ fetch[f].at \in {"data", "error"}
    BY DEF Arrive, InFlight
  <1>2. hook \in Hooks /\ fetch \in [Fetches -> Flights] /\ Idle \in Flights
    BY Types, VersionsAreNumbers DEF IInv, Idle, Flights
  <1>3. /\ fetch' = [fetch EXCEPT ![f] = Idle] /\ aborted' = aborted \ {f}
        /\ live' = (IF live = f THEN None ELSE live)
        /\ UNCHANGED <<version, write, wrote, crossed>>
    BY DEF Arrive, Finish
  <1>4. fetch'[f] = Idle /\ \A g \in Fetches \ {f} : fetch'[g] = fetch[g]
    BY <1>2, <1>3
  <1>5. InFlight' = InFlight \ {f}
    BY <1>4 DEF InFlight, Idle
  <1>6. FlightsFit'
    BY <1>3, <1>4 DEF IInv, FlightsFit, Idle
  <1>7. (f \in aborted <=> f # live) /\ f # None
    BY <1>1, NoneAssumption DEF IInv, OneLive
  <1>8. CASE f \in aborted
    <2>1. hook' = hook /\ live' = live /\ f # live
      BY <1>3, <1>7, <1>8 DEF Arrive
    <2>2. dirty' = dirty
      BY <1>8 DEF Arrive, IInv, TypeOK
    <2>3. TypeOK'
      BY <1>2, <1>3, <2>1, <2>2 DEF IInv, TypeOK, Flights
    <2>4. OneLive'
      BY <1>3, <1>5, <2>1 DEF IInv, OneLive
    <2>5. HookFits'
      BY <1>3, <2>1, <2>2 DEF IInv, HookFits
    <2>6. LiveBrings'
      <3>1. live # None => fetch'[live] = fetch[live]
        BY <1>4, <2>1 DEF IInv, OneLive, InFlight
      <3> QED
        BY <1>3, <2>1, <3>1 DEF IInv, LiveBrings
    <2>7. WriteFits' /\ RestingPageIsCurrent'
      BY <1>3, <2>1 DEF IInv, WriteFits, RestingPageIsCurrent
    <2> QED
      BY <1>6, <1>8, <2>1, <2>3, <2>4, <2>5, <2>6, <2>7 DEF IInv
  <1>9. CASE f \notin aborted
    <2>1. hook' = Taken(f) /\ live = f /\ live' = None
      BY <1>3, <1>7, <1>9 DEF Arrive
    <2>2. hook.on
      BY <1>7, <2>1 DEF IInv, HookFits
    <2>3. TypeOK'
      <3>1. dirty' \in BOOLEAN
        BY DEF Arrive
      <3> QED
        BY <1>1, <1>2, <1>3, <2>1, <3>1, TakenTypes DEF IInv, TypeOK, Hooks, Flights
    <2>4. OneLive'
      BY <1>1, <1>3, <1>5, <2>1, TakenTypes DEF IInv, OneLive
    <2>5. HookFits'
      <3>1. fetch[f].at = "data" => fetch[f].version <= version[fetch[f].key]
        BY DEF IInv, FlightsFit
      <3>2. hook'.on /\ version' = version /\ write' = write
        BY <1>1, <1>3, <2>1, <2>2, TakenTypes
      <3>3. hook'.data # NoData => hook'.data.version <= version[hook'.data.key]
        BY <1>1, <2>1, <3>1, TakenTypes DEF IInv, HookFits
      <3> QED
        BY <3>2, <3>3 DEF HookFits
    <2>6. LiveBrings'
      BY <2>1 DEF LiveBrings
    <2>7. WriteFits'
      BY <1>1, <1>3, <2>1, TakenTypes DEF IInv, WriteFits
    <2>8. RestingPageIsCurrent'
      <3>1. CASE fetch[f].at = "error"
        BY <1>1, <2>1, <3>1, TakenTypes DEF RestingPageIsCurrent
      <3>2. CASE fetch[f].at = "data"
        <4>1. hook'.key = hook.key /\ hook'.data.key = fetch[f].key /\ hook'.data.version = fetch[f].version
          BY <1>1, <2>1, <3>2, TakenTypes
        <4>2. crossed \/ fetch[f].key = hook.key
          BY <1>7, <2>1, <3>2 DEF IInv, LiveBrings
        <4>3. wrote[fetch[f].key] <= fetch[f].version
          BY <1>7, <2>1, <3>2 DEF IInv, LiveBrings
        <4> QED
          BY <1>3, <4>1, <4>2, <4>3 DEF RestingPageIsCurrent
      <3> QED
        BY <1>1, <3>1, <3>2
    <2> QED
      BY <1>6, <1>9, <2>1, <2>3, <2>4, <2>5, <2>6, <2>7, <2>8 DEF IInv
  <1> QED
    BY <1>8, <1>9

\* The panel or the node answers a fetch, or fails to.
LEMMA AnswerInductive ==
    ASSUME IInv, NEW f \in Fetches, Read(f) \/ ReadFails(f)
    PROVE  IInv'
  <1>1. /\ hook \in Hooks /\ version \in [Keys -> Versions] /\ wrote \in [Keys -> Versions]
        /\ fetch \in [Fetches -> Flights]
    BY Types DEF IInv
  <1>2. /\ UNCHANGED <<version, aborted, live, hook, dirty, write, wrote, crossed>>
        /\ fetch[f].at = "sent" /\ fetch[f].key \in Keys
    BY DEF Read, ReadList, ReadDetail, Answer, ReadFails, page, IInv, FlightsFit
  <1>3. /\ fetch' \in [Fetches -> Flights] /\ \A g \in Fetches \ {f} : fetch'[g] = fetch[g]
        /\ \/ fetch'[f] = [at |-> "data", key |-> fetch[f].key, version |-> version[fetch[f].key]]
           \/ fetch'[f].at = "error"
    <2>1. CASE ReadFails(f)
      BY <1>1, <2>1, VersionsAreNumbers DEF ReadFails, Idle, Flights
    <2>2. CASE Read(f)
      <3>1. version[fetch[f].key] \in Versions
        BY <1>1, <1>2
      <3> QED
        BY <1>1, <1>2, <2>2, <3>1 DEF Read, ReadList, ReadDetail, Answer, Flights
    <2> QED
      BY <2>1, <2>2
  <1>4. InFlight' = InFlight
    BY <1>2, <1>3 DEF InFlight
  <1>5. TypeOK'
    BY <1>2, <1>3 DEF IInv, TypeOK, Flights
  <1>6. OneLive'
    BY <1>2, <1>4 DEF IInv, OneLive
  <1>7. HookFits' /\ WriteFits' /\ RestingPageIsCurrent'
    BY <1>2 DEF IInv, HookFits, WriteFits, RestingPageIsCurrent
  <1>8. FlightsFit'
    <2> SUFFICES ASSUME NEW g \in Fetches
                 PROVE  /\ fetch'[g].at \in {"sent", "data"} => fetch'[g].key \in Keys
                        /\ fetch'[g].at = "data" => fetch'[g].version <= version[fetch'[g].key]
      BY <1>2 DEF FlightsFit
    <2>1. CASE g # f
      BY <1>3, <2>1 DEF IInv, FlightsFit
    <2>2. CASE g = f
      <3>1. version[fetch[f].key] <= version[fetch[f].key]
        BY <1>1, <1>2, NotBehindItself
      <3> QED
        BY <1>2, <1>3, <2>2, <3>1
    <2> QED
      BY <2>1, <2>2
  <1>9. LiveBrings'
    <2>1. CASE live # f
      <3>1. live # None => fetch'[live] = fetch[live]
        BY <1>3, <2>1 DEF IInv, OneLive, InFlight
      <3> QED
        BY <1>2, <3>1 DEF IInv, LiveBrings
    <2>2. CASE live = f
      <3>1. live # None
        BY <2>2, NoneAssumption
      <3>2. crossed \/ fetch[f].key = hook.key
        BY <1>2, <2>2, <3>1 DEF IInv, LiveBrings
      <3>3. wrote[fetch[f].key] <= version[fetch[f].key]
        BY <1>2 DEF IInv, WriteFits
      <3>4. hook.data.key = fetch[f].key => hook.data.version <= version[fetch[f].key]
        BY <1>1, <1>2, DataTypes DEF IInv, HookFits
      <3>5. CASE fetch'[f].at = "error"
        BY <2>2, <3>5, <1>2 DEF LiveBrings
      <3>6. CASE fetch'[f] = [at |-> "data", key |-> fetch[f].key, version |-> version[fetch[f].key]]
        BY <1>2, <2>2, <3>2, <3>3, <3>4, <3>6 DEF LiveBrings
      <3> QED
        BY <1>3, <3>5, <3>6
    <2> QED
      BY <2>1, <2>2
  <1> QED
    BY <1>5, <1>6, <1>7, <1>8, <1>9 DEF IInv

\* One more version of a key.
LEMMA OneMore ==
    ASSUME version \in [Keys -> Versions], NEW k \in Keys, version[k] < MaxVersion,
           version' = [version EXCEPT ![k] = @ + 1]
    PROVE  /\ version' \in [Keys -> Versions] /\ version'[k] = version[k] + 1
           /\ \A j \in Keys : version[j] <= version'[j]
  BY MaxVersionAssumption DEF Versions

\* The steps of a write, and the writes of others.
LEMMA WritesInductive ==
    ASSUME IInv, \/ \E op \in ListOps \cup DetailOps : Write(op)
                 \/ \E k \in Keys : WriteElsewhere(k)
                 \/ Store \/ Forward \/ Carry \/ Refuse \/ WrittenOnly
    PROVE  IInv'
  <1>1. /\ hook \in Hooks /\ hook.key \in Keys /\ version \in [Keys -> Versions]
        /\ write \in Writes
    BY Types, DataTypes DEF IInv
  <1>2. NoWrite \in Writes /\ NoWrite.at = "idle" /\ 0 \in Versions
    BY VersionsAreNumbers DEF NoWrite, Writes
  <1>3. \A k \in Keys : version[k] <= version[k]
    BY <1>1, NotBehindItself
  <1>4. /\ write.at # "idle" => hook.on /\ write.key \in Keys /\ (crossed \/ write.key = hook.key)
        /\ write.at = "done" => write.version <= version[write.key]
        /\ ~hook.on => write = NoWrite
    BY <1>2 DEF IInv, HookFits, WriteFits
  <1>5. ASSUME NEW op \in ListOps \cup DetailOps, Write(op)
        PROVE  IInv'
    <2>1. write' = [at |-> "panel", op |-> op, key |-> hook.key, version |-> 0]
      BY <1>5 DEF Write, NoWrite
    <2>2. write' \in Writes
      BY <1>1, <1>2, <2>1 DEF Writes
    <2> QED
      <3>1. /\ hook.on /\ version' = version
            /\ UNCHANGED <<fetch, aborted, live, hook, dirty, wrote, crossed>>
        BY <1>5 DEF Write
      <3>2. write'.at = "panel" /\ write'.key = hook.key
        BY <2>1
      <3> QED
        BY <1>1, <1>3, <2>2, <3>1, <3>2, WriteInductive
  <1>6. ASSUME NEW k \in Keys, WriteElsewhere(k)
        PROVE  IInv'
    <2>1. /\ UNCHANGED <<fetch, aborted, live, hook, dirty, write, wrote, crossed>>
          /\ version[k] < MaxVersion /\ version' = [version EXCEPT ![k] = @ + 1]
      BY <1>6 DEF WriteElsewhere, page
    <2>2. version' \in [Keys -> Versions] /\ \A j \in Keys : version[j] <= version'[j]
      BY <1>1, <2>1, OneMore
    <2>3. write.at = "done" => write.version <= version'[write.key]
      <3> SUFFICES ASSUME write.at = "done"
                   PROVE  write.version <= version'[write.key]
        OBVIOUS
      <3>1. write.key \in Keys /\ write.version <= version[write.key] /\ write.version \in Versions
        BY <1>1, <1>4 DEF Writes
      <3> QED
        BY <1>1, <2>2, <3>1, NotBehind
    <2> QED
      BY <1>1, <1>4, <2>1, <2>2, <2>3, WriteInductive
  <1>7. CASE Store \/ Carry
    <2>1. /\ write.at # "idle"
          /\ UNCHANGED <<fetch, aborted, live, hook, dirty, wrote, crossed>>
          /\ version[write.key] < MaxVersion
          /\ version' = [version EXCEPT ![write.key] = @ + 1]
          /\ write' = [write EXCEPT !.at = "done", !.version = version[write.key] + 1]
      BY <1>7 DEF Store, Carry
    <2>2. /\ version' \in [Keys -> Versions] /\ \A j \in Keys : version[j] <= version'[j]
          /\ version'[write.key] = version[write.key] + 1
      BY <1>1, <1>4, <2>1, OneMore
    <2>3. version'[write.key] \in Versions
      BY <1>4, <2>1, <2>2
    <2>4. /\ write' \in Writes /\ write'.at = "done" /\ write'.key = write.key
          /\ write'.version = version'[write.key]
      BY <1>1, <2>1, <2>2, <2>3 DEF Writes
    <2>5. write'.version <= version'[write'.key]
      BY <2>3, <2>4, NotBehindItself
    <2> QED
      BY <1>4, <2>1, <2>2, <2>4, <2>5, WriteInductive
  <1>8. CASE Forward \/ Refuse
    <2>1. /\ write.at # "idle"
          /\ UNCHANGED <<version, fetch, aborted, live, hook, dirty, wrote, crossed>>
          /\ \/ write' = [write EXCEPT !.at = "node"]
             \/ write' = [write EXCEPT !.at = "refused"]
      BY <1>8 DEF Forward, Refuse
    <2>2. write' \in Writes /\ write'.key = write.key /\ write'.at # "done"
      BY <1>1, <2>1 DEF Writes
    <2> QED
      BY <1>1, <1>3, <1>4, <2>1, <2>2, WriteInductive
  <1>9. CASE WrittenOnly
    BY <1>1, <1>2, <1>3, <1>9, WriteInductive DEF WrittenOnly
  <1> QED
    BY <1>5, <1>6, <1>7, <1>8, <1>9

\* No page is open yet.
LEMMA InitInductive == Init => IInv
  <1> SUFFICES ASSUME Init PROVE IInv
    OBVIOUS
  <1>1. /\ version \in [Keys -> Versions] /\ \A k \in Keys : version[k] = 0
        /\ wrote = version
    BY VersionsAreNumbers DEF Init
  <1>2. /\ hook \in Hooks /\ ~hook.on /\ ~hook.loading /\ hook.data = NoData
    BY DEF Init, Hooks
  <1>3. \A f \in Fetches : fetch[f].at = "idle"
    BY DEF Init, Idle
  <1>4. fetch \in [Fetches -> Flights]
    BY VersionsAreNumbers DEF Init, Idle, Flights
  <1>5. NoWrite \in Writes /\ NoWrite.at = "idle"
    BY VersionsAreNumbers DEF NoWrite, Writes
  <1>6. TypeOK
    BY <1>1, <1>2, <1>4, <1>5 DEF Init, TypeOK, Hooks, Flights, Writes
  <1>7. OneLive
    BY <1>2, <1>3 DEF Init, OneLive, InFlight
  <1>8. HookFits /\ FlightsFit /\ LiveBrings /\ RestingPageIsCurrent
    BY <1>2, <1>3 DEF Init, HookFits, FlightsFit, LiveBrings, RestingPageIsCurrent
  <1>9. WriteFits
    BY <1>1, <1>5 DEF Init, WriteFits
  <1> QED
    BY <1>6, <1>7, <1>8, <1>9 DEF IInv

\* Every step keeps IInv.
LEMMA StepInductive == IInv /\ [Next]_vars => IInv'
  <1>1. ASSUME IInv, UNCHANGED vars
        PROVE  IInv'
    <2>1. TypeOK'
      BY <1>1 DEF IInv, TypeOK, vars
    <2>2. OneLive' /\ FlightsFit'
      BY <1>1 DEF IInv, OneLive, FlightsFit, InFlight, vars
    <2>3. HookFits' /\ LiveBrings' /\ WriteFits' /\ RestingPageIsCurrent'
      BY <1>1 DEF IInv, HookFits, LiveBrings, WriteFits, RestingPageIsCurrent, vars
    <2> QED
      BY <2>1, <2>2, <2>3 DEF IInv
  <1> QED
    BY <1>1, PageInductive, UnmountInductive, ArriveInductive, AnswerInductive, WritesInductive
       DEF Next

\* IInv holds in every reachable state.
LEMMA Inductive == Spec => []IInv
  BY InitInductive, StepInductive, PTL DEF Spec

\* The hook, its fetches and the writes have the values DataHook.TypeOK names (useAsync.ts).
THEOREM TypeCorrect == Spec => []TypeOK
  <1>1. IInv => TypeOK
    BY DEF IInv
  <1> QED
    BY <1>1, Inductive, PTL

\* A page at rest without an error shows what it was last asked for and its own last write
\* (useNodes.ts, useProxyDetail.ts), unless its key changed during the write.
THEOREM PagesShowTheirWrites == Spec => []RestingPageIsCurrent
  <1>1. IInv => RestingPageIsCurrent
    BY DEF IInv
  <1> QED
    BY <1>1, Inductive, PTL

\* What a page has of one key changes only with the answer of the fetch that counts.
LEMMA StepsForward ==
    ASSUME IInv, [Next]_vars, hook.on, hook'.on, hook.data # NoData,
           hook'.data.key = hook.data.key
    PROVE  hook'.data.version >= hook.data.version
  <1>1. hook \in Hooks /\ hook.data.version \in Versions /\ hook.data.key \in Keys
    BY Types, DataTypes DEF IInv
  <1>2. hook.data.version >= hook.data.version
    BY <1>1, NotBehindItself
  <1>3. ASSUME NEW h \in Hooks, NEW key, Refetch(h, key), h.data = hook.data
        PROVE  hook'.data = hook.data
    BY <1>3 DEF Refetch, Hooks
  <1>4. CASE UNCHANGED vars
    BY <1>2, <1>4 DEF vars
  <1>5. CASE Mount \/ Unmount
    BY <1>1, <1>5 DEF Mount, Unmount, Hooks
  <1>6. CASE Rerender \/ Poll \/ Written
    BY <1>1, <1>2, <1>3, <1>6 DEF Rerender, Poll, Written
  <1>7. ASSUME NEW k \in Keys, ChangeKey(k)
        PROVE  hook'.data = hook.data
    <2> DEFINE h == [hook EXCEPT !.key = k]
    <2>1. h \in Hooks /\ h.data = hook.data
      BY <1>1 DEF Hooks
    <2>2. Refetch(h, k)
      BY <1>7 DEF ChangeKey
    <2> QED
      BY <1>3, <2>1, <2>2
  <1>8. ASSUME NEW f \in Fetches, Arrive(f)
        PROVE  hook'.data.version >= hook.data.version
    <2>1. f \in InFlight /\ fetch[f].at \in {"data", "error"} /\ f # None
      BY <1>8, NoneAssumption DEF Arrive, InFlight
    <2>2. CASE hook' = hook
      BY <1>2, <2>2
    <2>3. CASE f = live /\ hook' = Taken(f) /\ fetch[f].at = "error"
      BY <1>2, <2>1, <2>3, TakenTypes
    <2>4. CASE f = live /\ hook' = Taken(f) /\ fetch[f].at = "data"
      <3>1. hook'.data.key = fetch[f].key /\ hook'.data.version = fetch[f].version
        BY <2>1, <2>4, TakenTypes
      <3>2. hook.data.version <= fetch[f].version
        BY <2>1, <2>4, <3>1 DEF IInv, LiveBrings
      <3>3. fetch[f].version \in Versions
        BY Types DEF IInv, Flights
      <3> QED
        BY <1>1, <3>1, <3>2, <3>3, VersionsAreNumbers
    <2> QED
      BY <1>8, <2>1, <2>2, <2>3, <2>4, ArriveInductive
  <1>9. CASE hook' = hook
    BY <1>2, <1>9
  <1>10. ASSUME \/ \E f \in Fetches : Read(f) \/ ReadFails(f)
                \/ \E op \in ListOps \cup DetailOps : Write(op)
                \/ \E k \in Keys : WriteElsewhere(k)
                \/ Store \/ Forward \/ Carry \/ Refuse \/ WrittenOnly
         PROVE  hook' = hook
    BY <1>10 DEF Read, ReadList, ReadDetail, Answer, ReadFails, page, Write, WriteElsewhere,
                 Store, Forward, Carry, Refuse, WrittenOnly
  <1> QED
    BY <1>2, <1>4, <1>5, <1>6, <1>7, <1>8, <1>9, <1>10 DEF Next

\* What a page shows of a key never goes back, in whatever order answers come (useAsync.ts).
THEOREM AnswersInOrder == Spec => DataNeverGoesBack
  <1>1. IInv /\ [Next]_vars =>
          [hook.on /\ hook'.on /\ hook.data # NoData /\ hook'.data.key = hook.data.key
             => hook'.data.version >= hook.data.version]_vars
    BY StepsForward
  <1> QED
    BY <1>1, Inductive, PTL DEF Spec, DataNeverGoesBack
=============================================================================
