----------------------------- MODULE NginxProofs -----------------------------
(***************************************************************************)
(* Proofs about service-node/src/services/nginx.ts: the configurations it  *)
(* writes (NginxConfig, NginxRoutes) and the log it reads (NodeHistory,    *)
(* with the histories of proxy.ts that the log is one of the writers of).  *)
(*                                                                         *)
(* NginxRoutes, for any proxies, ports, limits, requests and failures.     *)
(* The generator comes first: where nginx leads a connection under a       *)
(* configuration it accepts.  Then the requests: an update that began      *)
(* after the last change has kept, at each turn of its loop, exactly the   *)
(* objects with a container that it has passed, and so the file it writes  *)
(* is the one of the array as it is.                                       *)
(*                                                                         *)
(* NodeHistory, for any proxies, addresses, calls and any number of lines. *)
(* What Docker sends on a connection is one stream of parts, a function of *)
(* the lines logged (PartAt): two lines take ten parts.  Streamed says     *)
(* that the buffers of the watcher and the wire together are its end, from *)
(* a frame the watcher stands at (Cut), and that what it handled are the   *)
(* lines whole before that.  One turn of the loop goes from such a frame   *)
(* to the next (FrameMoves), so the loop ends at one (ParseMoves), however *)
(* the stream was cut into chunks.                                         *)
(*                                                                         *)
(* A history that was removed stays empty because all that could still     *)
(* write it is named by UnderWay, which no step makes true of a proxy that *)
(* is gone: calls, lookups and the cache take their ids from stored        *)
(* proxies only (Quiet, with Deletions).                                   *)
(***************************************************************************)
EXTENDS NginxRoutes, NodeHistory, FiniteSetTheorems, FunctionTheorems, SequenceTheorems,
        WellFoundedInduction, TLAPS

-----------------------------------------------------------------------------
(* NginxConfig and NginxRoutes.                                            *)

\* A list of proxies, some of its places left out.
IsList(L) == \E n \in Nat : DOMAIN L \subseteq 1..n /\ L \in [DOMAIN L -> Objects]

OneEntry(L) == \A j, k \in SharedProxies(L) : L[j].domain = L[k].domain => j = k

OneLoopback(L) == \A j, k \in LimitedProxies(L) :
    LoopbackOf(L, L[j].domain) = LoopbackOf(L, L[k].domain) => j = k

\* The places of the generator are places of the list.
LEMMA PlacesOfList ==
    ASSUME NEW L, IsList(L)
    PROVE  /\ \A k \in DOMAIN L : k \in Nat /\ L[k] \in Objects
           /\ SharedProxies(L) \subseteq DOMAIN L
           /\ PortProxies(L) \subseteq DOMAIN L
           /\ LimitedProxies(L) \subseteq SharedProxies(L)
           /\ IsFiniteSet(LimitedProxies(L))
  <1>1. PICK n \in Nat : DOMAIN L \subseteq 1..n /\ L \in [DOMAIN L -> Objects]
    BY DEF IsList
  <1>2. /\ SharedProxies(L) \subseteq DOMAIN L /\ PortProxies(L) \subseteq DOMAIN L
        /\ LimitedProxies(L) \subseteq SharedProxies(L)
    BY DEF LimitedProxies, SharedProxies, PortProxies, Running
  <1>3. IsFiniteSet(1..n)
    BY <1>1, FS_Interval
  <1>4. IsFiniteSet(LimitedProxies(L))
    BY <1>1, <1>2, <1>3, FS_Subset
  <1> QED
    BY <1>1, <1>2, <1>4

\* A loopback server has a number, which is no id.
LEMMA LoopbackIsNumber ==
    ASSUME NEW L, IsList(L), NEW d
    PROVE  LoopbackOf(L, d) \in Nat /\ LoopbackOf(L, d) \notin Ids
  <1> DEFINE before == {k \in LimitedProxies(L) : k < Max(LoopbacksOf(L, d))}
  <1>1. IsFiniteSet(before)
    BY PlacesOfList, FS_Subset
  <1>2. Cardinality(before) \in Nat
    BY <1>1, FS_CardinalityType
  <1> QED
    BY <1>2, IdsAssumption DEF LoopbackOf

\* What nginx asks of a configuration, said of the list it was made from.
LEMMA AcceptedLists ==
    ASSUME NEW L
    PROVE  Accepted(Generate(L)) <=> OneEntry(L) /\ OneLoopback(L)
  BY DEF Accepted, Generate, Unique, MapEntries, MapEntry, LimitServers, LimitServer,
         OneEntry,
         OneLoopback

\* With one entry per domain the loopback server of a limited proxy is its own.
LEMMA OwnLoopback ==
    ASSUME NEW L, IsList(L), OneEntry(L), NEW j \in LimitedProxies(L)
    PROVE  /\ LoopbacksOf(L, L[j].domain) = {j}
           /\ LoopbackOf(L, L[j].domain) = Cardinality({k \in LimitedProxies(L) : k < j})
  <1>1. LoopbacksOf(L, L[j].domain) = {j}
    BY PlacesOfList DEF LoopbacksOf, OneEntry
  <1>2. Max({j}) = j
    BY PlacesOfList DEF Max
  <1> QED
    BY <1>1, <1>2 DEF LoopbackOf

\* Two limited proxies of different domains have different loopback servers.
LEMMA LoopbacksDiffer ==
    ASSUME NEW L, IsList(L), OneEntry(L)
    PROVE  OneLoopback(L)
  <1> DEFINE Before(j) == {k \in LimitedProxies(L) : k < j}
  <1>1. ASSUME NEW j \in LimitedProxies(L), NEW k \in LimitedProxies(L), j < k
        PROVE  Cardinality(Before(j)) # Cardinality(Before(k))
    <2>1. IsFiniteSet(Before(k))
      BY PlacesOfList, FS_Subset
    <2>2. Before(j) \in SUBSET Before(k)
      BY <1>1, PlacesOfList
    <2>3. j \in Before(k) /\ j \notin Before(j)
      BY <1>1, PlacesOfList
    <2> HIDE DEF Before
    <2>4. Cardinality(Before(j)) = Cardinality(Before(k)) => Before(j) = Before(k)
      BY <2>1, <2>2, FS_Subset
    <2> QED
      BY <2>3, <2>4
  <1>2. \A j \in LimitedProxies(L) : LoopbackOf(L, L[j].domain) = Cardinality(Before(j))
    BY OwnLoopback
  <1> HIDE DEF Before
  <1>3. \A j, k \in LimitedProxies(L) : j = k \/ j < k \/ k < j
    BY PlacesOfList
  <1> QED
    BY <1>1, <1>2, <1>3 DEF OneLoopback

\* nginx leads the domain of a proxy on its own port to that proxy, through the
\* loopback server of its limit if it has one.
LEMMA EntryOfProxy ==
    ASSUME NEW L, IsList(L), OneEntry(L), OneLoopback(L), NEW j \in SharedProxies(L)
    PROVE  RouteBySni(Generate(L), L[j].domain) = [to |-> L[j].id, limit |-> L[j].limit]
  <1> DEFINE d == L[j].domain
             entries == {k \in SharedProxies(L) : L[k].domain = d}
             to == MapEntry(L, L[CHOOSE k \in entries : TRUE]).to
             servers == {k \in LimitedProxies(L) : LoopbackOf(L, L[k].domain) = to}
             server == LimitServer(L, L[CHOOSE k \in servers : TRUE])
  <1>0. j \in DOMAIN L /\ L[j] \in Objects
    BY PlacesOfList
  <1>1. RouteBySni(Generate(L), d) =
            IF entries = {} THEN [to |-> Fallback, limit |-> 0]
            ELSE IF servers = {} THEN [to |-> to, limit |-> 0]
            ELSE [to |-> server.to, limit |-> server.limit]
    <2> DEFINE conf == Generate(L)
    <2>1. /\ conf.map = [k \in SharedProxies(L) |-> MapEntry(L, L[k])]
          /\ conf.loopbacks = [k \in LimitedProxies(L) |-> LimitServer(L, L[k])]
      BY DEF Generate, MapEntries, LimitServers
    <2>2. {k \in DOMAIN conf.map : conf.map[k].sni = d} = entries
      BY <2>1 DEF MapEntry
    <2>3. entries # {} => conf.map[CHOOSE k \in entries : TRUE].to = to
      BY <2>1
    <2>4. {k \in DOMAIN conf.loopbacks : conf.loopbacks[k].listen = to} = servers
      BY <2>1 DEF LimitServer
    <2>5. servers # {} => conf.loopbacks[CHOOSE k \in servers : TRUE] = server
      BY <2>1
    <2> HIDE DEF conf, entries, to, servers, server, d
    <2> QED
      BY <2>2, <2>3, <2>4, <2>5 DEF RouteBySni, conf
  <1>2. entries = {j} /\ (CHOOSE k \in entries : TRUE) = j
    BY DEF OneEntry
  <1>3. to = IF LoopbacksOf(L, d) = {} THEN L[j].id ELSE LoopbackOf(L, d)
    <2>1. to = MapEntry(L, L[j]).to
      <3> HIDE DEF entries
      <3> QED
        BY <1>2
    <2> HIDE DEF to
    <2> QED
      BY <2>1 DEF MapEntry
  <1>4. CASE j \in LimitedProxies(L)
    <2>1. LoopbacksOf(L, d) = {j}
      BY <1>4, OwnLoopback
    <2>2. servers = {j} /\ (CHOOSE k \in servers : TRUE) = j
      BY <1>3, <1>4, <2>1 DEF OneLoopback
    <2>3. server.to = L[j].id /\ server.limit = L[j].limit
      BY <2>2 DEF LimitServer
    <2> HIDE DEF entries, to, servers, server
    <2> QED
      BY <1>1, <1>2, <2>2, <2>3
  <1>5. CASE j \notin LimitedProxies(L)
    <2>1. LoopbacksOf(L, d) = {}
      BY <1>2, <1>5, PlacesOfList DEF LoopbacksOf
    <2>2. L[j].limit = 0
      <3>1. L[j].limit \in Nat
        BY <1>0, LimitsAssumption DEF Objects
      <3>2. ~(L[j].limit > 0)
        BY <1>5 DEF LimitedProxies
      <3> QED
        BY <3>1, <3>2
    <2>3. to = L[j].id /\ L[j].id \in Ids
      BY <1>0, <1>3, <2>1 DEF Objects
    <2>4. servers = {}
      BY <2>3, LoopbackIsNumber
    <2> HIDE DEF entries, to, servers, server
    <2> QED
      BY <1>1, <1>2, <2>2, <2>3, <2>4
  <1> QED
    BY <1>4, <1>5

\* The domain of no running proxy ends at the fallback page.
LEMMA NoEntry ==
    ASSUME NEW L, NEW d, \A k \in SharedProxies(L) : L[k].domain # d
    PROVE  RouteBySni(Generate(L), d) = [to |-> Fallback, limit |-> 0]
  <1> DEFINE conf == Generate(L)
  <1>1. conf.map = [k \in SharedProxies(L) |-> MapEntry(L, L[k])]
    BY DEF Generate, MapEntries
  <1>2. {k \in DOMAIN conf.map : conf.map[k].sni = d} = {}
    BY <1>1 DEF MapEntry
  <1> HIDE DEF conf
  <1> QED
    BY <1>2 DEF RouteBySni, conf

\* A dedicated port that one running proxy has leads to it.
LEMMA PortOfProxy ==
    ASSUME NEW L, IsList(L), NEW j \in PortProxies(L),
           \A k \in PortProxies(L) : L[k].port = L[j].port => k = j
    PROVE  RouteByPort(Generate(L), L[j].port) = [to |-> L[j].id, limit |-> L[j].limit]
  <1> DEFINE own == {s \in PortServers(L) : s.listen = L[j].port}
  <1>1. j \in FirstOnPort(L)
    BY PlacesOfList DEF FirstOnPort
  <1>2. own = {PortServer(L[j])}
    BY <1>1 DEF PortServers, PortServer, FirstOnPort
  <1>3. (CHOOSE s \in own : TRUE) = PortServer(L[j])
    BY <1>2
  <1>4. Generate(L).dedicated = PortServers(L)
    BY DEF Generate
  <1> QED
    BY <1>2, <1>3, <1>4 DEF RouteByPort, PortServer

\* A dedicated port that no running proxy has is not nginx's.
LEMMA NoPort ==
    ASSUME NEW L, NEW port, \A k \in PortProxies(L) : L[k].port # port
    PROVE  RouteByPort(Generate(L), port) = [to |-> Fallback, limit |-> 0]
  <1>1. {s \in PortServers(L) : s.listen = port} = {}
    BY DEF PortServers, PortServer, FirstOnPort
  <1>2. Generate(L).dedicated = PortServers(L)
    BY DEF Generate
  <1> QED
    BY <1>1, <1>2 DEF RouteByPort
-----------------------------------------------------------------------------
(* The requests.                                                           *)

\* The array without the proxies that have no container.
Present == [k \in {j \in DOMAIN list : box[list[j].id] # "none"} |-> list[k]]

\* What a loop that has passed n places of this array has kept.
PresentUpTo(n) ==
    [k \in {j \in DOMAIN list : j <= n /\ box[list[j].id] # "none"} |-> list[k]]

UniqueIds == \A j, k \in DOMAIN list : list[j].id = list[k].id => j = k

FunctionsOfRequests == /\ ask = [r \in Requests |-> ask[r]]
                       /\ alive = [r \in Requests |-> alive[r]]

LoopNotBegun == \A r \in Requests :
    pc[r] \in {"idle", "rebuild", "splice"} => at[r] = 0 /\ alive[r] = <<>>

FreshHasKept == \A r \in fresh : pc[r] = "inspect" => alive[r] = PresentUpTo(at[r])

FreshFileIsPresent == freshFile => file = Generate(Present)

FreshForceIsPresent == freshForce => force = Generate(Present) /\ Accepted(force)

IInv == /\ TypeOK
        /\ UniqueIds
        /\ FunctionsOfRequests
        /\ LoopNotBegun
        /\ FreshHasKept
        /\ FreshFileIsPresent
        /\ FreshForceIsPresent

\* The array is a list, and so is what a container is there for.
LEMMA PresentIsList ==
    ASSUME list \in Seq(Objects)
    PROVE  /\ IsList(list) /\ IsList(Present)
           /\ \A k \in DOMAIN list : list[k] \in Objects /\ k \in Nat
  <1>1. Len(list) \in Nat /\ DOMAIN list = 1..Len(list)
    OBVIOUS
  <1>2. \A k \in DOMAIN list : list[k] \in Objects
    OBVIOUS
  <1>3. list \in [DOMAIN list -> Objects]
    OBVIOUS
  <1>4. DOMAIN Present \subseteq 1..Len(list) /\ Present \in [DOMAIN Present -> Objects]
    BY <1>1, <1>2 DEF Present
  <1> QED
    BY <1>1, <1>2, <1>3, <1>4 DEF IsList

\* A loop that has not begun has kept nothing.
LEMMA NothingKept == ASSUME list \in Seq(Objects) PROVE PresentUpTo(0) = <<>>
  <1>1. {j \in DOMAIN list : j <= 0 /\ box[list[j].id] # "none"} = {}
    OBVIOUS
  <1> QED
    BY <1>1 DEF PresentUpTo

\* The place of a proxy that is there.
LEMMA PlaceIsThere ==
    ASSUME list \in Seq(Objects), NEW i, Stored(i)
    PROVE  Place(i) \in DOMAIN list /\ list[Place(i)].id = i /\ list[Place(i)] \in Objects
  <1>1. Place(i) \in Places(i)
    BY DEF Stored, Place
  <1>2. Place(i) \in DOMAIN list /\ list[Place(i)].id = i
    BY <1>1 DEF Places
  <1> QED
    BY <1>2, PresentIsList

\* With ids of their own it is the one place.
LEMMA PlaceOfId ==
    ASSUME UniqueIds, NEW k \in DOMAIN list
    PROVE  Stored(list[k].id) /\ Place(list[k].id) = k
  <1>1. Places(list[k].id) = {k}
    BY DEF Places, UniqueIds
  <1> QED
    BY <1>1 DEF Stored, Place

\* A new object in the place of an old one keeps the type and the ids.
LEMMA ReplacedKeeps ==
    ASSUME list \in Seq(Objects), UniqueIds, NEW k \in DOMAIN list, NEW new \in Objects,
           new.id = list[k].id, list' = [list EXCEPT ![k] = new]
    PROVE  list' \in Seq(Objects) /\ UniqueIds'
  <1>1. list' \in Seq(Objects) /\ DOMAIN list' = DOMAIN list
    OBVIOUS
  <1>2. \A j \in DOMAIN list : list'[j].id = list[j].id
    OBVIOUS
  <1> QED
    BY <1>1, <1>2 DEF UniqueIds

\* Store.updateProxy replaces an object by one with the same id.
LEMMA UpdateKeeps ==
    ASSUME list \in Seq(Objects), UniqueIds, NEW i, Stored(i), NEW changes \in Objects,
           changes.id = i, list' = Replaced(i, changes)
    PROVE  list' \in Seq(Objects) /\ UniqueIds'
  <1> DEFINE new == [changes EXCEPT !.ver = list[Place(i)].ver + 1]
  <1>1. new \in Objects /\ new.id = i
    <2>1. list[Place(i)].ver + 1 \in Nat
      BY PlaceIsThere DEF Objects
    <2> QED
      BY <2>1 DEF Objects
  <1>2. list' = [list EXCEPT ![Place(i)] = new]
    BY DEF Replaced
  <1> HIDE DEF new
  <1> QED
    BY <1>1, <1>2, PlaceIsThere, ReplacedKeeps

\* Without one place the array closes up.
LEMMA SplicedKeeps ==
    ASSUME list \in Seq(Objects), UniqueIds, NEW k \in DOMAIN list,
           list' = SubSeq(list, 1, k - 1) \o SubSeq(list, k + 1, Len(list))
    PROVE  list' \in Seq(Objects) /\ UniqueIds'
  <1> DEFINE before == SubSeq(list, 1, k - 1)
             after == SubSeq(list, k + 1, Len(list))
  <1>1. k \in 1..Len(list) /\ Len(list) \in Nat
    OBVIOUS
  <1>2. /\ before \in Seq(Objects) /\ Len(before) = k - 1
        /\ \A j \in 1..(k - 1) : before[j] = list[j]
    <2>1. \A j \in 1..(k - 1) : list[j] \in Objects
      BY <1>1
    <2>2. /\ before \in Seq(Objects)
          /\ Len(before) = IF 1 <= k - 1 THEN k - 1 - 1 + 1 ELSE 0
          /\ \A j \in 1..(k - 1 - 1 + 1) : before[j] = list[1 + j - 1]
      BY <1>1, <2>1, SubSeqProperties
    <2> HIDE DEF before
    <2> QED
      BY <1>1, <2>2
  <1>3. /\ after \in Seq(Objects) /\ Len(after) = Len(list) - k
        /\ \A j \in 1..(Len(list) - k) : after[j] = list[j + k]
    <2>1. \A j \in (k + 1)..Len(list) : list[j] \in Objects
      BY <1>1
    <2>2. /\ after \in Seq(Objects)
          /\ Len(after) = IF k + 1 <= Len(list) THEN Len(list) - (k + 1) + 1 ELSE 0
          /\ \A j \in 1..(Len(list) - (k + 1) + 1) : after[j] = list[(k + 1) + j - 1]
      BY <1>1, <2>1, SubSeqProperties
    <2> HIDE DEF after
    <2>3. Len(after) = Len(list) - k /\ Len(list) - (k + 1) + 1 = Len(list) - k
      BY <1>1, <2>2
    <2>4. \A j \in 1..(Len(list) - k) : (k + 1) + j - 1 = j + k
      BY <1>1
    <2> QED
      BY <2>2, <2>3, <2>4, Zenon
  <1> HIDE DEF before, after
  <1>4. /\ list' \in Seq(Objects) /\ Len(list') = Len(list) - 1
        /\ \A j \in 1..(Len(list) - 1) : list'[j] = IF j < k THEN list[j] ELSE list[j + 1]
    <2>1. list' = before \o after
      BY DEF before, after
    <2>2. /\ list' \in Seq(Objects) /\ Len(list') = Len(list) - 1
          /\ \A j \in 1..(Len(list) - 1) :
                list'[j] = IF j <= k - 1 THEN before[j] ELSE after[j - (k - 1)]
      <3>1. /\ list' \in Seq(Objects) /\ Len(list') = Len(before) + Len(after)
            /\ \A j \in 1..(Len(before) + Len(after)) :
                  list'[j] = IF j <= Len(before) THEN before[j] ELSE after[j - Len(before)]
        <4>1. /\ before \o after \in Seq(Objects)
              /\ Len(before \o after) = Len(before) + Len(after)
              /\ \A j \in 1..(Len(before) + Len(after)) : (before \o after)[j] =
                    IF j <= Len(before) THEN before[j] ELSE after[j - Len(before)]
          BY <1>2, <1>3, ConcatProperties
        <4> QED
          BY <2>1, <4>1
      <3>2. Len(before) + Len(after) = Len(list) - 1
        BY <1>1, <1>2, <1>3
      <3> QED
        BY <1>2, <3>1, <3>2
    <2>3. ASSUME NEW j \in 1..(Len(list) - 1)
          PROVE  list'[j] = IF j < k THEN list[j] ELSE list[j + 1]
      <3>1. CASE j < k
        BY <1>1, <1>2, <2>2, <3>1
      <3>2. CASE ~(j < k)
        <4>1. j - (k - 1) \in 1..(Len(list) - k) /\ j - (k - 1) + k = j + 1
          BY <1>1, <3>2
        <4>2. list'[j] = after[j - (k - 1)]
          <5>1. ~(j <= k - 1)
            BY <1>1, <3>2
          <5>2. list'[j] = IF j <= k - 1 THEN before[j] ELSE after[j - (k - 1)]
            BY <2>2
          <5> QED
            BY <5>1, <5>2, Zenon
        <4> QED
          BY <1>3, <3>2, <4>1, <4>2
      <3> QED
        BY <3>1, <3>2
    <2> QED
      BY <2>2, <2>3
  <1>5. DOMAIN list' = 1..(Len(list) - 1)
    BY <1>4
  <1>6. UniqueIds'
    <2> SUFFICES ASSUME NEW i \in 1..(Len(list) - 1), NEW j \in 1..(Len(list) - 1),
                        list'[i].id = list'[j].id
                 PROVE  i = j
      BY <1>5 DEF UniqueIds
    <2> DEFINE Old(m) == IF m < k THEN m ELSE m + 1
    <2>1. Old(i) \in DOMAIN list /\ Old(j) \in DOMAIN list
      BY <1>1
    <2>2. list'[i] = list[Old(i)] /\ list'[j] = list[Old(j)]
      BY <1>4
    <2>3. Old(i) = Old(j)
      <3> HIDE DEF Old
      <3> QED
        BY <2>1, <2>2 DEF UniqueIds
    <2> QED
      BY <1>1, <2>3
  <1> QED
    BY <1>4, <1>6

\* After a change only requests that are about to begin are fresh.
LEMMA ChangeKeepsFresh ==
    ASSUME NEW begun \in SUBSET Requests, Changed(begun), list' \in Seq(Objects),
           \A r \in begun : at'[r] = 0 /\ alive'[r] = <<>>
    PROVE  (FreshHasKept /\ FreshFileIsPresent /\ FreshForceIsPresent)'
  <1>1. PresentUpTo(0)' = <<>>
    <2>1. {j \in DOMAIN list' : j <= 0 /\ box'[list'[j].id] # "none"} = {}
      OBVIOUS
    <2> QED
      BY <2>1 DEF PresentUpTo
  <1>2. FreshHasKept'
    BY <1>1 DEF Changed, FreshHasKept, PresentUpTo
  <1> QED
    BY <1>2 DEF Changed, FreshFileIsPresent, FreshForceIsPresent

\* A step that leaves the array and the containers alone leaves what they say.
LEMMA SamePresent ==
    ASSUME UNCHANGED <<list, box>>
    PROVE  /\ Present' = Present
           /\ \A n : PresentUpTo(n)' = PresentUpTo(n)
  BY DEF Present, PresentUpTo

\* The updates of the requests in one variable each are typed.
LEMMA AskedIsTyped ==
    ASSUME IInv, NEW r \in Requests, NEW a \in Asks, ask' = [ask EXCEPT ![r] = a],
           NEW p \in PCs, Goto(r, p), p # "idle"
    PROVE  /\ pc' \in [Requests -> PCs]
           /\ \A q \in Requests : pc'[q] # "idle" => ask'[q] \in Asks
           /\ ask' = [q \in Requests |-> ask'[q]]
           /\ pc'[r] = p /\ \A q \in Requests \ {r} : pc'[q] = pc[q]
  BY DEF IInv, TypeOK, FunctionsOfRequests, Goto

\* A request that has asked before goes on.
LEMMA GoneOnIsTyped ==
    ASSUME IInv, NEW r \in Requests, pc[r] # "idle", UNCHANGED ask,
           NEW p \in PCs, Goto(r, p)
    PROVE  /\ pc' \in [Requests -> PCs]
           /\ \A q \in Requests : pc'[q] # "idle" => ask'[q] \in Asks
           /\ ask' = [q \in Requests |-> ask'[q]]
           /\ pc'[r] = p /\ \A q \in Requests \ {r} : pc'[q] = pc[q]
  BY DEF IInv, TypeOK, FunctionsOfRequests, Goto

\* A change of the array or a container before a request's update of nginx: nothing of
\* the update has happened, and whoever was fresh is no more.
LEMMA ChangeInductive ==
    ASSUME IInv, NEW begun \in SUBSET Requests, Changed(begun),
           list' \in Seq(Objects), UniqueIds',
           box' \in [Ids -> {"none", "running", "paused"}],
           pc' \in [Requests -> PCs],
           \A q \in Requests : pc'[q] # "idle" => ask'[q] \in Asks,
           ask' = [q \in Requests |-> ask'[q]],
           \A q \in Requests : pc'[q] \in {"idle", "rebuild", "splice"}
                                   => pc[q] \in {"idle", "rebuild", "splice"},
           \A q \in begun : pc[q] \in {"idle", "rebuild", "splice"},
           UNCHANGED <<at, alive, faults>>
    PROVE  IInv'
  <1>1. TypeOK'
    BY DEF IInv, TypeOK, Changed
  <1>2. FunctionsOfRequests' /\ LoopNotBegun'
    BY DEF IInv, FunctionsOfRequests, LoopNotBegun
  <1>3. \A q \in begun : at'[q] = 0 /\ alive'[q] = <<>>
    BY DEF IInv, LoopNotBegun
  <1>4. (FreshHasKept /\ FreshFileIsPresent /\ FreshForceIsPresent)'
    BY <1>3, ChangeKeepsFresh
  <1> QED
    BY <1>1, <1>2, <1>4 DEF IInv

\* The stored proxies run and nginx has their routes.
LEMMA InitInductive == Init => IInv
  <1> SUFFICES ASSUME Init PROVE IInv
    OBVIOUS
  <1>1. PICK n \in 0..MaxInitial :
           list \in [1..n -> [id : Ids, domain : Domains, port : Ports, limit : Limits,
                              status : {"running"}, ver : {0}]]
    BY DEF Init
  <1>2. list \in Seq(Objects) /\ DOMAIN list = 1..n /\ n \in Nat
    <2>1. n \in Nat
      BY BoundsAssumption
    <2>2. list \in [1..n -> Objects]
      BY <1>1 DEF Objects, Statuses
    <2> QED
      BY <2>1, <2>2
  <1>3. UniqueIds
    BY <1>2 DEF Init, UniqueIds, Unique
  <1>4. TypeOK
    <2>1. box \in [Ids -> {"none", "running", "paused"}] /\ pc \in [Requests -> PCs]
      BY DEF Init, PCs
    <2>2. /\ at \in [Requests -> Nat] /\ fresh \subseteq Requests
          /\ freshFile \in BOOLEAN /\ freshForce \in BOOLEAN /\ faults \in 0..MaxFaults
      BY BoundsAssumption DEF Init
    <2>3. \A r \in Requests : pc[r] = "idle" /\ DOMAIN alive[r] = {}
      BY DEF Init
    <2> QED
      BY <1>2, <2>1, <2>2, <2>3 DEF TypeOK
  <1>5. FunctionsOfRequests /\ LoopNotBegun /\ FreshHasKept
    BY DEF Init, FunctionsOfRequests, LoopNotBegun, FreshHasKept
  <1>6. Present = list
    <2>1. \A k \in DOMAIN list : list[k].id \in Ids /\ box[list[k].id] = "running"
      BY <1>2, PresentIsList DEF Init, Objects
    <2>2. {j \in DOMAIN list : box[list[j].id] # "none"} = DOMAIN list
      BY <2>1
    <2> QED
      BY <1>2, <2>2 DEF Present
  <1>7. OneEntry(list)
    BY DEF Init, UniqueSharedDomains, OneEntry, SharedProxies, Running
  <1>8. Accepted(Generate(list))
    BY <1>2, <1>7, PresentIsList, LoopbacksDiffer, AcceptedLists
  <1> QED
    BY <1>3, <1>4, <1>5, <1>6, <1>8 DEF Init, IInv, FreshFileIsPresent, FreshForceIsPresent

\* A new proxy has an id no other has.
LEMMA CreateInductive ==
    ASSUME IInv, NEW r \in Requests, Create(r)
    PROVE  IInv'
  <1>1. PICK i \in Ids, d \in Domains, p \in Ports, l \in Limits :
            /\ ~Stored(i)
            /\ Asking(r, [op |-> "create", id |-> i, domain |-> d, port |-> p, limit |-> l])
            /\ box' = [box EXCEPT ![i] = "running"]
            /\ list' = Append(list, [id |-> i, domain |-> d, port |-> p, limit |-> l,
                                     status |-> "running", ver |-> 0])
    BY DEF Create
  <1> DEFINE a == [op |-> "create", id |-> i, domain |-> d, port |-> p, limit |-> l]
             new == [id |-> i, domain |-> d, port |-> p, limit |-> l,
                     status |-> "running", ver |-> 0]
  <1>2. a \in Asks /\ new \in Objects /\ new.id = i
    BY DEF Asks, OpKinds, Objects, Statuses
  <1>3. pc[r] = "idle" /\ ask' = [ask EXCEPT ![r] = a] /\ list' = Append(list, new)
    BY <1>1 DEF Asking
  <1> HIDE DEF a, new
  <1>4. list \in Seq(Objects)
    BY DEF IInv, TypeOK
  <1>5. /\ list' \in Seq(Objects)
        /\ DOMAIN list' = 1..(Len(list) + 1) /\ Len(list) \in Nat
        /\ \A k \in 1..Len(list) : list'[k] = list[k]
        /\ list'[Len(list) + 1] = new
    BY <1>2, <1>3, <1>4
  <1>6. UniqueIds'
    <2>1. \A k \in 1..Len(list) : list[k].id # i
      BY <1>1, <1>4 DEF Stored, Places
    <2> QED
      BY <1>2, <1>4, <1>5, <2>1 DEF UniqueIds, IInv
  <1>7. box' \in [Ids -> {"none", "running", "paused"}]
    BY <1>1 DEF IInv, TypeOK
  <1>8. /\ Goto(r, "inspect") /\ "inspect" \in PCs /\ Changed({r})
        /\ UNCHANGED <<at, alive, faults>>
    BY DEF Create, PCs
  <1> QED
    BY <1>2, <1>3, <1>5, <1>6, <1>7, <1>8, AskedIsTyped, ChangeInductive

\* Another limit.
LEMMA EditInductive ==
    ASSUME IInv, NEW r \in Requests, Edit(r)
    PROVE  IInv'
  <1>1. PICK i \in Ids, l \in Limits :
            /\ Stored(i)
            /\ Asking(r, [op |-> "edit", id |-> i, domain |-> list[Place(i)].domain,
                          port |-> list[Place(i)].port, limit |-> l])
            /\ list' = Replaced(i, [list[Place(i)] EXCEPT !.limit = l])
    BY DEF Edit
  <1> DEFINE a == [op |-> "edit", id |-> i, domain |-> list[Place(i)].domain,
                   port |-> list[Place(i)].port, limit |-> l]
             changes == [list[Place(i)] EXCEPT !.limit = l]
  <1>2. /\ list \in Seq(Objects) /\ UniqueIds
        /\ list[Place(i)] \in Objects /\ list[Place(i)].id = i
    BY <1>1, PlaceIsThere DEF IInv, TypeOK
  <1>3. a \in Asks /\ changes \in Objects /\ changes.id = i
    BY <1>2 DEF Asks, OpKinds, Objects
  <1>4. pc[r] = "idle" /\ ask' = [ask EXCEPT ![r] = a] /\ list' = Replaced(i, changes)
    BY <1>1 DEF Asking
  <1> HIDE DEF a, changes
  <1>5. list' \in Seq(Objects) /\ UniqueIds'
    BY <1>1, <1>2, <1>3, <1>4, UpdateKeeps
  <1>6. box' \in [Ids -> {"none", "running", "paused"}]
    BY DEF Edit, IInv, TypeOK
  <1>7. /\ Goto(r, "inspect") /\ "inspect" \in PCs /\ Changed({r})
        /\ UNCHANGED <<at, alive, faults>>
    BY DEF Edit, PCs
  <1> QED
    BY <1>3, <1>4, <1>5, <1>6, <1>7, AskedIsTyped, ChangeInductive

\* A container goes.
LEMMA RemoveInductive ==
    ASSUME IInv, NEW r \in Requests, Remove(r)
    PROVE  IInv'
  <1>1. PICK i \in Ids, op \in {"rebuild", "restart", "delete"}, d \in Domains, p \in Ports :
            /\ Stored(i)
            /\ Asking(r, [op |-> op, id |-> i, domain |-> d, port |-> p,
                          limit |-> list[Place(i)].limit])
            /\ box' = [box EXCEPT ![i] = "none"]
            /\ Goto(r, IF op = "delete" THEN "splice" ELSE "rebuild")
    BY DEF Remove
  <1> DEFINE a == [op |-> op, id |-> i, domain |-> d, port |-> p, limit |-> list[Place(i)].limit]
             next == IF op = "delete" THEN "splice" ELSE "rebuild"
  <1>2. list \in Seq(Objects) /\ UniqueIds /\ list[Place(i)] \in Objects
    BY <1>1, PlaceIsThere DEF IInv, TypeOK
  <1>3. a \in Asks /\ next \in PCs /\ next # "idle"
    BY <1>2 DEF Asks, OpKinds, Objects, PCs
  <1>4. pc[r] = "idle" /\ ask' = [ask EXCEPT ![r] = a] /\ Goto(r, next)
    BY <1>1 DEF Asking
  <1> HIDE DEF a, next
  <1>5. list' \in Seq(Objects) /\ UniqueIds'
    BY <1>2 DEF Remove, UniqueIds
  <1>6. box' \in [Ids -> {"none", "running", "paused"}]
    BY <1>1 DEF IInv, TypeOK
  <1>7. Changed({}) /\ UNCHANGED <<at, alive, faults>>
    BY DEF Remove
  <1> QED
    BY <1>3, <1>4, <1>5, <1>6, <1>7, AskedIsTyped, ChangeInductive

\* A container comes back, and the array has the updates.
LEMMA RebuildInductive ==
    ASSUME IInv, NEW r \in Requests, Rebuild(r)
    PROVE  IInv'
  <1> DEFINE i == ask[r].id
             changes == [list[Place(i)] EXCEPT
                            !.domain = IF ask[r].op = "rebuild" THEN ask[r].domain ELSE @,
                            !.port = IF ask[r].op = "rebuild" THEN ask[r].port ELSE @,
                            !.status = IF ask[r].op = "restart" THEN "running" ELSE @]
  <1>1. /\ list \in Seq(Objects) /\ UniqueIds /\ pc[r] = "rebuild" /\ ask[r] \in Asks
        /\ i \in Ids
    BY DEF Rebuild, IInv, TypeOK, Asks
  <1>2. list' \in Seq(Objects) /\ UniqueIds'
    <2>1. CASE ~Stored(i)
      BY <1>1, <2>1 DEF Rebuild, UniqueIds
    <2>2. CASE Stored(i)
      <3>1. list[Place(i)] \in Objects /\ list[Place(i)].id = i
        BY <1>1, <2>2, PlaceIsThere
      <3>2. changes \in Objects /\ changes.id = i
        BY <1>1, <3>1 DEF Objects, Asks, Statuses
      <3>3. list' = Replaced(i, changes)
        BY <2>2 DEF Rebuild
      <3> HIDE DEF i, changes
      <3> QED
        BY <1>1, <2>2, <3>2, <3>3, UpdateKeeps
    <2> QED
      BY <2>1, <2>2
  <1>3. box' \in [Ids -> {"none", "running", "paused"}]
    BY <1>1 DEF Rebuild, IInv, TypeOK
  <1>4. /\ Goto(r, "inspect") /\ "inspect" \in PCs /\ Changed({r})
        /\ UNCHANGED <<ask, at, alive, faults>>
    BY DEF Rebuild, PCs
  <1> QED
    BY <1>1, <1>2, <1>3, <1>4, GoneOnIsTyped, ChangeInductive

\* A proxy leaves the array.
LEMMA SpliceInductive ==
    ASSUME IInv, NEW r \in Requests, Splice(r)
    PROVE  IInv'
  <1> DEFINE i == ask[r].id
  <1>1. list \in Seq(Objects) /\ UniqueIds /\ pc[r] = "splice"
    BY DEF Splice, IInv, TypeOK
  <1>2. list' \in Seq(Objects) /\ UniqueIds'
    <2>1. CASE ~Stored(i)
      BY <1>1, <2>1 DEF Splice, UniqueIds
    <2>2. CASE Stored(i)
      <3>1. Place(i) \in DOMAIN list
        BY <1>1, <2>2, PlaceIsThere
      <3>2. list' = SubSeq(list, 1, Place(i) - 1) \o SubSeq(list, Place(i) + 1, Len(list))
        BY <2>2 DEF Splice
      <3> QED
        BY <1>1, <3>1, <3>2, SplicedKeeps
    <2> QED
      BY <2>1, <2>2
  <1>3. box' \in [Ids -> {"none", "running", "paused"}]
    BY DEF Splice, IInv, TypeOK
  <1>4. /\ Goto(r, "inspect") /\ "inspect" \in PCs /\ Changed({r})
        /\ UNCHANGED <<ask, at, alive, faults>>
    BY DEF Splice, PCs
  <1> QED
    BY <1>1, <1>2, <1>3, <1>4, GoneOnIsTyped, ChangeInductive

\* A container is paused or goes on, and the object says so.
LEMMA PauseInductive ==
    ASSUME IInv, NEW r \in Requests, Pause(r)
    PROVE  IInv'
  <1>1. PICK i \in Ids, op \in {"pause", "unpause"} :
            /\ Stored(i)
            /\ Asking(r, [op |-> op, id |-> i, domain |-> list[Place(i)].domain,
                          port |-> list[Place(i)].port, limit |-> list[Place(i)].limit])
            /\ box' = [box EXCEPT ![i] = IF op = "pause" THEN "paused" ELSE "running"]
            /\ list' = Replaced(i, [list[Place(i)] EXCEPT
                                      !.status = IF op = "pause" THEN "paused" ELSE "running"])
    BY DEF Pause
  <1> DEFINE a == [op |-> op, id |-> i, domain |-> list[Place(i)].domain,
                   port |-> list[Place(i)].port, limit |-> list[Place(i)].limit]
             changes == [list[Place(i)] EXCEPT
                           !.status = IF op = "pause" THEN "paused" ELSE "running"]
  <1>2. /\ list \in Seq(Objects) /\ UniqueIds
        /\ list[Place(i)] \in Objects /\ list[Place(i)].id = i
    BY <1>1, PlaceIsThere DEF IInv, TypeOK
  <1>3. a \in Asks /\ changes \in Objects /\ changes.id = i
    BY <1>2 DEF Asks, OpKinds, Objects, Statuses
  <1>4. pc[r] = "idle" /\ ask' = [ask EXCEPT ![r] = a] /\ list' = Replaced(i, changes)
    BY <1>1 DEF Asking
  <1> HIDE DEF a, changes
  <1>5. list' \in Seq(Objects) /\ UniqueIds'
    BY <1>1, <1>2, <1>3, <1>4, UpdateKeeps
  <1>6. box' \in [Ids -> {"none", "running", "paused"}]
    BY <1>1 DEF IInv, TypeOK
  <1>7. /\ Goto(r, "done") /\ "done" \in PCs /\ Changed({})
        /\ UNCHANGED <<at, alive, faults>>
    BY DEF Pause, PCs
  <1> QED
    BY <1>3, <1>4, <1>5, <1>6, <1>7, AskedIsTyped, ChangeInductive

\* The status of a container goes into the object.
LEMMA RefreshStatusInductive ==
    ASSUME IInv, NEW k \in 1..Len(list), RefreshStatus(k)
    PROVE  IInv'
  <1> DEFINE new == [list[k] EXCEPT !.status = MappedStatus(box[list[k].id])]
  <1>1. list \in Seq(Objects) /\ UniqueIds /\ k \in DOMAIN list /\ list[k] \in Objects
    BY PresentIsList DEF RefreshStatus, IInv, TypeOK
  <1>2. box[list[k].id] \in {"none", "running", "paused"}
    BY <1>1 DEF IInv, TypeOK, Objects
  <1>3. new \in Objects /\ new.id = list[k].id
    BY <1>1, <1>2 DEF Objects, MappedStatus, Statuses
  <1>4. list' = [list EXCEPT ![k] = new]
    BY DEF RefreshStatus
  <1> HIDE DEF new
  <1>5. list' \in Seq(Objects) /\ UniqueIds'
    BY <1>1, <1>3, <1>4, ReplacedKeeps
  <1>6. /\ Changed({}) /\ UNCHANGED <<box, pc, ask, at, alive, faults>>
    BY DEF RefreshStatus
  <1>7. /\ box' \in [Ids -> {"none", "running", "paused"}] /\ pc' \in [Requests -> PCs]
        /\ \A q \in Requests : pc'[q] # "idle" => ask'[q] \in Asks
        /\ ask' = [q \in Requests |-> ask'[q]]
    BY <1>6 DEF IInv, TypeOK, FunctionsOfRequests
  <1> QED
    BY <1>5, <1>6, <1>7, ChangeInductive

\* A turn of the loop keeps what it passes, if its container is there.
LEMMA InspectInductive ==
    ASSUME IInv, NEW r \in Requests, Inspect(r)
    PROVE  IInv'
  <1> DEFINE n == at[r] + 1
             p == list[n]
  <1>1. list \in Seq(Objects) /\ at[r] \in Nat /\ n \in DOMAIN list /\ p \in Objects
    <2>1. list \in Seq(Objects) /\ at[r] \in Nat /\ ~(at[r] >= Len(list))
      BY DEF Inspect, LoopEnds, IInv, TypeOK
    <2> QED
      BY <2>1
  <1>2. /\ pc[r] = "inspect" /\ at' = [at EXCEPT ![r] = n]
        /\ alive' = [alive EXCEPT ![r] = IF box[p.id] = "none" THEN @ ELSE Kept(@, n, p)]
        /\ UNCHANGED <<list, box, file, force, pc, ask, fresh, freshFile, freshForce, faults>>
    BY DEF Inspect, ghosts
  <1> HIDE DEF p, n
  <1>3. at'[r] = n /\ n = at[r] + 1 /\ n \in Nat
    BY <1>1, <1>2 DEF IInv, TypeOK, n
  <1>4. /\ alive'[r] = IF box[p.id] = "none" THEN alive[r] ELSE Kept(alive[r], n, p)
        /\ \A q \in Requests \ {r} : alive'[q] = alive[q] /\ at'[q] = at[q]
        /\ alive' = [q \in Requests |-> alive'[q]] /\ at' \in [Requests -> Nat]
    BY <1>2, <1>3 DEF IInv, FunctionsOfRequests, TypeOK
  <1>5. TypeOK'
    <2>1. \A q \in Requests : DOMAIN alive'[q] \subseteq 1..at'[q]
      BY <1>1, <1>3, <1>4 DEF Kept, IInv, TypeOK
    <2>2. \A q \in Requests : \A k \in DOMAIN alive'[q] : alive'[q][k] \in Objects
      <3>1. \A q \in Requests : \A k \in DOMAIN alive[q] : alive[q][k] \in Objects
        BY DEF IInv, TypeOK
      <3>2. \A k \in DOMAIN Kept(alive[r], n, p) : Kept(alive[r], n, p)[k] \in Objects
        BY <1>1, <3>1 DEF Kept
      <3> QED
        BY <1>4, <3>1, <3>2
    <2> QED
      BY <1>2, <1>4, <2>1, <2>2 DEF IInv, TypeOK
  <1>6. UniqueIds' /\ FunctionsOfRequests' /\ LoopNotBegun'
    BY <1>2, <1>4 DEF IInv, UniqueIds, FunctionsOfRequests, LoopNotBegun
  <1>7. FreshHasKept'
    <2> SUFFICES ASSUME NEW q \in fresh, pc[q] = "inspect"
                 PROVE  alive'[q] = PresentUpTo(at'[q])
      BY <1>2, SamePresent DEF FreshHasKept
    <2>1. alive[q] = PresentUpTo(at[q]) /\ q \in Requests
      BY DEF IInv, FreshHasKept, TypeOK
    <2>2. CASE q # r
      BY <1>4, <2>1, <2>2
    <2>3. CASE q = r /\ box[p.id] = "none"
      <3>1. {j \in DOMAIN list : j <= n /\ box[list[j].id] # "none"}
                = {j \in DOMAIN list : j <= at[r] /\ box[list[j].id] # "none"}
        BY <1>1, <1>3, <2>3 DEF p
      <3>2. PresentUpTo(n) = PresentUpTo(at[r])
        BY <3>1 DEF PresentUpTo
      <3> QED
        BY <1>3, <1>4, <2>1, <2>3, <3>2
    <2>4. CASE q = r /\ box[p.id] # "none"
      <3>1. {j \in DOMAIN list : j <= n /\ box[list[j].id] # "none"}
                = {j \in DOMAIN list : j <= at[r] /\ box[list[j].id] # "none"} \cup {n}
        BY <1>1, <1>3, <2>4 DEF p
      <3>2. PresentUpTo(n) = Kept(PresentUpTo(at[r]), n, p)
        BY <3>1 DEF PresentUpTo, Kept, p
      <3> QED
        BY <1>3, <1>4, <2>1, <2>4, <3>2
    <2> QED
      BY <2>2, <2>3, <2>4
  <1>8. FreshFileIsPresent' /\ FreshForceIsPresent'
    BY <1>2, SamePresent DEF IInv, FreshFileIsPresent, FreshForceIsPresent
  <1> QED
    BY <1>5, <1>6, <1>7, <1>8 DEF IInv

\* The upload of a loop that began after the last change is the array as it is.
LEMMA FreshReachesPresent ==
    ASSUME IInv, NEW r \in fresh, pc[r] = "inspect", LoopEnds(r)
    PROVE  ReachableProxies(r) = Present
  <1>1. list \in Seq(Objects) /\ UniqueIds /\ at[r] \in Nat /\ at[r] >= Len(list)
    BY DEF LoopEnds, IInv, TypeOK
  <1>2. alive[r] = PresentUpTo(at[r])
    BY DEF IInv, FreshHasKept
  <1>3. \A k \in DOMAIN list : k <= at[r]
    BY <1>1
  <1>4. alive[r] = Present
    BY <1>2, <1>3 DEF PresentUpTo, Present
  <1>5. \A k \in DOMAIN Present : k \in DOMAIN list /\ Present[k] = list[k]
                                  /\ box[Present[k].id] # "none"
    BY DEF Present
  <1>6. \A k \in DOMAIN Present : ByNow(Present[k]) = Present[k]
    BY <1>1, <1>5, PlaceOfId DEF ByNow
  <1>7. {j \in DOMAIN Present : box[Present[j].id] # "none"} = DOMAIN Present
    BY <1>5
  <1>8. Present = [k \in DOMAIN Present |-> Present[k]]
    BY DEF Present
  <1> QED
    BY <1>4, <1>6, <1>7, <1>8 DEF ReachableProxies

\* The file is written.
LEMMA UploadInductive ==
    ASSUME IInv, NEW r \in Requests, Upload(r)
    PROVE  IInv'
  <1>1. /\ pc[r] = "inspect" /\ LoopEnds(r) /\ file' = Generate(ReachableProxies(r))
        /\ (freshFile' <=> r \in fresh) /\ freshFile' \in BOOLEAN
        /\ Goto(r, "reload") /\ "reload" \in PCs
        /\ alive' = [alive EXCEPT ![r] = <<>>] /\ at' = [at EXCEPT ![r] = 0]
        /\ UNCHANGED <<list, box, force, ask, fresh, freshForce, faults>>
    <2>1. freshFile' = (r \in fresh)
      BY DEF Upload
    <2>2. CASE r \in fresh
      <3>1. (r \in fresh) = TRUE
        BY <2>2
      <3> QED
        BY <2>1, <2>2, <3>1 DEF Upload, PCs
    <2>3. CASE r \notin fresh
      <3>1. (r \in fresh) = FALSE
        BY <2>3
      <3> QED
        BY <2>1, <2>3, <3>1 DEF Upload, PCs
    <2> QED
      BY <2>2, <2>3
  <1>2. /\ pc' \in [Requests -> PCs]
        /\ \A q \in Requests : pc'[q] # "idle" => ask'[q] \in Asks
        /\ ask' = [q \in Requests |-> ask'[q]]
        /\ pc'[r] = "reload" /\ \A q \in Requests \ {r} : pc'[q] = pc[q]
    BY <1>1, GoneOnIsTyped
  <1>3. /\ alive'[r] = <<>> /\ \A q \in Requests \ {r} : alive'[q] = alive[q] /\ at'[q] = at[q]
        /\ alive' = [q \in Requests |-> alive'[q]] /\ at' \in [Requests -> Nat]
    BY <1>1 DEF IInv, TypeOK, FunctionsOfRequests
  <1>4. TypeOK'
    <2>1. \A q \in Requests : /\ DOMAIN alive'[q] \subseteq 1..at'[q]
                              /\ \A k \in DOMAIN alive'[q] : alive'[q][k] \in Objects
      BY <1>3 DEF IInv, TypeOK
    <2> QED
      BY <1>1, <1>2, <1>3, <2>1 DEF IInv, TypeOK
  <1>5. UniqueIds' /\ FunctionsOfRequests' /\ LoopNotBegun'
    BY <1>1, <1>2, <1>3 DEF IInv, UniqueIds, FunctionsOfRequests, LoopNotBegun
  <1>6. FreshHasKept'
    <2> SUFFICES ASSUME NEW q \in fresh, pc'[q] = "inspect"
                 PROVE  alive'[q] = PresentUpTo(at'[q])
      BY <1>1, SamePresent DEF FreshHasKept
    <2>1. q \in Requests \ {r} /\ pc[q] = "inspect"
      BY <1>2 DEF IInv, TypeOK
    <2> QED
      BY <1>3, <2>1 DEF IInv, FreshHasKept
  <1>7. FreshFileIsPresent' /\ FreshForceIsPresent'
    BY <1>1, SamePresent, FreshReachesPresent DEF IInv, FreshFileIsPresent,
           FreshForceIsPresent
  <1> QED
    BY <1>4, <1>5, <1>6, <1>7 DEF IInv

\* nginx takes the file, or keeps what it has.
LEMMA ReloadInductive ==
    ASSUME IInv, NEW r \in Requests, Reload(r)
    PROVE  IInv'
  <1>1. /\ pc[r] = "reload" /\ Goto(r, "done") /\ "done" \in PCs
        /\ \/ Accepted(file) /\ force' = file /\ freshForce' = freshFile
           \/ UNCHANGED <<force, freshForce>>
        /\ UNCHANGED <<list, box, file, ask, at, alive, fresh, freshFile, faults>>
    BY DEF Reload, PCs
  <1>2. /\ pc' \in [Requests -> PCs]
        /\ \A q \in Requests : pc'[q] # "idle" => ask'[q] \in Asks
        /\ ask' = [q \in Requests |-> ask'[q]]
        /\ pc'[r] = "done" /\ \A q \in Requests \ {r} : pc'[q] = pc[q]
    BY <1>1, GoneOnIsTyped
  <1>3. TypeOK'
    BY <1>1, <1>2 DEF IInv, TypeOK
  <1>4. UniqueIds' /\ FunctionsOfRequests' /\ LoopNotBegun'
    BY <1>1, <1>2 DEF IInv, UniqueIds, FunctionsOfRequests, LoopNotBegun
  <1>5. FreshHasKept'
    <2> SUFFICES ASSUME NEW q \in fresh, pc'[q] = "inspect"
                 PROVE  alive[q] = PresentUpTo(at[q])
      BY <1>1, SamePresent DEF FreshHasKept
    <2>1. q \in Requests \ {r}
      BY <1>2 DEF IInv, TypeOK
    <2> QED
      BY <1>2, <2>1 DEF IInv, FreshHasKept
  <1>6. FreshFileIsPresent' /\ FreshForceIsPresent'
    BY <1>1, SamePresent DEF IInv, FreshFileIsPresent, FreshForceIsPresent
  <1> QED
    BY <1>3, <1>4, <1>5, <1>6 DEF IInv

\* The request ends.
LEMMA RebuildFailsInductive ==
    ASSUME IInv, NEW r \in Requests, RebuildFails(r)
    PROVE  IInv'
  <1>1. /\ pc[r] = "rebuild" /\ Goto(r, "failed") /\ "failed" \in PCs
        /\ UNCHANGED <<list, box, file, force, ask, at, alive, fresh, freshFile, freshForce,
                       faults>>
    BY DEF RebuildFails, PCs, ghosts
  <1>2. /\ pc' \in [Requests -> PCs]
        /\ \A q \in Requests : pc'[q] # "idle" => ask'[q] \in Asks
        /\ ask' = [q \in Requests |-> ask'[q]]
        /\ pc'[r] = "failed" /\ \A q \in Requests \ {r} : pc'[q] = pc[q]
    BY <1>1, GoneOnIsTyped
  <1>3. TypeOK'
    BY <1>1, <1>2 DEF IInv, TypeOK
  <1>4. UniqueIds' /\ FunctionsOfRequests' /\ LoopNotBegun'
    BY <1>1, <1>2 DEF IInv, UniqueIds, FunctionsOfRequests, LoopNotBegun
  <1>5. FreshHasKept'
    <2> SUFFICES ASSUME NEW q \in fresh, pc'[q] = "inspect"
                 PROVE  alive[q] = PresentUpTo(at[q])
      BY <1>1, SamePresent DEF FreshHasKept
    <2>1. q \in Requests \ {r}
      BY <1>2 DEF IInv, TypeOK
    <2> QED
      BY <1>2, <2>1 DEF IInv, FreshHasKept
  <1>6. FreshFileIsPresent' /\ FreshForceIsPresent'
    BY <1>1, SamePresent DEF IInv, FreshFileIsPresent, FreshForceIsPresent
  <1> QED
    BY <1>3, <1>4, <1>5, <1>6 DEF IInv

\* An update that fails takes the container of a create with it, and whoever was fresh
\* is no more; another leaves all as it was.
LEMMA UpdateFailsInductive ==
    ASSUME IInv, NEW r \in Requests, UpdateFails(r)
    PROVE  IInv'
  <1>1. /\ pc[r] \in {"inspect", "reload"} /\ Goto(r, "failed") /\ "failed" \in PCs
        /\ alive' = [alive EXCEPT ![r] = <<>>] /\ at' = [at EXCEPT ![r] = 0]
        /\ faults < MaxFaults /\ faults' = faults + 1
        /\ \/ /\ box' = [box EXCEPT ![ask[r].id] = "none"]
              /\ Changed({})
           \/ UNCHANGED <<box, fresh, freshFile, freshForce>>
        /\ UNCHANGED <<list, file, force, ask>>
    BY DEF UpdateFails, PCs, ghosts
  <1>2. /\ pc' \in [Requests -> PCs]
        /\ \A q \in Requests : pc'[q] # "idle" => ask'[q] \in Asks
        /\ ask' = [q \in Requests |-> ask'[q]]
        /\ pc'[r] = "failed" /\ \A q \in Requests \ {r} : pc'[q] = pc[q]
    BY <1>1, GoneOnIsTyped
  <1>3. /\ alive'[r] = <<>> /\ \A q \in Requests \ {r} : alive'[q] = alive[q] /\ at'[q] = at[q]
        /\ alive' = [q \in Requests |-> alive'[q]] /\ at' \in [Requests -> Nat]
    BY <1>1 DEF IInv, TypeOK, FunctionsOfRequests
  <1>4. TypeOK'
    <2>1. \A q \in Requests : /\ DOMAIN alive'[q] \subseteq 1..at'[q]
                              /\ \A k \in DOMAIN alive'[q] : alive'[q][k] \in Objects
      BY <1>3 DEF IInv, TypeOK
    <2>2. faults' \in 0..MaxFaults
      BY <1>1, BoundsAssumption DEF IInv, TypeOK
    <2>3. /\ box' \in [Ids -> {"none", "running", "paused"}]
          /\ fresh' \subseteq Requests
          /\ freshFile' \in BOOLEAN /\ freshForce' \in BOOLEAN
      BY <1>1 DEF IInv, TypeOK, Changed
    <2> QED
      BY <1>1, <1>2, <1>3, <2>1, <2>2, <2>3 DEF IInv, TypeOK
  <1>5. UniqueIds' /\ FunctionsOfRequests' /\ LoopNotBegun'
    BY <1>1, <1>2, <1>3 DEF IInv, UniqueIds, FunctionsOfRequests, LoopNotBegun
  <1>6. CASE Changed({})
    <2>1. list' \in Seq(Objects)
      BY <1>1 DEF IInv, TypeOK
    <2>2. (FreshHasKept /\ FreshFileIsPresent /\ FreshForceIsPresent)'
      BY <1>6, <2>1, ChangeKeepsFresh
    <2> QED
      BY <1>4, <1>5, <2>2 DEF IInv
  <1>7. CASE UNCHANGED <<box, fresh, freshFile, freshForce>>
    <2>1. FreshHasKept'
      <3> SUFFICES ASSUME NEW q \in fresh, pc'[q] = "inspect"
                   PROVE  alive'[q] = PresentUpTo(at'[q])
        BY <1>1, <1>7, SamePresent DEF FreshHasKept
      <3>1. q \in Requests \ {r}
        BY <1>2 DEF IInv, TypeOK
      <3> QED
        BY <1>2, <1>3, <3>1 DEF IInv, FreshHasKept
    <2>2. FreshFileIsPresent' /\ FreshForceIsPresent'
      BY <1>1, <1>7, SamePresent DEF IInv, FreshFileIsPresent, FreshForceIsPresent
    <2> QED
      BY <1>4, <1>5, <2>1, <2>2 DEF IInv
  <1> QED
    BY <1>1, <1>6, <1>7

\* A stuttering step changes none of the variables the invariant reads.
LEMMA StutteringInductive ==
    ASSUME IInv, UNCHANGED vars
    PROVE  IInv'
  <1>1. TypeOK' /\ UniqueIds' /\ FunctionsOfRequests' /\ LoopNotBegun'
    BY DEF IInv, vars, TypeOK, UniqueIds, FunctionsOfRequests, LoopNotBegun
  <1>2. FreshHasKept' /\ FreshFileIsPresent' /\ FreshForceIsPresent'
    BY SamePresent DEF IInv, vars, FreshHasKept, FreshFileIsPresent, FreshForceIsPresent
  <1> QED
    BY <1>1, <1>2 DEF IInv

\* IInv holds in every reachable state.
LEMMA Inductive == Spec => []IInv
  <1>1. IInv /\ [Next]_vars => IInv'
    BY CreateInductive, EditInductive, RemoveInductive, RebuildInductive, RebuildFailsInductive,
       SpliceInductive, PauseInductive, InspectInductive, UploadInductive, ReloadInductive,
       UpdateFailsInductive, RefreshStatusInductive, StutteringInductive
       DEF Next
  <1> QED
    BY <1>1, InitInductive, PTL DEF Spec
-----------------------------------------------------------------------------
\* The array, the containers and the requests have the values NginxRoutes.TypeOK names,
\* every status that listProxies writes among them (proxy.ts, nginx.ts).
THEOREM TypeCorrect == Spec => []TypeOK
  <1>1. IInv => TypeOK
    BY DEF IInv
  <1> QED
    BY <1>1, Inductive, PTL

\* A fresh file for an array with unique domains has neither a key of the map nor a
\* loopback address twice (generateNginxConfig).
THEOREM OnlyDuplicatesAreRefused == Spec => []RefusedMeansDuplicate
  <1>1. IInv => RefusedMeansDuplicate
    <2> SUFFICES ASSUME IInv, freshFile, UniqueSharedDomains(list) PROVE Accepted(file)
      BY DEF RefusedMeansDuplicate
    <2>1. list \in Seq(Objects) /\ file = Generate(Present)
      BY DEF IInv, TypeOK, FreshFileIsPresent
    <2>2. OneEntry(Present)
      BY DEF Present, OneEntry, SharedProxies, Running, UniqueSharedDomains
    <2> QED
      BY <2>1, <2>2, PresentIsList, LoopbacksDiffer, AcceptedLists
  <1> QED
    BY <1>1, Inductive, PTL

\* Where a configuration made from the array as it is leads a proxy with an entry of its
\* own: to itself if it runs, nowhere if not.
LEMMA PresentRoutes ==
    ASSUME list \in Seq(Objects), UniqueIds, Accepted(Generate(Present)),
           NEW k \in DOMAIN list, OwnEntry(list[k])
    PROVE  Route(Generate(Present), list[k]) =
               IF Served(list[k]) THEN [to |-> list[k].id, limit |-> list[k].limit]
               ELSE [to |-> Fallback, limit |-> 0]
  <1> DEFINE p == list[k]
  <1>1. IsList(Present) /\ OneEntry(Present) /\ OneLoopback(Present)
    BY PresentIsList, AcceptedLists
  <1>2. /\ SharedProxies(Present) =
             {j \in DOMAIN list : Served(list[j]) /\ list[j].port = Shared}
        /\ PortProxies(Present) =
             {j \in DOMAIN list : Served(list[j]) /\ list[j].port # Shared}
        /\ \A j \in SharedProxies(Present) \cup PortProxies(Present) : Present[j] = list[j]
    BY DEF SharedProxies, PortProxies, Running, Present, Served
  <1>3. \A j \in DOMAIN list : j # k =>
            ~(list[j].port = p.port /\ (p.port = Shared => list[j].domain = p.domain))
    BY DEF OwnEntry, UniqueIds
  <1>4. CASE p.port = Shared /\ Served(p)
    <2>1. k \in SharedProxies(Present) /\ Present[k] = p
      BY <1>2, <1>4
    <2>2. RouteBySni(Generate(Present), Present[k].domain)
              = [to |-> Present[k].id, limit |-> Present[k].limit]
      BY <1>1, <2>1, EntryOfProxy
    <2> QED
      BY <1>4, <2>1, <2>2 DEF Route
  <1>5. CASE p.port = Shared /\ ~Served(p)
    <2>1. \A j \in SharedProxies(Present) : Present[j].domain # p.domain
      BY <1>2, <1>3, <1>5
    <2> QED
      BY <1>5, <2>1, NoEntry DEF Route
  <1>6. CASE p.port # Shared /\ Served(p)
    <2>1. k \in PortProxies(Present) /\ Present[k] = p
      BY <1>2, <1>6
    <2>2. \A j \in PortProxies(Present) : Present[j].port = Present[k].port => j = k
      BY <1>2, <1>3, <1>6, <2>1
    <2>3. RouteByPort(Generate(Present), Present[k].port)
              = [to |-> Present[k].id, limit |-> Present[k].limit]
      BY <1>1, <2>1, <2>2, PortOfProxy
    <2> QED
      BY <1>6, <2>1, <2>3 DEF Route
  <1>7. CASE p.port # Shared /\ ~Served(p)
    <2>1. \A j \in PortProxies(Present) : Present[j].port # p.port
      BY <1>2, <1>3, <1>7
    <2> QED
      BY <1>7, <2>1, NoPort DEF Route
  <1> QED
    BY <1>4, <1>5, <1>6, <1>7

\* However the requests of a node interleave, an update of nginx that begins after the
\* last change leads every running proxy's link to its container with its limit, and
\* that of any other to the fallback page (updateNginxConfig, generateNginxConfig).
THEOREM FreshUpdatesRouteRight == Spec => []FreshConfigIsRight
  <1>1. IInv => FreshConfigIsRight
    <2> SUFFICES ASSUME IInv, freshForce, NEW k \in DOMAIN list, OwnEntry(list[k])
                 PROVE  Route(force, list[k]) =
                            IF Served(list[k]) THEN [to |-> list[k].id, limit |-> list[k].limit]
                            ELSE [to |-> Fallback, limit |-> 0]
      BY DEF FreshConfigIsRight
    <2>1. /\ list \in Seq(Objects) /\ UniqueIds
          /\ force = Generate(Present) /\ Accepted(Generate(Present))
      BY DEF IInv, TypeOK, FreshForceIsPresent
    <2> QED
      BY <2>1, PresentRoutes
  <1> QED
    BY <1>1, Inductive, PTL
-----------------------------------------------------------------------------
(* NodeHistory: the stream of the log.                                     *)

\* What Docker sends.
Parts == {Type, Size(1), Size(2)} \cup {Half(line, FALSE) : line \in Lines}
             \cup {Half(line, TRUE) : line \in Lines}

\* How long the stream of n lines is, and how many lines are whole after c parts of it.
LengthOf(n) == 10 * (n \div 2) + 4 * (n % 2)
WholeBy(c) == 2 * (c \div 10) + IF c % 10 >= 4 THEN 1 ELSE 0

\* Part m of the stream of the lines s: two lines take ten parts.
PartAt(s, m) ==
    IF m % 10 \in {1, 5, 8} THEN Type
    ELSE IF m % 10 = 2 THEN Size(2)
    ELSE IF m % 10 \in {6, 9} THEN Size(1)
    ELSE IF m % 10 \in {3, 7} THEN Half(s[WholeBy(m - 1) + 1], FALSE)
    ELSE Half(s[WholeBy(m - 1) + 1], TRUE)

\* The watcher is at a frame of the stream, with this in its buffers.
Stands(s, cut, raw, text) ==
    /\ cut \in Nat
    /\ cut % 10 \in {0, 4, 7}
    /\ raw \in Seq(Parts)
    /\ cut + Len(raw) <= LengthOf(Len(s))
    /\ \A i \in 1..Len(raw) : raw[i] = PartAt(s, cut + i)
    /\ text = IF cut % 10 = 7 THEN <<PartAt(s, cut)>> ELSE <<>>

\* Each place of the stream is past as many whole lines as there are.
LEMMA LengthType == \A n \in Nat : LengthOf(n) \in Nat
  BY DEF LengthOf

\* The line of each half is one of those the stream was made of.
LEMMA LineThere ==
    ASSUME NEW n \in Nat, NEW m \in Nat, m <= LengthOf(n), m > 0
    PROVE  /\ WholeBy(m - 1) \in Nat
           /\ WholeBy(m - 1) + 1 \in 1..n
           /\ m % 10 \in 0..9
  BY DEF LengthOf, WholeBy

\* No more lines are whole than were logged.
LEMMA WholeBound ==
    ASSUME NEW n \in Nat, NEW c \in Nat, c <= LengthOf(n)
    PROVE  WholeBy(c) \in Nat /\ WholeBy(c) <= n
  BY DEF LengthOf, WholeBy

\* Two sequences, one after the other, place by place.
LEMMA ConcatParts ==
    ASSUME NEW S, NEW a \in Seq(S), NEW b \in Seq(S), NEW c, c = a \o b
    PROVE  /\ c \in Seq(S) /\ Len(c) = Len(a) + Len(b)
           /\ \A i \in 1..Len(a) : c[i] = a[i]
           /\ \A i \in 1..Len(b) : c[Len(a) + i] = b[i]
  <1>1. Len(a) \in Nat /\ Len(b) \in Nat
    BY LenProperties
  <1>2. /\ c \in Seq(S) /\ Len(c) = Len(a) + Len(b)
        /\ \A i \in 1..Len(a) + Len(b) : c[i] = IF i <= Len(a) THEN a[i] ELSE b[i - Len(a)]
    BY ConcatProperties
  <1>3. ASSUME NEW i \in 1..Len(b) PROVE c[Len(a) + i] = b[i]
    <2>1. /\ Len(a) + i \in 1..Len(a) + Len(b)
          /\ ~(Len(a) + i <= Len(a)) /\ (Len(a) + i) - Len(a) = i
      BY <1>1
    <2> QED
      BY <1>2, <2>1
  <1>4. ASSUME NEW i \in 1..Len(a) PROVE c[i] = a[i]
    BY <1>1, <1>2
  <1> QED
    BY <1>2, <1>3, <1>4

\* The stream is made of parts.
LEMMA PartType ==
    ASSUME NEW s \in Seq(Lines), NEW m \in Nat, m > 0, m <= LengthOf(Len(s))
    PROVE  PartAt(s, m) \in Parts
  <1>1. WholeBy(m - 1) + 1 \in 1..Len(s)
    BY LineThere, LenProperties
  <1>2. s[WholeBy(m - 1) + 1] \in Lines
    BY <1>1, ElementOfSeq
  <1> QED
    BY <1>2 DEF PartAt, Parts

\* A line that comes in two halves.
LEMMA SplitWhole ==
    ASSUME NEW line \in Lines
    PROVE  /\ LinesOf(<<Half(line, FALSE), Half(line, TRUE)>>) = <<line>>
           /\ RestOf(<<Half(line, FALSE), Half(line, TRUE)>>) = <<>>
  <1> DEFINE text == <<Half(line, FALSE), Half(line, TRUE)>>
  <1>1. /\ DOMAIN text = {1, 2} /\ Len(text) = 2
        /\ text[1] = Half(line, FALSE) /\ text[2] = Half(line, TRUE)
    OBVIOUS
  <1> HIDE DEF text
  <1>2. text[1].end = FALSE /\ text[2].end = TRUE /\ text[2].line = line
    BY <1>1 DEF Half
  <1>3. Ends(text) = {2}
    BY <1>1, <1>2 DEF Ends
  <1>4. Whole(text) = {2}
    <2>1. text[2-1] = text[1] /\ 2 > 1
      OBVIOUS
    <2>2. text[2-1] = Half(text[2].line, FALSE)
      BY <1>1, <1>2, <2>1, Zenon
    <2> QED
      BY <1>3, <2>1, <2>2, Zenon DEF Whole
  <1>5. Cardinality(Whole(text)) = 1
    BY <1>4, FS_Singleton
  <1>6. {m \in Whole(text) : m <= 2} = {2}
    BY <1>4
  <1>7. Cardinality({m \in Whole(text) : m <= 2}) = 1
    BY <1>6, FS_Singleton
  <1>8. (CHOOSE k \in Whole(text) : Cardinality({m \in Whole(text) : m <= k}) = 1) = 2
    BY <1>4, <1>7
  <1>9. LinesOf(text) = [j \in 1..1 |-> line]
    <2>1. \A j \in 1..1 :
             text[CHOOSE k \in Whole(text) : Cardinality({m \in Whole(text) : m <= k}) = j].line
               = line
      <3> SUFFICES ASSUME NEW j \in 1..1
                   PROVE  text[CHOOSE k \in Whole(text) :
                                 Cardinality({m \in Whole(text) : m <= k}) = j].line = line
        OBVIOUS
      <3>1. j = 1
        OBVIOUS
      <3> QED
        BY <1>2, <1>8, <3>1, Zenon
    <2> QED
      BY <1>5, <2>1 DEF LinesOf
  <1>10. LinesOf(text) = <<line>>
    BY <1>9
  <1>11. Max(Ends(text) \cup {0}) = 2
    BY <1>3 DEF Max
  <1>12. RestOf(text) = <<>>
    BY <1>1, <1>11 DEF RestOf
  <1> QED
    BY <1>10, <1>12 DEF text

\* The first half of a line stays in the text.
LEMMA SplitHalf ==
    ASSUME NEW line \in Lines
    PROVE  /\ LinesOf(<<Half(line, FALSE)>>) = <<>>
           /\ RestOf(<<Half(line, FALSE)>>) = <<Half(line, FALSE)>>
  <1> DEFINE text == <<Half(line, FALSE)>>
  <1>1. /\ DOMAIN text = {1} /\ Len(text) = 1
        /\ text[1] = Half(line, FALSE) /\ text \in Seq({Half(line, FALSE)})
    OBVIOUS
  <1> HIDE DEF text
  <1>2. text[1].end = FALSE
    BY <1>1 DEF Half
  <1>3. Ends(text) = {} /\ Whole(text) = {}
    BY <1>1, <1>2 DEF Ends, Whole
  <1>4. Cardinality(Whole(text)) = 0
    BY <1>3, FS_EmptySet
  <1>5. LinesOf(text) = <<>>
    BY <1>4 DEF LinesOf
  <1>6. Max(Ends(text) \cup {0}) = 0
    BY <1>3 DEF Max
  <1>7. RestOf(text) = SubSeq(text, 1, Len(text))
    BY <1>1, <1>6 DEF RestOf
  <1>8. RestOf(text) = text
    BY <1>1, <1>7
  <1> QED
    BY <1>5, <1>8 DEF text

\* The cases of PartAt, each for itself.
LEMMA PartIs ==
    ASSUME NEW s, NEW m \in Nat
    PROVE  /\ m % 10 \in {1, 5, 8} => PartAt(s, m) = Type
           /\ m % 10 = 2 => PartAt(s, m) = Size(2)
           /\ m % 10 \in {6, 9} => PartAt(s, m) = Size(1)
           /\ m % 10 \in {3, 7} => PartAt(s, m) = Half(s[WholeBy(m - 1) + 1], FALSE)
           /\ m % 10 \in {4, 0} => PartAt(s, m) = Half(s[WholeBy(m - 1) + 1], TRUE)
  <1> DEFINE r == m % 10
             half == Half(s[WholeBy(m - 1) + 1], FALSE)
             ended == Half(s[WholeBy(m - 1) + 1], TRUE)
  <1>1. r \in 0..9
    OBVIOUS
  <1>2. PartAt(s, m) = IF r \in {1, 5, 8} THEN Type
                       ELSE IF r = 2 THEN Size(2)
                       ELSE IF r \in {6, 9} THEN Size(1)
                       ELSE IF r \in {3, 7} THEN half
                       ELSE ended
    BY Zenon DEF PartAt
  <1> HIDE DEF r, half, ended
  <1>3. /\ r \in {1, 5, 8} => PartAt(s, m) = Type
        /\ r = 2 => PartAt(s, m) = Size(2)
        /\ r \in {6, 9} => PartAt(s, m) = Size(1)
        /\ r \in {3, 7} => PartAt(s, m) = half
        /\ r \in {4, 0} => PartAt(s, m) = ended
    BY <1>1, <1>2
  <1> QED
    BY <1>3 DEF r, half, ended

\* Which line the halves after `cut` are of.
LEMMA HalvesAfter ==
    ASSUME NEW cut \in Nat
    PROVE  /\ cut % 10 = 0 => /\ (cut + 2) % 10 = 2 /\ (cut + 3) % 10 = 3 /\ (cut + 4) % 10 = 4
                              /\ WholeBy((cut + 3) - 1) = WholeBy(cut)
                              /\ WholeBy((cut + 4) - 1) = WholeBy(cut)
           /\ cut % 10 = 4 => /\ (cut + 2) % 10 = 6 /\ (cut + 3) % 10 = 7
                              /\ WholeBy((cut + 3) - 1) = WholeBy(cut)
           /\ cut % 10 = 7 => /\ (cut + 2) % 10 = 9 /\ (cut + 3) % 10 = 0
                              /\ WholeBy((cut + 3) - 1) = WholeBy(cut)
                              /\ WholeBy(cut - 1) = WholeBy(cut)
  BY DEF WholeBy

\* The lines given since the line `base` are those of the stream, up to `cut`.
Gives(s, base, cut, lines) ==
    /\ lines \in Seq(Lines)
    /\ base \in Nat
    /\ base + Len(lines) = WholeBy(cut)
    /\ \A k \in 1..Len(lines) : lines[k] = s[base + k]

\* What the parts of a frame are that begins at `cut`.
LEMMA FrameAt ==
    ASSUME NEW s \in Seq(Lines), NEW cut, NEW raw, NEW text, Stands(s, cut, raw, text),
           Len(raw) >= 2
    PROVE  LET line == s[WholeBy(cut) + 1] IN
           /\ line \in Lines
           /\ cut % 10 = 0 => /\ raw[2] = Size(2) /\ text = <<>>
                              /\ Len(raw) >= 4 => /\ raw[3] = Half(line, FALSE)
                                                  /\ raw[4] = Half(line, TRUE)
           /\ cut % 10 = 4 => /\ raw[2] = Size(1) /\ text = <<>>
                              /\ Len(raw) >= 3 => raw[3] = Half(line, FALSE)
           /\ cut % 10 = 7 => /\ raw[2] = Size(1) /\ text = <<Half(line, FALSE)>>
                              /\ Len(raw) >= 3 => raw[3] = Half(line, TRUE)
  <1> DEFINE line == s[WholeBy(cut) + 1]
             half == Half(line, FALSE)
             ended == Half(line, TRUE)
  <1>1. /\ cut \in Nat /\ cut % 10 \in {0, 4, 7} /\ Len(raw) \in Nat /\ Len(s) \in Nat
        /\ cut + Len(raw) <= LengthOf(Len(s))
        /\ \A i \in 1..Len(raw) : raw[i] = PartAt(s, cut + i)
        /\ text = IF cut % 10 = 7 THEN <<PartAt(s, cut)>> ELSE <<>>
    BY LenProperties DEF Stands
  <1>2. WholeBy(cut) + 1 \in 1..Len(s)
    <2>1. /\ cut + 1 \in Nat /\ cut + 1 > 0
          /\ cut + 1 <= LengthOf(Len(s)) /\ (cut + 1) - 1 = cut
      BY <1>1, LengthType
    <2>2. WholeBy((cut + 1) - 1) + 1 \in 1..Len(s)
      BY <1>1, <2>1, LineThere
    <2> QED
      BY <2>1, <2>2
  <1>3. line \in Lines
    BY <1>2, ElementOfSeq
  <1>4. /\ raw[2] = PartAt(s, cut + 2)
        /\ Len(raw) >= 3 => raw[3] = PartAt(s, cut + 3)
        /\ Len(raw) >= 4 => raw[4] = PartAt(s, cut + 4)
    BY <1>1
  <1>5. /\ cut % 10 = 0 => /\ PartAt(s, cut + 2) = Size(2)
                           /\ PartAt(s, cut + 3) = half
                           /\ PartAt(s, cut + 4) = ended
        /\ cut % 10 = 4 => /\ PartAt(s, cut + 2) = Size(1)
                           /\ PartAt(s, cut + 3) = half
        /\ cut % 10 = 7 => /\ PartAt(s, cut + 2) = Size(1)
                           /\ PartAt(s, cut + 3) = ended
                           /\ PartAt(s, cut) = half
    <2>1. cut + 2 \in Nat /\ cut + 3 \in Nat /\ cut + 4 \in Nat
      BY <1>1
    <2>2. CASE cut % 10 = 0
      <3>1. /\ PartAt(s, cut + 2) = Size(2)
            /\ PartAt(s, cut + 3) = Half(s[WholeBy((cut + 3) - 1) + 1], FALSE)
            /\ PartAt(s, cut + 4) = Half(s[WholeBy((cut + 4) - 1) + 1], TRUE)
        BY <1>1, <2>1, <2>2, PartIs, HalvesAfter
      <3>2. /\ WholeBy((cut + 3) - 1) = WholeBy(cut)
            /\ WholeBy((cut + 4) - 1) = WholeBy(cut)
        BY <1>1, <2>2, HalvesAfter
      <3>3. /\ PartAt(s, cut + 2) = Size(2)
            /\ PartAt(s, cut + 3) = half /\ PartAt(s, cut + 4) = ended
        BY <3>1, <3>2, Zenon
      <3> HIDE DEF half, ended
      <3> QED
        BY <2>2, <3>3
    <2>3. CASE cut % 10 = 4
      <3>1. /\ PartAt(s, cut + 2) = Size(1)
            /\ PartAt(s, cut + 3) = Half(s[WholeBy((cut + 3) - 1) + 1], FALSE)
        BY <1>1, <2>1, <2>3, PartIs, HalvesAfter
      <3>2. WholeBy((cut + 3) - 1) = WholeBy(cut)
        BY <1>1, <2>3, HalvesAfter
      <3>3. PartAt(s, cut + 2) = Size(1) /\ PartAt(s, cut + 3) = half
        BY <3>1, <3>2, Zenon
      <3> HIDE DEF half, ended
      <3> QED
        BY <2>3, <3>3
    <2>4. CASE cut % 10 = 7
      <3>1. /\ PartAt(s, cut + 2) = Size(1)
            /\ PartAt(s, cut + 3) = Half(s[WholeBy((cut + 3) - 1) + 1], TRUE)
            /\ PartAt(s, cut) = Half(s[WholeBy(cut - 1) + 1], FALSE)
        BY <1>1, <2>1, <2>4, PartIs, HalvesAfter
      <3>2. WholeBy((cut + 3) - 1) = WholeBy(cut) /\ WholeBy(cut - 1) = WholeBy(cut)
        BY <1>1, <2>4, HalvesAfter
      <3>3. /\ PartAt(s, cut + 2) = Size(1)
            /\ PartAt(s, cut + 3) = ended /\ PartAt(s, cut) = half
        BY <3>1, <3>2, Zenon
      <3> HIDE DEF half, ended
      <3> QED
        BY <2>4, <3>3
    <2> QED
      BY <1>1, <2>2, <2>3, <2>4
  <1> HIDE DEF half, ended
  <1>6. /\ cut % 10 = 0 => /\ raw[2] = Size(2) /\ text = <<>>
                           /\ Len(raw) >= 4 => raw[3] = half /\ raw[4] = ended
        /\ cut % 10 = 4 => /\ raw[2] = Size(1) /\ text = <<>>
                           /\ Len(raw) >= 3 => raw[3] = half
        /\ cut % 10 = 7 => /\ raw[2] = Size(1) /\ text = <<half>>
                           /\ Len(raw) >= 3 => raw[3] = ended
    BY <1>1, <1>4, <1>5
  <1> QED
    BY <1>3, <1>6 DEF half, ended

\* What is left of the buffer goes on where the frame ended.
LEMMA RestFollows ==
    ASSUME NEW s, NEW cut \in Nat, NEW raw \in Seq(Parts), NEW n \in {1, 2},
           Len(raw) >= 2 + n, \A i \in 1..Len(raw) : raw[i] = PartAt(s, cut + i),
           NEW rest, rest = SubSeq(raw, 2 + n + 1, Len(raw)), NEW next, next = cut + 2 + n
    PROVE  /\ rest \in Seq(Parts)
           /\ Len(rest) = Len(raw) - (2 + n)
           /\ \A i \in 1..Len(rest) : rest[i] = PartAt(s, next + i)
  <1>1. Len(raw) \in Nat
    BY LenProperties
  <1>2. /\ rest \in Seq(Parts) /\ Len(rest) = Len(raw) - (2 + n)
        /\ \A i \in 1..Len(rest) : rest[i] = raw[(2 + n) + i]
    <2> DEFINE from == 2 + n + 1
    <2>1. from \in Int /\ Len(raw) \in Int /\ \A i \in from..Len(raw) : raw[i] \in Parts
      BY <1>1
    <2>2. /\ rest \in Seq(Parts)
          /\ Len(rest) = IF from <= Len(raw) THEN Len(raw) - from + 1 ELSE 0
          /\ \A i \in 1..(Len(raw) - from + 1) : rest[i] = raw[from + i - 1]
      <3> HIDE DEF from
      <3>1. rest = SubSeq(raw, from, Len(raw))
        BY DEF from
      <3> QED
        BY <2>1, <3>1, SubSeqProperties
    <2>3. from = (2 + n) + 1
      OBVIOUS
    <2> HIDE DEF from
    <2>4. Len(rest) = Len(raw) - (2 + n) /\ Len(raw) - from + 1 = Len(rest)
      BY <1>1, <2>2, <2>3
    <2>5. \A i \in 1..Len(rest) : from + i - 1 = (2 + n) + i
      BY <1>1, <2>3, <2>4
    <2> QED
      BY <2>2, <2>4, <2>5, Zenon
  <1>3. ASSUME NEW i \in 1..Len(rest) PROVE rest[i] = PartAt(s, next + i)
    <2>1. i \in Nat /\ i > 0 /\ i <= Len(raw) - (2 + n)
      BY <1>1, <1>2
    <2>2. (2 + n) + i \in 1..Len(raw) /\ cut + ((2 + n) + i) = next + i
      BY <1>1, <2>1
    <2> QED
      BY <1>2, <2>2
  <1> QED
    BY <1>2, <1>3

\* One more line is given.
LEMMA OneMoreGiven ==
    ASSUME NEW s \in Seq(Lines), NEW base, NEW cut \in Nat, NEW next, NEW lines,
           Gives(s, base, cut, lines), WholeBy(next) = WholeBy(cut) + 1,
           s[WholeBy(cut) + 1] \in Lines
    PROVE  Gives(s, base, next, lines \o <<s[WholeBy(cut) + 1]>>)
  <1> DEFINE line == s[WholeBy(cut) + 1]
             more == lines \o <<line>>
  <1>1. /\ lines \in Seq(Lines) /\ Len(lines) \in Nat /\ base \in Nat
        /\ base + Len(lines) = WholeBy(cut) /\ WholeBy(cut) \in Nat
        /\ \A k \in 1..Len(lines) : lines[k] = s[base + k]
    BY LenProperties DEF Gives, WholeBy
  <1>2. line \in Lines
    OBVIOUS
  <1> HIDE DEF line
  <1>3. /\ more \in Seq(Lines) /\ Len(more) = Len(lines) + 1
        /\ \A k \in 1..Len(lines) : more[k] = lines[k]
        /\ more[Len(lines) + 1] = line
    BY <1>1, <1>2
  <1> HIDE DEF more
  <1>4. s[base + (Len(lines) + 1)] = line
    <2>1. base + (Len(lines) + 1) = WholeBy(cut) + 1
      BY <1>1
    <2> QED
      BY <2>1 DEF line
  <1>5. \A k \in 1..Len(more) : more[k] = s[base + k]
    <2> SUFFICES ASSUME NEW k \in 1..Len(more) PROVE more[k] = s[base + k]
      OBVIOUS
    <2>1. CASE k \in 1..Len(lines)
      BY <1>1, <1>3, <2>1
    <2>2. CASE k = Len(lines) + 1
      BY <1>3, <1>4, <2>2
    <2> QED
      BY <1>1, <1>3, <2>1, <2>2
  <1>6. base + Len(more) = WholeBy(next)
    BY <1>1, <1>3
  <1>7. Gives(s, base, next, more)
    BY <1>1, <1>3, <1>5, <1>6 DEF Gives
  <1> QED
    BY <1>7 DEF more, line

\* Payloads of one and of two parts.
LEMMA PairIsConcat ==
    ASSUME NEW a, NEW b
    PROVE  <<a>> \o <<b>> = <<a, b>>
  <1> DEFINE S == {a, b}
             s == <<a>>
             t == <<b>>
             u == <<a>> \o <<b>>
  <1>1. s \in Seq(S) /\ Len(s) = 1 /\ s[1] = a
    OBVIOUS
  <1>2. t \in Seq(S) /\ Len(t) = 1 /\ t[1] = b
    OBVIOUS
  <1>3. /\ <<a, b>> \in Seq(S) /\ Len(<<a, b>>) = 2
        /\ <<a, b>>[1] = a /\ <<a, b>>[2] = b
    OBVIOUS
  <1>4. u = s \o t
    OBVIOUS
  <1> HIDE DEF S, s, t, u
  <1>5. /\ u \in Seq(S) /\ Len(u) = Len(s) + Len(t)
        /\ \A i \in 1..Len(s) : u[i] = s[i]
        /\ \A i \in 1..Len(t) : u[Len(s) + i] = t[i]
    <2>1. s \in Seq(S) /\ t \in Seq(S)
      BY <1>1, <1>2
    <2> QED
      BY <1>4, <2>1, ConcatParts
  <1>6. Len(u) = 2 /\ u[1] = a /\ u[2] = b
    BY <1>1, <1>2, <1>5
  <1>7. u = <<a, b>>
    <2>1. Len(u) = Len(<<a, b>>) /\ \A i \in 1..Len(u) : u[i] = <<a, b>>[i]
      BY <1>3, <1>6
    <2> QED
      BY <1>3, <1>5, <2>1, SeqEqual
  <1> QED
    BY <1>7 DEF u

LEMMA OnePart ==
    ASSUME NEW raw \in Seq(Parts), Len(raw) >= 3
    PROVE  SubSeq(raw, 3, 3) = <<raw[3]>>
  <1>1. Len(raw) \in Nat
    BY LenProperties
  <1>2. SubSeq(raw, 3, 3) = <<raw[3]>> \o SubSeq(raw, 3 + 1, 3)
    BY <1>1, SubSeqRecursiveFirst
  <1>3. SubSeq(raw, 3 + 1, 3) = <<>>
    BY SubSeqEmpty
  <1>4. <<raw[3]>> \in Seq(Parts)
    BY <1>1, ElementOfSeq
  <1> QED
    BY <1>2, <1>3, <1>4, ConcatEmptySeq

LEMMA TwoParts ==
    ASSUME NEW raw \in Seq(Parts), Len(raw) >= 4
    PROVE  SubSeq(raw, 3, 4) = <<raw[3], raw[4]>>
  <1>1. Len(raw) \in Nat
    BY LenProperties
  <1>2. SubSeq(raw, 3, 4) = SubSeq(raw, 3, 4 - 1) \o <<raw[4]>>
    BY <1>1, SubSeqRecursiveSecond
  <1>3. SubSeq(raw, 3, 4 - 1) = <<raw[3]>>
    <2>1. 4 - 1 = 3 /\ Len(raw) >= 3
      BY <1>1
    <2> QED
      BY <2>1, OnePart
  <1> QED
    BY <1>2, <1>3, PairIsConcat

\* The payload of the frame at `cut`, after the text there is.
LEMMA FrameText ==
    ASSUME NEW s \in Seq(Lines), NEW cut, NEW raw, NEW text, Stands(s, cut, raw, text),
           FrameIn(raw)
    PROVE  LET line == s[WholeBy(cut) + 1]
               n == raw[2].n
           IN /\ n \in {1, 2}
              /\ n = 2 <=> cut % 10 = 0
              /\ cut % 10 = 4 => text \o SubSeq(raw, 3, 2 + n) = <<Half(line, FALSE)>>
              /\ cut % 10 # 4 => text \o SubSeq(raw, 3, 2 + n)
                                   = <<Half(line, FALSE), Half(line, TRUE)>>
  <1> DEFINE line == s[WholeBy(cut) + 1]
             half == Half(line, FALSE)
             ended == Half(line, TRUE)
             n == raw[2].n
  <1>1. /\ Len(raw) \in Nat /\ Len(raw) >= 2 /\ Len(raw) >= 2 + n /\ raw \in Seq(Parts)
        /\ cut \in Nat /\ cut % 10 \in {0, 4, 7}
    BY LenProperties DEF Stands, FrameIn
  <1>2. /\ cut % 10 = 0 => /\ raw[2] = Size(2) /\ text = <<>>
                           /\ Len(raw) >= 4 => raw[3] = half /\ raw[4] = ended
        /\ cut % 10 = 4 => /\ raw[2] = Size(1) /\ text = <<>>
                           /\ Len(raw) >= 3 => raw[3] = half
        /\ cut % 10 = 7 => /\ raw[2] = Size(1) /\ text = <<half>>
                           /\ Len(raw) >= 3 => raw[3] = ended
    BY <1>1, FrameAt, Zenon
  <1>3. Size(1).n = 1 /\ Size(2).n = 2
    BY DEF Size
  <1>4. /\ cut % 10 = 0 => n = 2
        /\ cut % 10 = 4 => n = 1
        /\ cut % 10 = 7 => n = 1
    BY <1>2, <1>3, Zenon
  <1> HIDE DEF n, half, ended
  <1>5. /\ n \in {1, 2}
        /\ n = 2 <=> cut % 10 = 0
        /\ cut % 10 = 4 => text \o SubSeq(raw, 3, 2 + n) = <<half>>
        /\ cut % 10 # 4 => text \o SubSeq(raw, 3, 2 + n) = <<half, ended>>
    <2>1. CASE cut % 10 = 0
      <3>1. n = 2 /\ text = <<>> /\ raw[3] = half /\ raw[4] = ended /\ Len(raw) >= 4
        BY <1>1, <1>2, <1>4, <2>1
      <3>2. SubSeq(raw, 3, 2 + n) = <<half, ended>>
        <4>1. 2 + n = 4
          BY <3>1
        <4> QED
          BY <1>1, <3>1, <4>1, TwoParts
      <3>3. text \o SubSeq(raw, 3, 2 + n) = <<half, ended>>
        BY <3>1, <3>2
      <3> QED
        BY <2>1, <3>1, <3>3
    <2>2. CASE cut % 10 = 4
      <3>1. n = 1 /\ text = <<>> /\ raw[3] = half /\ Len(raw) >= 3
        BY <1>1, <1>2, <1>4, <2>2
      <3>2. SubSeq(raw, 3, 2 + n) = <<half>>
        <4>1. 2 + n = 3
          BY <3>1
        <4> QED
          BY <1>1, <3>1, <4>1, OnePart
      <3>3. text \o SubSeq(raw, 3, 2 + n) = <<half>>
        BY <3>1, <3>2
      <3> QED
        BY <2>2, <3>1, <3>3
    <2>3. CASE cut % 10 = 7
      <3>1. n = 1 /\ text = <<half>> /\ raw[3] = ended /\ Len(raw) >= 3
        BY <1>1, <1>2, <1>4, <2>3
      <3>2. SubSeq(raw, 3, 2 + n) = <<ended>>
        <4>1. 2 + n = 3
          BY <3>1
        <4> QED
          BY <1>1, <3>1, <4>1, OnePart
      <3>3. text \o SubSeq(raw, 3, 2 + n) = <<half, ended>>
        BY <3>1, <3>2, PairIsConcat
      <3> QED
        BY <2>3, <3>1, <3>3
    <2> QED
      BY <1>1, <2>1, <2>2, <2>3
  <1> QED
    BY <1>5, Zenon DEF n, half, ended

\* One frame leaves the watcher at the next one, with the line it completed, if any.
LEMMA FrameMoves ==
    ASSUME NEW s \in Seq(Lines), NEW cut, NEW base, NEW p,
           Stands(s, cut, p.raw, p.text), Gives(s, base, cut, p.lines), FrameIn(p.raw)
    PROVE  LET new == NextFrame(p)
               next == cut + 2 + p.raw[2].n
           IN /\ Stands(s, next, new.raw, new.text)
              /\ Gives(s, base, next, new.lines)
              /\ next + Len(new.raw) = cut + Len(p.raw)
              /\ Len(new.raw) < Len(p.raw)
  <1> DEFINE raw == p.raw
             n == raw[2].n
             next == cut + 2 + n
             line == s[WholeBy(cut) + 1]
             text == p.text \o SubSeq(raw, 3, 2 + n)
             rest == SubSeq(raw, 2 + n + 1, Len(raw))
  <1>1. /\ cut \in Nat /\ cut % 10 \in {0, 4, 7}
        /\ raw \in Seq(Parts) /\ Len(raw) \in Nat
        /\ cut + Len(raw) <= LengthOf(Len(s))
        /\ \A i \in 1..Len(raw) : raw[i] = PartAt(s, cut + i)
        /\ Len(raw) >= 2 /\ Len(raw) >= 2 + n
    BY LenProperties DEF Stands, FrameIn
  <1>2. /\ n \in {1, 2}
        /\ n = 2 <=> cut % 10 = 0
        /\ cut % 10 = 4 => text = <<Half(line, FALSE)>>
        /\ cut % 10 # 4 => text = <<Half(line, FALSE), Half(line, TRUE)>>
    BY FrameText, Zenon
  <1>3. line \in Lines
    BY <1>1, FrameAt, Zenon
  <1>4. /\ NextFrame(p).raw = rest
        /\ NextFrame(p).text = RestOf(text)
        /\ NextFrame(p).lines = p.lines \o LinesOf(text)
    BY <1>1, <1>2 DEF NextFrame
  <1> HIDE DEF n, raw, line
  <1>5. /\ rest \in Seq(Parts)
        /\ Len(rest) = Len(raw) - (2 + n)
        /\ \A i \in 1..Len(rest) : rest[i] = PartAt(s, next + i)
    <2>1. /\ cut \in Nat /\ raw \in Seq(Parts) /\ n \in {1, 2} /\ Len(raw) >= 2 + n
          /\ \A i \in 1..Len(raw) : raw[i] = PartAt(s, cut + i)
      BY <1>1, <1>2 DEF raw, n
    <2> QED
      BY <2>1, RestFollows
  <1> HIDE DEF rest, text
  <1>6. /\ next \in Nat /\ next % 10 \in {0, 4, 7}
        /\ cut % 10 = 4 => next = cut + 3 /\ next % 10 = 7 /\ WholeBy(next) = WholeBy(cut)
                           /\ WholeBy(next - 1) = WholeBy(cut)
        /\ cut % 10 # 4 => next % 10 # 7 /\ WholeBy(next) = WholeBy(cut) + 1
    <2>1. cut \in Nat /\ cut % 10 \in {0, 4, 7} /\ n \in {1, 2} /\ (n = 2 <=> cut % 10 = 0)
      BY <1>1, <1>2
    <2> QED
      BY <2>1 DEF WholeBy
  <1>7. next + Len(rest) = cut + Len(raw) /\ Len(rest) < Len(raw)
    <2>1. /\ cut \in Nat /\ n \in {1, 2}
          /\ Len(raw) \in Nat /\ Len(rest) = Len(raw) - (2 + n)
      BY <1>1, <1>2, <1>5 DEF raw
    <2> QED
      BY <2>1
  <1> HIDE DEF next
  <1>8. CASE cut % 10 = 4
    <2>1. LinesOf(text) = <<>> /\ RestOf(text) = <<Half(line, FALSE)>>
      BY <1>2, <1>3, <1>8, SplitHalf, Zenon
    <2>2. PartAt(s, next) = Half(line, FALSE)
      <3>1. PartAt(s, next) = Half(s[WholeBy(next - 1) + 1], FALSE)
        BY <1>6, <1>8, PartIs
      <3> QED
        BY <1>6, <1>8, <3>1, Zenon DEF line
    <2>3. RestOf(text) = IF next % 10 = 7 THEN <<PartAt(s, next)>> ELSE <<>>
      BY <1>6, <1>8, <2>1, <2>2, Zenon
    <2>4. Stands(s, next, rest, RestOf(text))
      BY <1>1, <1>5, <1>6, <1>7, <2>3 DEF Stands
    <2>5. p.lines \o <<>> = p.lines
      BY ConcatEmptySeq DEF Gives
    <2>6. Gives(s, base, next, p.lines)
      BY <1>6, <1>8 DEF Gives
    <2>7. Gives(s, base, next, p.lines \o LinesOf(text))
      BY <2>1, <2>5, <2>6, Zenon
    <2> QED
      BY <1>4, <1>7, <2>4, <2>7, Zenon DEF raw, n, next
  <1>9. CASE cut % 10 # 4
    <2>1. LinesOf(text) = <<line>> /\ RestOf(text) = <<>>
      BY <1>2, <1>3, <1>9, SplitWhole, Zenon
    <2>2. RestOf(text) = IF next % 10 = 7 THEN <<PartAt(s, next)>> ELSE <<>>
      BY <1>6, <1>9, <2>1, Zenon
    <2>3. Stands(s, next, rest, RestOf(text))
      BY <1>1, <1>5, <1>6, <1>7, <2>2 DEF Stands
    <2>4. Gives(s, base, next, p.lines \o <<line>>)
      BY <1>1, <1>3, <1>6, <1>9, OneMoreGiven DEF line
    <2>5. Gives(s, base, next, p.lines \o LinesOf(text))
      BY <2>1, <2>4, Zenon
    <2> QED
      BY <1>4, <1>7, <2>3, <2>5, Zenon DEF raw, n, next
  <1> QED
    BY <1>8, <1>9
-----------------------------------------------------------------------------
\* A set of numbers that is not empty has a least one.
LEMMA LeastNatural ==
    ASSUME NEW S \in SUBSET Nat, S # {}
    PROVE  \E k \in S : \A m \in S : k <= m
  <1>1. PICK k \in S : \A m \in S : ~(<<m, k>> \in OpToRel(<, Nat))
    BY NatLessThanWellFounded, WFMin
  <1>2. ASSUME NEW m \in S PROVE k <= m
    <2>1. <<m, k>> \in {ss \in Nat \X Nat : ss[1] < ss[2]} <=> m < k
      OBVIOUS
    <2> QED
      BY <1>1, <2>1 DEF OpToRel
  <1> QED
    BY <1>2

\* The loop of the watcher is defined for as many turns as one likes.
LEMMA LoopDefined ==
    ASSUME NEW start, NEW n \in Nat
    PROVE  \E f : f = [k \in 0..n |-> IF k = 0 THEN start ELSE NextFrame(f[k-1])]
  <1> DEFINE Loop(f, m) == f = [k \in 0..m |-> IF k = 0 THEN start ELSE NextFrame(f[k-1])]
             Without == {m \in Nat : ~\E f : Loop(f, m)}
  <1>1. SUFFICES ASSUME Without # {} PROVE FALSE
    OBVIOUS
  <1>2. PICK m \in Without : \A o \in Without : m <= o
    BY <1>1, LeastNatural
  <1>3. CASE m = 0
    <2>1. Loop([k \in 0..0 |-> start], 0)
      OBVIOUS
    <2> QED
      BY <1>2, <1>3, <2>1
  <1>4. CASE m # 0
    <2>1. m \in Nat /\ m - 1 \in Nat /\ m - 1 \notin Without
      BY <1>2, <1>4
    <2>2. PICK f : Loop(f, m - 1)
      BY <2>1
    <2> DEFINE g == [k \in 0..m |-> IF k = m THEN NextFrame(f[m-1]) ELSE f[k]]
    <2>3. ASSUME NEW k \in 0..m PROVE g[k] = IF k = 0 THEN start ELSE NextFrame(g[k-1])
      <3>1. CASE k = m
        <4>1. m - 1 \in 0..m /\ m - 1 # m
          BY <2>1
        <4>2. g[m-1] = f[m-1]
          BY <4>1
        <4> QED
          BY <1>4, <2>1, <3>1, <4>2
      <3>2. CASE k # m /\ k = 0
        BY <2>1, <2>2, <3>2
      <3>3. CASE k # m /\ k # 0
        <4>1. k \in 0..(m-1) /\ k - 1 \in 0..m /\ k - 1 # m
          BY <2>1, <3>3
        <4>2. f[k] = NextFrame(f[k-1])
          BY <2>2, <3>3, <4>1
        <4>3. g[k] = f[k] /\ g[k-1] = f[k-1]
          BY <3>3, <4>1
        <4> QED
          BY <3>3, <4>2, <4>3
      <3> QED
        BY <3>1, <3>2, <3>3
    <2>4. DOMAIN g = 0..m /\ g = [k \in 0..m |-> g[k]]
      OBVIOUS
    <2> HIDE DEF g
    <2>5. Loop(g, m)
      BY <2>3, <2>4
    <2> QED
      BY <1>2, <2>5
  <1> QED
    BY <1>3, <1>4

\* Where the watcher stands after a chunk: at a later frame of the stream, with all
\* the lines before it, and with no whole frame left in its buffer.
LEMMA ParseMoves ==
    ASSUME NEW s \in Seq(Lines), NEW cut, NEW raw, NEW text, Stands(s, cut, raw, text)
    PROVE  LET parsed == Parse(raw, text) IN
           \E next : /\ Stands(s, next, parsed.raw, parsed.text)
                     /\ Gives(s, WholeBy(cut), next, parsed.lines)
                     /\ next + Len(parsed.raw) = cut + Len(raw)
                     /\ ~FrameIn(parsed.raw)
  <1> DEFINE n == Len(raw)
             start == [raw |-> raw, text |-> text, lines |-> <<>>]
             Loop(f) == f = [k \in 0..n |-> IF k = 0 THEN start ELSE NextFrame(f[k-1])]
             loop == CHOOSE f : Loop(f)
             Good(k) == /\ \E next : /\ Stands(s, next, loop[k].raw, loop[k].text)
                                     /\ Gives(s, WholeBy(cut), next, loop[k].lines)
                                     /\ next + Len(loop[k].raw) = cut + n
                        /\ FrameIn(loop[k].raw) => Len(loop[k].raw) + k <= n
             Bad == {k \in 0..n : ~Good(k)}
  <1>1. n \in Nat /\ cut \in Nat /\ cut % 10 \in {0, 4, 7} /\ WholeBy(cut) \in Nat
    BY LenProperties DEF Stands, WholeBy
  <1>2. Loop(loop)
    <2> HIDE DEF start
    <2>1. n \in Nat
      BY <1>1
    <2> HIDE DEF n
    <2>2. \E f : Loop(f)
      BY <2>1, LoopDefined, Zenon
    <2> QED
      BY <2>2, Zenon
  <1>3. Parse(raw, text) = loop[n]
    BY DEF Parse
  <1> HIDE DEF loop
  <1>4. loop[0] = start
    BY <1>1, <1>2
  <1>5. ASSUME NEW k \in 1..n PROVE loop[k] = NextFrame(loop[k-1])
    <2>1. k \in 0..n /\ k # 0
      BY <1>1
    <2>2. loop = [m \in 0..n |-> IF m = 0 THEN start ELSE NextFrame(loop[m-1])]
      BY <1>2
    <2> HIDE DEF start, n
    <2> QED
      BY <2>1, <2>2, Zenon
  <1>6. Good(0)
    <2>1. loop[0].raw = raw /\ loop[0].text = text /\ loop[0].lines = <<>>
      BY <1>4
    <2>2. Gives(s, WholeBy(cut), cut, <<>>)
      BY <1>1 DEF Gives
    <2>3. Len(raw) + 0 <= n
      BY <1>1
    <2> QED
      BY <2>1, <2>2, <2>3
  <1>7. ASSUME NEW k \in 1..n, Good(k-1) PROVE Good(k)
    <2> DEFINE p == loop[k-1]
    <2>1. PICK next : /\ Stands(s, next, p.raw, p.text)
                      /\ Gives(s, WholeBy(cut), next, p.lines)
                      /\ next + Len(p.raw) = cut + n
      BY <1>7
    <2>2. loop[k] = NextFrame(p)
      BY <1>5
    <2>3. CASE ~FrameIn(p.raw)
      <3>1. loop[k] = p
        BY <2>2, <2>3 DEF NextFrame
      <3> HIDE DEF p
      <3> QED
        BY <2>1, <2>3, <3>1
    <2>4. CASE FrameIn(p.raw)
      <3> DEFINE new == NextFrame(p)
                 after == next + 2 + p.raw[2].n
      <3>1. Len(p.raw) + (k - 1) <= n
        BY <1>7, <2>4
      <3> HIDE DEF p
      <3>2. /\ Stands(s, after, new.raw, new.text)
            /\ Gives(s, WholeBy(cut), after, new.lines)
            /\ after + Len(new.raw) = next + Len(p.raw)
            /\ Len(new.raw) < Len(p.raw)
        BY <2>1, <2>4, FrameMoves, Zenon
      <3> HIDE DEF new, after
      <3>3. Len(new.raw) \in Nat /\ Len(p.raw) \in Nat
        BY <2>1, <3>2, LenProperties DEF Stands
      <3>4. Len(new.raw) + k <= n
        BY <1>1, <3>1, <3>2, <3>3
      <3>5. after + Len(new.raw) = cut + n
        BY <2>1, <3>2
      <3>6. loop[k] = new
        BY <2>2 DEF new
      <3> QED
        BY <3>2, <3>4, <3>5, <3>6
    <2> QED
      BY <2>3, <2>4
  <1> HIDE DEF Good
  <1>8. Bad = {}
    <2> SUFFICES ASSUME Bad # {} PROVE FALSE
      OBVIOUS
    <2>1. PICK k \in Bad : \A m \in Bad : k <= m
      <3>1. Bad \in SUBSET Nat
        BY <1>1
      <3> QED
        BY <3>1, LeastNatural, Zenon
    <2>2. k # 0 /\ k \in 0..n /\ ~Good(k)
      BY <1>6, <2>1
    <2>3. k \in 1..n /\ k - 1 \in 0..n /\ ~(k <= k - 1)
      BY <1>1, <2>2
    <2>4. Good(k - 1)
      BY <2>1, <2>3
    <2> QED
      BY <1>7, <2>2, <2>3, <2>4
  <1>9. n \in 0..n
    BY <1>1
  <1>10. Good(n)
    BY <1>8, <1>9
  <1>11. ~FrameIn(loop[n].raw)
    <2> SUFFICES ASSUME FrameIn(loop[n].raw) PROVE FALSE
      OBVIOUS
    <2>1. Len(loop[n].raw) + n <= n /\ Len(loop[n].raw) >= 2
      BY <1>10 DEF Good, FrameIn
    <2>2. Len(loop[n].raw) \in Nat
      BY <1>10, LenProperties DEF Good, Stands
    <2> QED
      BY <1>1, <2>1, <2>2
  <1> QED
    BY <1>3, <1>10, <1>11, Zenon DEF Good
-----------------------------------------------------------------------------
\* What is handled: a line, and the proxy it is recorded for.
Entries == [line : Lines, to : ProxyIds \cup {None}]

\* The frame of the stream the watcher is at.
Cut == LengthOf(Len(sent)) - Len(wire) - Len(stream.raw)

\* Buffers and wire together are the rest of the stream, from the frame the watcher
\* is at, and what it handled are the lines before it.
Streamed ==
    /\ stream \in [on : BOOLEAN, raw : Seq(Parts), text : Seq(Parts)]
    /\ wire \in Seq(Parts)
    /\ sent \in Seq(Lines)
    /\ handled \in Seq(Entries)
    /\ Stands(sent, Cut, stream.raw, stream.text)
    /\ \A i \in 1..Len(wire) : wire[i] = PartAt(sent, Cut + Len(stream.raw) + i)
    /\ ~FrameIn(stream.raw)
    /\ Len(handled) = WholeBy(Cut)
    /\ \A k \in 1..Len(handled) : handled[k].line = sent[k]

\* What leaves the watcher alone leaves it on the stream.
LEMMA StreamedKept ==
    ASSUME Streamed, UNCHANGED <<wire, stream, sent, handled>>
    PROVE  Streamed'
  BY DEF Streamed, Cut

\* A connection begins with nothing on the wire.
LEMMA StreamedNew ==
    ASSUME stream' \in [on : BOOLEAN, raw : {<<>>}, text : {<<>>}],
           wire' = <<>>, sent' = <<>>, handled' = <<>>
    PROVE  Streamed'
  <1>1. Len(<<>>) = 0 /\ LengthOf(0) = 0 /\ WholeBy(0) = 0 /\ 0 % 10 = 0
    BY DEF LengthOf, WholeBy
  <1>2. stream'.raw = <<>> /\ stream'.text = <<>>
    OBVIOUS
  <1>3. Cut' = 0
    BY <1>1, <1>2 DEF Cut
  <1>4. Stands(<<>>, 0, <<>>, <<>>)
    BY <1>1 DEF Stands
  <1>5. ~FrameIn(<<>>)
    BY <1>1 DEF FrameIn
  <1>6. stream' \in [on : BOOLEAN, raw : Seq(Parts), text : Seq(Parts)]
    <2>1. <<>> \in Seq(Parts)
      OBVIOUS
    <2> QED
      BY <2>1
  <1>7. Stands(sent', Cut', stream'.raw, stream'.text)
    BY <1>2, <1>3, <1>4
  <1>8. ~FrameIn(stream'.raw)
    BY <1>2, <1>5
  <1> QED
    BY <1>1, <1>3, <1>6, <1>7, <1>8 DEF Streamed

\* A line that is sent in one frame, and in two.
LEMMA FourParts ==
    ASSUME NEW S, NEW a \in S, NEW b \in S, NEW c \in S, NEW d \in S,
           NEW q, q = <<a, b, c, d>>
    PROVE  q \in Seq(S) /\ Len(q) = 4 /\ q[1] = a /\ q[2] = b /\ q[3] = c /\ q[4] = d
  OBVIOUS

LEMMA SixParts ==
    ASSUME NEW S, NEW a \in S, NEW b \in S, NEW c \in S, NEW d \in S, NEW e \in S, NEW f \in S,
           NEW q, q = <<a, b, c, d, e, f>>
    PROVE  /\ q \in Seq(S) /\ Len(q) = 6
           /\ q[1] = a /\ q[2] = b /\ q[3] = c /\ q[4] = d /\ q[5] = e /\ q[6] = f
  OBVIOUS

\* What Log puts on the wire after n lines, part by part.
LEMMA FramedParts ==
    ASSUME NEW n \in Nat, NEW line \in Lines
    PROVE  LET q == Framed(n + 1, line) IN
           /\ q \in Seq(Parts)
           /\ n % 2 = 0 => /\ Len(q) = 4 /\ q[1] = Type /\ q[2] = Size(2)
                           /\ q[3] = Half(line, FALSE) /\ q[4] = Half(line, TRUE)
           /\ n % 2 = 1 => /\ Len(q) = 6 /\ q[1] = Type /\ q[2] = Size(1)
                           /\ q[3] = Half(line, FALSE)
                           /\ q[4] = Type /\ q[5] = Size(1) /\ q[6] = Half(line, TRUE)
  <1> DEFINE half == Half(line, FALSE)
             ended == Half(line, TRUE)
             q == Framed(n + 1, line)
  <1>1. /\ Type \in Parts /\ Size(1) \in Parts /\ Size(2) \in Parts /\ half \in Parts
        /\ ended \in Parts
    BY DEF Parts
  <1>2. q = IF (n + 1) % 2 = 1 THEN <<Type, Size(2), half, ended>>
            ELSE <<Type, Size(1), half, Type, Size(1), ended>>
    BY Zenon DEF Framed
  <1> HIDE DEF half, ended, q
  <1>3. CASE n % 2 = 0
    <2>1. (n + 1) % 2 = 1
      BY <1>3
    <2>2. q = <<Type, Size(2), half, ended>>
      BY <1>2, <2>1, Zenon
    <2>3. /\ q \in Seq(Parts) /\ Len(q) = 4 /\ q[1] = Type
          /\ q[2] = Size(2) /\ q[3] = half /\ q[4] = ended
      BY <1>1, <2>2, FourParts
    <2>4. n % 2 # 1
      BY <1>3
    <2> QED
      BY <2>3, <2>4, Zenon DEF half, ended, q
  <1>4. CASE n % 2 = 1
    <2>1. (n + 1) % 2 # 1 /\ n % 2 # 0
      BY <1>4
    <2>2. q = <<Type, Size(1), half, Type, Size(1), ended>>
      BY <1>2, <2>1, Zenon
    <2>3. /\ q \in Seq(Parts) /\ Len(q) = 6
          /\ q[1] = Type /\ q[2] = Size(1) /\ q[3] = half
          /\ q[4] = Type /\ q[5] = Size(1) /\ q[6] = ended
      BY <1>1, <2>2, SixParts
    <2> QED
      BY <2>1, <2>3, Zenon DEF half, ended, q
  <1>5. n % 2 = 0 \/ n % 2 = 1
    OBVIOUS
  <1> QED
    BY <1>3, <1>4, <1>5, Zenon

\* A line makes the stream longer by what Log puts on the wire.
LEMMA FramedLength ==
    ASSUME NEW n \in Nat, NEW line \in Lines
    PROVE  /\ Framed(n + 1, line) \in Seq(Parts)
           /\ Len(Framed(n + 1, line)) = LengthOf(n + 1) - LengthOf(n)
  <1>1. /\ n % 2 = 0 => LengthOf(n + 1) - LengthOf(n) = 4
        /\ n % 2 = 1 => LengthOf(n + 1) - LengthOf(n) = 6
        /\ n % 2 \in {0, 1}
    BY DEF LengthOf
  <1>2. /\ Framed(n + 1, line) \in Seq(Parts)
        /\ n % 2 = 0 => Len(Framed(n + 1, line)) = 4
        /\ n % 2 = 1 => Len(Framed(n + 1, line)) = 6
    BY FramedParts, Zenon
  <1> QED
    BY <1>1, <1>2

\* What Log puts on the wire is the next of the stream.
LEMMA FramedAt ==
    ASSUME NEW s \in Seq(Lines), NEW line \in Lines,
           NEW n, n = Len(s), NEW i \in 1..Len(Framed(n + 1, line))
    PROVE  Framed(n + 1, line)[i] = PartAt(Append(s, line), LengthOf(n) + i)
  <1> DEFINE half == Half(line, FALSE)
             ended == Half(line, TRUE)
             q == Framed(n + 1, line)
             t == Append(s, line)
             m == LengthOf(n) + i
  <1>1. n \in Nat /\ t[n + 1] = line
    BY LenProperties, AppendProperties
  <1>2. /\ q \in Seq(Parts)
        /\ n % 2 = 0 => /\ Len(q) = 4 /\ q[1] = Type /\ q[2] = Size(2)
                        /\ q[3] = half /\ q[4] = ended
        /\ n % 2 = 1 => /\ Len(q) = 6 /\ q[1] = Type /\ q[2] = Size(1)
                        /\ q[3] = half
                        /\ q[4] = Type /\ q[5] = Size(1) /\ q[6] = ended
    BY <1>1, FramedParts, Zenon
  <1> HIDE DEF q
  <1>3. i \in Nat /\ i > 0 /\ (n % 2 = 0 => i <= 4) /\ (n % 2 = 1 => i <= 6) /\ n % 2 \in {0, 1}
    <2>1. i \in 1..Len(q)
      BY DEF q
    <2> HIDE DEF half, ended
    <2>2. /\ n % 2 = 0 => Len(q) = 4
          /\ n % 2 = 1 => Len(q) = 6
      BY <1>2, Zenon
    <2>3. Len(q) \in Nat /\ n \in Nat
      BY <1>1, <1>2, LenProperties
    <2>4. i \in Nat /\ i > 0 /\ i <= Len(q)
      BY <2>1, <2>3
    <2>5. n % 2 \in {0, 1}
      BY <2>3
    <2> HIDE DEF q
    <2> QED
      BY <2>2, <2>4, <2>5
  <1>4. /\ m \in Nat
        /\ WholeBy(m - 1) = n
        /\ n % 2 = 0 => m % 10 = i
        /\ n % 2 = 1 => m % 10 = IF i = 6 THEN 0 ELSE i + 4
    BY <1>1, <1>3 DEF LengthOf, WholeBy
  <1> HIDE DEF m, t
  <1>5. /\ m % 10 \in {1, 5, 8} => PartAt(t, m) = Type
        /\ m % 10 = 2 => PartAt(t, m) = Size(2)
        /\ m % 10 \in {6, 9} => PartAt(t, m) = Size(1)
        /\ m % 10 \in {3, 7} => PartAt(t, m) = half
        /\ m % 10 \in {4, 0} => PartAt(t, m) = ended
    <2>1. /\ Half(t[WholeBy(m - 1) + 1], FALSE) = half
          /\ Half(t[WholeBy(m - 1) + 1], TRUE) = ended
      BY <1>1, <1>4, Zenon
    <2> QED
      BY <1>4, <2>1, PartIs, Zenon
  <1> HIDE DEF half, ended
  <1>6. CASE n % 2 = 0
    <2>1. m % 10 = i /\ i \in {1, 2, 3, 4}
      BY <1>3, <1>4, <1>6
    <2> QED
      BY <1>2, <1>5, <1>6, <2>1 DEF q, t, m
  <1>7. CASE n % 2 = 1
    <2>1. (i = 6 /\ m % 10 = 0) \/ (i \in {1, 2, 3, 4, 5} /\ m % 10 = i + 4)
      BY <1>3, <1>4, <1>7
    <2> QED
      BY <1>2, <1>5, <1>7, <2>1 DEF q, t, m
  <1> QED
    BY <1>3, <1>6, <1>7

\* What the stream was so far it still is when a line comes.
LEMMA PartStays ==
    ASSUME NEW s \in Seq(Lines), NEW line \in Lines, NEW m \in Nat, m > 0,
           m <= LengthOf(Len(s))
    PROVE  PartAt(Append(s, line), m) = PartAt(s, m)
  <1>1. WholeBy(m - 1) + 1 \in 1..Len(s)
    BY LineThere, LenProperties
  <1>2. Append(s, line)[WholeBy(m - 1) + 1] = s[WholeBy(m - 1) + 1]
    BY <1>1, AppendProperties
  <1> QED
    BY <1>2, Zenon DEF PartAt

\* Log goes on with the stream.
LEMMA LogStreamed ==
    ASSUME Streamed, NEW line \in Lines, Log(line)
    PROVE  Streamed'
  <1> DEFINE n == Len(sent)
             more == Framed(n + 1, line)
             raw == stream.raw
  <1>1. /\ wire \in Seq(Parts) /\ sent \in Seq(Lines) /\ raw \in Seq(Parts)
        /\ n \in Nat /\ Len(wire) \in Nat /\ Len(raw) \in Nat
        /\ wire' = wire \o more /\ sent' = Append(sent, line)
        /\ stream' = stream /\ handled' = handled
    BY LenProperties DEF Streamed, Log
  <1>2. /\ Cut \in Nat
        /\ Cut + Len(raw) <= LengthOf(n)
        /\ Cut = LengthOf(n) - Len(wire) - Len(raw)
        /\ LengthOf(n) \in Nat
    BY <1>1, LengthType DEF Streamed, Stands, Cut
  <1>3. /\ more \in Seq(Parts)
        /\ Len(more) = LengthOf(n + 1) - LengthOf(n) /\ Len(more) \in Nat
    BY <1>1, FramedLength, LenProperties
  <1>4. sent' \in Seq(Lines) /\ Len(sent') = n + 1
    BY <1>1, AppendProperties
  <1> HIDE DEF more
  <1>5. /\ wire' \in Seq(Parts) /\ Len(wire') = Len(wire) + Len(more)
        /\ \A i \in 1..Len(wire) : wire'[i] = wire[i]
        /\ \A i \in 1..Len(more) : wire'[Len(wire) + i] = more[i]
    BY <1>1, <1>3, ConcatParts
  <1>6. Cut' = Cut
    <2>1. Cut' = LengthOf(n + 1) - (Len(wire) + Len(more)) - Len(raw)
      BY <1>1, <1>4, <1>5 DEF Cut
    <2>2. LengthOf(n + 1) \in Nat
      BY <1>1, LengthType
    <2> QED
      BY <1>1, <1>2, <1>3, <2>1, <2>2
  <1>7. ASSUME NEW m \in Nat, m > 0, m <= LengthOf(n)
        PROVE  PartAt(sent', m) = PartAt(sent, m)
    BY <1>1, <1>7, PartStays
  <1>8. Stands(sent', Cut', stream'.raw, stream'.text)
    <2>1. \A i \in 1..Len(raw) : raw[i] = PartAt(sent', Cut + i)
      <3> SUFFICES ASSUME NEW i \in 1..Len(raw) PROVE raw[i] = PartAt(sent', Cut + i)
        OBVIOUS
      <3>1. Cut + i \in Nat /\ Cut + i > 0 /\ Cut + i <= LengthOf(n)
        BY <1>1, <1>2
      <3>2. raw[i] = PartAt(sent, Cut + i)
        BY DEF Streamed, Stands
      <3> QED
        BY <1>7, <3>1, <3>2
    <2>2. Cut % 10 = 7 => PartAt(sent', Cut) = PartAt(sent, Cut)
      <3> SUFFICES ASSUME Cut % 10 = 7 PROVE PartAt(sent', Cut) = PartAt(sent, Cut)
        OBVIOUS
      <3>1. Cut > 0 /\ Cut <= LengthOf(n)
        BY <1>1, <1>2
      <3> QED
        BY <1>2, <1>7, <3>1
    <2>3. Cut + Len(raw) <= LengthOf(Len(sent'))
      <3>1. LengthOf(n + 1) \in Nat /\ n + 1 \in Nat
        BY <1>1, LengthType
      <3>2. Cut + Len(raw) <= LengthOf(n + 1)
        BY <1>1, <1>2, <1>3, <3>1
      <3> QED
        BY <1>4, <3>2
    <2>4. /\ Cut % 10 \in {0, 4, 7}
          /\ stream.text = IF Cut % 10 = 7 THEN <<PartAt(sent, Cut)>> ELSE <<>>
      BY DEF Streamed, Stands
    <2>5. stream.text = IF Cut % 10 = 7 THEN <<PartAt(sent', Cut)>> ELSE <<>>
      BY <2>2, <2>4, Zenon
    <2>6. Stands(sent', Cut, raw, stream.text)
      BY <1>1, <1>2, <2>1, <2>3, <2>4, <2>5 DEF Stands
    <2> QED
      BY <1>1, <1>6, <2>6
  <1>9. \A i \in 1..Len(wire') : wire'[i] = PartAt(sent', Cut' + Len(stream'.raw) + i)
    <2> SUFFICES ASSUME NEW i \in 1..Len(wire')
                 PROVE  wire'[i] = PartAt(sent', Cut + Len(raw) + i)
      BY <1>1, <1>6
    <2>1. CASE i \in 1..Len(wire)
      <3>1. /\ Cut + Len(raw) + i \in Nat /\ Cut + Len(raw) + i > 0
            /\ Cut + Len(raw) + i <= LengthOf(n)
        BY <1>1, <1>2, <2>1
      <3>2. wire[i] = PartAt(sent, Cut + Len(raw) + i)
        BY <2>1 DEF Streamed
      <3> QED
        BY <1>5, <1>7, <2>1, <3>1, <3>2
    <2>2. CASE i \notin 1..Len(wire)
      <3> DEFINE j == i - Len(wire)
      <3>1. /\ j \in 1..Len(more)
            /\ i = Len(wire) + j /\ Cut + Len(raw) + i = LengthOf(n) + j
        <4>1. /\ i \in Nat /\ Len(wire) \in Nat /\ Len(more) \in Nat
              /\ i <= Len(wire) + Len(more) /\ ~(i <= Len(wire))
          BY <1>1, <1>2, <1>3, <1>5, <2>2
        <4>2. Cut + Len(raw) + Len(wire) = LengthOf(n) /\ Cut \in Nat /\ Len(raw) \in Nat
          BY <1>1, <1>2, <1>3, <1>5
        <4> QED
          BY <4>1, <4>2
      <3> HIDE DEF j
      <3>2. more[j] = PartAt(sent', LengthOf(n) + j)
        BY <1>1, <3>1, FramedAt DEF more
      <3> QED
        BY <1>5, <3>1, <3>2
    <2> QED
      BY <2>1, <2>2
  <1>10. \A k \in 1..Len(handled') : handled'[k].line = sent'[k]
    <2> SUFFICES ASSUME NEW k \in 1..Len(handled) PROVE handled[k].line = sent'[k]
      BY <1>1
    <2>1. WholeBy(Cut) <= n /\ WholeBy(Cut) \in Nat
      <3>1. Cut <= LengthOf(n)
        BY <1>1, <1>2
      <3> QED
        BY <1>1, <1>2, <3>1, WholeBound
    <2>2. k \in 1..n
      BY <1>1, <2>1 DEF Streamed
    <2> QED
      BY <1>1, <2>2, AppendProperties DEF Streamed
  <1> QED
    BY <1>1, <1>4, <1>5, <1>6, <1>8, <1>9, <1>10 DEF Streamed

\* A chunk of the wire is in the buffer: it goes on the stream.
LEMMA ChunkStands ==
    ASSUME Streamed, NEW n \in 1..Len(wire),
           NEW raw, raw = stream.raw \o SubSeq(wire, 1, n)
    PROVE  Stands(sent, Cut, raw, stream.text) /\ Len(raw) = Len(stream.raw) + n
  <1> DEFINE old == stream.raw
             chunk == SubSeq(wire, 1, n)
  <1>1. /\ wire \in Seq(Parts) /\ old \in Seq(Parts)
        /\ Len(wire) \in Nat /\ Len(old) \in Nat
        /\ Len(sent) \in Nat
    BY LenProperties DEF Streamed
  <1>2. /\ Cut \in Nat
        /\ Cut = LengthOf(Len(sent)) - Len(wire) - Len(old) /\ LengthOf(Len(sent)) \in Nat
    BY <1>1, LengthType DEF Streamed, Stands, Cut
  <1>3. /\ chunk \in Seq(Parts) /\ Len(chunk) = n
        /\ \A i \in 1..n : chunk[i] = wire[i]
    BY <1>1
  <1> HIDE DEF chunk, old
  <1>4. /\ raw \in Seq(Parts) /\ Len(raw) = Len(old) + n
        /\ \A i \in 1..Len(old) : raw[i] = old[i]
        /\ \A i \in 1..n : raw[Len(old) + i] = chunk[i]
    BY <1>1, <1>3, ConcatParts DEF chunk, old
  <1>5. \A i \in 1..Len(raw) : raw[i] = PartAt(sent, Cut + i)
    <2> SUFFICES ASSUME NEW i \in 1..Len(raw) PROVE raw[i] = PartAt(sent, Cut + i)
      OBVIOUS
    <2>1. CASE i \in 1..Len(old)
      BY <1>4, <2>1 DEF Streamed, Stands, old
    <2>2. CASE i \notin 1..Len(old)
      <3> DEFINE j == i - Len(old)
      <3>1. /\ j \in 1..n /\ j \in 1..Len(wire)
            /\ i = Len(old) + j /\ Cut + Len(old) + j = Cut + i
        <4>1. /\ i \in Nat /\ i <= Len(old) + n /\ i > Len(old)
              /\ n \in Nat /\ n <= Len(wire) /\ Len(old) \in Nat /\ Len(wire) \in Nat
              /\ Cut \in Nat
          BY <1>1, <1>2, <1>4, <2>2
        <4> QED
          BY <4>1
      <3> HIDE DEF j
      <3>2. raw[i] = wire[j]
        BY <1>3, <1>4, <3>1
      <3>3. wire[j] = PartAt(sent, Cut + Len(old) + j)
        BY <3>1 DEF Streamed, old
      <3> QED
        BY <3>1, <3>2, <3>3
    <2> QED
      BY <2>1, <2>2
  <1>6. Cut + Len(raw) <= LengthOf(Len(sent))
    BY <1>1, <1>2, <1>4
  <1> QED
    BY <1>2, <1>4, <1>5, <1>6 DEF Streamed, Stands, old

LEMMA HalfBefore ==
    ASSUME NEW c \in Nat, NEW l \in Nat, NEW all \in Nat, c % 10 = 7, c + l <= all
    PROVE  c > 0 /\ c <= all
  OBVIOUS

LEMMA OneSeq ==
    ASSUME NEW S, NEW a \in S
    PROVE  <<a>> \in Seq(S) /\ <<>> \in Seq(S)
  OBVIOUS

\* Entries for the next lines of the stream go on with what was handled.
GoOn(s, h, more, lines) ==
    /\ \A k \in 1..Len(h) : h[k].line = s[k]
    /\ Len(more) = Len(lines)
    /\ \A k \in 1..Len(more) : more[k].line = lines[k]
    /\ \A k \in 1..Len(lines) : lines[k] = s[Len(h) + k]

\* The first n lines of s are handled.
HandledIs(s, h, n) == /\ h \in Seq(Entries) /\ Len(h) = n
                      /\ \A k \in 1..n : h[k].line = s[k]

LEMMA HandledGoesOn ==
    ASSUME NEW s, NEW h \in Seq(Entries), NEW more \in Seq(Entries), NEW lines,
           GoOn(s, h, more, lines), NEW g, g = h \o more
    PROVE  HandledIs(s, g, Len(h) + Len(lines))
  <1>1. /\ g \in Seq(Entries) /\ Len(g) = Len(h) + Len(more)
        /\ \A k \in 1..Len(h) : g[k] = h[k]
        /\ \A k \in 1..Len(more) : g[Len(h) + k] = more[k]
    BY ConcatParts
  <1>2. Len(h) \in Nat /\ Len(more) \in Nat
    BY LenProperties
  <1>3. ASSUME NEW k \in 1..Len(g) PROVE g[k].line = s[k]
    <2>1. CASE k \in 1..Len(h)
      BY <1>1, <2>1 DEF GoOn
    <2>2. CASE k \notin 1..Len(h)
      <3> DEFINE j == k - Len(h)
      <3>1. j \in 1..Len(more) /\ k = Len(h) + j
        BY <1>1, <1>2, <2>2
      <3> HIDE DEF j
      <3>2. g[k] = more[j] /\ more[j].line = s[Len(h) + j]
        BY <1>1, <3>1 DEF GoOn
      <3> QED
        BY <3>1, <3>2 DEF GoOn
    <2> QED
      BY <2>1, <2>2
  <1> QED
    BY <1>1, <1>3 DEF GoOn, HandledIs

\* What the watcher makes of a chunk, whatever the entries of its lines are.
Chunk(n, parsed, entries) ==
    /\ parsed = Parse(stream.raw \o SubSeq(wire, 1, n), stream.text)
    /\ stream' = [stream EXCEPT !.raw = parsed.raw, !.text = parsed.text]
    /\ wire' = SubSeq(wire, n + 1, Len(wire)) /\ sent' = sent
    /\ entries \in Seq(Entries) /\ handled' = handled \o entries
    /\ Len(entries) = Len(parsed.lines)
    /\ \A k \in 1..Len(entries) : entries[k].line = parsed.lines[k]

\* It stays on the stream, one or more frames later.
LEMMA ChunkStreamed ==
    ASSUME Streamed, NEW n \in 1..Len(wire), NEW parsed, NEW entries,
           Chunk(n, parsed, entries)
    PROVE  Streamed'
  <1> DEFINE raw == stream.raw \o SubSeq(wire, 1, n)
  <1>1. /\ wire \in Seq(Parts) /\ Len(wire) \in Nat /\ Len(stream.raw) \in Nat
        /\ sent \in Seq(Lines) /\ Len(sent) \in Nat /\ LengthOf(Len(sent)) \in Nat
        /\ handled \in Seq(Entries) /\ Len(handled) \in Nat
        /\ entries \in Seq(Entries) /\ Len(entries) \in Nat
    BY LenProperties, LengthType DEF Streamed, Chunk
  <1>2. Stands(sent, Cut, raw, stream.text) /\ Len(raw) = Len(stream.raw) + n
    BY ChunkStands
  <1>3. /\ Cut \in Nat /\ Cut = LengthOf(Len(sent)) - Len(wire) - Len(stream.raw)
        /\ WholeBy(Cut) \in Nat
    <2>1. Cut \in Nat
      BY <1>2 DEF Stands
    <2>2. Cut = LengthOf(Len(sent)) - Len(wire) - Len(stream.raw)
      BY DEF Cut
    <2> QED
      BY <2>1, <2>2 DEF WholeBy
  <1> HIDE DEF raw
  <1>4. PICK next : /\ Stands(sent, next, parsed.raw, parsed.text)
                    /\ Gives(sent, WholeBy(Cut), next, parsed.lines)
                    /\ next + Len(parsed.raw) = Cut + Len(raw)
                    /\ ~FrameIn(parsed.raw)
    <2>1. parsed = Parse(raw, stream.text)
      BY DEF raw, Chunk
    <2> QED
      BY <1>1, <1>2, <2>1, ParseMoves, Zenon
  <1>5. /\ next \in Nat /\ parsed.raw \in Seq(Parts) /\ Len(parsed.raw) \in Nat
        /\ parsed.text = IF next % 10 = 7 THEN <<PartAt(sent, next)>> ELSE <<>>
        /\ next + Len(parsed.raw) <= LengthOf(Len(sent))
    BY <1>4, LenProperties DEF Stands
  <1>6. parsed.text \in Seq(Parts)
    <2>1. CASE next % 10 = 7
      <3>1. next > 0 /\ next <= LengthOf(Len(sent))
        <4>1. /\ next \in Nat /\ next % 10 = 7 /\ Len(parsed.raw) \in Nat
              /\ next + Len(parsed.raw) <= LengthOf(Len(sent))
              /\ LengthOf(Len(sent)) \in Nat
          BY <1>1, <1>5, <2>1
        <4> QED
          BY <4>1, HalfBefore, Zenon
      <3>2. PartAt(sent, next) \in Parts
        BY <1>1, <1>5, <3>1, PartType
      <3>3. parsed.text = <<PartAt(sent, next)>>
        BY <1>5, <2>1, Zenon
      <3> QED
        BY <3>2, <3>3, OneSeq, Zenon
    <2>2. CASE next % 10 # 7
      <3>1. parsed.text = <<>>
        BY <1>5, <2>2, Zenon
      <3>2. <<>> \in Seq(Parts)
        BY <1>5, EmptySeq, Zenon
      <3> QED
        BY <3>1, <3>2, Zenon
    <2> QED
      BY <2>1, <2>2
  <1>7. /\ stream' \in [on : BOOLEAN, raw : Seq(Parts), text : Seq(Parts)]
        /\ stream'.raw = parsed.raw /\ stream'.text = parsed.text
    BY <1>5, <1>6 DEF Streamed, Chunk
  <1>8. /\ wire' \in Seq(Parts) /\ Len(wire') = Len(wire) - n
        /\ \A i \in 1..Len(wire') : wire'[i] = wire[n + i]
    BY <1>1 DEF Chunk
  <1>9. Cut' = next
    <2>1. Cut' = LengthOf(Len(sent)) - (Len(wire) - n) - Len(parsed.raw)
      BY <1>7, <1>8 DEF Cut, Chunk
    <2>2. /\ Len(wire) \in Nat /\ Len(parsed.raw) \in Nat /\ Len(stream.raw) \in Nat
          /\ LengthOf(Len(sent)) \in Nat /\ n \in Nat /\ next \in Nat
          /\ Cut = LengthOf(Len(sent)) - Len(wire) - Len(stream.raw)
          /\ next + Len(parsed.raw) = Cut + (Len(stream.raw) + n)
      BY <1>1, <1>2, <1>3, <1>4, <1>5
    <2> QED
      BY <2>1, <2>2
  <1>10. \A i \in 1..Len(wire') : wire'[i] = PartAt(sent', Cut' + Len(stream'.raw) + i)
    <2> SUFFICES ASSUME NEW i \in 1..Len(wire')
                 PROVE  wire'[i] = PartAt(sent, next + Len(parsed.raw) + i)
      BY <1>7, <1>9 DEF Chunk
    <2>1. /\ n + i \in 1..Len(wire)
          /\ Cut + Len(stream.raw) + (n + i) = next + Len(parsed.raw) + i
      <3> DEFINE old == Len(stream.raw)
                 new == Len(parsed.raw)
                 w == Len(wire)
                 cut == Cut
      <3>1. /\ n \in Nat /\ cut \in Nat /\ old \in Nat /\ next \in Nat /\ new \in Nat
            /\ w \in Nat
        BY <1>1, <1>3, <1>5
      <3>2. next + new = cut + (old + n)
        BY <1>2, <1>4, Zenon
      <3>3. i \in 1..(w - n)
        BY <1>8, Zenon
      <3> HIDE DEF old, new, w, cut
      <3>4. n + i \in 1..w /\ cut + old + (n + i) = next + new + i
        BY <3>1, <3>2, <3>3
      <3> QED
        BY <3>4 DEF old, new, w, cut
    <2>2. wire[n + i] = PartAt(sent, Cut + Len(stream.raw) + (n + i))
      BY <2>1 DEF Streamed
    <2> QED
      BY <1>8, <2>1, <2>2
  <1>11. /\ Len(handled) = WholeBy(Cut)
         /\ WholeBy(Cut) + Len(parsed.lines) = WholeBy(next)
         /\ \A k \in 1..Len(parsed.lines) : parsed.lines[k] = sent[Len(handled) + k]
    BY <1>4 DEF Gives, Streamed
  <1>12. /\ handled' \in Seq(Entries)
         /\ Len(handled') = Len(handled) + Len(parsed.lines)
         /\ \A k \in 1..Len(handled') : handled'[k].line = sent[k]
    <2>1. GoOn(sent, handled, entries, parsed.lines)
      BY <1>11 DEF Streamed, Chunk, GoOn
    <2>2. handled' = handled \o entries
      BY DEF Chunk
    <2>3. HandledIs(sent, handled', Len(handled) + Len(parsed.lines))
      BY <1>1, <2>1, <2>2, HandledGoesOn, Zenon
    <2> QED
      BY <2>3 DEF HandledIs
  <1>13. Len(handled') = WholeBy(Cut')
    BY <1>9, <1>11, <1>12
  <1>14. Stands(sent', Cut', stream'.raw, stream'.text)
    BY <1>4, <1>7, <1>9 DEF Chunk
  <1>15. sent' = sent
    BY DEF Chunk
  <1> QED
    BY <1>1, <1>4, <1>7, <1>8, <1>9, <1>10, <1>11, <1>12, <1>13, <1>14, <1>15 DEF Streamed
-----------------------------------------------------------------------------
\* What is parsed are lines.
LEMMA ParsedLines ==
    ASSUME Streamed, NEW n \in 1..Len(wire)
    PROVE  Parse(stream.raw \o SubSeq(wire, 1, n), stream.text).lines \in Seq(Lines)
  <1> DEFINE raw == stream.raw \o SubSeq(wire, 1, n)
             parsed == Parse(raw, stream.text)
  <1>1. Stands(sent, Cut, raw, stream.text)
    BY ChunkStands
  <1>2. sent \in Seq(Lines)
    BY DEF Streamed
  <1> HIDE DEF raw
  <1>3. \E next : Gives(sent, WholeBy(Cut), next, parsed.lines)
    BY <1>1, <1>2, ParseMoves, Zenon
  <1>4. parsed.lines \in Seq(Lines)
    BY <1>3 DEF Gives
  <1> QED
    BY <1>4 DEF raw

\* The cache of this turn has a proxy or none for each domain.
LEMMA LookedUpType ==
    ASSUME HistoryTypeOK, NEW expired \in BOOLEAN, cache = None => expired
    PROVE  LookedUp(expired) \in [FakeDomains -> ProxyIds \cup {None}]
  <1>1. CASE expired
    <2>1. LookedUp(expired) = Fresh
      BY <1>1 DEF LookedUp
    <2>2. ASSUME NEW d \in FakeDomains
          PROVE  (IF OwnerOf(d) = {} THEN None ELSE CHOOSE i \in OwnerOf(d) : TRUE)
                     \in ProxyIds \cup {None}
      BY DEF OwnerOf
    <2> QED
      BY <2>1, <2>2 DEF Fresh
  <1>2. CASE ~expired
    BY <1>2 DEF LookedUp, HistoryTypeOK
  <1> QED
    BY <1>1, <1>2

\* A proxy a fresh cache has for a domain has it.
LEMMA FreshOwns ==
    ASSUME NEW d \in FakeDomains
    PROVE  /\ Fresh[d] \in IF OwnerOf(d) = {} THEN {None} ELSE OwnerOf(d)
           /\ Fresh[d] # None => Fresh[d] \in OwnerOf(d)
  <1>1. Fresh[d] = IF OwnerOf(d) = {} THEN None ELSE CHOOSE i \in OwnerOf(d) : TRUE
    BY DEF Fresh
  <1> QED
    BY <1>1

\* What a chunk does besides: nothing, or a cache is looked up and the entries of its
\* lines are processed.
Looking(expired, entries) ==
    /\ expired \in BOOLEAN /\ (cache = None => expired)
    /\ cache' = LookedUp(expired)
    /\ entries \in Seq(Entries)
    /\ \A k \in 1..Len(entries) : entries[k].to = LookedUp(expired)[entries[k].line.domain]
    /\ Process(entries)
    /\ settled' = (settled \/ expired)

\* Data, without its loops.
LEMMA DataMoves ==
    ASSUME HistoryTypeOK, Streamed, NEW n \in 1..Len(wire), Data(n)
    PROVE  /\ Streamed'
           /\ stream.on /\ stream'.on
           /\ UNCHANGED <<proxies, stats, call, del, gone, excused>>
           /\ \/ UNCHANGED <<cache, ips, looks, handled, settled>>
              \/ \E expired, entries : Looking(expired, entries)
  <1> DEFINE parsed == Parse(stream.raw \o SubSeq(wire, 1, n), stream.text)
             lines == parsed.lines
  <1>1. /\ stream.on
        /\ stream' = [stream EXCEPT !.raw = parsed.raw, !.text = parsed.text]
        /\ wire' = SubSeq(wire, n + 1, Len(wire))
        /\ UNCHANGED <<proxies, stats, call, del, gone, sent, excused>>
        /\ \/ lines = <<>> /\ UNCHANGED <<cache, ips, looks, handled, settled>>
           \/ \E expired \in IF cache = None THEN {TRUE} ELSE BOOLEAN :
                /\ cache' = LookedUp(expired)
                /\ Process([k \in DOMAIN lines |->
                              [line |-> lines[k],
                               to |-> LookedUp(expired)[lines[k].domain]]])
                /\ settled' = (settled \/ expired)
    BY DEF Data
  <1>2. lines \in Seq(Lines)
    BY ParsedLines
  <1> HIDE DEF parsed
  <1>3. stream'.on
    BY <1>1 DEF Streamed
  <1>4. CASE lines = <<>> /\ UNCHANGED <<cache, ips, looks, handled, settled>>
    <2>1. <<>> \in Seq(Entries) /\ Len(<<>>) = 0 /\ handled \o <<>> = handled
      BY ConcatEmptySeq DEF Streamed
    <2>2. Chunk(n, parsed, <<>>)
      BY <1>1, <1>4, <2>1 DEF Chunk, parsed
    <2>3. Streamed'
      BY <2>2, ChunkStreamed
    <2> QED
      BY <1>1, <1>3, <1>4, <2>3
  <1>5. ASSUME NEW expired \in IF cache = None THEN {TRUE} ELSE BOOLEAN,
               cache' = LookedUp(expired),
               Process([k \in DOMAIN lines |->
                          [line |-> lines[k], to |-> LookedUp(expired)[lines[k].domain]]]),
               settled' = (settled \/ expired)
        PROVE  Streamed' /\ \E entries : Looking(expired, entries)
    <2> DEFINE to(k) == LookedUp(expired)[lines[k].domain]
               entries == [k \in DOMAIN lines |-> [line |-> lines[k], to |-> to(k)]]
    <2>1. expired \in BOOLEAN /\ (cache = None => expired)
      BY <1>5
    <2>2. LookedUp(expired) \in [FakeDomains -> ProxyIds \cup {None}]
      BY <2>1, LookedUpType
    <2>3. DOMAIN lines = 1..Len(lines) /\ Len(lines) \in Nat
      BY <1>2, LenProperties
    <2>4. ASSUME NEW k \in 1..Len(lines)
          PROVE  [line |-> lines[k], to |-> to(k)] \in Entries
      <3>1. lines[k] \in Lines
        BY <1>2, ElementOfSeq
      <3>2. lines[k].domain \in FakeDomains
        BY <3>1 DEF Lines
      <3> QED
        BY <2>2, <3>1, <3>2 DEF Entries
    <2>5. entries = [k \in 1..Len(lines) |-> [line |-> lines[k], to |-> to(k)]]
      BY <2>3
    <2> HIDE DEF to
    <2>6. /\ entries \in Seq(Entries) /\ Len(entries) = Len(lines)
          /\ \A k \in 1..Len(entries) : entries[k] = [line |-> lines[k], to |-> to(k)]
      BY <2>3, <2>4, <2>5
    <2>7. /\ Process(entries)
          /\ handled' = handled \o entries
      BY <1>5 DEF Process, to
    <2> HIDE DEF entries
    <2>8. \A k \in 1..Len(entries) : entries[k].line = lines[k] /\ entries[k].to = to(k)
      <3> SUFFICES ASSUME NEW k \in 1..Len(entries)
                   PROVE  entries[k].line = lines[k] /\ entries[k].to = to(k)
        OBVIOUS
      <3> DEFINE line == lines[k]
                 owner == to(k)
      <3>1. entries[k] = [line |-> line, to |-> owner]
        BY <2>6
      <3> HIDE DEF line, owner
      <3>2. entries[k].line = line /\ entries[k].to = owner
        BY <3>1
      <3> QED
        BY <3>2 DEF line, owner
    <2>9. Chunk(n, parsed, entries)
      BY <1>1, <2>6, <2>7, <2>8 DEF Chunk, parsed
    <2>10. Streamed'
      BY <2>9, ChunkStreamed
    <2>11. \A k \in 1..Len(entries) : entries[k].to = LookedUp(expired)[entries[k].line.domain]
      BY <2>8 DEF to
    <2>12. Looking(expired, entries)
      BY <1>5, <2>1, <2>6, <2>7, <2>11 DEF Looking
    <2> QED
      BY <2>10, <2>12
  <1> QED
    BY <1>1, <1>3, <1>4, <1>5
-----------------------------------------------------------------------------
\* What a chunk writes for whom: a proxy it had in the cache, or one that is stored.
LEMMA LookingFor ==
    ASSUME HistoryTypeOK, NEW expired, NEW entries, Looking(expired, entries)
    PROVE  /\ cache' \in [FakeDomains -> ProxyIds \cup {None}]
           /\ ips' \in [ProxyIds -> SUBSET Ips]
           /\ looks' \subseteq ProxyIds \X Ips
           /\ settled' \in BOOLEAN
           /\ handled' = handled \o entries
           /\ \A i \in ProxyIds \ StoredIds :
                 ~UnderWay(i) => /\ ips'[i] = ips[i]
                                 /\ \A ip \in Ips : <<i, ip>> \notin looks'
                                 /\ \A d \in FakeDomains : cache'[d] # i
           /\ settled' => \A d \in FakeDomains :
                 \/ settled /\ cache # None /\ cache'[d] = cache[d]
                 \/ cache'[d] \in IF OwnerOf(d) = {} THEN {None} ELSE OwnerOf(d)
  <1> DEFINE to(k) == entries[k].to
             ip(k) == entries[k].line.ip
             For(i) == {k \in Found(entries) : entries[k].to = i}
  <1>1. /\ expired \in BOOLEAN /\ (cache = None => expired)
        /\ cache' = LookedUp(expired)
        /\ entries \in Seq(Entries)
        /\ \A k \in 1..Len(entries) : entries[k].to = cache'[entries[k].line.domain]
        /\ settled' = (settled \/ expired)
        /\ ips' = [i \in ProxyIds |-> ips[i] \cup {entries[k].line.ip : k \in For(i)}]
        /\ looks' = looks \cup {<<entries[k].to, entries[k].line.ip>> : k \in Found(entries)}
        /\ handled' = handled \o entries
    BY DEF Looking, Process
  <1>2. cache' \in [FakeDomains -> ProxyIds \cup {None}]
    BY <1>1, LookedUpType
  <1>3. ASSUME NEW k \in Found(entries)
        PROVE  /\ k \in 1..Len(entries) /\ to(k) \in ProxyIds /\ ip(k) \in Ips
               /\ entries[k].line.domain \in FakeDomains
    <2>1. k \in 1..Len(entries) /\ to(k) # None
      BY <1>1 DEF Found
    <2>2. entries[k] \in Entries
      BY <1>1, <2>1, ElementOfSeq
    <2> QED
      BY <2>1, <2>2 DEF Entries, Lines
  <1>4. ips' \in [ProxyIds -> SUBSET Ips]
    <2>1. \A i \in ProxyIds : {entries[k].line.ip : k \in For(i)} \in SUBSET Ips
      BY <1>3
    <2>2. \A i \in ProxyIds : ips[i] \in SUBSET Ips
      BY DEF HistoryTypeOK
    <2> HIDE DEF For
    <2> QED
      BY <1>1, <2>1, <2>2
  <1>5. looks' \subseteq ProxyIds \X Ips
    <2>1. {<<entries[k].to, entries[k].line.ip>> : k \in Found(entries)}
              \subseteq ProxyIds \X Ips
      BY <1>3
    <2> QED
      BY <1>1, <2>1 DEF HistoryTypeOK
  <1>6. ASSUME NEW d \in FakeDomains
        PROVE  \/ cache'[d] = Fresh[d] /\ expired
               \/ ~expired /\ cache # None /\ cache'[d] = cache[d]
    BY <1>1 DEF LookedUp
  <1>7. ASSUME NEW i \in ProxyIds \ StoredIds, ~UnderWay(i), NEW d \in FakeDomains
        PROVE  cache'[d] # i
    <2>1. CASE cache'[d] = Fresh[d]
      <3>1. i # None
        BY HistoryAssumption
      <3>2. i \notin OwnerOf(d)
        BY <1>7, HistoryAssumption DEF OwnerOf, StoredIds
      <3> QED
        BY <2>1, <3>1, <3>2, FreshOwns
    <2>2. CASE cache # None /\ cache'[d] = cache[d]
      BY <1>7, <2>2 DEF UnderWay
    <2> QED
      BY <1>6, <2>1, <2>2
  <1>8. ASSUME NEW i \in ProxyIds \ StoredIds, ~UnderWay(i)
        PROVE  For(i) = {}
    BY <1>1, <1>3, <1>7, <1>8
  <1>9. ASSUME NEW i \in ProxyIds \ StoredIds, ~UnderWay(i)
        PROVE  ips'[i] = ips[i] /\ \A p \in Ips : <<i, p>> \notin looks'
    <2>1. ips'[i] = ips[i]
      BY <1>1, <1>8, <1>9
    <2>2. ASSUME NEW p \in Ips, <<i, p>> \in looks' PROVE FALSE
      <3>1. <<i, p>> \notin looks
        BY <1>9 DEF UnderWay
      <3>2. PICK k \in Found(entries) : <<entries[k].to, entries[k].line.ip>> = <<i, p>>
        BY <1>1, <2>2, <3>1
      <3>3. k \in For(i)
        BY <3>2
      <3> QED
        BY <1>8, <1>9, <3>3
    <2> QED
      BY <2>1, <2>2
  <1>10. ASSUME settled', NEW d \in FakeDomains
         PROVE  \/ settled /\ cache # None /\ cache'[d] = cache[d]
                \/ cache'[d] \in IF OwnerOf(d) = {} THEN {None} ELSE OwnerOf(d)
    <2>1. CASE expired /\ cache'[d] = Fresh[d]
      BY <2>1, FreshOwns
    <2>2. CASE ~expired /\ cache # None /\ cache'[d] = cache[d]
      BY <1>1, <1>10, <2>2
    <2> QED
      BY <1>6, <2>1, <2>2
  <1>11. settled' \in BOOLEAN
    BY <1>1 DEF HistoryTypeOK
  <1> HIDE DEF For, to, ip
  <1> QED
    BY <1>1, <1>2, <1>4, <1>5, <1>7, <1>9, <1>10, <1>11
-----------------------------------------------------------------------------
(* The inductive invariant of NodeHistory.                                 *)

\* Nothing is under way from nginx while the watcher is away.
OffIsEmpty == ~stream.on => wire = <<>> /\ sent = <<>> /\ handled = <<>>

\* An id is never used again, and a deletion goes on after the array has lost it.
Deletions ==
    /\ gone \cap StoredIds = {}
    /\ \A i \in ProxyIds : /\ del[i] = "docker" => i \in StoredIds
                           /\ del[i] \in {"stats", "ips"} => i \in gone

\* Once the statistics of a proxy are removed, nothing writes a history of it.
Quiet == \A i \in gone \ excused : del[i] \in {"none", "ips"} => ~UnderWay(i) /\ ~stats[i]

\* The cache is true while it was built after the last change of the proxies.
CacheOwns ==
    settled /\ cache # None =>
        \A d \in FakeDomains : cache[d] \in IF OwnerOf(d) = {} THEN {None} ELSE OwnerOf(d)

\* No step takes the state out of its types, or the watcher off the stream.
LEMMA TypeStep ==
    ASSUME HistoryTypeOK, Streamed, OffIsEmpty, [HistoryNext]_historyVars
    PROVE  HistoryTypeOK' /\ Streamed' /\ OffIsEmpty'
  <1>1. CASE Restart
    <2>1. stream' \in [on : BOOLEAN, raw : {<<>>}, text : {<<>>}]
      BY <1>1 DEF Restart, Lost, Off
    <2>2. Streamed'
      BY <1>1, <2>1, StreamedNew DEF Restart, Lost
    <2> QED
      BY <1>1, <2>1, <2>2 DEF Restart, Lost, Off, OffIsEmpty, HistoryTypeOK, NoCallOf
  <1>2. CASE Connect
    <2>1. stream' \in [on : BOOLEAN, raw : {<<>>}, text : {<<>>}] /\ stream'.on
      BY <1>2 DEF Connect, Off
    <2>2. Streamed'
      BY <1>2, <2>1, StreamedNew DEF Connect, OffIsEmpty
    <2> QED
      BY <1>2, <2>1, <2>2 DEF Connect, OffIsEmpty, HistoryTypeOK
  <1>3. CASE Disconnect
    <2>1. stream' \in [on : BOOLEAN, raw : {<<>>}, text : {<<>>}]
      BY <1>3 DEF Disconnect, Lost, Off
    <2>2. Streamed'
      BY <1>3, <2>1, StreamedNew DEF Disconnect, Lost
    <2> QED
      BY <1>3, <2>1, <2>2 DEF Disconnect, Lost, Off, OffIsEmpty, HistoryTypeOK
  <1>4. ASSUME NEW line \in Lines, Log(line)
        PROVE  HistoryTypeOK' /\ Streamed' /\ OffIsEmpty'
    <2>1. Streamed'
      BY <1>4, LogStreamed
    <2> QED
      BY <1>4, <2>1 DEF Log, OffIsEmpty, HistoryTypeOK
  <1>5. ASSUME NEW n \in 1..Len(wire), Data(n)
        PROVE  HistoryTypeOK' /\ Streamed' /\ OffIsEmpty'
    <2>1. Streamed' /\ OffIsEmpty' /\ stream'.on
      BY <1>5, DataMoves DEF OffIsEmpty
    <2>2. CASE UNCHANGED <<cache, ips, looks, handled, settled>>
      BY <1>5, <2>1, <2>2, DataMoves DEF HistoryTypeOK
    <2>3. ASSUME NEW expired, NEW entries, Looking(expired, entries)
          PROVE  HistoryTypeOK'
      <3>1. /\ cache' \in [FakeDomains -> ProxyIds \cup {None}]
            /\ ips' \in [ProxyIds -> SUBSET Ips]
            /\ looks' \subseteq ProxyIds \X Ips
            /\ settled' \in BOOLEAN
        BY <2>3, LookingFor
      <3>2. UNCHANGED <<proxies, stats, call, del, gone, excused>>
        BY <1>5, DataMoves
      <3> QED
        BY <2>1, <3>1, <3>2 DEF HistoryTypeOK
    <2> QED
      BY <1>5, <2>1, <2>2, <2>3, DataMoves
  <1>6. ASSUME NEW look \in looks, Located(look)
        PROVE  HistoryTypeOK' /\ Streamed' /\ OffIsEmpty'
    BY <1>6, StreamedKept DEF HistoryTypeOK, OffIsEmpty, watcher, Located
  <1>7. ASSUME NEW c \in Calls, NEW i \in ProxyIds, Collect(c, i)
        PROVE  HistoryTypeOK' /\ Streamed' /\ OffIsEmpty'
    BY <1>7, StreamedKept DEF HistoryTypeOK, OffIsEmpty, watcher, Collect
  <1>8. ASSUME NEW c \in Calls, ReadDocker(c)
        PROVE  HistoryTypeOK' /\ Streamed' /\ OffIsEmpty'
    BY <1>8, StreamedKept DEF HistoryTypeOK, OffIsEmpty, watcher, Step, ReadDocker
  <1>9. ASSUME NEW c \in Calls, Snapshot(c)
        PROVE  HistoryTypeOK' /\ Streamed' /\ OffIsEmpty'
    BY <1>9, StreamedKept DEF HistoryTypeOK, OffIsEmpty, watcher, Step, Snapshot
  <1>10. ASSUME NEW c \in Calls, Record(c)
         PROVE  HistoryTypeOK' /\ Streamed' /\ OffIsEmpty'
    BY <1>10, StreamedKept DEF HistoryTypeOK, OffIsEmpty, watcher, NoCallOf, Record
  <1>11. ASSUME NEW c \in Calls, CollectEnds(c)
         PROVE  HistoryTypeOK' /\ Streamed' /\ OffIsEmpty'
    BY <1>11, StreamedKept DEF HistoryTypeOK, OffIsEmpty, watcher, NoCallOf, CollectEnds
  <1>12. ASSUME NEW i \in ProxyIds, Delete(i)
         PROVE  HistoryTypeOK' /\ Streamed' /\ OffIsEmpty'
    BY <1>12, StreamedKept DEF HistoryTypeOK, OffIsEmpty, watcher, Stand, Delete
  <1>13. ASSUME NEW i \in ProxyIds, RemoveProxy(i)
         PROVE  HistoryTypeOK' /\ Streamed' /\ OffIsEmpty'
    BY <1>13, StreamedKept DEF HistoryTypeOK, OffIsEmpty, Stand, Proxies, RemoveProxy
  <1>14. ASSUME NEW i \in ProxyIds, RemoveStats(i)
         PROVE  HistoryTypeOK' /\ Streamed' /\ OffIsEmpty'
    BY <1>14, StreamedKept DEF HistoryTypeOK, OffIsEmpty, watcher, Stand, Excuse,
           RemoveStats
  <1>15. ASSUME NEW i \in ProxyIds, RemoveIps(i)
         PROVE  HistoryTypeOK' /\ Streamed' /\ OffIsEmpty'
    BY <1>15, StreamedKept DEF HistoryTypeOK, OffIsEmpty, watcher, Stand, Excuse, RemoveIps
  <1>16. ASSUME NEW i \in ProxyIds, Clear(i)
         PROVE  HistoryTypeOK' /\ Streamed' /\ OffIsEmpty'
    BY <1>16, StreamedKept DEF HistoryTypeOK, OffIsEmpty, watcher, Clear
  <1>17. ASSUME NEW i \in ProxyIds, NEW d \in FakeDomains, CreateProxy(i, d)
         PROVE  HistoryTypeOK' /\ Streamed' /\ OffIsEmpty'
    BY <1>17, StreamedKept DEF HistoryTypeOK, OffIsEmpty, Proxies, CreateProxy
  <1>18. ASSUME NEW i \in ProxyIds, NEW d \in FakeDomains, ChangeDomain(i, d)
         PROVE  HistoryTypeOK' /\ Streamed' /\ OffIsEmpty'
    BY <1>18, StreamedKept DEF HistoryTypeOK, OffIsEmpty, Proxies, ChangeDomain
  <1>19. CASE UNCHANGED historyVars
    BY <1>19, StreamedKept DEF HistoryTypeOK, OffIsEmpty, historyVars
  <1> QED
    BY <1>1, <1>2, <1>3, <1>4, <1>5, <1>6, <1>7, <1>8, <1>9,
       <1>10, <1>11, <1>12, <1>13, <1>14, <1>15, <1>16, <1>17, <1>18, <1>19 DEF HistoryNext

\* A deletion that has passed the container is of a deleted proxy.
LEMMA DeletionsStep ==
    ASSUME HistoryTypeOK, Streamed, OffIsEmpty, Deletions, [HistoryNext]_historyVars
    PROVE  Deletions'
  <1>1. CASE Restart
    BY <1>1, HistoryAssumption DEF Deletions, StoredIds, HistoryTypeOK, Restart
  <1>2. CASE Connect
    BY <1>2, HistoryAssumption DEF Deletions, StoredIds, HistoryTypeOK, Connect
  <1>3. CASE Disconnect
    BY <1>3, HistoryAssumption DEF Deletions, StoredIds, HistoryTypeOK, Disconnect
  <1>4. ASSUME NEW line \in Lines, Log(line) PROVE Deletions'
    BY <1>4, HistoryAssumption DEF Deletions, StoredIds, HistoryTypeOK, Log
  <1>5. ASSUME NEW n \in 1..Len(wire), Data(n) PROVE Deletions'
    BY <1>5, DataMoves DEF Deletions, StoredIds
  <1>6. ASSUME NEW look \in looks, Located(look) PROVE Deletions'
    BY <1>6, HistoryAssumption DEF Deletions, StoredIds, HistoryTypeOK, Located
  <1>7. ASSUME NEW c \in Calls, NEW i \in ProxyIds, Collect(c, i) PROVE Deletions'
    BY <1>7, HistoryAssumption DEF Deletions, StoredIds, HistoryTypeOK, Collect
  <1>8. ASSUME NEW c \in Calls, ReadDocker(c) PROVE Deletions'
    BY <1>8, HistoryAssumption DEF Deletions, StoredIds, HistoryTypeOK, ReadDocker
  <1>9. ASSUME NEW c \in Calls, Snapshot(c) PROVE Deletions'
    BY <1>9, HistoryAssumption DEF Deletions, StoredIds, HistoryTypeOK, Snapshot
  <1>10. ASSUME NEW c \in Calls, Record(c) PROVE Deletions'
    BY <1>10, HistoryAssumption DEF Deletions, StoredIds, HistoryTypeOK, Record
  <1>11. ASSUME NEW c \in Calls, CollectEnds(c) PROVE Deletions'
    BY <1>11, HistoryAssumption DEF Deletions, StoredIds, HistoryTypeOK, CollectEnds
  <1>12. ASSUME NEW i \in ProxyIds, Delete(i) PROVE Deletions'
    BY <1>12, HistoryAssumption DEF Deletions, StoredIds, HistoryTypeOK, Stand, Delete
  <1>13. ASSUME NEW i \in ProxyIds, RemoveProxy(i) PROVE Deletions'
    BY <1>13, HistoryAssumption DEF Deletions, StoredIds, HistoryTypeOK, Proxies, Stand,
           RemoveProxy
  <1>14. ASSUME NEW i \in ProxyIds, RemoveStats(i) PROVE Deletions'
    BY <1>14, HistoryAssumption DEF Deletions, StoredIds, HistoryTypeOK, Stand, RemoveStats
  <1>15. ASSUME NEW i \in ProxyIds, RemoveIps(i) PROVE Deletions'
    BY <1>15, HistoryAssumption DEF Deletions, StoredIds, HistoryTypeOK, Stand, RemoveIps
  <1>16. ASSUME NEW i \in ProxyIds, Clear(i) PROVE Deletions'
    BY <1>16, HistoryAssumption DEF Deletions, StoredIds, HistoryTypeOK, Clear
  <1>17. ASSUME NEW i \in ProxyIds, NEW d \in FakeDomains, CreateProxy(i, d)
         PROVE  Deletions'
    BY <1>17, HistoryAssumption DEF Deletions, StoredIds, HistoryTypeOK, Proxies,
           CreateProxy
  <1>18. ASSUME NEW i \in ProxyIds, NEW d \in FakeDomains, ChangeDomain(i, d)
         PROVE  Deletions'
    BY <1>18, HistoryAssumption DEF Deletions, StoredIds, HistoryTypeOK, Proxies,
           ChangeDomain
  <1>19. CASE UNCHANGED historyVars
    BY <1>19 DEF Deletions, StoredIds, historyVars
  <1> QED
    BY <1>1, <1>2, <1>3, <1>4, <1>5, <1>6, <1>7, <1>8, <1>9,
       <1>10, <1>11, <1>12, <1>13, <1>14, <1>15, <1>16, <1>17, <1>18, <1>19 DEF HistoryNext

\* A cache that was built since the proxies changed has the owners.
LEMMA CacheStep ==
    ASSUME HistoryTypeOK, Streamed, OffIsEmpty, CacheOwns, [HistoryNext]_historyVars
    PROVE  CacheOwns'
  <1>1. CASE Restart
    BY <1>1 DEF CacheOwns, OwnerOf, Lost, Restart
  <1>2. CASE Connect
    BY <1>2 DEF CacheOwns, OwnerOf, Connect
  <1>3. CASE Disconnect
    BY <1>3 DEF CacheOwns, OwnerOf, Lost, Disconnect
  <1>4. ASSUME NEW line \in Lines, Log(line) PROVE CacheOwns'
    BY <1>4 DEF CacheOwns, OwnerOf, Log
  <1>5. ASSUME NEW n \in 1..Len(wire), Data(n) PROVE CacheOwns'
    <2>1. UNCHANGED proxies /\ \A d \in FakeDomains : OwnerOf(d)' = OwnerOf(d)
      BY <1>5, DataMoves DEF OwnerOf
    <2>2. CASE UNCHANGED <<cache, settled>>
      BY <2>1, <2>2 DEF CacheOwns
    <2>3. ASSUME NEW expired, NEW entries, Looking(expired, entries)
          PROVE  CacheOwns'
      <3>1. settled' => \A d \in FakeDomains :
               \/ settled /\ cache # None /\ cache'[d] = cache[d]
               \/ cache'[d] \in IF OwnerOf(d) = {} THEN {None} ELSE OwnerOf(d)
        BY <2>3, LookingFor
      <3> QED
        BY <2>1, <3>1 DEF CacheOwns
    <2> QED
      BY <1>5, <2>2, <2>3, DataMoves
  <1>6. ASSUME NEW look \in looks, Located(look) PROVE CacheOwns'
    BY <1>6 DEF CacheOwns, OwnerOf, watcher, Located
  <1>7. ASSUME NEW c \in Calls, NEW i \in ProxyIds, Collect(c, i) PROVE CacheOwns'
    BY <1>7 DEF CacheOwns, OwnerOf, watcher, Collect
  <1>8. ASSUME NEW c \in Calls, ReadDocker(c) PROVE CacheOwns'
    BY <1>8 DEF CacheOwns, OwnerOf, watcher, ReadDocker
  <1>9. ASSUME NEW c \in Calls, Snapshot(c) PROVE CacheOwns'
    BY <1>9 DEF CacheOwns, OwnerOf, watcher, Snapshot
  <1>10. ASSUME NEW c \in Calls, Record(c) PROVE CacheOwns'
    BY <1>10 DEF CacheOwns, OwnerOf, watcher, Record
  <1>11. ASSUME NEW c \in Calls, CollectEnds(c) PROVE CacheOwns'
    BY <1>11 DEF CacheOwns, OwnerOf, watcher, CollectEnds
  <1>12. ASSUME NEW i \in ProxyIds, Delete(i) PROVE CacheOwns'
    BY <1>12 DEF CacheOwns, OwnerOf, watcher, Delete
  <1>13. ASSUME NEW i \in ProxyIds, RemoveProxy(i) PROVE CacheOwns'
    BY <1>13 DEF CacheOwns, OwnerOf, Proxies, RemoveProxy
  <1>14. ASSUME NEW i \in ProxyIds, RemoveStats(i) PROVE CacheOwns'
    BY <1>14 DEF CacheOwns, OwnerOf, watcher, RemoveStats
  <1>15. ASSUME NEW i \in ProxyIds, RemoveIps(i) PROVE CacheOwns'
    BY <1>15 DEF CacheOwns, OwnerOf, watcher, RemoveIps
  <1>16. ASSUME NEW i \in ProxyIds, Clear(i) PROVE CacheOwns'
    BY <1>16 DEF CacheOwns, OwnerOf, watcher, Clear
  <1>17. ASSUME NEW i \in ProxyIds, NEW d \in FakeDomains, CreateProxy(i, d)
         PROVE  CacheOwns'
    BY <1>17 DEF CacheOwns, OwnerOf, Proxies, CreateProxy
  <1>18. ASSUME NEW i \in ProxyIds, NEW d \in FakeDomains, ChangeDomain(i, d)
         PROVE  CacheOwns'
    BY <1>18 DEF CacheOwns, OwnerOf, Proxies, ChangeDomain
  <1>19. CASE UNCHANGED historyVars
    BY <1>19 DEF CacheOwns, OwnerOf, historyVars
  <1> QED
    BY <1>1, <1>2, <1>3, <1>4, <1>5, <1>6, <1>7, <1>8, <1>9,
       <1>10, <1>11, <1>12, <1>13, <1>14, <1>15, <1>16, <1>17, <1>18, <1>19 DEF HistoryNext

\* A step that writes no history of a proxy leaves it so, if nothing more is under way.
LEMMA QuietKept ==
    ASSUME Quiet, HistoryGoesWithProxy, gone \subseteq ProxyIds,
           UNCHANGED <<ips, stats, del, gone, excused>>,
           \A i \in ProxyIds : UnderWay(i)' => UnderWay(i)
    PROVE  Quiet' /\ HistoryGoesWithProxy'
  BY DEF Quiet, HistoryGoesWithProxy

\* Nothing writes a history of a proxy after it was removed, except what is excused.
LEMMA QuietStep ==
    ASSUME HistoryTypeOK, Streamed, OffIsEmpty, Deletions, Quiet, HistoryGoesWithProxy,
           [HistoryNext]_historyVars
    PROVE  Quiet' /\ HistoryGoesWithProxy'
  <1>1. CASE Restart
    BY <1>1, HistoryAssumption DEF Quiet, HistoryGoesWithProxy, UnderWay, Deletions,
           StoredIds, HistoryTypeOK, NoCallOf, Lost, Restart
  <1>2. CASE Connect
    BY <1>2, HistoryAssumption DEF Quiet, HistoryGoesWithProxy, UnderWay, Deletions,
           StoredIds, HistoryTypeOK, Connect
  <1>3. CASE Disconnect
    BY <1>3, HistoryAssumption DEF Quiet, HistoryGoesWithProxy, UnderWay, Deletions,
           StoredIds, HistoryTypeOK, Lost, Disconnect
  <1>4. ASSUME NEW line \in Lines, Log(line) PROVE Quiet' /\ HistoryGoesWithProxy'
    <2>1. UNCHANGED <<cache, ips, stats, looks, call, del, gone, excused>>
      BY <1>4 DEF Log
    <2> QED
      BY <2>1, QuietKept DEF UnderWay, HistoryTypeOK
  <1>5. ASSUME NEW n \in 1..Len(wire), Data(n) PROVE Quiet' /\ HistoryGoesWithProxy'
    <2>1. UNCHANGED <<proxies, stats, call, del, gone, excused>>
      BY <1>5, DataMoves
    <2>2. CASE UNCHANGED <<cache, ips, looks>>
      BY <2>1, <2>2 DEF Quiet, HistoryGoesWithProxy, UnderWay
    <2>3. ASSUME NEW expired, NEW entries, Looking(expired, entries)
          PROVE  Quiet' /\ HistoryGoesWithProxy'
      <3>1. ASSUME NEW i \in gone \ excused, ~UnderWay(i)
            PROVE  ~UnderWay(i)' /\ ips'[i] = ips[i]
        <4>1. i \in ProxyIds \ StoredIds
          BY DEF Deletions, HistoryTypeOK
        <4>2. /\ ips'[i] = ips[i]
              /\ \A ip \in Ips : <<i, ip>> \notin looks'
              /\ \A d \in FakeDomains : cache'[d] # i
          BY <2>3, <3>1, <4>1, LookingFor
        <4> QED
          BY <2>1, <3>1, <4>2 DEF UnderWay
      <3> QED
        BY <2>1, <3>1 DEF Quiet, HistoryGoesWithProxy
    <2> QED
      BY <1>5, <2>2, <2>3, DataMoves
  <1>6. ASSUME NEW look \in looks, Located(look) PROVE Quiet' /\ HistoryGoesWithProxy'
    BY <1>6, HistoryAssumption DEF Quiet, HistoryGoesWithProxy, UnderWay, Deletions,
           StoredIds, HistoryTypeOK, watcher, Located
  <1>7. ASSUME NEW c \in Calls, NEW i \in ProxyIds, Collect(c, i)
        PROVE  Quiet' /\ HistoryGoesWithProxy'
    <2>1. /\ call' = [call EXCEPT ![c] = [at |-> "docker", id |-> i]]
          /\ i \in StoredIds
          /\ UNCHANGED <<proxies, cache, ips, stats, looks, del, gone, excused>>
      BY <1>7 DEF Collect, watcher
    <2>2. ASSUME NEW j \in gone, UnderWay(j)' PROVE UnderWay(j)
      <3>1. j # i
        BY <2>1 DEF Deletions
      <3> QED
        BY <2>1, <2>2, <3>1 DEF UnderWay, HistoryTypeOK
    <2> QED
      BY <2>1, <2>2 DEF Quiet, HistoryGoesWithProxy
  <1>8. ASSUME NEW c \in Calls, ReadDocker(c) PROVE Quiet' /\ HistoryGoesWithProxy'
    <2>1. /\ call' = [call EXCEPT ![c].at = "save"]
          /\ UNCHANGED <<cache, ips, stats, looks, del, gone, excused>>
      BY <1>8 DEF ReadDocker, Step, watcher
    <2>2. \A b \in Calls : call'[b].id = call[b].id
      BY <2>1 DEF HistoryTypeOK
    <2> QED
      BY <2>1, <2>2, QuietKept DEF UnderWay, HistoryTypeOK
  <1>9. ASSUME NEW c \in Calls, Snapshot(c) PROVE Quiet' /\ HistoryGoesWithProxy'
    <2>1. /\ call' = [call EXCEPT ![c].at = "record"]
          /\ stats' = [stats EXCEPT ![call[c].id] = TRUE]
          /\ UNCHANGED <<cache, ips, looks, del, gone, excused>>
      BY <1>9 DEF Snapshot, Step, watcher
    <2>2. \A b \in Calls : call'[b].id = call[b].id
      BY <2>1 DEF HistoryTypeOK
    <2>3. \A i \in ProxyIds : UnderWay(i)' <=> UnderWay(i)
      BY <2>1, <2>2 DEF UnderWay
    <2>4. \A i \in ProxyIds : ~UnderWay(i) => stats'[i] = stats[i]
      BY <2>1 DEF UnderWay, HistoryTypeOK
    <2>5. del[call[c].id] \in {"none", "ips"} /\ call[c].id \in gone => call[c].id \in excused
      BY DEF Quiet, UnderWay
    <2>6. call[c].id \in gone \ excused => del[call[c].id] \notin {"none", "ips"}
      BY <2>5
    <2> QED
      BY <2>1, <2>3, <2>4, <2>6 DEF Quiet, HistoryGoesWithProxy, HistoryTypeOK, UnderWay
  <1>10. ASSUME NEW c \in Calls, Record(c) PROVE Quiet' /\ HistoryGoesWithProxy'
    <2>1. /\ \E found \in SUBSET Ips : ips' = [ips EXCEPT ![call[c].id] = @ \cup found]
          /\ call' = [call EXCEPT ![c] = NoCallOf]
          /\ UNCHANGED <<proxies, stats, looks, cache, del, gone, excused>>
      BY <1>10 DEF Record, watcher
    <2>2. \A i \in ProxyIds : UnderWay(i)' => UnderWay(i)
      BY <2>1, HistoryAssumption DEF UnderWay, HistoryTypeOK, NoCallOf
    <2>3. \A i \in ProxyIds : ~UnderWay(i) => ips'[i] = ips[i]
      BY <2>1 DEF UnderWay, HistoryTypeOK
    <2> QED
      BY <2>1, <2>2, <2>3 DEF Quiet, HistoryGoesWithProxy, HistoryTypeOK
  <1>11. ASSUME NEW c \in Calls, CollectEnds(c) PROVE Quiet' /\ HistoryGoesWithProxy'
    BY <1>11, HistoryAssumption DEF Quiet, HistoryGoesWithProxy, UnderWay, Deletions,
           StoredIds, HistoryTypeOK, watcher, NoCallOf, CollectEnds
  <1>12. ASSUME NEW i \in ProxyIds, Delete(i) PROVE Quiet' /\ HistoryGoesWithProxy'
    BY <1>12, HistoryAssumption DEF Quiet, HistoryGoesWithProxy, UnderWay, Deletions,
           StoredIds, HistoryTypeOK, watcher, Stand, Delete
  <1>13. ASSUME NEW i \in ProxyIds, RemoveProxy(i) PROVE Quiet' /\ HistoryGoesWithProxy'
    BY <1>13, HistoryAssumption DEF Quiet, HistoryGoesWithProxy, UnderWay, Deletions,
           StoredIds, HistoryTypeOK, Stand, Proxies, RemoveProxy
  <1>14. ASSUME NEW i \in ProxyIds, RemoveStats(i) PROVE Quiet' /\ HistoryGoesWithProxy'
    <2>1. /\ del' = [del EXCEPT ![i] = "ips"] /\ stats' = [stats EXCEPT ![i] = FALSE]
          /\ excused' = IF UnderWay(i) THEN excused \cup {i} ELSE excused
          /\ UNCHANGED <<cache, ips, looks, call, gone>>
      BY <1>14 DEF RemoveStats, Stand, Excuse, watcher
    <2>2. \A j \in ProxyIds : UnderWay(j)' <=> UnderWay(j)
      BY <2>1 DEF UnderWay
    <2>3. ASSUME NEW j \in gone \ excused' PROVE j \in ProxyIds /\ j \in gone \ excused
      BY <2>1 DEF HistoryTypeOK
    <2>4. ASSUME NEW j \in gone \ excused', j # i
          PROVE  /\ del'[j] \in {"none", "ips"} => ~UnderWay(j)' /\ ~stats'[j]
                 /\ del'[j] = "none" => ips'[j] = {} /\ ~stats'[j]
      BY <2>1, <2>2, <2>3, <2>4 DEF HistoryTypeOK, Quiet, HistoryGoesWithProxy
    <2>5. ASSUME i \in gone \ excused'
          PROVE  ~UnderWay(i)' /\ ~stats'[i] /\ del'[i] = "ips"
      BY <2>1, <2>2, <2>5 DEF HistoryTypeOK
    <2> QED
      BY <2>1, <2>4, <2>5 DEF Quiet, HistoryGoesWithProxy
  <1>15. ASSUME NEW i \in ProxyIds, RemoveIps(i) PROVE Quiet' /\ HistoryGoesWithProxy'
    BY <1>15, HistoryAssumption DEF Quiet, HistoryGoesWithProxy, UnderWay, Deletions,
           StoredIds, HistoryTypeOK, watcher, Stand, Excuse, RemoveIps
  <1>16. ASSUME NEW i \in ProxyIds, Clear(i) PROVE Quiet' /\ HistoryGoesWithProxy'
    BY <1>16, HistoryAssumption DEF Quiet, HistoryGoesWithProxy, UnderWay, Deletions,
           StoredIds, HistoryTypeOK, watcher, Clear
  <1>17. ASSUME NEW i \in ProxyIds, NEW d \in FakeDomains, CreateProxy(i, d)
         PROVE  Quiet' /\ HistoryGoesWithProxy'
    BY <1>17, HistoryAssumption DEF Quiet, HistoryGoesWithProxy, UnderWay, Deletions,
           StoredIds, HistoryTypeOK, Proxies, CreateProxy
  <1>18. ASSUME NEW i \in ProxyIds, NEW d \in FakeDomains, ChangeDomain(i, d)
         PROVE  Quiet' /\ HistoryGoesWithProxy'
    BY <1>18, HistoryAssumption DEF Quiet, HistoryGoesWithProxy, UnderWay, Deletions,
           StoredIds, HistoryTypeOK, Proxies, ChangeDomain
  <1>19. CASE UNCHANGED historyVars
    BY <1>19 DEF Quiet, HistoryGoesWithProxy, UnderWay, historyVars
  <1> QED
    BY <1>1, <1>2, <1>3, <1>4, <1>5, <1>6, <1>7, <1>8, <1>9,
       <1>10, <1>11, <1>12, <1>13, <1>14, <1>15, <1>16, <1>17, <1>18, <1>19 DEF HistoryNext
-----------------------------------------------------------------------------
\* All of it: HistoryGoesWithProxy holds because of Quiet, and Quiet because of
\* Deletions.
HistoryInv == /\ HistoryTypeOK /\ Streamed /\ OffIsEmpty
              /\ Deletions /\ CacheOwns /\ Quiet /\ HistoryGoesWithProxy

LEMMA InvInit == HistoryInit => HistoryInv
  <1> SUFFICES ASSUME HistoryInit PROVE HistoryInv
    OBVIOUS
  <1>1. HistoryTypeOK
    BY DEF HistoryInit, HistoryTypeOK, Off, NoCallOf
  <1>2. Streamed
    <2>1. Len(<<>>) = 0 /\ LengthOf(0) = 0 /\ WholeBy(0) = 0 /\ 0 % 10 = 0
      BY DEF LengthOf, WholeBy
    <2>2. /\ stream = [on |-> FALSE, raw |-> <<>>, text |-> <<>>]
          /\ wire = <<>> /\ sent = <<>> /\ handled = <<>>
          /\ stream.raw = <<>> /\ stream.text = <<>>
      BY DEF HistoryInit, Off
    <2>3. Cut = 0
      BY <2>1, <2>2 DEF Cut
    <2>4. Stands(<<>>, 0, <<>>, <<>>) /\ ~FrameIn(<<>>)
      BY <2>1 DEF Stands, FrameIn
    <2>5. stream \in [on : BOOLEAN, raw : Seq(Parts), text : Seq(Parts)]
      <3>1. <<>> \in Seq(Parts)
        OBVIOUS
      <3> QED
        BY <2>2, <3>1
    <2> QED
      BY <2>1, <2>2, <2>3, <2>4, <2>5 DEF Streamed
  <1>3. OffIsEmpty
    BY DEF HistoryInit, OffIsEmpty
  <1>4. Deletions /\ CacheOwns /\ Quiet /\ HistoryGoesWithProxy
    BY DEF HistoryInit, Deletions, CacheOwns, Quiet, HistoryGoesWithProxy
  <1> QED
    BY <1>1, <1>2, <1>3, <1>4 DEF HistoryInv

LEMMA InvStep == HistoryInv /\ [HistoryNext]_historyVars => HistoryInv'
  BY TypeStep, DeletionsStep, CacheStep, QuietStep, Zenon DEF HistoryInv

LEMMA InvHolds == HistorySpec => []HistoryInv
  BY InvInit, InvStep, PTL DEF HistorySpec

\* Every variable of NodeHistory keeps its type: no collection, lookup or line writes
\* under an id that was never a proxy's (nginx.ts, proxy.ts and store/index.ts).
THEOREM HistoryTypeCorrect == HistorySpec => []HistoryTypeOK
  <1>1. HistoryInv => HistoryTypeOK
    BY DEF HistoryInv
  <1> QED
    BY <1>1, InvHolds, PTL

\* deleteProxy: the histories of a deleted proxy stay empty, unless something that
\* could write them was under way when they were removed.
THEOREM DeletedHistoriesGo == HistorySpec => []HistoryGoesWithProxy
  <1>1. HistoryInv => HistoryGoesWithProxy
    BY DEF HistoryInv
  <1> QED
    BY <1>1, InvHolds, PTL
-----------------------------------------------------------------------------
\* No line ends in a buffer that has no whole frame.
LEMMA NoEndInBuffer ==
    ASSUME NEW s \in Seq(Lines), NEW cut, NEW raw, NEW text, Stands(s, cut, raw, text),
           ~FrameIn(raw)
    PROVE  WholeBy(cut + Len(raw)) = WholeBy(cut)
  <1>1. cut \in Nat /\ cut % 10 \in {0, 4, 7} /\ Len(raw) \in Nat
    BY LenProperties DEF Stands
  <1>2. CASE Len(raw) < 2
    BY <1>1, <1>2 DEF WholeBy
  <1>3. CASE Len(raw) >= 2
    <2>1. /\ cut % 10 = 0 => raw[2] = Size(2)
          /\ cut % 10 # 0 => raw[2] = Size(1)
      BY <1>1, <1>3, FrameAt, Zenon
    <2>2. Size(1).n = 1 /\ Size(2).n = 2
      BY DEF Size
    <2>3. cut % 10 = 0 => Len(raw) < 4
      BY <1>1, <1>3, <2>1, <2>2 DEF FrameIn
    <2>4. cut % 10 # 0 => Len(raw) < 3
      BY <1>1, <1>3, <2>1, <2>2 DEF FrameIn
    <2> QED
      BY <1>1, <1>3, <2>3, <2>4 DEF WholeBy
  <1> QED
    BY <1>1, <1>2, <1>3

\* The parts of the stream that end a line: one for each line.
LEMMA EndsOfLines ==
    /\ \A j \in Nat : WholeBy(LengthOf(j)) = j
    /\ \A m \in Nat : m % 10 \in {0, 4} => LengthOf(WholeBy(m)) = m
    /\ \A j \in Nat : LengthOf(j) % 10 \in {0, 4}
    /\ \A m \in Nat : \A o \in Nat : m <= o => WholeBy(m) <= WholeBy(o)
    /\ \A m \in Nat : WholeBy(m) \in Nat
    /\ \A m \in Nat : \A j \in Nat : j > WholeBy(m) => LengthOf(j) > m
    /\ \A m \in Nat : m > 0 /\ m % 10 \in {0, 4} => WholeBy(m) > WholeBy(m - 1)
    /\ \A i \in Nat : \A j \in Nat : i <= j => LengthOf(i) <= LengthOf(j)
  BY DEF WholeBy, LengthOf

\* So many of them are among the last of n lines' stream.
LEMMA EndsAfter ==
    ASSUME NEW n \in Nat, NEW c \in Nat, NEW w \in Nat, c + w = LengthOf(n)
    PROVE  Cardinality({k \in 1..w : (c + k) % 10 \in {0, 4}}) = n - WholeBy(c)
  <1> DEFINE S == (WholeBy(c) + 1)..n
             T == {k \in 1..w : (c + k) % 10 \in {0, 4}}
             f == [j \in S |-> LengthOf(j) - c]
  <1>1. WholeBy(c) \in Nat /\ WholeBy(c) <= n
    <2>1. c <= LengthOf(n)
      OBVIOUS
    <2> QED
      BY <2>1, WholeBound
  <1>2. ASSUME NEW j \in S
        PROVE  LengthOf(j) - c \in T
    <2>1. j \in Nat /\ j > WholeBy(c) /\ j <= n
      BY <1>1
    <2>2. LengthOf(j) \in Nat /\ LengthOf(j) > c /\ LengthOf(j) <= LengthOf(n)
      BY <2>1, LengthType, EndsOfLines
    <2>3. LengthOf(j) - c \in 1..w /\ c + (LengthOf(j) - c) = LengthOf(j)
      BY <2>2
    <2> QED
      BY <2>1, <2>3, EndsOfLines
  <1>3. ASSUME NEW k \in T
        PROVE  /\ WholeBy(c + k) \in S
               /\ LengthOf(WholeBy(c + k)) - c = k
    <2>1. c + k \in Nat /\ c + k > 0 /\ (c + k) % 10 \in {0, 4} /\ c + k <= LengthOf(n)
          /\ c <= (c + k) - 1 /\ (c + k) - 1 \in Nat
      OBVIOUS
    <2>2. WholeBy(c + k) <= n /\ WholeBy(c + k) \in Nat
      BY <2>1, WholeBound
    <2>3. WholeBy((c + k) - 1) < WholeBy(c + k) /\ WholeBy(c) <= WholeBy((c + k) - 1)
      BY <2>1, EndsOfLines
    <2>4. WholeBy((c + k) - 1) \in Nat
      BY <2>1, EndsOfLines
    <2>5. WholeBy(c + k) \in S
      BY <1>1, <2>2, <2>3, <2>4
    <2>6. LengthOf(WholeBy(c + k)) = c + k
      BY <2>1, EndsOfLines
    <2> QED
      BY <2>5, <2>6
  <1>4. ASSUME NEW i \in S, NEW j \in S, LengthOf(i) - c = LengthOf(j) - c
        PROVE  i = j
    <2>1. i \in Nat /\ j \in Nat /\ LengthOf(i) \in Nat /\ LengthOf(j) \in Nat
      BY <1>1, LengthType
    <2>2. LengthOf(i) = LengthOf(j)
      BY <1>4, <2>1
    <2> QED
      BY <2>1, <2>2, EndsOfLines
  <1>5. f \in Bijection(S, T)
    <2> HIDE DEF S, T
    <2>1. f \in [S -> T]
      BY <1>2
    <2>2. \A i, j \in S : f[i] = f[j] => i = j
      BY <1>4
    <2>3. \A k \in T : \E j \in S : f[j] = k
      BY <1>3
    <2> QED
      BY <2>1, <2>2, <2>3, Fun_IsBij
  <1>6. IsFiniteSet(S) /\ Cardinality(S) = n - WholeBy(c)
    <2> DEFINE a == WholeBy(c) + 1
    <2>1. a \in Int /\ n \in Int
      BY <1>1
    <2> HIDE DEF a
    <2>2. IsFiniteSet(a..n) /\ Cardinality(a..n) = IF a > n THEN 0 ELSE n-a+1
      BY <2>1, FS_Interval
    <2> USE DEF a
    <2>3. S = a..n
      OBVIOUS
    <2> HIDE DEF S
    <2>4. IsFiniteSet(S) /\ Cardinality(S) = IF a > n THEN 0 ELSE n-a+1
      BY <2>2, <2>3
    <2> QED
      BY <1>1, <2>4
  <1> HIDE DEF S, T, f
  <1>7. Cardinality(T) = Cardinality(S)
    BY <1>5, <1>6, FS_Bijection DEF ExistsBijection
  <1> QED
    BY <1>6, <1>7 DEF T

\* Where the watcher stands says which lines are whole: those not on the wire.
LEMMA WholeInv == HistoryInv => LinesArriveWhole
  <1> SUFFICES ASSUME HistoryInv PROVE LinesArriveWhole
    OBVIOUS
  <1> DEFINE n == Len(sent)
             w == Len(wire)
             raw == stream.raw
             here == Cut + Len(raw)
             ended == {k \in DOMAIN wire : wire[k].end}
             lines == [k \in DOMAIN handled |-> handled[k].line]
             given == WholeBy(Cut)
  <1>1. /\ wire \in Seq(Parts) /\ sent \in Seq(Lines) /\ handled \in Seq(Entries)
        /\ Stands(sent, Cut, raw, stream.text) /\ ~FrameIn(raw)
        /\ \A i \in 1..w : wire[i] = PartAt(sent, Cut + Len(raw) + i)
        /\ Len(handled) = WholeBy(Cut)
        /\ \A k \in 1..Len(handled) : handled[k].line = sent[k]
    BY DEF HistoryInv, Streamed
  <1>2. /\ n \in Nat /\ w \in Nat /\ Len(raw) \in Nat /\ Cut \in Nat /\ here \in Nat
        /\ DOMAIN wire = 1..w /\ raw \in Seq(Parts)
    BY <1>1, LenProperties DEF Stands
  <1>3. here + w = LengthOf(n)
    <2>1. LengthOf(n) \in Nat
      BY <1>2, LengthType
    <2> QED
      BY <1>2, <2>1 DEF Cut
  <1>4. WholeBy(here) = given /\ given \in Nat /\ given <= n
    <2>1. WholeBy(here) = given
      BY <1>1, NoEndInBuffer
    <2>2. here <= LengthOf(n)
      <3>1. LengthOf(n) \in Nat
        BY <1>2, LengthType
      <3> QED
        BY <1>2, <1>3, <3>1
    <2>3. WholeBy(here) \in Nat /\ WholeBy(here) <= n
      BY <1>2, <2>2, WholeBound
    <2> QED
      BY <2>1, <2>3
  <1>5. ended = {k \in 1..w : (here + k) % 10 \in {0, 4}}
    <2> SUFFICES ASSUME NEW k \in 1..w
                 PROVE  wire[k].end <=> (here + k) % 10 \in {0, 4}
      BY <1>2
    <2> DEFINE m == here + k
               line == sent[WholeBy(m - 1) + 1]
    <2>1. m \in Nat /\ m > 0 /\ m % 10 \in 0..9
      <3> HIDE DEF here, w
      <3>1. here \in Nat /\ k \in Nat /\ k > 0
        BY <1>2
      <3> QED
        BY <3>1
    <2>2. wire[k] = PartAt(sent, m)
      BY <1>1
    <2> HIDE DEF m
    <2>3. /\ m % 10 \in {1, 5, 8} => PartAt(sent, m) = Type
          /\ m % 10 = 2 => PartAt(sent, m) = Size(2)
          /\ m % 10 \in {6, 9} => PartAt(sent, m) = Size(1)
          /\ m % 10 \in {3, 7} => PartAt(sent, m) = Half(line, FALSE)
          /\ m % 10 \in {4, 0} => PartAt(sent, m) = Half(line, TRUE)
      BY <2>1, PartIs, Zenon
    <2>4. /\ Type.end = FALSE /\ Size(1).end = FALSE /\ Size(2).end = FALSE
          /\ Half(line, FALSE).end = FALSE /\ Half(line, TRUE).end = TRUE
      BY DEF Type, Size, Half
    <2>5. CASE m % 10 \in {0, 4}
      <3>1. PartAt(sent, m).end = TRUE
        BY <2>3, <2>4, <2>5, Zenon
      <3> QED
        BY <2>2, <2>5, <3>1, Zenon DEF m
    <2>6. CASE m % 10 \notin {0, 4}
      <3>1. m % 10 \in {1, 5, 8} \/ m % 10 = 2 \/ m % 10 \in {6, 9} \/ m % 10 \in {3, 7}
        BY <2>1, <2>6
      <3>2. PartAt(sent, m).end = FALSE
        BY <2>3, <2>4, <3>1, Zenon
      <3> QED
        BY <2>2, <2>6, <3>2, Zenon DEF m
    <2> QED
      BY <2>5, <2>6
  <1>6. Cardinality(ended) = n - given
    <2>1. n \in Nat /\ here \in Nat /\ w \in Nat /\ here + w = LengthOf(n)
      BY <1>2, <1>3
    <2> HIDE DEF n, here, w, ended, given
    <2>2. Cardinality({k \in 1..w : (here + k) % 10 \in {0, 4}}) = n - WholeBy(here)
      BY <2>1, EndsAfter, Zenon
    <2> QED
      BY <1>4, <1>5, <2>2, Zenon
  <1> HIDE DEF ended, here
  <1>7. n - Cardinality(ended) = given
    BY <1>2, <1>4, <1>6
  <1>8. lines = SubSeq(sent, 1, given)
    <2>1. DOMAIN handled = 1..given
      BY <1>1, LenProperties
    <2>2. SubSeq(sent, 1, given) = [k \in 1..given |-> sent[k]]
      BY <1>1, <1>2, <1>4
    <2>3. \A k \in 1..given : handled[k].line = sent[k]
      BY <1>1
    <2> HIDE DEF given
    <2> QED
      BY <2>1, <2>2, <2>3
  <1> QED
    BY <1>7, <1>8 DEF LinesArriveWhole, ended

\* watchNginxLogs: whatever chunks the log comes in, and however many lines it has,
\* each is handled once, in order and whole, as soon as its last byte is there.
THEOREM LinesAreWhole == HistorySpec => []LinesArriveWhole
  BY WholeInv, InvHolds, PTL
-----------------------------------------------------------------------------
\* A step of RecordedForOwner.
RecordStep ==
    \A k \in DOMAIN handled' \ DOMAIN handled :
       settled' =>
          LET owner == OwnerOf(handled'[k].line.domain)
          IN handled'[k].to \in IF owner = {} THEN {None} ELSE owner

\* Only a chunk adds to what is handled.
LEMMA OnlyDataHandles ==
    ASSUME [HistoryNext]_historyVars
    PROVE  handled' = handled \/ handled' = <<>> \/ \E n \in 1..Len(wire) : Data(n)
  BY Zenon DEF HistoryNext, historyVars, watcher, Restart, Connect, Disconnect, Lost, Log,
         Located, Collect,
     ReadDocker, Snapshot, Record, CollectEnds, Delete, RemoveProxy, RemoveStats, RemoveIps,
     Clear, CreateProxy, ChangeDomain

\* And it adds what the cache it looked up has.
LEMMA RecordedStep ==
    ASSUME HistoryInv, [HistoryNext]_historyVars
    PROVE  RecordStep
  <1>1. CASE handled' = handled \/ handled' = <<>>
    BY <1>1 DEF RecordStep
  <1>2. ASSUME NEW n \in 1..Len(wire), Data(n),
               NEW expired, NEW entries, Looking(expired, entries)
        PROVE  RecordStep
    <2> SUFFICES ASSUME NEW k \in DOMAIN handled' \ DOMAIN handled, settled'
                 PROVE  handled'[k].to \in
                           LET owner == OwnerOf(handled'[k].line.domain)
                           IN IF owner = {} THEN {None} ELSE owner
      BY DEF RecordStep
    <2>1. /\ handled \in Seq(Entries) /\ entries \in Seq(Entries)
          /\ handled' = handled \o entries
          /\ Len(handled) \in Nat /\ Len(entries) \in Nat
      BY <1>2, LenProperties DEF Looking, Process, HistoryInv, Streamed
    <2>2. /\ handled' \in Seq(Entries) /\ Len(handled') = Len(handled) + Len(entries)
          /\ \A j \in 1..Len(entries) : handled'[Len(handled) + j] = entries[j]
      BY <2>1, ConcatParts
    <2>3. PICK j \in 1..Len(entries) : k = Len(handled) + j
      <3>1. k \in 1..Len(handled') /\ k \notin 1..Len(handled)
        BY <2>1, <2>2, LenProperties
      <3>2. /\ k - Len(handled) \in 1..Len(entries)
            /\ k = Len(handled) + (k - Len(handled))
        BY <2>1, <2>2, <3>1
      <3> QED
        BY <3>2
    <2> DEFINE d == entries[j].line.domain
    <2>4. handled'[k] = entries[j]
      BY <2>2, <2>3
    <2>5. d \in FakeDomains
      <3>1. entries[j] \in Entries
        BY <2>1, ElementOfSeq
      <3> QED
        BY <3>1 DEF Entries, Lines
    <2>6. entries[j].to = cache'[d]
      BY <1>2 DEF Looking
    <2>7. \/ settled /\ cache # None /\ cache'[d] = cache[d]
          \/ cache'[d] \in IF OwnerOf(d) = {} THEN {None} ELSE OwnerOf(d)
      BY <1>2, <2>5, LookingFor DEF HistoryInv
    <2>8. cache'[d] \in IF OwnerOf(d) = {} THEN {None} ELSE OwnerOf(d)
      BY <2>5, <2>7 DEF HistoryInv, CacheOwns
    <2> QED
      BY <2>4, <2>6, <2>8
  <1>3. ASSUME NEW n \in 1..Len(wire), Data(n) PROVE RecordStep
    BY <1>1, <1>2, <1>3, DataMoves DEF HistoryInv
  <1> QED
    BY <1>1, <1>3, OnlyDataHandles

\* getProxyIdByDomain: a line is recorded for the proxy that has its domain, or for
\* none, unless the proxies changed since the cache was built.
THEOREM OwnersAreRecorded == HistorySpec => RecordedForOwner
  <1>1. HistoryInv /\ [HistoryNext]_historyVars => [RecordStep]_historyVars
    BY RecordedStep
  <1>2. HistorySpec => [][RecordStep]_historyVars
    BY <1>1, InvHolds, PTL DEF HistorySpec
  <1> QED
    BY <1>2 DEF RecordedForOwner, RecordStep
=============================================================================
