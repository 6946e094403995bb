----------------------- MODULE ProxyLifecycleProofs ------------------------
(***************************************************************************)
(* Proofs about ProxyLifecycle, for any ids, domains and requests and any  *)
(* number of failures and crashes.                                         *)
(*                                                                         *)
(* The invariants speak about ids at rest that are not disturbed.  For     *)
(* induction one has to know that such an id has one request at a time,    *)
(* what that request finds at each of its awaits (Finds), and what a crash *)
(* would leave: store.json names the same proxy as the cache (Alike), or   *)
(* there are no containers.  That each request is one step of ManagedProxy *)
(* needs, beside that, what the cache and the file name before and after   *)
(* its change (AtomicFinds).                                               *)
(***************************************************************************)
EXTENDS ProxyLifecycle, TLAPS

\* Awaits of a request before it has touched its entry.
Before == {"xrayRemove", "xrayFetch", "xrayCreate", "xrayStart", "teleRemove", "teleCreate",
           "teleStart", "dockerPause", "change"}

\* The awaits of each operation.
AwaitFits(r) ==
    \/ Op(r) = "create" /\ pc[r] \in {"xrayFetch", "xrayCreate", "xrayStart", "teleCreate",
                                    "teleStart", "change", "save", "nginx", "undoTele", "undoXray"}
    \/ Op(r) = "update" /\ pc[r] \in {"xrayRemove", "xrayFetch", "xrayCreate", "xrayStart",
                                    "teleRemove", "teleCreate", "teleStart", "change", "save", "nginx"}
    \/ Op(r) = "restart" /\ pc[r] \in {"teleRemove", "teleCreate", "teleStart", "change", "save", "nginx"}
    \/ Op(r) = "delete" /\ pc[r] \in {"teleRemove", "xrayRemove", "change", "save", "clean", "nginx"}
    \/ Op(r) \in {"pause", "unpause"} /\ pc[r] \in {"dockerPause", "change", "save"}

\* What a request asked for and read fits its operation.
AskFits(r) ==
    /\ InFlight(r) => AwaitFits(r)
    /\ Op(r) = "create" => /\ req[r].domain \in Domains /\ req[r].vpn \in {"keep", "on"}
                           /\ old[r] = NoProxy
    /\ Op(r) # "create" => old[r] \in Proxies
    /\ Op(r) \notin {"create", "update"} => req[r].domain = Same /\ req[r].vpn = "keep"
    /\ pc[r] \in {"xrayFetch", "xrayCreate", "xrayStart"} => req[r].vpn = "on"

AsksFit == \A r \in Requests : pc[r] # "idle" => AskFits(r)

UndisturbedIsAlone ==
    \A q, r \in Requests : InFlight(q) /\ InFlight(r) /\ Id(q) = Id(r) /\ Id(r) \notin disturbed
                           => q = r

Bare(i) == tele[i] = NoTele /\ xray[i] = "none"

Alike(i) == /\ Stored(i) <=> disk[i] # NoProxy
            /\ Stored(i) => disk[i].domain = store[i].domain /\ (disk[i].vpn <=> store[i].vpn)

\* The telemt container is as the request wants it, and so is the VPN container.
Fits(r) == /\ Reachable(Id(r)) => /\ tele[Id(r)].domain = WantedDomain(r)
                                  /\ WantsVpn(r) => xray[Id(r)] = "running"
           /\ ~WantsVpn(r) => xray[Id(r)] = "none"

EntryBefore(r) ==
    IF Op(r) = "create" THEN ~Stored(Id(r)) /\ disk[Id(r)] = NoProxy
    ELSE /\ Stored(Id(r)) /\ Alike(Id(r))
         /\ old[r].domain = store[Id(r)].domain /\ (old[r].vpn <=> store[Id(r)].vpn)

Finds(r) ==
    /\ pc[r] \in Before => EntryBefore(r)
    /\ pc[r] \in {"xrayFetch", "xrayCreate"} /\ Op(r) = "create" => Bare(Id(r))
    /\ pc[r] = "xrayStart" /\ Op(r) = "create" => tele[Id(r)] = NoTele
    /\ pc[r] = "xrayRemove" /\ Op(r) = "delete" => tele[Id(r)] = NoTele
    /\ pc[r] \in {"teleRemove", "teleCreate", "undoTele"} /\ ~WantsVpn(r) => xray[Id(r)] = "none"
    /\ pc[r] \in {"teleCreate", "undoXray"} => tele[Id(r)] = NoTele
    /\ pc[r] = "teleStart" =>
         /\ tele[Id(r)] = [state |-> "created", domain |-> Same, by |-> r]
         /\ xray[Id(r)] = IF WantsVpn(r) THEN "running" ELSE "none"
    /\ pc[r] = "dockerPause" => Whole(Id(r))
    /\ pc[r] = "change" => IF Op(r) = "delete" THEN Bare(Id(r)) ELSE Fits(r)
    /\ pc[r] \in {"save", "clean", "nginx"} =>
         /\ Whole(Id(r))
         /\ Stored(Id(r)) <=> Op(r) # "delete"
         /\ Op(r) = "create" => (store[Id(r)].vpn <=> WantsVpn(r))
    /\ \/ pc[r] \in {"undoTele", "undoXray"}
       \/ pc[r] = "nginx" /\ Op(r) # "delete"
       \/ pc[r] = "save" /\ Op(r) \in {"restart", "pause", "unpause"}
       => Alike(Id(r))

FlightsFind == \A r \in Requests : InFlight(r) /\ Id(r) \notin disturbed => Finds(r)

Asked(i) == \E q \in Requests : pc[q] # "idle" /\ Id(q) = i

Settles(i) == Whole(i) /\ (Alike(i) \/ (~Stored(i) /\ Bare(i) /\ Asked(i)))

RestSettles == \A i \in Ids \ disturbed :
                 (\A r \in Requests : InFlight(r) => Id(r) # i) => Settles(i)

IInv == /\ TypeOK
        /\ AsksFit
        /\ UndisturbedIsAlone
        /\ FlightsFind
        /\ RestSettles

\* What a step leaves of a request it is not about, and of an id.
Kept(q) == pc'[q] = pc[q] /\ req'[q] = req[q] /\ old'[q] = old[q]

Untouched(i) ==
    /\ tele'[i] = tele[i] /\ xray'[i] = xray[i]
    /\ store'[i] # NoProxy <=> Stored(i)
    /\ Stored(i) => store'[i].domain = store[i].domain /\ (store'[i].vpn <=> store[i].vpn)
    /\ Alike(i) => Alike(i)'
    /\ ~Stored(i) /\ disk[i] = NoProxy => disk'[i] = NoProxy
-----------------------------------------------------------------------------
\* A request whose id nobody touched finds the same.
LEMMA Frame ==
    ASSUME NEW q \in Requests, Kept(q), Untouched(Id(q)), Finds(q)
    PROVE  Finds(q)'
  BY DEF Kept, Untouched, Finds, EntryBefore, Bare, Whole, Fits, Stored, Reachable,
         Id, Op, WantedDomain, WantsVpn

\* It still fits what it asked for.
LEMMA AskKept ==
    ASSUME NEW q \in Requests, Kept(q), AskFits(q)
    PROVE  AskFits(q)'
  BY DEF Kept, AskFits, AwaitFits, InFlight, Op

\* What a request makes of its entry is a proxy or nothing.
LEMMA EntryTyped ==
    ASSUME IInv, NEW r \in Requests, pc[r] # "idle", Op(r) = "create" \/ Stored(Id(r))
    PROVE  Entry(r) \in Proxies \cup {NoProxy}
  <1>1. req[r] \in Asks /\ AskFits(r) /\ Id(r) \in Ids
    BY DEF IInv, TypeOK, AsksFit, Asks, Id
  <1>2. CASE Op(r) = "create"
    <2>1. (req[r].vpn = "on") \in BOOLEAN
      OBVIOUS
    <2>2. \A b \in BOOLEAN : [domain |-> req[r].domain, status |-> "running", vpn |-> b] \in Proxies
      BY <1>1, <1>2 DEF AskFits, Proxies, Statuses
    <2> QED
      BY <1>2, <2>1, <2>2 DEF Entry
  <1>3. CASE Op(r) = "update"
    <2>1. store[Id(r)] \in Proxies
      BY <1>1, <1>3 DEF IInv, TypeOK, Stored
    <2> DEFINE d == IF req[r].domain = Same THEN store[Id(r)].domain ELSE req[r].domain
               v == IF req[r].vpn = "keep" THEN store[Id(r)].vpn ELSE req[r].vpn = "on"
    <2>2. d \in Domains /\ v \in BOOLEAN
      BY <1>1, <2>1 DEF Asks, Proxies
    <2>3. Entry(r) = [store[Id(r)] EXCEPT !.domain = d, !.vpn = v]
      BY <1>3 DEF Entry, Updated
    <2> HIDE DEF d, v
    <2> QED
      BY <2>1, <2>2, <2>3 DEF Proxies
  <1>4. CASE Op(r) \in {"restart", "unpause", "pause"}
    <2>1. store[Id(r)] \in Proxies
      BY <1>1, <1>4 DEF IInv, TypeOK, Stored
    <2> QED
      BY <1>4, <2>1 DEF Entry, Proxies, Statuses
  <1>5. CASE Op(r) = "delete"
    BY <1>5 DEF Entry
  <1> QED
    BY <1>1, <1>2, <1>3, <1>4, <1>5 DEF Asks, OpKinds, Op

\* And an id at rest stays settled.
LEMMA FrameSettles ==
    ASSUME NEW i \in Ids, Untouched(i), Settles(i), Asked(i) => Asked(i)'
    PROVE  Settles(i)'
  BY DEF Untouched, Settles, Bare, Whole, Stored, Reachable

\* A step of a request that is under way has only to show what it leaves the request
\* itself, or its id if it ends.
LEMMA StepInductive ==
    ASSUME IInv, NEW r \in Requests, InFlight(r), TypeOK', AsksFit',
           pc'[r] # "idle", req'[r] = req[r],
           \A q \in Requests \ {r} : Kept(q),
           \A i \in Ids \ {Id(r)} : Untouched(i),
           disturbed \subseteq disturbed',
           Id(r) \notin disturbed' => IF InFlight(r)' THEN Finds(r)' ELSE Settles(Id(r))'
    PROVE  IInv'
  <1>1. \A q \in Requests : pc[q] # "idle" => Id(q) \in Ids
    BY DEF IInv, TypeOK, Asks, Id
  <1>2. \A q \in Requests : Id(q)' = Id(q) /\ (InFlight(q)' => InFlight(q))
    BY DEF Kept, Id, InFlight
  <1>3. UndisturbedIsAlone'
    BY <1>2 DEF IInv, UndisturbedIsAlone
  <1>4. FlightsFind'
    <2> SUFFICES ASSUME NEW q \in Requests, InFlight(q)', Id(q)' \notin disturbed'
                 PROVE  Finds(q)'
      BY DEF FlightsFind
    <2>1. CASE q = r
      BY <1>2, <2>1
    <2>2. CASE q # r
      <3>1. InFlight(q) /\ Id(q) \notin disturbed /\ Finds(q)
        BY <1>2 DEF IInv, FlightsFind
      <3>2. Id(q) # Id(r)
        BY <2>2, <3>1 DEF IInv, UndisturbedIsAlone
      <3>3. Id(q) \in Ids
        BY <1>1, <3>1 DEF InFlight, Settled
      <3> QED
        BY <2>2, <3>1, <3>2, <3>3, Frame
    <2> QED
      BY <2>1, <2>2
  <1>5. RestSettles'
    <2> SUFFICES ASSUME NEW i \in Ids, i \notin disturbed',
                        \A q \in Requests : InFlight(q)' => Id(q)' # i
                 PROVE  Settles(i)'
      BY DEF RestSettles
    <2>1. CASE i = Id(r)
      BY <1>2, <2>1
    <2>2. CASE i # Id(r)
      <3>1. \A q \in Requests : InFlight(q) => Id(q) # i
        BY <1>2, <2>2 DEF InFlight, Kept
      <3>2. Settles(i)
        BY <3>1 DEF IInv, RestSettles
      <3>3. Asked(i) => Asked(i)'
        BY <1>2, <2>2 DEF Asked, Kept
      <3> QED
        BY <2>2, <3>2, <3>3, FrameSettles
    <2> QED
      BY <2>1, <2>2
  <1> QED
    BY <1>3, <1>4, <1>5 DEF IInv

\* A node has just started: every id is at rest and whole.
LEMMA InitInductive == Init => IInv
  <1> SUFFICES ASSUME Init PROVE IInv
    OBVIOUS
  <1>1. TypeOK
    <2>1. store \in [Ids -> Proxies \cup {NoProxy}] /\ disk = store
      BY DEF Init, Healthy, Proxies, Statuses
    <2>2. tele \in [Ids -> Containers \cup {NoTele}]
      BY DEF Init, Healthy, Containers, NoTele
    <2>4. req \in [Requests -> Asks \cup {NoProxy}] /\ old \in [Requests -> Proxies \cup {NoProxy}]
      BY DEF Init
    <2>3. /\ xray \in [Ids -> {"none", "created", "running"}]
          /\ pc \in [Requests -> Settled \cup Awaits] /\ \A r \in Requests : pc[r] = "idle"
      BY DEF Init, Settled
    <2> QED
      BY <2>1, <2>2, <2>3, <2>4, MaxFaultsAssumption DEF Init, TypeOK
  <1>2. \A r \in Requests : pc[r] = "idle"
    BY DEF Init
  <1>3. AsksFit /\ UndisturbedIsAlone /\ FlightsFind
    BY <1>2 DEF AsksFit, UndisturbedIsAlone, FlightsFind, InFlight, Settled
  <1>4. RestSettles
    BY DEF Init, RestSettles, Settles, Whole, Alike, Bare, Stored, Reachable, NoTele, Healthy
  <1> QED
    BY <1>1, <1>3, <1>4 DEF IInv

\* The subscription is read, or the request fails with nothing made.
LEMMA XrayFetchInductive ==
    ASSUME IInv, NEW r \in Requests, XrayFetch(r)
    PROVE  IInv'
  <1> USE DEF XrayFetch, Throw, RollsBack, Disturb, Goto, Fault, Refused
  <1>1. InFlight(r) /\ pc'[r] # "idle" /\ req' = req /\ old' = old
    BY DEF IInv, TypeOK, InFlight, Settled
  <1>2. Id(r) \in Ids /\ req[r] \in Asks /\ pc[r] # "idle"
    BY DEF IInv, TypeOK, Asks, Id
  <1>3. \A q \in Requests \ {r} : Kept(q)
    BY <1>1 DEF IInv, TypeOK, Kept
  <1>4. disturbed \subseteq disturbed'
    OBVIOUS
  <1>5. \A i \in Ids \ {Id(r)} : Untouched(i)
    BY <1>2 DEF IInv, TypeOK, Untouched, Alike, Stored
  <1>6. AsksFit'
    <2>1. AskFits(r)'
      BY <1>1, <1>2 DEF IInv, TypeOK, AsksFit, AskFits, AwaitFits, Asks, InFlight, Settled, Op
    <2> QED
      BY <1>3, <2>1, AskKept DEF IInv, AsksFit, Kept
  <1>7. TypeOK'
    <2> USE DEF IInv, TypeOK
    <2>1. (store \in [Ids -> Proxies \cup {NoProxy}] /\ disk \in [Ids -> Proxies \cup {NoProxy}])'
      OBVIOUS
    <2>2. (tele \in [Ids -> Containers \cup {NoTele}])'
      OBVIOUS
    <2>3. (xray \in [Ids -> {"none", "created", "running"}])'
      OBVIOUS
    <2>4. (pc \in [Requests -> Settled \cup Awaits])'
      BY DEF Settled, Awaits
    <2>5. (/\ req \in [Requests -> Asks \cup {NoProxy}] /\ old \in [Requests -> Proxies \cup {NoProxy}]
           /\ \A q \in Requests : pc[q] # "idle" => req[q] \in Asks)'
      BY <1>1, <1>2, <1>3 DEF Kept
    <2>6. (disturbed \subseteq Ids /\ faults \in 0..MaxFaults)'
      BY <1>2, MaxFaultsAssumption
    <2> QED
      BY <2>1, <2>2, <2>3, <2>4, <2>5, <2>6
  <1>8. Id(r) \notin disturbed' => IF InFlight(r)' THEN Finds(r)' ELSE Settles(Id(r))'
    <2> SUFFICES ASSUME Id(r) \notin disturbed'
                 PROVE  IF InFlight(r)' THEN Finds(r)' ELSE Settles(Id(r))'
      OBVIOUS
    <2>1. Finds(r)
      BY <1>1, <1>4 DEF IInv, FlightsFind
    <2>2. Asked(Id(r))'
      BY <1>1 DEF Asked, Id
    <2> QED
      BY <1>1, <1>2, <2>1, <2>2, NoProxyAssumption, SameAssumption
         DEF IInv, TypeOK, AsksFit, AskFits, AwaitFits, Before, Asks, InFlight, Settled, Op, Id, Containers, NoTele,
             Finds, EntryBefore, Settles, Bare, Alike, Whole, Fits, Stored, Reachable, WantedDomain, WantsVpn
  <1> HIDE DEF XrayFetch, Throw, RollsBack, Disturb, Goto, Fault, Refused
  <1> QED
    BY <1>1, <1>3, <1>4, <1>5, <1>6, <1>7, <1>8, StepInductive

\* The name is free, or the request fails.
LEMMA XrayCreateInductive ==
    ASSUME IInv, NEW r \in Requests, XrayCreate(r)
    PROVE  IInv'
  <1> USE DEF XrayCreate, Throw, RollsBack, Disturb, Goto, Fault, Refused
  <1>1. InFlight(r) /\ pc'[r] # "idle" /\ req' = req /\ old' = old
    BY DEF IInv, TypeOK, InFlight, Settled
  <1>2. Id(r) \in Ids /\ req[r] \in Asks /\ pc[r] # "idle"
    BY DEF IInv, TypeOK, Asks, Id
  <1>3. \A q \in Requests \ {r} : Kept(q)
    BY <1>1 DEF IInv, TypeOK, Kept
  <1>4. disturbed \subseteq disturbed'
    OBVIOUS
  <1>5. \A i \in Ids \ {Id(r)} : Untouched(i)
    BY <1>2 DEF IInv, TypeOK, Untouched, Alike, Stored
  <1>6. AsksFit'
    <2>1. AskFits(r)'
      BY <1>1, <1>2 DEF IInv, TypeOK, AsksFit, AskFits, AwaitFits, Asks, InFlight, Settled, Op
    <2> QED
      BY <1>3, <2>1, AskKept DEF IInv, AsksFit, Kept
  <1>7. TypeOK'
    <2> USE DEF IInv, TypeOK
    <2>1. (store \in [Ids -> Proxies \cup {NoProxy}] /\ disk \in [Ids -> Proxies \cup {NoProxy}])'
      OBVIOUS
    <2>2. (tele \in [Ids -> Containers \cup {NoTele}])'
      OBVIOUS
    <2>3. (xray \in [Ids -> {"none", "created", "running"}])'
      BY <1>2
    <2>4. (pc \in [Requests -> Settled \cup Awaits])'
      BY DEF Settled, Awaits
    <2>5. (/\ req \in [Requests -> Asks \cup {NoProxy}] /\ old \in [Requests -> Proxies \cup {NoProxy}]
           /\ \A q \in Requests : pc[q] # "idle" => req[q] \in Asks)'
      BY <1>1, <1>2, <1>3 DEF Kept
    <2>6. (disturbed \subseteq Ids /\ faults \in 0..MaxFaults)'
      BY <1>2, MaxFaultsAssumption
    <2> QED
      BY <2>1, <2>2, <2>3, <2>4, <2>5, <2>6
  <1>8. Id(r) \notin disturbed' => IF InFlight(r)' THEN Finds(r)' ELSE Settles(Id(r))'
    <2> SUFFICES ASSUME Id(r) \notin disturbed'
                 PROVE  IF InFlight(r)' THEN Finds(r)' ELSE Settles(Id(r))'
      OBVIOUS
    <2>1. Finds(r)
      BY <1>1, <1>4 DEF IInv, FlightsFind
    <2>2. Asked(Id(r))'
      BY <1>1 DEF Asked, Id
    <2> QED
      BY <1>1, <1>2, <2>1, <2>2, NoProxyAssumption, SameAssumption
         DEF IInv, TypeOK, AsksFit, AskFits, AwaitFits, Before, Asks, InFlight, Settled, Op, Id, Containers, NoTele,
             Finds, EntryBefore, Settles, Bare, Alike, Whole, Fits, Stored, Reachable, WantedDomain, WantsVpn
  <1> HIDE DEF XrayCreate, Throw, RollsBack, Disturb, Goto, Fault, Refused
  <1> QED
    BY <1>1, <1>3, <1>4, <1>5, <1>6, <1>7, <1>8, StepInductive

\* From here an error of a create would leave the VPN container: it is a disturbance.
LEMMA XrayStartInductive ==
    ASSUME IInv, NEW r \in Requests, XrayStart(r)
    PROVE  IInv'
  <1> USE DEF XrayStart, Throw, RollsBack, Disturb, Goto, Fault, Refused
  <1>1. InFlight(r) /\ pc'[r] # "idle" /\ req' = req /\ old' = old
    BY DEF IInv, TypeOK, InFlight, Settled
  <1>2. Id(r) \in Ids /\ req[r] \in Asks /\ pc[r] # "idle"
    BY DEF IInv, TypeOK, Asks, Id
  <1>3. \A q \in Requests \ {r} : Kept(q)
    BY <1>1 DEF IInv, TypeOK, Kept
  <1>4. disturbed \subseteq disturbed'
    OBVIOUS
  <1>5. \A i \in Ids \ {Id(r)} : Untouched(i)
    BY <1>2 DEF IInv, TypeOK, Untouched, Alike, Stored
  <1>6. AsksFit'
    <2>1. AskFits(r)'
      BY <1>1, <1>2 DEF IInv, TypeOK, AsksFit, AskFits, AwaitFits, Asks, InFlight, Settled, Op
    <2> QED
      BY <1>3, <2>1, AskKept DEF IInv, AsksFit, Kept
  <1>7. TypeOK'
    <2> USE DEF IInv, TypeOK
    <2>1. (store \in [Ids -> Proxies \cup {NoProxy}] /\ disk \in [Ids -> Proxies \cup {NoProxy}])'
      OBVIOUS
    <2>2. (tele \in [Ids -> Containers \cup {NoTele}])'
      OBVIOUS
    <2>3. (xray \in [Ids -> {"none", "created", "running"}])'
      BY <1>2
    <2>4. (pc \in [Requests -> Settled \cup Awaits])'
      BY DEF Settled, Awaits
    <2>5. (/\ req \in [Requests -> Asks \cup {NoProxy}] /\ old \in [Requests -> Proxies \cup {NoProxy}]
           /\ \A q \in Requests : pc[q] # "idle" => req[q] \in Asks)'
      BY <1>1, <1>2, <1>3 DEF Kept
    <2>6. (disturbed \subseteq Ids /\ faults \in 0..MaxFaults)'
      BY <1>2, MaxFaultsAssumption
    <2> QED
      BY <2>1, <2>2, <2>3, <2>4, <2>5, <2>6
  <1>8. Id(r) \notin disturbed' => IF InFlight(r)' THEN Finds(r)' ELSE Settles(Id(r))'
    <2> SUFFICES ASSUME Id(r) \notin disturbed'
                 PROVE  IF InFlight(r)' THEN Finds(r)' ELSE Settles(Id(r))'
      OBVIOUS
    <2>1. Finds(r)
      BY <1>1, <1>4 DEF IInv, FlightsFind
    <2>2. Asked(Id(r))'
      BY <1>1 DEF Asked, Id
    <2> QED
      BY <1>1, <1>2, <2>1, <2>2, NoProxyAssumption, SameAssumption
         DEF IInv, TypeOK, AsksFit, AskFits, AwaitFits, Before, Asks, InFlight, Settled, Op, Id, Containers, NoTele,
             Finds, EntryBefore, Settles, Bare, Alike, Whole, Fits, Stored, Reachable, WantedDomain, WantsVpn
  <1> HIDE DEF XrayStart, Throw, RollsBack, Disturb, Goto, Fault, Refused
  <1> QED
    BY <1>1, <1>3, <1>4, <1>5, <1>6, <1>7, <1>8, StepInductive

\* An update goes on to a new VPN container or to none.
LEMMA XrayRemoveInductive ==
    ASSUME IInv, NEW r \in Requests, XrayRemove(r)
    PROVE  IInv'
  <1> USE DEF XrayRemove, RemoveXray, Disturb, Goto, Fault
  <1>1. InFlight(r) /\ pc'[r] # "idle" /\ req' = req /\ old' = old
    BY DEF IInv, TypeOK, InFlight, Settled
  <1>2. Id(r) \in Ids /\ req[r] \in Asks /\ pc[r] # "idle"
    BY DEF IInv, TypeOK, Asks, Id
  <1>3. \A q \in Requests \ {r} : Kept(q)
    BY <1>1 DEF IInv, TypeOK, Kept
  <1>4. disturbed \subseteq disturbed'
    OBVIOUS
  <1>5. \A i \in Ids \ {Id(r)} : Untouched(i)
    BY <1>2 DEF IInv, TypeOK, Untouched, Alike, Stored
  <1>6. AsksFit'
    <2>1. AskFits(r)'
      BY <1>1, <1>2 DEF IInv, TypeOK, AsksFit, AskFits, AwaitFits, Asks, InFlight, Settled, Op
    <2> QED
      BY <1>3, <2>1, AskKept DEF IInv, AsksFit, Kept
  <1>7. TypeOK'
    <2> USE DEF IInv, TypeOK
    <2>1. (store \in [Ids -> Proxies \cup {NoProxy}] /\ disk \in [Ids -> Proxies \cup {NoProxy}])'
      OBVIOUS
    <2>2. (tele \in [Ids -> Containers \cup {NoTele}])'
      OBVIOUS
    <2>3. (xray \in [Ids -> {"none", "created", "running"}])'
      BY <1>2
    <2>4. (pc \in [Requests -> Settled \cup Awaits])'
      BY DEF Settled, Awaits
    <2>5. (/\ req \in [Requests -> Asks \cup {NoProxy}] /\ old \in [Requests -> Proxies \cup {NoProxy}]
           /\ \A q \in Requests : pc[q] # "idle" => req[q] \in Asks)'
      BY <1>1, <1>2, <1>3 DEF Kept
    <2>6. (disturbed \subseteq Ids /\ faults \in 0..MaxFaults)'
      BY <1>2, MaxFaultsAssumption
    <2> QED
      BY <2>1, <2>2, <2>3, <2>4, <2>5, <2>6
  <1>8. Id(r) \notin disturbed' => IF InFlight(r)' THEN Finds(r)' ELSE Settles(Id(r))'
    <2> SUFFICES ASSUME Id(r) \notin disturbed'
                 PROVE  IF InFlight(r)' THEN Finds(r)' ELSE Settles(Id(r))'
      OBVIOUS
    <2>1. Finds(r)
      BY <1>1, <1>4 DEF IInv, FlightsFind
    <2>2. Asked(Id(r))'
      BY <1>1 DEF Asked, Id
    <2> QED
      BY <1>1, <1>2, <2>1, <2>2, NoProxyAssumption, SameAssumption
         DEF IInv, TypeOK, AsksFit, AskFits, AwaitFits, Before, Asks, InFlight, Settled, Op, Id, Containers, NoTele,
             Finds, EntryBefore, Settles, Bare, Alike, Whole, Fits, Stored, Reachable, WantedDomain, WantsVpn
  <1> HIDE DEF XrayRemove, RemoveXray, Disturb, Goto, Fault
  <1> QED
    BY <1>1, <1>3, <1>4, <1>5, <1>6, <1>7, <1>8, StepInductive

\* The old container is gone or the id is disturbed.
LEMMA TeleRemoveInductive ==
    ASSUME IInv, NEW r \in Requests, TeleRemove(r)
    PROVE  IInv'
  <1> USE DEF TeleRemove, RemoveTele, Disturb, Goto, Fault
  <1>1. InFlight(r) /\ pc'[r] # "idle" /\ req' = req /\ old' = old
    BY DEF IInv, TypeOK, InFlight, Settled
  <1>2. Id(r) \in Ids /\ req[r] \in Asks /\ pc[r] # "idle"
    BY DEF IInv, TypeOK, Asks, Id
  <1>3. \A q \in Requests \ {r} : Kept(q)
    BY <1>1 DEF IInv, TypeOK, Kept
  <1>4. disturbed \subseteq disturbed'
    OBVIOUS
  <1>5. \A i \in Ids \ {Id(r)} : Untouched(i)
    BY <1>2 DEF IInv, TypeOK, Untouched, Alike, Stored
  <1>6. AsksFit'
    <2>1. AskFits(r)'
      BY <1>1, <1>2 DEF IInv, TypeOK, AsksFit, AskFits, AwaitFits, Asks, InFlight, Settled, Op
    <2> QED
      BY <1>3, <2>1, AskKept DEF IInv, AsksFit, Kept
  <1>7. TypeOK'
    <2> USE DEF IInv, TypeOK
    <2>1. (store \in [Ids -> Proxies \cup {NoProxy}] /\ disk \in [Ids -> Proxies \cup {NoProxy}])'
      OBVIOUS
    <2>2. (tele \in [Ids -> Containers \cup {NoTele}])'
      BY <1>2 DEF Containers, NoTele
    <2>3. (xray \in [Ids -> {"none", "created", "running"}])'
      OBVIOUS
    <2>4. (pc \in [Requests -> Settled \cup Awaits])'
      BY DEF Settled, Awaits
    <2>5. (/\ req \in [Requests -> Asks \cup {NoProxy}] /\ old \in [Requests -> Proxies \cup {NoProxy}]
           /\ \A q \in Requests : pc[q] # "idle" => req[q] \in Asks)'
      BY <1>1, <1>2, <1>3 DEF Kept
    <2>6. (disturbed \subseteq Ids /\ faults \in 0..MaxFaults)'
      BY <1>2, MaxFaultsAssumption
    <2> QED
      BY <2>1, <2>2, <2>3, <2>4, <2>5, <2>6
  <1>8. Id(r) \notin disturbed' => IF InFlight(r)' THEN Finds(r)' ELSE Settles(Id(r))'
    <2> SUFFICES ASSUME Id(r) \notin disturbed'
                 PROVE  IF InFlight(r)' THEN Finds(r)' ELSE Settles(Id(r))'
      OBVIOUS
    <2>1. Finds(r)
      BY <1>1, <1>4 DEF IInv, FlightsFind
    <2>2. Asked(Id(r))'
      BY <1>1 DEF Asked, Id
    <2> QED
      BY <1>1, <1>2, <2>1, <2>2, NoProxyAssumption, SameAssumption
         DEF IInv, TypeOK, AsksFit, AskFits, AwaitFits, Before, Asks, InFlight, Settled, Op, Id, Containers, NoTele,
             Finds, EntryBefore, Settles, Bare, Alike, Whole, Fits, Stored, Reachable, WantedDomain, WantsVpn
  <1> HIDE DEF TeleRemove, RemoveTele, Disturb, Goto, Fault
  <1> QED
    BY <1>1, <1>3, <1>4, <1>5, <1>6, <1>7, <1>8, StepInductive

\* The VPN container that is wanted runs.
LEMMA TeleCreateInductive ==
    ASSUME IInv, NEW r \in Requests, TeleCreate(r)
    PROVE  IInv'
  <1> USE DEF TeleCreate, Throw, RollsBack, Disturb, Goto, Fault, Refused
  <1>1. InFlight(r) /\ pc'[r] # "idle" /\ req' = req /\ old' = old
    BY DEF IInv, TypeOK, InFlight, Settled
  <1>2. Id(r) \in Ids /\ req[r] \in Asks /\ pc[r] # "idle"
    BY DEF IInv, TypeOK, Asks, Id
  <1>3. \A q \in Requests \ {r} : Kept(q)
    BY <1>1 DEF IInv, TypeOK, Kept
  <1>4. disturbed \subseteq disturbed'
    OBVIOUS
  <1>5. \A i \in Ids \ {Id(r)} : Untouched(i)
    BY <1>2 DEF IInv, TypeOK, Untouched, Alike, Stored
  <1>6. AsksFit'
    <2>1. AskFits(r)'
      BY <1>1, <1>2 DEF IInv, TypeOK, AsksFit, AskFits, AwaitFits, Asks, InFlight, Settled, Op
    <2> QED
      BY <1>3, <2>1, AskKept DEF IInv, AsksFit, Kept
  <1>7. TypeOK'
    <2> USE DEF IInv, TypeOK
    <2>1. (store \in [Ids -> Proxies \cup {NoProxy}] /\ disk \in [Ids -> Proxies \cup {NoProxy}])'
      OBVIOUS
    <2>2. (tele \in [Ids -> Containers \cup {NoTele}])'
      BY <1>2 DEF Containers
    <2>3. (xray \in [Ids -> {"none", "created", "running"}])'
      OBVIOUS
    <2>4. (pc \in [Requests -> Settled \cup Awaits])'
      BY DEF Settled, Awaits
    <2>5. (/\ req \in [Requests -> Asks \cup {NoProxy}] /\ old \in [Requests -> Proxies \cup {NoProxy}]
           /\ \A q \in Requests : pc[q] # "idle" => req[q] \in Asks)'
      BY <1>1, <1>2, <1>3 DEF Kept
    <2>6. (disturbed \subseteq Ids /\ faults \in 0..MaxFaults)'
      BY <1>2, MaxFaultsAssumption
    <2> QED
      BY <2>1, <2>2, <2>3, <2>4, <2>5, <2>6
  <1>8. Id(r) \notin disturbed' => IF InFlight(r)' THEN Finds(r)' ELSE Settles(Id(r))'
    <2> SUFFICES ASSUME Id(r) \notin disturbed'
                 PROVE  IF InFlight(r)' THEN Finds(r)' ELSE Settles(Id(r))'
      OBVIOUS
    <2>1. Finds(r)
      BY <1>1, <1>4 DEF IInv, FlightsFind
    <2>2. Asked(Id(r))'
      BY <1>1 DEF Asked, Id
    <2> QED
      BY <1>1, <1>2, <2>1, <2>2, NoProxyAssumption, SameAssumption
         DEF IInv, TypeOK, AsksFit, AskFits, AwaitFits, Before, Asks, InFlight, Settled, Op, Id, Containers, NoTele,
             Finds, EntryBefore, Settles, Bare, Alike, Whole, Fits, Stored, Reachable, WantedDomain, WantsVpn
  <1> HIDE DEF TeleCreate, Throw, RollsBack, Disturb, Goto, Fault, Refused
  <1> QED
    BY <1>1, <1>3, <1>4, <1>5, <1>6, <1>7, <1>8, StepInductive

\* The container has the wanted domain.
LEMMA TeleStartInductive ==
    ASSUME IInv, NEW r \in Requests, TeleStart(r)
    PROVE  IInv'
  <1> USE DEF TeleStart, Throw, RollsBack, Disturb, Goto, Fault, Refused, Configured
  <1>1. InFlight(r) /\ pc'[r] # "idle" /\ req' = req /\ old' = old
    BY DEF IInv, TypeOK, InFlight, Settled
  <1>2. Id(r) \in Ids /\ req[r] \in Asks /\ pc[r] # "idle"
    BY DEF IInv, TypeOK, Asks, Id
  <1>3. \A q \in Requests \ {r} : Kept(q)
    BY <1>1 DEF IInv, TypeOK, Kept
  <1>4. disturbed \subseteq disturbed'
    OBVIOUS
  <1>5. \A i \in Ids \ {Id(r)} : Untouched(i)
    BY <1>2 DEF IInv, TypeOK, Untouched, Alike, Stored
  <1>6. AsksFit'
    <2>1. AskFits(r)'
      BY <1>1, <1>2 DEF IInv, TypeOK, AsksFit, AskFits, AwaitFits, Asks, InFlight, Settled, Op
    <2> QED
      BY <1>3, <2>1, AskKept DEF IInv, AsksFit, Kept
  <1>7. TypeOK'
    <2> USE DEF IInv, TypeOK
    <2>1. (store \in [Ids -> Proxies \cup {NoProxy}] /\ disk \in [Ids -> Proxies \cup {NoProxy}])'
      OBVIOUS
    <2>2. (tele \in [Ids -> Containers \cup {NoTele}])'
      <3>1. WantedDomain(r) \in Domains
        BY <1>2, SameAssumption DEF AsksFit, AskFits, WantedDomain, Asks, Op, Proxies
      <3>2. Configured(r) \in Containers
        BY <3>1 DEF Containers
      <3> QED
        BY <1>2, <3>2
    <2>3. (xray \in [Ids -> {"none", "created", "running"}])'
      OBVIOUS
    <2>4. (pc \in [Requests -> Settled \cup Awaits])'
      BY DEF Settled, Awaits
    <2>5. (/\ req \in [Requests -> Asks \cup {NoProxy}] /\ old \in [Requests -> Proxies \cup {NoProxy}]
           /\ \A q \in Requests : pc[q] # "idle" => req[q] \in Asks)'
      BY <1>1, <1>2, <1>3 DEF Kept
    <2>6. (disturbed \subseteq Ids /\ faults \in 0..MaxFaults)'
      BY <1>2, MaxFaultsAssumption
    <2> QED
      BY <2>1, <2>2, <2>3, <2>4, <2>5, <2>6
  <1>8. Id(r) \notin disturbed' => IF InFlight(r)' THEN Finds(r)' ELSE Settles(Id(r))'
    <2> SUFFICES ASSUME Id(r) \notin disturbed'
                 PROVE  IF InFlight(r)' THEN Finds(r)' ELSE Settles(Id(r))'
      OBVIOUS
    <2>1. Finds(r)
      BY <1>1, <1>4 DEF IInv, FlightsFind
    <2>2. Asked(Id(r))'
      BY <1>1 DEF Asked, Id
    <2> QED
      BY <1>1, <1>2, <2>1, <2>2, NoProxyAssumption, SameAssumption
         DEF IInv, TypeOK, AsksFit, AskFits, AwaitFits, Before, Asks, InFlight, Settled, Op, Id, Containers, NoTele,
             Finds, EntryBefore, Settles, Bare, Alike, Whole, Fits, Stored, Reachable, WantedDomain, WantsVpn
  <1> HIDE DEF TeleStart, Throw, RollsBack, Disturb, Goto, Fault, Refused, Configured
  <1> QED
    BY <1>1, <1>3, <1>4, <1>5, <1>6, <1>7, <1>8, StepInductive

\* Domain and VPN container stay.
LEMMA DockerPauseInductive ==
    ASSUME IInv, NEW r \in Requests, DockerPause(r)
    PROVE  IInv'
  <1> USE DEF DockerPause, Throw, RollsBack, Disturb, Goto, Fault, Refused
  <1>1. InFlight(r) /\ pc'[r] # "idle" /\ req' = req /\ old' = old
    BY DEF IInv, TypeOK, InFlight, Settled
  <1>2. Id(r) \in Ids /\ req[r] \in Asks /\ pc[r] # "idle"
    BY DEF IInv, TypeOK, Asks, Id
  <1>3. \A q \in Requests \ {r} : Kept(q)
    BY <1>1 DEF IInv, TypeOK, Kept
  <1>4. disturbed \subseteq disturbed'
    OBVIOUS
  <1>5. \A i \in Ids \ {Id(r)} : Untouched(i)
    BY <1>2 DEF IInv, TypeOK, Untouched, Alike, Stored
  <1>6. AsksFit'
    <2>1. AskFits(r)'
      BY <1>1, <1>2 DEF IInv, TypeOK, AsksFit, AskFits, AwaitFits, Asks, InFlight, Settled, Op
    <2> QED
      BY <1>3, <2>1, AskKept DEF IInv, AsksFit, Kept
  <1>7. TypeOK'
    <2> USE DEF IInv, TypeOK
    <2>1. (store \in [Ids -> Proxies \cup {NoProxy}] /\ disk \in [Ids -> Proxies \cup {NoProxy}])'
      OBVIOUS
    <2>2. (tele \in [Ids -> Containers \cup {NoTele}])'
      BY <1>2 DEF Containers, NoTele
    <2>3. (xray \in [Ids -> {"none", "created", "running"}])'
      OBVIOUS
    <2>4. (pc \in [Requests -> Settled \cup Awaits])'
      BY DEF Settled, Awaits
    <2>5. (/\ req \in [Requests -> Asks \cup {NoProxy}] /\ old \in [Requests -> Proxies \cup {NoProxy}]
           /\ \A q \in Requests : pc[q] # "idle" => req[q] \in Asks)'
      BY <1>1, <1>2, <1>3 DEF Kept
    <2>6. (disturbed \subseteq Ids /\ faults \in 0..MaxFaults)'
      BY <1>2, MaxFaultsAssumption
    <2> QED
      BY <2>1, <2>2, <2>3, <2>4, <2>5, <2>6
  <1>8. Id(r) \notin disturbed' => IF InFlight(r)' THEN Finds(r)' ELSE Settles(Id(r))'
    <2> SUFFICES ASSUME Id(r) \notin disturbed'
                 PROVE  IF InFlight(r)' THEN Finds(r)' ELSE Settles(Id(r))'
      OBVIOUS
    <2>1. Finds(r)
      BY <1>1, <1>4 DEF IInv, FlightsFind
    <2>2. Asked(Id(r))'
      BY <1>1 DEF Asked, Id
    <2> QED
      BY <1>1, <1>2, <2>1, <2>2, NoProxyAssumption, SameAssumption
         DEF IInv, TypeOK, AsksFit, AskFits, AwaitFits, Before, Asks, InFlight, Settled, Op, Id, Containers, NoTele,
             Finds, EntryBefore, Settles, Bare, Alike, Whole, Fits, Stored, Reachable, WantedDomain, WantsVpn
  <1> HIDE DEF DockerPause, Throw, RollsBack, Disturb, Goto, Fault, Refused
  <1> QED
    BY <1>1, <1>3, <1>4, <1>5, <1>6, <1>7, <1>8, StepInductive

\* The rollback of a create.
LEMMA UndoTeleInductive ==
    ASSUME IInv, NEW r \in Requests, UndoTele(r)
    PROVE  IInv'
  <1> USE DEF UndoTele, RemoveTele, Disturb, Goto, Fault
  <1>1. InFlight(r) /\ pc'[r] # "idle" /\ req' = req /\ old' = old
    BY DEF IInv, TypeOK, InFlight, Settled
  <1>2. Id(r) \in Ids /\ req[r] \in Asks /\ pc[r] # "idle"
    BY DEF IInv, TypeOK, Asks, Id
  <1>3. \A q \in Requests \ {r} : Kept(q)
    BY <1>1 DEF IInv, TypeOK, Kept
  <1>4. disturbed \subseteq disturbed'
    OBVIOUS
  <1>5. \A i \in Ids \ {Id(r)} : Untouched(i)
    BY <1>2 DEF IInv, TypeOK, Untouched, Alike, Stored
  <1>6. AsksFit'
    <2>1. AskFits(r)'
      BY <1>1, <1>2 DEF IInv, TypeOK, AsksFit, AskFits, AwaitFits, Asks, InFlight, Settled, Op
    <2> QED
      BY <1>3, <2>1, AskKept DEF IInv, AsksFit, Kept
  <1>7. TypeOK'
    <2> USE DEF IInv, TypeOK
    <2>1. (store \in [Ids -> Proxies \cup {NoProxy}] /\ disk \in [Ids -> Proxies \cup {NoProxy}])'
      OBVIOUS
    <2>2. (tele \in [Ids -> Containers \cup {NoTele}])'
      BY <1>2 DEF Containers, NoTele
    <2>3. (xray \in [Ids -> {"none", "created", "running"}])'
      OBVIOUS
    <2>4. (pc \in [Requests -> Settled \cup Awaits])'
      BY DEF Settled, Awaits
    <2>5. (/\ req \in [Requests -> Asks \cup {NoProxy}] /\ old \in [Requests -> Proxies \cup {NoProxy}]
           /\ \A q \in Requests : pc[q] # "idle" => req[q] \in Asks)'
      BY <1>1, <1>2, <1>3 DEF Kept
    <2>6. (disturbed \subseteq Ids /\ faults \in 0..MaxFaults)'
      BY <1>2, MaxFaultsAssumption
    <2> QED
      BY <2>1, <2>2, <2>3, <2>4, <2>5, <2>6
  <1>8. Id(r) \notin disturbed' => IF InFlight(r)' THEN Finds(r)' ELSE Settles(Id(r))'
    <2> SUFFICES ASSUME Id(r) \notin disturbed'
                 PROVE  IF InFlight(r)' THEN Finds(r)' ELSE Settles(Id(r))'
      OBVIOUS
    <2>1. Finds(r)
      BY <1>1, <1>4 DEF IInv, FlightsFind
    <2>2. Asked(Id(r))'
      BY <1>1 DEF Asked, Id
    <2> QED
      BY <1>1, <1>2, <2>1, <2>2, NoProxyAssumption, SameAssumption
         DEF IInv, TypeOK, AsksFit, AskFits, AwaitFits, Before, Asks, InFlight, Settled, Op, Id, Containers, NoTele,
             Finds, EntryBefore, Settles, Bare, Alike, Whole, Fits, Stored, Reachable, WantedDomain, WantsVpn
  <1> HIDE DEF UndoTele, RemoveTele, Disturb, Goto, Fault
  <1> QED
    BY <1>1, <1>3, <1>4, <1>5, <1>6, <1>7, <1>8, StepInductive

\* Nothing of it is left, whether its entry is stored or not.
LEMMA UndoXrayInductive ==
    ASSUME IInv, NEW r \in Requests, UndoXray(r)
    PROVE  IInv'
  <1> USE DEF UndoXray, RemoveXray, Disturb, Goto, Fault
  <1>1. InFlight(r) /\ pc'[r] # "idle" /\ req' = req /\ old' = old
    BY DEF IInv, TypeOK, InFlight, Settled
  <1>2. Id(r) \in Ids /\ req[r] \in Asks /\ pc[r] # "idle"
    BY DEF IInv, TypeOK, Asks, Id
  <1>3. \A q \in Requests \ {r} : Kept(q)
    BY <1>1 DEF IInv, TypeOK, Kept
  <1>4. disturbed \subseteq disturbed'
    OBVIOUS
  <1>5. \A i \in Ids \ {Id(r)} : Untouched(i)
    BY <1>2 DEF IInv, TypeOK, Untouched, Alike, Stored
  <1>6. AsksFit'
    <2>1. AskFits(r)'
      BY <1>1, <1>2 DEF IInv, TypeOK, AsksFit, AskFits, AwaitFits, Asks, InFlight, Settled, Op
    <2> QED
      BY <1>3, <2>1, AskKept DEF IInv, AsksFit, Kept
  <1>7. TypeOK'
    <2> USE DEF IInv, TypeOK
    <2>1. (store \in [Ids -> Proxies \cup {NoProxy}] /\ disk \in [Ids -> Proxies \cup {NoProxy}])'
      OBVIOUS
    <2>2. (tele \in [Ids -> Containers \cup {NoTele}])'
      OBVIOUS
    <2>3. (xray \in [Ids -> {"none", "created", "running"}])'
      BY <1>2
    <2>4. (pc \in [Requests -> Settled \cup Awaits])'
      BY DEF Settled, Awaits
    <2>5. (/\ req \in [Requests -> Asks \cup {NoProxy}] /\ old \in [Requests -> Proxies \cup {NoProxy}]
           /\ \A q \in Requests : pc[q] # "idle" => req[q] \in Asks)'
      BY <1>1, <1>2, <1>3 DEF Kept
    <2>6. (disturbed \subseteq Ids /\ faults \in 0..MaxFaults)'
      BY <1>2, MaxFaultsAssumption
    <2> QED
      BY <2>1, <2>2, <2>3, <2>4, <2>5, <2>6
  <1>8. Id(r) \notin disturbed' => IF InFlight(r)' THEN Finds(r)' ELSE Settles(Id(r))'
    <2> SUFFICES ASSUME Id(r) \notin disturbed'
                 PROVE  IF InFlight(r)' THEN Finds(r)' ELSE Settles(Id(r))'
      OBVIOUS
    <2>1. Finds(r)
      BY <1>1, <1>4 DEF IInv, FlightsFind
    <2>2. Asked(Id(r))'
      BY <1>1 DEF Asked, Id
    <2> QED
      BY <1>1, <1>2, <2>1, <2>2, NoProxyAssumption, SameAssumption
         DEF IInv, TypeOK, AsksFit, AskFits, AwaitFits, Before, Asks, InFlight, Settled, Op, Id, Containers, NoTele,
             Finds, EntryBefore, Settles, Bare, Alike, Whole, Fits, Stored, Reachable, WantedDomain, WantsVpn
  <1> HIDE DEF UndoXray, RemoveXray, Disturb, Goto, Fault
  <1> QED
    BY <1>1, <1>3, <1>4, <1>5, <1>6, <1>7, <1>8, StepInductive

\* The entry that a request other than a delete writes is what its containers are.
LEMMA EntryWanted ==
    ASSUME IInv, NEW r \in Requests, pc[r] # "idle", EntryBefore(r), Op(r) # "delete"
    PROVE  /\ Entry(r) # NoProxy
           /\ Entry(r).domain = WantedDomain(r)
           /\ Entry(r).vpn <=> WantsVpn(r)
  <1>1. AskFits(r) /\ EntryBefore(r) /\ Id(r) \in Ids /\ req[r] \in Asks
    BY DEF IInv, TypeOK, AsksFit, Asks, Id
  <1>2. Op(r) # "create" => store[Id(r)] \in Proxies /\ old[r] \in Proxies
    BY <1>1 DEF EntryBefore, Stored, AskFits, IInv, TypeOK
  <1>3. CASE Op(r) = "create"
    <2>1. Entry(r) = [domain |-> req[r].domain, status |-> "running", vpn |-> req[r].vpn = "on"]
      BY <1>3 DEF Entry
    <2>2. Entry(r) \in Proxies
      <3>1. (req[r].vpn = "on") \in BOOLEAN
        OBVIOUS
      <3>2. \A b \in BOOLEAN : [domain |-> req[r].domain, status |-> "running", vpn |-> b] \in Proxies
        BY <1>1, <1>3 DEF AskFits, Proxies, Statuses
      <3> QED
        BY <2>1, <3>1, <3>2
    <2>3. Entry(r).domain = req[r].domain /\ Entry(r).vpn = (req[r].vpn = "on")
      BY <2>1
    <2>4. WantsVpn(r) <=> req[r].vpn = "on"
      BY <1>1, <1>3 DEF AskFits, WantsVpn
    <2>5. WantedDomain(r) = req[r].domain
      BY <1>1, <1>3, SameAssumption DEF AskFits, WantedDomain
    <2> QED
      BY <2>2, <2>3, <2>4, <2>5, NoProxyAssumption
  <1>4. CASE Op(r) = "update"
    <2>1. Entry(r) = Updated(r) /\ Entry(r) \in Proxies /\ Stored(Id(r)) /\ old[r] # NoProxy
      BY <1>1, <1>2, <1>4, EntryTyped, NoProxyAssumption
         DEF Entry, Updated, EntryBefore, Proxies, Asks
    <2>2. /\ Entry(r).domain = IF req[r].domain = Same THEN store[Id(r)].domain
                               ELSE req[r].domain
          /\ Entry(r).vpn = IF req[r].vpn = "keep" THEN store[Id(r)].vpn
                            ELSE req[r].vpn = "on"
      BY <1>2, <1>4, <2>1 DEF Updated, Proxies
    <2> QED
      BY <1>1, <1>4, <2>1, <2>2, NoProxyAssumption
         DEF EntryBefore, WantedDomain, WantsVpn, Asks
  <1>5. CASE Op(r) \in {"restart", "pause", "unpause"}
    <2>1. /\ Entry(r).domain = store[Id(r)].domain /\ Entry(r).vpn = store[Id(r)].vpn
          /\ Entry(r) \in Proxies
      BY <1>2, <1>5 DEF Entry, Proxies, Statuses
    <2>2. WantedDomain(r) = old[r].domain /\ (WantsVpn(r) <=> old[r].vpn)
      BY <1>1, <1>2, <1>5, NoProxyAssumption DEF AskFits, WantedDomain, WantsVpn
    <2> QED
      BY <1>1, <1>5, <2>1, <2>2, NoProxyAssumption DEF EntryBefore
  <1> QED
    BY <1>1, <1>3, <1>4, <1>5 DEF Asks, OpKinds, Op

\* The entry becomes what the containers are.
LEMMA ChangeInductive ==
    ASSUME IInv, NEW r \in Requests, Change(r)
    PROVE  IInv'
  <1> USE DEF Change, Goto
  <1>1. InFlight(r) /\ pc'[r] # "idle" /\ req' = req /\ old' = old
    BY DEF IInv, TypeOK, InFlight, Settled
  <1>2. Id(r) \in Ids /\ req[r] \in Asks /\ pc[r] # "idle"
    BY DEF IInv, TypeOK, Asks, Id
  <1>3. \A q \in Requests \ {r} : Kept(q)
    BY <1>1 DEF IInv, TypeOK, Kept
  <1>4. disturbed \subseteq disturbed'
    OBVIOUS
  <1>5. \A i \in Ids \ {Id(r)} : Untouched(i)
    BY <1>2 DEF IInv, TypeOK, Untouched, Alike, Stored
  <1>6. AsksFit'
    <2>1. AskFits(r)'
      BY <1>1, <1>2 DEF IInv, TypeOK, AsksFit, AskFits, AwaitFits, Asks, InFlight, Settled, Op
    <2> QED
      BY <1>3, <2>1, AskKept DEF IInv, AsksFit, Kept
  <1>7. TypeOK'
    <2> USE DEF IInv, TypeOK
    <2>1. (store \in [Ids -> Proxies \cup {NoProxy}] /\ disk \in [Ids -> Proxies \cup {NoProxy}])'
      BY <1>2, EntryTyped DEF AsksFit
    <2>2. (tele \in [Ids -> Containers \cup {NoTele}])'
      OBVIOUS
    <2>3. (xray \in [Ids -> {"none", "created", "running"}])'
      OBVIOUS
    <2>4. (pc \in [Requests -> Settled \cup Awaits])'
      BY DEF Settled, Awaits
    <2>5. (/\ req \in [Requests -> Asks \cup {NoProxy}] /\ old \in [Requests -> Proxies \cup {NoProxy}]
           /\ \A q \in Requests : pc[q] # "idle" => req[q] \in Asks)'
      BY <1>1, <1>2, <1>3 DEF Kept
    <2>6. (disturbed \subseteq Ids /\ faults \in 0..MaxFaults)'
      BY <1>2, MaxFaultsAssumption
    <2> QED
      BY <2>1, <2>2, <2>3, <2>4, <2>5, <2>6
  <1>8. Id(r) \notin disturbed' => IF InFlight(r)' THEN Finds(r)' ELSE Settles(Id(r))'
    <2> SUFFICES ASSUME Id(r) \notin disturbed'
                 PROVE  IF InFlight(r)' THEN Finds(r)' ELSE Settles(Id(r))'
      OBVIOUS
    <2>1. Finds(r)
      BY <1>1, <1>4 DEF IInv, FlightsFind
    <2>2. Asked(Id(r))'
      BY <1>1 DEF Asked, Id
    <2>3. CASE Op(r) = "delete"
      BY <1>1, <1>2, <2>1, <2>2, <2>3, NoProxyAssumption, SameAssumption
         DEF Entry, IInv, TypeOK, AsksFit, AskFits, AwaitFits, Before, Asks, InFlight, Settled, Op, Id,
             Containers, NoTele, Finds, EntryBefore, Settles, Bare, Alike, Whole, Fits, Stored, Reachable, WantedDomain, WantsVpn
    <2>4. CASE Op(r) # "delete"
      <3>1. EntryBefore(r) /\ Fits(r) /\ AskFits(r)
        BY <1>2, <2>1, <2>4 DEF Finds, Before, IInv, AsksFit
      <3>2. /\ store' = [store EXCEPT ![Id(r)] = Entry(r)] /\ pc' = [pc EXCEPT ![r] = "save"]
            /\ UNCHANGED <<disk, tele, xray, req, old>>
            /\ Op(r) # "create" => store[Id(r)] \in Proxies /\ old[r] \in Proxies
        BY <1>2, <2>4, <3>1 DEF EntryBefore, Stored, AskFits, IInv, TypeOK
      <3>3. /\ Entry(r) # NoProxy
            /\ Entry(r).domain = WantedDomain(r)
            /\ Entry(r).vpn <=> WantsVpn(r)
        BY <1>2, <2>4, <3>1, EntryWanted
      <3>4. Whole(Id(r))' /\ Stored(Id(r))' /\ (store'[Id(r)].vpn <=> WantsVpn(r))
        BY <1>2, <3>1, <3>2, <3>3 DEF Whole, Fits, Reachable, Stored, Bare, Id, IInv, TypeOK
      <3>5. Op(r) \in {"restart", "pause", "unpause"} => Alike(Id(r))'
        BY <1>2, <3>1, <3>2, <3>3, NoProxyAssumption
           DEF EntryBefore, Alike, Stored, Id, IInv, TypeOK, AskFits, WantedDomain, WantsVpn
      <3> QED
        BY <1>1, <1>2, <2>4, <3>2, <3>4, <3>5
           DEF Finds, Before, InFlight, Settled, Op, Id, WantsVpn, IInv, TypeOK
    <2> QED
      BY <2>3, <2>4
  <1> HIDE DEF Change, Goto
  <1> QED
    BY <1>1, <1>3, <1>4, <1>5, <1>6, <1>7, <1>8, StepInductive

\* Cache and file are alike.
LEMMA SaveInductive ==
    ASSUME IInv, NEW r \in Requests, Save(r)
    PROVE  IInv'
  <1> USE DEF Save, Throw, RollsBack, Disturb, Goto, Fault, Refused
  <1>1. InFlight(r) /\ pc'[r] # "idle" /\ req' = req /\ old' = old
    BY DEF IInv, TypeOK, InFlight, Settled
  <1>2. Id(r) \in Ids /\ req[r] \in Asks /\ pc[r] # "idle"
    BY DEF IInv, TypeOK, Asks, Id
  <1>3. \A q \in Requests \ {r} : Kept(q)
    BY <1>1 DEF IInv, TypeOK, Kept
  <1>4. disturbed \subseteq disturbed'
    OBVIOUS
  <1>5. \A i \in Ids \ {Id(r)} : Untouched(i)
    BY <1>2 DEF IInv, TypeOK, Untouched, Alike, Stored
  <1>6. AsksFit'
    <2>1. AskFits(r)'
      BY <1>1, <1>2 DEF IInv, TypeOK, AsksFit, AskFits, AwaitFits, Asks, InFlight, Settled, Op
    <2> QED
      BY <1>3, <2>1, AskKept DEF IInv, AsksFit, Kept
  <1>7. TypeOK'
    <2> USE DEF IInv, TypeOK
    <2>1. (store \in [Ids -> Proxies \cup {NoProxy}] /\ disk \in [Ids -> Proxies \cup {NoProxy}])'
      OBVIOUS
    <2>2. (tele \in [Ids -> Containers \cup {NoTele}])'
      OBVIOUS
    <2>3. (xray \in [Ids -> {"none", "created", "running"}])'
      OBVIOUS
    <2>4. (pc \in [Requests -> Settled \cup Awaits])'
      BY DEF Settled, Awaits
    <2>5. (/\ req \in [Requests -> Asks \cup {NoProxy}] /\ old \in [Requests -> Proxies \cup {NoProxy}]
           /\ \A q \in Requests : pc[q] # "idle" => req[q] \in Asks)'
      BY <1>1, <1>2, <1>3 DEF Kept
    <2>6. (disturbed \subseteq Ids /\ faults \in 0..MaxFaults)'
      BY <1>2, MaxFaultsAssumption
    <2> QED
      BY <2>1, <2>2, <2>3, <2>4, <2>5, <2>6
  <1>8. Id(r) \notin disturbed' => IF InFlight(r)' THEN Finds(r)' ELSE Settles(Id(r))'
    <2> SUFFICES ASSUME Id(r) \notin disturbed'
                 PROVE  IF InFlight(r)' THEN Finds(r)' ELSE Settles(Id(r))'
      OBVIOUS
    <2>1. Finds(r)
      BY <1>1, <1>4 DEF IInv, FlightsFind
    <2>2. Asked(Id(r))'
      BY <1>1 DEF Asked, Id
    <2> QED
      BY <1>1, <1>2, <2>1, <2>2, NoProxyAssumption, SameAssumption
         DEF IInv, TypeOK, AsksFit, AskFits, AwaitFits, Before, Asks, InFlight, Settled, Op, Id, Containers, NoTele,
             Finds, EntryBefore, Settles, Bare, Alike, Whole, Fits, Stored, Reachable, WantedDomain, WantsVpn
  <1> HIDE DEF Save, Throw, RollsBack, Disturb, Goto, Fault, Refused
  <1> QED
    BY <1>1, <1>3, <1>4, <1>5, <1>6, <1>7, <1>8, StepInductive

\* The histories of a deleted proxy say nothing of containers.
LEMMA CleanInductive ==
    ASSUME IInv, NEW r \in Requests, Clean(r)
    PROVE  IInv'
  <1> USE DEF Clean, Throw, RollsBack, Disturb, Goto, Fault, Refused
  <1>1. InFlight(r) /\ pc'[r] # "idle" /\ req' = req /\ old' = old
    BY DEF IInv, TypeOK, InFlight, Settled
  <1>2. Id(r) \in Ids /\ req[r] \in Asks /\ pc[r] # "idle"
    BY DEF IInv, TypeOK, Asks, Id
  <1>3. \A q \in Requests \ {r} : Kept(q)
    BY <1>1 DEF IInv, TypeOK, Kept
  <1>4. disturbed \subseteq disturbed'
    OBVIOUS
  <1>5. \A i \in Ids \ {Id(r)} : Untouched(i)
    BY <1>2 DEF IInv, TypeOK, Untouched, Alike, Stored
  <1>6. AsksFit'
    <2>1. AskFits(r)'
      BY <1>1, <1>2 DEF IInv, TypeOK, AsksFit, AskFits, AwaitFits, Asks, InFlight, Settled, Op
    <2> QED
      BY <1>3, <2>1, AskKept DEF IInv, AsksFit, Kept
  <1>7. TypeOK'
    <2> USE DEF IInv, TypeOK
    <2>1. (store \in [Ids -> Proxies \cup {NoProxy}] /\ disk \in [Ids -> Proxies \cup {NoProxy}])'
      OBVIOUS
    <2>2. (tele \in [Ids -> Containers \cup {NoTele}])'
      OBVIOUS
    <2>3. (xray \in [Ids -> {"none", "created", "running"}])'
      OBVIOUS
    <2>4. (pc \in [Requests -> Settled \cup Awaits])'
      BY DEF Settled, Awaits
    <2>5. (/\ req \in [Requests -> Asks \cup {NoProxy}] /\ old \in [Requests -> Proxies \cup {NoProxy}]
           /\ \A q \in Requests : pc[q] # "idle" => req[q] \in Asks)'
      BY <1>1, <1>2, <1>3 DEF Kept
    <2>6. (disturbed \subseteq Ids /\ faults \in 0..MaxFaults)'
      BY <1>2, MaxFaultsAssumption
    <2> QED
      BY <2>1, <2>2, <2>3, <2>4, <2>5, <2>6
  <1>8. Id(r) \notin disturbed' => IF InFlight(r)' THEN Finds(r)' ELSE Settles(Id(r))'
    <2> SUFFICES ASSUME Id(r) \notin disturbed'
                 PROVE  IF InFlight(r)' THEN Finds(r)' ELSE Settles(Id(r))'
      OBVIOUS
    <2>1. Finds(r)
      BY <1>1, <1>4 DEF IInv, FlightsFind
    <2>2. Asked(Id(r))'
      BY <1>1 DEF Asked, Id
    <2> QED
      BY <1>1, <1>2, <2>1, <2>2, NoProxyAssumption, SameAssumption
         DEF IInv, TypeOK, AsksFit, AskFits, AwaitFits, Before, Asks, InFlight, Settled, Op, Id, Containers, NoTele,
             Finds, EntryBefore, Settles, Bare, Alike, Whole, Fits, Stored, Reachable, WantedDomain, WantsVpn
  <1> HIDE DEF Clean, Throw, RollsBack, Disturb, Goto, Fault, Refused
  <1> QED
    BY <1>1, <1>3, <1>4, <1>5, <1>6, <1>7, <1>8, StepInductive

\* A create whose last step fails is rolled back, and stays stored.
LEMMA UpdateNginxInductive ==
    ASSUME IInv, NEW r \in Requests, UpdateNginx(r)
    PROVE  IInv'
  <1> USE DEF UpdateNginx, Throw, RollsBack, Disturb, Goto, Fault, Refused
  <1>1. InFlight(r) /\ pc'[r] # "idle" /\ req' = req /\ old' = old
    BY DEF IInv, TypeOK, InFlight, Settled
  <1>2. Id(r) \in Ids /\ req[r] \in Asks /\ pc[r] # "idle"
    BY DEF IInv, TypeOK, Asks, Id
  <1>3. \A q \in Requests \ {r} : Kept(q)
    BY <1>1 DEF IInv, TypeOK, Kept
  <1>4. disturbed \subseteq disturbed'
    OBVIOUS
  <1>5. \A i \in Ids \ {Id(r)} : Untouched(i)
    BY <1>2 DEF IInv, TypeOK, Untouched, Alike, Stored
  <1>6. AsksFit'
    <2>1. AskFits(r)'
      BY <1>1, <1>2 DEF IInv, TypeOK, AsksFit, AskFits, AwaitFits, Asks, InFlight, Settled, Op
    <2> QED
      BY <1>3, <2>1, AskKept DEF IInv, AsksFit, Kept
  <1>7. TypeOK'
    <2> USE DEF IInv, TypeOK
    <2>1. (store \in [Ids -> Proxies \cup {NoProxy}] /\ disk \in [Ids -> Proxies \cup {NoProxy}])'
      OBVIOUS
    <2>2. (tele \in [Ids -> Containers \cup {NoTele}])'
      OBVIOUS
    <2>3. (xray \in [Ids -> {"none", "created", "running"}])'
      OBVIOUS
    <2>4. (pc \in [Requests -> Settled \cup Awaits])'
      BY DEF Settled, Awaits
    <2>5. (/\ req \in [Requests -> Asks \cup {NoProxy}] /\ old \in [Requests -> Proxies \cup {NoProxy}]
           /\ \A q \in Requests : pc[q] # "idle" => req[q] \in Asks)'
      BY <1>1, <1>2, <1>3 DEF Kept
    <2>6. (disturbed \subseteq Ids /\ faults \in 0..MaxFaults)'
      BY <1>2, MaxFaultsAssumption
    <2> QED
      BY <2>1, <2>2, <2>3, <2>4, <2>5, <2>6
  <1>8. Id(r) \notin disturbed' => IF InFlight(r)' THEN Finds(r)' ELSE Settles(Id(r))'
    <2> SUFFICES ASSUME Id(r) \notin disturbed'
                 PROVE  IF InFlight(r)' THEN Finds(r)' ELSE Settles(Id(r))'
      OBVIOUS
    <2>1. Finds(r)
      BY <1>1, <1>4 DEF IInv, FlightsFind
    <2>2. Asked(Id(r))'
      BY <1>1 DEF Asked, Id
    <2> QED
      BY <1>1, <1>2, <2>1, <2>2, NoProxyAssumption, SameAssumption
         DEF IInv, TypeOK, AsksFit, AskFits, AwaitFits, Before, Asks, InFlight, Settled, Op, Id, Containers, NoTele,
             Finds, EntryBefore, Settles, Bare, Alike, Whole, Fits, Stored, Reachable, WantedDomain, WantsVpn
  <1> HIDE DEF UpdateNginx, Throw, RollsBack, Disturb, Goto, Fault, Refused
  <1> QED
    BY <1>1, <1>3, <1>4, <1>5, <1>6, <1>7, <1>8, StepInductive

\* The id is at rest, or it is disturbed from now on.
LEMMA BeginInductive ==
    ASSUME IInv, NEW r \in Requests, NEW ask \in Asks, NEW first \in Awaits,
           Begin(r, ask, first), AskFits(r)',
           ask.id \notin disturbed /\ Settles(ask.id) => Finds(r)'
    PROVE  IInv'
  <1> USE DEF Begin
  <1>1. ask.id \in Ids /\ ~InFlight(r)
    BY DEF Asks, InFlight, Settled
  <1>2. \A q \in Requests \ {r} : Kept(q)
    BY DEF IInv, TypeOK, Kept
  <1>3. \A i \in Ids : Untouched(i)
    BY DEF Untouched, Alike, Stored
  <1>4. req'[r] = ask /\ pc'[r] = first /\ Id(r)' = ask.id
    BY DEF IInv, TypeOK, Id
  <1>5. TypeOK'
    <2>1. (pc \in [Requests -> Settled \cup Awaits])'
      BY DEF IInv, TypeOK
    <2>2. (/\ req \in [Requests -> Asks \cup {NoProxy}] /\ old \in [Requests -> Proxies \cup {NoProxy}]
           /\ \A q \in Requests : pc[q] # "idle" => req[q] \in Asks)'
      <3>1. store[ask.id] \in Proxies \cup {NoProxy}
        BY <1>1 DEF IInv, TypeOK
      <3> QED
        BY <1>2, <1>4, <3>1 DEF IInv, TypeOK, Kept
    <2>3. (disturbed \subseteq Ids)'
      BY <1>1 DEF IInv, TypeOK
    <2> QED
      BY <2>1, <2>2, <2>3 DEF IInv, TypeOK
  <1>6. AsksFit'
    BY <1>2, AskKept DEF IInv, AsksFit, Kept
  <1>7. UndisturbedIsAlone'
    <2> SUFFICES ASSUME NEW p \in Requests, NEW q \in Requests, InFlight(p)', InFlight(q)',
                        Id(p)' = Id(q)', Id(q)' \notin disturbed'
                 PROVE  p = q
      BY DEF UndisturbedIsAlone
    <2>1. \A s \in Requests \ {r} : InFlight(s)' => InFlight(s) /\ Id(s)' = Id(s)
      BY <1>2 DEF Kept, InFlight, Id
    <2>2. CASE p # r /\ q # r
      BY <2>1, <2>2 DEF IInv, UndisturbedIsAlone
    <2>3. \A s \in Requests \ {r} : InFlight(s)' /\ Id(s)' = ask.id => ask.id \in disturbed'
      BY <2>1 DEF Overlaps
    <2> QED
      BY <1>4, <2>2, <2>3
  <1>8. FlightsFind'
    <2> SUFFICES ASSUME NEW q \in Requests, InFlight(q)', Id(q)' \notin disturbed'
                 PROVE  Finds(q)'
      BY DEF FlightsFind
    <2>1. CASE q = r
      <3>1. ask.id \notin disturbed /\ \A s \in Requests : InFlight(s) => Id(s) # ask.id
        BY <1>4, <2>1 DEF Overlaps
      <3>2. Settles(ask.id)
        BY <1>1, <3>1 DEF IInv, RestSettles
      <3> QED
        BY <2>1, <3>1, <3>2
    <2>2. CASE q # r
      <3>1. InFlight(q) /\ Id(q) = Id(q)' /\ Id(q) \in Ids
        BY <1>2, <2>2 DEF Kept, InFlight, Id, Settled, IInv, TypeOK, Asks
      <3>2. Finds(q)
        BY <3>1 DEF IInv, FlightsFind
      <3> QED
        BY <1>2, <1>3, <2>2, <3>1, <3>2, Frame
    <2> QED
      BY <2>1, <2>2
  <1>9. RestSettles'
    <2> SUFFICES ASSUME NEW i \in Ids, i \notin disturbed',
                        \A q \in Requests : InFlight(q)' => Id(q)' # i
                 PROVE  Settles(i)'
      BY DEF RestSettles
    <2>1. \A q \in Requests : InFlight(q) => Id(q) # i
      BY <1>1, <1>2 DEF Kept, InFlight, Id
    <2>2. Settles(i)
      BY <2>1 DEF IInv, RestSettles
    <2>3. Asked(i) => Asked(i)'
      BY <1>2 DEF Asked, Kept, Id
    <2> QED
      BY <1>3, <2>2, <2>3, FrameSettles
  <1> QED
    BY <1>5, <1>6, <1>7, <1>8, <1>9 DEF IInv

\* A create draws an id nobody has asked about.
LEMMA BeginCreateInductive ==
    ASSUME IInv, NEW r \in Requests, BeginCreate(r)
    PROVE  IInv'
  <1>1. PICK i \in Ids, d \in Domains, v \in {"keep", "on"} :
            /\ ~Stored(i) /\ \A q \in Requests : pc[q] # "idle" => Id(q) # i
            /\ Begin(r, [op |-> "create", id |-> i, domain |-> d, vpn |-> v],
                     IF v = "on" THEN "xrayFetch" ELSE "teleCreate")
    BY DEF BeginCreate
  <1> DEFINE ask == [op |-> "create", id |-> i, domain |-> d, vpn |-> v]
             first == IF v = "on" THEN "xrayFetch" ELSE "teleCreate"
  <1>2. ask \in Asks /\ first \in Awaits
    BY DEF Asks, OpKinds, Awaits
  <1>3. req'[r] = ask /\ old'[r] = NoProxy /\ pc'[r] = first /\ UNCHANGED <<store, disk, tele, xray>>
    BY <1>1 DEF Begin, IInv, TypeOK, Stored
  <1>4. AskFits(r)'
    BY <1>3 DEF AskFits, AwaitFits, Op, InFlight, Settled
  <1>5. ask.id \notin disturbed /\ Settles(ask.id) => Finds(r)'
    <2> SUFFICES ASSUME Settles(i) PROVE Finds(r)'
      OBVIOUS
    <2>1. Bare(i) /\ disk[i] = NoProxy /\ ~Stored(i)
      BY <1>1 DEF Settles, Whole, Alike, Bare, Asked
    <2> QED
      BY <1>3, <2>1 DEF Finds, Before, EntryBefore, Bare, Stored, Id, Op, WantsVpn
  <1> HIDE DEF ask, first
  <1> QED
    BY <1>1, <1>2, <1>4, <1>5, BeginInductive DEF ask, first

\* An update of a stored proxy finds it settled, and alike on disk.
LEMMA BeginUpdateInductive ==
    ASSUME IInv, NEW r \in Requests, BeginUpdate(r)
    PROVE  IInv'
  <1>1. PICK i \in {j \in Ids : Stored(j)}, d \in Domains \cup {Same}, v \in {"keep", "on", "off"} :
            LET ask == [op |-> "update", id |-> i, domain |-> d, vpn |-> v] IN
            Begin(r, ask, IF v # "keep" /\ store[i].vpn THEN "xrayRemove"
                          ELSE IF v = "on" THEN "xrayFetch"
                          ELSE IF NeedsRestart(ask) THEN "teleRemove"
                          ELSE "change")
    BY DEF BeginUpdate
  <1> DEFINE ask == [op |-> "update", id |-> i, domain |-> d, vpn |-> v]
             first == IF v # "keep" /\ store[i].vpn THEN "xrayRemove"
                      ELSE IF v = "on" THEN "xrayFetch"
                      ELSE IF NeedsRestart(ask) THEN "teleRemove"
                      ELSE "change"
  <1>2. ask \in Asks /\ first \in {"xrayRemove", "xrayFetch", "teleRemove", "change"}
    BY DEF Asks, OpKinds
  <1>3. /\ req'[r] = ask /\ old'[r] = store[i] /\ pc'[r] = first
        /\ UNCHANGED <<store, disk, tele, xray>>
        /\ store[i] \in Proxies
    BY <1>1 DEF Begin, IInv, TypeOK, Stored
  <1>4. AskFits(r)'
    <2>1. first = "xrayFetch" => v = "on"
      OBVIOUS
    <2> HIDE DEF first
    <2> QED
      BY <1>2, <1>3, <2>1 DEF AskFits, AwaitFits, Op, InFlight, Settled
  <1>5. ask.id \notin disturbed /\ Settles(ask.id) => Finds(r)'
    <2> SUFFICES ASSUME Settles(i) PROVE Finds(r)'
      OBVIOUS
    <2>1. Alike(i) /\ Whole(i) /\ Stored(i)
      BY <1>1 DEF Settles
    <2>2. first = "teleRemove" /\ v \in {"off", "keep"} /\ (v = "off" \/ ~store[i].vpn) => xray[i] = "none"
      BY <2>1 DEF Whole
    <2>3. first = "change" => v = "keep" /\ d \in {Same, store[i].domain}
      BY DEF NeedsRestart
    <2>4. first = "teleRemove" => v \in {"off", "keep"}
      OBVIOUS
    <2> HIDE DEF first
    <2>5. EntryBefore(r)'
      BY <1>3, <2>1 DEF EntryBefore, Alike, Stored, Id, Op
    <2>6. pc'[r] = "teleRemove" /\ ~WantsVpn(r)' => xray'[i] = "none"
      BY <1>3, <2>2, <2>4, NoProxyAssumption DEF WantsVpn
    <2>7. pc'[r] = "change" => Fits(r)'
      BY <1>3, <2>1, <2>3, NoProxyAssumption DEF Fits, Whole, WantedDomain, WantsVpn, Reachable, Stored, Id
    <2> QED
      BY <1>2, <1>3, <2>5, <2>6, <2>7 DEF Finds, Id, Op
  <1> HIDE DEF ask, first
  <1>6. Begin(r, ask, first)
    BY <1>1 DEF ask, first
  <1> QED
    BY <1>2, <1>4, <1>5, <1>6, BeginInductive DEF Awaits

\* And so do the other operations.
LEMMA BeginSimpleInductive ==
    ASSUME IInv, NEW r \in Requests, BeginSimple(r)
    PROVE  IInv'
  <1>1. PICK i \in {j \in Ids : Stored(j)}, op \in {"restart", "delete", "pause", "unpause"} :
            Begin(r, [op |-> op, id |-> i, domain |-> Same, vpn |-> "keep"],
                  IF op \in {"pause", "unpause"} THEN "dockerPause" ELSE "teleRemove")
    BY DEF BeginSimple
  <1> DEFINE ask == [op |-> op, id |-> i, domain |-> Same, vpn |-> "keep"]
             first == IF op \in {"pause", "unpause"} THEN "dockerPause" ELSE "teleRemove"
  <1>2. ask \in Asks /\ first \in Awaits
    BY DEF Asks, OpKinds, Awaits
  <1>3. /\ req'[r] = ask /\ old'[r] = store[i] /\ pc'[r] = first
        /\ UNCHANGED <<store, disk, tele, xray>>
        /\ store[i] \in Proxies
    BY <1>1 DEF Begin, IInv, TypeOK, Stored
  <1>4. AskFits(r)'
    BY <1>3 DEF AskFits, AwaitFits, Op, InFlight, Settled
  <1>5. ask.id \notin disturbed /\ Settles(ask.id) => Finds(r)'
    <2> SUFFICES ASSUME Settles(i) PROVE Finds(r)'
      OBVIOUS
    <2>1. Alike(i) /\ Whole(i) /\ Stored(i)
      BY <1>1 DEF Settles
    <2>2. EntryBefore(r)'
      BY <1>3, <2>1 DEF EntryBefore, Alike, Stored, Id, Op
    <2>3. pc'[r] = "teleRemove" /\ ~WantsVpn(r)' => xray'[i] = "none"
      BY <1>3, <2>1, NoProxyAssumption DEF WantsVpn, Whole
    <2>4. Whole(i)'
      BY <1>3, <2>1 DEF Whole, Bare, Stored, Reachable
    <2> QED
      BY <1>3, <2>2, <2>3, <2>4 DEF Finds, Id, Op
  <1> HIDE DEF ask, first
  <1>6. Begin(r, ask, first)
    BY <1>1 DEF ask, first
  <1> QED
    BY <1>2, <1>4, <1>5, <1>6, BeginInductive

\* The status is no part of what requests find.
LEMMA RefreshStatusInductive ==
    ASSUME IInv, NEW i \in Ids, RefreshStatus(i)
    PROVE  IInv'
  <1> USE DEF RefreshStatus
  <1>1. /\ store[i] \in Proxies /\ MappedStatus(tele[i].state) \in Statuses
        /\ store'[i] \in Proxies /\ store'[i].domain = store[i].domain /\ store'[i].vpn = store[i].vpn
    BY DEF IInv, TypeOK, Stored, MappedStatus, Proxies, Statuses
  <1>2. \A j \in Ids : Untouched(j)
    BY <1>1, NoProxyAssumption DEF IInv, TypeOK, Untouched, Alike, Stored
  <1>3. TypeOK'
    BY <1>1 DEF IInv, TypeOK
  <1>4. \A q \in Requests : Kept(q) /\ InFlight(q)' = InFlight(q) /\ Id(q)' = Id(q)
    BY DEF Kept, InFlight, Id
  <1>5. AsksFit' /\ UndisturbedIsAlone'
    BY <1>4, AskKept DEF IInv, AsksFit, UndisturbedIsAlone
  <1>6. FlightsFind'
    <2> SUFFICES ASSUME NEW q \in Requests, InFlight(q)', Id(q)' \notin disturbed'
                 PROVE  Finds(q)'
      BY DEF FlightsFind
    <2>1. InFlight(q) /\ Finds(q)
      BY <1>4 DEF IInv, FlightsFind
    <2>2. Id(q) \in Ids
      BY <2>1 DEF IInv, TypeOK, InFlight, Settled, Asks, Id
    <2> QED
      BY <1>2, <1>4, <2>1, <2>2, Frame
  <1>7. RestSettles'
    <2> SUFFICES ASSUME NEW j \in Ids, j \notin disturbed',
                        \A q \in Requests : InFlight(q)' => Id(q)' # j
                 PROVE  Settles(j)'
      BY DEF RestSettles
    <2>1. Settles(j)
      BY <1>4 DEF IInv, RestSettles
    <2>2. Asked(j) => Asked(j)'
      BY <1>4 DEF Asked, Kept
    <2> QED
      BY <1>2, <2>1, <2>2, FrameSettles
  <1> QED
    BY <1>3, <1>5, <1>6, <1>7 DEF IInv

\* What is at rest is on disk as it is in memory, or has no containers; the ids of the
\* requests that die are disturbed.
LEMMA CrashInductive ==
    ASSUME IInv, Crash
    PROVE  IInv'
  <1> USE DEF Crash, Fault
  <1>1. \A q \in Requests : pc[q] # "idle" => Id(q) \in Ids
    BY DEF IInv, TypeOK, Asks, Id
  <1>2. /\ \A q \in Requests : ~InFlight(q)' /\ req'[q] = req[q] /\ old'[q] = old[q]
        /\ \A q \in Requests : pc'[q] = "idle" <=> pc[q] = "idle"
    BY DEF InFlight, Settled, IInv, TypeOK
  <1>3. TypeOK'
    <2>1. (pc \in [Requests -> Settled \cup Awaits])'
      BY DEF IInv, TypeOK, Settled
    <2>2. (disturbed \subseteq Ids)'
      BY <1>1 DEF IInv, TypeOK, InFlight, Settled
    <2>3. (\A q \in Requests : pc[q] # "idle" => req[q] \in Asks)'
      BY <1>2 DEF IInv, TypeOK
    <2>4. (faults \in 0..MaxFaults)'
      BY MaxFaultsAssumption DEF IInv, TypeOK
    <2> QED
      BY <2>1, <2>2, <2>3, <2>4 DEF IInv, TypeOK
  <1>4. AsksFit'
    <2> SUFFICES ASSUME NEW q \in Requests, pc'[q] # "idle" PROVE AskFits(q)'
      BY DEF AsksFit
    <2>1. AskFits(q)
      BY <1>2 DEF IInv, AsksFit
    <2>2. pc'[q] \in {"done", "failed", "dead"}
      BY DEF IInv, TypeOK, InFlight, Settled
    <2> QED
      BY <1>2, <2>1, <2>2 DEF AskFits, Op, InFlight, Settled
  <1>5. UndisturbedIsAlone' /\ FlightsFind'
    BY <1>2 DEF UndisturbedIsAlone, FlightsFind
  <1>6. RestSettles'
    <2> SUFFICES ASSUME NEW i \in Ids, i \notin disturbed' PROVE Settles(i)'
      BY DEF RestSettles
    <2>1. Settles(i)
      BY DEF IInv, RestSettles
    <2>2. Whole(i)'
      BY <2>1 DEF Settles, Whole, Alike, Bare, Stored, Reachable, NoTele
    <2>3. Alike(i)'
      BY DEF Alike, Stored
    <2> QED
      BY <2>2, <2>3 DEF Settles
  <1> QED
    BY <1>3, <1>4, <1>5, <1>6 DEF IInv

\* A stuttering step changes none of the variables the invariant reads.
LEMMA StutteringInductive ==
    ASSUME IInv, UNCHANGED vars
    PROVE  IInv'
  <1> USE DEF vars
  <1>1. TypeOK'
    BY DEF IInv, TypeOK
  <1>2. AsksFit' /\ UndisturbedIsAlone'
    BY DEF IInv, AsksFit, AskFits, AwaitFits, UndisturbedIsAlone, InFlight, Id, Op
  <1>3. \A q \in Requests : pc[q] # "idle" => Id(q) \in Ids
    BY DEF IInv, TypeOK, Asks, Id
  <1>4. \A q \in Requests : Kept(q) /\ Id(q)' = Id(q)
    BY DEF Kept, Id
  <1>5. ASSUME NEW i \in Ids
        PROVE  Untouched(i)
    <2>1. Alike(i) => Alike(i)'
      BY DEF Alike, Stored
    <2> QED
      BY <2>1 DEF Untouched, Stored
  <1>6. FlightsFind'
    <2> SUFFICES ASSUME NEW q \in Requests, InFlight(q)', Id(q)' \notin disturbed'
                 PROVE  Finds(q)'
      BY DEF FlightsFind
    <2>1. InFlight(q) /\ Id(q) \notin disturbed /\ Finds(q)
      BY <1>4 DEF IInv, FlightsFind, InFlight
    <2>2. Id(q) \in Ids
      BY <1>3, <2>1 DEF InFlight, Settled
    <2> QED
      BY <1>4, <1>5, <2>1, <2>2, Frame
  <1>7. RestSettles'
    BY DEF IInv, RestSettles, Settles, Whole, Alike, Bare, Asked, Stored, Reachable, InFlight, Id
  <1> QED
    BY <1>1, <1>2, <1>6, <1>7 DEF IInv

\* IInv holds in every reachable state.
LEMMA Inductive == Spec => []IInv
  <1>1. IInv /\ [Next]_vars => IInv'
    BY CrashInductive, RefreshStatusInductive, BeginCreateInductive, BeginUpdateInductive,
       BeginSimpleInductive, XrayFetchInductive, XrayCreateInductive, XrayStartInductive,
       XrayRemoveInductive, TeleRemoveInductive, TeleCreateInductive,
       TeleStartInductive, DockerPauseInductive, UndoTeleInductive, UndoXrayInductive,
       ChangeInductive, SaveInductive, CleanInductive, UpdateNginxInductive,
       StutteringInductive
       DEF Next
  <1> QED
    BY <1>1, InitInductive, PTL DEF Spec

\* At rest, or stopped at the mutex of the source, an id is whole unless it is disturbed.
LEMMA CalmIsWhole ==
    ASSUME IInv, NEW i \in Ids, Calm(i)
    PROVE  Whole(i)
  <1>1. CASE \E r \in Requests : InFlight(r) /\ Id(r) = i
    BY <1>1 DEF IInv, FlightsFind, Finds, Calm, Quiet
  <1>2. CASE \A r \in Requests : InFlight(r) => Id(r) # i
    BY <1>2 DEF IInv, RestSettles, Settles, Calm
  <1> QED
    BY <1>1, <1>2

\* The cache, the file, the containers and the requests have the values
\* ProxyLifecycle.TypeOK names (services/proxy.ts).
THEOREM TypeCorrect == Spec => []TypeOK
  <1>1. IInv => TypeOK
    BY DEF IInv
  <1> QED
    BY <1>1, Inductive, PTL

\* The rollback of createProxy and the removals of deleteProxy leave no container of a
\* proxy that is not stored (services/proxy.ts).
THEOREM NoStrayContainers == Spec => []ContainersAreStored
  <1>1. IInv => ContainersAreStored
    BY CalmIsWhole DEF ContainersAreStored, Whole, Bare
  <1> QED
    BY <1>1, Inductive, PTL

\* A container that runs has the domain of its entry, and its VPN container if the entry
\* has one, after any creates, updates, restarts and pauses (services/proxy.ts, xray.ts).
THEOREM LinksNameTheirContainer == Spec => []ContainersMatchStore
  <1>1. IInv => ContainersMatchStore
    BY CalmIsWhole DEF ContainersMatchStore, Whole
  <1> QED
    BY <1>1, Inductive, PTL
-----------------------------------------------------------------------------
(* The requests about a proxy take place at once.  Beside IInv this needs what  *)
(* a request has done so far, seen from outside: nothing before its change, and *)
(* then what it asks for in memory, and on disk once it is behind its save.     *)

AtomicFinds(r) ==
    LET now == Named(store[Id(r)])
        kept == Named(disk[Id(r)]) IN
    /\ pc[r] \in Before => now = Named(old[r]) /\ kept = now
    /\ pc[r] = "save" => now = Target(r) /\ kept \in {Named(old[r]), Target(r)}
    /\ pc[r] \in {"clean", "nginx"} => now = Target(r) /\ kept = now
    /\ pc[r] \in {"undoTele", "undoXray"} => now \in {Named(old[r]), Target(r)} /\ kept = now

FlightsAreAtomic ==
    \A r \in Requests : InFlight(r) /\ Id(r) \notin disturbed => AtomicFinds(r)

\* What every step of a request under way leaves alone.
StepOf(r) ==
    /\ InFlight(r) /\ UNCHANGED <<req, old>>
    /\ \E to \in Awaits \cup {"done", "failed"} : pc' = [pc EXCEPT ![r] = to]
    /\ \E e \in Proxies \cup {NoProxy} : store' \in {store, [store EXCEPT ![Id(r)] = e]}
    /\ disk' \in {disk, store}
    /\ disturbed' \in {disturbed, disturbed \cup {Id(r)}}
    /\ disturbed' # disturbed \/ pc'[r] = "failed" => disk' = disk

\* Where it leaves the request: further on, done, or failed.
AtomicStep(r) ==
    LET now == Named(store'[Id(r)])
        kept == Named(disk'[Id(r)]) IN
    /\ AtomicFinds(r)'
    /\ pc'[r] = "done" => now = Target(r) /\ kept = now
    /\ pc'[r] = "failed" => now \in {Named(old[r]), Target(r)} /\ kept \in {Named(old[r]), now}

\* Two entries that agree on the domain and the VPN container have one name.
LEMMA NamedAlike ==
    ASSUME NEW e \in Proxies \cup {NoProxy}, NEW f \in Proxies \cup {NoProxy},
           e # NoProxy <=> f # NoProxy,
           e # NoProxy => e.domain = f.domain /\ (e.vpn <=> f.vpn)
    PROVE  Named(e) = Named(f)
  BY DEF Proxies, Named

\* A request that has not changed its entry found it as it is, in memory and on disk.
LEMMA BeforeNamed ==
    ASSUME IInv, NEW r \in Requests, InFlight(r), EntryBefore(r)
    PROVE  Named(store[Id(r)]) = Named(old[r]) /\ Named(disk[Id(r)]) = Named(old[r])
  <1>1. pc[r] # "idle"
    BY DEF InFlight, Settled
  <1>2. AskFits(r) /\ Id(r) \in Ids
    BY <1>1 DEF IInv, TypeOK, AsksFit, Asks, Id
  <1>3. /\ store[Id(r)] \in Proxies \cup {NoProxy} /\ disk[Id(r)] \in Proxies \cup {NoProxy}
        /\ old[r] \in Proxies \cup {NoProxy}
    BY <1>2 DEF IInv, TypeOK
  <1>4. CASE Op(r) = "create"
    BY <1>2, <1>4 DEF EntryBefore, AskFits, Stored
  <1>5. CASE Op(r) # "create"
    <2>1. old[r] # NoProxy /\ store[Id(r)] # NoProxy /\ disk[Id(r)] # NoProxy
      BY <1>2, <1>5, NoProxyAssumption DEF EntryBefore, AskFits, Alike, Stored
    <2>2. /\ store[Id(r)].domain = old[r].domain /\ (store[Id(r)].vpn <=> old[r].vpn)
          /\ disk[Id(r)].domain = store[Id(r)].domain /\ (disk[Id(r)].vpn <=> store[Id(r)].vpn)
      BY <1>5 DEF EntryBefore, Alike
    <2>3. Named(store[Id(r)]) = Named(old[r])
      BY <1>3, <2>1, <2>2, NamedAlike
    <2>4. Named(disk[Id(r)]) = Named(store[Id(r)])
      BY <1>3, <2>1, <2>2, NamedAlike
    <2> QED
      BY <2>3, <2>4
  <1> QED
    BY <1>4, <1>5

\* What a request asks for is a proxy, or none for a delete.
LEMMA TargetTyped ==
    ASSUME NEW r \in Requests, req[r] \in Asks, AskFits(r)
    PROVE  /\ WantedDomain(r) \in Domains /\ WantsVpn(r) \in BOOLEAN
           /\ Op(r) = "delete" => Target(r) = Without("none")
           /\ Op(r) # "delete" => Target(r) = With(WantedDomain(r), WantsVpn(r))
  <1>1. WantedDomain(r) \in Domains
    BY SameAssumption DEF AskFits, WantedDomain, Asks, Op, Proxies
  <1>2. WantsVpn(r) \in BOOLEAN
    BY DEF WantsVpn
  <1> QED
    BY <1>1, <1>2 DEF Target

\* The change makes of the entry what was asked for.
LEMMA EntryIsTarget ==
    ASSUME IInv, NEW r \in Requests, InFlight(r), EntryBefore(r)
    PROVE  Named(Entry(r)) = Target(r)
  <1>1. pc[r] # "idle"
    BY DEF InFlight, Settled
  <1>2. AskFits(r) /\ Id(r) \in Ids /\ req[r] \in Asks
    BY <1>1 DEF IInv, TypeOK, AsksFit, Asks, Id
  <1>3. CASE Op(r) = "delete"
    BY <1>3 DEF Entry, Target, Named
  <1>4. CASE Op(r) # "delete"
    <2>1. Entry(r) \in Proxies \cup {NoProxy}
      BY <1>1, EntryTyped DEF EntryBefore
    <2>2. Entry(r) # NoProxy /\ Entry(r).domain = WantedDomain(r) /\ (Entry(r).vpn <=> WantsVpn(r))
      BY <1>1, <1>4, EntryWanted
    <2>3. Entry(r).vpn \in BOOLEAN /\ WantsVpn(r) \in BOOLEAN
      BY <1>2, <2>1, <2>2, TargetTyped DEF Proxies
    <2>4. Entry(r).vpn = WantsVpn(r)
      BY <2>2, <2>3
    <2> QED
      BY <1>4, <2>2, <2>4 DEF Named, Target
  <1> QED
    BY <1>3, <1>4

\* The steps of a request under way.
Step(r) == \/ XrayFetch(r) \/ XrayCreate(r) \/ XrayStart(r) \/ XrayRemove(r)
           \/ TeleRemove(r) \/ TeleCreate(r) \/ TeleStart(r) \/ DockerPause(r)
           \/ UndoTele(r) \/ UndoXray(r)
           \/ Change(r) \/ Save(r) \/ Clean(r) \/ UpdateNginx(r)

\* They leave alone what StepOf names.
LEMMA EveryStep ==
    ASSUME IInv, NEW r \in Requests, Step(r)
    PROVE  StepOf(r)
  <1> USE DEF Throw, RollsBack, Disturb, Goto, Fault, Refused, RemoveXray, RemoveTele
  <1> USE DEF StepOf, InFlight, Settled, Awaits, IInv, TypeOK
  <1>1. CASE XrayFetch(r)
    BY <1>1 DEF XrayFetch
  <1>2. CASE XrayCreate(r)
    BY <1>2 DEF XrayCreate
  <1>3. CASE XrayStart(r)
    BY <1>3 DEF XrayStart
  <1>4. CASE XrayRemove(r)
    BY <1>4 DEF XrayRemove
  <1>5. CASE TeleRemove(r)
    BY <1>5 DEF TeleRemove
  <1>6. CASE TeleCreate(r)
    BY <1>6 DEF TeleCreate
  <1>7. CASE TeleStart(r)
    BY <1>7 DEF TeleStart
  <1>8. CASE DockerPause(r)
    BY <1>8 DEF DockerPause
  <1>9. CASE UndoTele(r)
    BY <1>9 DEF UndoTele
  <1>10. CASE UndoXray(r)
    BY <1>10 DEF UndoXray
  <1>11. CASE Change(r)
    <2> HIDE DEF StepOf, IInv, TypeOK
    <2>1. pc[r] = "change" /\ (Op(r) = "create" \/ Stored(Id(r)) => Entry(r) \in Proxies \cup {NoProxy})
      BY <1>11, EntryTyped DEF Change
    <2>2. CASE Op(r) = "create" \/ Stored(Id(r))
      BY <1>11, <2>1, <2>2 DEF Change, StepOf
    <2>3. CASE ~(Op(r) = "create" \/ Stored(Id(r)))
      BY <1>11, <2>1, <2>3, NoProxyAssumption DEF Change, StepOf
    <2> QED
      BY <2>2, <2>3
  <1>12. CASE Save(r)
    BY <1>12 DEF Save
  <1>13. CASE Clean(r)
    BY <1>13 DEF Clean
  <1>14. CASE UpdateNginx(r)
    BY <1>14 DEF UpdateNginx
  <1> QED
    BY <1>1, <1>2, <1>3, <1>4, <1>5, <1>6, <1>7, <1>8, <1>9, <1>10, <1>11, <1>12, <1>13, <1>14
       DEF Step

\* They take an undisturbed request from one thing it may find to the next.
LEMMA StepIsAtomic ==
    ASSUME IInv, FlightsAreAtomic, NEW r \in Requests, Step(r), Id(r) \notin disturbed'
    PROVE  AtomicStep(r)
  <1>1. InFlight(r) /\ Id(r) \notin disturbed /\ AtomicFinds(r) /\ Finds(r) /\ AskFits(r)
    <2>1. StepOf(r)
      BY EveryStep
    <2>2. InFlight(r) /\ Id(r) \notin disturbed /\ pc[r] # "idle"
      BY <2>1 DEF StepOf, InFlight, Settled
    <2> QED
      BY <2>2 DEF FlightsAreAtomic, IInv, FlightsFind, AsksFit
  <1>2. Id(r) \in Ids
    BY <1>1 DEF IInv, TypeOK, Asks, Id, InFlight, Settled
  <1>3. AwaitFits(r)
    BY <1>1 DEF AskFits
  <1>4. Id(r)' = Id(r) /\ Target(r)' = Target(r) /\ UNCHANGED <<req, old>>
    BY EveryStep DEF StepOf, Id, Target, Op, WantedDomain, WantsVpn
  <1> USE <1>1, <1>2, <1>3, <1>4
  <1> USE DEF Throw, RollsBack, Disturb, Goto, Fault, Refused, RemoveXray, RemoveTele
  <1> USE DEF AtomicFinds, AtomicStep, AskFits, AwaitFits, Before, Awaits, IInv, TypeOK
  <1>5. CASE XrayFetch(r)
    BY <1>5 DEF XrayFetch
  <1>6. CASE XrayCreate(r)
    BY <1>6 DEF XrayCreate
  <1>7. CASE XrayStart(r)
    BY <1>7 DEF XrayStart
  <1>8. CASE XrayRemove(r)
    BY <1>8 DEF XrayRemove
  <1>9. CASE TeleRemove(r)
    BY <1>9 DEF TeleRemove
  <1>10. CASE TeleCreate(r)
    BY <1>10 DEF TeleCreate
  <1>11. CASE TeleStart(r)
    BY <1>11 DEF TeleStart
  <1>12. CASE DockerPause(r)
    BY <1>12 DEF DockerPause
  <1>13. CASE UndoTele(r)
    BY <1>13 DEF UndoTele
  <1>14. CASE UndoXray(r)
    BY <1>14 DEF UndoXray
  <1>15. CASE Change(r)
    <2>1. EntryBefore(r)
      BY <1>15 DEF Change, Finds
    <2>2. pc'[r] = "save" /\ store'[Id(r)] = Entry(r) /\ UNCHANGED disk
      BY <1>15, <2>1 DEF Change, EntryBefore
    <2>3. Named(Entry(r)) = Target(r) /\ Named(disk[Id(r)]) = Named(old[r])
      BY <2>1, BeforeNamed, EntryIsTarget
    <2> QED
      BY <1>15, <2>2, <2>3 DEF Change
  <1>16. CASE Save(r)
    BY <1>16 DEF Save
  <1>17. CASE Clean(r)
    BY <1>17 DEF Clean
  <1>18. CASE UpdateNginx(r)
    BY <1>18 DEF UpdateNginx
  <1> QED
    BY <1>5, <1>6, <1>7, <1>8, <1>9, <1>10, <1>11, <1>12, <1>13, <1>14, <1>15, <1>16, <1>17, <1>18 DEF Step

\* The proxy, what is kept of it and what is asked of it, as ManagedProxy has them.
Shows(i, now, kept, want) == ProxyOf[i] = now /\ DurableOf[i] = kept /\ AskedOf[i] = want

ShownAsFound ==
    /\ \A i \in disturbed : Shows(i, Without("unknown"), Without("unknown"), Without("nothing"))
    /\ \A r \in Requests : InFlight(r) /\ Id(r) \notin disturbed =>
          Shows(Id(r), Named(old[r]), Named(old[r]), Target(r))
    /\ \A i \in Ids \ disturbed : ~Busy(i) =>
          Shows(i, Named(store[i]), Named(disk[i]), Without("nothing"))

\* An undisturbed id under way has one request, and one at rest is whole.
LEMMA FoundIsShown == IInv => ShownAsFound
  <1> SUFFICES ASSUME IInv PROVE ShownAsFound
    OBVIOUS
  <1>1. ASSUME NEW i \in disturbed
        PROVE  Shows(i, Without("unknown"), Without("unknown"), Without("nothing"))
    BY DEF IInv, TypeOK, Shows, ProxyOf, DurableOf, AskedOf, Shown
  <1>2. ASSUME NEW r \in Requests, InFlight(r), Id(r) \notin disturbed
        PROVE  Shows(Id(r), Named(old[r]), Named(old[r]), Target(r))
    <2>1. Id(r) \in Ids /\ Busy(Id(r))
      BY <1>2 DEF IInv, TypeOK, InFlight, Settled, Asks, Id, Busy
    <2>2. RequestOf(Id(r)) = r
      <3>1. \E q \in Requests : InFlight(q) /\ Id(q) = Id(r)
        BY <1>2
      <3>2. RequestOf(Id(r)) \in Requests /\ InFlight(RequestOf(Id(r))) /\ Id(RequestOf(Id(r))) = Id(r)
        BY <3>1 DEF RequestOf
      <3> QED
        BY <1>2, <3>2 DEF IInv, UndisturbedIsAlone
    <2> QED
      BY <1>2, <2>1, <2>2 DEF Shows, ProxyOf, DurableOf, AskedOf, Shown
  <1>3. ASSUME NEW i \in Ids \ disturbed, ~Busy(i)
        PROVE  Shows(i, Named(store[i]), Named(disk[i]), Without("nothing"))
    <2>1. Whole(i)
      BY <1>3 DEF IInv, RestSettles, Settles, Busy
    <2> QED
      BY <1>3, <2>1 DEF Shows, ProxyOf, DurableOf, AskedOf, Shown
  <1> QED
    BY <1>1, <1>2, <1>3 DEF ShownAsFound

LEMMA FoundIsShownNext == IInv' => ShownAsFound'
  BY FoundIsShown, PTL

\* The mapped variables are functions of the ids.
LEMMA MappedAreFunctions ==
    /\ ProxyOf = [i \in Ids |-> ProxyOf[i]] /\ ProxyOf' = [i \in Ids |-> ProxyOf'[i]]
    /\ DurableOf = [i \in Ids |-> DurableOf[i]] /\ DurableOf' = [i \in Ids |-> DurableOf'[i]]
    /\ AskedOf = [i \in Ids |-> AskedOf[i]] /\ AskedOf' = [i \in Ids |-> AskedOf'[i]]
  BY DEF ProxyOf, DurableOf, AskedOf

\* A request that is under way asks for something.
LEMMA TargetIsSomething ==
    ASSUME NEW r
    PROVE  Target(r) # Without("nothing") /\ Target(r) # Without("unknown")
  BY DEF Target, With, Without

LEMMA NamedIsKnown ==
    ASSUME NEW e
    PROVE  Named(e) # Without("unknown") /\ Named(e) # Without("nothing")
  BY DEF Named, With, Without

\* A step that leaves the entry of an id, its requests and its being disturbed as they
\* are shows no more of it than that the file is written.
LEMMA StaysShown ==
    ASSUME IInv, IInv', NEW j \in Ids, Named(store'[j]) = Named(store[j]),
           j \in disturbed' <=> j \in disturbed,
           \A q \in Requests : InFlight(q)' /\ Id(q)' = j <=> InFlight(q) /\ Id(q) = j,
           \A q \in Requests : InFlight(q) => old'[q] = old[q] /\ Target(q)' = Target(q)
    PROVE  /\ ProxyOf'[j] = ProxyOf[j] /\ AskedOf'[j] = AskedOf[j]
           /\ disk'[j] = disk[j] => DurableOf'[j] = DurableOf[j]
           /\ disk'[j] = store[j] => DurableOf'[j] = Managed!Written[j]
  <1>1. ShownAsFound /\ ShownAsFound'
    BY FoundIsShown, FoundIsShownNext
  <1>2. Managed!Written[j] = IF AskedOf[j] = Without("nothing") THEN ProxyOf[j] ELSE DurableOf[j]
    BY DEF Managed!Written, Managed!Idle
  <1>3. CASE j \in disturbed
    BY <1>1, <1>2, <1>3 DEF ShownAsFound, Shows
  <1>4. CASE j \notin disturbed /\ Busy(j)
    <2>1. PICK q \in Requests : InFlight(q) /\ Id(q) = j
      BY <1>4 DEF Busy
    <2>2. Shows(j, Named(old[q]), Named(old[q]), Target(q))
      BY <1>1, <1>4, <2>1 DEF ShownAsFound
    <2>3. Shows(j, Named(old[q]), Named(old[q]), Target(q))'
      BY <1>1, <1>4, <2>1 DEF ShownAsFound
    <2> QED
      BY <1>2, <2>1, <2>2, <2>3, TargetIsSomething DEF Shows
  <1>5. CASE j \notin disturbed /\ ~Busy(j)
    <2>1. ~Busy(j)'
      BY <1>5 DEF Busy
    <2>2. Shows(j, Named(store[j]), Named(disk[j]), Without("nothing"))
      BY <1>1, <1>5 DEF ShownAsFound
    <2>3. Shows(j, Named(store[j]), Named(disk[j]), Without("nothing"))'
      BY <1>1, <1>5, <2>1 DEF ShownAsFound
    <2> QED
      BY <1>2, <2>2, <2>3 DEF Shows
  <1> QED
    BY <1>3, <1>4, <1>5

\* So a step of one request shows nothing of the others' proxies, but that a save writes
\* those at rest.
LEMMA OthersShow ==
    ASSUME IInv, IInv', NEW r \in Requests, StepOf(r), NEW j \in Ids, j # Id(r)
    PROVE  /\ ProxyOf'[j] = ProxyOf[j] /\ AskedOf'[j] = AskedOf[j]
           /\ disk' = disk => DurableOf'[j] = DurableOf[j]
           /\ disk' = store => DurableOf'[j] = Managed!Written[j]
  <1>1. /\ \A q \in Requests \ {r} : InFlight(q)' = InFlight(q)
        /\ \A q \in Requests : Id(q)' = Id(q) /\ Target(q)' = Target(q) /\ old'[q] = old[q]
    BY DEF StepOf, InFlight, IInv, TypeOK, Id, Target, Op, WantedDomain, WantsVpn
  <1>2. (j \in disturbed' <=> j \in disturbed) /\ store'[j] = store[j]
    BY DEF StepOf, IInv, TypeOK
  <1> QED
    BY <1>1, <1>2, StaysShown

\* A step of a request writes the file, ends the request, loses the proxy, or is not seen.
LEMMA StepIsManaged ==
    ASSUME IInv, IInv', NEW r \in Requests, StepOf(r), Id(r) \notin disturbed' => AtomicStep(r)
    PROVE  [Managed!Next]_Managed!proxyVars
  <1>1. ShownAsFound /\ ShownAsFound'
    BY FoundIsShown, FoundIsShownNext
  <1>2. PICK i \in Ids : i = Id(r) /\ InFlight(r)
    BY DEF StepOf, IInv, TypeOK, InFlight, Settled, Asks, Id
  <1>3. /\ Id(r)' = Id(r) /\ Target(r)' = Target(r) /\ old'[r] = old[r]
        /\ InFlight(r)' \/ pc'[r] \in {"done", "failed"}
        /\ InFlight(r)' => pc'[r] \notin {"done", "failed"}
    BY DEF StepOf, InFlight, Settled, Awaits, IInv, TypeOK, Id, Target, Op, WantedDomain, WantsVpn
  <1>4. Managed!Written[i] = IF AskedOf[i] = Without("nothing") THEN ProxyOf[i] ELSE DurableOf[i]
    BY <1>2 DEF Managed!Written, Managed!Idle
  <1>5. Managed!Written = [j \in Ids |-> Managed!Written[j]]
    BY DEF Managed!Written
  <1>6. \A j \in Ids \ {i} :
            /\ ProxyOf'[j] = ProxyOf[j] /\ AskedOf'[j] = AskedOf[j]
            /\ disk' = disk => DurableOf'[j] = DurableOf[j]
            /\ disk' = store => DurableOf'[j] = Managed!Written[j]
    BY <1>2, OthersShow
  <1>7. disk' \in {disk, store}
    BY DEF StepOf
  <1>8. ASSUME ProxyOf'[i] = ProxyOf[i], AskedOf'[i] = AskedOf[i],
               DurableOf'[i] = DurableOf[i], Managed!Written[i] = DurableOf[i]
        PROVE  [Managed!Next]_Managed!proxyVars
    <2>1. ProxyOf' = ProxyOf /\ AskedOf' = AskedOf
      BY <1>2, <1>6, <1>8, MappedAreFunctions
    <2>2. DurableOf' = DurableOf \/ DurableOf' = Managed!Written
      BY <1>2, <1>5, <1>6, <1>7, <1>8, MappedAreFunctions
    <2> QED
      BY <2>1, <2>2 DEF Managed!Next, Managed!Write, Managed!proxyVars
  <1>9. CASE i \in disturbed
    <2>1. i \in disturbed'
      BY <1>9 DEF StepOf
    <2> QED
      BY <1>1, <1>4, <1>8, <1>9, <2>1 DEF ShownAsFound, Shows
  <1>10. CASE i \notin disturbed /\ i \in disturbed'
    <2>1. Shows(i, Without("unknown"), Without("unknown"), Without("nothing"))'
      BY <1>1, <1>10 DEF ShownAsFound
    <2>2. disk' = disk
      BY <1>10 DEF StepOf
    <2>3. ProxyOf' = [ProxyOf EXCEPT ![i] = Without("unknown")]
      BY <1>2, <1>6, <2>1, MappedAreFunctions DEF Shows
    <2>4. DurableOf' = [DurableOf EXCEPT ![i] = Without("unknown")]
      BY <1>2, <1>6, <2>1, <2>2, MappedAreFunctions DEF Shows
    <2>5. AskedOf' = [AskedOf EXCEPT ![i] = Without("nothing")]
      BY <1>2, <1>6, <2>1, MappedAreFunctions DEF Shows
    <2> QED
      BY <1>2, <2>3, <2>4, <2>5 DEF Managed!Next, Managed!Lose
  <1>11. CASE i \notin disturbed'
    <2>1. Shows(i, Named(old[r]), Named(old[r]), Target(r))
      BY <1>1, <1>2, <1>11 DEF ShownAsFound, StepOf
    <2>2. ~Managed!Idle(i)
      BY <2>1, TargetIsSomething DEF Shows, Managed!Idle
    <2>3. CASE InFlight(r)'
      <3>1. Shows(i, Named(old[r]), Named(old[r]), Target(r))'
        BY <1>1, <1>2, <1>3, <1>11, <2>3 DEF ShownAsFound
      <3> QED
        BY <1>3, <1>4, <1>8, <2>1, <3>1, TargetIsSomething DEF Shows
    <2>4. CASE ~InFlight(r)'
      <3>1. ~Busy(i)'
        <4>1. i \notin disturbed
          BY <1>11 DEF StepOf
        <4> SUFFICES ASSUME NEW q \in Requests, InFlight(q)', Id(q)' = i PROVE FALSE
          BY DEF Busy
        <4>2. q # r /\ InFlight(q) /\ Id(q) = i
          BY <1>2, <2>4 DEF StepOf, InFlight, IInv, TypeOK, Id
        <4> QED
          BY <1>2, <4>1, <4>2 DEF IInv, UndisturbedIsAlone
      <3>2. Shows(i, Named(store[i]), Named(disk[i]), Without("nothing"))'
        BY <1>1, <1>2, <1>11, <3>1 DEF ShownAsFound
      <3>3. AskedOf' = [AskedOf EXCEPT ![i] = Without("nothing")]
        BY <1>2, <1>6, <3>2, MappedAreFunctions DEF Shows
      <3>4. ProxyOf' = [ProxyOf EXCEPT ![i] = Named(store'[i])]
        BY <1>2, <1>3, <1>6, <3>2, MappedAreFunctions DEF Shows
      <3>5. CASE pc'[r] = "done"
        <4>1. Named(store'[i]) = AskedOf[i] /\ Named(disk'[i]) = AskedOf[i]
          BY <1>2, <1>11, <2>1, <3>5 DEF AtomicStep, Shows
        <4>2. \E written \in {DurableOf, Managed!Written} :
                 DurableOf' = [written EXCEPT ![i] = AskedOf[i]]
          <5>1. CASE disk' = disk
            <6>1. DurableOf' = [DurableOf EXCEPT ![i] = AskedOf[i]]
              BY <1>2, <1>6, <3>2, <4>1, <5>1, MappedAreFunctions DEF Shows
            <6> QED
              BY <6>1
          <5>2. CASE disk' = store
            <6>1. DurableOf' = [Managed!Written EXCEPT ![i] = AskedOf[i]]
              BY <1>2, <1>5, <1>6, <3>2, <4>1, <5>2, MappedAreFunctions DEF Shows
            <6> QED
              BY <6>1
          <5> QED
            BY <1>7, <5>1, <5>2
        <4>3. Managed!Done(i)
          BY <2>2, <3>3, <3>4, <4>1, <4>2 DEF Managed!Done
        <4> QED
          BY <1>2, <4>3 DEF Managed!Next
      <3>6. CASE pc'[r] = "failed"
        <4>1. /\ Named(store'[i]) \in {ProxyOf[i], AskedOf[i]}
              /\ Named(disk'[i]) \in {DurableOf[i], Named(store'[i])}
          BY <1>2, <1>11, <2>1, <3>6 DEF AtomicStep, Shows
        <4>2. DurableOf' = [DurableOf EXCEPT ![i] = Named(disk'[i])]
          <5>1. disk' = disk
            BY <3>6 DEF StepOf
          <5>2. DurableOf'[i] = Named(disk'[i])
            BY <3>2 DEF Shows
          <5> QED
            BY <1>2, <1>6, <5>1, <5>2, MappedAreFunctions
        <4>3. Managed!Fail(i)
          BY <2>2, <3>3, <3>4, <4>1, <4>2 DEF Managed!Fail
        <4> QED
          BY <1>2, <4>3 DEF Managed!Next
      <3> QED
        BY <1>3, <2>4, <3>5, <3>6
    <2> QED
      BY <2>3, <2>4
  <1> QED
    BY <1>9, <1>10, <1>11 DEF StepOf

\* While the others' entries stay, a request goes on as it was or takes its own step.
LEMMA FlightsKept ==
    ASSUME IInv, FlightsAreAtomic, NEW r \in Requests, Step(r)
    PROVE  FlightsAreAtomic'
  <1>1. StepOf(r)
    BY EveryStep
  <1> SUFFICES ASSUME NEW q \in Requests, InFlight(q)', Id(q)' \notin disturbed'
               PROVE  AtomicFinds(q)'
    BY DEF FlightsAreAtomic
  <1>2. Id(q)' = Id(q) /\ Target(q)' = Target(q) /\ old'[q] = old[q] /\ disturbed \subseteq disturbed'
    BY <1>1 DEF StepOf, Id, Target, Op, WantedDomain, WantsVpn
  <1>3. CASE q = r
    BY <1>2, <1>3, StepIsAtomic DEF AtomicStep
  <1>4. CASE q # r
    <2>1. InFlight(q) /\ pc'[q] = pc[q] /\ Id(q) \notin disturbed /\ AtomicFinds(q)
      BY <1>1, <1>2, <1>4 DEF StepOf, InFlight, IInv, TypeOK, FlightsAreAtomic
    <2>2. InFlight(r) /\ Id(q) # Id(r)
      BY <1>1, <1>4, <2>1 DEF StepOf, IInv, UndisturbedIsAlone
    <2>3. Id(q) \in Ids
      BY <2>1 DEF IInv, TypeOK, InFlight, Settled, Asks, Id
    <2>4. store'[Id(q)] = store[Id(q)] /\ disk'[Id(q)] \in {disk[Id(q)], store[Id(q)]}
      BY <1>1, <2>2, <2>3 DEF StepOf, IInv, TypeOK
    <2> QED
      BY <1>2, <2>1, <2>4 DEF AtomicFinds
  <1> QED
    BY <1>3, <1>4

\* In every state: before its change a request finds its proxy as it was, and it asks for
\* a setting of it, or for none.
BeginsAsFound ==
    /\ \A r \in Requests : InFlight(r) /\ EntryBefore(r) =>
          Named(store[Id(r)]) = Named(old[r]) /\ Named(disk[Id(r)]) = Named(old[r])
    /\ \A r \in Requests : pc[r] # "idle" =>
          /\ Target(r) \in ProxySettings \cup {Without("none")}
          /\ Op(r) # "delete" => Target(r) # Without("none")

LEMMA FoundAsked == IInv => BeginsAsFound
  <1> SUFFICES ASSUME IInv PROVE BeginsAsFound
    OBVIOUS
  <1>1. ASSUME NEW r \in Requests, pc[r] # "idle"
        PROVE  /\ Target(r) \in ProxySettings \cup {Without("none")}
               /\ Op(r) # "delete" => Target(r) # Without("none")
    <2>1. req[r] \in Asks /\ AskFits(r)
      BY <1>1 DEF IInv, TypeOK, AsksFit
    <2>2. \A d, v : With(d, v) # Without("none")
      BY DEF With, Without
    <2> QED
      BY <2>1, <2>2, TargetTyped DEF ProxySettings
  <1> QED
    BY <1>1, BeforeNamed DEF BeginsAsFound

LEMMA FoundAskedNext == IInv' => BeginsAsFound'
  BY FoundAsked, PTL

\* A request that comes is asked of a proxy at rest, or its proxy is lost.
LEMMA BeginIsManaged ==
    ASSUME IInv, IInv', FlightsAreAtomic, NEW r \in Requests, NEW ask \in Asks, NEW first \in Before,
           Begin(r, ask, first)
    PROVE  [Managed!Next]_Managed!proxyVars /\ FlightsAreAtomic'
  <1>1. PICK i \in Ids : i = ask.id
    BY DEF Asks
  <1>2. /\ UNCHANGED <<store, disk>> /\ ~InFlight(r) /\ InFlight(r)' /\ Id(r)' = i
        /\ pc'[r] = first /\ old'[r] = store[i] /\ pc'[r] # "idle"
        /\ disturbed' = IF Overlaps(i) THEN disturbed \cup {i} ELSE disturbed
    BY <1>1 DEF Begin, InFlight, Settled, Before, IInv, TypeOK, Id
  <1>3. \A q \in Requests \ {r} :
            /\ InFlight(q)' = InFlight(q) /\ Id(q)' = Id(q) /\ Target(q)' = Target(q)
            /\ old'[q] = old[q] /\ pc'[q] = pc[q]
    BY DEF Begin, InFlight, IInv, TypeOK, Id, Target, Op, WantedDomain, WantsVpn
  <1>4. \A j \in Ids \ {i} : /\ ProxyOf'[j] = ProxyOf[j] /\ AskedOf'[j] = AskedOf[j]
                             /\ DurableOf'[j] = DurableOf[j]
    <2> SUFFICES ASSUME NEW j \in Ids \ {i}
                 PROVE  ProxyOf'[j] = ProxyOf[j] /\ AskedOf'[j] = AskedOf[j] /\ DurableOf'[j] = DurableOf[j]
      OBVIOUS
    <2> QED
      BY <1>2, <1>3, StaysShown
  <1>5. ShownAsFound /\ ShownAsFound' /\ BeginsAsFound /\ BeginsAsFound'
    BY FoundIsShown, FoundIsShownNext, FoundAsked, FoundAskedNext
  <1>6. ASSUME i \notin disturbed'
        PROVE  /\ EntryBefore(r)'
               /\ Named(store[i]) = Named(old'[r]) /\ Named(disk[i]) = Named(old'[r])
    <2>1. EntryBefore(r)'
      BY <1>2, <1>6 DEF IInv, FlightsFind, Finds
    <2> QED
      BY <1>2, <1>5, <2>1 DEF BeginsAsFound
  <1>7. [Managed!Next]_Managed!proxyVars
    <2>1. CASE i \in disturbed
      <3>1. i \in disturbed'
        BY <1>2, <2>1
      <3>2. ProxyOf'[i] = ProxyOf[i] /\ AskedOf'[i] = AskedOf[i] /\ DurableOf'[i] = DurableOf[i]
        BY <1>5, <2>1, <3>1 DEF ShownAsFound, Shows
      <3>3. ProxyOf' = ProxyOf /\ AskedOf' = AskedOf /\ DurableOf' = DurableOf
        BY <1>4, <3>2, MappedAreFunctions
      <3> QED
        BY <3>3 DEF Managed!proxyVars
    <2>2. CASE i \notin disturbed /\ i \in disturbed'
      <3>1. Shows(i, Without("unknown"), Without("unknown"), Without("nothing"))'
        BY <1>5, <2>2 DEF ShownAsFound
      <3>2. /\ ProxyOf' = [ProxyOf EXCEPT ![i] = Without("unknown")]
            /\ DurableOf' = [DurableOf EXCEPT ![i] = Without("unknown")]
            /\ AskedOf' = [AskedOf EXCEPT ![i] = Without("nothing")]
        BY <1>1, <1>4, <3>1, MappedAreFunctions DEF Shows
      <3> QED
        BY <1>1, <3>2 DEF Managed!Next, Managed!Lose
    <2>3. CASE i \notin disturbed'
      <3>1. i \notin disturbed /\ ~Overlaps(i)
        BY <1>2, <2>3
      <3>2. ~Busy(i)
        BY <3>1 DEF Busy, Overlaps
      <3>3. Shows(i, Named(store[i]), Named(disk[i]), Without("nothing"))
        BY <1>1, <1>5, <3>1, <3>2 DEF ShownAsFound
      <3>4. Shows(i, Named(old[r]), Named(old[r]), Target(r))'
        BY <1>2, <1>5, <2>3 DEF ShownAsFound
      <3>5. ProxyOf' = ProxyOf /\ DurableOf' = DurableOf
        BY <1>4, <1>6, <2>3, <3>3, <3>4, MappedAreFunctions DEF Shows
      <3>6. AskedOf' = [AskedOf EXCEPT ![i] = Target(r)']
        BY <1>1, <1>4, <3>4, MappedAreFunctions DEF Shows
      <3>7. /\ Target(r)' \in ProxySettings \cup {Without("none")}
            /\ Op(r)' # "delete" => Target(r)' # Without("none")
        BY <1>2, <1>5 DEF BeginsAsFound
      <3>8. ProxyOf[i] # Without("none") \/ Target(r)' # Without("none")
        <4>1. Op(r)' = "delete" => store[i] # NoProxy
          BY <1>2, <1>6, <2>3 DEF EntryBefore, Stored
        <4>2. store[i] # NoProxy => Named(store[i]) # Without("none")
          BY DEF Named, With, Without
        <4> QED
          BY <3>3, <3>7, <4>1, <4>2 DEF Shows
      <3>9. ProxyOf[i] # Without("unknown") /\ AskedOf[i] = Without("nothing")
        BY <3>3, NamedIsKnown DEF Shows
      <3>10. Managed!Ask(i)
        <4>1. PICK want \in ProxySettings \cup {Without("none")} :
                  want = Target(r)'
          BY <3>7
        <4>2. ProxyOf[i] # Without("none") \/ want # Without("none")
          BY <3>8, <4>1
        <4>3. AskedOf' = [AskedOf EXCEPT ![i] = want]
          BY <3>6, <4>1
        <4>4. \E w \in ProxySettings \cup {Without("none")} :
                 /\ ProxyOf[i] # Without("none") \/ w # Without("none")
                 /\ AskedOf' = [AskedOf EXCEPT ![i] = w]
          BY <4>2, <4>3
        <4>5. Managed!Idle(i)
          BY <3>9 DEF Managed!Idle
        <4> QED
          BY <3>5, <3>9, <4>4, <4>5 DEF Managed!Ask
      <3> QED
        BY <1>1, <3>10 DEF Managed!Next
    <2> QED
      BY <2>1, <2>2, <2>3
  <1>8. FlightsAreAtomic'
    <2> SUFFICES ASSUME NEW q \in Requests, InFlight(q)', Id(q)' \notin disturbed'
                 PROVE  AtomicFinds(q)'
      BY DEF FlightsAreAtomic
    <2>1. CASE q = r
      BY <1>2, <1>6, <2>1 DEF AtomicFinds, Before
    <2>2. CASE q # r
      <3>1. InFlight(q) /\ Id(q) \notin disturbed
        BY <1>2, <1>3, <2>2
      <3>2. AtomicFinds(q)
        BY <3>1 DEF FlightsAreAtomic
      <3> QED
        BY <1>2, <1>3, <2>2, <3>2 DEF AtomicFinds
    <2> QED
      BY <2>1, <2>2
  <1> QED
    BY <1>7, <1>8

\* The three ways to begin.
LEMMA EveryBegin ==
    ASSUME NEW r \in Requests, BeginCreate(r) \/ BeginUpdate(r) \/ BeginSimple(r)
    PROVE  \E ask \in Asks, first \in Before :
              /\ Begin(r, ask, first)
              /\ \/ /\ ask.op = "create" /\ ~Stored(ask.id)
                    /\ \A q \in Requests : pc[q] # "idle" => Id(q) # ask.id
                 \/ ask.op # "create" /\ Stored(ask.id)
  <1>1. CASE BeginCreate(r)
    <2>1. PICK i \in Ids, d \in Domains, v \in {"keep", "on"} :
              /\ ~Stored(i) /\ \A q \in Requests : pc[q] # "idle" => Id(q) # i
              /\ Begin(r, [op |-> "create", id |-> i, domain |-> d, vpn |-> v],
                       IF v = "on" THEN "xrayFetch" ELSE "teleCreate")
      BY <1>1 DEF BeginCreate
    <2>2. /\ [op |-> "create", id |-> i, domain |-> d, vpn |-> v] \in Asks
          /\ (IF v = "on" THEN "xrayFetch" ELSE "teleCreate") \in Before
      BY DEF Asks, OpKinds, Before
    <2> QED
      BY <2>1, <2>2
  <1>2. CASE BeginUpdate(r)
    <2>1. PICK i \in {j \in Ids : Stored(j)}, d \in Domains \cup {Same}, v \in {"keep", "on", "off"} :
              LET ask == [op |-> "update", id |-> i, domain |-> d, vpn |-> v] IN
              Begin(r, ask, IF v # "keep" /\ store[i].vpn THEN "xrayRemove"
                            ELSE IF v = "on" THEN "xrayFetch"
                            ELSE IF NeedsRestart(ask) THEN "teleRemove"
                            ELSE "change")
      BY <1>2 DEF BeginUpdate
    <2> DEFINE ask == [op |-> "update", id |-> i, domain |-> d, vpn |-> v]
               first == IF v # "keep" /\ store[i].vpn THEN "xrayRemove"
                        ELSE IF v = "on" THEN "xrayFetch"
                        ELSE IF NeedsRestart(ask) THEN "teleRemove"
                        ELSE "change"
    <2>2. ask \in Asks /\ first \in Before
      BY DEF Asks, OpKinds, Before
    <2>3. Begin(r, ask, first) /\ ask.op # "create" /\ Stored(ask.id)
      BY <2>1
    <2> HIDE DEF ask, first
    <2> QED
      BY <2>2, <2>3
  <1>3. CASE BeginSimple(r)
    <2>1. PICK i \in {j \in Ids : Stored(j)}, op \in {"restart", "delete", "pause", "unpause"} :
              Begin(r, [op |-> op, id |-> i, domain |-> Same, vpn |-> "keep"],
                    IF op \in {"pause", "unpause"} THEN "dockerPause" ELSE "teleRemove")
      BY <1>3 DEF BeginSimple
    <2>2. /\ [op |-> op, id |-> i, domain |-> Same, vpn |-> "keep"] \in Asks
          /\ (IF op \in {"pause", "unpause"} THEN "dockerPause" ELSE "teleRemove") \in Before
      BY DEF Asks, OpKinds, Before
    <2> QED
      BY <2>1, <2>2
  <1> QED
    BY <1>1, <1>2, <1>3

\* A poll shows nothing: what it changes is the status.
LEMMA RefreshIsManaged ==
    ASSUME IInv, IInv', FlightsAreAtomic, NEW i \in Ids, RefreshStatus(i)
    PROVE  [Managed!Next]_Managed!proxyVars /\ FlightsAreAtomic'
  <1>1. UNCHANGED <<disk, pc, req, old, disturbed>>
    BY DEF RefreshStatus
  <1>2. ASSUME NEW j \in Ids PROVE Named(store'[j]) = Named(store[j])
    <2>1. CASE j # i
      BY <2>1 DEF RefreshStatus, IInv, TypeOK
    <2>2. CASE j = i
      <3>1. store[i] \in Proxies
        BY DEF RefreshStatus, Stored, IInv, TypeOK
      <3>2. store'[i] = [store[i] EXCEPT !.status = MappedStatus(tele[i].state)]
        BY DEF RefreshStatus, IInv, TypeOK
      <3>3. store'[i] \in Proxies
        BY <3>1, <3>2 DEF MappedStatus, Proxies, Statuses
      <3>4. store'[i].domain = store[i].domain /\ store'[i].vpn = store[i].vpn
        BY <3>1, <3>2 DEF Proxies
      <3> QED
        BY <2>2, <3>1, <3>3, <3>4, NamedAlike, NoProxyAssumption
    <2> QED
      BY <2>1, <2>2
  <1>3. \A q \in Requests : /\ InFlight(q)' = InFlight(q) /\ Id(q)' = Id(q)
                            /\ Target(q)' = Target(q) /\ old'[q] = old[q] /\ pc'[q] = pc[q]
    BY <1>1 DEF InFlight, Id, Target, Op, WantedDomain, WantsVpn
  <1>4. ASSUME NEW j \in Ids
        PROVE  ProxyOf'[j] = ProxyOf[j] /\ AskedOf'[j] = AskedOf[j] /\ DurableOf'[j] = DurableOf[j]
    <2>1. disk'[j] = disk[j] /\ disturbed' = disturbed
      BY <1>1
    <2> QED
      BY <1>2, <1>3, <2>1, StaysShown
  <1>5. ProxyOf' = ProxyOf /\ AskedOf' = AskedOf /\ DurableOf' = DurableOf
    BY <1>4, MappedAreFunctions
  <1>6. FlightsAreAtomic'
    <2> SUFFICES ASSUME NEW q \in Requests, InFlight(q)', Id(q)' \notin disturbed'
                 PROVE  AtomicFinds(q)'
      BY DEF FlightsAreAtomic
    <2>1. InFlight(q) /\ AtomicFinds(q)
      BY <1>1, <1>3 DEF FlightsAreAtomic
    <2>2. Id(q) \in Ids
      BY <2>1 DEF IInv, TypeOK, InFlight, Settled, Asks, Id
    <2> QED
      BY <1>1, <1>2, <1>3, <2>1, <2>2 DEF AtomicFinds
  <1> QED
    BY <1>5, <1>6 DEF Managed!proxyVars

\* A crash loses what was under way; the rest is what is kept of it.
LEMMA CrashIsManaged ==
    ASSUME IInv, IInv', Crash
    PROVE  Managed!Restart /\ FlightsAreAtomic'
  <1>1. /\ store' = disk /\ disk' = disk
        /\ disturbed' = disturbed \cup {Id(r) : r \in {q \in Requests : InFlight(q)}}
    BY DEF Crash
  <1>2. \A q \in Requests : ~InFlight(q)'
    BY DEF Crash, IInv, TypeOK, InFlight, Settled
  <1>3. ShownAsFound /\ ShownAsFound'
    BY FoundIsShown, FoundIsShownNext
  <1>4. ASSUME NEW i \in Ids
        PROVE  /\ ProxyOf'[i] = IF AskedOf[i] = Without("nothing") THEN DurableOf[i]
                                ELSE Without("unknown")
               /\ DurableOf'[i] = ProxyOf'[i] /\ AskedOf'[i] = Without("nothing")
    <2>1. CASE i \in disturbed
      <3>1. i \in disturbed'
        BY <1>1, <2>1
      <3> QED
        BY <1>3, <2>1, <3>1 DEF ShownAsFound, Shows
    <2>2. CASE i \notin disturbed /\ Busy(i)
      <3>1. PICK q \in Requests : InFlight(q) /\ Id(q) = i
        BY <2>2 DEF Busy
      <3>2. i \in disturbed'
        BY <1>1, <3>1
      <3>3. AskedOf[i] # Without("nothing")
        BY <1>3, <2>2, <3>1, TargetIsSomething DEF ShownAsFound, Shows
      <3> QED
        BY <1>3, <3>2, <3>3 DEF ShownAsFound, Shows
    <2>3. CASE i \notin disturbed /\ ~Busy(i)
      <3>1. i \notin disturbed' /\ ~Busy(i)'
        BY <1>1, <1>2, <2>3 DEF Busy
      <3>2. Shows(i, Named(disk[i]), Named(disk[i]), Without("nothing"))'
        BY <1>1, <1>3, <3>1 DEF ShownAsFound, Shows
      <3>3. Shows(i, Named(store[i]), Named(disk[i]), Without("nothing"))
        BY <1>3, <2>3 DEF ShownAsFound
      <3> QED
        BY <1>1, <3>2, <3>3 DEF Shows
    <2> QED
      BY <2>1, <2>2, <2>3
  <1>5. /\ ProxyOf' = [i \in Ids |-> IF AskedOf[i] = Without("nothing") THEN DurableOf[i]
                                     ELSE Without("unknown")]
        /\ DurableOf' = ProxyOf'
        /\ AskedOf' = [i \in Ids |-> Without("nothing")]
    BY <1>4, MappedAreFunctions
  <1> QED
    BY <1>2, <1>5 DEF Managed!Restart, Managed!Idle, FlightsAreAtomic

\* A node that has just started has each proxy as its file has it, and nothing asked.
LEMMA InitIsManaged ==
    ASSUME Init
    PROVE  Managed!Init /\ FlightsAreAtomic
  <1>1. IInv /\ ShownAsFound
    BY InitInductive, FoundIsShown
  <1>2. disk = store /\ disturbed = {} /\ \A q \in Requests : ~InFlight(q)
    BY DEF Init, InFlight, Settled
  <1>3. ASSUME NEW i \in Ids
        PROVE  /\ ProxyOf[i] = Named(store[i]) /\ DurableOf[i] = Named(store[i])
               /\ AskedOf[i] = Without("nothing")
    <2>1. i \notin disturbed /\ ~Busy(i)
      BY <1>2 DEF Busy
    <2> QED
      BY <1>1, <1>2, <2>1 DEF ShownAsFound, Shows
  <1>4. ASSUME NEW i \in Ids
        PROVE  Named(store[i]) \in ProxySettings \cup {Without("none")}
    <2>1. store[i] \in Proxies \cup {NoProxy}
      BY <1>1 DEF IInv, TypeOK
    <2> QED
      BY <2>1 DEF Named, Proxies, ProxySettings
  <1>5. ProxyOf \in [Ids -> ProxySettings \cup {Without("none")}]
    BY <1>3, <1>4, MappedAreFunctions
  <1>6. DurableOf = ProxyOf /\ AskedOf = [i \in Ids |-> Without("nothing")]
    BY <1>3, MappedAreFunctions
  <1> QED
    BY <1>2, <1>5, <1>6 DEF Managed!Init, FlightsAreAtomic

\* Whatever requests about other proxies, polls and restarts run beside, a proxy is what
\* its last answered request made of it, in memory and on disk; a failure leaves it as it
\* was or as it was asked for (services/proxy.ts, store/index.ts).
THEOREM ProxiesTakePlaceAtOnce == Spec => ProxiesAreManaged
  <1>1. Init => Managed!Init /\ FlightsAreAtomic
    BY InitIsManaged
  <1>2. IInv /\ IInv' /\ FlightsAreAtomic /\ [Next]_vars
        => [Managed!Next]_Managed!proxyVars /\ FlightsAreAtomic'
    <2> SUFFICES ASSUME IInv, IInv', FlightsAreAtomic, [Next]_vars
                 PROVE  [Managed!Next]_Managed!proxyVars /\ FlightsAreAtomic'
      OBVIOUS
    <2>1. CASE Crash
      BY <2>1, CrashIsManaged DEF Managed!Next
    <2>2. ASSUME NEW i \in Ids, RefreshStatus(i)
          PROVE  [Managed!Next]_Managed!proxyVars /\ FlightsAreAtomic'
      BY <2>2, RefreshIsManaged
    <2>3. ASSUME NEW r \in Requests, BeginCreate(r) \/ BeginUpdate(r) \/ BeginSimple(r)
          PROVE  [Managed!Next]_Managed!proxyVars /\ FlightsAreAtomic'
      <3>1. PICK ask \in Asks, first \in Before : Begin(r, ask, first)
        BY <2>3, EveryBegin
      <3> QED
        BY <3>1, BeginIsManaged
    <2>4. ASSUME NEW r \in Requests, Step(r)
          PROVE  [Managed!Next]_Managed!proxyVars /\ FlightsAreAtomic'
      <3>1. StepOf(r) /\ (Id(r) \notin disturbed' => AtomicStep(r)) /\ FlightsAreAtomic'
        BY <2>4, EveryStep, StepIsAtomic, FlightsKept
      <3> QED
        BY <3>1, StepIsManaged
    <2>5. CASE UNCHANGED vars
      <3>1. ProxyOf' = ProxyOf /\ DurableOf' = DurableOf /\ AskedOf' = AskedOf
        BY <2>5 DEF vars, ProxyOf, DurableOf, AskedOf, Shown, Whole, Busy, RequestOf, Target, InFlight,
                    Id, Op, Stored, Reachable, WantedDomain, WantsVpn
      <3>2. FlightsAreAtomic'
        <4> SUFFICES ASSUME NEW q \in Requests, InFlight(q)', Id(q)' \notin disturbed'
                     PROVE  AtomicFinds(q)'
          BY DEF FlightsAreAtomic
        <4>1. /\ InFlight(q) /\ Id(q) \notin disturbed /\ pc'[q] = pc[q] /\ old'[q] = old[q]
              /\ Id(q)' = Id(q) /\ UNCHANGED <<store, disk>>
          BY <2>5 DEF vars, InFlight, Id
        <4>2. Target(q)' = Target(q)
          BY <2>5 DEF vars, Target, Op, WantedDomain, WantsVpn
        <4>3. AtomicFinds(q)
          BY <4>1 DEF FlightsAreAtomic
        <4> QED
          BY <4>1, <4>2, <4>3 DEF AtomicFinds
      <3> QED
        BY <3>1, <3>2 DEF Managed!proxyVars
    <2> QED
      BY <2>1, <2>2, <2>3, <2>4, <2>5 DEF Next, Step
  <1> QED
    BY <1>1, <1>2, Inductive, PTL DEF Spec, ProxiesAreManaged, Managed!Spec
-----------------------------------------------------------------------------
(* What becomes of the requests while the mutex admits nobody: the program  *)
(* as it is written.                                                        *)

\* store.json stays as it was, and a request is answered with success only if its proxy
\* has gone from the cache since it began.
NothingIsKept ==
    [][/\ disk' = disk
       /\ \A r \in Requests : pc'[r] = "done" => pc[r] = "done" \/ ~Stored(Id(r))]_vars

\* A create that has not changed the cache has an id of its own, which is not stored; and
\* nobody is behind a save, so who is at nginx found no entry.
NobodySaved ==
    /\ \A q \in Requests : Op(q) = "create" /\ pc[q] \in Before =>
          /\ ~Stored(Id(q))
          /\ \A r \in Requests : pc[r] # "idle" /\ Id(r) = Id(q) => r = q
    /\ \A r \in Requests : pc[r] \in {"clean", "nginx"} => ~Stored(Id(r))

\* A step of a request under way, while the mutex admits nobody.
UnsavedStep(r) ==
    /\ UNCHANGED disk
    /\ pc'[r] \in Before => pc[r] \in Before
    /\ pc'[r] \in {"clean", "nginx", "done"} => UNCHANGED store
    /\ pc'[r] \in {"clean", "nginx"} => ~Stored(Id(r))
    /\ pc'[r] = "done" => pc[r] = "nginx" \/ ~Stored(Id(r))
    /\ store' # store => /\ pc[r] \in Before /\ pc'[r] \notin Before
                         /\ Op(r) = "create" \/ Stored(Id(r))

LEMMA StepIsUnsaved ==
    ASSUME IInv, ~LockGrants, NEW r \in Requests, Step(r)
    PROVE  UnsavedStep(r)
  <1> USE DEF Throw, RollsBack, Disturb, Goto, Fault, Refused, RemoveXray, RemoveTele
  <1> USE DEF UnsavedStep, Before, Awaits, IInv, TypeOK
  <1>1. CASE XrayFetch(r)
    BY <1>1 DEF XrayFetch
  <1>2. CASE XrayCreate(r)
    BY <1>2 DEF XrayCreate
  <1>3. CASE XrayStart(r)
    BY <1>3 DEF XrayStart
  <1>4. CASE XrayRemove(r)
    BY <1>4 DEF XrayRemove
  <1>5. CASE TeleRemove(r)
    BY <1>5 DEF TeleRemove
  <1>6. CASE TeleCreate(r)
    BY <1>6 DEF TeleCreate
  <1>7. CASE TeleStart(r)
    BY <1>7 DEF TeleStart
  <1>8. CASE DockerPause(r)
    BY <1>8 DEF DockerPause
  <1>9. CASE UndoTele(r)
    BY <1>9 DEF UndoTele
  <1>10. CASE UndoXray(r)
    BY <1>10 DEF UndoXray
  <1>11. CASE Change(r)
    <2>1. CASE Op(r) = "create" \/ Stored(Id(r))
      BY <1>11, <2>1 DEF Change
    <2>2. CASE ~(Op(r) = "create" \/ Stored(Id(r)))
      BY <1>11, <2>2 DEF Change
    <2> QED
      BY <2>1, <2>2
  <1>12. CASE Save(r) \/ Clean(r)
    BY <1>12 DEF Save, Clean
  <1>13. CASE UpdateNginx(r)
    BY <1>13 DEF UpdateNginx
  <1> QED
    BY <1>1, <1>2, <1>3, <1>4, <1>5, <1>6, <1>7, <1>8, <1>9, <1>10, <1>11, <1>12, <1>13 DEF Step

\* As line 59 of store/index.ts stands, no create, update, restart, delete, pause or unpause
\* of a proxy that stays in the cache is ever answered with success, and no restart of the
\* node finds anything of them: the mutex that hangs reaches every request that changes a
\* proxy (services/proxy.ts, store/index.ts).
THEOREM AsWrittenNothingIsKept ==
    ASSUME ~LockGrants
    PROVE  Spec => NothingIsKept
  <1>1. Init => NobodySaved
    BY DEF Init, NobodySaved, Before
  <1>2. ASSUME IInv, NobodySaved, [Next]_vars
        PROVE  /\ NobodySaved'
               /\ disk' = disk
               /\ \A r \in Requests : pc'[r] = "done" => pc[r] = "done" \/ ~Stored(Id(r))
    <2>1. CASE Crash
      <3>1. \A r \in Requests : pc'[r] \in {"idle", "done", "failed", "dead"}
                                /\ (pc'[r] = "done" => pc[r] = "done")
        BY <1>2, <2>1 DEF Crash, IInv, TypeOK, InFlight, Settled
      <3> QED
        BY <2>1, <3>1 DEF Crash, NobodySaved, Before
    <2>2. ASSUME NEW i \in Ids, RefreshStatus(i)
          PROVE  /\ NobodySaved'
                 /\ disk' = disk
                 /\ \A r \in Requests : pc'[r] = "done" => pc[r] = "done" \/ ~Stored(Id(r))
      <3>1. UNCHANGED <<disk, pc, req>> /\ \A j : ~Stored(j) => ~Stored(j)'
        BY <1>2, <2>2 DEF RefreshStatus, Stored, IInv, TypeOK
      <3> QED
        BY <1>2, <3>1 DEF NobodySaved, Op, Id
    <2>3. ASSUME NEW r \in Requests, BeginCreate(r) \/ BeginUpdate(r) \/ BeginSimple(r)
          PROVE  /\ NobodySaved'
                 /\ disk' = disk
                 /\ \A q \in Requests : pc'[q] = "done" => pc[q] = "done" \/ ~Stored(Id(q))
      <3>1. PICK ask \in Asks, first \in Before :
                /\ Begin(r, ask, first)
                /\ \/ /\ ask.op = "create" /\ ~Stored(ask.id)
                      /\ \A q \in Requests : pc[q] # "idle" => Id(q) # ask.id
                   \/ ask.op # "create" /\ Stored(ask.id)
        BY <2>3, EveryBegin
      <3>2. /\ UNCHANGED <<store, disk>> /\ pc'[r] = first /\ Id(r)' = ask.id /\ Op(r)' = ask.op
            /\ \A q \in Requests \ {r} : pc'[q] = pc[q] /\ Id(q)' = Id(q) /\ Op(q)' = Op(q)
        BY <1>2, <3>1 DEF Begin, IInv, TypeOK, Id, Op
      <3>3. first \notin {"clean", "nginx", "done"}
        BY DEF Before
      <3>4. \A q \in Requests : pc'[q] = "done" => pc[q] = "done"
        BY <3>2, <3>3
      <3>5. ASSUME NEW q \in Requests, Op(q)' = "create", pc'[q] \in Before
            PROVE  /\ ~Stored(Id(q))'
                   /\ \A s \in Requests : pc'[s] # "idle" /\ Id(s)' = Id(q)' => s = q
        <4>1. CASE q = r
          BY <3>1, <3>2, <3>5, <4>1 DEF Stored
        <4>2. CASE q # r
          <5>1. /\ ~Stored(Id(q)) /\ pc[q] # "idle"
                /\ \A s \in Requests : pc[s] # "idle" /\ Id(s) = Id(q) => s = q
            BY <1>2, <3>2, <3>5, <4>2 DEF NobodySaved, Before
          <5> QED
            BY <3>1, <3>2, <4>2, <5>1 DEF Stored
        <4> QED
          BY <4>1, <4>2
      <3>6. \A q \in Requests : pc'[q] \in {"clean", "nginx"} => ~Stored(Id(q))'
        BY <1>2, <3>2, <3>3 DEF NobodySaved, Stored
      <3> QED
        BY <3>2, <3>4, <3>5, <3>6 DEF NobodySaved
    <2>4. ASSUME NEW r \in Requests, Step(r)
          PROVE  /\ NobodySaved'
                 /\ disk' = disk
                 /\ \A q \in Requests : pc'[q] = "done" => pc[q] = "done" \/ ~Stored(Id(q))
      <3>1. StepOf(r) /\ UnsavedStep(r)
        BY <1>2, <2>4, EveryStep, StepIsUnsaved
      <3>2. /\ \A q \in Requests : Id(q)' = Id(q) /\ Op(q)' = Op(q)
            /\ \A q \in Requests \ {r} : pc'[q] = pc[q]
            /\ \A j \in Ids : j # Id(r) => (Stored(j)' <=> Stored(j))
            /\ \A q \in Requests : pc[q] # "idle" => Id(q) \in Ids
            /\ pc[r] # "idle" /\ pc'[r] # "idle"
        <4>1. ASSUME NEW j \in Ids, j # Id(r)
              PROVE  Stored(j)' <=> Stored(j)
          BY <1>2, <3>1, <4>1 DEF StepOf, IInv, TypeOK, Stored
        <4>2. \A q \in Requests : pc[q] # "idle" => Id(q) \in Ids
          BY <1>2 DEF IInv, TypeOK, Asks, Id
        <4> QED
          BY <1>2, <3>1, <4>1, <4>2 DEF StepOf, IInv, TypeOK, Id, Op, InFlight, Settled, Awaits
      <3>3. \A q \in Requests : pc'[q] = "done" => pc[q] = "done" \/ ~Stored(Id(q))
        BY <1>2, <3>1, <3>2 DEF NobodySaved, UnsavedStep
      <3>4. ASSUME NEW q \in Requests, Op(q)' = "create", pc'[q] \in Before
            PROVE  /\ ~Stored(Id(q))'
                   /\ \A s \in Requests : pc'[s] # "idle" /\ Id(s)' = Id(q)' => s = q
        <4>1. /\ pc[q] \in Before /\ ~Stored(Id(q))
              /\ \A s \in Requests : pc[s] # "idle" /\ Id(s) = Id(q) => s = q
          BY <1>2, <3>1, <3>2, <3>4 DEF NobodySaved, UnsavedStep
        <4>2. ~Stored(Id(q))'
          <5>1. CASE q = r
            BY <3>1, <3>2, <3>4, <4>1, <5>1 DEF UnsavedStep, Stored
          <5>2. CASE q # r
            <6>1. Id(q) \in Ids /\ Id(q) # Id(r)
              BY <3>2, <4>1, <5>2 DEF Before
            <6> QED
              BY <3>2, <4>1, <6>1
          <5> QED
            BY <5>1, <5>2
        <4> QED
          BY <3>2, <4>1, <4>2
      <3>5. ASSUME NEW q \in Requests, pc'[q] \in {"clean", "nginx"}
            PROVE  ~Stored(Id(q))'
        <4>1. CASE q = r
          BY <3>1, <3>2, <3>5, <4>1 DEF UnsavedStep, Stored
        <4>2. CASE q # r
          <5>1. ~Stored(Id(q)) /\ pc[q] # "idle"
            BY <1>2, <3>2, <3>5, <4>2 DEF NobodySaved
          <5>2. CASE store' = store
            BY <3>2, <5>1, <5>2 DEF Stored
          <5>3. CASE store' # store
            <6>1. Id(q) # Id(r)
              BY <1>2, <3>1, <4>2, <5>1, <5>3 DEF NobodySaved, UnsavedStep
            <6> QED
              BY <3>2, <5>1, <6>1
          <5> QED
            BY <5>2, <5>3
        <4> QED
          BY <4>1, <4>2
      <3> QED
        BY <3>1, <3>3, <3>4, <3>5 DEF NobodySaved, UnsavedStep
    <2>5. CASE UNCHANGED vars
      BY <1>2, <2>5 DEF vars, NobodySaved, Stored, Op, Id
    <2> QED
      BY <1>2, <2>1, <2>2, <2>3, <2>4, <2>5 DEF Next, Step
  <1> QED
    BY <1>1, <1>2, Inductive, PTL DEF Spec, NothingIsKept
=============================================================================
