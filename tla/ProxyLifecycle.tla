--------------------------- MODULE ProxyLifecycle ---------------------------
(***************************************************************************)
(* The requests that change proxies on a service node, interleaved at      *)
(* their awaits: services/proxy.ts with the container operations of        *)
(* services/docker.ts and services/xray.ts and the store of                *)
(* store/index.ts.  The nginx update that ends most requests is one step   *)
(* here, for what its failure does to the request.                         *)
(*                                                                         *)
(* A request is one HTTP call.  Its `pc` names the await it stands at; a   *)
(* step runs the code from there to the next await that matters.  Of a     *)
(* proxy the model keeps the domain, the status and whether it has a VPN   *)
(* container; of a telemt container its state, the domain in its           *)
(* config.toml and the request that created it (Docker's container id).    *)
(*                                                                         *)
(* LockGrants = FALSE is the store's mutex as the source has it: a request *)
(* that saves stays at that await (see AsyncMutex).  With TRUE the mutex   *)
(* keeps its promise, and a save is one step (see JsonStore).              *)
(***************************************************************************)
EXTENDS Naturals, FiniteSets

CONSTANTS Ids,         \* ids createProxy may draw
          Domains,     \* fake-TLS domains
          Requests,    \* the HTTP calls of one run
          Ops,         \* the operations these calls may be
          Faults,      \* what may fail: see FaultKinds
          LockGrants,  \* does the store's mutex ever admit a caller?
          MaxFaults,   \* bound: failures and crashes of the node process in a run
          NoProxy,     \* no entry in the store
          Same         \* an update that leaves the domain alone

OpKinds == {"create", "update", "restart", "delete", "pause", "unpause"}
FaultKinds == {"xray", "tele", "remove", "save", "nginx", "crash"}

ASSUME OpsAssumption == Ops \subseteq OpKinds
ASSUME FaultsAssumption == Faults \subseteq FaultKinds
ASSUME LockGrantsAssumption == LockGrants \in BOOLEAN
ASSUME MaxFaultsAssumption == MaxFaults \in Nat
ASSUME SameAssumption == Same \notin Domains

VARIABLES
    store,      \* the cached proxies (storeCache.data.proxies) by id
    disk,       \* store.json
    tele,       \* telemt containers by the id in their name
    xray,       \* VPN containers by the id in their name
    pc,         \* the await each request stands at
    req,        \* what each request asks for
    old,        \* the proxy object a request read at its start
    disturbed,  \* ids whose requests overlapped, failed half way or were killed
    faults      \* failures so far

vars == <<store, disk, tele, xray, pc, req, old, disturbed, faults>>

Statuses == {"running", "paused", "stopped", "error"}
Proxies == [domain : Domains, status : Statuses, vpn : BOOLEAN]

ASSUME NoProxyAssumption == NoProxy \notin Proxies

NoTele == [state |-> "none", domain |-> Same, by |-> NoProxy]
Containers == [state : {"created", "running", "paused"}, domain : Domains \cup {Same},
               by : Requests \cup {NoProxy}]
Asks == [op : OpKinds, id : Ids, domain : Domains \cup {Same}, vpn : {"keep", "on", "off"}]

Settled == {"idle", "done", "failed", "dead"}
Awaits == {"xrayRemove", "xrayFetch", "xrayCreate", "xrayStart", "teleRemove", "teleCreate",
           "teleStart", "dockerPause", "change", "save", "clean", "nginx",
           "undoTele", "undoXray"}

TypeOK ==
    /\ store \in [Ids -> Proxies \cup {NoProxy}]
    /\ disk \in [Ids -> Proxies \cup {NoProxy}]
    /\ tele \in [Ids -> Containers \cup {NoTele}]
    /\ xray \in [Ids -> {"none", "created", "running"}]
    /\ pc \in [Requests -> Settled \cup Awaits]
    /\ req \in [Requests -> Asks \cup {NoProxy}]
    /\ old \in [Requests -> Proxies \cup {NoProxy}]
    /\ \A r \in Requests : pc[r] # "idle" => req[r] \in Asks
    /\ disturbed \subseteq Ids
    /\ faults \in 0..MaxFaults

\* A node that has just started: store.json holds some proxies with different
\* domains, each running behind nginx, and no request has come yet.
Healthy == {s \in [Ids -> [domain : Domains, status : {"running"}, vpn : BOOLEAN] \cup {NoProxy}] :
              \A i, j \in Ids : /\ i # j /\ s[i] # NoProxy /\ s[j] # NoProxy
                                => s[i].domain # s[j].domain}

Init == /\ store \in Healthy
        /\ disk = store
        /\ tele = [i \in Ids |-> IF store[i] = NoProxy THEN NoTele
                     ELSE [state |-> "running", domain |-> store[i].domain, by |-> NoProxy]]
        /\ xray = [i \in Ids |-> IF store[i] # NoProxy /\ store[i].vpn
                                 THEN "running" ELSE "none"]
        /\ pc = [r \in Requests |-> "idle"]
        /\ req = [r \in Requests |-> NoProxy]
        /\ old = [r \in Requests |-> NoProxy]
        /\ disturbed = {}
        /\ faults = 0

Stored(i) == store[i] # NoProxy
InFlight(r) == pc[r] \notin Settled
Op(r) == req[r].op
Id(r) == req[r].id
-----------------------------------------------------------------------------
(* A request arrives.                                                      *)

\* Ghost: another request for the same id is under way.
Overlaps(i) == \E q \in Requests : InFlight(q) /\ Id(q) = i

Begin(r, ask, first) ==
    /\ pc[r] = "idle"
    /\ ask.op \in Ops
    /\ req' = [req EXCEPT ![r] = ask]
    /\ old' = [old EXCEPT ![r] = store[ask.id]]
    /\ pc' = [pc EXCEPT ![r] = first]
    /\ disturbed' = IF Overlaps(ask.id) THEN disturbed \cup {ask.id} ELSE disturbed
    /\ UNCHANGED <<store, disk, tele, xray, faults>>

UsedDomains == {store[i].domain : i \in {j \in Ids : Stored(j)}}

\* createProxy: a fresh id (a uuid), and a domain no stored proxy has now, given
\* or taken from the pool.  With none left it throws and changes nothing.
BeginCreate(r) ==
    \E i \in Ids, d \in Domains \ UsedDomains, v \in {"keep", "on"} :
        /\ ~Stored(i) /\ \A q \in Requests : pc[q] # "idle" => Id(q) # i
        /\ Begin(r, [op |-> "create", id |-> i, domain |-> d, vpn |-> v],
                 IF v = "on" THEN "xrayFetch" ELSE "teleCreate")

\* needsRestart of updateProxy.
NeedsRestart(ask) == \/ ask.domain \notin {Same, store[ask.id].domain}
                     \/ ask.vpn # "keep"

\* updateProxy: a new domain is taken as it is; "on" is another VPN subscription
\* than the proxy's, "off" the empty one.  An update of the name, the note or
\* the limit alone needs no restart.
BeginUpdate(r) ==
    \E i \in {j \in Ids : Stored(j)}, d \in Domains \cup {Same}, v \in {"keep", "on", "off"} :
        LET ask == [op |-> "update", id |-> i, domain |-> d, vpn |-> v] IN
        Begin(r, ask, IF v # "keep" /\ store[i].vpn THEN "xrayRemove"
                      ELSE IF v = "on" THEN "xrayFetch"
                      ELSE IF NeedsRestart(ask) THEN "teleRemove"
                      ELSE "change")

\* restartProxy, deleteProxy, pauseProxy and unpauseProxy of a stored proxy;
\* for an unknown id they return at once.
BeginSimple(r) ==
    \E i \in {j \in Ids : Stored(j)}, op \in {"restart", "delete", "pause", "unpause"} :
        Begin(r, [op |-> op, id |-> i, domain |-> Same, vpn |-> "keep"],
              IF op \in {"pause", "unpause"} THEN "dockerPause" ELSE "teleRemove")
-----------------------------------------------------------------------------
(* Containers.                                                             *)

Goto(r, p) == pc' = [pc EXCEPT ![r] = p]

\* Ghost: the request goes on, or ends, with something left undone.
Disturb(r) == disturbed' = disturbed \cup {Id(r)}

\* A mutation: a `try` that starts behind the start of the container.
RollsBackLate(r) == Op(r) = "create" /\ pc[r] \in {"save", "nginx"}

\* An error: createProxy rolls back once it is inside its `try`, everything else
\* passes the error to the caller, updateProxy with whatever it has done so far.
\* The rollback leaves the entry in the cache: one that was not saved is half done.
RollsBack(r) == Op(r) = "create" /\ pc[r] \notin {"xrayFetch", "xrayCreate", "xrayStart"}

Throw(r) ==
    /\ Goto(r, IF RollsBack(r) THEN "undoTele" ELSE "failed")
    /\ IF \/ Op(r) = "update" \/ pc[r] = "xrayStart"
          \/ Op(r) = "create" /\ pc[r] = "save"
       THEN Disturb(r) ELSE UNCHANGED disturbed

\* A failure of the kind k, as often as the bound allows.
Fault(k) == /\ k \in Faults
            /\ faults < MaxFaults
            /\ faults' = faults + 1

\* A step that throws, because it cannot be done or by a failure.
Refused(possible, k) == IF possible THEN Fault(k) ELSE UNCHANGED faults

\* fetchAndParseSubscription: a link, or the first link of the page it names, that
\* is one of VLESS.
XrayFetch(r) ==
    /\ pc[r] = "xrayFetch"
    /\ \/ Goto(r, "xrayCreate") /\ UNCHANGED <<disturbed, faults>>
       \/ Fault("xray") /\ Throw(r)
    /\ UNCHANGED <<store, disk, tele, xray, req, old>>

\* pullXrayImage and docker.createContainer, which refuses a name in use.
XrayCreate(r) ==
    LET possible == xray[Id(r)] = "none" IN
    /\ pc[r] = "xrayCreate"
    /\ \/ /\ possible
          /\ xray' = [xray EXCEPT ![Id(r)] = "created"]
          /\ Goto(r, "xrayStart")
          /\ UNCHANGED <<disturbed, faults>>
       \/ /\ Refused(possible, "xray")
          /\ Throw(r)
          /\ UNCHANGED xray
    /\ UNCHANGED <<store, disk, tele, req, old>>

\* putArchive of the configuration and start of the VPN container.
XrayStart(r) ==
    LET possible == xray[Id(r)] = "created" IN
    /\ pc[r] = "xrayStart"
    /\ \/ /\ possible
          /\ xray' = [xray EXCEPT ![Id(r)] = "running"]
          /\ Goto(r, IF Op(r) = "create" THEN "teleCreate" ELSE "teleRemove")
          /\ UNCHANGED <<disturbed, faults>>
       \/ /\ Refused(possible, "xray")
          /\ Throw(r)
          /\ UNCHANGED xray
    /\ UNCHANGED <<store, disk, tele, req, old>>

\* removeXrayContainer, in updateProxy, deleteProxy and the rollback.  A removal
\* that fails is swallowed.
RemoveXray(r) ==
    \/ /\ xray' = [xray EXCEPT ![Id(r)] = "none"]
       /\ UNCHANGED <<disturbed, faults>>
    \/ /\ Fault("remove")
       /\ Disturb(r)
       /\ UNCHANGED xray

\* removeProxyContainer.
RemoveTele(r) ==
    \/ /\ tele' = [tele EXCEPT ![Id(r)] = NoTele]
       /\ UNCHANGED <<disturbed, faults>>
    \/ /\ Fault("remove")
       /\ Disturb(r)
       /\ UNCHANGED tele

XrayRemove(r) ==
    /\ pc[r] = "xrayRemove"
    /\ RemoveXray(r)
    /\ Goto(r, IF Op(r) = "delete" THEN "change"
               ELSE IF req[r].vpn = "on" THEN "xrayFetch"
               ELSE "teleRemove")
    /\ UNCHANGED <<store, disk, tele, req, old>>

TeleRemove(r) ==
    /\ pc[r] = "teleRemove"
    /\ RemoveTele(r)
    /\ Goto(r, IF Op(r) # "delete" THEN "teleCreate"
               ELSE IF old[r].vpn THEN "xrayRemove"
               ELSE "change")
    /\ UNCHANGED <<store, disk, xray, req, old>>

\* A mutation: an update that rebuilds the container with the proxy's old domain.
WantedOldDomain(r) == IF Op(r) = "create" THEN req[r].domain ELSE old[r].domain

\* The domain and the VPN container the new telemt container is configured with.
WantedDomain(r) == IF req[r].domain = Same THEN old[r].domain ELSE req[r].domain
WantsVpn(r) == \/ req[r].vpn = "on"
               \/ req[r].vpn = "keep" /\ old[r] # NoProxy /\ old[r].vpn

\* resolveContainerIp of the VPN container and docker.createContainer, which
\* refuses a name in use.
TeleCreate(r) ==
    LET possible == /\ tele[Id(r)] = NoTele
                    /\ WantsVpn(r) => xray[Id(r)] = "running" IN
    /\ pc[r] = "teleCreate"
    /\ \/ /\ possible
          /\ tele' = [tele EXCEPT ![Id(r)] =
                        [state |-> "created", domain |-> Same, by |-> r]]
          /\ Goto(r, "teleStart")
          /\ UNCHANGED <<disturbed, faults>>
       \/ /\ Refused(possible, "tele")
          /\ Throw(r)
          /\ UNCHANGED tele
    /\ UNCHANGED <<store, disk, xray, req, old>>

\* generateConfigToml, of which the domain is kept, and the container that runs with it.
Configured(r) == [state |-> "running", domain |-> WantedDomain(r), by |-> r]

\* putArchive and start address the container that this request created.
TeleStart(r) ==
    LET possible == tele[Id(r)].by = r /\ tele[Id(r)].state = "created" IN
    /\ pc[r] = "teleStart"
    /\ \/ /\ possible
          /\ tele' = [tele EXCEPT ![Id(r)] = Configured(r)]
          /\ Goto(r, "change")
          /\ UNCHANGED <<disturbed, faults>>
       \/ /\ Refused(possible, "tele")
          /\ Throw(r)
          /\ UNCHANGED tele
    /\ UNCHANGED <<store, disk, xray, req, old>>

\* pauseContainer and unpauseContainer.
DockerPause(r) ==
    LET from == IF Op(r) = "pause" THEN "running" ELSE "paused"
        to == IF Op(r) = "pause" THEN "paused" ELSE "running" IN
    /\ pc[r] = "dockerPause"
    /\ \/ /\ tele[Id(r)].state = from
          /\ tele' = [tele EXCEPT ![Id(r)].state = to]
          /\ Goto(r, "change")
          /\ UNCHANGED <<disturbed, faults>>
       \/ /\ Refused(tele[Id(r)].state = from, "tele")
          /\ Throw(r)
          /\ UNCHANGED tele
    /\ UNCHANGED <<store, disk, xray, req, old>>

\* The catch block of createProxy.
UndoTele(r) ==
    /\ pc[r] = "undoTele"
    /\ RemoveTele(r)
    /\ Goto(r, IF req[r].vpn = "on" THEN "undoXray" ELSE "failed")
    /\ UNCHANGED <<store, disk, xray, req, old>>

UndoXray(r) ==
    /\ pc[r] = "undoXray"
    /\ RemoveXray(r)
    /\ Goto(r, "failed")
    /\ UNCHANGED <<store, disk, tele, req, old>>
-----------------------------------------------------------------------------
(* The store.                                                              *)

\* A mutation: an update that forgets to clear the VPN container's name.
UpdatedKeepsVpn(r) ==
    [store[Id(r)] EXCEPT !.domain = IF req[r].domain = Same THEN @ ELSE req[r].domain,
                         !.vpn = @ \/ req[r].vpn = "on"]

\* The store's updateProxy spreads the updates over the entry as it is by now.
Updated(r) ==
    [store[Id(r)] EXCEPT !.domain = IF req[r].domain = Same THEN @ ELSE req[r].domain,
                         !.vpn = IF req[r].vpn = "keep" THEN @ ELSE req[r].vpn = "on"]

\* What each request makes of its entry.
Entry(r) ==
    CASE Op(r) = "create" ->
           [domain |-> req[r].domain, status |-> "running", vpn |-> req[r].vpn = "on"]
      [] Op(r) = "update" -> Updated(r)
      [] Op(r) \in {"restart", "unpause"} -> [store[Id(r)] EXCEPT !.status = "running"]
      [] Op(r) = "pause" -> [store[Id(r)] EXCEPT !.status = "paused"]
      [] Op(r) = "delete" -> NoProxy

\* addProxy, updateProxy and removeProxy change the cache at once and then wait
\* for the mutex; for an id that has gone the last two return without a save.
Change(r) ==
    /\ pc[r] = "change"
    /\ IF Op(r) = "create" \/ Stored(Id(r))
       THEN /\ store' = [store EXCEPT ![Id(r)] = Entry(r)]
            /\ Goto(r, "save")
       ELSE /\ UNCHANGED store
            /\ Goto(r, CASE Op(r) \in {"pause", "unpause"} -> "done"
                         [] Op(r) = "delete" -> "clean"
                         [] OTHER -> "nginx")
    /\ UNCHANGED <<disk, tele, xray, req, old, disturbed, faults>>

\* persistStore writes the whole cache as it is by then.
Save(r) ==
    /\ pc[r] = "save"
    /\ LockGrants
    /\ \/ /\ disk' = store
          /\ Goto(r, CASE Op(r) \in {"pause", "unpause"} -> "done"
                       [] Op(r) = "delete" -> "clean"
                       [] OTHER -> "nginx")
          /\ UNCHANGED <<disturbed, faults>>
       \/ /\ Fault("save")
          /\ Throw(r)
          /\ UNCHANGED disk
    /\ UNCHANGED <<store, tele, xray, req, old>>

\* deleteProxy: removeStatsHistory (under the mutex) and removeIpHistory.
Clean(r) ==
    /\ pc[r] = "clean"
    /\ LockGrants
    /\ \/ Goto(r, "nginx") /\ UNCHANGED <<disturbed, faults>>
       \/ Fault("save") /\ Throw(r)
    /\ UNCHANGED <<store, disk, tele, xray, req, old>>
-----------------------------------------------------------------------------
(* nginx and the panel's polling.                                          *)

\* updateNginxConfig: inspects, starts nginx if need be, uploads and reloads.
UpdateNginx(r) ==
    /\ pc[r] = "nginx"
    /\ \/ /\ Goto(r, "done")
          /\ UNCHANGED <<disturbed, faults>>
       \/ /\ Fault("nginx")
          /\ Throw(r)
    /\ UNCHANGED <<store, disk, tele, xray, req, old>>

\* A mutation: Docker's state as it is.
DockerStatus(state) == state

\* mapContainerStatus
MappedStatus(state) == CASE state = "running" -> "running"
                         [] state = "paused" -> "paused"
                         [] state = "none" -> "error"
                         [] OTHER -> "stopped"

\* listProxies and getProxy, which the panel polls, overwrite the status in the
\* cached object.
RefreshStatus(i) ==
    /\ Stored(i)
    /\ store[i].status # MappedStatus(tele[i].state)
    /\ store' = [store EXCEPT ![i].status = MappedStatus(tele[i].state)]
    /\ UNCHANGED <<disk, tele, xray, pc, req, old, disturbed, faults>>

\* The process dies and starts again: loadStore reads store.json, the containers
\* and nginx keep running.
Crash ==
    /\ Fault("crash")
    /\ store' = disk
    /\ pc' = [r \in Requests |-> IF InFlight(r) THEN "dead" ELSE pc[r]]
    /\ disturbed' = disturbed \cup {Id(r) : r \in {q \in Requests : InFlight(q)}}
    /\ UNCHANGED <<disk, tele, xray, req, old>>

Next == \/ Crash
        \/ \E i \in Ids : RefreshStatus(i)
        \/ \E r \in Requests :
             \/ BeginCreate(r) \/ BeginUpdate(r) \/ BeginSimple(r)
             \/ XrayFetch(r) \/ XrayCreate(r) \/ XrayStart(r) \/ XrayRemove(r)
             \/ TeleRemove(r) \/ TeleCreate(r) \/ TeleStart(r) \/ DockerPause(r)
             \/ UndoTele(r) \/ UndoXray(r)
             \/ Change(r) \/ Save(r) \/ Clean(r) \/ UpdateNginx(r)

Spec == Init /\ [][Next]_vars
-----------------------------------------------------------------------------
(* Properties of the states in which nothing more happens by itself.       *)

Reachable(i) == tele[i].state \in {"running", "paused"}

\* A request at the mutex of the source stays there.
Quiet == \A r \in Requests : InFlight(r) => pc[r] \in {"save", "clean"} /\ ~LockGrants

Calm(i) == Quiet /\ i \notin disturbed

\* Requests about different proxies may interleave in any way: once they ended,
\* every container belongs to a stored proxy.  That is what the rollback of
\* createProxy and the removals of deleteProxy (proxy.ts) are for.
ContainersAreStored ==
    \A i \in Ids : Calm(i) /\ (tele[i] # NoTele \/ xray[i] # "none") => Stored(i)

\* ... a container that runs is that of its entry, and so of the link given to users:
\* it has the domain the entry names, and its VPN container if it has one.
ContainersMatchStore ==
    \A i \in Ids : Calm(i) /\ Stored(i) /\ Reachable(i) =>
        /\ tele[i].domain = store[i].domain
        /\ store[i].vpn => xray[i] = "running"
-----------------------------------------------------------------------------
(* The requests about a proxy that is not disturbed take place at once:    *)
(* ManagedProxy.  While one is under way the proxy counts as it was.       *)

Without(what) == [is |-> what, domain |-> Same, vpn |-> FALSE]
With(domain, vpn) == [is |-> "there", domain |-> domain, vpn |-> vpn]
Named(entry) == IF entry = NoProxy THEN Without("none") ELSE With(entry.domain, entry.vpn)

\* What a proxy can be.
ProxySettings == {With(d, v) : d \in Domains, v \in BOOLEAN}

\* What a request asks for.
Target(r) == IF Op(r) = "delete" THEN Without("none") ELSE With(WantedDomain(r), WantsVpn(r))

\* No container is left of a proxy that is gone, and those of one that is there are
\* of its entry.
Whole(i) ==
    /\ ~Stored(i) => tele[i] = NoTele /\ xray[i] = "none"
    /\ Stored(i) /\ Reachable(i) => /\ tele[i].domain = store[i].domain
                                    /\ store[i].vpn => xray[i] = "running"
    /\ Stored(i) /\ ~store[i].vpn => xray[i] = "none"

Busy(i) == \E r \in Requests : InFlight(r) /\ Id(r) = i
RequestOf(i) == CHOOSE r \in Requests : InFlight(r) /\ Id(r) = i

\* What there is of a proxy, given what a file or the cache has of it.
Shown(i, entry) == CASE i \in disturbed -> Without("unknown")
                     [] i \notin disturbed /\ Busy(i) -> Named(old[RequestOf(i)])
                     [] OTHER -> IF Whole(i) THEN Named(entry) ELSE Without("torn")

\* What the node has of each proxy, what it would have after a restart, and what each
\* is to become.
ProxyOf == [i \in Ids |-> Shown(i, store[i])]
DurableOf == [i \in Ids |-> Shown(i, disk[i])]
AskedOf == [i \in Ids |-> IF i \notin disturbed /\ Busy(i) THEN Target(RequestOf(i))
                          ELSE Without("nothing")]

Managed == INSTANCE ManagedProxy WITH
    Settings <- ProxySettings,
    None <- Without("none"), Unknown <- Without("unknown"), Nothing <- Without("nothing"),
    proxy <- ProxyOf, durable <- DurableOf, asked <- AskedOf

\* Whatever requests about other proxies, polls and restarts run beside, a proxy is what
\* its last answered request made of it (services/proxy.ts).
ProxiesAreManaged == Managed!Spec
=============================================================================
