----------------------------- MODULE NginxRoutes -----------------------------
(***************************************************************************)
(* updateNginxConfig of services/nginx.ts, lines 252-291, as several       *)
(* requests run it at once while others change what it reads: the live     *)
(* array of proxies, whose objects it keeps across its awaits, and the     *)
(* containers.  Requests are those of services/proxy.ts, reduced to what   *)
(* they change before they call updateNginxConfig; saves return (see       *)
(* AsyncMutex for when they do not).                                       *)
(*                                                                         *)
(* updateProxy of the store replaces the object in the array (ver counts   *)
(* the replacements), listProxies writes the status into it.               *)
(***************************************************************************)
EXTENDS NginxConfig, Sequences

CONSTANTS Ids,         \* proxy ids
          Domains,     \* fake-TLS domains
          Ports,       \* Shared and dedicated ports
          Limits,      \* values of maxConnections, 0 for none
          Requests,    \* the HTTP calls of one run
          Ops,         \* the operations these calls may be
          MaxInitial,  \* bound: proxies in the store at the start
          MaxFaults    \* bound: failures of Docker in an update of nginx

OpKinds == {"create", "edit", "rebuild", "restart", "delete", "pause", "unpause"}

ASSUME OpsAssumption == Ops \subseteq OpKinds
ASSUME IdsAssumption == \A i \in Ids : i \notin Nat
ASSUME PortsAssumption == Shared \in Ports
ASSUME LimitsAssumption == Limits \subseteq Nat
ASSUME BoundsAssumption == MaxInitial \in Nat /\ MaxFaults \in Nat

VARIABLES
    list,     \* storeCache.data.proxies
    box,      \* state of each telemt container
    file,     \* /etc/nginx/nginx.conf
    force,    \* the configuration nginx runs with
    pc,       \* the await each request stands at
    ask,      \* what each request asks for
    at,       \* how far the loop of a request's update is in the array
    alive,    \* the objects it kept
    fresh,    \* ghost: requests that began updating nginx after the last change
    freshFile, freshForce,   \* ghosts: so did the writer of file, of force
    faults

ghosts == <<fresh, freshFile, freshForce>>
vars == <<list, box, file, force, pc, ask, at, alive, fresh, freshFile, freshForce, faults>>

Statuses == {"running", "paused", "stopped", "error"}
Objects == [id : Ids, domain : Domains, port : Ports, limit : Limits,
            status : Statuses, ver : Nat]
Asks == [op : OpKinds, id : Ids, domain : Domains, port : Ports, limit : Limits]
PCs == {"idle", "rebuild", "splice", "inspect", "reload", "done", "failed"}

TypeOK == /\ list \in Seq(Objects)
          /\ box \in [Ids -> {"none", "running", "paused"}]
          /\ pc \in [Requests -> PCs]
          /\ \A r \in Requests : pc[r] # "idle" => ask[r] \in Asks
          /\ at \in [Requests -> Nat]
          /\ \A r \in Requests : /\ DOMAIN alive[r] \subseteq 1..at[r]
                                /\ \A k \in DOMAIN alive[r] : alive[r][k] \in Objects
          /\ fresh \subseteq Requests
          /\ freshFile \in BOOLEAN
          /\ freshForce \in BOOLEAN
          /\ faults \in 0..MaxFaults

UniqueSharedDomains(s) ==
    \A j, k \in DOMAIN s : s[j].port = Shared /\ s[k].port = Shared /\ s[j].domain = s[k].domain
                             => j = k

\* A node after its start: the stored proxies run and nginx has their routes.
Init == /\ \E n \in 0..MaxInitial :
             list \in [1..n -> [id : Ids, domain : Domains, port : Ports, limit : Limits,
                                status : {"running"}, ver : {0}]]
        /\ Unique([k \in DOMAIN list |-> list[k].id])
        /\ UniqueSharedDomains(list)
        /\ box = [i \in Ids |-> IF \E k \in DOMAIN list : list[k].id = i
                                THEN "running" ELSE "none"]
        /\ file = Generate(list)
        /\ force = file
        /\ pc = [r \in Requests |-> "idle"]
        /\ ask = [r \in Requests |-> "none"]
        /\ at = [r \in Requests |-> 0]
        /\ alive = [r \in Requests |-> <<>>]
        /\ fresh = {}
        /\ freshFile = TRUE
        /\ freshForce = TRUE
        /\ faults = 0

Places(i) == {k \in DOMAIN list : list[k].id = i}
Stored(i) == Places(i) # {}
Place(i) == CHOOSE k \in Places(i) : TRUE
Goto(r, p) == pc' = [pc EXCEPT ![r] = p]

\* Ghost: something an update reads has changed, before the requests in `begun`
\* began theirs.
Changed(begun) == /\ fresh' = begun
                  /\ freshFile' = FALSE
                  /\ freshForce' = FALSE
-----------------------------------------------------------------------------
(* The requests, up to their update of nginx.                              *)

Asking(r, a) == /\ pc[r] = "idle"
                /\ a.op \in Ops
                /\ ask' = [ask EXCEPT ![r] = a]

\* Store.updateProxy: a new object in the place of the old one.
Replaced(i, changes) ==
    [list EXCEPT ![Place(i)] = [changes EXCEPT !.ver = list[Place(i)].ver + 1]]

\* createProxy: the container runs, then the store has the proxy.
Create(r) ==
    \E i \in Ids, d \in Domains, p \in Ports, l \in Limits :
        /\ ~Stored(i) /\ box[i] = "none"
        /\ \A q \in Requests : pc[q] # "idle" => ask[q].id # i
        /\ \A k \in DOMAIN list : list[k].domain # d
        /\ Asking(r, [op |-> "create", id |-> i, domain |-> d, port |-> p, limit |-> l])
        /\ box' = [box EXCEPT ![i] = "running"]
        /\ list' = Append(list, [id |-> i, domain |-> d, port |-> p, limit |-> l,
                                 status |-> "running", ver |-> 0])
        /\ Goto(r, "inspect")
        /\ Changed({r})
        /\ UNCHANGED <<file, force, at, alive, faults>>

\* updateProxy of the limit alone, which leaves the container running.
Edit(r) ==
    \E i \in {j \in Ids : Stored(j)}, l \in Limits :
        LET old == list[Place(i)] IN
        /\ Asking(r, [op |-> "edit", id |-> i, domain |-> old.domain,
                      port |-> old.port, limit |-> l])
        /\ list' = Replaced(i, [old EXCEPT !.limit = l])
        /\ Goto(r, "inspect")
        /\ Changed({r})
        /\ UNCHANGED <<box, file, force, at, alive, faults>>

\* updateProxy of the domain or the port, and restartProxy: the container goes ...
Remove(r) ==
    \E i \in {j \in Ids : Stored(j)}, op \in {"rebuild", "restart", "delete"},
       d \in Domains, p \in Ports :
        LET old == list[Place(i)] IN
        /\ op # "rebuild" => d = old.domain /\ p = old.port
        /\ Asking(r, [op |-> op, id |-> i, domain |-> d, port |-> p, limit |-> old.limit])
        /\ box' = [box EXCEPT ![i] = "none"]
        /\ Goto(r, IF op = "delete" THEN "splice" ELSE "rebuild")
        /\ Changed({})
        /\ UNCHANGED <<list, file, force, at, alive, faults>>

\* ... and comes back, then the store gets the updates, the status among them
\* only for a restart.
Rebuild(r) ==
    LET i == ask[r].id IN
    /\ pc[r] = "rebuild"
    /\ box[i] = "none"
    /\ box' = [box EXCEPT ![i] = "running"]
    /\ list' = IF ~Stored(i) THEN list
               ELSE Replaced(i, [list[Place(i)] EXCEPT
                      !.domain = IF ask[r].op = "rebuild" THEN ask[r].domain ELSE @,
                      !.port = IF ask[r].op = "rebuild" THEN ask[r].port ELSE @,
                      !.status = IF ask[r].op = "restart" THEN "running" ELSE @])
    /\ Goto(r, "inspect")
    /\ Changed({r})
    /\ UNCHANGED <<file, force, ask, at, alive, faults>>

\* Another request has created the container first: the name is in use.
RebuildFails(r) ==
    /\ pc[r] = "rebuild"
    /\ box[ask[r].id] # "none"
    /\ Goto(r, "failed")
    /\ UNCHANGED <<list, box, file, force, ask, at, alive, ghosts, faults>>

\* deleteProxy: the store's array closes up.
Splice(r) ==
    LET i == ask[r].id IN
    /\ pc[r] = "splice"
    /\ list' = IF Stored(i) THEN SubSeq(list, 1, Place(i) - 1)
                                   \o SubSeq(list, Place(i) + 1, Len(list))
               ELSE list
    /\ Goto(r, "inspect")
    /\ Changed({r})
    /\ UNCHANGED <<box, file, force, ask, at, alive, faults>>

\* pauseProxy and unpauseProxy, which do not touch nginx.
Pause(r) ==
    \E i \in {j \in Ids : Stored(j)}, op \in {"pause", "unpause"} :
        LET old == list[Place(i)]
            to == IF op = "pause" THEN "paused" ELSE "running" IN
        /\ box[i] = IF op = "pause" THEN "running" ELSE "paused"
        /\ Asking(r, [op |-> op, id |-> i, domain |-> old.domain,
                      port |-> old.port, limit |-> old.limit])
        /\ box' = [box EXCEPT ![i] = to]
        /\ list' = Replaced(i, [old EXCEPT !.status = to])
        /\ Goto(r, "done")
        /\ Changed({})
        /\ UNCHANGED <<file, force, at, alive, faults>>

\* A mutation: Docker's state as it is.
DockerStatus(state) == state

\* listProxies and getProxy: the status of the container goes into the object.
MappedStatus(state) == IF state = "none" THEN "error" ELSE state

RefreshStatus(k) ==
    /\ k \in DOMAIN list
    /\ list[k].status # MappedStatus(box[list[k].id])
    /\ list' = [list EXCEPT ![k].status = MappedStatus(box[list[k].id])]
    /\ Changed({})
    /\ UNCHANGED <<box, file, force, pc, ask, at, alive, faults>>
-----------------------------------------------------------------------------
(* updateNginxConfig.                                                      *)

\* A mutation: a loop that skips the last proxy.
LoopEndsEarly(r) == at[r] + 1 >= Len(list)

LoopEnds(r) == at[r] >= Len(list)

\* aliveProxies.push(p), with the place p had when the loop came by.
Kept(objects, k, p) ==
    [j \in DOMAIN objects \cup {k} |-> IF j = k THEN p ELSE objects[j]]

\* One turn of `for (const p of proxies)` over the live array.
Inspect(r) ==
    /\ pc[r] = "inspect"
    /\ ~LoopEnds(r)
    /\ at' = [at EXCEPT ![r] = @ + 1]
    /\ LET p == list[at[r] + 1] IN
       alive' = [alive EXCEPT ![r] = IF box[p.id] = "none" THEN @ ELSE Kept(@, at[r] + 1, p)]
    /\ UNCHANGED <<list, box, file, force, pc, ask, ghosts, faults>>

\* The object as it is by now: a refresh writes into it as long as it is the one
\* in the array.
ByNow(p) == IF Stored(p.id) /\ list[Place(p.id)].ver = p.ver THEN list[Place(p.id)] ELSE p

\* The proxies whose container has an address, and the upload of the file.
ReachableProxies(r) ==
    [k \in {j \in DOMAIN alive[r] : box[alive[r][j].id] # "none"} |-> ByNow(alive[r][k])]

Upload(r) ==
    /\ pc[r] = "inspect"
    /\ LoopEnds(r)
    /\ file' = Generate(ReachableProxies(r))
    /\ freshFile' = (r \in fresh)
    /\ Goto(r, "reload")
    /\ alive' = [alive EXCEPT ![r] = <<>>]
    /\ at' = [at EXCEPT ![r] = 0]
    /\ UNCHANGED <<list, box, force, ask, fresh, freshForce, faults>>

\* `nginx -s reload`: a file that nginx refuses leaves the old configuration in
\* force, and nobody reads the exit code.
Reload(r) ==
    /\ pc[r] = "reload"
    /\ IF Accepted(file)
       THEN /\ force' = file
            /\ freshForce' = freshFile
       ELSE UNCHANGED <<force, freshForce>>
    /\ Goto(r, "done")
    /\ UNCHANGED <<list, box, file, ask, at, alive, fresh, freshFile, faults>>

\* Docker refuses the upload or the exec: the caller gets the error, createProxy
\* takes its container back and leaves its proxy in the store.
UpdateFails(r) ==
    /\ pc[r] \in {"inspect", "reload"}
    /\ faults < MaxFaults
    /\ faults' = faults + 1
    /\ IF ask[r].op = "create"
       THEN /\ box' = [box EXCEPT ![ask[r].id] = "none"]
            /\ Changed({})
       ELSE UNCHANGED <<box, ghosts>>
    /\ Goto(r, "failed")
    /\ alive' = [alive EXCEPT ![r] = <<>>]
    /\ at' = [at EXCEPT ![r] = 0]
    /\ UNCHANGED <<list, file, force, ask>>

Next == \/ \E r \in Requests :
             \/ Create(r) \/ Edit(r) \/ Remove(r) \/ Rebuild(r) \/ RebuildFails(r)
             \/ Splice(r) \/ Pause(r)
             \/ Inspect(r) \/ Upload(r) \/ Reload(r) \/ UpdateFails(r)
        \/ \E k \in 1..Len(list) : RefreshStatus(k)

Spec == Init /\ [][Next]_vars
-----------------------------------------------------------------------------
(* What users rely on.                                                     *)

Served(p) == p.status = "running" /\ box[p.id] # "none"

\* Nobody else has the proxy's domain, or its dedicated port.
OwnEntry(p) == \A k \in DOMAIN list :
    list[k].id # p.id => ~(list[k].port = p.port /\ (p.port = Shared => list[k].domain = p.domain))

\* An update of nginx that begins after the last change, whatever stale updates
\* end before it, leads the link of every running proxy to its own container with
\* its own limit, and the domain of any other proxy to none.
FreshConfigIsRight ==
    freshForce => \A k \in DOMAIN list :
        LET p == list[k] IN
        OwnEntry(p) => Route(force, p) = IF Served(p) THEN [to |-> p.id, limit |-> p.limit]
                                         ELSE [to |-> Fallback, limit |-> 0]

\* nginx refuses a file of such an update only if two proxies share a domain.
RefusedMeansDuplicate ==
    freshFile /\ UniqueSharedDomains(list) => Accepted(file)
=============================================================================
