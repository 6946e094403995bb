------------------------------ MODULE NodeBoot ------------------------------
(***************************************************************************)
(* The start of a service node: bootstrap of service-node/src/index.ts with *)
(* the network, image and VPN steps it awaits (docker.ts, xray.ts) and      *)
(* ensureNginxContainer and updateNginxConfig of nginx.ts, which a request  *)
(* may run beside it: HTTP is served before nginx is ready.                *)
(*                                                                         *)
(* Two users run ensureNginxContainer, "boot" and "req"; `at` is the Docker *)
(* call each waits for.  Docker is external: a call is one step.            *)
(***************************************************************************)
EXTENDS Naturals

CONSTANTS MaxFaults,  \* bound: failures of Docker and deaths of the process
          None        \* no caller

ASSUME MaxFaultsAssumption == MaxFaults \in Nat
ASSUME NoneAssumption == None \notin {"boot", "req"}

VARIABLES
    boot,     \* how far bootstrap is
    user,     \* the callers of ensureNginxContainer
    nginx,    \* the nginx container
    stored,   \* there are proxies in storeCache
    faults,   \* failures so far
    cause     \* ghost: something has hindered this start

vars == <<boot, user, nginx, stored, faults, cause>>

Users == {"boot", "req"}
Stages == {"down", "network", "reconnect", "image", "xray", "nginx", "restore", "up", "degraded"}
Ats == {"idle", "inspect", "startOld", "remove", "create", "put", "start", "config"}
Confs == {"stock", "empty", "proxies"}
Attempts == 3
NoNginx == [state |-> "none", by |-> None, conf |-> "stock"]

TypeOK ==
    /\ boot \in Stages
    /\ user \in [Users -> [at: Ats, update: BOOLEAN, tries: 1..Attempts]]
    /\ nginx \in [state: {"none", "bridge", "created", "running"},
                  by: Users \cup {None}, conf: Confs]
    /\ stored \in BOOLEAN
    /\ faults \in 0..MaxFaults
    /\ cause \in BOOLEAN

NoCall == [at |-> "idle", update |-> FALSE, tries |-> 1]

\* A fresh machine, one with the nginx of an earlier version on a bridge network,
\* or one with the container as this version made it.
Init ==
    /\ boot = "down"
    /\ user = [u \in Users |-> NoCall]
    /\ nginx \in {NoNginx, [NoNginx EXCEPT !.state = "bridge"],
                  [state |-> "created", by |-> None, conf |-> "proxies"],
                  [state |-> "running", by |-> None, conf |-> "proxies"]}
    /\ stored \in BOOLEAN
    /\ faults = 0
    /\ cause = FALSE

Fault == faults < MaxFaults /\ faults' = faults + 1
Busy == {u \in Users : user[u].at # "idle"}
Listening == boot \notin {"down", "network"}
-----------------------------------------------------------------------------
(* bootstrap.                                                              *)

\* A mutation: attempts are counted from zero.
CallFromZero(u, update) == user' = [user EXCEPT ![u] = [at |-> "inspect", update |-> update, tries |-> 0]]

Call(u, update) == user' = [user EXCEPT ![u] = [at |-> "inspect", update |-> update, tries |-> 1]]

\* validateConfig and warmupCaches; a container restarts the process whenever it exits.
StartProcess == /\ boot = "down" /\ boot' = "network"
                /\ cause' = FALSE
                /\ UNCHANGED <<user, nginx, stored, faults>>

\* ensureNetwork: without the network the process exits, before it listens.
EnsureNetwork == /\ boot = "network"
                 /\ \/ boot' = "reconnect" /\ UNCHANGED faults
                    \/ boot' = "down" /\ Fault
                 /\ UNCHANGED <<user, nginx, stored, cause>>

\* Docker's list of containers fails, or the image cannot be built: an error is
\* logged, and the rest of the initialisation never runs.
Degrades == boot' = "degraded" /\ Fault /\ cause' = TRUE

\* A container that cannot be connected is skipped.
Reconnect == /\ boot = "reconnect"
             /\ \/ boot' = "image" /\ UNCHANGED <<faults, cause>>
                \/ Degrades
             /\ UNCHANGED <<user, nginx, stored>>

EnsureImage == /\ boot = "image"
               /\ \/ boot' = "xray" /\ UNCHANGED <<faults, cause>>
                  \/ Degrades
               /\ UNCHANGED <<user, nginx, stored>>

\* ensureXrayContainersRunning catches every error.
EnsureXray == /\ boot = "xray"
              /\ boot' = "nginx"
              /\ Call("boot", FALSE)
              /\ cause' = (cause \/ Busy # {})
              /\ UNCHANGED <<nginx, stored, faults>>

\* SIGKILL, or the exit at SIGTERM (see JsonStore): what the containers are stays.
Die == /\ boot # "down" /\ Fault
       /\ boot' = "down"
       /\ user' = [u \in Users |-> NoCall]
       /\ nginx' = [nginx EXCEPT !.by = None]
       /\ UNCHANGED <<stored, cause>>
-----------------------------------------------------------------------------
(* ensureNginxContainer and the upload of updateNginxConfig.               *)

\* A request that ends with an update of nginx: it created or deleted a proxy, or
\* changed the blacklist.
RequestUpdate == /\ Listening /\ user["req"].at = "idle"
                 /\ Call("req", TRUE)
                 /\ cause' = (cause \/ user["boot"].at # "idle")
                 /\ stored' \in BOOLEAN
                 /\ UNCHANGED <<boot, nginx, faults>>

Goto(u, a) == user' = [user EXCEPT ![u].at = a]

\* The call of boot goes on with the stored stored, if there are any.
Ended(u) ==
    IF u # "boot" THEN user' = [user EXCEPT ![u] = NoCall] /\ UNCHANGED boot
    ELSE IF boot = "nginx" /\ stored THEN Call(u, TRUE) /\ boot' = "restore"
    ELSE user' = [user EXCEPT ![u] = NoCall] /\ boot' = "up"

Throws(u) == /\ user' = [user EXCEPT ![u] = NoCall]
             /\ boot' = IF u = "boot" THEN "degraded" ELSE boot

Ensured(u) == IF user[u].update THEN Goto(u, "config") /\ UNCHANGED boot ELSE Ended(u)

\* A mutation: a container that is not running is made anew.
InspectRunning(u) ==
    /\ user[u].at = "inspect"
    /\ IF nginx.state = "running" THEN Ensured(u)
       ELSE Goto(u, IF nginx.state = "bridge" THEN "remove" ELSE "create") /\ UNCHANGED boot
    /\ UNCHANGED <<nginx, stored, faults, cause>>

\* Whatever throws between inspect and remove is taken for "no container yet".
Inspect(u) ==
    /\ user[u].at = "inspect"
    /\ \/ /\ IF nginx.state = "running" THEN Ensured(u)
             ELSE /\ Goto(u, CASE nginx.state = "created" -> "startOld"
                               [] nginx.state = "bridge"  -> "remove"
                               [] OTHER                   -> "create")
                  /\ UNCHANGED boot
          /\ UNCHANGED <<faults, cause>>
       \/ Fault /\ cause' = TRUE /\ Goto(u, "create") /\ UNCHANGED boot
    /\ UNCHANGED <<nginx, stored>>

\* start answers 304, an error of dockerode, for a container that runs.
StartOld(u) ==
    /\ user[u].at = "startOld"
    /\ \/ /\ nginx.state = "created"
          /\ nginx' = [nginx EXCEPT !.state = "running"]
          /\ Ensured(u) /\ UNCHANGED <<faults, cause>>
       \/ /\ nginx.state # "created" /\ Goto(u, "create")
          /\ UNCHANGED <<boot, nginx, faults, cause>>
       \/ Fault /\ cause' = TRUE /\ Goto(u, "create") /\ UNCHANGED <<boot, nginx>>
    /\ UNCHANGED stored

\* stop, remove by name, and three seconds.
RemoveOld(u) ==
    /\ user[u].at = "remove"
    /\ \/ nginx' = NoNginx /\ UNCHANGED <<faults, cause>>
       \/ Fault /\ cause' = TRUE /\ UNCHANGED nginx
    /\ Goto(u, "create")
    /\ UNCHANGED <<boot, stored>>

\* pullImage and createContainer: a name that is taken is an error.
CreateNginx(u) ==
    /\ user[u].at = "create"
    /\ \/ /\ nginx.state = "none"
          /\ nginx' = [state |-> "created", by |-> u, conf |-> "stock"]
          /\ Goto(u, "put") /\ UNCHANGED <<boot, faults, cause>>
       \/ nginx.state # "none" /\ Throws(u) /\ UNCHANGED <<nginx, faults, cause>>
       \/ Fault /\ cause' = TRUE /\ Throws(u) /\ UNCHANGED nginx
    /\ UNCHANGED stored

\* The container this call created, by its id.
PutInitial(u) ==
    /\ user[u].at = "put"
    /\ \/ /\ nginx.by = u
          /\ nginx' = [nginx EXCEPT !.conf = "empty"]
          /\ Goto(u, "start") /\ UNCHANGED <<boot, faults, cause>>
       \/ nginx.by # u /\ Throws(u) /\ UNCHANGED <<nginx, faults, cause>>
       \/ Fault /\ cause' = TRUE /\ Throws(u) /\ UNCHANGED nginx
    /\ UNCHANGED stored

\* Three attempts while the port is still taken (500); any other error is thrown.
StartNew(u) ==
    /\ user[u].at = "start"
    /\ \/ /\ nginx.by = u /\ nginx.state = "created"
          /\ \/ nginx' = [nginx EXCEPT !.state = "running"] /\ Ensured(u) /\ UNCHANGED cause
             \/ /\ user[u].tries < Attempts
                /\ user' = [user EXCEPT ![u].tries = @ + 1]
                /\ UNCHANGED <<boot, nginx, cause>>
             \/ user[u].tries = Attempts /\ cause' = TRUE /\ Throws(u) /\ UNCHANGED nginx
       \/ /\ nginx.by # u \/ nginx.state = "running"
          /\ Throws(u) /\ UNCHANGED <<nginx, cause>>
    /\ UNCHANGED <<stored, faults>>

\* putArchive and the reload, which needs a container that runs.
PutConfig(u) ==
    /\ user[u].at = "config"
    /\ \/ /\ nginx.state = "running"
          /\ nginx' = [nginx EXCEPT !.conf = "proxies"]
          /\ Ended(u) /\ UNCHANGED <<faults, cause>>
       \/ nginx.state # "running" /\ Throws(u) /\ UNCHANGED <<nginx, faults, cause>>
       \/ Fault /\ cause' = TRUE /\ Throws(u) /\ UNCHANGED nginx
    /\ UNCHANGED stored

Next == \/ StartProcess \/ EnsureNetwork \/ Reconnect \/ EnsureImage \/ EnsureXray
        \/ Die \/ RequestUpdate
        \/ \E u \in Users : \/ Inspect(u) \/ StartOld(u) \/ RemoveOld(u) \/ CreateNginx(u)
                            \/ PutInitial(u) \/ StartNew(u) \/ PutConfig(u)

Spec == Init /\ [][Next]_vars
-----------------------------------------------------------------------------
(* The initialisation in the background gives up, and with it the log       *)
(* watcher and the statistics until the next start, only when Docker failed *)
(* in this start, the port was held three times or a request ran            *)
(* ensureNginxContainer beside it: whatever an earlier start or an earlier  *)
(* version left half done is taken up, and in the end nginx runs.           *)
StartsUnlessHindered == /\ boot = "degraded" => cause
                        /\ boot = "up" /\ ~cause => nginx.state = "running"
=============================================================================
