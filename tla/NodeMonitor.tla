---------------------------- MODULE NodeMonitor ----------------------------
(***************************************************************************)
(* Nodes watched over SSH: the metrics and NetBird routes of               *)
(* panel-backend/src/routes/nodes-monitoring.ts with the readings of       *)
(* services/ssh/metrics.ts and the commands of services/netbird/index.ts,  *)
(* the tables of db/migrations.ts they write, the deletion of a node, and  *)
(* the page NodeDetail.tsx of one node, which asks for metrics on a click  *)
(* and on a timer.                                                         *)
(*                                                                         *)
(* `pc` names the await a request of the panel stands at.  The server of a *)
(* node and PostgreSQL are external: one statement is one step.            *)
(***************************************************************************)
EXTENDS Naturals, FiniteSets

CONSTANTS Nodes,      \* rows of the table nodes
          Page,       \* the node whose page is open
          Requests,   \* the requests of a run
          Logins,     \* SSH credentials the operator may type
          Sources,    \* readings of one collection: cpu, memory, disks, containers
          Limit,      \* points kept per node: 1000 in the code
          MaxFaults,  \* bound: failures in a run
          None        \* no credentials, no node

ASSUME PageAssumption == Page \in Nodes
ASSUME LimitAssumption == Limit \in Nat \ {0}
ASSUME MaxFaultsAssumption == MaxFaults \in Nat
ASSUME NoneAssumption == None \notin Nodes \cup Logins

VARIABLES
    nodes,    \* nodes that are in the table
    points,   \* rows of node_metrics_history
    cached,   \* nodes with a row in netbird_status: it says connected
    netbird,  \* the client on the server of each node
    pc,       \* the await each request stands at
    node,     \* the node it is about
    got,      \* its readings that have come
    page,     \* the page: credentials in the form, those of the timer, form shown
    faults,   \* failures so far
    saved,    \* ghost: the points inserted for each node so far
    owed,     \* ghost: nodes whose last trim failed
    hurt      \* ghost: nodes whose NetBird requests failed or overlapped

vars == <<nodes, points, cached, netbird, pc, node, got, page, faults, saved, owed, hurt>>

Settled == {"idle", "done", "failed"}
MetricAwaits == {"collect", "insert", "trim", "query"}
InstallAwaits == {"package", "up", "status", "save"}
UninstallAwaits == {"down", "remove", "delete"}
Points == [node: Nodes, at: Nat, by: Requests]

TypeOK == /\ nodes \subseteq Nodes
          /\ points \subseteq Points
          /\ cached \subseteq Nodes
          /\ netbird \in [Nodes -> {"absent", "installed", "connected"}]
          /\ pc \in [Requests -> Settled \cup MetricAwaits \cup InstallAwaits \cup UninstallAwaits]
          /\ node \in [Requests -> Nodes \cup {None}]
          /\ got \in [Requests -> SUBSET Sources]
          /\ page \in [form: Logins, timer: Logins \cup {None}, open: BOOLEAN,
                       waits: SUBSET Requests]
          /\ faults \in 0..MaxFaults
          /\ saved \in [Nodes -> Nat]
          /\ owed \subseteq Nodes
          /\ hurt \subseteq Nodes

Init == /\ nodes = Nodes
        /\ points = {}
        /\ cached = {}
        /\ netbird = [n \in Nodes |-> "absent"]
        /\ pc = [r \in Requests |-> "idle"]
        /\ node = [r \in Requests |-> None]
        /\ got = [r \in Requests |-> {}]
        /\ page \in [form: Logins, timer: {None}, open: {TRUE}, waits: {{}}]
        /\ faults = 0
        /\ saved = [n \in Nodes |-> 0]
        /\ owed = {}
        /\ hurt = {}

tables == <<nodes, points, cached>>
ghosts == <<saved, owed, hurt>>
Fault == faults < MaxFaults /\ faults' = faults + 1
Goto(r, p) == pc' = [pc EXCEPT ![r] = p]
At(awaits, n) == {r \in Requests : pc[r] \in awaits /\ node[r] = n}
PointsOf(n) == {p \in points : p.node = n}
-----------------------------------------------------------------------------
(* Collecting the metrics of a node and saving a point.                    *)

Ask(r) == /\ pc[r] = "idle" /\ Goto(r, "collect")
          /\ got' = [got EXCEPT ![r] = {}]

\* Another page or a script asks for the metrics of any node.
AskMetrics(r, n) == /\ Ask(r)
                    /\ node' = [node EXCEPT ![r] = n]
                    /\ UNCHANGED <<tables, netbird, page, faults, ghosts>>

\* A reading whose command failed or printed nothing counts as zeros: only a
\* connection that breaks or a time-out rejects.
Reading(r, s) == /\ pc[r] = "collect" /\ s \notin got[r]
                 /\ got' = [got EXCEPT ![r] = @ \cup {s}]
                 /\ UNCHANGED <<tables, netbird, pc, node, page, faults, ghosts>>

\* A mutation: whatever has come is saved.
CollectedSome(r) == /\ pc[r] = "collect" /\ got[r] # {} /\ Goto(r, "insert")
                    /\ UNCHANGED <<tables, netbird, node, got, page, faults, ghosts>>

Collected(r) == /\ pc[r] = "collect" /\ got[r] = Sources /\ Goto(r, "insert")
                /\ UNCHANGED <<tables, netbird, node, got, page, faults, ghosts>>

\* Promise.all rejects with the first: the answer is 500 and nothing is saved.
Rejected(r) == /\ pc[r] = "collect" /\ got[r] # Sources /\ Fault /\ Goto(r, "failed")
               /\ UNCHANGED <<tables, netbird, node, got, page, ghosts>>

\* An insert for a node that is gone violates the foreign key: caught and logged.
Insert(r) == LET n == node[r] IN
    /\ pc[r] = "insert"
    /\ \/ /\ n \in nodes
          /\ points' = points \cup {[node |-> n, at |-> saved[n] + 1, by |-> r]}
          /\ saved' = [saved EXCEPT ![n] = @ + 1]
          /\ Goto(r, "trim")
          /\ UNCHANGED faults
       \/ /\ (n \notin nodes /\ UNCHANGED faults) \/ Fault
          /\ Goto(r, "query")
          /\ UNCHANGED <<points, saved>>
    /\ UNCHANGED <<nodes, cached, netbird, node, got, page, owed, hurt>>

\* A mutation: the newest points of the table, whatever node they are of.
KeptOfAll(n) == {p \in points : Cardinality({q \in points : q.at > p.at}) < Limit}

\* ORDER BY timestamp DESC LIMIT 1000, of this node.
Kept(n) == {p \in PointsOf(n) : Cardinality({q \in PointsOf(n) : q.at > p.at}) < Limit}

Trim(r) ==
    /\ pc[r] = "trim"
    /\ \/ /\ points' = {p \in points : p.node # node[r]} \cup (Kept(node[r]) \cap PointsOf(node[r]))
          /\ owed' = owed \ {node[r]}
          /\ UNCHANGED faults
       \/ /\ Fault
          /\ owed' = owed \cup {node[r]}
          /\ UNCHANGED points
    /\ Goto(r, "query")
    /\ UNCHANGED <<nodes, cached, netbird, node, got, page, saved, hurt>>

\* The history is read after the point was saved, then the answer is sent.
Query(r) == /\ pc[r] = "query"
            /\ \/ Goto(r, "done") /\ UNCHANGED faults
               \/ Fault /\ Goto(r, "failed")
            /\ UNCHANGED <<tables, netbird, node, got, page, ghosts>>
-----------------------------------------------------------------------------
(* NetBird.                                                                *)

\* One NetBird request of a node while another runs: neither is bound to leave
\* the row and the server in agreement.
Overlap(n) == hurt' = IF At(InstallAwaits \cup UninstallAwaits, n) # {} THEN hurt \cup {n} ELSE hurt

AskNetBird(r, n, first) ==
    /\ pc[r] = "idle" /\ Goto(r, first)
    /\ node' = [node EXCEPT ![r] = n]
    /\ Overlap(n)
    /\ UNCHANGED <<tables, netbird, got, page, faults, saved, owed>>

\* An answer of `success: false`, or an exception: nothing is written.
Stop(r) == /\ Fault /\ Goto(r, "failed")
           /\ hurt' = hurt \cup {node[r]}

Server(r, state) == netbird' = [netbird EXCEPT ![node[r]] = state]

Package(r) == /\ pc[r] = "package"
              /\ \/ /\ netbird[node[r]] = "absent" /\ Server(r, "installed")
                    /\ Goto(r, "up") /\ UNCHANGED <<faults, hurt>>
                 \/ /\ netbird[node[r]] # "absent" /\ UNCHANGED netbird
                    /\ Goto(r, "up") /\ UNCHANGED <<faults, hurt>>
                 \/ Stop(r) /\ UNCHANGED netbird
              /\ UNCHANGED <<tables, node, got, page, saved, owed>>

NetBirdUp(r) == /\ pc[r] = "up"
                /\ \/ /\ netbird[node[r]] # "absent" /\ Server(r, "connected")
                      /\ Goto(r, "status") /\ UNCHANGED <<faults, hurt>>
                   \/ /\ netbird[node[r]] = "absent" /\ UNCHANGED <<netbird, faults, hurt>>
                      /\ Goto(r, "failed")
                   \/ Stop(r) /\ UNCHANGED netbird
                /\ UNCHANGED <<tables, node, got, page, saved, owed>>

\* getNetBirdStatus: `installed` is true whatever the server says, because
\* "not-installed" includes "installed"; `connected` decides.
Status(r) == /\ pc[r] = "status"
             /\ \/ /\ Goto(r, IF netbird[node[r]] = "connected" THEN "save" ELSE "failed")
                   /\ UNCHANGED <<faults, hurt>>
                \/ Stop(r)
             /\ UNCHANGED <<tables, netbird, node, got, page, saved, owed>>

SaveStatus(r) == /\ pc[r] = "save"
                 /\ \/ /\ node[r] \in nodes
                       /\ cached' = cached \cup {node[r]}
                       /\ Goto(r, "done") /\ UNCHANGED <<faults, hurt>>
                    \/ /\ node[r] \notin nodes /\ UNCHANGED <<cached, faults, hurt>>
                       /\ Goto(r, "failed")
                    \/ Stop(r) /\ UNCHANGED cached
                 /\ UNCHANGED <<nodes, points, netbird, node, got, page, saved, owed>>

Down(r) == /\ pc[r] = "down"
           /\ \/ /\ Server(r, IF netbird[node[r]] = "connected" THEN "installed" ELSE netbird[node[r]])
                 /\ Goto(r, "remove") /\ UNCHANGED <<faults, hurt>>
              \/ Stop(r) /\ UNCHANGED netbird
           /\ UNCHANGED <<tables, node, got, page, saved, owed>>

\* A mutation: the row is kept for the next installation.
RemoveOnly(r) == /\ pc[r] = "remove"
                 /\ \/ Server(r, "absent") /\ Goto(r, "done") /\ UNCHANGED <<faults, hurt>>
                    \/ Stop(r) /\ UNCHANGED netbird
                 /\ UNCHANGED <<tables, node, got, page, saved, owed>>

Remove(r) == /\ pc[r] = "remove"
             /\ \/ Server(r, "absent") /\ Goto(r, "delete") /\ UNCHANGED <<faults, hurt>>
                \/ Stop(r) /\ UNCHANGED netbird
             /\ UNCHANGED <<tables, node, got, page, saved, owed>>

DeleteStatus(r) == /\ pc[r] = "delete"
                   /\ \/ /\ cached' = cached \ {node[r]}
                         /\ Goto(r, "done") /\ UNCHANGED <<faults, hurt>>
                      \/ Stop(r) /\ UNCHANGED cached
                   /\ UNCHANGED <<nodes, points, netbird, node, got, page, saved, owed>>
-----------------------------------------------------------------------------
(* The table of nodes and the page.                                        *)

\* A mutation: the rows that refer to the node are left.
DeleteNodeAlone(n) ==
    /\ n \in nodes /\ nodes' = nodes \ {n}
    /\ UNCHANGED <<points, cached, netbird, pc, node, got, page, faults, ghosts>>

\* ON DELETE CASCADE.  Requests about the node go on.
DeleteNode(n) ==
    /\ n \in nodes /\ nodes' = nodes \ {n}
    /\ points' = {p \in points : p.node # n}
    /\ cached' = cached \ {n}
    /\ UNCHANGED <<netbird, pc, node, got, page, faults, ghosts>>

\* collectAllData by the button of the form, which is disabled while it waits, or by
\* the timer.
PageAsks(r) == /\ (page.open /\ page.waits = {}) \/ page.timer # None
               /\ Ask(r)
               /\ node' = [node EXCEPT ![r] = Page]
               /\ page' = [page EXCEPT !.waits = @ \cup {r}]
               /\ UNCHANGED <<tables, netbird, faults, ghosts>>

\* A mutation: an answer clears the form, and the timer has nothing to send.
PageAnsweredClears(r) ==
    /\ r \in page.waits
    /\ pc[r] \in {"done", "failed"}
    /\ page' = [page EXCEPT !.waits = @ \ {r}, !.open = FALSE, !.form = None]
    /\ UNCHANGED <<tables, netbird, pc, node, got, faults, ghosts>>

\* The first answer starts the timer, with the form of that moment.  Any answer
\* closes the form, one that the timer asked for too.
PageAnswered(r) ==
    /\ r \in page.waits
    /\ pc[r] \in {"done", "failed"}
    /\ page' = [page EXCEPT !.waits = @ \ {r},
                            !.open = @ /\ pc[r] = "failed",
                            !.timer = IF pc[r] = "done" /\ @ = None THEN page.form ELSE @]
    /\ UNCHANGED <<tables, netbird, pc, node, got, faults, ghosts>>

OpenForm == /\ ~page.open /\ page' = [page EXCEPT !.open = TRUE]
            /\ UNCHANGED <<tables, netbird, pc, node, got, faults, ghosts>>

\* The timer keeps what it was started with.
Type(c) == /\ page.open /\ c # page.form
           /\ page' = [page EXCEPT !.form = c]
           /\ UNCHANGED <<tables, netbird, pc, node, got, faults, ghosts>>

\* Another interval starts the timer anew, with the form as it is.
ChangeInterval == /\ ~page.open /\ page.timer # None
                  /\ page' = [page EXCEPT !.timer = page.form]
                  /\ UNCHANGED <<tables, netbird, pc, node, got, faults, ghosts>>
-----------------------------------------------------------------------------
Next == \/ \E r \in Requests, n \in Nodes :
              AskMetrics(r, n) \/ AskNetBird(r, n, "package") \/ AskNetBird(r, n, "down")
        \/ \E r \in Requests, s \in Sources : Reading(r, s)
        \/ \E r \in Requests :
              \/ Collected(r) \/ Rejected(r) \/ Insert(r) \/ Trim(r) \/ Query(r)
              \/ Package(r) \/ NetBirdUp(r) \/ Status(r) \/ SaveStatus(r)
              \/ Down(r) \/ Remove(r) \/ DeleteStatus(r)
              \/ PageAsks(r) \/ PageAnswered(r)
        \/ \E n \in Nodes : DeleteNode(n)
        \/ \E c \in Logins : Type(c)
        \/ OpenForm \/ ChangeInterval

Spec == Init /\ [][Next]_vars
-----------------------------------------------------------------------------
(* Rows of a node that was deleted are gone for good, also those that a     *)
(* request in flight was about to write.                                   *)
RowsHaveNodes == \A n \in Nodes \ nodes : PointsOf(n) = {} /\ n \notin cached

(* The trim of one request never costs another its point, or another node   *)
(* its history: the newest points of a node are there in whatever order     *)
(* inserts and trims came, and no others when no request is between the two *)
(* and the last trim did not fail.                                         *)
NewestAreKept ==
    \A n \in nodes :
        /\ \A k \in 1..saved[n] : k + Limit > saved[n] => \E p \in PointsOf(n) : p.at = k
        /\ At({"trim"}, n) = {} /\ n \notin owed => Cardinality(PointsOf(n)) <= Limit

(* A collection that lost one of its SSH connections leaves no point.       *)
PointsAreComplete == \A p \in points : got[p.by] = Sources

(* When the NetBird requests of a node came one after the other and none    *)
(* failed, the cached row and the client on its server agree.              *)
CacheMatchesServer ==
    \A n \in nodes \ hurt : At(InstallAwaits \cup UninstallAwaits, n) = {} =>
        (n \in cached <=> netbird[n] = "connected")
=============================================================================
