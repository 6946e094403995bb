------------------------- MODULE NodeMonitorProofs -------------------------
(***************************************************************************)
(* Proofs about NodeMonitor, for any nodes, requests, credentials and      *)
(* failures.                                                               *)
(*                                                                         *)
(* A point is there only of a request that is past its insert, with all    *)
(* its readings.  CacheMatchesServer is about nodes at rest: for induction *)
(* one has to know that a node that is not hurt has one NetBird request at *)
(* a time, and what the server and the row say at each of its awaits.      *)
(* NewestAreKept, which counts points, comes last, by their stamps.        *)
(***************************************************************************)
EXTENDS NodeMonitor, FiniteSetTheorems, TLAPS

NetBirdAwaits == {"package", "up", "status", "save", "down", "remove", "delete"}
Inserted == {"trim", "query", "done", "failed"}

SavedHaveReadings ==
    /\ \A r \in Requests : pc[r] \in {"insert", "trim"} => got[r] = Sources
    /\ \A p \in points : pc[p.by] \in Inserted /\ got[p.by] = Sources

AskedOfNode == \A r \in Requests : pc[r] \notin Settled => node[r] \in Nodes

UnhurtIsAlone ==
    \A n \in Nodes \ hurt : \A q, r \in Requests :
        /\ pc[q] \in NetBirdAwaits /\ node[q] = n
        /\ pc[r] \in NetBirdAwaits /\ node[r] = n
        => q = r

Agree(n) == n \in cached <=> netbird[n] = "connected"

\* What a NetBird request of a node that is not hurt finds at each await.
UnhurtFinds ==
    \A n \in nodes \ hurt : \A r \in Requests : node[r] = n =>
        /\ pc[r] \in {"package", "up", "down"} => Agree(n)
        /\ pc[r] = "up" => netbird[n] # "absent"
        /\ pc[r] \in {"status", "save"} => netbird[n] = "connected"
        /\ pc[r] = "remove" => netbird[n] # "connected"
        /\ pc[r] = "delete" => netbird[n] = "absent"

UnhurtAgrees ==
    \A n \in nodes \ hurt :
        (\A r \in Requests : node[r] = n => pc[r] \notin NetBirdAwaits) => Agree(n)

IInv == /\ TypeOK
        /\ RowsHaveNodes
        /\ SavedHaveReadings
        /\ AskedOfNode
        /\ UnhurtIsAlone
        /\ UnhurtFinds
        /\ UnhurtAgrees
-----------------------------------------------------------------------------
\* Every node is in the table and nothing runs.
LEMMA InitInductive == Init => IInv
  <1> SUFFICES ASSUME Init PROVE IInv
    OBVIOUS
  <1>1. TypeOK
    <2>1. page \in [form: Logins, timer: Logins \cup {None}, open: BOOLEAN,
                   waits: SUBSET Requests]
      BY DEF Init
    <2>2. /\ pc \in [Requests -> Settled \cup MetricAwaits \cup InstallAwaits \cup UninstallAwaits]
          /\ node \in [Requests -> Nodes \cup {None}] /\ got \in [Requests -> SUBSET Sources]
          /\ netbird \in [Nodes -> {"absent", "installed", "connected"}]
      BY DEF Init, Settled
    <2>3. faults \in 0..MaxFaults /\ saved \in [Nodes -> Nat]
      BY MaxFaultsAssumption DEF Init
    <2>4. /\ nodes \subseteq Nodes /\ points \subseteq Points /\ cached \subseteq Nodes
          /\ owed \subseteq Nodes /\ hurt \subseteq Nodes
      BY DEF Init
    <2> QED
      BY <2>1, <2>2, <2>3, <2>4 DEF TypeOK
  <1> QED
    BY <1>1 DEF Init, IInv, RowsHaveNodes, PointsOf, SavedHaveReadings, AskedOfNode, Settled,
                UnhurtIsAlone, UnhurtFinds, UnhurtAgrees, Agree, NetBirdAwaits

\* A request of another page begins with no reading.
LEMMA AskMetricsInductive ==
    ASSUME IInv, NEW r \in Requests, NEW n \in Nodes, AskMetrics(r, n)
    PROVE  IInv'
  <1> USE NoneAssumption, PageAssumption, MaxFaultsAssumption
      DEF IInv, TypeOK, AskMetrics, Ask, Goto, tables, ghosts
  <1>1. TypeOK'
    <2>1. (/\ nodes \subseteq Nodes /\ points \subseteq Points /\ cached \subseteq Nodes)'
      BY DEF Points
    <2>2. (netbird \in [Nodes -> {"absent", "installed", "connected"}])'
      BY DEF AskedOfNode, Settled
    <2>3. (pc \in [Requests -> Settled \cup MetricAwaits \cup InstallAwaits \cup UninstallAwaits])'
      BY DEF Settled, MetricAwaits, InstallAwaits, UninstallAwaits
    <2>4. (node \in [Requests -> Nodes \cup {None}] /\ got \in [Requests -> SUBSET Sources])'
      OBVIOUS
    <2>5. (page \in [form: Logins, timer: Logins \cup {None}, open: BOOLEAN,
                    waits: SUBSET Requests])'
      OBVIOUS
    <2>6. (faults \in 0..MaxFaults /\ saved \in [Nodes -> Nat])'
      BY DEF AskedOfNode, Settled
    <2>7. (owed \subseteq Nodes /\ hurt \subseteq Nodes)'
      BY DEF AskedOfNode, Settled
    <2> QED
      BY <2>1, <2>2, <2>3, <2>4, <2>5, <2>6, <2>7
  <1>2. RowsHaveNodes'
    BY DEF RowsHaveNodes, PointsOf, Points
  <1>3. SavedHaveReadings'
    BY DEF SavedHaveReadings, Inserted, Points
  <1>4. AskedOfNode'
    BY DEF AskedOfNode, Settled
  <1>5. UnhurtIsAlone'
    BY DEF UnhurtIsAlone, AskedOfNode, Settled, NetBirdAwaits
  <1>6. UnhurtFinds'
    BY DEF UnhurtFinds, UnhurtAgrees, UnhurtIsAlone, AskedOfNode, Settled, Agree, NetBirdAwaits
  <1>7. UnhurtAgrees'
    BY DEF UnhurtFinds, UnhurtAgrees, UnhurtIsAlone, AskedOfNode, Settled, Agree, NetBirdAwaits
  <1> QED
    BY <1>1, <1>2, <1>3, <1>4, <1>5, <1>6, <1>7

\* It is alone with its node, or the node is hurt.
LEMMA AskNetBirdInductive ==
    ASSUME IInv, NEW r \in Requests, NEW n \in Nodes, NEW first \in {"package", "down"}, AskNetBird(r, n, first)
    PROVE  IInv'
  <1> USE NoneAssumption, PageAssumption, MaxFaultsAssumption
      DEF IInv, TypeOK, AskNetBird, Goto, Overlap, At, InstallAwaits, UninstallAwaits, tables, ghosts
  <1>1. TypeOK'
    <2>1. (/\ nodes \subseteq Nodes /\ points \subseteq Points /\ cached \subseteq Nodes)'
      BY DEF Points
    <2>2. (netbird \in [Nodes -> {"absent", "installed", "connected"}])'
      BY DEF AskedOfNode, Settled
    <2>3. (pc \in [Requests -> Settled \cup MetricAwaits \cup InstallAwaits \cup UninstallAwaits])'
      BY DEF Settled, MetricAwaits, InstallAwaits, UninstallAwaits
    <2>4. (node \in [Requests -> Nodes \cup {None}] /\ got \in [Requests -> SUBSET Sources])'
      OBVIOUS
    <2>5. (page \in [form: Logins, timer: Logins \cup {None}, open: BOOLEAN,
                    waits: SUBSET Requests])'
      OBVIOUS
    <2>6. (faults \in 0..MaxFaults /\ saved \in [Nodes -> Nat])'
      BY DEF AskedOfNode, Settled
    <2>7. (owed \subseteq Nodes /\ hurt \subseteq Nodes)'
      BY DEF AskedOfNode, Settled
    <2> QED
      BY <2>1, <2>2, <2>3, <2>4, <2>5, <2>6, <2>7
  <1>2. RowsHaveNodes'
    BY DEF RowsHaveNodes, PointsOf, Points
  <1>3. SavedHaveReadings'
    BY DEF SavedHaveReadings, Inserted, Points
  <1>4. AskedOfNode'
    BY DEF AskedOfNode, Settled
  <1>5. UnhurtIsAlone'
    BY DEF UnhurtIsAlone, AskedOfNode, Settled, NetBirdAwaits
  <1>6. UnhurtFinds'
    BY DEF UnhurtFinds, UnhurtAgrees, UnhurtIsAlone, AskedOfNode, Settled, Agree, NetBirdAwaits
  <1>7. UnhurtAgrees'
    BY DEF UnhurtFinds, UnhurtAgrees, UnhurtIsAlone, AskedOfNode, Settled, Agree, NetBirdAwaits
  <1> QED
    BY <1>1, <1>2, <1>3, <1>4, <1>5, <1>6, <1>7

\* Readings come before the insert.
LEMMA ReadingInductive ==
    ASSUME IInv, NEW r \in Requests, NEW s \in Sources, Reading(r, s)
    PROVE  IInv'
  <1> USE NoneAssumption, PageAssumption, MaxFaultsAssumption
      DEF IInv, TypeOK, Reading, tables, ghosts
  <1>1. TypeOK'
    <2>1. (/\ nodes \subseteq Nodes /\ points \subseteq Points /\ cached \subseteq Nodes)'
      BY DEF Points
    <2>2. (netbird \in [Nodes -> {"absent", "installed", "connected"}])'
      BY DEF AskedOfNode, Settled
    <2>3. (pc \in [Requests -> Settled \cup MetricAwaits \cup InstallAwaits \cup UninstallAwaits])'
      BY DEF Settled, MetricAwaits, InstallAwaits, UninstallAwaits
    <2>4. (node \in [Requests -> Nodes \cup {None}] /\ got \in [Requests -> SUBSET Sources])'
      OBVIOUS
    <2>5. (page \in [form: Logins, timer: Logins \cup {None}, open: BOOLEAN,
                    waits: SUBSET Requests])'
      OBVIOUS
    <2>6. (faults \in 0..MaxFaults /\ saved \in [Nodes -> Nat])'
      BY DEF AskedOfNode, Settled
    <2>7. (owed \subseteq Nodes /\ hurt \subseteq Nodes)'
      BY DEF AskedOfNode, Settled
    <2> QED
      BY <2>1, <2>2, <2>3, <2>4, <2>5, <2>6, <2>7
  <1>2. RowsHaveNodes'
    BY DEF RowsHaveNodes, PointsOf, Points
  <1>3. SavedHaveReadings'
    BY DEF SavedHaveReadings, Inserted, Points
  <1>4. AskedOfNode'
    BY DEF AskedOfNode, Settled
  <1>5. UnhurtIsAlone'
    BY DEF UnhurtIsAlone, AskedOfNode, Settled, NetBirdAwaits
  <1>6. UnhurtFinds'
    BY DEF UnhurtFinds, UnhurtAgrees, UnhurtIsAlone, AskedOfNode, Settled, Agree, NetBirdAwaits
  <1>7. UnhurtAgrees'
    BY DEF UnhurtFinds, UnhurtAgrees, UnhurtIsAlone, AskedOfNode, Settled, Agree, NetBirdAwaits
  <1> QED
    BY <1>1, <1>2, <1>3, <1>4, <1>5, <1>6, <1>7

\* Only a full collection goes on to the insert.
LEMMA CollectedInductive ==
    ASSUME IInv, NEW r \in Requests, Collected(r)
    PROVE  IInv'
  <1> USE NoneAssumption, PageAssumption, MaxFaultsAssumption
      DEF IInv, TypeOK, Collected, Goto, tables, ghosts
  <1>1. TypeOK'
    <2>1. (/\ nodes \subseteq Nodes /\ points \subseteq Points /\ cached \subseteq Nodes)'
      BY DEF Points
    <2>2. (netbird \in [Nodes -> {"absent", "installed", "connected"}])'
      BY DEF AskedOfNode, Settled
    <2>3. (pc \in [Requests -> Settled \cup MetricAwaits \cup InstallAwaits \cup UninstallAwaits])'
      BY DEF Settled, MetricAwaits, InstallAwaits, UninstallAwaits
    <2>4. (node \in [Requests -> Nodes \cup {None}] /\ got \in [Requests -> SUBSET Sources])'
      OBVIOUS
    <2>5. (page \in [form: Logins, timer: Logins \cup {None}, open: BOOLEAN,
                    waits: SUBSET Requests])'
      OBVIOUS
    <2>6. (faults \in 0..MaxFaults /\ saved \in [Nodes -> Nat])'
      BY DEF AskedOfNode, Settled
    <2>7. (owed \subseteq Nodes /\ hurt \subseteq Nodes)'
      BY DEF AskedOfNode, Settled
    <2> QED
      BY <2>1, <2>2, <2>3, <2>4, <2>5, <2>6, <2>7
  <1>2. RowsHaveNodes'
    BY DEF RowsHaveNodes, PointsOf, Points
  <1>3. SavedHaveReadings'
    BY DEF SavedHaveReadings, Inserted, Points
  <1>4. AskedOfNode'
    BY DEF AskedOfNode, Settled
  <1>5. UnhurtIsAlone'
    BY DEF UnhurtIsAlone, AskedOfNode, Settled, NetBirdAwaits
  <1>6. UnhurtFinds'
    BY DEF UnhurtFinds, UnhurtAgrees, UnhurtIsAlone, AskedOfNode, Settled, Agree, NetBirdAwaits
  <1>7. UnhurtAgrees'
    BY DEF UnhurtFinds, UnhurtAgrees, UnhurtIsAlone, AskedOfNode, Settled, Agree, NetBirdAwaits
  <1> QED
    BY <1>1, <1>2, <1>3, <1>4, <1>5, <1>6, <1>7

\* A collection that broke off ends.
LEMMA RejectedInductive ==
    ASSUME IInv, NEW r \in Requests, Rejected(r)
    PROVE  IInv'
  <1> USE NoneAssumption, PageAssumption, MaxFaultsAssumption
      DEF IInv, TypeOK, Rejected, Fault, Goto, tables, ghosts
  <1>1. TypeOK'
    <2>1. (/\ nodes \subseteq Nodes /\ points \subseteq Points /\ cached \subseteq Nodes)'
      BY DEF Points
    <2>2. (netbird \in [Nodes -> {"absent", "installed", "connected"}])'
      BY DEF AskedOfNode, Settled
    <2>3. (pc \in [Requests -> Settled \cup MetricAwaits \cup InstallAwaits \cup UninstallAwaits])'
      BY DEF Settled, MetricAwaits, InstallAwaits, UninstallAwaits
    <2>4. (node \in [Requests -> Nodes \cup {None}] /\ got \in [Requests -> SUBSET Sources])'
      OBVIOUS
    <2>5. (page \in [form: Logins, timer: Logins \cup {None}, open: BOOLEAN,
                    waits: SUBSET Requests])'
      OBVIOUS
    <2>6. (faults \in 0..MaxFaults /\ saved \in [Nodes -> Nat])'
      BY DEF AskedOfNode, Settled
    <2>7. (owed \subseteq Nodes /\ hurt \subseteq Nodes)'
      BY DEF AskedOfNode, Settled
    <2> QED
      BY <2>1, <2>2, <2>3, <2>4, <2>5, <2>6, <2>7
  <1>2. RowsHaveNodes'
    BY DEF RowsHaveNodes, PointsOf, Points
  <1>3. SavedHaveReadings'
    BY DEF SavedHaveReadings, Inserted, Points
  <1>4. AskedOfNode'
    BY DEF AskedOfNode, Settled
  <1>5. UnhurtIsAlone'
    BY DEF UnhurtIsAlone, AskedOfNode, Settled, NetBirdAwaits
  <1>6. UnhurtFinds'
    BY DEF UnhurtFinds, UnhurtAgrees, UnhurtIsAlone, AskedOfNode, Settled, Agree, NetBirdAwaits
  <1>7. UnhurtAgrees'
    BY DEF UnhurtFinds, UnhurtAgrees, UnhurtIsAlone, AskedOfNode, Settled, Agree, NetBirdAwaits
  <1> QED
    BY <1>1, <1>2, <1>3, <1>4, <1>5, <1>6, <1>7

\* The node is in the table, and so the point has it.
LEMMA InsertInductive ==
    ASSUME IInv, NEW r \in Requests, Insert(r)
    PROVE  IInv'
  <1> USE NoneAssumption, PageAssumption, MaxFaultsAssumption
      DEF IInv, TypeOK, Insert, Fault, Goto, PointsOf, tables, ghosts
  <1>1. TypeOK'
    <2>1. (/\ nodes \subseteq Nodes /\ points \subseteq Points /\ cached \subseteq Nodes)'
      BY DEF Points
    <2>2. (netbird \in [Nodes -> {"absent", "installed", "connected"}])'
      BY DEF AskedOfNode, Settled
    <2>3. (pc \in [Requests -> Settled \cup MetricAwaits \cup InstallAwaits \cup UninstallAwaits])'
      BY DEF Settled, MetricAwaits, InstallAwaits, UninstallAwaits
    <2>4. (node \in [Requests -> Nodes \cup {None}] /\ got \in [Requests -> SUBSET Sources])'
      OBVIOUS
    <2>5. (page \in [form: Logins, timer: Logins \cup {None}, open: BOOLEAN,
                    waits: SUBSET Requests])'
      OBVIOUS
    <2>6. (faults \in 0..MaxFaults /\ saved \in [Nodes -> Nat])'
      BY DEF AskedOfNode, Settled
    <2>7. (owed \subseteq Nodes /\ hurt \subseteq Nodes)'
      BY DEF AskedOfNode, Settled
    <2> QED
      BY <2>1, <2>2, <2>3, <2>4, <2>5, <2>6, <2>7
  <1>2. RowsHaveNodes'
    BY DEF RowsHaveNodes, PointsOf, Points
  <1>3. SavedHaveReadings'
    BY DEF SavedHaveReadings, Inserted, Points
  <1>4. AskedOfNode'
    BY DEF AskedOfNode, Settled
  <1>5. UnhurtIsAlone'
    BY DEF UnhurtIsAlone, AskedOfNode, Settled, NetBirdAwaits
  <1>6. UnhurtFinds'
    BY DEF UnhurtFinds, UnhurtAgrees, UnhurtIsAlone, AskedOfNode, Settled, Agree, NetBirdAwaits
  <1>7. UnhurtAgrees'
    BY DEF UnhurtFinds, UnhurtAgrees, UnhurtIsAlone, AskedOfNode, Settled, Agree, NetBirdAwaits
  <1> QED
    BY <1>1, <1>2, <1>3, <1>4, <1>5, <1>6, <1>7

\* Points are only taken away.
LEMMA TrimInductive ==
    ASSUME IInv, NEW r \in Requests, Trim(r)
    PROVE  IInv'
  <1> USE NoneAssumption, PageAssumption, MaxFaultsAssumption
      DEF IInv, TypeOK, Trim, Fault, Goto, Kept, PointsOf, tables, ghosts
  <1>1. TypeOK'
    <2>1. (/\ nodes \subseteq Nodes /\ points \subseteq Points /\ cached \subseteq Nodes)'
      BY DEF Points
    <2>2. (netbird \in [Nodes -> {"absent", "installed", "connected"}])'
      BY DEF AskedOfNode, Settled
    <2>3. (pc \in [Requests -> Settled \cup MetricAwaits \cup InstallAwaits \cup UninstallAwaits])'
      BY DEF Settled, MetricAwaits, InstallAwaits, UninstallAwaits
    <2>4. (node \in [Requests -> Nodes \cup {None}] /\ got \in [Requests -> SUBSET Sources])'
      OBVIOUS
    <2>5. (page \in [form: Logins, timer: Logins \cup {None}, open: BOOLEAN,
                    waits: SUBSET Requests])'
      OBVIOUS
    <2>6. (faults \in 0..MaxFaults /\ saved \in [Nodes -> Nat])'
      BY DEF AskedOfNode, Settled
    <2>7. (owed \subseteq Nodes /\ hurt \subseteq Nodes)'
      BY DEF AskedOfNode, Settled
    <2> QED
      BY <2>1, <2>2, <2>3, <2>4, <2>5, <2>6, <2>7
  <1>2. RowsHaveNodes'
    BY DEF RowsHaveNodes, PointsOf, Points
  <1>3. SavedHaveReadings'
    BY DEF SavedHaveReadings, Inserted, Points
  <1>4. AskedOfNode'
    BY DEF AskedOfNode, Settled
  <1>5. UnhurtIsAlone'
    BY DEF UnhurtIsAlone, AskedOfNode, Settled, NetBirdAwaits
  <1>6. UnhurtFinds'
    BY DEF UnhurtFinds, UnhurtAgrees, UnhurtIsAlone, AskedOfNode, Settled, Agree, NetBirdAwaits
  <1>7. UnhurtAgrees'
    BY DEF UnhurtFinds, UnhurtAgrees, UnhurtIsAlone, AskedOfNode, Settled, Agree, NetBirdAwaits
  <1> QED
    BY <1>1, <1>2, <1>3, <1>4, <1>5, <1>6, <1>7

\* The request ends.
LEMMA QueryInductive ==
    ASSUME IInv, NEW r \in Requests, Query(r)
    PROVE  IInv'
  <1> USE NoneAssumption, PageAssumption, MaxFaultsAssumption
      DEF IInv, TypeOK, Query, Fault, Goto, tables, ghosts
  <1>1. TypeOK'
    <2>1. (/\ nodes \subseteq Nodes /\ points \subseteq Points /\ cached \subseteq Nodes)'
      BY DEF Points
    <2>2. (netbird \in [Nodes -> {"absent", "installed", "connected"}])'
      BY DEF AskedOfNode, Settled
    <2>3. (pc \in [Requests -> Settled \cup MetricAwaits \cup InstallAwaits \cup UninstallAwaits])'
      BY DEF Settled, MetricAwaits, InstallAwaits, UninstallAwaits
    <2>4. (node \in [Requests -> Nodes \cup {None}] /\ got \in [Requests -> SUBSET Sources])'
      OBVIOUS
    <2>5. (page \in [form: Logins, timer: Logins \cup {None}, open: BOOLEAN,
                    waits: SUBSET Requests])'
      OBVIOUS
    <2>6. (faults \in 0..MaxFaults /\ saved \in [Nodes -> Nat])'
      BY DEF AskedOfNode, Settled
    <2>7. (owed \subseteq Nodes /\ hurt \subseteq Nodes)'
      BY DEF AskedOfNode, Settled
    <2> QED
      BY <2>1, <2>2, <2>3, <2>4, <2>5, <2>6, <2>7
  <1>2. RowsHaveNodes'
    BY DEF RowsHaveNodes, PointsOf, Points
  <1>3. SavedHaveReadings'
    BY DEF SavedHaveReadings, Inserted, Points
  <1>4. AskedOfNode'
    BY DEF AskedOfNode, Settled
  <1>5. UnhurtIsAlone'
    BY DEF UnhurtIsAlone, AskedOfNode, Settled, NetBirdAwaits
  <1>6. UnhurtFinds'
    BY DEF UnhurtFinds, UnhurtAgrees, UnhurtIsAlone, AskedOfNode, Settled, Agree, NetBirdAwaits
  <1>7. UnhurtAgrees'
    BY DEF UnhurtFinds, UnhurtAgrees, UnhurtIsAlone, AskedOfNode, Settled, Agree, NetBirdAwaits
  <1> QED
    BY <1>1, <1>2, <1>3, <1>4, <1>5, <1>6, <1>7

\* A client that was connected still is.
LEMMA PackageInductive ==
    ASSUME IInv, NEW r \in Requests, Package(r)
    PROVE  IInv'
  <1> USE NoneAssumption, PageAssumption, MaxFaultsAssumption
      DEF IInv, TypeOK, Package, Server, Stop, Fault, Goto, tables, ghosts
  <1>1. TypeOK'
    <2>1. (/\ nodes \subseteq Nodes /\ points \subseteq Points /\ cached \subseteq Nodes)'
      BY DEF Points
    <2>2. (netbird \in [Nodes -> {"absent", "installed", "connected"}])'
      BY DEF AskedOfNode, Settled
    <2>3. (pc \in [Requests -> Settled \cup MetricAwaits \cup InstallAwaits \cup UninstallAwaits])'
      BY DEF Settled, MetricAwaits, InstallAwaits, UninstallAwaits
    <2>4. (node \in [Requests -> Nodes \cup {None}] /\ got \in [Requests -> SUBSET Sources])'
      OBVIOUS
    <2>5. (page \in [form: Logins, timer: Logins \cup {None}, open: BOOLEAN,
                    waits: SUBSET Requests])'
      OBVIOUS
    <2>6. (faults \in 0..MaxFaults /\ saved \in [Nodes -> Nat])'
      BY DEF AskedOfNode, Settled
    <2>7. (owed \subseteq Nodes /\ hurt \subseteq Nodes)'
      BY DEF AskedOfNode, Settled
    <2> QED
      BY <2>1, <2>2, <2>3, <2>4, <2>5, <2>6, <2>7
  <1>2. RowsHaveNodes'
    BY DEF RowsHaveNodes, PointsOf, Points
  <1>3. SavedHaveReadings'
    BY DEF SavedHaveReadings, Inserted, Points
  <1>4. AskedOfNode'
    BY DEF AskedOfNode, Settled
  <1>5. UnhurtIsAlone'
    BY DEF UnhurtIsAlone, AskedOfNode, Settled, NetBirdAwaits
  <1>6. UnhurtFinds'
    BY DEF UnhurtFinds, UnhurtAgrees, UnhurtIsAlone, AskedOfNode, Settled, Agree, NetBirdAwaits
  <1>7. UnhurtAgrees'
    BY DEF UnhurtFinds, UnhurtAgrees, UnhurtIsAlone, AskedOfNode, Settled, Agree, NetBirdAwaits
  <1> QED
    BY <1>1, <1>2, <1>3, <1>4, <1>5, <1>6, <1>7

\* The package is there, so the client connects.
LEMMA NetBirdUpInductive ==
    ASSUME IInv, NEW r \in Requests, NetBirdUp(r)
    PROVE  IInv'
  <1> USE NoneAssumption, PageAssumption, MaxFaultsAssumption
      DEF IInv, TypeOK, NetBirdUp, Server, Stop, Fault, Goto, tables, ghosts
  <1>1. TypeOK'
    <2>1. (/\ nodes \subseteq Nodes /\ points \subseteq Points /\ cached \subseteq Nodes)'
      BY DEF Points
    <2>2. (netbird \in [Nodes -> {"absent", "installed", "connected"}])'
      BY DEF AskedOfNode, Settled
    <2>3. (pc \in [Requests -> Settled \cup MetricAwaits \cup InstallAwaits \cup UninstallAwaits])'
      BY DEF Settled, MetricAwaits, InstallAwaits, UninstallAwaits
    <2>4. (node \in [Requests -> Nodes \cup {None}] /\ got \in [Requests -> SUBSET Sources])'
      OBVIOUS
    <2>5. (page \in [form: Logins, timer: Logins \cup {None}, open: BOOLEAN,
                    waits: SUBSET Requests])'
      OBVIOUS
    <2>6. (faults \in 0..MaxFaults /\ saved \in [Nodes -> Nat])'
      BY DEF AskedOfNode, Settled
    <2>7. (owed \subseteq Nodes /\ hurt \subseteq Nodes)'
      BY DEF AskedOfNode, Settled
    <2> QED
      BY <2>1, <2>2, <2>3, <2>4, <2>5, <2>6, <2>7
  <1>2. RowsHaveNodes'
    BY DEF RowsHaveNodes, PointsOf, Points
  <1>3. SavedHaveReadings'
    BY DEF SavedHaveReadings, Inserted, Points
  <1>4. AskedOfNode'
    BY DEF AskedOfNode, Settled
  <1>5. UnhurtIsAlone'
    BY DEF UnhurtIsAlone, AskedOfNode, Settled, NetBirdAwaits
  <1>6. UnhurtFinds'
    BY DEF UnhurtFinds, UnhurtAgrees, UnhurtIsAlone, AskedOfNode, Settled, Agree, NetBirdAwaits
  <1>7. UnhurtAgrees'
    BY DEF UnhurtFinds, UnhurtAgrees, UnhurtIsAlone, AskedOfNode, Settled, Agree, NetBirdAwaits
  <1> QED
    BY <1>1, <1>2, <1>3, <1>4, <1>5, <1>6, <1>7

\* The client is connected.
LEMMA StatusInductive ==
    ASSUME IInv, NEW r \in Requests, Status(r)
    PROVE  IInv'
  <1> USE NoneAssumption, PageAssumption, MaxFaultsAssumption
      DEF IInv, TypeOK, Status, Stop, Fault, Goto, tables, ghosts
  <1>1. TypeOK'
    <2>1. (/\ nodes \subseteq Nodes /\ points \subseteq Points /\ cached \subseteq Nodes)'
      BY DEF Points
    <2>2. (netbird \in [Nodes -> {"absent", "installed", "connected"}])'
      BY DEF AskedOfNode, Settled
    <2>3. (pc \in [Requests -> Settled \cup MetricAwaits \cup InstallAwaits \cup UninstallAwaits])'
      BY DEF Settled, MetricAwaits, InstallAwaits, UninstallAwaits
    <2>4. (node \in [Requests -> Nodes \cup {None}] /\ got \in [Requests -> SUBSET Sources])'
      OBVIOUS
    <2>5. (page \in [form: Logins, timer: Logins \cup {None}, open: BOOLEAN,
                    waits: SUBSET Requests])'
      OBVIOUS
    <2>6. (faults \in 0..MaxFaults /\ saved \in [Nodes -> Nat])'
      BY DEF AskedOfNode, Settled
    <2>7. (owed \subseteq Nodes /\ hurt \subseteq Nodes)'
      BY DEF AskedOfNode, Settled
    <2> QED
      BY <2>1, <2>2, <2>3, <2>4, <2>5, <2>6, <2>7
  <1>2. RowsHaveNodes'
    BY DEF RowsHaveNodes, PointsOf, Points
  <1>3. SavedHaveReadings'
    BY DEF SavedHaveReadings, Inserted, Points
  <1>4. AskedOfNode'
    BY DEF AskedOfNode, Settled
  <1>5. UnhurtIsAlone'
    BY DEF UnhurtIsAlone, AskedOfNode, Settled, NetBirdAwaits
  <1>6. UnhurtFinds'
    BY DEF UnhurtFinds, UnhurtAgrees, UnhurtIsAlone, AskedOfNode, Settled, Agree, NetBirdAwaits
  <1>7. UnhurtAgrees'
    BY DEF UnhurtFinds, UnhurtAgrees, UnhurtIsAlone, AskedOfNode, Settled, Agree, NetBirdAwaits
  <1> QED
    BY <1>1, <1>2, <1>3, <1>4, <1>5, <1>6, <1>7

\* The row now says what the server is.
LEMMA SaveStatusInductive ==
    ASSUME IInv, NEW r \in Requests, SaveStatus(r)
    PROVE  IInv'
  <1> USE NoneAssumption, PageAssumption, MaxFaultsAssumption
      DEF IInv, TypeOK, SaveStatus, Stop, Fault, Goto, tables, ghosts
  <1>1. TypeOK'
    <2>1. (/\ nodes \subseteq Nodes /\ points \subseteq Points /\ cached \subseteq Nodes)'
      BY DEF Points
    <2>2. (netbird \in [Nodes -> {"absent", "installed", "connected"}])'
      BY DEF AskedOfNode, Settled
    <2>3. (pc \in [Requests -> Settled \cup MetricAwaits \cup InstallAwaits \cup UninstallAwaits])'
      BY DEF Settled, MetricAwaits, InstallAwaits, UninstallAwaits
    <2>4. (node \in [Requests -> Nodes \cup {None}] /\ got \in [Requests -> SUBSET Sources])'
      OBVIOUS
    <2>5. (page \in [form: Logins, timer: Logins \cup {None}, open: BOOLEAN,
                    waits: SUBSET Requests])'
      OBVIOUS
    <2>6. (faults \in 0..MaxFaults /\ saved \in [Nodes -> Nat])'
      BY DEF AskedOfNode, Settled
    <2>7. (owed \subseteq Nodes /\ hurt \subseteq Nodes)'
      BY DEF AskedOfNode, Settled
    <2> QED
      BY <2>1, <2>2, <2>3, <2>4, <2>5, <2>6, <2>7
  <1>2. RowsHaveNodes'
    BY DEF RowsHaveNodes, PointsOf, Points
  <1>3. SavedHaveReadings'
    BY DEF SavedHaveReadings, Inserted, Points
  <1>4. AskedOfNode'
    BY DEF AskedOfNode, Settled
  <1>5. UnhurtIsAlone'
    BY DEF UnhurtIsAlone, AskedOfNode, Settled, NetBirdAwaits
  <1>6. UnhurtFinds'
    BY DEF UnhurtFinds, UnhurtAgrees, UnhurtIsAlone, AskedOfNode, Settled, Agree, NetBirdAwaits
  <1>7. UnhurtAgrees'
    BY DEF UnhurtFinds, UnhurtAgrees, UnhurtIsAlone, AskedOfNode, Settled, Agree, NetBirdAwaits
  <1> QED
    BY <1>1, <1>2, <1>3, <1>4, <1>5, <1>6, <1>7

\* From here the row is behind.
LEMMA DownInductive ==
    ASSUME IInv, NEW r \in Requests, Down(r)
    PROVE  IInv'
  <1> USE NoneAssumption, PageAssumption, MaxFaultsAssumption
      DEF IInv, TypeOK, Down, Server, Stop, Fault, Goto, tables, ghosts
  <1>1. TypeOK'
    <2>1. (/\ nodes \subseteq Nodes /\ points \subseteq Points /\ cached \subseteq Nodes)'
      BY DEF Points
    <2>2. (netbird \in [Nodes -> {"absent", "installed", "connected"}])'
      BY DEF AskedOfNode, Settled
    <2>3. (pc \in [Requests -> Settled \cup MetricAwaits \cup InstallAwaits \cup UninstallAwaits])'
      BY DEF Settled, MetricAwaits, InstallAwaits, UninstallAwaits
    <2>4. (node \in [Requests -> Nodes \cup {None}] /\ got \in [Requests -> SUBSET Sources])'
      OBVIOUS
    <2>5. (page \in [form: Logins, timer: Logins \cup {None}, open: BOOLEAN,
                    waits: SUBSET Requests])'
      OBVIOUS
    <2>6. (faults \in 0..MaxFaults /\ saved \in [Nodes -> Nat])'
      BY DEF AskedOfNode, Settled
    <2>7. (owed \subseteq Nodes /\ hurt \subseteq Nodes)'
      BY DEF AskedOfNode, Settled
    <2> QED
      BY <2>1, <2>2, <2>3, <2>4, <2>5, <2>6, <2>7
  <1>2. RowsHaveNodes'
    BY DEF RowsHaveNodes, PointsOf, Points
  <1>3. SavedHaveReadings'
    BY DEF SavedHaveReadings, Inserted, Points
  <1>4. AskedOfNode'
    BY DEF AskedOfNode, Settled
  <1>5. UnhurtIsAlone'
    BY DEF UnhurtIsAlone, AskedOfNode, Settled, NetBirdAwaits
  <1>6. UnhurtFinds'
    BY DEF UnhurtFinds, UnhurtAgrees, UnhurtIsAlone, AskedOfNode, Settled, Agree, NetBirdAwaits
  <1>7. UnhurtAgrees'
    BY DEF UnhurtFinds, UnhurtAgrees, UnhurtIsAlone, AskedOfNode, Settled, Agree, NetBirdAwaits
  <1> QED
    BY <1>1, <1>2, <1>3, <1>4, <1>5, <1>6, <1>7

\* The package is gone.
LEMMA RemoveInductive ==
    ASSUME IInv, NEW r \in Requests, Remove(r)
    PROVE  IInv'
  <1> USE NoneAssumption, PageAssumption, MaxFaultsAssumption
      DEF IInv, TypeOK, Remove, Server, Stop, Fault, Goto, tables, ghosts
  <1>1. TypeOK'
    <2>1. (/\ nodes \subseteq Nodes /\ points \subseteq Points /\ cached \subseteq Nodes)'
      BY DEF Points
    <2>2. (netbird \in [Nodes -> {"absent", "installed", "connected"}])'
      BY DEF AskedOfNode, Settled
    <2>3. (pc \in [Requests -> Settled \cup MetricAwaits \cup InstallAwaits \cup UninstallAwaits])'
      BY DEF Settled, MetricAwaits, InstallAwaits, UninstallAwaits
    <2>4. (node \in [Requests -> Nodes \cup {None}] /\ got \in [Requests -> SUBSET Sources])'
      OBVIOUS
    <2>5. (page \in [form: Logins, timer: Logins \cup {None}, open: BOOLEAN,
                    waits: SUBSET Requests])'
      OBVIOUS
    <2>6. (faults \in 0..MaxFaults /\ saved \in [Nodes -> Nat])'
      BY DEF AskedOfNode, Settled
    <2>7. (owed \subseteq Nodes /\ hurt \subseteq Nodes)'
      BY DEF AskedOfNode, Settled
    <2> QED
      BY <2>1, <2>2, <2>3, <2>4, <2>5, <2>6, <2>7
  <1>2. RowsHaveNodes'
    BY DEF RowsHaveNodes, PointsOf, Points
  <1>3. SavedHaveReadings'
    BY DEF SavedHaveReadings, Inserted, Points
  <1>4. AskedOfNode'
    BY DEF AskedOfNode, Settled
  <1>5. UnhurtIsAlone'
    BY DEF UnhurtIsAlone, AskedOfNode, Settled, NetBirdAwaits
  <1>6. UnhurtFinds'
    BY DEF UnhurtFinds, UnhurtAgrees, UnhurtIsAlone, AskedOfNode, Settled, Agree, NetBirdAwaits
  <1>7. UnhurtAgrees'
    BY DEF UnhurtFinds, UnhurtAgrees, UnhurtIsAlone, AskedOfNode, Settled, Agree, NetBirdAwaits
  <1> QED
    BY <1>1, <1>2, <1>3, <1>4, <1>5, <1>6, <1>7

\* The row follows.
LEMMA DeleteStatusInductive ==
    ASSUME IInv, NEW r \in Requests, DeleteStatus(r)
    PROVE  IInv'
  <1> USE NoneAssumption, PageAssumption, MaxFaultsAssumption
      DEF IInv, TypeOK, DeleteStatus, Stop, Fault, Goto, tables, ghosts
  <1>1. TypeOK'
    <2>1. (/\ nodes \subseteq Nodes /\ points \subseteq Points /\ cached \subseteq Nodes)'
      BY DEF Points
    <2>2. (netbird \in [Nodes -> {"absent", "installed", "connected"}])'
      BY DEF AskedOfNode, Settled
    <2>3. (pc \in [Requests -> Settled \cup MetricAwaits \cup InstallAwaits \cup UninstallAwaits])'
      BY DEF Settled, MetricAwaits, InstallAwaits, UninstallAwaits
    <2>4. (node \in [Requests -> Nodes \cup {None}] /\ got \in [Requests -> SUBSET Sources])'
      OBVIOUS
    <2>5. (page \in [form: Logins, timer: Logins \cup {None}, open: BOOLEAN,
                    waits: SUBSET Requests])'
      OBVIOUS
    <2>6. (faults \in 0..MaxFaults /\ saved \in [Nodes -> Nat])'
      BY DEF AskedOfNode, Settled
    <2>7. (owed \subseteq Nodes /\ hurt \subseteq Nodes)'
      BY DEF AskedOfNode, Settled
    <2> QED
      BY <2>1, <2>2, <2>3, <2>4, <2>5, <2>6, <2>7
  <1>2. RowsHaveNodes'
    BY DEF RowsHaveNodes, PointsOf, Points
  <1>3. SavedHaveReadings'
    BY DEF SavedHaveReadings, Inserted, Points
  <1>4. AskedOfNode'
    BY DEF AskedOfNode, Settled
  <1>5. UnhurtIsAlone'
    BY DEF UnhurtIsAlone, AskedOfNode, Settled, NetBirdAwaits
  <1>6. UnhurtFinds'
    BY DEF UnhurtFinds, UnhurtAgrees, UnhurtIsAlone, AskedOfNode, Settled, Agree, NetBirdAwaits
  <1>7. UnhurtAgrees'
    BY DEF UnhurtFinds, UnhurtAgrees, UnhurtIsAlone, AskedOfNode, Settled, Agree, NetBirdAwaits
  <1> QED
    BY <1>1, <1>2, <1>3, <1>4, <1>5, <1>6, <1>7

\* The cascade takes what refers to the node.
LEMMA DeleteNodeInductive ==
    ASSUME IInv, NEW n \in Nodes, DeleteNode(n)
    PROVE  IInv'
  <1> USE NoneAssumption, PageAssumption, MaxFaultsAssumption
      DEF IInv, TypeOK, DeleteNode, PointsOf, tables, ghosts
  <1>1. TypeOK'
    <2>1. (/\ nodes \subseteq Nodes /\ points \subseteq Points /\ cached \subseteq Nodes)'
      BY DEF Points
    <2>2. (netbird \in [Nodes -> {"absent", "installed", "connected"}])'
      BY DEF AskedOfNode, Settled
    <2>3. (pc \in [Requests -> Settled \cup MetricAwaits \cup InstallAwaits \cup UninstallAwaits])'
      BY DEF Settled, MetricAwaits, InstallAwaits, UninstallAwaits
    <2>4. (node \in [Requests -> Nodes \cup {None}] /\ got \in [Requests -> SUBSET Sources])'
      OBVIOUS
    <2>5. (page \in [form: Logins, timer: Logins \cup {None}, open: BOOLEAN,
                    waits: SUBSET Requests])'
      OBVIOUS
    <2>6. (faults \in 0..MaxFaults /\ saved \in [Nodes -> Nat])'
      BY DEF AskedOfNode, Settled
    <2>7. (owed \subseteq Nodes /\ hurt \subseteq Nodes)'
      BY DEF AskedOfNode, Settled
    <2> QED
      BY <2>1, <2>2, <2>3, <2>4, <2>5, <2>6, <2>7
  <1>2. RowsHaveNodes'
    BY DEF RowsHaveNodes, PointsOf, Points
  <1>3. SavedHaveReadings'
    BY DEF SavedHaveReadings, Inserted, Points
  <1>4. AskedOfNode'
    BY DEF AskedOfNode, Settled
  <1>5. UnhurtIsAlone'
    BY DEF UnhurtIsAlone, AskedOfNode, Settled, NetBirdAwaits
  <1>6. UnhurtFinds'
    BY DEF UnhurtFinds, UnhurtAgrees, UnhurtIsAlone, AskedOfNode, Settled, Agree, NetBirdAwaits
  <1>7. UnhurtAgrees'
    BY DEF UnhurtFinds, UnhurtAgrees, UnhurtIsAlone, AskedOfNode, Settled, Agree, NetBirdAwaits
  <1> QED
    BY <1>1, <1>2, <1>3, <1>4, <1>5, <1>6, <1>7

\* As a request of another page.
LEMMA PageAsksInductive ==
    ASSUME IInv, NEW r \in Requests, PageAsks(r)
    PROVE  IInv'
  <1> USE NoneAssumption, PageAssumption, MaxFaultsAssumption
      DEF IInv, TypeOK, PageAsks, Ask, Goto, tables, ghosts
  <1>1. TypeOK'
    <2>1. (/\ nodes \subseteq Nodes /\ points \subseteq Points /\ cached \subseteq Nodes)'
      BY DEF Points
    <2>2. (netbird \in [Nodes -> {"absent", "installed", "connected"}])'
      BY DEF AskedOfNode, Settled
    <2>3. (pc \in [Requests -> Settled \cup MetricAwaits \cup InstallAwaits \cup UninstallAwaits])'
      BY DEF Settled, MetricAwaits, InstallAwaits, UninstallAwaits
    <2>4. (node \in [Requests -> Nodes \cup {None}] /\ got \in [Requests -> SUBSET Sources])'
      OBVIOUS
    <2>5. (page \in [form: Logins, timer: Logins \cup {None}, open: BOOLEAN,
                    waits: SUBSET Requests])'
      OBVIOUS
    <2>6. (faults \in 0..MaxFaults /\ saved \in [Nodes -> Nat])'
      BY DEF AskedOfNode, Settled
    <2>7. (owed \subseteq Nodes /\ hurt \subseteq Nodes)'
      BY DEF AskedOfNode, Settled
    <2> QED
      BY <2>1, <2>2, <2>3, <2>4, <2>5, <2>6, <2>7
  <1>2. RowsHaveNodes'
    BY DEF RowsHaveNodes, PointsOf, Points
  <1>3. SavedHaveReadings'
    BY DEF SavedHaveReadings, Inserted, Points
  <1>4. AskedOfNode'
    BY DEF AskedOfNode, Settled
  <1>5. UnhurtIsAlone'
    BY DEF UnhurtIsAlone, AskedOfNode, Settled, NetBirdAwaits
  <1>6. UnhurtFinds'
    BY DEF UnhurtFinds, UnhurtAgrees, UnhurtIsAlone, AskedOfNode, Settled, Agree, NetBirdAwaits
  <1>7. UnhurtAgrees'
    BY DEF UnhurtFinds, UnhurtAgrees, UnhurtIsAlone, AskedOfNode, Settled, Agree, NetBirdAwaits
  <1> QED
    BY <1>1, <1>2, <1>3, <1>4, <1>5, <1>6, <1>7

\* Only the page changes.
LEMMA PageAnsweredInductive ==
    ASSUME IInv, NEW r \in Requests, PageAnswered(r)
    PROVE  IInv'
  <1> USE NoneAssumption, PageAssumption, MaxFaultsAssumption
      DEF IInv, TypeOK, PageAnswered, tables, ghosts
  <1>1. TypeOK'
    <2>1. (/\ nodes \subseteq Nodes /\ points \subseteq Points /\ cached \subseteq Nodes)'
      BY DEF Points
    <2>2. (netbird \in [Nodes -> {"absent", "installed", "connected"}])'
      BY DEF AskedOfNode, Settled
    <2>3. (pc \in [Requests -> Settled \cup MetricAwaits \cup InstallAwaits \cup UninstallAwaits])'
      BY DEF Settled, MetricAwaits, InstallAwaits, UninstallAwaits
    <2>4. (node \in [Requests -> Nodes \cup {None}] /\ got \in [Requests -> SUBSET Sources])'
      OBVIOUS
    <2>5. (page \in [form: Logins, timer: Logins \cup {None}, open: BOOLEAN,
                    waits: SUBSET Requests])'
      OBVIOUS
    <2>6. (faults \in 0..MaxFaults /\ saved \in [Nodes -> Nat])'
      BY DEF AskedOfNode, Settled
    <2>7. (owed \subseteq Nodes /\ hurt \subseteq Nodes)'
      BY DEF AskedOfNode, Settled
    <2> QED
      BY <2>1, <2>2, <2>3, <2>4, <2>5, <2>6, <2>7
  <1>2. RowsHaveNodes'
    BY DEF RowsHaveNodes, PointsOf, Points
  <1>3. SavedHaveReadings'
    BY DEF SavedHaveReadings, Inserted, Points
  <1>4. AskedOfNode'
    BY DEF AskedOfNode, Settled
  <1>5. UnhurtIsAlone'
    BY DEF UnhurtIsAlone, AskedOfNode, Settled, NetBirdAwaits
  <1>6. UnhurtFinds'
    BY DEF UnhurtFinds, UnhurtAgrees, UnhurtIsAlone, AskedOfNode, Settled, Agree, NetBirdAwaits
  <1>7. UnhurtAgrees'
    BY DEF UnhurtFinds, UnhurtAgrees, UnhurtIsAlone, AskedOfNode, Settled, Agree, NetBirdAwaits
  <1> QED
    BY <1>1, <1>2, <1>3, <1>4, <1>5, <1>6, <1>7

\* Only the page changes.
LEMMA TypeInductive ==
    ASSUME IInv, NEW c \in Logins, Type(c)
    PROVE  IInv'
  <1> USE NoneAssumption, PageAssumption, MaxFaultsAssumption
      DEF IInv, TypeOK, Type, tables, ghosts
  <1>1. TypeOK'
    <2>1. (/\ nodes \subseteq Nodes /\ points \subseteq Points /\ cached \subseteq Nodes)'
      BY DEF Points
    <2>2. (netbird \in [Nodes -> {"absent", "installed", "connected"}])'
      BY DEF AskedOfNode, Settled
    <2>3. (pc \in [Requests -> Settled \cup MetricAwaits \cup InstallAwaits \cup UninstallAwaits])'
      BY DEF Settled, MetricAwaits, InstallAwaits, UninstallAwaits
    <2>4. (node \in [Requests -> Nodes \cup {None}] /\ got \in [Requests -> SUBSET Sources])'
      OBVIOUS
    <2>5. (page \in [form: Logins, timer: Logins \cup {None}, open: BOOLEAN,
                    waits: SUBSET Requests])'
      OBVIOUS
    <2>6. (faults \in 0..MaxFaults /\ saved \in [Nodes -> Nat])'
      BY DEF AskedOfNode, Settled
    <2>7. (owed \subseteq Nodes /\ hurt \subseteq Nodes)'
      BY DEF AskedOfNode, Settled
    <2> QED
      BY <2>1, <2>2, <2>3, <2>4, <2>5, <2>6, <2>7
  <1>2. RowsHaveNodes'
    BY DEF RowsHaveNodes, PointsOf, Points
  <1>3. SavedHaveReadings'
    BY DEF SavedHaveReadings, Inserted, Points
  <1>4. AskedOfNode'
    BY DEF AskedOfNode, Settled
  <1>5. UnhurtIsAlone'
    BY DEF UnhurtIsAlone, AskedOfNode, Settled, NetBirdAwaits
  <1>6. UnhurtFinds'
    BY DEF UnhurtFinds, UnhurtAgrees, UnhurtIsAlone, AskedOfNode, Settled, Agree, NetBirdAwaits
  <1>7. UnhurtAgrees'
    BY DEF UnhurtFinds, UnhurtAgrees, UnhurtIsAlone, AskedOfNode, Settled, Agree, NetBirdAwaits
  <1> QED
    BY <1>1, <1>2, <1>3, <1>4, <1>5, <1>6, <1>7

\* Only the page changes.
LEMMA OpenFormInductive ==
    ASSUME IInv, OpenForm
    PROVE  IInv'
  <1> USE NoneAssumption, PageAssumption, MaxFaultsAssumption
      DEF IInv, TypeOK, OpenForm, tables, ghosts
  <1>1. TypeOK'
    <2>1. (/\ nodes \subseteq Nodes /\ points \subseteq Points /\ cached \subseteq Nodes)'
      BY DEF Points
    <2>2. (netbird \in [Nodes -> {"absent", "installed", "connected"}])'
      BY DEF AskedOfNode, Settled
    <2>3. (pc \in [Requests -> Settled \cup MetricAwaits \cup InstallAwaits \cup UninstallAwaits])'
      BY DEF Settled, MetricAwaits, InstallAwaits, UninstallAwaits
    <2>4. (node \in [Requests -> Nodes \cup {None}] /\ got \in [Requests -> SUBSET Sources])'
      OBVIOUS
    <2>5. (page \in [form: Logins, timer: Logins \cup {None}, open: BOOLEAN,
                    waits: SUBSET Requests])'
      OBVIOUS
    <2>6. (faults \in 0..MaxFaults /\ saved \in [Nodes -> Nat])'
      BY DEF AskedOfNode, Settled
    <2>7. (owed \subseteq Nodes /\ hurt \subseteq Nodes)'
      BY DEF AskedOfNode, Settled
    <2> QED
      BY <2>1, <2>2, <2>3, <2>4, <2>5, <2>6, <2>7
  <1>2. RowsHaveNodes'
    BY DEF RowsHaveNodes, PointsOf, Points
  <1>3. SavedHaveReadings'
    BY DEF SavedHaveReadings, Inserted, Points
  <1>4. AskedOfNode'
    BY DEF AskedOfNode, Settled
  <1>5. UnhurtIsAlone'
    BY DEF UnhurtIsAlone, AskedOfNode, Settled, NetBirdAwaits
  <1>6. UnhurtFinds'
    BY DEF UnhurtFinds, UnhurtAgrees, UnhurtIsAlone, AskedOfNode, Settled, Agree, NetBirdAwaits
  <1>7. UnhurtAgrees'
    BY DEF UnhurtFinds, UnhurtAgrees, UnhurtIsAlone, AskedOfNode, Settled, Agree, NetBirdAwaits
  <1> QED
    BY <1>1, <1>2, <1>3, <1>4, <1>5, <1>6, <1>7

\* Only the page changes.
LEMMA ChangeIntervalInductive ==
    ASSUME IInv, ChangeInterval
    PROVE  IInv'
  <1> USE NoneAssumption, PageAssumption, MaxFaultsAssumption
      DEF IInv, TypeOK, ChangeInterval, tables, ghosts
  <1>1. TypeOK'
    <2>1. (/\ nodes \subseteq Nodes /\ points \subseteq Points /\ cached \subseteq Nodes)'
      BY DEF Points
    <2>2. (netbird \in [Nodes -> {"absent", "installed", "connected"}])'
      BY DEF AskedOfNode, Settled
    <2>3. (pc \in [Requests -> Settled \cup MetricAwaits \cup InstallAwaits \cup UninstallAwaits])'
      BY DEF Settled, MetricAwaits, InstallAwaits, UninstallAwaits
    <2>4. (node \in [Requests -> Nodes \cup {None}] /\ got \in [Requests -> SUBSET Sources])'
      OBVIOUS
    <2>5. (page \in [form: Logins, timer: Logins \cup {None}, open: BOOLEAN,
                    waits: SUBSET Requests])'
      OBVIOUS
    <2>6. (faults \in 0..MaxFaults /\ saved \in [Nodes -> Nat])'
      BY DEF AskedOfNode, Settled
    <2>7. (owed \subseteq Nodes /\ hurt \subseteq Nodes)'
      BY DEF AskedOfNode, Settled
    <2> QED
      BY <2>1, <2>2, <2>3, <2>4, <2>5, <2>6, <2>7
  <1>2. RowsHaveNodes'
    BY DEF RowsHaveNodes, PointsOf, Points
  <1>3. SavedHaveReadings'
    BY DEF SavedHaveReadings, Inserted, Points
  <1>4. AskedOfNode'
    BY DEF AskedOfNode, Settled
  <1>5. UnhurtIsAlone'
    BY DEF UnhurtIsAlone, AskedOfNode, Settled, NetBirdAwaits
  <1>6. UnhurtFinds'
    BY DEF UnhurtFinds, UnhurtAgrees, UnhurtIsAlone, AskedOfNode, Settled, Agree, NetBirdAwaits
  <1>7. UnhurtAgrees'
    BY DEF UnhurtFinds, UnhurtAgrees, UnhurtIsAlone, AskedOfNode, Settled, Agree, NetBirdAwaits
  <1> QED
    BY <1>1, <1>2, <1>3, <1>4, <1>5, <1>6, <1>7

\* A stuttering step changes none of the variables the invariant reads.
LEMMA StutteringInductive ==
    ASSUME IInv, UNCHANGED vars
    PROVE  IInv'
  BY DEF IInv, TypeOK, vars, RowsHaveNodes, PointsOf, SavedHaveReadings, AskedOfNode,
         UnhurtIsAlone, UnhurtFinds, UnhurtAgrees, Agree

\* IInv holds in every reachable state.
LEMMA Inductive == Spec => []IInv
  <1>1. IInv /\ [Next]_vars => IInv'
    BY AskMetricsInductive, AskNetBirdInductive, ReadingInductive, CollectedInductive,
       RejectedInductive, InsertInductive, TrimInductive, QueryInductive,
       PackageInductive, NetBirdUpInductive, StatusInductive, SaveStatusInductive,
       DownInductive, RemoveInductive, DeleteStatusInductive, DeleteNodeInductive,
       PageAsksInductive, PageAnsweredInductive, TypeInductive, OpenFormInductive,
       ChangeIntervalInductive, StutteringInductive
       DEF Next
  <1> QED
    BY <1>1, InitInductive, PTL DEF Spec

\* Tables, requests, servers and the page have the values NodeMonitor.TypeOK names
\* (nodes-monitoring.ts, NodeDetail.tsx).
THEOREM TypeCorrect == Spec => []TypeOK
  <1>1. IInv => TypeOK
    BY DEF IInv
  <1> QED
    BY <1>1, Inductive, PTL

\* The foreign keys of migrations.ts with their cascade keep the rows of a deleted node
\* out, whatever requests about it are still under way.
THEOREM DeletedNodesLeaveNothing == Spec => []RowsHaveNodes
  <1>1. IInv => RowsHaveNodes
    BY DEF IInv
  <1> QED
    BY <1>1, Inductive, PTL

\* A point of node_metrics_history has all readings of its collection.
THEOREM OnlyFullCollections == Spec => []PointsAreComplete
  <1>1. IInv => PointsAreComplete
    BY DEF IInv, SavedHaveReadings, PointsAreComplete
  <1> QED
    BY <1>1, Inductive, PTL

\* When the NetBird requests of a node did not overlap or fail, netbird_status says at
\* rest what the client on its server is.
THEOREM SerialNetBirdAgrees == Spec => []CacheMatchesServer
  <1>1. IInv => CacheMatchesServer
    BY DEF IInv, UnhurtAgrees, Agree, NetBirdAwaits, CacheMatchesServer, At, InstallAwaits,
           UninstallAwaits
  <1> QED
    BY <1>1, Inductive, PTL
-----------------------------------------------------------------------------
(* NewestAreKept counts points, so for induction the counting is turned    *)
(* into stamps: the points of a node have stamps of their own, the ones    *)
(* within Limit of the last are there, and once the trims are done no      *)
(* older ones.  A set of points is compared with an interval of stamps.    *)

Stamped(n) == /\ \A p \in PointsOf(n) : p.at \in 1..saved[n]
              /\ \A p, q \in PointsOf(n) : p.at = q.at => p = q

NewestThere(n) == \A k \in 1..saved[n] : k + Limit > saved[n] => \E p \in PointsOf(n) : p.at = k

OlderGone(n) == At({"trim"}, n) = {} /\ n \notin owed =>
                    \A p \in PointsOf(n) : p.at + Limit > saved[n]

Numbered == \A n \in nodes : Stamped(n) /\ NewestThere(n) /\ OlderGone(n)

Newer(n, p) == {q \in PointsOf(n) : q.at > p.at}

\* Points with stamps of their own in an interval are no more than the interval has
\* numbers.
LEMMA NoMoreThanStamps ==
    ASSUME NEW S \in SUBSET Points, NEW a \in Nat, NEW b \in Nat, a <= b,
           \A p \in S : p.at \in (a + 1)..b,
           \A p, q \in S : p.at = q.at => p = q
    PROVE  IsFiniteSet(S) /\ Cardinality(S) \in Nat /\ Cardinality(S) <= b - a
  <1> DEFINE stamp == [p \in S |-> p.at]
  <1>1. stamp \in Injection(S, (a + 1)..b)
    <2>1. stamp \in [S -> (a + 1)..b]
      OBVIOUS
    <2>2. \A p, q \in DOMAIN stamp : stamp[p] = stamp[q] => p = q
      OBVIOUS
    <2> QED
      BY <2>1, <2>2 DEF Injection, IsInjective
  <1> HIDE DEF stamp
  <1>2. IsFiniteSet((a + 1)..b) /\ Cardinality((a + 1)..b) = b - a
    <2>1. Cardinality((a + 1)..b) = IF a + 1 > b THEN 0 ELSE b - (a + 1) + 1
      BY a + 1 \in Int, b \in Int, FS_Interval
    <2>2. IsFiniteSet((a + 1)..b)
      BY a + 1 \in Int, b \in Int, FS_Interval
    <2> QED
      BY <2>1, <2>2
  <1>3. IsFiniteSet(S) /\ Cardinality(S) <= Cardinality((a + 1)..b)
    BY <1>1, <1>2, FS_Injection
  <1> QED
    BY <1>2, <1>3, FS_CardinalityType

\* Points that have every stamp of an interval are no fewer.
LEMMA NoFewerThanStamps ==
    ASSUME NEW S \in SUBSET Points, IsFiniteSet(S), NEW a \in Nat, NEW b \in Nat, a <= b,
           \A k \in (a + 1)..b : \E p \in S : p.at = k
    PROVE  b - a <= Cardinality(S)
  <1> DEFINE point == [k \in (a + 1)..b |-> CHOOSE p \in S : p.at = k]
  <1>1. \A k \in (a + 1)..b : point[k] \in S /\ point[k].at = k
    OBVIOUS
  <1>2. point \in [(a + 1)..b -> S] /\ DOMAIN point = (a + 1)..b
    BY <1>1
  <1> HIDE DEF point
  <1>3. point \in Injection((a + 1)..b, S)
    <2>1. \A j, k \in DOMAIN point : point[j] = point[k] => j = k
      BY <1>1, <1>2
    <2> QED
      BY <1>2, <2>1 DEF Injection, IsInjective
  <1>4. Cardinality((a + 1)..b) <= Cardinality(S)
    BY <1>3, FS_Injection
  <1>5. Cardinality((a + 1)..b) = IF a + 1 > b THEN 0 ELSE b - (a + 1) + 1
    BY a + 1 \in Int, b \in Int, FS_Interval
  <1> QED
    BY <1>4, <1>5

\* What is newer than a point within Limit of the last does not fill a trim.
LEMMA FewAreNewer ==
    ASSUME IInv, NEW n \in Nodes, Stamped(n), NEW p \in PointsOf(n), p.at + Limit > saved[n]
    PROVE  Cardinality(Newer(n, p)) < Limit
  <1> USE LimitAssumption
  <1>1. saved[n] \in Nat /\ PointsOf(n) \subseteq Points
    BY DEF IInv, TypeOK, PointsOf
  <1>2. p.at \in Nat /\ p.at <= saved[n]
    BY <1>1 DEF Stamped
  <1>3. Newer(n, p) \in SUBSET Points
    BY <1>1 DEF Newer
  <1>4. /\ \A q \in Newer(n, p) : q.at \in (p.at + 1)..saved[n]
        /\ \A q, s \in Newer(n, p) : q.at = s.at => q = s
    BY <1>1, <1>2 DEF Newer, Stamped
  <1>5. Cardinality(Newer(n, p)) \in Nat /\ Cardinality(Newer(n, p)) <= saved[n] - p.at
    BY <1>1, <1>2, <1>3, <1>4, NoMoreThanStamps
  <1> QED
    BY <1>1, <1>2, <1>5

\* What is newer than an older point fills it.
LEMMA ManyAreNewer ==
    ASSUME IInv, NEW n \in Nodes, Stamped(n), NewestThere(n),
           NEW p \in PointsOf(n), ~(p.at + Limit > saved[n])
    PROVE  ~(Cardinality(Newer(n, p)) < Limit)
  <1> USE LimitAssumption
  <1>1. saved[n] \in Nat /\ PointsOf(n) \subseteq Points
    BY DEF IInv, TypeOK, PointsOf
  <1>2. p.at \in Nat /\ p.at <= saved[n]
    BY <1>1 DEF Stamped
  <1>3. Newer(n, p) \in SUBSET Points
    BY <1>1 DEF Newer
  <1>4. /\ \A q \in Newer(n, p) : q.at \in (p.at + 1)..saved[n]
        /\ \A q, s \in Newer(n, p) : q.at = s.at => q = s
    BY <1>1, <1>2 DEF Newer, Stamped
  <1>5. IsFiniteSet(Newer(n, p)) /\ Cardinality(Newer(n, p)) \in Nat
    BY <1>1, <1>2, <1>3, <1>4, NoMoreThanStamps
  <1> DEFINE a == saved[n] - Limit
  <1>6. a \in Nat /\ a <= saved[n] /\ a >= p.at
    BY <1>1, <1>2
  <1>7. \A k \in (a + 1)..saved[n] : \E q \in Newer(n, p) : q.at = k
    <2> SUFFICES ASSUME NEW k \in (a + 1)..saved[n] PROVE \E q \in Newer(n, p) : q.at = k
      OBVIOUS
    <2>1. k \in 1..saved[n] /\ k + Limit > saved[n] /\ k > p.at
      BY <1>1, <1>2, <1>6
    <2>2. PICK q \in PointsOf(n) : q.at = k
      BY <2>1 DEF NewestThere
    <2> QED
      BY <2>1, <2>2 DEF Newer
  <1>8. saved[n] - a <= Cardinality(Newer(n, p))
    <2> HIDE DEF a
    <2> QED
      BY <1>1, <1>3, <1>5, <1>6, <1>7, NoFewerThanStamps
  <1> QED
    BY <1>1, <1>5, <1>8

\* A trim keeps the points within Limit of the last and no others.
LEMMA KeptAreNewest ==
    ASSUME IInv, NEW n \in Nodes, Stamped(n), NewestThere(n)
    PROVE  Kept(n) = {p \in PointsOf(n) : p.at + Limit > saved[n]}
  <1>1. Kept(n) = {p \in PointsOf(n) : Cardinality(Newer(n, p)) < Limit}
    BY DEF Kept, Newer
  <1>2. \A p \in PointsOf(n) : p.at + Limit > saved[n] <=> Cardinality(Newer(n, p)) < Limit
    BY FewAreNewer, ManyAreNewer
  <1> QED
    BY <1>1, <1>2

\* A step that neither inserts, trims nor owes a trim leaves the points of the nodes
\* as they are, of those at least that stay in the table.
LEMMA OthersLeaveNumbered ==
    ASSUME Numbered, nodes' \subseteq nodes, UNCHANGED <<saved, owed>>,
           \A n \in nodes' : PointsOf(n)' = PointsOf(n) /\ At({"trim"}, n)' = At({"trim"}, n)
    PROVE  Numbered'
  BY DEF Numbered, Stamped, NewestThere, OlderGone

\* A new point has the next stamp, and its request owes a trim.
LEMMA InsertKeepsNumbered ==
    ASSUME IInv, Numbered, NEW r \in Requests, Insert(r)
    PROVE  Numbered'
  <1> USE LimitAssumption, NoneAssumption DEF IInv, TypeOK
  <1> SUFFICES ASSUME NEW n \in nodes
               PROVE  (Stamped(n) /\ NewestThere(n) /\ OlderGone(n))'
    BY DEF Insert, Numbered
  <1>0. Stamped(n) /\ NewestThere(n) /\ OlderGone(n) /\ n \in Nodes /\ saved[n] \in Nat
    BY DEF Numbered
  <1>1. CASE UNCHANGED <<points, saved>>
    <2>1. PointsOf(n)' = PointsOf(n) /\ saved'[n] = saved[n] /\ owed' = owed
      BY <1>1 DEF PointsOf, Insert
    <2>2. At({"trim"}, n)' = At({"trim"}, n)
      BY <1>1, <1>0 DEF At, Insert, Goto
    <2> QED
      BY <1>0, <2>1, <2>2 DEF Stamped, NewestThere, OlderGone
  <1>2. CASE /\ node[r] = n
             /\ points' = points \cup {[node |-> n, at |-> saved[n] + 1, by |-> r]}
             /\ saved' = [saved EXCEPT ![n] = @ + 1]
             /\ pc' = [pc EXCEPT ![r] = "trim"]
    <2> DEFINE new == [node |-> n, at |-> saved[n] + 1, by |-> r]
    <2>1. PointsOf(n)' = PointsOf(n) \cup {new} /\ saved'[n] = saved[n] + 1
      BY <1>0, <1>2 DEF PointsOf
    <2>2. new.at = saved[n] + 1
      OBVIOUS
    <2> HIDE DEF new
    <2>3. \A p \in PointsOf(n) : p.at \in 1..saved[n]
      BY <1>0 DEF Stamped
    <2>4. Stamped(n)'
      <3>1. \A p \in PointsOf(n)' : p.at \in 1..saved'[n]
        BY <1>0, <2>1, <2>2, <2>3
      <3>2. \A p, q \in PointsOf(n)' : p.at = q.at => p = q
        BY <1>0, <2>1, <2>2, <2>3 DEF Stamped
      <3> QED
        BY <3>1, <3>2 DEF Stamped
    <2>5. NewestThere(n)'
      <3> SUFFICES ASSUME NEW k \in 1..saved'[n], k + Limit > saved'[n]
                   PROVE  \E p \in PointsOf(n)' : p.at = k
        BY DEF NewestThere
      <3>1. CASE k = saved[n] + 1
        BY <3>1, <2>1, <2>2
      <3>2. CASE k # saved[n] + 1
        <4>1. k \in 1..saved[n] /\ k + Limit > saved[n]
          BY <1>0, <2>1, <3>2
        <4> QED
          BY <4>1, <1>0, <2>1 DEF NewestThere
      <3> QED
        BY <3>1, <3>2
    <2>6. OlderGone(n)'
      <3>1. r \in At({"trim"}, n)'
        BY <1>2 DEF At, Insert
      <3> QED
        BY <3>1 DEF OlderGone
    <2> QED
      BY <2>4, <2>5, <2>6
  <1>3. CASE /\ node[r] # n /\ node[r] \in nodes
             /\ points' = points \cup {[node |-> node[r], at |-> saved[node[r]] + 1, by |-> r]}
             /\ saved' = [saved EXCEPT ![node[r]] = @ + 1]
    <2>1. PointsOf(n)' = PointsOf(n) /\ saved'[n] = saved[n] /\ owed' = owed
      BY <1>0, <1>3 DEF PointsOf, Insert
    <2>2. At({"trim"}, n)' = At({"trim"}, n)
      BY <1>3, <1>0 DEF At, Insert, Goto
    <2> QED
      BY <1>0, <2>1, <2>2 DEF Stamped, NewestThere, OlderGone
  <1> QED
    BY <1>1, <1>2, <1>3 DEF Insert, Goto

\* A trim leaves the newest of its node, and every point of another.
LEMMA TrimKeepsNumbered ==
    ASSUME IInv, Numbered, NEW r \in Requests, Trim(r)
    PROVE  Numbered'
  <1> USE LimitAssumption, NoneAssumption DEF IInv, TypeOK
  <1> SUFFICES ASSUME NEW n \in nodes
               PROVE  (Stamped(n) /\ NewestThere(n) /\ OlderGone(n))'
    BY DEF Trim, Numbered
  <1>0. /\ Stamped(n) /\ NewestThere(n) /\ OlderGone(n) /\ n \in Nodes /\ saved[n] \in Nat
        /\ saved'[n] = saved[n]
    BY DEF Numbered, Trim
  <1>1. CASE node[r] # n
    <2>1. PointsOf(n)' = PointsOf(n) /\ (n \in owed' <=> n \in owed)
      BY <1>1 DEF PointsOf, Kept, Trim
    <2>2. At({"trim"}, n)' = At({"trim"}, n)
      BY <1>1 DEF At, Trim, Goto
    <2> QED
      BY <1>0, <2>1, <2>2 DEF Stamped, NewestThere, OlderGone
  <1>2. CASE node[r] = n /\ n \in owed' /\ UNCHANGED points
    BY <1>0, <1>2 DEF Stamped, NewestThere, OlderGone, PointsOf
  <1>3. CASE /\ node[r] = n
             /\ points' = {p \in points : p.node # n} \cup (Kept(n) \cap PointsOf(n))
    <2>1. PointsOf(n)' = {p \in PointsOf(n) : p.at + Limit > saved[n]}
      <3>1. PointsOf(n)' = Kept(n)
        BY <1>3 DEF PointsOf, Kept
      <3> QED
        BY <1>0, <3>1, KeptAreNewest
    <2>2. Stamped(n)'
      BY <1>0, <2>1 DEF Stamped
    <2>3. NewestThere(n)'
      BY <1>0, <2>1 DEF NewestThere
    <2>4. OlderGone(n)'
      BY <1>0, <2>1 DEF OlderGone
    <2> QED
      BY <2>2, <2>3, <2>4
  <1> QED
    BY <1>1, <1>2, <1>3 DEF Trim

\* A deletion takes the points of its own node only.
LEMMA DeleteNodeKeepsNumbered ==
    ASSUME IInv, Numbered, NEW m \in Nodes, DeleteNode(m)
    PROVE  Numbered'
  <1>1. nodes' \subseteq nodes /\ UNCHANGED <<saved, owed>>
    BY DEF DeleteNode, ghosts
  <1>2. \A n \in nodes' : PointsOf(n)' = PointsOf(n)
    BY DEF DeleteNode, PointsOf
  <1>3. \A n \in nodes' : At({"trim"}, n)' = At({"trim"}, n)
    BY DEF DeleteNode, At
  <1> QED
    BY <1>1, <1>2, <1>3, OthersLeaveNumbered

\* The others do not touch the history of metrics.
LEMMA StepKeepsNumbered ==
    ASSUME IInv, Numbered, [Next]_vars
    PROVE  Numbered'
  <1> DEFINE Rest == /\ UNCHANGED <<nodes, points, saved, owed>>
                     /\ \A q \in Requests : \/ pc'[q] = pc[q] /\ node'[q] = node[q]
                                            \/ pc[q] # "trim" /\ pc'[q] # "trim"
  <1>1. ASSUME Rest PROVE Numbered'
    <2>1. \A n \in nodes' : PointsOf(n)' = PointsOf(n)
      BY <1>1 DEF PointsOf
    <2>2. \A n \in nodes' : At({"trim"}, n)' = At({"trim"}, n)
      BY <1>1 DEF At
    <2> QED
      BY <1>1, <2>1, <2>2, OthersLeaveNumbered
  <1> USE DEF IInv, TypeOK
  <1>2. ASSUME NEW r \in Requests, NEW n \in Nodes,
               AskMetrics(r, n) \/ AskNetBird(r, n, "package") \/ AskNetBird(r, n, "down")
        PROVE  Rest
    BY <1>2 DEF AskMetrics, Ask, AskNetBird, Goto, tables, ghosts
  <1>3. ASSUME NEW r \in Requests, NEW s \in Sources, Reading(r, s) PROVE Rest
    BY <1>3 DEF Reading, tables, ghosts
  <1>4. ASSUME NEW r \in Requests, Collected(r) \/ Rejected(r) \/ Query(r) PROVE Rest
    BY <1>4 DEF Collected, Rejected, Query, Goto, tables, ghosts
  <1>5. ASSUME NEW r \in Requests, Package(r) \/ NetBirdUp(r) \/ Status(r) \/ SaveStatus(r)
        PROVE  Rest
    <2>1. CASE Package(r)
      BY <2>1 DEF Package, Stop, Goto, tables
    <2>2. CASE NetBirdUp(r)
      BY <2>2 DEF NetBirdUp, Stop, Goto, tables
    <2>3. CASE Status(r)
      BY <2>3 DEF Status, Stop, Goto, tables
    <2>4. CASE SaveStatus(r)
      BY <2>4 DEF SaveStatus, Stop, Goto, tables
    <2> QED
      BY <1>5, <2>1, <2>2, <2>3, <2>4
  <1>6. ASSUME NEW r \in Requests, Down(r) \/ Remove(r) \/ DeleteStatus(r) PROVE Rest
    BY <1>6 DEF Down, Remove, DeleteStatus, Stop, Goto, tables
  <1>7. ASSUME NEW r \in Requests, PageAsks(r) \/ PageAnswered(r) PROVE Rest
    BY <1>7 DEF PageAsks, PageAnswered, Ask, Goto, tables, ghosts
  <1>8. ASSUME \/ \E c \in Logins : Type(c)
               \/ OpenForm \/ ChangeInterval \/ UNCHANGED vars
        PROVE  Rest
    BY <1>8 DEF Type, OpenForm, ChangeInterval, vars, tables, ghosts
  <1> HIDE DEF Rest, IInv, TypeOK
  <1> QED
    BY <1>1, <1>2, <1>3, <1>4, <1>5, <1>6, <1>7, <1>8,
       InsertKeepsNumbered, TrimKeepsNumbered, DeleteNodeKeepsNumbered DEF Next

\* Stamps are counted in every reachable state.
LEMMA NumberedAlways == Spec => []Numbered
  <1>1. Init => Numbered
    BY DEF Init, Numbered, Stamped, NewestThere, OlderGone, PointsOf
  <1>2. IInv /\ Numbered /\ [Next]_vars => Numbered'
    BY StepKeepsNumbered
  <1> QED
    BY <1>1, <1>2, Inductive, PTL DEF Spec

\* The trim after each insert (nodes-monitoring.ts) never takes one of the newest
\* Limit points of a node, in whatever order the inserts and trims of several requests
\* come, and leaves no others at rest unless the last of them failed.
THEOREM TrimsKeepTheNewest == Spec => []NewestAreKept
  <1>1. IInv /\ Numbered => NewestAreKept
    <2> SUFFICES ASSUME IInv, Numbered, NEW n \in nodes
                 PROVE  /\ NewestThere(n)
                        /\ At({"trim"}, n) = {} /\ n \notin owed
                               => Cardinality(PointsOf(n)) <= Limit
      BY DEF NewestAreKept, NewestThere
    <2>1. /\ Stamped(n) /\ NewestThere(n) /\ OlderGone(n) /\ saved[n] \in Nat
          /\ PointsOf(n) \in SUBSET Points
      BY DEF Numbered, IInv, TypeOK, PointsOf
    <2>2. ASSUME At({"trim"}, n) = {}, n \notin owed
          PROVE  Cardinality(PointsOf(n)) <= Limit
      <3>1. \A p \in PointsOf(n) : p.at \in 1..saved[n] /\ p.at + Limit > saved[n]
        BY <2>1, <2>2 DEF Stamped, OlderGone
      <3>2. \A p, q \in PointsOf(n) : p.at = q.at => p = q
        BY <2>1 DEF Stamped
      <3> DEFINE a == IF saved[n] < Limit THEN 0 ELSE saved[n] - Limit
      <3>3. a \in Nat /\ a <= saved[n] /\ saved[n] - a <= Limit
        BY <2>1, LimitAssumption
      <3>4. \A p \in PointsOf(n) : p.at \in (a + 1)..saved[n]
        BY <2>1, <3>1, LimitAssumption
      <3> HIDE DEF a
      <3>5. Cardinality(PointsOf(n)) \in Nat /\ Cardinality(PointsOf(n)) <= saved[n] - a
        BY <2>1, <3>2, <3>3, <3>4, NoMoreThanStamps
      <3> QED
        BY <2>1, <3>3, <3>5, LimitAssumption
    <2> QED
      BY <2>1, <2>2
  <1> QED
    BY <1>1, Inductive, NumberedAlways, PTL
=============================================================================
