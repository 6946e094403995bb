------------------------------ MODULE DataHook ------------------------------
(***************************************************************************)
(* What a page of the panel shows: the hook useAsync.ts with its polls, its *)
(* cancellation and the writes that useNodes.ts and useProxyDetail.ts       *)
(* follow with a refetch, over `request` of api/index.ts and the gateway of *)
(* the panel (routes/proxies.ts, allProxies.ts and nodes.ts, proxyToNode of *)
(* node-proxy.ts) to a service node (its routes/proxy.ts).                 *)
(*                                                                         *)
(* What there is to show is a version number, one for each key (a proxy, a *)
(* node, a list); a write makes a new version.  A fetch is one call of     *)
(* `refetch`, with its own AbortController.  A list page (useNodes,         *)
(* useAllProxies, the SSL page) never changes what it asks for, and polls   *)
(* no faster than a request times out; a detail page (useProxyDetail) may  *)
(* change its key and polls every five seconds, whatever is under way.  All *)
(* pages but SSL.tsx memoise their fetcher.                                *)
(***************************************************************************)
EXTENDS Naturals, FiniteSets

CONSTANTS Keys,        \* what a hook may be asked to show: fetcher arguments
          Fetches,     \* calls of refetch under way at once
          MaxVersion,  \* bound: versions of a key
          None         \* no fetch, no key, no operation

ASSUME MaxVersionAssumption == MaxVersion \in Nat
ASSUME NoneAssumption == None \notin Fetches \cup Keys

VARIABLES
    version,  \* version of each key at the node or in the database
    fetch,    \* the calls of refetch: idle, sent, or answered with what
    aborted,  \* calls whose controller was aborted
    live,     \* abortRef.current
    hook,     \* mounted, list or detail page, with a memoised fetcher or not, key, data,
              \* loading, error
    dirty,    \* a render is due in which the fetcher is another function
    write,    \* a write of the page and how far it is
    wrote,    \* ghost: per key, the version the last refetching write made
    crossed   \* ghost: the page changed its key while it wrote

vars == <<version, fetch, aborted, live, hook, dirty, write, wrote, crossed>>
page == <<aborted, live, hook, dirty, write, wrote, crossed>>

Versions == 0..MaxVersion
Data == [key: Keys, version: Versions]
NoData == [key |-> None, version |-> 0]
Idle == [at |-> "idle", key |-> None, version |-> 0]
NoWrite == [at |-> "idle", op |-> None, key |-> None, version |-> 0]

\* What the pages can write (create and remove of a list are as update; remove, unpause
\* and clearHistory of a detail page as pause), what of it the panel has a route for,
\* and what a hook follows with a refetch.
ListOps == {"update"}
DetailOps == {"update", "restart", "pause"}
HasRoute(op) == op # "restart"
Refetching(op) == hook.list \/ op = "update"

TypeOK == /\ version \in [Keys -> Versions]
          /\ fetch \in [Fetches -> [at: {"idle", "sent", "data", "error"},
                                    key: Keys \cup {None}, version: Versions]]
          /\ aborted \subseteq Fetches
          /\ live \in Fetches \cup {None}
          /\ hook \in [on: BOOLEAN, list: BOOLEAN, stable: BOOLEAN, key: Keys,
                       data: Data \cup {NoData}, loading: BOOLEAN, error: BOOLEAN]
          /\ dirty \in BOOLEAN
          /\ write \in [at: {"idle", "panel", "node", "done", "refused"},
                        op: ListOps \cup DetailOps \cup {None},
                        key: Keys \cup {None}, version: Versions]
          /\ wrote \in [Keys -> Versions]
          /\ crossed \in BOOLEAN

Init == /\ version = [k \in Keys |-> 0]
        /\ fetch = [f \in Fetches |-> Idle]
        /\ aborted = {}
        /\ live = None
        /\ hook \in {h \in [on: {FALSE}, list: BOOLEAN, stable: BOOLEAN, key: Keys,
                            data: {NoData}, loading: {FALSE}, error: {FALSE}] :
                       h.stable \/ h.list}
        /\ dirty = FALSE
        /\ write = NoWrite
        /\ wrote = version
        /\ crossed = FALSE

InFlight == {f \in Fetches : fetch[f].at # "idle"}
-----------------------------------------------------------------------------
(* The hook.                                                               *)

Cancelled == aborted \cup ({live} \ {None})

\* refetch with the fetcher of a key: cancel, a new controller, loading; the
\* state change makes a render.
Refetch(h, key) == \E f \in Fetches \ InFlight :
    /\ fetch' = [fetch EXCEPT ![f] = [at |-> "sent", key |-> key, version |-> 0]]
    /\ aborted' = Cancelled
    /\ live' = f
    /\ hook' = [h EXCEPT !.loading = TRUE, !.error = FALSE]
    /\ dirty' = ~h.stable

Mount == /\ ~hook.on
         /\ Refetch([hook EXCEPT !.on = TRUE, !.data = NoData], hook.key)
         /\ crossed' = FALSE
         /\ UNCHANGED <<version, write, wrote>>

\* The cleanup of the effect; React drops the state, and what the page's last
\* write still does is of no page (WriteElsewhere).
Unmount == /\ hook.on
           /\ aborted' = Cancelled
           /\ live' = None
           /\ hook' = [hook EXCEPT !.on = FALSE, !.loading = FALSE]
           /\ dirty' = FALSE
           /\ write' = NoWrite
           /\ UNCHANGED <<version, fetch, wrote, crossed>>

\* Another key is another fetcher: the effect cancels and fetches.
ChangeKey(k) == /\ hook.on /\ ~hook.list /\ k # hook.key
                /\ Refetch([hook EXCEPT !.key = k], k)
                /\ crossed' = (crossed \/ write # NoWrite)
                /\ UNCHANGED <<version, write, wrote>>

\* A render with a new fetcher has a new `refetch`, and the effect runs again.
Rerender == /\ dirty
            /\ Refetch(hook, hook.key)
            /\ UNCHANGED <<version, write, wrote, crossed>>

\* The timer waits for no answer; that of a list page comes after the time-out of
\* the request before.
Poll == /\ hook.on
        /\ hook.list => ~hook.loading
        /\ Refetch(hook, hook.key)
        /\ UNCHANGED <<version, write, wrote, crossed>>

\* What the hook makes of an answer, or of an error: the data it had stay.
Taken(f) == IF fetch[f].at = "error"
            THEN [hook EXCEPT !.loading = FALSE, !.error = TRUE]
            ELSE [hook EXCEPT !.data = [key |-> fetch[f].key, version |-> fetch[f].version],
                              !.loading = FALSE, !.error = FALSE]

Finish(f) == /\ live' = IF live = f THEN None ELSE live
             /\ aborted' = aborted \ {f}
             /\ fetch' = [fetch EXCEPT ![f] = Idle]
             /\ UNCHANGED <<version, write, wrote, crossed>>

\* A mutation: an answer is taken whether or not its controller was aborted.
ArriveAnyway(f) == /\ fetch[f].at \in {"data", "error"}
                   /\ hook' = IF hook.on THEN Taken(f) ELSE hook
                   /\ dirty' = ~hook.stable
                   /\ Finish(f)

\* A mutation: nothing is done with an error.
ArriveSilently(f) == /\ fetch[f].at \in {"data", "error"}
                     /\ hook' = IF f \in aborted \/ fetch[f].at = "error" THEN hook ELSE Taken(f)
                     /\ dirty' = (dirty \/ (~hook.stable /\ f \notin aborted))
                     /\ Finish(f)

\* Aborting a controller does not stop its fetch: the answer comes and is dropped.
Arrive(f) == /\ fetch[f].at \in {"data", "error"}
             /\ hook' = IF f \in aborted THEN hook ELSE Taken(f)
             /\ dirty' = (dirty \/ (~hook.stable /\ f \notin aborted))
             /\ Finish(f)
-----------------------------------------------------------------------------
(* The gateway and the node: reads.                                        *)

Answer(f) == /\ fetch[f].at = "sent"
             /\ fetch' = [fetch EXCEPT ![f] = [@ EXCEPT !.at = "data", !.version = version[fetch[f].key]]]
             /\ UNCHANGED <<version, page>>

\* The panel's own tables, or the proxies of all nodes at once, of which one that does
\* not answer has none.
ReadList(f) == hook.list /\ Answer(f)

\* A proxy and its statistics, as the node has them when it answers.
ReadDetail(f) == ~hook.list /\ Answer(f)

Read(f) == ReadList(f) \/ ReadDetail(f)

\* No row for the node (404), no connection or a time-out of the panel (502), an
\* error status of the node, the time-out of the browser: `request` throws.
ReadFails(f) == /\ fetch[f].at = "sent"
                /\ fetch' = [fetch EXCEPT ![f] = [Idle EXCEPT !.at = "error"]]
                /\ UNCHANGED <<version, page>>
-----------------------------------------------------------------------------
(* Writes.                                                                 *)

\* create, update and remove of useNodes; update and the others of useProxyDetail.
\* The callback keeps the key, and the refetch, of the render it was made in.
Write(op) ==
    /\ hook.on /\ write = NoWrite
    /\ op \in IF hook.list THEN ListOps ELSE DetailOps
    /\ write' = [NoWrite EXCEPT !.at = "panel", !.op = op, !.key = hook.key]
    /\ UNCHANGED <<version, fetch, aborted, live, hook, dirty, wrote, crossed>>

\* What a list shows of the panel's own table is written there and then.
Store == /\ write.at = "panel" /\ hook.list
         /\ version[write.key] < MaxVersion
         /\ version' = [version EXCEPT ![write.key] = @ + 1]
         /\ write' = [write EXCEPT !.at = "done", !.version = version[write.key] + 1]
         /\ UNCHANGED <<fetch, aborted, live, hook, dirty, wrote, crossed>>

\* The panel finds the row of the node, and passes the request on.
Forward == /\ write.at = "panel" /\ ~hook.list /\ HasRoute(write.op)
           /\ write' = [write EXCEPT !.at = "node"]
           /\ UNCHANGED <<version, fetch, aborted, live, hook, dirty, wrote, crossed>>

\* The node carries the request out and answers.
Carry == /\ write.at = "node"
         /\ version[write.key] < MaxVersion
         /\ version' = [version EXCEPT ![write.key] = @ + 1]
         /\ write' = [write EXCEPT !.at = "done", !.version = version[write.key] + 1]
         /\ UNCHANGED <<fetch, aborted, live, hook, dirty, wrote, crossed>>

\* No route or no row for the node, a refusal of the node, no connection: nothing was
\* changed.  After a time-out of the panel the node goes on (WriteElsewhere).
Refuse == /\ write.at \in {"panel", "node"}
          /\ write' = [write EXCEPT !.at = "refused"]
          /\ UNCHANGED <<version, fetch, aborted, live, hook, dirty, wrote, crossed>>

\* Others write too: another page, a write of a page that was left or given up on.
WriteElsewhere(k) == /\ version[k] < MaxVersion
                     /\ version' = [version EXCEPT ![k] = @ + 1]
                     /\ UNCHANGED <<fetch, page>>

\* An answer for another operation than those a refetch follows, or an error, which
\* is thrown to the page.
WrittenOnly == /\ write.at = "refused" \/ (write.at = "done" /\ ~Refetching(write.op))
               /\ write' = NoWrite
               /\ UNCHANGED <<version, fetch, aborted, live, hook, dirty, wrote, crossed>>

\* A mutation: the page does not fetch again after its write.
WrittenAlone == /\ write.at = "done" /\ Refetching(write.op)
                /\ write' = NoWrite
                /\ wrote' = [wrote EXCEPT ![write.key] = write.version]
                /\ UNCHANGED <<version, fetch, aborted, live, hook, dirty, crossed>>

\* A mutation: the write leaves its record, with an operation of no hook.
WrittenTwice == /\ write.at = "done" /\ Refetching(write.op)
                /\ write' = [write EXCEPT !.at = "panel", !.op = "again"]
                /\ UNCHANGED <<version, fetch, aborted, live, hook, dirty, wrote, crossed>>

\* After its write a hook fetches again, with the fetcher of the render it wrote in.
Written == /\ write.at = "done" /\ Refetching(write.op)
           /\ write' = NoWrite
           /\ wrote' = [wrote EXCEPT ![write.key] = write.version]
           /\ Refetch(hook, write.key)
           /\ UNCHANGED <<version, crossed>>
-----------------------------------------------------------------------------
Next == \/ Mount \/ Unmount \/ Rerender \/ Poll
        \/ \E k \in Keys : ChangeKey(k) \/ WriteElsewhere(k)
        \/ \E f \in Fetches : Arrive(f) \/ Read(f) \/ ReadFails(f)
        \/ \E op \in ListOps \cup DetailOps : Write(op)
        \/ Store \/ Forward \/ Carry \/ Refuse \/ WrittenOnly \/ Written

\* Answers come, or their time-outs, and are handled; renders happen.
Fairness == /\ \A f \in Fetches : WF_vars(Read(f) \/ ReadFails(f)) /\ WF_vars(Arrive(f))
            /\ WF_vars(Rerender)

Spec == Init /\ [][Next]_vars /\ Fairness
-----------------------------------------------------------------------------
(* useAsync.ts: what a page shows of one key never goes back to an earlier  *)
(* state of it, in whatever order the answers of its fetches come.         *)
DataNeverGoesBack ==
    [][hook.on /\ hook'.on /\ hook.data # NoData /\ hook'.data.key = hook.data.key
         => hook'.data.version >= hook.data.version]_vars

(* useNodes.ts, useProxyDetail.ts: a page at rest without an error shows    *)
(* what it was last asked for and wrote last, whatever fetch was under way  *)
(* when it wrote; unless it changed its key while it wrote, for then the    *)
(* refetch of the write is that of the earlier key.                        *)
RestingPageIsCurrent ==
    hook.on /\ ~hook.loading /\ ~hook.error =>
        /\ crossed \/ hook.data.key = hook.key
        /\ hook.data.key = hook.key => hook.data.version >= wrote[hook.key]

(* A list page with a memoised fetcher comes to show data or an error, or is *)
(* left, though answers fail, are slow or cross with its writes.            *)
PageFills == hook.on /\ hook.list /\ hook.stable ~> ~hook.on \/ ~hook.loading
=============================================================================
