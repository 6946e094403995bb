---------------------------- MODULE NodeHistory ----------------------------
(***************************************************************************)
(* The histories of a service node: the watcher of nginx's access log       *)
(* (nginx.ts) with its frames, its domain cache and its geo lookups,        *)
(* getProxyStats and deleteProxy (proxy.ts) across their awaits, and the    *)
(* two caches they write (store/index.ts), once NodeBoot's start is done.    *)
(*                                                                         *)
(* A line of the log is the address of a client and the domain it asked    *)
(* for; what the watcher skips (private, Telegram and blacklisted addresses, *)
(* malformed lines) is left out.  Docker sends the log in frames *)
(* of a header of two parts and a payload of half lines, and the frames in  *)
(* chunks cut anywhere.  The mutex is taken as it promises to work, the     *)
(* files are those of JsonStore, and two proxies with one domain are those  *)
(* of ProxyLifecycle.                                                      *)
(***************************************************************************)
EXTENDS Naturals, FiniteSetsExt, Sequences

CONSTANTS ProxyIds,    \* proxies there may be
          FakeDomains, \* their fake-TLS domains
          None,        \* no proxy
          Ips,         \* addresses of clients
          Calls,       \* getProxyStats calls at once: the collector's and the panel's
          MaxLines,    \* bound: lines logged while the watcher is connected
          MaxCreated   \* bound: proxies created in a run

ASSUME HistoryAssumption == /\ None \notin ProxyIds \cup FakeDomains
                            /\ MaxLines \in Nat /\ MaxCreated \in Nat

VARIABLES
    proxies,  \* the domain of each stored proxy (storeCache)
    wire,     \* what Docker has still to deliver of the log
    stream,   \* the watcher: connected, rawBuf, textBuf
    cache,    \* domainToProxyCache, once built
    ips,      \* ipHistoryCache: the addresses recorded for each proxy
    stats,    \* statsHistoryCache: does a proxy have snapshots
    looks,    \* geo lookups under way
    call,     \* the getProxyStats calls
    del,      \* the await a deletion of each proxy stands at
    gone,     \* ids of deleted proxies
    sent,     \* ghost: lines nginx logged since the watcher connected
    handled,  \* ghost: lines the watcher handled since then, and for which proxy
    excused,  \* ghost: ids deleted while something of theirs was under way
    settled   \* ghost: the cache was due to be built since the proxies changed last

historyVars == <<proxies, wire, stream, cache, ips, stats, looks, call, del, gone, sent,
                 handled, excused, settled>>
watcher == <<wire, stream, cache, sent, handled, settled>>

Lines == [ip: Ips, domain: FakeDomains]
NoCallOf == [at |-> "idle", id |-> None]
Off == [on |-> FALSE, raw |-> <<>>, text |-> <<>>]

HistoryTypeOK ==
    /\ proxies \in [ProxyIds -> FakeDomains \cup {None}]
    /\ stream.on \in BOOLEAN
    /\ cache \in [FakeDomains -> ProxyIds \cup {None}] \cup {None}
    /\ ips \in [ProxyIds -> SUBSET Ips]
    /\ stats \in [ProxyIds -> BOOLEAN]
    /\ looks \subseteq ProxyIds \X Ips
    /\ call \in [Calls -> [at: {"idle", "docker", "save", "record"}, id: ProxyIds \cup {None}]]
    /\ del \in [ProxyIds -> {"none", "docker", "stats", "ips"}]
    /\ gone \subseteq ProxyIds
    /\ excused \subseteq ProxyIds
    /\ settled \in BOOLEAN

HistoryInit == /\ proxies \in {p \in [ProxyIds -> FakeDomains \cup {None}] :
                                \A i, j \in ProxyIds : i # j /\ p[i] # None => p[i] # p[j]}
               /\ wire = <<>>
               /\ stream = Off
               /\ cache = None
               /\ ips = [i \in ProxyIds |-> {}]
               /\ stats = [i \in ProxyIds |-> FALSE]
               /\ looks = {}
               /\ call = [c \in Calls |-> NoCallOf]
               /\ del = [i \in ProxyIds |-> "none"]
               /\ gone = {}
               /\ sent = <<>>
               /\ handled = <<>>
               /\ excused = {}
               /\ settled = FALSE

OwnerOf(d) == {i \in ProxyIds : proxies[i] = d}

StoredIds == {i \in ProxyIds : proxies[i] # None}
-----------------------------------------------------------------------------
(* The log and the frames it comes in.                                     *)

\* The first half of a header, its second half with the length n of the payload, and
\* half a line; what is no length counts as 0 for one.
Type == [is |-> "type", n |-> 0, end |-> FALSE]
Size(n) == [is |-> "size", n |-> n, end |-> FALSE]
Half(line, end) == [is |-> "half", n |-> 0, line |-> line, end |-> end]

\* The first line of a connection comes in one frame, the next in two, and so on.
Framed(k, line) ==
    IF k % 2 = 1 THEN <<Type, Size(2), Half(line, FALSE), Half(line, TRUE)>>
    ELSE <<Type, Size(1), Half(line, FALSE), Type, Size(1), Half(line, TRUE)>>

\* nginx logs a connection.  What it logs while the watcher is away is lost: the
\* next connection asks for what comes since then.
Log(line) == /\ stream.on /\ Len(sent) < MaxLines
             /\ wire' = wire \o Framed(Len(sent) + 1, line)
             /\ sent' = Append(sent, line)
             /\ UNCHANGED <<proxies, stream, cache, ips, stats, looks, call, del, gone,
                            handled, excused, settled>>

\* A mutation: a chunk is taken for whole frames.
FrameInPart(raw) == Len(raw) >= 2

\* rawBuf holds a header and all of the payload it announces.
FrameIn(raw) == Len(raw) >= 2 /\ Len(raw) >= 2 + raw[2].n

\* The text is split at its ends: the lines, and what is left.  A line is both its
\* halves; anything else between two ends is no line of the log.
Ends(text) == {k \in DOMAIN text : text[k].end}
Whole(text) == {k \in Ends(text) : k > 1 /\ text[k-1] = Half(text[k].line, FALSE)}
LinesOf(text) ==
    LET nth(j) == CHOOSE k \in Whole(text) : Cardinality({m \in Whole(text) : m <= k}) = j
    IN [j \in 1..Cardinality(Whole(text)) |-> text[nth(j)].line]
RestOf(text) == SubSeq(text, Max(Ends(text) \cup {0}) + 1, Len(text))

\* One turn of the loop, from what the turns before it left (raw, text) and gave
\* (lines): the payload of the first frame goes to the text.
NextFrame(p) ==
    LET end == IF 2 + p.raw[2].n <= Len(p.raw) THEN 2 + p.raw[2].n ELSE Len(p.raw)
        text == p.text \o SubSeq(p.raw, 3, end)
    IN IF ~FrameIn(p.raw) THEN p
       ELSE [raw |-> SubSeq(p.raw, end + 1, Len(p.raw)),
             text |-> RestOf(text),
             lines |-> p.lines \o LinesOf(text)]

\* A chunk is in rawBuf: what is left of it, and the lines it completes.
Parse(raw, text) ==
    LET parsed[k \in 0..Len(raw)] ==
            IF k = 0 THEN [raw |-> raw, text |-> text, lines |-> <<>>]
            ELSE NextFrame(parsed[k-1])
    IN parsed[Len(raw)]
-----------------------------------------------------------------------------
(* The lines: processNginxLogLine with getProxyIdByDomain.                  *)

Fresh == [d \in FakeDomains |-> IF OwnerOf(d) = {} THEN None ELSE CHOOSE i \in OwnerOf(d) : TRUE]

\* A mutation: the cache is built once.
LookedUpOnce(expired) == IF cache = None THEN Fresh ELSE cache

\* DOMAIN_CACHE_TTL_MS have passed, or not.
LookedUp(expired) == IF expired THEN Fresh ELSE cache

\* A mutation: a domain of no proxy is recorded too.
FoundAny(entries) == DOMAIN entries

\* The lines whose domain is some proxy's.
Found(entries) == {k \in DOMAIN entries : entries[k].to # None}

\* Each line with the proxy the cache has for its domain: that proxy gets the address,
\* and a lookup of its country begins.
Process(entries) ==
    /\ ips' = [i \in ProxyIds |-> ips[i] \cup
                  {entries[k].line.ip : k \in {k \in Found(entries) : entries[k].to = i}}]
    /\ looks' = looks \cup {<<entries[k].to, entries[k].line.ip>> : k \in Found(entries)}
    /\ handled' = handled \o entries

\* A chunk of n parts, one or all there are: those between lead to the same states.
\* The loop over its lines runs in one turn of the event loop.
Data(n) ==
    /\ stream.on /\ n \in {1, Len(wire)} /\ wire # <<>>
    /\ LET parsed == Parse(stream.raw \o SubSeq(wire, 1, n), stream.text)
       IN /\ stream' = [stream EXCEPT !.raw = parsed.raw, !.text = parsed.text]
          /\ IF parsed.lines = <<>> THEN UNCHANGED <<cache, ips, looks, handled, settled>>
             ELSE \E expired \in IF cache = None THEN {TRUE} ELSE BOOLEAN :
                /\ cache' = LookedUp(expired)
                /\ Process([k \in DOMAIN parsed.lines |->
                              [line |-> parsed.lines[k],
                               to |-> LookedUp(expired)[parsed.lines[k].domain]]])
                /\ settled' = (settled \/ expired)
    /\ wire' = SubSeq(wire, n + 1, Len(wire))
    /\ UNCHANGED <<proxies, stats, call, del, gone, sent, excused>>

\* The answer of the geo service, which records the address once more, or none.
Located(look) ==
    /\ look \in looks
    /\ looks' = looks \ {look}
    /\ \/ ips' = [ips EXCEPT ![look[1]] = @ \cup {look[2]}]
       \/ UNCHANGED ips
    /\ UNCHANGED <<proxies, watcher, stats, call, del, gone, excused>>

\* The watcher starts three seconds after the start of the node is done, and five
\* after its stream has ended.
Connect == /\ ~stream.on
           /\ stream' = [Off EXCEPT !.on = TRUE]
           /\ UNCHANGED <<proxies, wire, cache, ips, stats, looks, call, del, gone,
                          sent, handled, excused, settled>>

Lost == /\ wire' = <<>> /\ stream' = Off
        /\ sent' = <<>> /\ handled' = <<>>

Disconnect == /\ stream.on /\ Lost
              /\ UNCHANGED <<proxies, cache, ips, stats, looks, call, del, gone,
                             excused, settled>>
-----------------------------------------------------------------------------
(* getProxyStats.                                                          *)

Step(c, at) == call' = [call EXCEPT ![c].at = at]

Collect(c, i) == /\ call[c].at = "idle" /\ i \in StoredIds
                 /\ call' = [call EXCEPT ![c] = [at |-> "docker", id |-> i]]
                 /\ UNCHANGED <<proxies, watcher, ips, stats, looks, del, gone, excused>>

\* The container's state and numbers, and the addresses in the tail of the log.
ReadDocker(c) ==
    /\ call[c].at = "docker"
    /\ Step(c, "save")
    /\ UNCHANGED <<proxies, watcher, ips, stats, looks, del, gone, excused>>

\* updateProxy, which ignores an id that is gone, then addStatsSnapshot: a proxy
\* without a history gets one.
Snapshot(c) == /\ call[c].at = "save"
               /\ stats' = [stats EXCEPT ![call[c].id] = TRUE]
               /\ Step(c, "record")
               /\ UNCHANGED <<proxies, watcher, ips, looks, del, gone, excused>>

\* The addresses it read; an error there was an empty list.
Record(c) == /\ call[c].at = "record"
             /\ \E found \in SUBSET Ips : ips' = [ips EXCEPT ![call[c].id] = @ \cup found]
             /\ call' = [call EXCEPT ![c] = NoCallOf]
             /\ UNCHANGED <<proxies, watcher, stats, looks, del, gone, excused>>

\* A container that does not run, or an error of Docker or of the file.
CollectEnds(c) == /\ call[c].at # "idle"
                  /\ call' = [call EXCEPT ![c] = NoCallOf]
                  /\ UNCHANGED <<proxies, watcher, ips, stats, looks, del, gone, excused>>
-----------------------------------------------------------------------------
(* Proxies come and go.                                                    *)

Proxies(p) == /\ proxies' = p
              /\ settled' = FALSE

\* createProxy draws a new id; updateProxy may take another domain.
CreateProxy(i, d) == /\ i \notin StoredIds \cup gone /\ OwnerOf(d) = {}
                     /\ Cardinality(StoredIds \cup gone) < MaxCreated
                     /\ Proxies([proxies EXCEPT ![i] = d])
                     /\ UNCHANGED <<wire, stream, cache, ips, stats, looks, call, del, gone,
                                    sent, handled, excused>>

ChangeDomain(i, d) == /\ i \in StoredIds /\ OwnerOf(d) = {}
                      /\ Proxies([proxies EXCEPT ![i] = d])
                      /\ UNCHANGED <<wire, stream, cache, ips, stats, looks, call, del,
                                     gone, sent, handled, excused>>

Stand(i, at) == del' = [del EXCEPT ![i] = at]

\* deleteProxy: the container goes first.
Delete(i) == /\ i \in StoredIds /\ del[i] = "none"
             /\ Stand(i, "docker")
             /\ UNCHANGED <<proxies, watcher, ips, stats, looks, call, gone, excused>>

RemoveProxy(i) == /\ del[i] = "docker"
                  /\ Stand(i, "stats")
                  /\ gone' = gone \cup {i}
                  /\ Proxies([proxies EXCEPT ![i] = None])
                  /\ UNCHANGED <<wire, stream, cache, ips, stats, looks, call, sent,
                                 handled, excused>>

\* Ghost: what may still write a history of a proxy that is being deleted.
UnderWay(i) == \/ \E c \in Calls : call[c].id = i
               \/ \E ip \in Ips : <<i, ip>> \in looks
               \/ cache # None /\ \E d \in FakeDomains : cache[d] = i
Excuse(i) == excused' = IF UnderWay(i) THEN excused \cup {i} ELSE excused

RemoveStats(i) == /\ del[i] = "stats"
                  /\ Stand(i, "ips")
                  /\ stats' = [stats EXCEPT ![i] = FALSE]
                  /\ Excuse(i)
                  /\ UNCHANGED <<proxies, watcher, ips, looks, call, gone>>

\* A mutation: the answer is sent when the statistics are removed.
RemoveIpsNever(i) == /\ del[i] = "ips"
                     /\ Stand(i, "none")
                     /\ Excuse(i)
                     /\ UNCHANGED <<proxies, watcher, ips, stats, looks, call, gone>>

RemoveIps(i) == /\ del[i] = "ips"
                /\ Stand(i, "none")
                /\ ips' = [ips EXCEPT ![i] = {}]
                /\ Excuse(i)
                /\ UNCHANGED <<proxies, watcher, stats, looks, call, gone>>

\* clearProxyHistory: both removals at once.
Clear(i) == /\ i \in StoredIds
            /\ stats' = [stats EXCEPT ![i] = FALSE]
            /\ ips' = [ips EXCEPT ![i] = {}]
            /\ UNCHANGED <<proxies, watcher, looks, call, del, gone, excused>>

\* The process dies: what it had in memory only is lost.  Which of the histories the
\* files had is JsonStore's matter; here all of them.  An interrupted deletion ends
\* where it was, and what it left is excused.
Restart == /\ Lost
            /\ cache' = None
            /\ looks' = {}
            /\ call' = [c \in Calls |-> NoCallOf]
            /\ del' = [i \in ProxyIds |-> "none"]
            /\ excused' = excused \cup {i \in ProxyIds : del[i] \in {"stats", "ips"}}
            /\ settled' = FALSE
            /\ UNCHANGED <<proxies, ips, stats, gone>>
-----------------------------------------------------------------------------
HistoryNext == \/ Restart \/ Connect \/ Disconnect
               \/ \E line \in Lines : Log(line)
               \/ \E n \in 1..Len(wire) : Data(n)
               \/ \E look \in looks : Located(look)
               \/ \E c \in Calls : \/ ReadDocker(c) \/ Snapshot(c) \/ Record(c) \/ CollectEnds(c)
                                   \/ \E i \in ProxyIds : Collect(c, i)
               \/ \E i \in ProxyIds : \/ Delete(i) \/ RemoveProxy(i) \/ RemoveStats(i) \/ RemoveIps(i)
                                      \/ Clear(i)
                                      \/ \E d \in FakeDomains : CreateProxy(i, d) \/ ChangeDomain(i, d)

HistorySpec == HistoryInit /\ [][HistoryNext]_historyVars
-----------------------------------------------------------------------------
(* watchNginxLogs: however the log is cut into frames and chunks, every line *)
(* of a connection is handled once, in order and whole, as soon as its last *)
(* byte is there.                                                          *)
LinesArriveWhole ==
    LET lines == [k \in DOMAIN handled |-> handled[k].line]
        whole == Cardinality({k \in DOMAIN wire : wire[k].end})
    IN lines = SubSeq(sent, 1, Len(sent) - whole)

(* getProxyIdByDomain: connections are recorded for the proxy that has the   *)
(* domain now, or for none, unless proxies changed since the cache was      *)
(* built and its time to live has not passed.                              *)
RecordedForOwner ==
    [][\A k \in DOMAIN handled' \ DOMAIN handled :
          settled' =>
             LET owner == OwnerOf(handled'[k].line.domain)
             IN handled'[k].to \in IF owner = {} THEN {None} ELSE owner]_historyVars

(* A deleted proxy leaves no history, unless a collection, a geo lookup or   *)
(* a domain still in the cache was there when its histories were removed.   *)
HistoryGoesWithProxy ==
    \A i \in gone \ excused : del[i] = "none" => ips[i] = {} /\ ~stats[i]
=============================================================================
