----------------------------- MODULE NginxConfig -----------------------------
(***************************************************************************)
(* generateNginxConfig of service-node/src/services/nginx.ts, lines 38-165,*)
(* as an operator from the list of proxies to the stream configuration,    *)
(* and what nginx makes of such a configuration.                           *)
(*                                                                         *)
(* A list of proxies is a function on the places it has in an array:       *)
(* leaving some out (filter) keeps the places, and so the order, of the    *)
(* others.                                                                 *)
(*                                                                         *)
(* A proxy is a record with the fields id, domain, port (Shared for a proxy*)
(* on nginx's own port), limit (0 for none) and status.  A listen address  *)
(* is a dedicated port or, for the loopback servers that carry the         *)
(* connection limits, a number counted from 0 (127.0.0.1:10001 and up).    *)
(***************************************************************************)
EXTENDS Naturals, FiniteSetsExt

CONSTANTS Shared,    \* the port nginx shares among the proxies by their SNI
          Fallback   \* what a connection that no rule matches is sent to

Running(list) == {k \in DOMAIN list : list[k].status = "running"}
\* A mutation: the map also has the proxies with a port of their own.
EveryProxy(list) == Running(list)

SharedProxies(list) == {k \in Running(list) : list[k].port = Shared}
PortProxies(list) == {k \in Running(list) : list[k].port # Shared}
LimitedProxies(list) == {k \in SharedProxies(list) : list[k].limit > 0}

\* limitPortMap: the loopback port by domain, the last proxy's if it repeats, which
\* is numbered by the limited proxies before it.
LoopbacksOf(list, d) == {k \in LimitedProxies(list) : list[k].domain = d}
LoopbackOf(list, d) ==
    Cardinality({k \in LimitedProxies(list) : k < Max(LoopbacksOf(list, d))})

\* mapEntries: a limited domain goes through its loopback server.
MapEntry(list, p) ==
    [sni |-> p.domain,
     to |-> IF LoopbacksOf(list, p.domain) = {} THEN p.id ELSE LoopbackOf(list, p.domain)]
MapEntries(list) == [k \in SharedProxies(list) |-> MapEntry(list, list[k])]

\* limitBlocks: a loopback server per limited proxy, with a zone of the domain.
LimitServer(list, p) == [listen |-> LoopbackOf(list, p.domain), to |-> p.id,
                         zone |-> p.domain, limit |-> p.limit]
LimitServers(list) == [k \in LimitedProxies(list) |-> LimitServer(list, list[k])]

\* portGroups: the first proxy of a dedicated port gets the port.
FirstOnPort(list) ==
    {k \in PortProxies(list) :
        ~ \E j \in PortProxies(list) : j < k /\ list[j].port = list[k].port}

\* portBlocks
PortServer(p) == [listen |-> p.port, to |-> p.id, zone |-> p.port, limit |-> p.limit]
PortServers(list) == {PortServer(list[k]) : k \in FirstOnPort(list)}

Generate(list) == [map |-> MapEntries(list),
                   loopbacks |-> LimitServers(list),
                   dedicated |-> PortServers(list)]
-----------------------------------------------------------------------------
(* nginx.                                                                  *)

Unique(s) == \A j, k \in DOMAIN s : s[j] = s[k] => j = k

\* nginx refuses a map with a key twice and two servers on one address.
Accepted(conf) == /\ Unique([k \in DOMAIN conf.map |-> conf.map[k].sni])
                  /\ Unique([k \in DOMAIN conf.loopbacks |-> conf.loopbacks[k].listen])

\* Where a connection to nginx's own port ends, and the limit on its way.
RouteBySni(conf, sni) ==
    LET entries == {k \in DOMAIN conf.map : conf.map[k].sni = sni}
        to == conf.map[CHOOSE k \in entries : TRUE].to
        loopbacks == {k \in DOMAIN conf.loopbacks : conf.loopbacks[k].listen = to}
        server == conf.loopbacks[CHOOSE k \in loopbacks : TRUE] IN
    IF entries = {} THEN [to |-> Fallback, limit |-> 0]
    ELSE IF loopbacks = {} THEN [to |-> to, limit |-> 0]
    ELSE [to |-> server.to, limit |-> server.limit]

RouteByPort(conf, port) ==
    LET servers == {s \in conf.dedicated : s.listen = port}
        server == CHOOSE s \in servers : TRUE IN
    IF servers = {} THEN [to |-> Fallback, limit |-> 0]
    ELSE [to |-> server.to, limit |-> server.limit]

\* Where the link of the proxy p leads a user.
Route(conf, p) == IF p.port = Shared THEN RouteBySni(conf, p.domain)
                  ELSE RouteByPort(conf, p.port)
=============================================================================
