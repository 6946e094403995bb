---------------------------- MODULE ManagedProxy ----------------------------
(***************************************************************************)
(* What a service node promises of each of its proxies, whatever requests  *)
(* about others run beside: a request takes place at once or not at all,   *)
(* what was answered survives a restart of the node, and a failure leaves  *)
(* the proxy as it was or as it was asked for.  A proxy whose requests     *)
(* overlapped, or were cut off where the code does not repair, is Unknown  *)
(* from then on: nothing is promised of it.                                *)
(***************************************************************************)
CONSTANTS Ids,
          Settings,  \* what a proxy can be
          None,      \* there is no proxy
          Unknown,
          Nothing    \* no request is under way

VARIABLES proxy,     \* what each id is, or was when the request under way came
          durable,   \* what it would be after a restart of the node
          asked      \* what the request under way is to make of it

proxyVars == <<proxy, durable, asked>>

Idle(i) == asked[i] = Nothing

Init == /\ proxy \in [Ids -> Settings \cup {None}]
        /\ durable = proxy
        /\ asked = [i \in Ids |-> Nothing]

\* A request comes: it makes a proxy, changes it (perhaps into itself) or removes it.
Ask(i) == /\ Idle(i) /\ proxy[i] # Unknown
          /\ \E want \in Settings \cup {None} :
                /\ proxy[i] # None \/ want # None
                /\ asked' = [asked EXCEPT ![i] = want]
          /\ UNCHANGED <<proxy, durable>>

\* The file is written: what is stored of ids at rest is what they are.
Written == [i \in Ids |-> IF Idle(i) THEN proxy[i] ELSE durable[i]]
Write == durable' = Written /\ UNCHANGED <<proxy, asked>>

\* The request is answered: what it asked for is there, and is kept.
Done(i) == /\ ~Idle(i)
           /\ proxy' = [proxy EXCEPT ![i] = asked[i]]
           /\ \E written \in {durable, Written} : durable' = [written EXCEPT ![i] = asked[i]]
           /\ asked' = [asked EXCEPT ![i] = Nothing]

\* It fails: nothing was done, or all of it, or all of it but to keep it.
Fail(i) == /\ ~Idle(i)
           /\ \E now \in {proxy[i], asked[i]} :
                 /\ proxy' = [proxy EXCEPT ![i] = now]
                 /\ \E kept \in {durable[i], now} : durable' = [durable EXCEPT ![i] = kept]
           /\ asked' = [asked EXCEPT ![i] = Nothing]

\* Two requests about the proxy overlap, or one is left half way.
Lose(i) == /\ proxy' = [proxy EXCEPT ![i] = Unknown]
           /\ durable' = [durable EXCEPT ![i] = Unknown]
           /\ asked' = [asked EXCEPT ![i] = Nothing]

\* The node starts again; what was under way is lost.
Restart ==
    /\ proxy' = [i \in Ids |-> IF Idle(i) THEN durable[i] ELSE Unknown]
    /\ durable' = proxy'
    /\ asked' = [i \in Ids |-> Nothing]

Next == \/ Write \/ Restart
        \/ \E i \in Ids : Ask(i) \/ Done(i) \/ Fail(i) \/ Lose(i)

Spec == Init /\ [][Next]_proxyVars
=============================================================================
