----------------------------- MODULE AcmeOrder -----------------------------
(***************************************************************************)
(* Wildcard certificates of the panel: obtainWildcardCertificate of        *)
(* panel-backend/src/services/ssl/acme.ts with createTxtRecord and         *)
(* deleteTxtRecord of cloudflare.ts, called by the routes `obtain` and     *)
(* `renew` of routes/ssl.ts, several of them at once for one domain.       *)
(*                                                                         *)
(* `pc` names the await an order stands at.  What an order writes is known *)
(* by the order: the content of its TXT record, its certificate, its key.  *)
(* A DNS record is known by the order that created it.  The ACME server    *)
(* and Cloudflare are external, modelled by what acme.ts asks of them: the *)
(* challenge of an order is valid if a TXT record of the domain holds its  *)
(* content when the server looks.                                          *)
(***************************************************************************)
EXTENDS Naturals, FiniteSets

CONSTANTS Orders,      \* the calls of obtain and renew
          Faults,      \* what may fail: see FaultKinds
          MaxFaults,   \* bound: failures and crashes in a run
          Nobody,      \* no record, no file, no order
          Partial,     \* a file being written
          Mixed        \* a file with the bytes of two writers

FaultKinds == {"acme", "dns", "lost", "delete", "disk", "crash"}

ASSUME FaultsAssumption == Faults \subseteq FaultKinds
ASSUME MaxFaultsAssumption == MaxFaults \in Nat
ASSUME NamesAssumption == /\ \A x \in {Nobody, Partial, Mixed} : x \notin Orders
                          /\ Nobody # Partial /\ Nobody # Mixed /\ Partial # Mixed

VARIABLES
    pc,        \* the await each order stands at
    route,     \* the route that called it
    zone,      \* content of the TXT records of _acme-challenge, by creator
    found,     \* the record each order found or created
    cert, key, \* the two files
    faults,    \* failures so far
    hurt,      \* ghost: orders that met a failure or another order
    left,      \* ghost: orders that ended before the removal of their record
    last       \* ghost: the last order that began to write the files

vars == <<pc, route, zone, found, cert, key, faults, hurt, left, last>>

Settled == {"idle", "done", "failed", "thrown", "dead"}
Awaits == {"authorize", "lookup", "put", "post", "complete", "wait", "finalize",
           "openCert", "writeCert", "openKey", "writeKey", "cleanOk", "cleanFailed"}
Routes == {"obtain", "renew"}
Contents == Orders \cup {Nobody, Partial, Mixed}

TypeOK == /\ pc \in [Orders -> Settled \cup Awaits]
          /\ route \in [Orders -> Routes]
          /\ zone \in [Orders -> Orders \cup {Nobody}]
          /\ found \in [Orders -> Orders \cup {Nobody}]
          /\ cert \in Contents
          /\ key \in Contents
          /\ faults \in 0..MaxFaults
          /\ hurt \subseteq Orders
          /\ left \subseteq Orders
          /\ last \in Orders \cup {Nobody}

Init == /\ pc = [o \in Orders |-> "idle"]
        /\ route \in [Orders -> Routes]
        /\ zone = [o \in Orders |-> Nobody]
        /\ found = [o \in Orders |-> Nobody]
        /\ cert = Nobody
        /\ key = Nobody
        /\ faults = 0
        /\ hurt = {}
        /\ left = {}
        /\ last = Nobody

InFlight == {o \in Orders : pc[o] \notin Settled}
Records == {r \in Orders : zone[r] # Nobody}
dns == <<zone, found>>
files == <<cert, key, last>>
-----------------------------------------------------------------------------
(* How an order ends.                                                      *)

Goto(o, p) == pc' = [pc EXCEPT ![o] = p]

\* A failure of the kind k, as often as the bound allows.
Fault(k) == /\ k \in Faults
            /\ faults < MaxFaults
            /\ faults' = faults + 1

\* Every order under way dies with the panel, which Docker starts again.
PanelDies(except) ==
    /\ pc' = [q \in Orders |-> IF q \in except THEN "thrown"
                               ELSE IF q \in InFlight THEN "dead" ELSE pc[q]]
    /\ hurt' = hurt \cup InFlight
    /\ left' = left \cup InFlight

\* An error that nobody catches: `obtain` answers 500; the handler of `renew`
\* has no try, and an unhandled rejection ends the process.
Throw(o) ==
    IF route[o] = "renew"
    THEN PanelDies({o})
    ELSE /\ Goto(o, "thrown")
         /\ hurt' = hurt \cup {o}
         /\ left' = left \cup {o}

\* An error that is caught: cleanupRecords, then `success: false`.
GiveUp(o) == Goto(o, "cleanFailed") /\ UNCHANGED left
-----------------------------------------------------------------------------
(* Up to the order: mkdir, the account, the CSR, the zone, createOrder.     *)
(* Nothing is there to clean up.                                           *)

Begin(o) ==
    /\ pc[o] = "idle"
    /\ hurt' = IF InFlight = {} THEN hurt ELSE hurt \cup InFlight \cup {o}
    /\ Goto(o, "authorize")
    /\ UNCHANGED <<route, dns, files, faults, left>>

\* A caught failure up to createOrder, or getAuthorizations, which is not caught.
Authorize(o) ==
    /\ pc[o] = "authorize"
    /\ \/ Goto(o, "lookup") /\ UNCHANGED <<faults, hurt, left>>
       \/ Fault("acme") /\ Goto(o, "failed") /\ hurt' = hurt \cup {o} /\ UNCHANGED left
       \/ Fault("acme") /\ Throw(o)
    /\ UNCHANGED <<route, dns, files>>
-----------------------------------------------------------------------------
(* createTxtRecord.                                                        *)

\* A failed request to Cloudflare or to the ACME server.
Fails(o, k) == Fault(k) /\ GiveUp(o) /\ hurt' = hurt \cup {o}

\* A time-out of a request that Cloudflare has carried out: the error is caught,
\* but the id of the record never comes.
AnswerLost(o, r) == /\ Fault("lost")
                    /\ zone' = [zone EXCEPT ![r] = o]
                    /\ found' = [found EXCEPT ![o] = Nobody]
                    /\ Goto(o, "cleanFailed")
                    /\ hurt' = hurt \cup {o}
                    /\ left' = left \cup {o}

\* The records of that name: the first one is updated.
Lookup(o) ==
    /\ pc[o] = "lookup"
    /\ \/ /\ Records = {}
          /\ Goto(o, "post")
          /\ UNCHANGED <<found, faults, hurt, left>>
       \/ /\ \E r \in Records : found' = [found EXCEPT ![o] = r]
          /\ Goto(o, "put")
          /\ UNCHANGED <<faults, hurt, left>>
       \/ Fails(o, "dns") /\ UNCHANGED found
    /\ UNCHANGED <<route, zone, files>>

\* A mutation: a record that exists is taken as it is.
PutNothing(o) ==
    /\ pc[o] = "put"
    /\ Goto(o, "complete")
    /\ UNCHANGED <<route, dns, files, faults, hurt, left>>

\* The update of a record that may have been deleted since.
Put(o) ==
    /\ pc[o] = "put"
    /\ \/ /\ found[o] \in Records
          /\ zone' = [zone EXCEPT ![found[o]] = o]
          /\ Goto(o, "complete")
          /\ UNCHANGED <<found, faults, hurt, left>>
       \/ /\ IF found[o] \in Records THEN Fails(o, "dns")
             ELSE GiveUp(o) /\ UNCHANGED <<faults, hurt>>
          /\ found' = [found EXCEPT ![o] = Nobody]
          /\ UNCHANGED zone
       \/ found[o] \in Records /\ AnswerLost(o, found[o])
    /\ UNCHANGED <<route, files>>

\* A mutation: the id of the new record is not returned.
PostReturnsNothing(o) ==
    /\ pc[o] = "post"
    /\ zone' = [zone EXCEPT ![o] = o]
    /\ found' = [found EXCEPT ![o] = "undefined"]
    /\ Goto(o, "complete")
    /\ UNCHANGED <<route, files, faults, hurt, left>>

Post(o) ==
    /\ pc[o] = "post"
    /\ \/ /\ zone' = [zone EXCEPT ![o] = o]
          /\ found' = [found EXCEPT ![o] = o]
          /\ Goto(o, "complete")
          /\ UNCHANGED <<faults, hurt, left>>
       \/ Fails(o, "dns") /\ UNCHANGED dns
       \/ AnswerLost(o, o)
    /\ UNCHANGED <<route, files>>
-----------------------------------------------------------------------------
(* The challenge and the certificate.                                      *)

Complete(o) ==
    /\ pc[o] = "complete"
    /\ \/ Goto(o, "wait") /\ UNCHANGED <<faults, hurt, left>>
       \/ Fails(o, "acme")
    /\ UNCHANGED <<route, dns, files>>

\* A mutation: a challenge that fails returns without cleanupRecords.
WaitUnclean(o) ==
    /\ pc[o] = "wait"
    /\ \/ /\ \E r \in Records : zone[r] = o
          /\ Goto(o, "finalize")
          /\ UNCHANGED <<faults, hurt>>
       \/ /\ ~ \E r \in Records : zone[r] = o
          /\ Goto(o, "failed")
          /\ UNCHANGED <<faults, hurt>>
       \/ Fault("acme") /\ Goto(o, "failed") /\ hurt' = hurt \cup {o}
    /\ UNCHANGED <<route, dns, files, left>>

\* waitForValidStatus: the server looks for the content of the order.
Wait(o) ==
    /\ pc[o] = "wait"
    /\ \/ /\ \E r \in Records : zone[r] = o
          /\ Goto(o, "finalize")
          /\ UNCHANGED <<faults, hurt, left>>
       \/ /\ ~ \E r \in Records : zone[r] = o
          /\ GiveUp(o)
          /\ UNCHANGED <<faults, hurt>>
       \/ Fails(o, "acme")
    /\ UNCHANGED <<route, dns, files>>

\* finalizeOrder, and a certificate in its answer.
Finalize(o) ==
    /\ pc[o] = "finalize"
    /\ \/ Goto(o, "openCert") /\ UNCHANGED <<faults, hurt, left>>
       \/ Fails(o, "acme")
    /\ UNCHANGED <<route, dns, files>>
-----------------------------------------------------------------------------
(* fs.writeFile of the two files: truncated, then written.                 *)

Written(old, o) == IF old = Partial THEN {o} ELSE {o, Mixed}

DiskFails(o) == Fault("disk") /\ Throw(o)

OpenCert(o) ==
    /\ pc[o] = "openCert"
    /\ \/ /\ cert' = Partial
          /\ last' = o
          /\ Goto(o, "writeCert")
          /\ UNCHANGED <<faults, hurt, left>>
       \/ DiskFails(o) /\ UNCHANGED <<cert, last>>
    /\ UNCHANGED <<route, dns, key>>

WriteCert(o) ==
    /\ pc[o] = "writeCert"
    /\ \/ /\ cert' \in Written(cert, o)
          /\ Goto(o, "openKey")
          /\ UNCHANGED <<faults, hurt, left>>
       \/ DiskFails(o) /\ UNCHANGED cert
    /\ UNCHANGED <<route, dns, key, last>>

\* A mutation: a key that is written only once.
OpenKeyOnce(o) ==
    /\ pc[o] = "openKey"
    /\ IF key = Nobody
       THEN key' = Partial /\ Goto(o, "writeKey")
       ELSE Goto(o, "cleanOk") /\ UNCHANGED key
    /\ UNCHANGED <<route, dns, cert, last, faults, hurt, left>>

OpenKey(o) ==
    /\ pc[o] = "openKey"
    /\ \/ /\ key' = Partial
          /\ Goto(o, "writeKey")
          /\ UNCHANGED <<faults, hurt, left>>
       \/ DiskFails(o) /\ UNCHANGED key
    /\ UNCHANGED <<route, dns, cert, last>>

WriteKey(o) ==
    /\ pc[o] = "writeKey"
    /\ \/ /\ key' \in Written(key, o)
          /\ Goto(o, "cleanOk")
          /\ UNCHANGED <<faults, hurt, left>>
       \/ DiskFails(o) /\ UNCHANGED key
    /\ UNCHANGED <<route, dns, cert, last>>
-----------------------------------------------------------------------------
(* cleanupRecords, whose failures are swallowed, and the answer.           *)

Clean(o) ==
    /\ pc[o] \in {"cleanOk", "cleanFailed"}
    /\ Goto(o, IF pc[o] = "cleanOk" THEN "done" ELSE "failed")
    /\ \/ /\ zone' = [r \in Orders |-> IF r = found[o] THEN Nobody ELSE zone[r]]
          /\ UNCHANGED <<faults, left>>
       \/ /\ found[o] # Nobody
          /\ Fault("delete")
          /\ left' = left \cup {o}
          /\ UNCHANGED zone
    /\ UNCHANGED <<route, found, files, hurt>>

Crash ==
    /\ InFlight # {}
    /\ Fault("crash")
    /\ PanelDies({})
    /\ UNCHANGED <<route, dns, files>>

Next == \/ Crash
        \/ \E o \in Orders :
             \/ Begin(o) \/ Authorize(o) \/ Lookup(o) \/ Put(o) \/ Post(o)
             \/ Complete(o) \/ Wait(o) \/ Finalize(o)
             \/ OpenCert(o) \/ WriteCert(o) \/ OpenKey(o) \/ WriteKey(o) \/ Clean(o)

Spec == Init /\ [][Next]_vars
-----------------------------------------------------------------------------
AtRest == InFlight = {}

\* A TXT record stays in the zone only through an order that was killed, threw,
\* could not delete it or never learnt its id: every error that acme.ts catches cleans up, also when
\* orders find, change and delete each other's record.
LeftoversAreExcused == AtRest => \A r \in Records : zone[r] \in left

\* An order that met no failure and no other order gets its certificate, also
\* over a record or a file that an earlier order left behind.
FailureHasCause == \A o \in Orders : pc[o] \in {"failed", "thrown"} => o \in hurt

\* After such an order has answered, and until another writes, the certificate
\* and the key on disk are its own.
SuccessIsOnDisk ==
    last # Nobody /\ last \notin hurt /\ pc[last] = "done" => cert = last /\ key = last
=============================================================================
