------------------------------ MODULE FifoLock ------------------------------
(***************************************************************************)
(* What a mutex owes its callers: a call that asks takes the next place in *)
(* the order, the lock admits one call at a time, in that order, and a     *)
(* call that was admitted may leave.  Grants says whether the lock admits  *)
(* anybody at all: FALSE is a lock that is never handed out.               *)
(*                                                                         *)
(* The writers of store/index.ts are verified against this lock, for both  *)
(* values of Grants.  StoreProofs shows which value each form of           *)
(* AsyncMutex.acquire implements.                                          *)
(***************************************************************************)
EXTENDS Naturals, FiniteSets

CONSTANTS Calls,        \* the calls of acquire(), one element per call
          Grants        \* does the lock ever admit a call?

VARIABLES ticket,       \* place of each call in the order, 0 before it asks
          inside,       \* the calls that hold the lock
          left          \* the calls that gave it back

lockVars == <<ticket, inside, left>>

LockTypeOK == /\ ticket \in [Calls -> Nat]
              /\ inside \subseteq Calls
              /\ left \subseteq Calls

Waiting(c) == ticket[c] > 0 /\ c \notin inside /\ c \notin left

Init == /\ ticket = [c \in Calls |-> 0]
        /\ inside = {}
        /\ left = {}

Asked == {c \in Calls : ticket[c] > 0}

\* Tickets are handed out in the order of the calls.
Ask(c) ==
    /\ ticket[c] = 0
    /\ ticket' = [ticket EXCEPT ![c] = Cardinality(Asked) + 1]
    /\ UNCHANGED <<inside, left>>

\* A mutation: a lock that does not look whether somebody is inside.
EnterBeside(c) ==
    /\ Grants
    /\ Waiting(c)
    /\ inside' = inside \cup {c}
    /\ UNCHANGED <<ticket, left>>

Enter(c) ==
    /\ Grants
    /\ Waiting(c)
    /\ inside = {}
    /\ \A d \in Calls : Waiting(d) => ticket[c] <= ticket[d]
    /\ inside' = {c}
    /\ UNCHANGED <<ticket, left>>

Leave(c) ==
    /\ c \in inside
    /\ inside' = inside \ {c}
    /\ left' = left \cup {c}
    /\ UNCHANGED ticket

Next == \E c \in Calls : Ask(c) \/ Enter(c) \/ Leave(c)

Spec == Init /\ [][Next]_lockVars
=============================================================================
