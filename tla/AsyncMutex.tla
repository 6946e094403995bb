----------------------------- MODULE AsyncMutex -----------------------------
(***************************************************************************)
(* AsyncMutex of service-node/src/store/index.ts, lines 54-63, at the      *)
(* level of the promises it builds.                                        *)
(*                                                                         *)
(* Every call of acquire() makes a promise `next`, fulfilled when somebody *)
(* calls the `release` that acquire() hands out.  `this.chain` is replaced *)
(* by `this.chain.then(() => next)`: after k calls it is fulfilled when    *)
(* the `next` of each of the k calls is.  What the caller awaits is        *)
(*                                                                         *)
(*     const wait = this.chain.then(() => next);          (line 59)        *)
(*     return wait.then(() => release);                   (line 61)        *)
(*                                                                         *)
(* A promise returned from a then-callback is adopted, so `wait` is        *)
(* fulfilled only after the call's OWN `next` is.  WaitAdoptsNext = TRUE   *)
(* is that line; FALSE is the line with `wait` being the chain as it was   *)
(* before the call, which is what "serialize through a mutex" (line 20)    *)
(* needs.                                                                  *)
(*                                                                         *)
(* The names that every specification has begin with Mutex here, because   *)
(* StoreProofs speaks of this module and of JsonStore together.            *)
(***************************************************************************)
EXTENDS Integers, FiniteSets

CONSTANTS Calls,            \* the calls of acquire(), one element per call
          WaitAdoptsNext    \* TRUE: line 59 as it is written

ASSUME CallsAssumption == IsFiniteSet(Calls)
ASSUME WaitAssumption == WaitAdoptsNext \in BOOLEAN

VARIABLES at,         \* place of each call in the chain, 0 before acquire()
          fulfilled,  \* the calls whose `next` is fulfilled
          handed      \* the calls whose caller was handed `release`

mutexVars == <<at, fulfilled, handed>>

MutexTypeOK == /\ at \in [Calls -> Nat]
               /\ fulfilled \subseteq Calls
               /\ handed \subseteq Calls

MutexInit == /\ at = [c \in Calls |-> 0]
             /\ fulfilled = {}
             /\ handed = {}

Acquired == {c \in Calls : at[c] > 0}

\* Mutations: a chain that forgets all but its first promise, and one that a call
\* joins at its head.
ChainOfFirst(c) == \A d \in Acquired : at[d] = 1 /\ at[c] > 1 => d \in fulfilled
ChainOfLater(c) == \A d \in Acquired : at[d] > at[c] => d \in fulfilled

\* this.chain as the call c found it: the `next` of every earlier call.
ChainFulfilled(c) == \A d \in Acquired : at[d] < at[c] => d \in fulfilled

\* A mutation: a caller that waits for its own release, whatever line 59 says.
WaitForItself(c) == ChainFulfilled(c) /\ c \in fulfilled

WaitFulfilled(c) ==
    /\ ChainFulfilled(c)
    /\ WaitAdoptsNext => c \in fulfilled

\* A mutation: places counted from below zero.
AcquireFromBelow(c) ==
    /\ at[c] = 0
    /\ at' = [at EXCEPT ![c] = Cardinality(Acquired) - 1]
    /\ UNCHANGED <<fulfilled, handed>>

\* The synchronous part of acquire(): lines 57-60.
Acquire(c) ==
    /\ at[c] = 0
    /\ at' = [at EXCEPT ![c] = Cardinality(Acquired) + 1]
    /\ UNCHANGED <<fulfilled, handed>>

\* The caller's `await storeMutex.acquire()` resumes: line 61.
HandOver(c) ==
    /\ c \in Acquired \ handed
    /\ WaitFulfilled(c)
    /\ handed' = handed \cup {c}
    /\ UNCHANGED <<at, fulfilled>>

\* The caller calls release(); a second call does nothing.
Release(c) ==
    /\ c \in handed \ fulfilled
    /\ fulfilled' = fulfilled \cup {c}
    /\ UNCHANGED <<at, handed>>

MutexNext == \E c \in Calls : Acquire(c) \/ HandOver(c) \/ Release(c)

MutexSpec == MutexInit /\ [][MutexNext]_mutexVars

\* Promise jobs run as soon as they can, and the callers of this property's
\* run call release() in a `finally`.
FairMutexSpec == /\ MutexSpec
                 /\ \A c \in Calls : WF_mutexVars(HandOver(c)) /\ WF_mutexVars(Release(c))
-----------------------------------------------------------------------------
Holders == handed \ fulfilled

\* Two callers never are between acquire() and release() at once, for either
\* form of line 59.
MutualExclusion == \A c, d \in Holders : c = d

\* With line 59 as written nobody is ever handed the lock: the promise that
\* acquire() returns waits for a release that only its own value can call.
NobodyEnters == WaitAdoptsNext => handed = {}

\* Whoever calls acquire() is handed the lock in the end: what every writer of
\* the store relies on when it awaits the mutex.
EveryAcquireResumes == \A c \in Calls : (at[c] > 0) ~> (c \in handed)

\* The promise chain is a first-come-first-served lock, one that never admits
\* anybody when line 59 is as written.
ChainLock == INSTANCE FifoLock WITH Grants <- ~WaitAdoptsNext,
                                    ticket <- at,
                                    inside <- Holders,
                                    left <- fulfilled
ImplementsLock == ChainLock!Spec
=============================================================================
