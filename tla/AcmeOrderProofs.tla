-------------------------- MODULE AcmeOrderProofs --------------------------
(***************************************************************************)
(* Proofs about AcmeOrder, for any set of calls and any failures.          *)
(*                                                                         *)
(* None of the three properties is inductive.  LeftoversAreExcused needs   *)
(* to know whose each record is while orders are under way: the order      *)
(* whose content it holds still has its id, or has left it.  The other two *)
(* need that an order which met nobody is the only one under way, so that  *)
(* the record and the files are as its own last step left them.            *)
(***************************************************************************)
EXTENDS AcmeOrder, TLAPS

Holding == {"complete", "wait", "finalize", "openCert", "writeCert", "openKey",
            "writeKey", "cleanOk", "cleanFailed"}
WritingPair == {"writeCert", "openKey", "writeKey"}

RecordsAreOwned ==
    \A r \in Orders : zone[r] # Nobody =>
        zone[r] \in left \/ (pc[zone[r]] \in Holding /\ found[zone[r]] = r)

UnhurtIsAlone == \A o, q \in InFlight : o \notin hurt => q = o

UnhurtHasRecord ==
    \A o \in Orders \ hurt :
        /\ pc[o] = "put" => found[o] \in Records
        /\ pc[o] \in {"complete", "wait"} => found[o] \in Orders /\ zone[found[o]] = o
        /\ pc[o] \notin {"cleanFailed", "failed", "thrown"}

UnhurtHasFiles ==
    \A o \in Orders \ hurt :
        /\ pc[o] \in WritingPair \cup {"cleanOk"} => last = o
        /\ pc[o] = "writeCert" => cert = Partial
        /\ pc[o] \in {"openKey", "writeKey", "cleanOk"} => cert = o
        /\ pc[o] = "writeKey" => key = Partial
        /\ pc[o] = "cleanOk" => key = o

PairIsLeftAlone ==
    \A o \in Orders \ hurt : pc[o] = "done" /\ last = o =>
        /\ cert = o /\ key = o
        /\ \A q \in Orders : pc[q] \notin WritingPair

IInv == /\ TypeOK
        /\ RecordsAreOwned
        /\ UnhurtIsAlone
        /\ UnhurtHasRecord
        /\ UnhurtHasFiles
        /\ PairIsLeftAlone
-----------------------------------------------------------------------------
\* Nothing has happened yet.
LEMMA InitInductive == Init => IInv
  BY NamesAssumption, MaxFaultsAssumption
     DEF Init, IInv, TypeOK, Settled, Awaits, Contents, RecordsAreOwned, UnhurtIsAlone, InFlight,
         UnhurtHasRecord, UnhurtHasFiles, PairIsLeftAlone, WritingPair

\* A second order hurts the first and itself: nothing is left to show of them.
LEMMA BeginInductive ==
    ASSUME IInv, NEW o \in Orders, Begin(o)
    PROVE  IInv'
  <1> USE NamesAssumption, MaxFaultsAssumption DEF IInv, Begin, Goto, dns, files
  <1>1. TypeOK'
    BY DEF TypeOK, Settled, Awaits, Contents, InFlight, Records
  <1>2. RecordsAreOwned'
    BY DEF TypeOK, RecordsAreOwned, Holding, Records, InFlight, Settled, Awaits
  <1>3. UnhurtIsAlone'
    BY DEF TypeOK, UnhurtIsAlone, InFlight, Settled, Awaits
  <1>4. UnhurtHasRecord'
    BY DEF TypeOK, UnhurtHasRecord, UnhurtIsAlone, InFlight, Settled, Awaits, Records
  <1>5. UnhurtHasFiles'
    BY DEF TypeOK, UnhurtHasFiles, UnhurtIsAlone, InFlight, Settled, Awaits, WritingPair
  <1>6. PairIsLeftAlone'
    BY DEF TypeOK, PairIsLeftAlone, UnhurtHasFiles, UnhurtIsAlone, InFlight, Settled, Awaits, WritingPair
  <1> QED
    BY <1>1, <1>2, <1>3, <1>4, <1>5, <1>6

\* Before createOrder there is neither a record nor a file.
LEMMA AuthorizeInductive ==
    ASSUME IInv, NEW o \in Orders, Authorize(o)
    PROVE  IInv'
  <1> USE NamesAssumption, MaxFaultsAssumption DEF IInv, Authorize, Fault, Throw, PanelDies, Goto, dns, files
  <1>1. TypeOK'
    BY DEF TypeOK, Settled, Awaits, Contents, InFlight, Records
  <1>2. RecordsAreOwned'
    BY DEF TypeOK, RecordsAreOwned, Holding, Records, InFlight, Settled, Awaits
  <1>3. UnhurtIsAlone'
    BY DEF TypeOK, UnhurtIsAlone, InFlight, Settled, Awaits
  <1>4. UnhurtHasRecord'
    BY DEF TypeOK, UnhurtHasRecord, UnhurtIsAlone, InFlight, Settled, Awaits, Records
  <1>5. UnhurtHasFiles'
    BY DEF TypeOK, UnhurtHasFiles, UnhurtIsAlone, InFlight, Settled, Awaits, WritingPair
  <1>6. PairIsLeftAlone'
    BY DEF TypeOK, PairIsLeftAlone, UnhurtHasFiles, UnhurtIsAlone, InFlight, Settled, Awaits, WritingPair
  <1> QED
    BY <1>1, <1>2, <1>3, <1>4, <1>5, <1>6

\* What the lookup finds is in the zone, and stays there if nobody else runs.
LEMMA LookupInductive ==
    ASSUME IInv, NEW o \in Orders, Lookup(o)
    PROVE  IInv'
  <1> USE NamesAssumption, MaxFaultsAssumption DEF IInv, Lookup, Fails, Fault, GiveUp, Goto, dns, files
  <1>1. TypeOK'
    BY DEF TypeOK, Settled, Awaits, Contents, Records
  <1>2. RecordsAreOwned'
    BY DEF TypeOK, RecordsAreOwned, Holding, Records, InFlight, Settled, Awaits
  <1>3. UnhurtIsAlone'
    BY DEF TypeOK, UnhurtIsAlone, InFlight, Settled, Awaits
  <1>4. UnhurtHasRecord'
    BY DEF TypeOK, UnhurtHasRecord, UnhurtIsAlone, InFlight, Settled, Awaits, Records
  <1>5. UnhurtHasFiles'
    BY DEF TypeOK, UnhurtHasFiles, UnhurtIsAlone, InFlight, Settled, Awaits, WritingPair
  <1>6. PairIsLeftAlone'
    BY DEF TypeOK, PairIsLeftAlone, UnhurtHasFiles, UnhurtIsAlone, InFlight, Settled, Awaits, WritingPair
  <1> QED
    BY <1>1, <1>2, <1>3, <1>4, <1>5, <1>6

\* The record now holds the order's content and the order has its id, or the
\* order goes on without it.
LEMMA PutInductive ==
    ASSUME IInv, NEW o \in Orders, Put(o)
    PROVE  IInv'
  <1> USE NamesAssumption, MaxFaultsAssumption DEF IInv, Put, Fails, Fault, GiveUp, AnswerLost, Goto, dns, files
  <1>1. TypeOK'
    BY DEF TypeOK, Settled, Awaits, Contents, InFlight, Records
  <1>2. RecordsAreOwned'
    BY DEF TypeOK, RecordsAreOwned, Holding, Records, InFlight, Settled, Awaits
  <1>3. UnhurtIsAlone'
    BY DEF TypeOK, UnhurtIsAlone, InFlight, Settled, Awaits
  <1>4. UnhurtHasRecord'
    BY DEF TypeOK, UnhurtHasRecord, UnhurtIsAlone, InFlight, Settled, Awaits, Records
  <1>5. UnhurtHasFiles'
    BY DEF TypeOK, UnhurtHasFiles, UnhurtIsAlone, InFlight, Settled, Awaits, WritingPair
  <1>6. PairIsLeftAlone'
    BY DEF TypeOK, PairIsLeftAlone, UnhurtHasFiles, UnhurtIsAlone, InFlight, Settled, Awaits, WritingPair
  <1> QED
    BY <1>1, <1>2, <1>3, <1>4, <1>5, <1>6

\* The new record holds the order's content.
LEMMA PostInductive ==
    ASSUME IInv, NEW o \in Orders, Post(o)
    PROVE  IInv'
  <1> USE NamesAssumption, MaxFaultsAssumption DEF IInv, Post, Fails, Fault, GiveUp, AnswerLost, Goto, dns, files
  <1>1. TypeOK'
    BY DEF TypeOK, Settled, Awaits, Contents, InFlight, Records
  <1>2. RecordsAreOwned'
    BY DEF TypeOK, RecordsAreOwned, Holding, Records, InFlight, Settled, Awaits
  <1>3. UnhurtIsAlone'
    BY DEF TypeOK, UnhurtIsAlone, InFlight, Settled, Awaits
  <1>4. UnhurtHasRecord'
    BY DEF TypeOK, UnhurtHasRecord, UnhurtIsAlone, InFlight, Settled, Awaits, Records
  <1>5. UnhurtHasFiles'
    BY DEF TypeOK, UnhurtHasFiles, UnhurtIsAlone, InFlight, Settled, Awaits, WritingPair
  <1>6. PairIsLeftAlone'
    BY DEF TypeOK, PairIsLeftAlone, UnhurtHasFiles, UnhurtIsAlone, InFlight, Settled, Awaits, WritingPair
  <1> QED
    BY <1>1, <1>2, <1>3, <1>4, <1>5, <1>6

\* Nothing changes but the await.
LEMMA CompleteInductive ==
    ASSUME IInv, NEW o \in Orders, Complete(o)
    PROVE  IInv'
  <1> USE NamesAssumption, MaxFaultsAssumption DEF IInv, Complete, Fails, Fault, GiveUp, Goto, dns, files
  <1>1. TypeOK'
    BY DEF TypeOK, Settled, Awaits, Contents, InFlight, Records
  <1>2. RecordsAreOwned'
    BY DEF TypeOK, RecordsAreOwned, Holding, Records, InFlight, Settled, Awaits
  <1>3. UnhurtIsAlone'
    BY DEF TypeOK, UnhurtIsAlone, InFlight, Settled, Awaits
  <1>4. UnhurtHasRecord'
    BY DEF TypeOK, UnhurtHasRecord, UnhurtIsAlone, InFlight, Settled, Awaits, Records
  <1>5. UnhurtHasFiles'
    BY DEF TypeOK, UnhurtHasFiles, UnhurtIsAlone, InFlight, Settled, Awaits, WritingPair
  <1>6. PairIsLeftAlone'
    BY DEF TypeOK, PairIsLeftAlone, UnhurtHasFiles, UnhurtIsAlone, InFlight, Settled, Awaits, WritingPair
  <1> QED
    BY <1>1, <1>2, <1>3, <1>4, <1>5, <1>6

\* An order that met nobody finds its content: the challenge is valid.
LEMMA WaitInductive ==
    ASSUME IInv, NEW o \in Orders, Wait(o)
    PROVE  IInv'
  <1> USE NamesAssumption, MaxFaultsAssumption DEF IInv, Wait, Fails, Fault, GiveUp, Goto, dns, files
  <1>1. TypeOK'
    BY DEF TypeOK, Settled, Awaits, Contents, InFlight, Records
  <1>2. RecordsAreOwned'
    BY DEF TypeOK, RecordsAreOwned, Holding, Records, InFlight, Settled, Awaits
  <1>3. UnhurtIsAlone'
    BY DEF TypeOK, UnhurtIsAlone, InFlight, Settled, Awaits
  <1>4. UnhurtHasRecord'
    BY DEF TypeOK, UnhurtHasRecord, UnhurtIsAlone, InFlight, Settled, Awaits, Records
  <1>5. UnhurtHasFiles'
    BY DEF TypeOK, UnhurtHasFiles, UnhurtIsAlone, InFlight, Settled, Awaits, WritingPair
  <1>6. PairIsLeftAlone'
    BY DEF TypeOK, PairIsLeftAlone, UnhurtHasFiles, UnhurtIsAlone, InFlight, Settled, Awaits, WritingPair
  <1> QED
    BY <1>1, <1>2, <1>3, <1>4, <1>5, <1>6

\* Nothing changes but the await.
LEMMA FinalizeInductive ==
    ASSUME IInv, NEW o \in Orders, Finalize(o)
    PROVE  IInv'
  <1> USE NamesAssumption, MaxFaultsAssumption DEF IInv, Finalize, Fails, Fault, GiveUp, Goto, dns, files
  <1>1. TypeOK'
    BY DEF TypeOK, Settled, Awaits, Contents, InFlight, Records
  <1>2. RecordsAreOwned'
    BY DEF TypeOK, RecordsAreOwned, Holding, Records, InFlight, Settled, Awaits
  <1>3. UnhurtIsAlone'
    BY DEF TypeOK, UnhurtIsAlone, InFlight, Settled, Awaits
  <1>4. UnhurtHasRecord'
    BY DEF TypeOK, UnhurtHasRecord, UnhurtIsAlone, InFlight, Settled, Awaits, Records
  <1>5. UnhurtHasFiles'
    BY DEF TypeOK, UnhurtHasFiles, UnhurtIsAlone, InFlight, Settled, Awaits, WritingPair
  <1>6. PairIsLeftAlone'
    BY DEF TypeOK, PairIsLeftAlone, UnhurtHasFiles, UnhurtIsAlone, InFlight, Settled, Awaits, WritingPair
  <1> QED
    BY <1>1, <1>2, <1>3, <1>4, <1>5, <1>6

\* The first file of a new pair.
LEMMA OpenCertInductive ==
    ASSUME IInv, NEW o \in Orders, OpenCert(o)
    PROVE  IInv'
  <1> USE NamesAssumption, MaxFaultsAssumption DEF IInv, OpenCert, DiskFails, Fault, Throw, PanelDies, Goto, dns, files
  <1>1. TypeOK'
    BY DEF TypeOK, Settled, Awaits, Contents, InFlight, Records
  <1>2. RecordsAreOwned'
    BY DEF TypeOK, RecordsAreOwned, Holding, Records, InFlight, Settled, Awaits
  <1>3. UnhurtIsAlone'
    BY DEF TypeOK, UnhurtIsAlone, InFlight, Settled, Awaits
  <1>4. UnhurtHasRecord'
    BY DEF TypeOK, UnhurtHasRecord, UnhurtIsAlone, InFlight, Settled, Awaits, Records
  <1>5. UnhurtHasFiles'
    BY DEF TypeOK, UnhurtHasFiles, UnhurtIsAlone, InFlight, Settled, Awaits, WritingPair
  <1>6. PairIsLeftAlone'
    BY DEF TypeOK, PairIsLeftAlone, UnhurtHasFiles, UnhurtIsAlone, InFlight, Settled, Awaits, WritingPair
  <1> QED
    BY <1>1, <1>2, <1>3, <1>4, <1>5, <1>6

\* An order that met nobody writes into an empty file.
LEMMA WriteCertInductive ==
    ASSUME IInv, NEW o \in Orders, WriteCert(o)
    PROVE  IInv'
  <1> USE NamesAssumption, MaxFaultsAssumption DEF IInv, WriteCert, Written, DiskFails, Fault, Throw, PanelDies, Goto, dns, files
  <1>1. TypeOK'
    BY DEF TypeOK, Settled, Awaits, Contents, InFlight, Records
  <1>2. RecordsAreOwned'
    BY DEF TypeOK, RecordsAreOwned, Holding, Records, InFlight, Settled, Awaits
  <1>3. UnhurtIsAlone'
    BY DEF TypeOK, UnhurtIsAlone, InFlight, Settled, Awaits
  <1>4. UnhurtHasRecord'
    BY DEF TypeOK, UnhurtHasRecord, UnhurtIsAlone, InFlight, Settled, Awaits, Records
  <1>5. UnhurtHasFiles'
    BY DEF TypeOK, UnhurtHasFiles, UnhurtIsAlone, InFlight, Settled, Awaits, WritingPair
  <1>6. PairIsLeftAlone'
    BY DEF TypeOK, PairIsLeftAlone, UnhurtHasFiles, UnhurtIsAlone, InFlight, Settled, Awaits, WritingPair
  <1> QED
    BY <1>1, <1>2, <1>3, <1>4, <1>5, <1>6

\* The second file of the pair.
LEMMA OpenKeyInductive ==
    ASSUME IInv, NEW o \in Orders, OpenKey(o)
    PROVE  IInv'
  <1> USE NamesAssumption, MaxFaultsAssumption DEF IInv, OpenKey, DiskFails, Fault, Throw, PanelDies, Goto, dns, files
  <1>1. TypeOK'
    BY DEF TypeOK, Settled, Awaits, Contents, InFlight, Records
  <1>2. RecordsAreOwned'
    BY DEF TypeOK, RecordsAreOwned, Holding, Records, InFlight, Settled, Awaits
  <1>3. UnhurtIsAlone'
    BY DEF TypeOK, UnhurtIsAlone, InFlight, Settled, Awaits
  <1>4. UnhurtHasRecord'
    BY DEF TypeOK, UnhurtHasRecord, UnhurtIsAlone, InFlight, Settled, Awaits, Records
  <1>5. UnhurtHasFiles'
    BY DEF TypeOK, UnhurtHasFiles, UnhurtIsAlone, InFlight, Settled, Awaits, WritingPair
  <1>6. PairIsLeftAlone'
    BY DEF TypeOK, PairIsLeftAlone, UnhurtHasFiles, UnhurtIsAlone, InFlight, Settled, Awaits, WritingPair
  <1> QED
    BY <1>1, <1>2, <1>3, <1>4, <1>5, <1>6

\* An order that met nobody ends with both files its own.
LEMMA WriteKeyInductive ==
    ASSUME IInv, NEW o \in Orders, WriteKey(o)
    PROVE  IInv'
  <1> USE NamesAssumption, MaxFaultsAssumption DEF IInv, WriteKey, Written, DiskFails, Fault, Throw, PanelDies, Goto, dns, files
  <1>1. TypeOK'
    BY DEF TypeOK, Settled, Awaits, Contents, InFlight, Records
  <1>2. RecordsAreOwned'
    BY DEF TypeOK, RecordsAreOwned, Holding, Records, InFlight, Settled, Awaits
  <1>3. UnhurtIsAlone'
    BY DEF TypeOK, UnhurtIsAlone, InFlight, Settled, Awaits
  <1>4. UnhurtHasRecord'
    BY DEF TypeOK, UnhurtHasRecord, UnhurtIsAlone, InFlight, Settled, Awaits, Records
  <1>5. UnhurtHasFiles'
    BY DEF TypeOK, UnhurtHasFiles, UnhurtIsAlone, InFlight, Settled, Awaits, WritingPair
  <1>6. PairIsLeftAlone'
    BY DEF TypeOK, PairIsLeftAlone, UnhurtHasFiles, UnhurtIsAlone, InFlight, Settled, Awaits, WritingPair
  <1> QED
    BY <1>1, <1>2, <1>3, <1>4, <1>5, <1>6

\* The order's only record goes, or it is left.
LEMMA CleanInductive ==
    ASSUME IInv, NEW o \in Orders, Clean(o)
    PROVE  IInv'
  <1> USE NamesAssumption, MaxFaultsAssumption DEF IInv, Clean, Fault, Goto, dns, files
  <1>1. TypeOK'
    BY DEF TypeOK, Settled, Awaits, Contents, InFlight, Records
  <1>2. RecordsAreOwned'
    BY DEF TypeOK, RecordsAreOwned, Holding, Records, InFlight, Settled, Awaits
  <1>3. UnhurtIsAlone'
    BY DEF TypeOK, UnhurtIsAlone, InFlight, Settled, Awaits
  <1>4. UnhurtHasRecord'
    BY DEF TypeOK, UnhurtHasRecord, UnhurtIsAlone, InFlight, Settled, Awaits, Records
  <1>5. UnhurtHasFiles'
    BY DEF TypeOK, UnhurtHasFiles, UnhurtIsAlone, InFlight, Settled, Awaits, WritingPair
  <1>6. PairIsLeftAlone'
    BY DEF TypeOK, PairIsLeftAlone, UnhurtHasFiles, UnhurtIsAlone, InFlight, Settled, Awaits, WritingPair
  <1> QED
    BY <1>1, <1>2, <1>3, <1>4, <1>5, <1>6

\* Orders that die with the panel are hurt and leave their records.
LEMMA CrashInductive ==
    ASSUME IInv, Crash
    PROVE  IInv'
  <1> USE NamesAssumption, MaxFaultsAssumption DEF IInv, Crash, Fault, PanelDies, dns, files
  <1>1. TypeOK'
    BY DEF TypeOK, Settled, Awaits, Contents, InFlight
  <1>2. RecordsAreOwned'
    BY DEF TypeOK, RecordsAreOwned, Holding, InFlight, Settled, Awaits
  <1>3. UnhurtIsAlone'
    BY DEF TypeOK, UnhurtIsAlone, InFlight, Settled, Awaits
  <1>4. UnhurtHasRecord'
    BY DEF TypeOK, UnhurtHasRecord, InFlight, Settled, Awaits, Records
  <1>5. UnhurtHasFiles'
    BY DEF TypeOK, UnhurtHasFiles, InFlight, Settled, Awaits, WritingPair
  <1>6. PairIsLeftAlone'
    BY DEF TypeOK, PairIsLeftAlone, InFlight, Settled, Awaits, WritingPair
  <1> QED
    BY <1>1, <1>2, <1>3, <1>4, <1>5, <1>6

\* Every step keeps the invariant.
LEMMA NextInductive == IInv /\ [Next]_vars => IInv'
  <1> SUFFICES ASSUME IInv, [Next]_vars PROVE IInv'
    OBVIOUS
  <1>1. CASE Crash
    BY <1>1, CrashInductive
  <1>2. ASSUME NEW o \in Orders, Begin(o) PROVE IInv'
    BY <1>2, BeginInductive
  <1>3. ASSUME NEW o \in Orders, Authorize(o) PROVE IInv'
    BY <1>3, AuthorizeInductive
  <1>4. ASSUME NEW o \in Orders, Lookup(o) PROVE IInv'
    BY <1>4, LookupInductive
  <1>5. ASSUME NEW o \in Orders, Put(o) PROVE IInv'
    BY <1>5, PutInductive
  <1>6. ASSUME NEW o \in Orders, Post(o) PROVE IInv'
    BY <1>6, PostInductive
  <1>7. ASSUME NEW o \in Orders, Complete(o) PROVE IInv'
    BY <1>7, CompleteInductive
  <1>8. ASSUME NEW o \in Orders, Wait(o) PROVE IInv'
    BY <1>8, WaitInductive
  <1>9. ASSUME NEW o \in Orders, Finalize(o) PROVE IInv'
    BY <1>9, FinalizeInductive
  <1>10. ASSUME NEW o \in Orders, OpenCert(o) PROVE IInv'
    BY <1>10, OpenCertInductive
  <1>11. ASSUME NEW o \in Orders, WriteCert(o) PROVE IInv'
    BY <1>11, WriteCertInductive
  <1>12. ASSUME NEW o \in Orders, OpenKey(o) PROVE IInv'
    BY <1>12, OpenKeyInductive
  <1>13. ASSUME NEW o \in Orders, WriteKey(o) PROVE IInv'
    BY <1>13, WriteKeyInductive
  <1>14. ASSUME NEW o \in Orders, Clean(o) PROVE IInv'
    BY <1>14, CleanInductive
  <1>15. CASE UNCHANGED vars
    BY <1>15 DEF vars, IInv, TypeOK, RecordsAreOwned, UnhurtIsAlone, InFlight, Records,
               UnhurtHasRecord, UnhurtHasFiles, PairIsLeftAlone
  <1> QED
    BY <1>1, <1>2, <1>3, <1>4, <1>5, <1>6, <1>7, <1>8, <1>9, <1>10, <1>11, <1>12, <1>13, <1>14, <1>15 DEF Next

\* The invariant holds of every behaviour.
LEMMA Inductive == Spec => []IInv
  BY InitInductive, NextInductive, PTL DEF Spec
-----------------------------------------------------------------------------
\* Every variable keeps its type, whatever fails: no order waits at an await that
\* acme.ts does not have.
THEOREM TypeCorrect == Spec => []TypeOK
  <1>1. IInv => TypeOK
    BY DEF IInv
  <1> QED
    BY <1>1, Inductive, PTL

\* At rest every record in the zone holds the content of an order that left it:
\* what acme.ts catches, it cleans up.
THEOREM CaughtErrorsCleanUp == Spec => []LeftoversAreExcused
  <1>1. IInv => LeftoversAreExcused
    <2> SUFFICES ASSUME IInv, AtRest, NEW r \in Records
                 PROVE  zone[r] \in left
      BY DEF LeftoversAreExcused
    <2>1. zone[r] \in Orders
      BY NamesAssumption DEF Records, IInv, TypeOK
    <2>2. pc[zone[r]] \notin Holding
      BY <2>1 DEF AtRest, InFlight, Settled, Holding
    <2> QED
      BY <2>2 DEF IInv, RecordsAreOwned, Records
  <1> QED
    BY <1>1, Inductive, PTL

\* An order that meets no failure and no other order does not fail.
THEOREM OnlyHurtOrdersFail == Spec => []FailureHasCause
  <1>1. IInv => FailureHasCause
    BY DEF IInv, UnhurtHasRecord, FailureHasCause
  <1> QED
    BY <1>1, Inductive, PTL

\* After it has answered, both files are its own until another order writes.
THEOREM UnhurtPairIsOnDisk == Spec => []SuccessIsOnDisk
  <1>1. IInv => SuccessIsOnDisk
    BY NamesAssumption DEF IInv, TypeOK, PairIsLeftAlone, SuccessIsOnDisk
  <1> QED
    BY <1>1, Inductive, PTL
=============================================================================
