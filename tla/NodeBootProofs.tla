--------------------------- MODULE NodeBootProofs ---------------------------
(***************************************************************************)
(* Proofs about NodeBoot, for any number of failures and deaths.           *)
(*                                                                         *)
(* StartsUnlessHindered is not inductive: at each call of Docker that       *)
(* bootstrap waits for one has to know that no request is there as well,    *)
(* and what that leaves nginx in, as long as nothing hindered the start;   *)
(* and that requests that come afterwards find nginx running.              *)
(***************************************************************************)
EXTENDS NodeBoot, TLAPS

Calling == {"nginx", "restore"}

\* bootstrap waits for ensureNginxContainer in the last two stages only, and HTTP is
\* not served in the first two.
CallsFitStage ==
    /\ boot \in Calling <=> user["boot"].at # "idle"
    /\ boot = "nginx" => ~user["boot"].update
    /\ boot = "restore" => user["boot"].update
    /\ boot \in {"down", "network"} => user["req"].at = "idle"

UnhinderedIsAlone == ~cause /\ boot \in Calling => user["req"].at = "idle"

\* What nginx is when an unhindered start waits for each call.
UnhinderedFinds ==
    ~cause /\ boot \in Calling =>
        /\ boot = "restore" => user["boot"].at \in {"inspect", "config"} /\ nginx.state = "running"
        /\ user["boot"].at = "startOld" => nginx.state = "created"
        /\ user["boot"].at = "create" => nginx.state = "none"
        /\ user["boot"].at \in {"put", "start"} => nginx.state = "created" /\ nginx.by = "boot"
        /\ user["boot"].at = "config" => nginx.state = "running"

UnhinderedIsServed ==
    ~cause /\ boot = "up" => /\ nginx.state = "running"
                             /\ user["req"].at \in {"idle", "inspect", "config"}

IInv == /\ TypeOK
        /\ CallsFitStage
        /\ UnhinderedIsAlone
        /\ UnhinderedFinds
        /\ UnhinderedIsServed
        /\ boot = "degraded" => cause

UserCalls == [Users -> [at: Ats, update: BOOLEAN, tries: 1..Attempts]]
-----------------------------------------------------------------------------
\* Moving a caller to another call of Docker keeps the callers' records well-formed.
LEMMA GotoTyped ==
    ASSUME user \in UserCalls, NEW u \in Users, NEW a \in Ats, Goto(u, a)
    PROVE  user' \in UserCalls
  BY DEF UserCalls, Goto

\* A new call is a well-formed record.
LEMMA CallTyped ==
    ASSUME user \in UserCalls, NEW u \in Users, NEW b \in BOOLEAN, Call(u, b)
    PROVE  user' \in UserCalls
  <1>1. [at |-> "inspect", update |-> b, tries |-> 1] \in [at: Ats, update: BOOLEAN, tries: 1..Attempts]
    BY DEF Ats, Attempts
  <1> QED
    BY <1>1 DEF UserCalls, Call

\* So is the one that stands for no call.
LEMMA NoCallTyped == NoCall \in [at: Ats, update: BOOLEAN, tries: 1..Attempts]
  BY DEF NoCall, Ats, Attempts

\* A caller that has ended is well-formed.
LEMMA IdleTyped ==
    ASSUME user \in UserCalls, NEW u \in Users
    PROVE  [user EXCEPT ![u] = NoCall] \in UserCalls
  BY NoCallTyped DEF UserCalls

\* And one that tries again.
LEMMA RetryTyped ==
    ASSUME user \in UserCalls, NEW u \in Users, user[u].tries < Attempts
    PROVE  [user EXCEPT ![u].tries = @ + 1] \in UserCalls
  BY DEF UserCalls, Attempts

\* A call that throws ends, and with it bootstrap's initialisation.
LEMMA ThrowsTyped ==
    ASSUME user \in UserCalls, boot \in Stages, NEW u \in Users, Throws(u)
    PROVE  user' \in UserCalls /\ boot' \in Stages
  BY IdleTyped DEF Throws, Stages

\* A call that returns ends, or is followed by the restoring one.
LEMMA EndedTyped ==
    ASSUME user \in UserCalls, boot \in Stages, NEW u \in Users, Ended(u)
    PROVE  user' \in UserCalls /\ boot' \in Stages
  <1>1. CASE Call(u, TRUE) /\ boot' = "restore"
    BY <1>1, CallTyped DEF Stages
  <1>2. CASE user' = [user EXCEPT ![u] = NoCall] /\ (boot' = "up" \/ boot' = boot)
    BY <1>2, IdleTyped DEF Stages
  <1> QED
    BY <1>1, <1>2 DEF Ended

\* Once nginx runs the caller goes on to the upload or ends.
LEMMA EnsuredTyped ==
    ASSUME user \in UserCalls, boot \in Stages, NEW u \in Users, Ensured(u)
    PROVE  user' \in UserCalls /\ boot' \in Stages
  BY GotoTyped, EndedTyped DEF Ensured, Ats

\* Nothing runs yet.
LEMMA InitInductive == Init => IInv
  <1> SUFFICES ASSUME Init PROVE IInv
    OBVIOUS
  <1>1. TypeOK
    <2>1. user \in UserCalls
      BY NoCallTyped DEF Init, UserCalls
    <2>2. nginx \in [state: {"none", "bridge", "created", "running"},
                    by: Users \cup {None}, conf: Confs]
      BY DEF Init, NoNginx, Confs
    <2>3. boot \in Stages /\ faults \in 0..MaxFaults
      BY MaxFaultsAssumption DEF Init, Stages
    <2>4. stored \in BOOLEAN /\ cause \in BOOLEAN
      BY DEF Init
    <2> QED
      BY <2>1, <2>2, <2>3, <2>4 DEF TypeOK, UserCalls
  <1> QED
    BY <1>1 DEF Init, IInv, CallsFitStage, UnhinderedIsAlone, UnhinderedFinds,
                UnhinderedIsServed, Calling, Users, NoCall

\* The stage before any call: nobody waits for nginx.
LEMMA StartProcessInductive ==
    ASSUME IInv, StartProcess
    PROVE  IInv'
  <1>1. TypeOK'
    <2> USE MaxFaultsAssumption, NoneAssumption
        DEF IInv, TypeOK, StartProcess
    <2>1. user' \in UserCalls /\ boot' \in Stages
      BY DEF UserCalls, Stages
    <2>2. (nginx \in [state: {"none", "bridge", "created", "running"},
                     by: Users \cup {None}, conf: Confs])'
      BY DEF NoNginx, Confs
    <2>3. (stored \in BOOLEAN /\ cause \in BOOLEAN)'
      BY DEF Fault, Degrades
    <2>4. (faults \in 0..MaxFaults)'
      BY DEF Fault, Degrades
    <2> QED
      BY <2>1, <2>2, <2>3, <2>4 DEF UserCalls
  <1> USE MaxFaultsAssumption, NoneAssumption
      DEF IInv, TypeOK, StartProcess,
          Users, Stages, Ats, Confs, Attempts, NoNginx, NoCall
  <1>2. CallsFitStage'
    BY DEF CallsFitStage, Calling
  <1>3. UnhinderedIsAlone'
    BY DEF CallsFitStage, UnhinderedIsAlone, UnhinderedFinds, Calling
  <1>4. UnhinderedFinds'
    BY DEF CallsFitStage, UnhinderedIsAlone, UnhinderedFinds, Calling
  <1>5. UnhinderedIsServed'
    BY DEF CallsFitStage, UnhinderedIsAlone, UnhinderedFinds, UnhinderedIsServed, Calling
  <1>6. (boot = "degraded" => cause)'
    BY DEF CallsFitStage, UnhinderedIsAlone, UnhinderedFinds, Calling
  <1> QED
    BY <1>1, <1>2, <1>3, <1>4, <1>5, <1>6

\* Nobody is served yet.
LEMMA EnsureNetworkInductive ==
    ASSUME IInv, EnsureNetwork
    PROVE  IInv'
  <1>1. TypeOK'
    <2> USE MaxFaultsAssumption, NoneAssumption
        DEF IInv, TypeOK, EnsureNetwork
    <2>1. user' \in UserCalls /\ boot' \in Stages
      BY DEF UserCalls, Stages
    <2>2. (nginx \in [state: {"none", "bridge", "created", "running"},
                     by: Users \cup {None}, conf: Confs])'
      BY DEF NoNginx, Confs
    <2>3. (stored \in BOOLEAN /\ cause \in BOOLEAN)'
      BY DEF Fault, Degrades
    <2>4. (faults \in 0..MaxFaults)'
      BY DEF Fault, Degrades
    <2> QED
      BY <2>1, <2>2, <2>3, <2>4 DEF UserCalls
  <1> USE MaxFaultsAssumption, NoneAssumption
      DEF IInv, TypeOK, EnsureNetwork, Fault,
          Users, Stages, Ats, Confs, Attempts, NoNginx, NoCall
  <1>2. CallsFitStage'
    BY DEF CallsFitStage, Calling
  <1>3. UnhinderedIsAlone'
    BY DEF CallsFitStage, UnhinderedIsAlone, UnhinderedFinds, Calling
  <1>4. UnhinderedFinds'
    BY DEF CallsFitStage, UnhinderedIsAlone, UnhinderedFinds, Calling
  <1>5. UnhinderedIsServed'
    BY DEF CallsFitStage, UnhinderedIsAlone, UnhinderedFinds, UnhinderedIsServed, Calling
  <1>6. (boot = "degraded" => cause)'
    BY DEF CallsFitStage, UnhinderedIsAlone, UnhinderedFinds, Calling
  <1> QED
    BY <1>1, <1>2, <1>3, <1>4, <1>5, <1>6

\* Failures are causes.
LEMMA ReconnectInductive ==
    ASSUME IInv, Reconnect
    PROVE  IInv'
  <1>1. TypeOK'
    <2> USE MaxFaultsAssumption, NoneAssumption
        DEF IInv, TypeOK, Reconnect
    <2>1. user' \in UserCalls /\ boot' \in Stages
      BY DEF UserCalls, Stages, Degrades
    <2>2. (nginx \in [state: {"none", "bridge", "created", "running"},
                     by: Users \cup {None}, conf: Confs])'
      BY DEF NoNginx, Confs
    <2>3. (stored \in BOOLEAN /\ cause \in BOOLEAN)'
      BY DEF Fault, Degrades
    <2>4. (faults \in 0..MaxFaults)'
      BY DEF Fault, Degrades
    <2> QED
      BY <2>1, <2>2, <2>3, <2>4 DEF UserCalls
  <1> USE MaxFaultsAssumption, NoneAssumption
      DEF IInv, TypeOK, Reconnect, Degrades, Fault,
          Users, Stages, Ats, Confs, Attempts, NoNginx, NoCall
  <1>2. CallsFitStage'
    BY DEF CallsFitStage, Calling
  <1>3. UnhinderedIsAlone'
    BY DEF CallsFitStage, UnhinderedIsAlone, UnhinderedFinds, Calling
  <1>4. UnhinderedFinds'
    BY DEF CallsFitStage, UnhinderedIsAlone, UnhinderedFinds, Calling
  <1>5. UnhinderedIsServed'
    BY DEF CallsFitStage, UnhinderedIsAlone, UnhinderedFinds, UnhinderedIsServed, Calling
  <1>6. (boot = "degraded" => cause)'
    BY DEF CallsFitStage, UnhinderedIsAlone, UnhinderedFinds, Calling
  <1> QED
    BY <1>1, <1>2, <1>3, <1>4, <1>5, <1>6

\* Failures are causes.
LEMMA EnsureImageInductive ==
    ASSUME IInv, EnsureImage
    PROVE  IInv'
  <1>1. TypeOK'
    <2> USE MaxFaultsAssumption, NoneAssumption
        DEF IInv, TypeOK, EnsureImage
    <2>1. user' \in UserCalls /\ boot' \in Stages
      BY DEF UserCalls, Stages, Degrades
    <2>2. (nginx \in [state: {"none", "bridge", "created", "running"},
                     by: Users \cup {None}, conf: Confs])'
      BY DEF NoNginx, Confs
    <2>3. (stored \in BOOLEAN /\ cause \in BOOLEAN)'
      BY DEF Fault, Degrades
    <2>4. (faults \in 0..MaxFaults)'
      BY DEF Fault, Degrades
    <2> QED
      BY <2>1, <2>2, <2>3, <2>4 DEF UserCalls
  <1> USE MaxFaultsAssumption, NoneAssumption
      DEF IInv, TypeOK, EnsureImage, Degrades, Fault,
          Users, Stages, Ats, Confs, Attempts, NoNginx, NoCall
  <1>2. CallsFitStage'
    BY DEF CallsFitStage, Calling
  <1>3. UnhinderedIsAlone'
    BY DEF CallsFitStage, UnhinderedIsAlone, UnhinderedFinds, Calling
  <1>4. UnhinderedFinds'
    BY DEF CallsFitStage, UnhinderedIsAlone, UnhinderedFinds, Calling
  <1>5. UnhinderedIsServed'
    BY DEF CallsFitStage, UnhinderedIsAlone, UnhinderedFinds, UnhinderedIsServed, Calling
  <1>6. (boot = "degraded" => cause)'
    BY DEF CallsFitStage, UnhinderedIsAlone, UnhinderedFinds, Calling
  <1> QED
    BY <1>1, <1>2, <1>3, <1>4, <1>5, <1>6

\* boot is alone, or the request it meets is a cause.
LEMMA EnsureXrayInductive ==
    ASSUME IInv, EnsureXray
    PROVE  IInv'
  <1>1. TypeOK'
    <2> USE MaxFaultsAssumption, NoneAssumption
        DEF IInv, TypeOK, EnsureXray
    <2>1. user' \in UserCalls /\ boot' \in Stages
      BY CallTyped DEF UserCalls, Stages, Users
    <2>2. (nginx \in [state: {"none", "bridge", "created", "running"},
                     by: Users \cup {None}, conf: Confs])'
      BY DEF NoNginx, Confs
    <2>3. (stored \in BOOLEAN /\ cause \in BOOLEAN)'
      BY DEF Fault, Degrades
    <2>4. (faults \in 0..MaxFaults)'
      BY DEF Fault, Degrades
    <2> QED
      BY <2>1, <2>2, <2>3, <2>4 DEF UserCalls
  <1> USE MaxFaultsAssumption, NoneAssumption
      DEF IInv, TypeOK, EnsureXray, Call, Busy,
          Users, Stages, Ats, Confs, Attempts, NoNginx, NoCall
  <1>2. CallsFitStage'
    BY DEF CallsFitStage, Calling
  <1>3. UnhinderedIsAlone'
    BY DEF CallsFitStage, UnhinderedIsAlone, UnhinderedFinds, Calling
  <1>4. UnhinderedFinds'
    BY DEF CallsFitStage, UnhinderedIsAlone, UnhinderedFinds, Calling
  <1>5. UnhinderedIsServed'
    BY DEF CallsFitStage, UnhinderedIsAlone, UnhinderedFinds, UnhinderedIsServed, Calling
  <1>6. (boot = "degraded" => cause)'
    BY DEF CallsFitStage, UnhinderedIsAlone, UnhinderedFinds, Calling
  <1> QED
    BY <1>1, <1>2, <1>3, <1>4, <1>5, <1>6

\* All calls end with the process.
LEMMA DieInductive ==
    ASSUME IInv, Die
    PROVE  IInv'
  <1>1. TypeOK'
    <2> USE MaxFaultsAssumption, NoneAssumption
        DEF IInv, TypeOK, Die
    <2>1. user' \in UserCalls /\ boot' \in Stages
      BY NoCallTyped DEF UserCalls, Stages
    <2>2. (nginx \in [state: {"none", "bridge", "created", "running"},
                     by: Users \cup {None}, conf: Confs])'
      BY DEF NoNginx, Confs
    <2>3. (stored \in BOOLEAN /\ cause \in BOOLEAN)'
      BY DEF Fault, Degrades
    <2>4. (faults \in 0..MaxFaults)'
      BY DEF Fault, Degrades
    <2> QED
      BY <2>1, <2>2, <2>3, <2>4 DEF UserCalls
  <1> USE MaxFaultsAssumption, NoneAssumption
      DEF IInv, TypeOK, Die, Fault,
          Users, Stages, Ats, Confs, Attempts, NoNginx, NoCall
  <1>2. CallsFitStage'
    BY DEF CallsFitStage, Calling
  <1>3. UnhinderedIsAlone'
    BY DEF CallsFitStage, UnhinderedIsAlone, UnhinderedFinds, Calling
  <1>4. UnhinderedFinds'
    BY DEF CallsFitStage, UnhinderedIsAlone, UnhinderedFinds, Calling
  <1>5. UnhinderedIsServed'
    BY DEF CallsFitStage, UnhinderedIsAlone, UnhinderedFinds, UnhinderedIsServed, Calling
  <1>6. (boot = "degraded" => cause)'
    BY DEF CallsFitStage, UnhinderedIsAlone, UnhinderedFinds, Calling
  <1> QED
    BY <1>1, <1>2, <1>3, <1>4, <1>5, <1>6

\* It meets boot in a call and is a cause, or comes later and finds nginx running.
LEMMA RequestUpdateInductive ==
    ASSUME IInv, RequestUpdate
    PROVE  IInv'
  <1>1. TypeOK'
    <2> USE MaxFaultsAssumption, NoneAssumption
        DEF IInv, TypeOK, RequestUpdate
    <2>1. user' \in UserCalls /\ boot' \in Stages
      BY CallTyped DEF UserCalls, Users
    <2>2. (nginx \in [state: {"none", "bridge", "created", "running"},
                     by: Users \cup {None}, conf: Confs])'
      BY DEF NoNginx, Confs
    <2>3. (stored \in BOOLEAN /\ cause \in BOOLEAN)'
      BY DEF Fault, Degrades
    <2>4. (faults \in 0..MaxFaults)'
      BY DEF Fault, Degrades
    <2> QED
      BY <2>1, <2>2, <2>3, <2>4 DEF UserCalls
  <1> USE MaxFaultsAssumption, NoneAssumption
      DEF IInv, TypeOK, RequestUpdate, Call, Listening,
          Users, Stages, Ats, Confs, Attempts, NoNginx, NoCall
  <1>2. CallsFitStage'
    BY DEF CallsFitStage, Calling
  <1>3. UnhinderedIsAlone'
    BY DEF CallsFitStage, UnhinderedIsAlone, UnhinderedFinds, Calling
  <1>4. UnhinderedFinds'
    BY DEF CallsFitStage, UnhinderedIsAlone, UnhinderedFinds, Calling
  <1>5. UnhinderedIsServed'
    BY DEF CallsFitStage, UnhinderedIsAlone, UnhinderedFinds, UnhinderedIsServed, Calling
  <1>6. (boot = "degraded" => cause)'
    BY DEF CallsFitStage, UnhinderedIsAlone, UnhinderedFinds, Calling
  <1> QED
    BY <1>1, <1>2, <1>3, <1>4, <1>5, <1>6

\* What an unhindered boot sees is what it acts on.
LEMMA InspectInductive ==
    ASSUME IInv, NEW u \in Users, Inspect(u)
    PROVE  IInv'
  <1>1. TypeOK'
    <2> USE MaxFaultsAssumption, NoneAssumption
        DEF IInv, TypeOK, Inspect
    <2>1. user' \in UserCalls /\ boot' \in Stages
      BY GotoTyped, EnsuredTyped DEF UserCalls, Ats
    <2>2. (nginx \in [state: {"none", "bridge", "created", "running"},
                     by: Users \cup {None}, conf: Confs])'
      BY DEF NoNginx, Confs
    <2>3. (stored \in BOOLEAN /\ cause \in BOOLEAN)'
      BY DEF Fault, Degrades
    <2>4. (faults \in 0..MaxFaults)'
      BY DEF Fault, Degrades
    <2> QED
      BY <2>1, <2>2, <2>3, <2>4 DEF UserCalls
  <1> USE MaxFaultsAssumption, NoneAssumption
      DEF IInv, TypeOK, Inspect, Ensured, Ended, Call, Goto, Fault,
          Users, Stages, Ats, Confs, Attempts, NoNginx, NoCall
  <1>2. CallsFitStage'
    BY DEF CallsFitStage, Calling
  <1>3. UnhinderedIsAlone'
    BY DEF CallsFitStage, UnhinderedIsAlone, UnhinderedFinds, Calling
  <1>4. UnhinderedFinds'
    BY DEF CallsFitStage, UnhinderedIsAlone, UnhinderedFinds, Calling
  <1>5. UnhinderedIsServed'
    BY DEF CallsFitStage, UnhinderedIsAlone, UnhinderedFinds, UnhinderedIsServed, Calling
  <1>6. (boot = "degraded" => cause)'
    BY DEF CallsFitStage, UnhinderedIsAlone, UnhinderedFinds, Calling
  <1> QED
    BY <1>1, <1>2, <1>3, <1>4, <1>5, <1>6

\* An unhindered boot found the container stopped: no 304.
LEMMA StartOldInductive ==
    ASSUME IInv, NEW u \in Users, StartOld(u)
    PROVE  IInv'
  <1>1. TypeOK'
    <2> USE MaxFaultsAssumption, NoneAssumption
        DEF IInv, TypeOK, StartOld
    <2>1. user' \in UserCalls /\ boot' \in Stages
      BY GotoTyped, EnsuredTyped DEF UserCalls, Ats
    <2>2. (nginx \in [state: {"none", "bridge", "created", "running"},
                     by: Users \cup {None}, conf: Confs])'
      BY DEF NoNginx, Confs
    <2>3. (stored \in BOOLEAN /\ cause \in BOOLEAN)'
      BY DEF Fault, Degrades
    <2>4. (faults \in 0..MaxFaults)'
      BY DEF Fault, Degrades
    <2> QED
      BY <2>1, <2>2, <2>3, <2>4 DEF UserCalls
  <1> USE MaxFaultsAssumption, NoneAssumption
      DEF IInv, TypeOK, StartOld, Ensured, Ended, Call, Goto, Fault,
          Users, Stages, Ats, Confs, Attempts, NoNginx, NoCall
  <1>2. CallsFitStage'
    BY DEF CallsFitStage, Calling
  <1>3. UnhinderedIsAlone'
    BY DEF CallsFitStage, UnhinderedIsAlone, UnhinderedFinds, Calling
  <1>4. UnhinderedFinds'
    BY DEF CallsFitStage, UnhinderedIsAlone, UnhinderedFinds, Calling
  <1>5. UnhinderedIsServed'
    BY DEF CallsFitStage, UnhinderedIsAlone, UnhinderedFinds, UnhinderedIsServed, Calling
  <1>6. (boot = "degraded" => cause)'
    BY DEF CallsFitStage, UnhinderedIsAlone, UnhinderedFinds, Calling
  <1> QED
    BY <1>1, <1>2, <1>3, <1>4, <1>5, <1>6

\* If the old container is gone, the name is free.
LEMMA RemoveOldInductive ==
    ASSUME IInv, NEW u \in Users, RemoveOld(u)
    PROVE  IInv'
  <1>1. TypeOK'
    <2> USE MaxFaultsAssumption, NoneAssumption
        DEF IInv, TypeOK, RemoveOld
    <2>1. user' \in UserCalls /\ boot' \in Stages
      BY GotoTyped DEF UserCalls, Ats
    <2>2. (nginx \in [state: {"none", "bridge", "created", "running"},
                     by: Users \cup {None}, conf: Confs])'
      BY DEF NoNginx, Confs
    <2>3. (stored \in BOOLEAN /\ cause \in BOOLEAN)'
      BY DEF Fault, Degrades
    <2>4. (faults \in 0..MaxFaults)'
      BY DEF Fault, Degrades
    <2> QED
      BY <2>1, <2>2, <2>3, <2>4 DEF UserCalls
  <1> USE MaxFaultsAssumption, NoneAssumption
      DEF IInv, TypeOK, RemoveOld, Goto, Fault,
          Users, Stages, Ats, Confs, Attempts, NoNginx, NoCall
  <1>2. CallsFitStage'
    BY DEF CallsFitStage, Calling
  <1>3. UnhinderedIsAlone'
    BY DEF CallsFitStage, UnhinderedIsAlone, UnhinderedFinds, Calling
  <1>4. UnhinderedFinds'
    BY DEF CallsFitStage, UnhinderedIsAlone, UnhinderedFinds, Calling
  <1>5. UnhinderedIsServed'
    BY DEF CallsFitStage, UnhinderedIsAlone, UnhinderedFinds, UnhinderedIsServed, Calling
  <1>6. (boot = "degraded" => cause)'
    BY DEF CallsFitStage, UnhinderedIsAlone, UnhinderedFinds, Calling
  <1> QED
    BY <1>1, <1>2, <1>3, <1>4, <1>5, <1>6

\* Nobody else took the name of an unhindered boot.
LEMMA CreateNginxInductive ==
    ASSUME IInv, NEW u \in Users, CreateNginx(u)
    PROVE  IInv'
  <1>1. TypeOK'
    <2> USE MaxFaultsAssumption, NoneAssumption
        DEF IInv, TypeOK, CreateNginx
    <2>1. user' \in UserCalls /\ boot' \in Stages
      BY GotoTyped, ThrowsTyped DEF UserCalls, Ats
    <2>2. (nginx \in [state: {"none", "bridge", "created", "running"},
                     by: Users \cup {None}, conf: Confs])'
      BY DEF NoNginx, Confs
    <2>3. (stored \in BOOLEAN /\ cause \in BOOLEAN)'
      BY DEF Fault, Degrades
    <2>4. (faults \in 0..MaxFaults)'
      BY DEF Fault, Degrades
    <2> QED
      BY <2>1, <2>2, <2>3, <2>4 DEF UserCalls
  <1> USE MaxFaultsAssumption, NoneAssumption
      DEF IInv, TypeOK, CreateNginx, Goto, Throws, Fault,
          Users, Stages, Ats, Confs, Attempts, NoNginx, NoCall
  <1>2. CallsFitStage'
    BY DEF CallsFitStage, Calling
  <1>3. UnhinderedIsAlone'
    BY DEF CallsFitStage, UnhinderedIsAlone, UnhinderedFinds, Calling
  <1>4. UnhinderedFinds'
    BY DEF CallsFitStage, UnhinderedIsAlone, UnhinderedFinds, Calling
  <1>5. UnhinderedIsServed'
    BY DEF CallsFitStage, UnhinderedIsAlone, UnhinderedFinds, UnhinderedIsServed, Calling
  <1>6. (boot = "degraded" => cause)'
    BY DEF CallsFitStage, UnhinderedIsAlone, UnhinderedFinds, Calling
  <1> QED
    BY <1>1, <1>2, <1>3, <1>4, <1>5, <1>6

\* The container is the one the call created.
LEMMA PutInitialInductive ==
    ASSUME IInv, NEW u \in Users, PutInitial(u)
    PROVE  IInv'
  <1>1. TypeOK'
    <2> USE MaxFaultsAssumption, NoneAssumption
        DEF IInv, TypeOK, PutInitial
    <2>1. user' \in UserCalls /\ boot' \in Stages
      BY GotoTyped, ThrowsTyped DEF UserCalls, Ats
    <2>2. (nginx \in [state: {"none", "bridge", "created", "running"},
                     by: Users \cup {None}, conf: Confs])'
      BY DEF NoNginx, Confs
    <2>3. (stored \in BOOLEAN /\ cause \in BOOLEAN)'
      BY DEF Fault, Degrades
    <2>4. (faults \in 0..MaxFaults)'
      BY DEF Fault, Degrades
    <2> QED
      BY <2>1, <2>2, <2>3, <2>4 DEF UserCalls
  <1> USE MaxFaultsAssumption, NoneAssumption
      DEF IInv, TypeOK, PutInitial, Goto, Throws, Fault,
          Users, Stages, Ats, Confs, Attempts, NoNginx, NoCall
  <1>2. CallsFitStage'
    BY DEF CallsFitStage, Calling
  <1>3. UnhinderedIsAlone'
    BY DEF CallsFitStage, UnhinderedIsAlone, UnhinderedFinds, Calling
  <1>4. UnhinderedFinds'
    BY DEF CallsFitStage, UnhinderedIsAlone, UnhinderedFinds, Calling
  <1>5. UnhinderedIsServed'
    BY DEF CallsFitStage, UnhinderedIsAlone, UnhinderedFinds, UnhinderedIsServed, Calling
  <1>6. (boot = "degraded" => cause)'
    BY DEF CallsFitStage, UnhinderedIsAlone, UnhinderedFinds, Calling
  <1> QED
    BY <1>1, <1>2, <1>3, <1>4, <1>5, <1>6

\* It starts, or the port was held three times.
LEMMA StartNewInductive ==
    ASSUME IInv, NEW u \in Users, StartNew(u)
    PROVE  IInv'
  <1>1. TypeOK'
    <2> USE MaxFaultsAssumption, NoneAssumption
        DEF IInv, TypeOK, StartNew
    <2>1. user' \in UserCalls /\ boot' \in Stages
      BY RetryTyped, ThrowsTyped, EnsuredTyped DEF UserCalls
    <2>2. (nginx \in [state: {"none", "bridge", "created", "running"},
                     by: Users \cup {None}, conf: Confs])'
      BY DEF NoNginx, Confs
    <2>3. (stored \in BOOLEAN /\ cause \in BOOLEAN)'
      BY DEF Fault, Degrades
    <2>4. (faults \in 0..MaxFaults)'
      BY DEF Fault, Degrades
    <2> QED
      BY <2>1, <2>2, <2>3, <2>4 DEF UserCalls
  <1> USE MaxFaultsAssumption, NoneAssumption
      DEF IInv, TypeOK, StartNew, Ensured, Ended, Call, Goto, Throws,
          Users, Stages, Ats, Confs, Attempts, NoNginx, NoCall
  <1>2. CallsFitStage'
    BY DEF CallsFitStage, Calling
  <1>3. UnhinderedIsAlone'
    BY DEF CallsFitStage, UnhinderedIsAlone, UnhinderedFinds, Calling
  <1>4. UnhinderedFinds'
    BY DEF CallsFitStage, UnhinderedIsAlone, UnhinderedFinds, Calling
  <1>5. UnhinderedIsServed'
    BY DEF CallsFitStage, UnhinderedIsAlone, UnhinderedFinds, UnhinderedIsServed, Calling
  <1>6. (boot = "degraded" => cause)'
    BY DEF CallsFitStage, UnhinderedIsAlone, UnhinderedFinds, Calling
  <1> QED
    BY <1>1, <1>2, <1>3, <1>4, <1>5, <1>6

\* The last call of a start.
LEMMA PutConfigInductive ==
    ASSUME IInv, NEW u \in Users, PutConfig(u)
    PROVE  IInv'
  <1>1. TypeOK'
    <2> USE MaxFaultsAssumption, NoneAssumption
        DEF IInv, TypeOK, PutConfig
    <2>1. user' \in UserCalls /\ boot' \in Stages
      BY ThrowsTyped, EndedTyped DEF UserCalls
    <2>2. (nginx \in [state: {"none", "bridge", "created", "running"},
                     by: Users \cup {None}, conf: Confs])'
      BY DEF NoNginx, Confs
    <2>3. (stored \in BOOLEAN /\ cause \in BOOLEAN)'
      BY DEF Fault, Degrades
    <2>4. (faults \in 0..MaxFaults)'
      BY DEF Fault, Degrades
    <2> QED
      BY <2>1, <2>2, <2>3, <2>4 DEF UserCalls
  <1> USE MaxFaultsAssumption, NoneAssumption
      DEF IInv, TypeOK, PutConfig, Ended, Call, Throws, Fault,
          Users, Stages, Ats, Confs, Attempts, NoNginx, NoCall
  <1>2. CallsFitStage'
    BY DEF CallsFitStage, Calling
  <1>3. UnhinderedIsAlone'
    BY DEF CallsFitStage, UnhinderedIsAlone, UnhinderedFinds, Calling
  <1>4. UnhinderedFinds'
    BY DEF CallsFitStage, UnhinderedIsAlone, UnhinderedFinds, Calling
  <1>5. UnhinderedIsServed'
    BY DEF CallsFitStage, UnhinderedIsAlone, UnhinderedFinds, UnhinderedIsServed, Calling
  <1>6. (boot = "degraded" => cause)'
    BY DEF CallsFitStage, UnhinderedIsAlone, UnhinderedFinds, Calling
  <1> QED
    BY <1>1, <1>2, <1>3, <1>4, <1>5, <1>6

\* A stuttering step changes none of the variables the invariant reads.
LEMMA StutteringInductive ==
    ASSUME IInv, UNCHANGED vars
    PROVE  IInv'
  BY DEF IInv, TypeOK, vars, CallsFitStage, UnhinderedIsAlone, UnhinderedFinds,
         UnhinderedIsServed, Calling

\* IInv holds in every reachable state.
LEMMA Inductive == Spec => []IInv
  <1>1. IInv /\ [Next]_vars => IInv'
    BY StartProcessInductive, EnsureNetworkInductive, ReconnectInductive, EnsureImageInductive, EnsureXrayInductive,
        DieInductive, RequestUpdateInductive, InspectInductive, StartOldInductive,
        RemoveOldInductive, CreateNginxInductive, PutInitialInductive, StartNewInductive, PutConfigInductive,
       StutteringInductive
       DEF Next
  <1> QED
    BY <1>1, InitInductive, PTL DEF Spec

\* The stage, the calls, nginx and the counters have the values NodeBoot.TypeOK names,
\* however many deaths and failures of Docker bootstrap (index.ts) goes through.
THEOREM TypeCorrect == Spec => []TypeOK
  <1>1. IInv => TypeOK
    BY DEF IInv
  <1> QED
    BY <1>1, Inductive, PTL

\* The background initialisation (index.ts) gives up only in a start that Docker, the
\* port or a request hindered, and an unhindered start leaves nginx running, from
\* whatever state of its container ensureNginxContainer (nginx.ts) finds.
THEOREM OnlyHindrancesDegrade == Spec => []StartsUnlessHindered
  <1>1. IInv => StartsUnlessHindered
    BY DEF IInv, StartsUnlessHindered, UnhinderedIsServed
  <1> QED
    BY <1>1, Inductive, PTL
=============================================================================
