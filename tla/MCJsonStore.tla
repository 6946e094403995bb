---------------------------- MODULE MCJsonStore ----------------------------
(* Small sets of calls for JsonStore. *)
EXTENDS JsonStore, TLC

CONSTANTS s1, s2, p1, f1, x1, r1

\* Two changes of the store beside every kind of write of the ip history.
AllTasks == {s1, s2, f1, x1, r1}
AllKind == s1 :> "persistStore" @@ s2 :> "persistStore" @@ f1 :> "timerFlush"
             @@ x1 :> "exitFlush" @@ r1 :> "removeIps"

\* Two changes of the store, one of the statistics and the flush timer.
SavingTasks == {s1, s2, p1, f1}
SavingKind == s1 :> "persistStore" @@ s2 :> "persistStore" @@ p1 :> "persistStats"
                @@ f1 :> "timerFlush"
=============================================================================
