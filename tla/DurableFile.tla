---------------------------- MODULE DurableFile ----------------------------
(***************************************************************************)
(* What a write-through JSON file promises (store/index.ts:14-25): the     *)
(* file always holds a whole version of the cached object, versions only   *)
(* move forward, and a caller whose save returned finds its version in the *)
(* file, whatever crashes afterwards.                                      *)
(***************************************************************************)
EXTENDS Naturals

VARIABLES current,   \* the version of the object in memory
          stored,    \* the version in the file
          returned   \* the greatest version whose save returned to its caller

fileVars == <<current, stored, returned>>

Init == current = 0 /\ stored = 0 /\ returned = 0

\* A mutation of the cached object.
Change == /\ current' = current + 1
          /\ UNCHANGED <<stored, returned>>

\* The file is replaced by a later version; its writer may return with it.
Save == /\ stored' \in Nat /\ returned' \in Nat
        /\ stored <= stored' /\ stored' <= current
        /\ returned <= returned' /\ returned' <= stored'
        /\ UNCHANGED current

\* The process starts again and reads the file.
Reload == /\ current' = stored
          /\ UNCHANGED <<stored, returned>>

Next == Change \/ Save \/ Reload

Spec == Init /\ [][Next]_fileVars
=============================================================================
