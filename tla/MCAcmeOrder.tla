---------------------------- MODULE MCAcmeOrder ----------------------------
(* Two or three calls of obtain and renew for one domain. *)
EXTENDS AcmeOrder, TLC

CONSTANTS o1, o2, o3

\* The calls are interchangeable: their routes are chosen in Init.
Symmetry == Permutations(Orders)
=============================================================================
