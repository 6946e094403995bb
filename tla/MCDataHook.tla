----------------------------- MODULE MCDataHook -----------------------------
(* Two keys and two calls of refetch under way at once.                  *)
EXTENDS DataHook, TLC

CONSTANTS k1, k2, f1, f2
=============================================================================
