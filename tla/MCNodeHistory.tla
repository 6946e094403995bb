--------------------------- MODULE MCNodeHistory ---------------------------
(* Proxies that may come and go, one address and one call.                 *)
EXTENDS NodeHistory, TLC

CONSTANTS p1, p2, d1, d2, a1, c1

Symmetry == Permutations(ProxyIds) \cup Permutations(FakeDomains)
=============================================================================
