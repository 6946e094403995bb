------------------------- MODULE MCProxyLifecycle -------------------------
(* Small nodes: one or two ids, two or three requests. *)
EXTENDS ProxyLifecycle, TLC

CONSTANTS i1, i2, d1, d2, d3, r1, r2, r3

\* Ids and domains are interchangeable, and so are the requests.
Symmetry == Permutations(Ids) \cup Permutations(Domains) \cup Permutations(Requests)
=============================================================================
