---------------------------- MODULE MCNginxRoutes ----------------------------
(* A small node: two or three proxies, one dedicated port. *)
EXTENDS NginxRoutes, TLC

CONSTANTS i1, i2, i3, d1, d2, d3, p1, r1, r2

\* Ids and domains are interchangeable, and so are the requests.
Symmetry == Permutations(Ids) \cup Permutations(Domains) \cup Permutations(Requests)
=============================================================================
