---------------------------- MODULE MCNodeMonitor ---------------------------
(* Two nodes, of which one has its page open, and three requests.          *)
EXTENDS NodeMonitor, TLC

CONSTANTS n1, n2, r1, r2, r3, c1, c2

\* The requests are interchangeable, and so are the credentials.
Symmetry == Permutations(Requests) \cup Permutations(Logins)
=============================================================================
