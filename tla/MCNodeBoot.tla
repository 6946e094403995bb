----------------------------- MODULE MCNodeBoot -----------------------------
(* A start and one request at a time about nginx.                          *)
EXTENDS NodeBoot
=============================================================================
