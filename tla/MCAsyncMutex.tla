---------------------------- MODULE MCAsyncMutex ----------------------------
(* AsyncMutex for TLC: a handful of acquire() calls, both forms of line 59. *)
EXTENDS AsyncMutex
=============================================================================
