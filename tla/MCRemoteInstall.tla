--------------------------- MODULE MCRemoteInstall --------------------------
(* One server, two installations of it.                                    *)
EXTENDS RemoteInstall, TLC

CONSTANTS i1, i2
=============================================================================
