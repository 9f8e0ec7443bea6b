--------------------------- MODULE MCCommandQueue ---------------------------
(* Model-checking instance of CommandQueue.  Its cfg checks a liveness     *)
(* property, so the identities are not declared symmetric.                 *)
EXTENDS CommandQueue
=============================================================================
