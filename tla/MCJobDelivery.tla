--------------------------- MODULE MCJobDelivery ----------------------------
(* Model-checking instance of JobDelivery.  Its cfg checks a liveness      *)
(* property, so the identities are not declared symmetric.                 *)
EXTENDS JobDelivery
=============================================================================
