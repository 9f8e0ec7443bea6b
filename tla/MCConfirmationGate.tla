------------------------- MODULE MCConfirmationGate -------------------------
(* Model-checking instance of ConfirmationGate.  Its cfg checks a liveness *)
(* property, so the identities are not declared symmetric.                 *)
EXTENDS ConfirmationGate
=============================================================================
