----------------------------- MODULE MCOwnership -----------------------------
(* Small instances of SetOwnership.                                         *)
EXTENDS SetOwnership
=============================================================================
