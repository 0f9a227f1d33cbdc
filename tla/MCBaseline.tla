----------------------------- MODULE MCBaseline -----------------------------
(* Small instances of IdleBaseline.                                         *)
EXTENDS IdleBaseline
=============================================================================
