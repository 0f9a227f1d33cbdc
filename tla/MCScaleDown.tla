----------------------------- MODULE MCScaleDown -----------------------------
(* Small instances of ScaleDownSafe.                                        *)
EXTENDS ScaleDownSafe
=============================================================================
