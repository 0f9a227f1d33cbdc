------------------------------ MODULE MCRunner ------------------------------
(* Small instances of EphemeralRunner.                                      *)
EXTENDS EphemeralRunner
=============================================================================
