------------------------------- MODULE MCSweep -------------------------------
(* Small instances of OrphanSweep.                                          *)
EXTENDS OrphanSweep
=============================================================================
