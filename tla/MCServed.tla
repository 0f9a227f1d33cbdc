------------------------------ MODULE MCServed ------------------------------
(* Small instances of DemandServed.                                         *)
EXTENDS DemandServed
=============================================================================
