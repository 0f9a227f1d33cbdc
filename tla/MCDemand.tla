------------------------------ MODULE MCDemand ------------------------------
(* Small instances of Demand: every pair of sets, every queue of two jobs.  *)
EXTENDS Demand
=============================================================================
