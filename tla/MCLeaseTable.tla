---------------------------- MODULE MCLeaseTable ----------------------------
(* Two supervisors contending for the run-worker lease of one Run, three   *)
(* grants, a row renewed up to version 3, a lifetime of two ticks.         *)
EXTENDS LeaseTable
CONSTANTS w1, w2
=============================================================================
