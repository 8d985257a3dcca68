------------------------- MODULE MCDurableDispatch -------------------------
(* Two jobs, two workers and a pool of two slots that may shrink to one,   *)
(* which every job must then pass through.                                 *)
EXTENDS DurableDispatch
CONSTANTS w1, w2
=============================================================================
