-------------------------------- MODULE MCHart --------------------------------
(* Two instructions; no handler, one at 4, and one at 0 whose mode bits are  *)
(* set.                                                                     *)
EXTENDS Hart
=============================================================================
