------------------------------ MODULE MCLfuCache ------------------------------
(* Keys one more than the capacity, so that a Put can evict.                *)
EXTENDS LfuCache
=============================================================================
