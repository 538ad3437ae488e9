-------------------------------- MODULE MCVmem --------------------------------
(* The kernel on pages 0 and 1, its table on page 1, two pages to map       *)
(* freely, and one physical page outside the table's range.                 *)
EXTENDS Vmem

Kernel == {"R", "W", "X"}

SomeFlags == {Kernel, {"R", "X", "U"}, {"X"}, {"W", "U"}, {}}
=============================================================================
