--------------------------- MODULE MCKernelStacks ---------------------------
(* KernelStacks with two callers, stacks of one and two pages, a region     *)
(* that ends in the middle of a slot, and three levels of tables of three   *)
(* entries: the region spans three leaf tables and two above them.          *)
EXTENDS KernelStacks, TLC

CONSTANTS c1, c2

MCCallers == {c1, c2}
MCSymmetry == Permutations(MCCallers)
=============================================================================
