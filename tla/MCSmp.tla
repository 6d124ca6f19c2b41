------------------------------- MODULE MCSmp -------------------------------
(* Four CPUs in the device tree, three of them valid; hart 1 boots.         *)
EXTENDS Smp

MCValid == {0, 1, 2}
=============================================================================
