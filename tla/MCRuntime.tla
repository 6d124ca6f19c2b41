------------------------------ MODULE MCRuntime -----------------------------
(* Runtime with two inspectors, three executors and one table in which the  *)
(* inspectors take turns.                                                   *)
EXTENDS Runtime

CONSTANTS i1, i2, e1, e2, e3

MCInspectors == {i1, i2}
MCExecutors == {e1, e2, e3}
MCPriority == [e \in MCExecutors |-> IF e = e3 THEN 1 ELSE 0]
MCTables == {[frame |-> 2, slots |-> <<Slot(i1, 0, 2, 1), Slot(i2, 1, 2, 1)>>]}
=============================================================================
