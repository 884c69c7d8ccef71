------------------------------- MODULE MCSched -------------------------------
EXTENDS Sched
MCPriority == [t \in Tasks |-> IF t \in Procs THEN 1 ELSE 0]
=============================================================================
