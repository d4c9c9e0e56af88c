------------------------------- MODULE MCIPC -------------------------------
(* Model checking instances of IPC with three threads: thread 1 boots and  *)
(* is the pager of thread 3.                                               *)
EXTENDS IPC

MCPager == [t \in Tid |-> IF t = 3 THEN 1 ELSE NIL]
MCBoot == {1, 2}
MCSleepers == {2}
=============================================================================
