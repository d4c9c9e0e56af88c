------------------------------ MODULE MCMemory ------------------------------
(* A small memory: the KIP, text that is always mapped, data: UTCBs, stacks, *)
(* and areas that hold some of them, one of them not a multiple of the       *)
(* smallest fpage, and kernel memory, which has no fpages.                   *)
EXTENDS Memory

Pool(start, end, user, always, fpages) ==
    [start |-> start, end |-> end, user |-> user, always |-> always, fpages |-> fpages]
MCPools == <<Pool(0, 2, FALSE, FALSE, TRUE), Pool(2, 6, TRUE, TRUE, TRUE),
             Pool(6, 20, FALSE, FALSE, TRUE), Pool(20, 22, FALSE, FALSE, FALSE)>>
MCKip == <<<<0, 2>>>>
MCUtcb == [t \in Threads |-> CASE t = Root -> <<6, 2>> [] t = "t1" -> <<8, 2>> [] t = "t2" -> <<10, 2>>]
MCStack == [t \in Threads |-> CASE t = Root -> <<4, 2>> [] t = "t1" -> <<12, 4>> [] t = "t2" -> <<14, 2>>]
MCAreas == {<<8, 8>>, <<16, 4>>, <<14, 3>>, <<20, 2>>}

\* The hypothesis of AllWellFormed.
ASSUME MCMemoryAssumption == Regular
=============================================================================
