----------------------------- MODULE MCCacheTlb -----------------------------
(* The translation side, ITLB and DTLB over STLB over the page walk.  The  *)
(* STLB has fewer MSHRs than the DTLB.                                     *)
EXTENDS CacheHierarchy

MCCache == {"ITLB", "DTLB", "STLB"}
MCNode == MCCache \cup Memory
MCNumWay == [c \in MCCache |-> 1]
MCMshrSize == [c \in MCCache |-> IF c = "STLB" THEN 1 ELSE 2]
MCRqSize == [n \in MCNode |-> IF n \in Memory THEN 0 ELSE 2]
MCWqSize == [n \in MCNode |-> 0]
MCPqSize == MCWqSize
PfNone == [c \in MCCache |-> {}]
=============================================================================
