---------------------------- MODULE MCCacheData ----------------------------
(* The data side, L1I and L1D over L2C over LLC over DRAM.  One DRAM read  *)
(* queue entry for two LLC MSHRs: the LLC meets a full queue below it.     *)
EXTENDS CacheHierarchy

MCCache == {"L1I", "L1D", "L2C", "LLC"}
MCNode == MCCache \cup Memory
OneWay == [c \in MCCache |-> 1]
MCMshrSize == [c \in MCCache |-> 2]
MCRqSize == [n \in MCNode |-> IF n = "DRAM" THEN 1 ELSE 2]
MCWqSize == [n \in MCNode |-> 1]
MCPqSize == [n \in MCNode |-> IF n \in Memory THEN 0 ELSE 1]

PfNone == [c \in MCCache |-> {}]
PfOfL1 == [c \in MCCache |-> IF c \in {"L1I", "L1D"} THEN {1} ELSE {}]
PfOfData == [c \in MCCache |-> CASE c = "L1D" -> {1, 2, 4}
                                 [] c = "L2C" -> {2, 4}
                                 [] c = "LLC" -> {4}
                                 [] OTHER -> {}]
PfBelowL1 == [PfOfData EXCEPT !["L1D"] = {2, 4}]
=============================================================================
