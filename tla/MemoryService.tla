--------------------------- MODULE MemoryService ---------------------------
(***************************************************************************)
(* What the last-level cache may expect of the memory below it: every line *)
(* it asks for is answered once, every line it writes is taken once, in    *)
(* any order; a line on its way to the memory is answered at once.         *)
(***************************************************************************)
CONSTANT Line

VARIABLES reads,  \* the lines asked for and not yet answered
          writes  \* the lines written and not yet in the memory
vars == <<reads, writes>>

Ask(x)   == x \notin reads \cup writes /\ reads' = reads \cup {x} /\ UNCHANGED writes
Write(x) == x \notin writes /\ writes' = writes \cup {x} /\ UNCHANGED reads
Answer(x) == x \in reads /\ reads' = reads \ {x} /\ UNCHANGED writes
Commit(x) == x \in writes /\ writes' = writes \ {x} /\ UNCHANGED reads

Init == reads = {} /\ writes = {}
Next == \E x \in Line : Ask(x) \/ Write(x) \/ Answer(x) \/ Commit(x)
Spec == Init /\ [][Next]_vars
=============================================================================
