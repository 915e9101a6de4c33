------------------------------- MODULE MCDram -------------------------------
(* Two banks: the lines a1 and a2 share a row of the first, b1 and b2 are in  *)
(* different rows of the second.  Watermarks 2 and 3 of 3 writes.             *)
EXTENDS DramController

CONSTANTS a1, a2, b1, b2, bankA, bankB, r1, r2

MCBankOf == [x \in Line |-> IF x \in {a1, a2} THEN bankA ELSE bankB]
MCRowOf  == [x \in Line |-> IF x = b2 THEN r2 ELSE r1]
MCSize   == [q \in Queue |-> IF q = "RQ" THEN 2 ELSE 3]
=============================================================================
