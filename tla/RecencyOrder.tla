---------------------------- MODULE RecencyOrder ----------------------------
(***************************************************************************)
(* What a least-recently-used policy promises for one set of a cache,      *)
(* without saying how the order of use is kept: newer[w] is the set of     *)
(* ways used after the last use of w.                                      *)
(***************************************************************************)
EXTENDS Integers

CONSTANT NUM_WAY  \* at least 1, as LruReplacement assumes

VARIABLES newer, valid
vars == <<newer, valid>>

Way == 0 .. NUM_WAY - 1

Used(w) == newer' = [v \in Way |-> IF v = w THEN {} ELSE newer[v] \cup {w}]

\* A hit on a line that counts as a use, and one that does not.
Use(w) == valid[w] /\ Used(w) /\ UNCHANGED valid

\* A new line goes to an invalid way while there is one, then to the way that
\* was used before all the others.
Replace(w) ==
  /\ \/ ~valid[w]
     \/ (\A v \in Way : valid[v]) /\ newer[w] = Way \ {w}
  /\ Used(w)
  /\ valid' = [valid EXCEPT ![w] = TRUE]

Invalidate(w) == valid' = [valid EXCEPT ![w] = FALSE] /\ UNCHANGED newer

Init == /\ newer = [w \in Way |-> 0 .. w - 1]
        /\ valid = [w \in Way |-> FALSE]
Next == \E w \in Way : Use(w) \/ Replace(w) \/ Invalidate(w)
Spec == Init /\ [][Next]_vars
=============================================================================
