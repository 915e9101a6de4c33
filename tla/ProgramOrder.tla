---------------------------- MODULE ProgramOrder ----------------------------
(***************************************************************************)
(* What a core promises whatever it reorders inside: instructions retire   *)
(* one after the other, as in the trace, and every load sees the youngest  *)
(* store to its address among the instructions before it.                  *)
(***************************************************************************)
EXTENDS Naturals, Sequences

CONSTANTS Traces,  \* sequences of instructions [load, store : Seq(Addr), ...]
          Addr

VARIABLES trace,   \* the instructions, chosen once
          done,    \* how many have retired
          memory,  \* memory[a]: the last retired store to a, 0 for none
          result   \* result[n][i]: the store that load i of instruction n saw
vars == <<trace, done, memory, result>>

Writes(n, a) == \E i \in DOMAIN trace[n].store : trace[n].store[i] = a

Init == /\ trace \in Traces
        /\ done = 0
        /\ memory = [a \in Addr |-> 0]
        /\ result = <<>>

Retire ==
  LET n == done + 1 IN
  /\ done < Len(trace)
  /\ done' = n
  /\ result' = Append(result, [i \in DOMAIN trace[n].load |-> memory[trace[n].load[i]]])
  /\ memory' = [a \in Addr |-> IF Writes(n, a) THEN n ELSE memory[a]]
  /\ UNCHANGED trace

Spec == Init /\ [][Retire]_vars
=============================================================================
