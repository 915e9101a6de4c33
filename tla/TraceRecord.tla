----------------------------- MODULE TraceRecord -----------------------------
(***************************************************************************)
(* A record of a ChampSim trace, trace_instr_format of the tracers and     *)
(* input_instr of the simulator, and what read_from_trace (src/ChampSim/   *)
(* src/ooo_cpu.cc) makes of it: the kind of a branch is not recorded, it   *)
(* is deduced from the registers.  A register or an address of 0 is none.  *)
(***************************************************************************)
EXTENDS Integers, Sequences, SequencesExt

NUM_INSTR_DESTINATIONS == 2
NUM_INSTR_SOURCES == 4
REG_STACK_POINTER == 6
REG_FLAGS == 25
REG_INSTRUCTION_POINTER == 26

Empty == [is_branch |-> FALSE, branch_taken |-> FALSE,
          destination_registers |-> <<0, 0>>, source_registers |-> <<0, 0, 0, 0>>,
          destination_memory |-> <<0, 0>>, source_memory |-> <<0, 0, 0, 0>>]

BranchType(r) ==
  LET reads == ToSet(r.source_registers) \ {0}
      writes == ToSet(r.destination_registers)
      reads_sp == REG_STACK_POINTER \in reads
      reads_flags == REG_FLAGS \in reads
      reads_ip == REG_INSTRUCTION_POINTER \in reads
      reads_other == reads \ {REG_STACK_POINTER, REG_FLAGS, REG_INSTRUCTION_POINTER} # {}
      writes_sp == REG_STACK_POINTER \in writes
      writes_ip == REG_INSTRUCTION_POINTER \in writes
      call == reads_sp /\ reads_ip /\ writes_sp /\ ~reads_flags
  IN CASE ~writes_ip -> "NOT_BRANCH"
       [] writes_ip /\ ~reads_sp /\ ~reads_flags ->
            IF reads_other THEN "INDIRECT" ELSE "DIRECT_JUMP"
       [] writes_ip /\ ~reads_sp /\ reads_ip /\ ~writes_sp /\ reads_flags /\ ~reads_other ->
            "CONDITIONAL"
       [] writes_ip /\ call -> IF reads_other THEN "INDIRECT_CALL" ELSE "DIRECT_CALL"
       [] writes_ip /\ reads_sp /\ ~reads_ip /\ writes_sp -> "RETURN"
       [] OTHER -> "BRANCH_OTHER"

\* All but the conditional branches and those of no known kind are taken,
\* whatever the record says.
BranchTaken(r) ==
  BranchType(r) \in {"NOT_BRANCH", "CONDITIONAL", "BRANCH_OTHER"} => r.branch_taken
IsBranch(r) == r.is_branch \/ BranchType(r) # "NOT_BRANCH"
=============================================================================
