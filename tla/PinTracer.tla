------------------------------ MODULE PinTracer ------------------------------
(***************************************************************************)
(* champsim_tracer (src/ChampSim/tracer/champsim_tracer.cpp): Pin calls the *)
(* analysis routines of an instruction one after the other; they fill one  *)
(* global record, which the last of them writes to the trace.  The traced  *)
(* program has one thread.                                                 *)
(***************************************************************************)
EXTENDS TraceRecord, FiniteSets

CONSTANTS
  Programs,             \* runs of [branch, reads, writes, loads, stores]
  SkipInstructions,     \* KnobSkipInstructions
  TraceInstructions     \* KnobTraceInstructions
ASSUME KnobAssumption == {SkipInstructions, TraceInstructions} \subseteq Nat

Traced == [branch : {"none", "taken", "not"}, reads : Seq(Nat), writes : Seq(Nat),
           loads : Seq(Nat), stores : Seq(Nat)]
ASSUME ProgramsAssumption == Programs \subseteq Seq(Traced)

VARIABLES program, ran, calls, instrCount, tracing_on, curr_instr, file, exited
tracerVars == <<program, ran, calls, instrCount, tracing_on, curr_instr, file, exited>>

\* What Instruction inserts before an instruction.
Each(routine, s) == [k \in DOMAIN s |-> [routine |-> routine, arg |-> s[k]]]
Instrumented(i) ==
  Each("BeginInstruction", <<0>>)
  \o (IF i.branch = "none" THEN <<>> ELSE Each("BranchOrNot", <<IF i.branch = "taken" THEN 1 ELSE 0>>))
  \o Each("RegRead", i.reads) \o Each("RegWrite", i.writes)
  \o Each("MemoryRead", i.loads) \o Each("MemoryWrite", i.stores)
  \o Each("EndInstruction", <<0>>)

Execute ==
  /\ calls = <<>> /\ ~exited /\ ran < Len(program)
  /\ ran' = ran + 1
  /\ calls' = Instrumented(program[ran + 1])
  /\ UNCHANGED <<program, instrCount, tracing_on, curr_instr, file, exited>>

Call(routine) == calls # <<>> /\ Head(calls).routine = routine
                 /\ calls' = Tail(calls) /\ UNCHANGED <<program, ran>>
Arg == Head(calls).arg

LastTraced == TraceInstructions + SkipInstructions

\* Mutant: the branch is not reset.
KeepBranch == [Empty EXCEPT !.is_branch = curr_instr.is_branch,
                            !.branch_taken = curr_instr.branch_taken]
Reset == Empty

BeginInstruction ==
  /\ Call("BeginInstruction")
  /\ instrCount' = instrCount + 1
  /\ tracing_on' = IF instrCount' > SkipInstructions THEN instrCount' <= LastTraced ELSE tracing_on
  /\ curr_instr' = IF tracing_on' THEN Reset ELSE curr_instr
  /\ UNCHANGED <<file, exited>>

\* Without regard to tracing_on.
BranchOrNot ==
  /\ Call("BranchOrNot")
  /\ curr_instr' = [curr_instr EXCEPT !.is_branch = TRUE, !.branch_taken = IF Arg # 0 THEN TRUE ELSE @]
  /\ UNCHANGED <<instrCount, tracing_on, file, exited>>

\* The first free place of a list takes what the list does not hold: nothing
\* when it is full.
Listed(list, x) ==
  LET free == {k \in DOMAIN list : list[k] = 0}
  IN IF x \in ToSet(list) \/ free = {} THEN list
     ELSE [list EXCEPT ![CHOOSE k \in free : \A j \in free : k <= j] = x]

List(routine, field, x) ==
  /\ Call(routine)
  /\ curr_instr' = IF tracing_on THEN [curr_instr EXCEPT ![field] = Listed(@, x)]
                   ELSE curr_instr
  /\ UNCHANGED <<instrCount, tracing_on, file, exited>>

\* Registers are kept in a byte.
RegRead == List("RegRead", "source_registers", Arg % 256)
RegWrite == List("RegWrite", "destination_registers", Arg % 256)
MemoryRead == List("MemoryRead", "source_memory", Arg)
MemoryWrite == List("MemoryWrite", "destination_memory", Arg)

EndInstruction ==
  /\ Call("EndInstruction")
  /\ IF instrCount > SkipInstructions
       THEN /\ tracing_on' = (instrCount <= LastTraced)
            /\ file' = IF instrCount <= LastTraced THEN Append(file, curr_instr) ELSE file
            /\ exited' = (instrCount > LastTraced)
       ELSE UNCHANGED <<tracing_on, file, exited>>
  /\ UNCHANGED <<instrCount, curr_instr>>

PInit == /\ program \in Programs /\ ran = 0 /\ calls = <<>>
         /\ instrCount = 0 /\ tracing_on = FALSE
         /\ curr_instr = Empty /\ file = <<>> /\ exited = FALSE
PNext == Execute \/ BeginInstruction \/ BranchOrNot \/ RegRead \/ RegWrite
         \/ MemoryRead \/ MemoryWrite \/ EndInstruction
PSpec == PInit /\ [][PNext]_tracerVars

-----------------------------------------------------------------------------
\* The trace is the window of the program that the knobs ask for, each record
\* that of its instruction alone: all it reads and writes, each once, as far
\* as there is room.  (An operand number that is a multiple of 256 is lost.)
Kept(list, s, byte) ==
  LET value(k) == IF byte THEN s[k] % 256 ELSE s[k]
      first == {k \in DOMAIN s : value(k) # 0 /\ \A j \in 1 .. k - 1 : value(j) # value(k)}
      nth(n) == {k \in first : Cardinality({j \in first : j <= k}) = n}
  IN [n \in DOMAIN list |-> IF nth(n) = {} THEN 0 ELSE value(CHOOSE k \in nth(n) : TRUE)]
RecordOf(i) ==
  [is_branch |-> i.branch # "none", branch_taken |-> i.branch = "taken",
   destination_registers |-> Kept(<<0, 0>>, i.writes, TRUE),
   source_registers |-> Kept(<<0, 0, 0, 0>>, i.reads, TRUE),
   destination_memory |-> Kept(<<0, 0>>, i.stores, FALSE),
   source_memory |-> Kept(<<0, 0, 0, 0>>, i.loads, FALSE)]
TraceIsTheWindow ==
  calls = <<>> =>
    file = [n \in 1 .. IF ran <= SkipInstructions THEN 0
                       ELSE IF exited THEN TraceInstructions
                       ELSE ran - SkipInstructions |->
              RecordOf(program[SkipInstructions + n])]
=============================================================================
