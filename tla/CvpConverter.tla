---------------------------- MODULE CvpConverter ----------------------------
(***************************************************************************)
(* cvp2champsim (src/ChampSim/cvp_tracer/cvp2champsim.cc) reads a CVP-1     *)
(* trace twice: the first time to learn the pages of code and data, the     *)
(* second time to write a ChampSim record for each of its own, with the     *)
(* data of a page that holds code as well moved to a page of its own.       *)
(* Addresses are pages; names of registers are those of the CVP trace.      *)
(***************************************************************************)
EXTENDS TraceRecord, FiniteSets

CONSTANTS
  CvpTraces,  \* traces of [type, PC, EA, taken, input_reg_names, output_reg_names]
  FirstPage   \* where new pages are sought, 0x1000
ASSUME FirstPageAssumption == FirstPage \in Nat \ {0}

\* What the reader takes; it asserts that an unconditional branch is taken.
CvpClass == {"alu", "load", "store", "condBranch", "uncondDirectBranch", "uncondIndirectBranch"}
CvpInstr ==
  {t \in [type : CvpClass, PC : Nat, EA : Nat, taken : BOOLEAN,
          input_reg_names : Seq(Nat), output_reg_names : Seq(Nat)] :
     t.type \in {"uncondDirectBranch", "uncondIndirectBranch"} => t.taken}
ASSUME CvpAssumption == CvpTraces \subseteq Seq(CvpInstr)

VARIABLES
  trace,
  pass,            \* "preprocess" or "convert"
  at,              \* records read in this pass
  code_pages, data_pages,
  remapped_pages,  \* page -> new page
  bump_page,
  written          \* the records written, with the page of the data they came from
converterVars == <<trace, pass, at, code_pages, data_pages, remapped_pages, bump_page, written>>

IsData(t) == t.type \in {"load", "store"}
IsCvpBranch(t) == t.type \in {"condBranch", "uncondDirectBranch", "uncondIndirectBranch"}

OpType(t) ==
  LET links == t.output_reg_names = <<30>>     \* to X30
      indirect == t.type = "uncondIndirectBranch"
  IN CASE ~IsCvpBranch(t) -> "OP"
       [] t.type = "condBranch" -> "JMP_DIRECT_COND"
       [] IsCvpBranch(t) /\ t.type # "condBranch" ->
            IF t.input_reg_names = <<30>> THEN "RET_UNCOND"
            ELSE IF links THEN IF indirect THEN "CALL_INDIRECT_UNCOND" ELSE "CALL_DIRECT_UNCOND"
            ELSE IF indirect THEN "JMP_INDIRECT_UNCOND" ELSE "JMP_DIRECT_UNCOND"

REG_SP == 6
REG_IP == 26
REG_AX == 56

\* The registers by which read_from_trace tells the kinds apart.
Destinations(c) == IF c \in {"CALL_INDIRECT_UNCOND", "CALL_DIRECT_UNCOND", "RET_UNCOND"}
                   THEN <<REG_IP, REG_SP>> ELSE <<REG_IP, 0>>
\* Mutant: a conditional branch does not read the instruction pointer.
ReadsFlagsOnly == <<REG_FLAGS, 0, 0, 0>>
ConditionalSources == <<REG_IP, REG_FLAGS, 0, 0>>
Sources(c) ==
  CASE c = "JMP_DIRECT_COND" -> ConditionalSources
    [] c = "CALL_INDIRECT_UNCOND" -> <<REG_IP, REG_SP, REG_AX, 0>>
    [] c = "CALL_DIRECT_UNCOND" -> <<REG_IP, REG_SP, 0, 0>>
    [] c = "JMP_INDIRECT_UNCOND" -> <<REG_AX, 0, 0, 0>>
    [] c = "RET_UNCOND" -> <<REG_SP, 0, 0, 0>>
    [] OTHER -> <<0, 0, 0, 0>>

BranchRecord(t) ==
  [Empty EXCEPT !.is_branch = TRUE,
                !.branch_taken = t.taken \/ OpType(t) \notin {"JMP_DIRECT_COND",
                                                              "JMP_DIRECT_UNCOND"},
                !.destination_registers = Destinations(OpType(t)),
                !.source_registers = Sources(OpType(t))]

\* The names with a meaning for read_from_trace are given others; 0 is no name.
Renamed(x) == CASE x = REG_IP -> 64
                [] x = REG_SP -> 65
                [] x = REG_FLAGS -> 66
                [] x = 0 -> 67
                [] OTHER -> x

\* The first output, 0 when there is none, and the first four inputs.
\* branch_taken is never set: it is left as it happens to be.
PlainRecord(t, page, left) ==
  LET out == IF t.output_reg_names = <<>> THEN 0 ELSE t.output_reg_names[1]
      in(i) == IF i \in DOMAIN t.input_reg_names THEN Renamed(t.input_reg_names[i]) ELSE 0
  IN [Empty EXCEPT !.branch_taken = left,
                   !.destination_registers = <<Renamed(out), 0>>,
                   !.source_registers = [i \in 1 .. NUM_INSTR_SOURCES |-> in(i)],
                   !.source_memory[1] = IF t.type = "load" THEN page ELSE 0,
                   !.destination_memory[1] = IF t.type = "store" THEN page ELSE 0]

-----------------------------------------------------------------------------
\* Mutant: a page of data is taken for a new one.
NewPageOffCode ==
  CHOOSE p \in bump_page .. bump_page + Cardinality(code_pages) :
    p \notin code_pages /\ \A q \in bump_page .. p - 1 : q \in code_pages

\* The first page from bump_page on that is neither of code nor of data.
NewPage ==
  LET used == code_pages \cup data_pages
  IN CHOOSE p \in bump_page .. bump_page + Cardinality(used) :
       p \notin used /\ \A q \in bump_page .. p - 1 : q \in used

IsNew(page) == page \in code_pages /\ page \notin DOMAIN remapped_pages
\* transform, for the page of an address.
Transform(page) ==
  IF page \notin code_pages THEN page
  ELSE IF IsNew(page) THEN NewPage ELSE remapped_pages[page]

PreprocessRecord ==
  LET t == trace[at + 1] IN
  /\ pass = "preprocess" /\ at < Len(trace)
  /\ at' = at + 1
  /\ code_pages' = code_pages \cup {t.PC}
  /\ data_pages' = IF IsData(t) THEN data_pages \cup {t.EA} ELSE data_pages
  /\ UNCHANGED <<trace, pass, remapped_pages, bump_page, written>>

ReopenTrace ==
  /\ pass = "preprocess" /\ at = Len(trace)
  /\ pass' = "convert" /\ at' = 0
  /\ UNCHANGED <<trace, code_pages, data_pages, remapped_pages, bump_page, written>>

ConvertRecord(left) ==
  LET t == trace[at + 1]
      page == IF IsData(t) THEN Transform(t.EA) ELSE 0
      moves == IsData(t) /\ IsNew(t.EA)
      record == IF IsCvpBranch(t) THEN BranchRecord(t) ELSE PlainRecord(t, page, left)
  IN
  /\ pass = "convert" /\ at < Len(trace)
  /\ at' = at + 1
  /\ remapped_pages' = IF ~moves THEN remapped_pages
                       ELSE [p \in DOMAIN remapped_pages \cup {t.EA} |->
                               IF p = t.EA THEN page ELSE remapped_pages[p]]
  /\ bump_page' = IF moves THEN page + 1 ELSE bump_page
  /\ written' = Append(written, record)
  /\ UNCHANGED <<trace, pass, code_pages, data_pages>>

CInit == /\ trace \in CvpTraces
         /\ pass = "preprocess" /\ at = 0
         /\ code_pages = {} /\ data_pages = {} /\ remapped_pages = <<>>
         /\ bump_page = FirstPage
         /\ written = <<>>
CNext == PreprocessRecord \/ ReopenTrace \/ \E left \in BOOLEAN : ConvertRecord(left)
CSpec == CInit /\ [][CNext]_converterVars

-----------------------------------------------------------------------------
\* The kind of a branch reaches the simulator, though no record says it: what
\* the converter takes an instruction for is what read_from_trace deduces from
\* the registers it writes down, and whether it is taken as well.
Meant(c) == CASE c = "OP" -> "NOT_BRANCH"
              [] c = "JMP_DIRECT_UNCOND" -> "DIRECT_JUMP"
              [] c = "JMP_INDIRECT_UNCOND" -> "INDIRECT"
              [] c = "JMP_DIRECT_COND" -> "CONDITIONAL"
              [] c = "CALL_DIRECT_UNCOND" -> "DIRECT_CALL"
              [] c = "CALL_INDIRECT_UNCOND" -> "INDIRECT_CALL"
              [] c = "RET_UNCOND" -> "RETURN"
KindIsDeduced ==
  \A n \in DOMAIN written :
    /\ BranchType(written[n]) = Meant(OpType(trace[n]))
    /\ IsBranch(written[n]) = IsCvpBranch(trace[n])
    /\ IsCvpBranch(trace[n]) => BranchTaken(written[n]) = trace[n].taken

\* Data never lies on a page of code, and two accesses of the converted trace
\* are to one page exactly if they were so before: remapping joins no pages
\* and splits none, however code, data and new pages overlap.
Accesses == {n \in DOMAIN written : IsData(trace[n])}
PageOf(n) == IF trace[n].type = "load" THEN written[n].source_memory[1]
             ELSE written[n].destination_memory[1]
DataAvoidsCode ==
  \A m, n \in Accesses : /\ PageOf(n) \notin code_pages
                         /\ PageOf(m) = PageOf(n) <=> trace[m].EA = trace[n].EA
=============================================================================
