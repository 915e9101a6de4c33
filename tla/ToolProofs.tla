------------------------------ MODULE ToolProofs ------------------------------
(***************************************************************************)
(* Proofs about the programs that run once and end: the converter of CVP-1 *)
(* traces, the Pin tracer, and CACTI: its cut of an array and its searches *)
(* for a cache of one bank and for one of many.                            *)
(***************************************************************************)
EXTENDS ArraySearch, NucaSearch, ArrayPartition, CvpConverter, PinTracer,
        FiniteSetTheorems, SequenceTheorems, WellFoundedInduction, TLAPS

LEMMA LeastOf ==
  ASSUME NEW S, S \subseteq Nat, S # {}
  PROVE  \E x \in S : \A y \in S : x <= y
<1>1. IsWellFoundedOn(OpToRel(<, Nat), Nat)
  BY NatLessThanWellFounded
<1>2. \E x \in S : \A y \in S : ~ (<<y, x>> \in OpToRel(<, Nat))
  BY ONLY <1>1, S \subseteq Nat, S # {}, WFMin
<1>3. PICK x \in S : \A y \in S : ~ (<<y, x>> \in OpToRel(<, Nat))
  BY <1>2
<1>4. ASSUME NEW y \in S PROVE x <= y
  <2>1. y \in Nat /\ x \in Nat
    OBVIOUS
  <2>2. ~ (y < x)
    BY <1>3, <2>1 DEF OpToRel
  <2>. QED BY <2>1, <2>2
<1>. QED BY <1>4

-----------------------------------------------------------------------------
(* The converter of CVP-1 traces.                                          *)

\* The page that an access to the page of t has in the second pass.
Moved(t) == IF t.EA \in code_pages THEN remapped_pages[t.EA] ELSE t.EA

\* The records that can be written.
CvpRecords ==
  {BranchRecord(t) : t \in CvpInstr}
  \cup {PlainRecord(t, page, left) : t \in CvpInstr, page \in Nat, left \in BOOLEAN}

\* A new page is of neither code nor data, and below where the next is sought: no two
\* pages get the same.  The second pass knows all the pages of the first.
PagesInv ==
  /\ trace \in Seq(CvpInstr) /\ pass \in {"preprocess", "convert"} /\ at \in 0 .. Len(trace)
  /\ code_pages \subseteq Nat /\ IsFiniteSet(code_pages)
  /\ data_pages \subseteq Nat /\ IsFiniteSet(data_pages)
  /\ bump_page \in Nat
  /\ DOMAIN remapped_pages \subseteq code_pages
  /\ \A p \in DOMAIN remapped_pages :
       /\ remapped_pages[p] \in Nat /\ remapped_pages[p] < bump_page
       /\ remapped_pages[p] \notin code_pages /\ remapped_pages[p] \notin data_pages
  /\ \A p, q \in DOMAIN remapped_pages : remapped_pages[p] = remapped_pages[q] => p = q
ReadInv ==
  /\ pass = "preprocess" => DOMAIN remapped_pages = {} /\ written = <<>>
  /\ \A n \in 1 .. IF pass = "preprocess" THEN at ELSE Len(trace) :
       IsData(trace[n]) => trace[n].EA \in data_pages
WrittenInv ==
  /\ written \in Seq(CvpRecords)
  /\ pass = "convert" => Len(written) = at
  /\ \A n \in DOMAIN written :
       IF IsCvpBranch(trace[n]) THEN written[n] = BranchRecord(trace[n])
       ELSE /\ IsData(trace[n]) /\ trace[n].EA \in code_pages
                 => trace[n].EA \in DOMAIN remapped_pages
            /\ \E left \in BOOLEAN :
                 written[n] = PlainRecord(trace[n], IF IsData(trace[n]) THEN Moved(trace[n]) ELSE 0,
                                          left)
ConverterInv == PagesInv /\ ReadInv /\ WrittenInv

\* Of more pages than are in use one is new: the search ends.
LEMMA NewPageIs ==
  ASSUME PagesInv
  PROVE  /\ NewPage \in Nat /\ NewPage >= bump_page
         /\ NewPage \notin code_pages /\ NewPage \notin data_pages
<1>. DEFINE used == code_pages \cup data_pages
            n == Cardinality(used)
            range == bump_page .. bump_page + n
            free == {p \in range : p \notin used}
<1>1. IsFiniteSet(used) /\ n \in Nat /\ bump_page \in Nat
  BY FS_Union, FS_CardinalityType DEF PagesInv
<1>. HIDE DEF n
<1>2. IsFiniteSet(range) /\ Cardinality(range) = n + 1
  <2>1. /\ IsFiniteSet(range)
        /\ Cardinality(range) = IF bump_page > bump_page + n THEN 0
                                ELSE (bump_page + n) - bump_page + 1
    BY <1>1, FS_Interval
  <2>. QED BY <1>1, <2>1
<1>3. free # {}
  <2>1. SUFFICES ASSUME range \subseteq used PROVE FALSE
    OBVIOUS
  <2>2. Cardinality(range) <= Cardinality(used)
    BY <1>1, <2>1, FS_Subset
  <2>. QED BY <1>1, <1>2, <2>2 DEF n
<1>4. PICK p \in free : \A q \in free : p <= q
  <2>1. free \subseteq Nat
    BY <1>1
  <2>. QED BY <1>3, <2>1, LeastOf
<1>5. \A q \in bump_page .. p - 1 : q \in used
  BY <1>1, <1>4
<1>6. \E x \in range : x \notin used /\ \A q \in bump_page .. x - 1 : q \in used
  BY <1>4, <1>5
<1>7. NewPage = CHOOSE x \in range : x \notin used /\ \A q \in bump_page .. x - 1 : q \in used
  BY DEF NewPage, n
<1>8. NewPage \in range /\ NewPage \notin used
  BY <1>6, <1>7
<1>. QED BY <1>1, <1>8

LEMMA CInitInv == CInit => ConverterInv
<1>. SUFFICES ASSUME CInit PROVE ConverterInv
  OBVIOUS
<1>1. trace \in Seq(CvpInstr) /\ Len(trace) \in Nat
  BY CvpAssumption DEF CInit
<1>2. DOMAIN remapped_pages = {} /\ DOMAIN written = {} /\ written \in Seq(CvpRecords)
  BY DEF CInit
<1>3. PagesInv
  BY <1>1, <1>2, FirstPageAssumption, FS_EmptySet DEF CInit, PagesInv
<1>4. ReadInv
  BY <1>1, <1>2 DEF CInit, ReadInv
<1>5. WrittenInv
  BY <1>1, <1>2 DEF CInit, WrittenInv
<1>. QED BY <1>3, <1>4, <1>5 DEF ConverterInv

LEMMA PreprocessStep == ASSUME ConverterInv, PreprocessRecord PROVE ConverterInv'
<1>. DEFINE t == trace[at + 1]
<1>1. /\ pass = "preprocess" /\ at < Len(trace) /\ at' = at + 1 /\ trace' = trace /\ pass' = pass
      /\ code_pages' = code_pages \cup {t.PC}
      /\ data_pages' = IF IsData(t) THEN data_pages \cup {t.EA} ELSE data_pages
      /\ remapped_pages' = remapped_pages /\ bump_page' = bump_page /\ written' = written
  BY DEF PreprocessRecord
<1>2. trace \in Seq(CvpInstr) /\ at \in 0 .. Len(trace) /\ Len(trace) \in Nat /\ DOMAIN remapped_pages = {}
      /\ written = <<>>
  BY <1>1 DEF ConverterInv, PagesInv, ReadInv
<1>3. t \in CvpInstr
  BY <1>1, <1>2
<1>4. t.PC \in Nat /\ t.EA \in Nat
  BY <1>3 DEF CvpInstr
<1>5. PagesInv'
  <2>1. code_pages' \subseteq Nat /\ data_pages' \subseteq Nat
    BY <1>1, <1>4 DEF ConverterInv, PagesInv
  <2>2. IsFiniteSet(code_pages') /\ IsFiniteSet(data_pages')
    BY <1>1, FS_AddElement DEF ConverterInv, PagesInv
  <2>. QED BY <1>1, <1>2, <2>1, <2>2 DEF ConverterInv, PagesInv
<1>6. ReadInv'
  <2>. SUFFICES ASSUME NEW n \in 1 .. at + 1, IsData(trace[n]) PROVE trace[n].EA \in data_pages'
    BY <1>1, <1>2 DEF ReadInv, IsData
  <2>1. CASE n = at + 1
    BY <1>1, <2>1
  <2>2. CASE n \in 1 .. at
    BY <1>1, <2>2 DEF ConverterInv, ReadInv
  <2>. QED BY <1>2, <2>1, <2>2
<1>7. WrittenInv'
  BY <1>1, <1>2 DEF WrittenInv
<1>. QED BY <1>5, <1>6, <1>7 DEF ConverterInv

LEMMA ReopenStep == ASSUME ConverterInv, ReopenTrace PROVE ConverterInv'
<1>1. /\ pass = "preprocess" /\ at = Len(trace) /\ pass' = "convert" /\ at' = 0 /\ trace' = trace
      /\ code_pages' = code_pages /\ data_pages' = data_pages
      /\ remapped_pages' = remapped_pages /\ bump_page' = bump_page /\ written' = written
  BY DEF ReopenTrace
<1>2. trace \in Seq(CvpInstr) /\ Len(trace) \in Nat /\ written = <<>>
  BY <1>1 DEF ConverterInv, PagesInv, ReadInv
<1>3. PagesInv'
  BY <1>1, <1>2 DEF ConverterInv, PagesInv
<1>4. ReadInv'
  BY <1>1, <1>2 DEF ConverterInv, ReadInv, IsData
<1>5. WrittenInv'
  BY <1>1, <1>2 DEF WrittenInv
<1>. QED BY <1>3, <1>4, <1>5 DEF ConverterInv

LEMMA ConvertStep == ASSUME ConverterInv, NEW left \in BOOLEAN, ConvertRecord(left)
                     PROVE  ConverterInv'
<1>. DEFINE t == trace[at + 1]
            page == IF IsData(t) THEN Transform(t.EA) ELSE 0
            moves == IsData(t) /\ IsNew(t.EA)
            record == IF IsCvpBranch(t) THEN BranchRecord(t) ELSE PlainRecord(t, page, left)
<1>1. /\ pass = "convert" /\ at < Len(trace) /\ at' = at + 1 /\ trace' = trace /\ pass' = pass
      /\ code_pages' = code_pages /\ data_pages' = data_pages
      /\ remapped_pages' = IF ~moves THEN remapped_pages
                           ELSE [p \in DOMAIN remapped_pages \cup {t.EA} |->
                                   IF p = t.EA THEN page ELSE remapped_pages[p]]
      /\ bump_page' = IF moves THEN page + 1 ELSE bump_page
      /\ written' = Append(written, record)
  BY DEF ConvertRecord
<1>2. /\ trace \in Seq(CvpInstr) /\ at \in 0 .. Len(trace) /\ Len(trace) \in Nat
      /\ written \in Seq(CvpRecords) /\ Len(written) = at
  BY <1>1 DEF ConverterInv, PagesInv, WrittenInv
<1>3. t \in CvpInstr
  BY <1>1, <1>2
<1>4. t.EA \in Nat
  BY <1>3 DEF CvpInstr
\* The pages after the record.
<1>5. /\ DOMAIN remapped_pages' \subseteq code_pages
      /\ \A p \in DOMAIN remapped_pages : p \in DOMAIN remapped_pages' /\ remapped_pages'[p] = remapped_pages[p]
      /\ page \in Nat
      /\ IsData(t) /\ t.EA \in code_pages => t.EA \in DOMAIN remapped_pages' /\ page = remapped_pages'[t.EA]
      /\ IsData(t) /\ t.EA \notin code_pages => page = t.EA
      /\ PagesInv'
  <2>1. CASE moves
    <3>1. /\ page = NewPage /\ t.EA \in code_pages /\ t.EA \notin DOMAIN remapped_pages
          /\ remapped_pages' = [p \in DOMAIN remapped_pages \cup {t.EA} |->
                                   IF p = t.EA THEN NewPage ELSE remapped_pages[p]]
          /\ bump_page' = NewPage + 1
      BY <1>1, <2>1 DEF Transform, IsNew
    <3>2. /\ NewPage \in Nat /\ NewPage >= bump_page /\ bump_page \in Nat
          /\ NewPage \notin code_pages /\ NewPage \notin data_pages
      BY NewPageIs DEF ConverterInv, PagesInv
    <3>3. /\ DOMAIN remapped_pages' = DOMAIN remapped_pages \cup {t.EA}
          /\ \A p \in DOMAIN remapped_pages' :
                remapped_pages'[p] = IF p = t.EA THEN NewPage ELSE remapped_pages[p]
      BY <3>1
    <3>. HIDE DEF t, page, moves, record
    <3>4. \A p \in DOMAIN remapped_pages :
            /\ remapped_pages[p] \in Nat /\ remapped_pages[p] < bump_page
            /\ remapped_pages[p] \notin code_pages /\ remapped_pages[p] \notin data_pages
      BY DEF ConverterInv, PagesInv
    <3>5. \A p \in DOMAIN remapped_pages' :
            /\ remapped_pages'[p] \in Nat /\ remapped_pages'[p] < NewPage + 1
            /\ remapped_pages'[p] \notin code_pages /\ remapped_pages'[p] \notin data_pages
      BY <3>2, <3>3, <3>4
    <3>6. ASSUME NEW p \in DOMAIN remapped_pages', NEW q \in DOMAIN remapped_pages',
                 remapped_pages'[p] = remapped_pages'[q]
          PROVE  p = q
      <4>1. \A r \in DOMAIN remapped_pages : remapped_pages[r] # NewPage
        BY <3>2, <3>4
      <4>. QED BY <3>3, <3>6, <4>1 DEF ConverterInv, PagesInv
    <3>7. PagesInv'
      BY <1>1, <1>2, <3>1, <3>2, <3>3, <3>5, <3>6 DEF ConverterInv, PagesInv
    <3>. QED BY <1>1, <3>1, <3>2, <3>3, <3>7 DEF PagesInv
  <2>2. CASE ~moves
    <3>1. remapped_pages' = remapped_pages /\ bump_page' = bump_page
      BY <1>1, <2>2
    <3>2. /\ IsData(t) /\ t.EA \in code_pages
               => t.EA \in DOMAIN remapped_pages /\ page = remapped_pages[t.EA]
          /\ IsData(t) /\ t.EA \notin code_pages => page = t.EA
          /\ ~IsData(t) => page = 0
      BY <2>2 DEF Transform, IsNew
    <3>. HIDE DEF t, page, moves, record
    <3>3. PagesInv'
      <4>1. at' \in 0 .. Len(trace') /\ trace' \in Seq(CvpInstr) /\ pass' \in {"preprocess", "convert"}
        BY <1>1, <1>2
      <4>. QED BY <1>1, <3>1, <4>1 DEF ConverterInv, PagesInv
    <3>4. page \in Nat
      BY <1>4, <3>2 DEF ConverterInv, PagesInv
    <3>. QED BY <3>1, <3>2, <3>3, <3>4 DEF ConverterInv, PagesInv
  <2>. QED BY <2>1, <2>2
<1>6. ReadInv'
  BY <1>1 DEF ConverterInv, ReadInv, IsData
<1>7. record \in CvpRecords
  <2>1. page \in Nat /\ t \in CvpInstr
    BY <1>3, <1>5
  <2>. HIDE DEF page, t
  <2>. QED BY <2>1 DEF CvpRecords
<1>8. /\ written' \in Seq(CvpRecords) /\ Len(written') = at + 1 /\ DOMAIN written' = 1 .. at + 1
      /\ \A n \in DOMAIN written : n \in 1 .. at /\ written'[n] = written[n]
      /\ written'[at + 1] = record
  BY <1>1, <1>2, <1>7
<1>. DEFINE After(r) == IF r.EA \in code_pages THEN remapped_pages'[r.EA] ELSE r.EA
            Done(n) ==
       IF IsCvpBranch(trace[n]) THEN written'[n] = BranchRecord(trace[n])
       ELSE /\ IsData(trace[n]) /\ trace[n].EA \in code_pages
                 => trace[n].EA \in DOMAIN remapped_pages'
            /\ \E l \in BOOLEAN :
                 written'[n] = PlainRecord(trace[n], IF IsData(trace[n]) THEN After(trace[n]) ELSE 0, l)
<1>9. Done(at + 1)
  <2>1. page = IF IsData(t) THEN After(t) ELSE 0
    BY <1>1, <1>5
  <2>. HIDE DEF page
  <2>2. CASE IsCvpBranch(t)
    BY <1>8, <2>2
  <2>3. CASE ~IsCvpBranch(t)
    BY <1>5, <1>8, <2>1, <2>3
  <2>. QED BY <2>2, <2>3
<1>10. ASSUME NEW n \in 1 .. at PROVE Done(n)
  <2>1. n \in DOMAIN written /\ written'[n] = written[n]
    BY <1>2, <1>8
  <2>2. CASE IsCvpBranch(trace[n])
    BY <2>1, <2>2 DEF ConverterInv, WrittenInv
  <2>3. CASE ~IsCvpBranch(trace[n])
    <3>1. IsData(trace[n]) /\ trace[n].EA \in code_pages => trace[n].EA \in DOMAIN remapped_pages
      BY <2>1, <2>3 DEF ConverterInv, WrittenInv
    <3>2. PICK l \in BOOLEAN : written[n] = PlainRecord(trace[n], IF IsData(trace[n]) THEN Moved(trace[n]) ELSE 0, l)
      BY <2>1, <2>3 DEF ConverterInv, WrittenInv
    <3>3. IsData(trace[n]) => After(trace[n]) = Moved(trace[n])
      BY <1>5, <3>1 DEF Moved
    <3>4. (IF IsData(trace[n]) THEN After(trace[n]) ELSE 0) = IF IsData(trace[n]) THEN Moved(trace[n]) ELSE 0
      BY <3>3
    <3>5. IsData(trace[n]) /\ trace[n].EA \in code_pages => trace[n].EA \in DOMAIN remapped_pages'
      BY <1>5, <3>1
    <3>. QED BY <2>1, <2>3, <3>2, <3>4, <3>5
  <2>. QED BY <2>2, <2>3
<1>11. WrittenInv'
  <2>1. ASSUME NEW n \in DOMAIN written' PROVE Done(n)
    <3>1. n = at + 1 \/ n \in 1 .. at
      BY <1>2, <1>8
    <3>. HIDE DEF Done
    <3>. QED BY <1>9, <1>10, <3>1
  <2>2. ASSUME NEW n \in DOMAIN written' PROVE Moved(trace[n])' = After(trace[n])
    BY <1>1 DEF Moved
  <2>. HIDE DEF After
  <2>. QED BY <1>1, <1>8, <2>1, <2>2 DEF WrittenInv, IsData, IsCvpBranch
<1>. QED BY <1>5, <1>6, <1>11 DEF ConverterInv

LEMMA CStepInv == ConverterInv /\ [CNext]_converterVars => ConverterInv'
<1>1. ASSUME ConverterInv, UNCHANGED converterVars PROVE ConverterInv'
  BY <1>1 DEF converterVars, ConverterInv, PagesInv, ReadInv, WrittenInv, Moved, IsData, IsCvpBranch
<1>. QED BY <1>1, PreprocessStep, ReopenStep, ConvertStep DEF CNext

\* Where the page of the data is in the record.
LEMMA PlainMemory ==
  ASSUME NEW t, NEW page, NEW left, IsData(t)
  PROVE  IF t.type = "load" THEN PlainRecord(t, page, left).source_memory[1] = page
                            ELSE PlainRecord(t, page, left).destination_memory[1] = page
BY DEF PlainRecord, Empty, IsData

LEMMA AccessPage ==
  ASSUME ConverterInv, NEW n \in Accesses
  PROVE  /\ PageOf(n) = Moved(trace[n])
         /\ trace[n].EA \in code_pages => trace[n].EA \in DOMAIN remapped_pages
         /\ trace[n].EA \in data_pages
<1>1. n \in DOMAIN written /\ IsData(trace[n]) /\ ~IsCvpBranch(trace[n])
  BY DEF Accesses, IsData, IsCvpBranch
<1>2. PICK l \in BOOLEAN : written[n] = PlainRecord(trace[n], Moved(trace[n]), l)
  BY <1>1 DEF ConverterInv, WrittenInv
<1>3. PageOf(n) = Moved(trace[n])
  BY <1>1, <1>2, PlainMemory DEF PageOf
<1>4. pass = "convert"
  BY <1>1 DEF ConverterInv, PagesInv, ReadInv
<1>5. n \in 1 .. Len(trace)
  BY <1>1, <1>4 DEF ConverterInv, PagesInv, WrittenInv
<1>. QED BY <1>1, <1>3, <1>4, <1>5 DEF ConverterInv, ReadInv, WrittenInv

\* DataAvoidsCode: no access of the converted trace is to a page of code, and the pages of
\* two accesses are one exactly if they were before, for every trace: new pages are taken
\* from beyond all that is in use, and each is given once.
THEOREM DataTheorem == CSpec => []DataAvoidsCode
<1>1. ConverterInv => DataAvoidsCode
  <2>. SUFFICES ASSUME ConverterInv, NEW m \in Accesses, NEW n \in Accesses
                PROVE  /\ PageOf(n) \notin code_pages
                       /\ PageOf(m) = PageOf(n) <=> trace[m].EA = trace[n].EA
    BY DEF DataAvoidsCode
  <2>1. ASSUME NEW k \in Accesses
        PROVE  /\ trace[k].EA \in data_pages
               /\ IF trace[k].EA \in code_pages
                  THEN /\ trace[k].EA \in DOMAIN remapped_pages
                       /\ PageOf(k) = remapped_pages[trace[k].EA]
                       /\ PageOf(k) \notin code_pages /\ PageOf(k) \notin data_pages
                  ELSE PageOf(k) = trace[k].EA
    BY AccessPage DEF Moved, ConverterInv, PagesInv
  <2>2. \A p, q \in DOMAIN remapped_pages : remapped_pages[p] = remapped_pages[q] => p = q
    BY DEF ConverterInv, PagesInv
  <2>. QED BY <2>1, <2>2
<1>. QED BY <1>1, CInitInv, CStepInv, PTL DEF CSpec

-----------------------------------------------------------------------------
(* What the simulator makes of the registers.                              *)

LEMMA SetOfTwo == ASSUME NEW a, NEW b PROVE ToSet(<<a, b>>) = {a, b}
BY DEF ToSet
LEMMA SetOfFour ==
  ASSUME NEW a, NEW b, NEW c, NEW d PROVE ToSet(<<a, b, c, d>>) = {a, b, c, d}
BY DEF ToSet

\* The registers of a branch give away its kind.
LEMMA BranchIsDeduced ==
  ASSUME NEW t \in CvpInstr, IsCvpBranch(t)
  PROVE  LET r == BranchRecord(t)
         IN /\ BranchType(r) = Meant(OpType(t)) /\ r.is_branch
            /\ BranchTaken(r) = t.taken
<1>. DEFINE r == BranchRecord(t)
            kind == OpType(t)
<1>1. /\ r.destination_registers = Destinations(kind) /\ r.source_registers = Sources(kind)
      /\ r.is_branch = TRUE
      /\ r.branch_taken = (t.taken \/ kind \notin {"JMP_DIRECT_COND", "JMP_DIRECT_UNCOND"})
  BY DEF BranchRecord, Empty
<1>2. /\ kind \in {"JMP_DIRECT_COND", "RET_UNCOND", "CALL_INDIRECT_UNCOND", "CALL_DIRECT_UNCOND",
                   "JMP_INDIRECT_UNCOND", "JMP_DIRECT_UNCOND"}
      /\ kind = "JMP_DIRECT_COND" <=> t.type = "condBranch"
  BY DEF OpType, IsCvpBranch
<1>3. t.taken \in BOOLEAN /\ (kind # "JMP_DIRECT_COND" => t.taken)
  BY <1>2 DEF CvpInstr, IsCvpBranch
<1>. HIDE DEF r, kind
<1>4. CASE kind = "JMP_DIRECT_COND"
  <2>1. /\ ToSet(r.destination_registers) = {26, 0}
        /\ ToSet(r.source_registers) = {26, 25, 0, 0}
    BY <1>1, <1>4, SetOfTwo, SetOfFour
       DEF Destinations, Sources, ConditionalSources, REG_IP, REG_FLAGS
  <2>2. BranchType(r) = "CONDITIONAL"
    BY <2>1 DEF BranchType, REG_STACK_POINTER, REG_FLAGS, REG_INSTRUCTION_POINTER
  <2>. QED BY <1>1, <1>3, <1>4, <2>2 DEF Meant, BranchTaken, r, kind
<1>5. CASE kind = "RET_UNCOND"
  <2>1. /\ ToSet(r.destination_registers) = {26, 6}
        /\ ToSet(r.source_registers) = {6, 0, 0, 0}
    BY <1>1, <1>5, SetOfTwo, SetOfFour DEF Destinations, Sources, REG_IP, REG_SP
  <2>2. BranchType(r) = "RETURN"
    BY <2>1 DEF BranchType, REG_STACK_POINTER, REG_FLAGS, REG_INSTRUCTION_POINTER
  <2>. QED BY <1>1, <1>3, <1>5, <2>2 DEF Meant, BranchTaken, r, kind
<1>6. CASE kind = "CALL_INDIRECT_UNCOND"
  <2>1. /\ ToSet(r.destination_registers) = {26, 6}
        /\ ToSet(r.source_registers) = {26, 6, 56, 0}
    BY <1>1, <1>6, SetOfTwo, SetOfFour DEF Destinations, Sources, REG_IP, REG_SP, REG_AX
  <2>2. BranchType(r) = "INDIRECT_CALL"
    BY <2>1 DEF BranchType, REG_STACK_POINTER, REG_FLAGS, REG_INSTRUCTION_POINTER
  <2>. QED BY <1>1, <1>3, <1>6, <2>2 DEF Meant, BranchTaken, r, kind
<1>7. CASE kind = "CALL_DIRECT_UNCOND"
  <2>1. /\ ToSet(r.destination_registers) = {26, 6}
        /\ ToSet(r.source_registers) = {26, 6, 0, 0}
    BY <1>1, <1>7, SetOfTwo, SetOfFour DEF Destinations, Sources, REG_IP, REG_SP
  <2>2. BranchType(r) = "DIRECT_CALL"
    BY <2>1 DEF BranchType, REG_STACK_POINTER, REG_FLAGS, REG_INSTRUCTION_POINTER
  <2>. QED BY <1>1, <1>3, <1>7, <2>2 DEF Meant, BranchTaken, r, kind
<1>8. CASE kind = "JMP_INDIRECT_UNCOND"
  <2>1. /\ ToSet(r.destination_registers) = {26, 0}
        /\ ToSet(r.source_registers) = {56, 0, 0, 0}
    BY <1>1, <1>8, SetOfTwo, SetOfFour DEF Destinations, Sources, REG_IP, REG_AX
  <2>2. BranchType(r) = "INDIRECT"
    BY <2>1 DEF BranchType, REG_STACK_POINTER, REG_FLAGS, REG_INSTRUCTION_POINTER
  <2>. QED BY <1>1, <1>3, <1>8, <2>2 DEF Meant, BranchTaken, r, kind
<1>9. CASE kind = "JMP_DIRECT_UNCOND"
  <2>1. /\ ToSet(r.destination_registers) = {26, 0}
        /\ ToSet(r.source_registers) = {0, 0, 0, 0}
    BY <1>1, <1>9, SetOfTwo, SetOfFour DEF Destinations, Sources, REG_IP
  <2>2. BranchType(r) = "DIRECT_JUMP"
    BY <2>1 DEF BranchType, REG_STACK_POINTER, REG_FLAGS, REG_INSTRUCTION_POINTER
  <2>. QED BY <1>1, <1>3, <1>9, <2>2 DEF Meant, BranchTaken, r, kind
<1>. QED BY <1>2, <1>4, <1>5, <1>6, <1>7, <1>8, <1>9

\* An instruction that is no branch writes no register that makes it one.
LEMMA PlainIsDeduced ==
  ASSUME NEW t \in CvpInstr, ~IsCvpBranch(t), NEW page, NEW left
  PROVE  LET r == PlainRecord(t, page, left)
         IN BranchType(r) = Meant(OpType(t)) /\ ~IsBranch(r)
<1>. DEFINE r == PlainRecord(t, page, left)
            out == IF t.output_reg_names = <<>> THEN 0 ELSE t.output_reg_names[1]
<1>1. r.destination_registers = <<Renamed(out), 0>> /\ r.is_branch = FALSE
  BY DEF PlainRecord, Empty
<1>. HIDE DEF r, out
<1>2. Renamed(out) # 26
  BY DEF Renamed, REG_IP, REG_SP, REG_FLAGS
<1>3. 26 \notin ToSet(r.destination_registers)
  BY <1>1, <1>2, SetOfTwo
<1>4. BranchType(r) = "NOT_BRANCH"
  BY <1>3 DEF BranchType, REG_INSTRUCTION_POINTER
<1>5. Meant(OpType(t)) = "NOT_BRANCH"
  BY DEF OpType, Meant, IsCvpBranch
<1>6. ~IsBranch(r)
  BY <1>1, <1>4 DEF IsBranch
<1>. QED BY <1>4, <1>5, <1>6 DEF r

\* KindIsDeduced: what the converter takes an instruction for is what the simulator
\* deduces from the registers of its record, and a branch is taken in both or neither.
THEOREM KindTheorem == CSpec => []KindIsDeduced
<1>1. ConverterInv => KindIsDeduced
  <2>. SUFFICES ASSUME ConverterInv, NEW n \in DOMAIN written
                PROVE  /\ BranchType(written[n]) = Meant(OpType(trace[n]))
                       /\ IsBranch(written[n]) = IsCvpBranch(trace[n])
                       /\ IsCvpBranch(trace[n]) => BranchTaken(written[n]) = trace[n].taken
    BY DEF KindIsDeduced
  <2>1. pass = "convert"
    BY DEF ConverterInv, PagesInv, ReadInv
  <2>2. n \in 1 .. Len(trace) /\ trace[n] \in CvpInstr
    BY <2>1 DEF ConverterInv, PagesInv, WrittenInv
  <2>3. CASE IsCvpBranch(trace[n])
    <3>1. written[n] = BranchRecord(trace[n])
      BY <2>3 DEF ConverterInv, WrittenInv
    <3>2. IsBranch(written[n])
      BY <2>2, <2>3, <3>1, BranchIsDeduced DEF IsBranch
    <3>. QED BY <2>2, <2>3, <3>1, <3>2, BranchIsDeduced DEF IsBranch, IsCvpBranch
  <2>4. CASE ~IsCvpBranch(trace[n])
    <3>1. PICK page, l : written[n] = PlainRecord(trace[n], page, l)
      BY <2>4 DEF ConverterInv, WrittenInv
    <3>. QED BY <2>2, <2>4, <3>1, PlainIsDeduced DEF IsBranch, IsCvpBranch
  <2>. QED BY <2>3, <2>4
<1>. QED BY <1>1, CInitInv, CStepInv, PTL DEF CSpec

-----------------------------------------------------------------------------
(* The n-th of a set of numbers.                                           *)

UpToIn(F, k) == {j \in F : j <= k}
PlaceIn(F, k) == Cardinality(UpToIn(F, k))

LEMMA PlaceIsRank ==
  ASSUME NEW F, F \subseteq Nat, IsFiniteSet(F)
  PROVE  /\ \A k \in F : PlaceIn(F, k) \in 1 .. Cardinality(F)
         /\ \A j, k \in F : j < k => PlaceIn(F, j) < PlaceIn(F, k)
         /\ \A n \in 1 .. Cardinality(F) : \E k \in F : PlaceIn(F, k) = n
         /\ Cardinality(F) \in Nat
<1>. DEFINE c == Cardinality(F)
            r == [k \in F |-> PlaceIn(F, k)]
<1>1. c \in Nat
  BY FS_CardinalityType
<1>2. ASSUME NEW k \in F
      PROVE  IsFiniteSet(UpToIn(F, k)) /\ PlaceIn(F, k) \in Nat /\ PlaceIn(F, k) <= c /\ k \in UpToIn(F, k)
  <2>1. UpToIn(F, k) \subseteq F /\ k \in UpToIn(F, k)
    BY DEF UpToIn
  <2>2. IsFiniteSet(UpToIn(F, k)) /\ Cardinality(UpToIn(F, k)) <= Cardinality(F)
    BY <2>1, FS_Subset
  <2>. QED BY <2>1, <2>2, FS_CardinalityType DEF PlaceIn
<1>3. ASSUME NEW k \in F PROVE PlaceIn(F, k) \in 1 .. c
  <2>1. UpToIn(F, k) # {}
    BY <1>2
  <2>2. PlaceIn(F, k) # 0
    BY <1>2, <2>1, FS_EmptySet DEF PlaceIn
  <2>. QED BY <1>1, <1>2, <2>2
<1>4. ASSUME NEW j \in F, NEW k \in F, j < k PROVE PlaceIn(F, j) < PlaceIn(F, k)
  <2>1. UpToIn(F, j) \subseteq UpToIn(F, k) /\ k \notin UpToIn(F, j) /\ k \in UpToIn(F, k)
    <3>1. j \in Nat /\ k \in Nat /\ \A i \in F : i \in Nat
      OBVIOUS
    <3>2. ~(k <= j) /\ k <= k /\ \A i \in F : i <= j => i <= k
      BY <1>4, <3>1
    <3>. QED BY <3>2 DEF UpToIn
  <2>2. /\ Cardinality(UpToIn(F, j)) <= Cardinality(UpToIn(F, k))
        /\ Cardinality(UpToIn(F, j)) # Cardinality(UpToIn(F, k))
    BY <1>2, <2>1, FS_Subset
  <2>. QED BY <1>2, <2>2 DEF PlaceIn
<1>5. r \in Injection(F, 1 .. c)
  <2>1. r \in [F -> 1 .. c]
    BY <1>3
  <2>2. \A j, k \in F : r[j] = r[k] => j = k
    BY <1>1, <1>3, <1>4
  <2>. QED BY <2>1, <2>2 DEF Injection, IsInjective
<1>6. IsFiniteSet(1 .. c) /\ Cardinality(1 .. c) = c
  BY <1>1, FS_Interval
<1>7. r \in Surjection(F, 1 .. c)
  BY <1>5, <1>6, FS_Injection
<1>8. \A n \in 1 .. c : \E k \in F : PlaceIn(F, k) = n
  BY <1>7 DEF Surjection
<1>. QED BY <1>1, <1>3, <1>4, <1>8

\* What comes after all the others changes the places of none.
LEMMA PlaceOfLast ==
  ASSUME NEW F, F \subseteq Nat, IsFiniteSet(F), NEW m \in Nat, \A k \in F : k < m
  PROVE  /\ IsFiniteSet(F \cup {m}) /\ Cardinality(F \cup {m}) = Cardinality(F) + 1
         /\ PlaceIn(F \cup {m}, m) = Cardinality(F) + 1
         /\ \A k \in F : PlaceIn(F \cup {m}, k) = PlaceIn(F, k)
<1>1. m \notin F
  OBVIOUS
<1>2. IsFiniteSet(F \cup {m}) /\ Cardinality(F \cup {m}) = Cardinality(F) + 1
  BY <1>1, FS_AddElement
<1>3. UpToIn(F \cup {m}, m) = F \cup {m}
  <2>1. m <= m /\ \A k \in F : k <= m
    OBVIOUS
  <2>. QED BY <2>1 DEF UpToIn
<1>4. ASSUME NEW k \in F PROVE UpToIn(F \cup {m}, k) = UpToIn(F, k)
  <2>1. k \in Nat /\ ~(m <= k)
    OBVIOUS
  <2>. QED BY <2>1 DEF UpToIn
<1>. QED BY <1>2, <1>3, <1>4 DEF PlaceIn

-----------------------------------------------------------------------------
(* What a list of the record keeps of the first a values of v.             *)

FirstIn(v, a) == {k \in 1 .. a : v[k] # 0 /\ \A j \in 1 .. k - 1 : v[j] # v[k]}
NthIn(v, a, n) == {k \in FirstIn(v, a) : PlaceIn(FirstIn(v, a), k) = n}
ValueAt(v, K) == IF K = {} THEN 0 ELSE v[CHOOSE k \in K : TRUE]
KeptOf(N, v, a) == [n \in 1 .. N |-> ValueAt(v, NthIn(v, a, n))]

LEMMA FirstInIs ==
  ASSUME NEW v, NEW a \in Nat
  PROVE  /\ FirstIn(v, a) \subseteq Nat /\ IsFiniteSet(FirstIn(v, a)) /\ FirstIn(v, a) \subseteq 1 .. a
         /\ Cardinality(FirstIn(v, a)) \in Nat
<1>1. FirstIn(v, a) \subseteq 1 .. a
  BY DEF FirstIn
<1>2. IsFiniteSet(1 .. a)
  BY FS_Interval
<1>3. IsFiniteSet(FirstIn(v, a))
  BY <1>1, <1>2, FS_Subset
<1>4. Cardinality(FirstIn(v, a)) \in Nat
  BY <1>3, FS_CardinalityType
<1>. QED BY <1>1, <1>3, <1>4

\* The n-th is one, if there are as many.
LEMMA NthIs ==
  ASSUME NEW v, NEW a \in Nat, NEW n \in Nat \ {0}
  PROVE  /\ NthIn(v, a, n) = {} <=> n > Cardinality(FirstIn(v, a))
         /\ \A j, k \in NthIn(v, a, n) : j = k
         /\ NthIn(v, a, n) \subseteq FirstIn(v, a)
<1>. DEFINE F == FirstIn(v, a)
<1>1. F \subseteq Nat /\ IsFiniteSet(F) /\ Cardinality(F) \in Nat
  BY FirstInIs
<1>. HIDE DEF F
<1>2. /\ \A k \in F : PlaceIn(F, k) \in 1 .. Cardinality(F)
      /\ \A j, k \in F : j < k => PlaceIn(F, j) < PlaceIn(F, k)
      /\ \A m \in 1 .. Cardinality(F) : \E k \in F : PlaceIn(F, k) = m
  BY <1>1, PlaceIsRank
<1>3. NthIn(v, a, n) = {k \in F : PlaceIn(F, k) = n}
  BY DEF NthIn, F
<1>4. ASSUME NEW j \in NthIn(v, a, n), NEW k \in NthIn(v, a, n) PROVE j = k
  <2>1. j \in F /\ k \in F /\ PlaceIn(F, j) = n /\ PlaceIn(F, k) = n /\ j \in Nat /\ k \in Nat
    BY <1>1, <1>3
  <2>2. ~(j < k) /\ ~(k < j)
    BY <1>2, <2>1
  <2>. QED BY <2>1, <2>2
<1>5. NthIn(v, a, n) = {} <=> n > Cardinality(F)
  <2>1. CASE n > Cardinality(F)
    <3>1. \A k \in F : PlaceIn(F, k) # n
      BY <1>1, <1>2, <2>1
    <3>. QED BY <1>3, <2>1, <3>1
  <2>2. CASE ~(n > Cardinality(F))
    <3>1. n \in 1 .. Cardinality(F)
      BY <1>1, <2>2
    <3>2. \E k \in F : PlaceIn(F, k) = n
      BY <1>2, <3>1
    <3>. QED BY <1>3, <2>2, <3>2
  <2>. QED BY <2>1, <2>2
<1>. QED BY <1>3, <1>4, <1>5 DEF F

\* Each place holds the value of its own number, 0 when there are not as many.
LEMMA KeptAt ==
  ASSUME NEW v, NEW a \in Nat, NEW N \in Nat, NEW n \in 1 .. N
  PROVE  /\ n > Cardinality(FirstIn(v, a)) => KeptOf(N, v, a)[n] = 0
         /\ \A k \in NthIn(v, a, n) : KeptOf(N, v, a)[n] = v[k]
         /\ n <= Cardinality(FirstIn(v, a)) => \E k \in NthIn(v, a, n) : TRUE
<1>1. /\ NthIn(v, a, n) = {} <=> n > Cardinality(FirstIn(v, a))
      /\ \A j, k \in NthIn(v, a, n) : j = k
  BY NthIs
<1>2. KeptOf(N, v, a)[n] = IF NthIn(v, a, n) = {} THEN 0 ELSE v[CHOOSE k \in NthIn(v, a, n) : TRUE]
  BY DEF KeptOf, ValueAt
<1>3. Cardinality(FirstIn(v, a)) \in Nat
  BY FirstInIs
<1>4. n > Cardinality(FirstIn(v, a)) => KeptOf(N, v, a)[n] = 0
  BY <1>1, <1>2
<1>5. \A k \in NthIn(v, a, n) : KeptOf(N, v, a)[n] = v[k]
  BY <1>1, <1>2
<1>6. n <= Cardinality(FirstIn(v, a)) => \E k \in NthIn(v, a, n) : TRUE
  BY <1>1, <1>3
<1>. QED BY <1>4, <1>5, <1>6

LEMMA KeptHere ==
  ASSUME NEW v, NEW a \in Nat, NEW N \in Nat, NEW n \in 1 .. N, NEW k \in NthIn(v, a, n)
  PROVE  KeptOf(N, v, a)[n] = v[k]
BY KeptAt

\* One value more, and the place that the analysis routines give it.
LEMMA ListedIsKept ==
  ASSUME NEW m \in Nat, NEW v \in [1 .. m -> Nat], NEW a \in 0 .. m - 1, NEW N \in Nat
  PROVE  Listed(KeptOf(N, v, a), v[a + 1]) = KeptOf(N, v, a + 1)
<1>. DEFINE F == FirstIn(v, a)
            G == FirstIn(v, a + 1)
            c == Cardinality(F)
            x == v[a + 1]
            list == KeptOf(N, v, a)
            free == {k \in DOMAIN list : list[k] = 0}
            new == x # 0 /\ \A j \in 1 .. a : v[j] # x
<1>1. /\ F \subseteq Nat /\ IsFiniteSet(F) /\ F \subseteq 1 .. a /\ c \in Nat
      /\ a \in Nat /\ a + 1 \in 1 .. m /\ x \in Nat
      /\ G \subseteq 1 .. a + 1
  BY FirstInIs
<1>0. a \in Nat
  BY <1>1
<1>2. DOMAIN list = 1 .. N
  BY DEF KeptOf
<1>3. Listed(list, x) = IF x \in ToSet(list) \/ free = {} THEN list
                        ELSE [list EXCEPT ![CHOOSE k \in free : \A j \in free : k <= j] = x]
  BY DEF Listed
<1>4. G = IF new THEN F \cup {a + 1} ELSE F
  <2>1. \A k \in 1 .. a : k \in 1 .. a + 1
    BY <1>1
  <2>2. \A k \in 1 .. a + 1 : k \in 1 .. a \/ k = a + 1
    BY <1>1
  <2>3. (a + 1) - 1 = a /\ a + 1 \in 1 .. a + 1
    BY <1>1
  <2>. QED BY <2>1, <2>2, <2>3 DEF FirstIn
<1>5. \A n \in 1 .. N : list[n] = 0 <=> n > c
  <2>1. ASSUME NEW n \in 1 .. N, n <= c PROVE list[n] # 0
    <3>1. PICK k \in NthIn(v, a, n) : TRUE
      BY <1>1, <2>1, KeptAt
    <3>2. list[n] = v[k]
      BY <1>1, <3>1, KeptAt
    <3>3. v[k] # 0
      BY <3>1 DEF NthIn, FirstIn
    <3>. QED BY <3>2, <3>3
  <2>2. ASSUME NEW n \in 1 .. N, n > c PROVE list[n] = 0
    BY <1>1, <2>2, KeptAt
  <2>. QED BY <1>1, <2>1, <2>2
<1>6. ToSet(list) = {list[n] : n \in 1 .. N}
  BY <1>2 DEF ToSet
<1>. HIDE DEF F, G, c, x, list, free
<1>7. CASE ~new
  <2>1. KeptOf(N, v, a + 1) = list
    <3>1. FirstIn(v, a + 1) = FirstIn(v, a)
      BY <1>4, <1>7 DEF F, G
    <3>2. \A n : NthIn(v, a + 1, n) = NthIn(v, a, n)
      BY <3>1 DEF NthIn
    <3>. QED BY <3>2 DEF KeptOf, list
  <2>2. x \in ToSet(list) \/ free = {}
    <3>. SUFFICES ASSUME free # {} PROVE x \in ToSet(list)
      OBVIOUS
    <3>1. PICK f \in 1 .. N : list[f] = 0
      BY <1>2 DEF free
    <3>2. c < N
      BY <1>1, <1>5, <3>1
    <3>3. CASE x = 0
      BY <1>6, <3>1, <3>3
    <3>4. CASE x # 0
      <4>. DEFINE same == {j \in Nat : j \in 1 .. a /\ v[j] = x}
      <4>1. same # {}
        BY <1>1, <1>7, <3>4
      <4>2. PICK j \in same : \A i \in same : j <= i
        BY <4>1, LeastOf
      <4>3. j \in F
        <5>1. \A i \in 1 .. j - 1 : v[i] # v[j]
          BY <1>1, <4>2
        <5>. QED BY <3>4, <4>2, <5>1 DEF F, FirstIn
      <4>4. PlaceIn(F, j) \in 1 .. c
        BY <1>1, <4>3, PlaceIsRank DEF c
      <4>5. j \in NthIn(v, a, PlaceIn(F, j))
        BY <4>3 DEF NthIn, F
      <4>6. PlaceIn(F, j) \in 1 .. N
        BY <1>1, <3>2, <4>4
      <4>. DEFINE n == PlaceIn(F, j)
      <4>. HIDE DEF n
      <4>7. n \in 1 .. N /\ j \in NthIn(v, a, n)
        BY <4>5, <4>6 DEF n
      <4>8. list[PlaceIn(F, j)] = v[j]
        <5>1. KeptOf(N, v, a)[n] = v[j]
          BY ONLY <1>0, <4>7, N \in Nat, KeptHere
        <5>. QED BY <5>1 DEF list, n
      <4>. QED BY <1>6, <4>2, <4>6, <4>8
    <3>. QED BY <3>3, <3>4
  <2>. QED BY <1>3, <2>1, <2>2 DEF x, list
<1>8. CASE new
  <2>1. /\ IsFiniteSet(G) /\ Cardinality(G) = c + 1 /\ PlaceIn(G, a + 1) = c + 1
        /\ \A k \in F : PlaceIn(G, k) = PlaceIn(F, k)
        /\ G = F \cup {a + 1}
    <3>1. G = F \cup {a + 1} /\ \A k \in F : k < a + 1
      BY <1>1, <1>4, <1>8
    <3>2. a + 1 \in Nat
      BY <1>1
    <3>. DEFINE b == a + 1
    <3>. HIDE DEF b
    <3>3. b \in Nat /\ G = F \cup {b} /\ \A k \in F : k < b
      BY <3>1, <3>2 DEF b
    <3>4. /\ IsFiniteSet(F \cup {b}) /\ Cardinality(F \cup {b}) = c + 1
          /\ PlaceIn(F \cup {b}, b) = c + 1
          /\ \A k \in F : PlaceIn(F \cup {b}, k) = PlaceIn(F, k)
      BY <1>1, <3>3, PlaceOfLast DEF c
    <3>. QED BY <3>1, <3>3, <3>4 DEF b
  <2>2. \A k \in F : PlaceIn(F, k) \in 1 .. c
    BY <1>1, PlaceIsRank DEF c
  <2>3. ASSUME NEW n \in 1 .. N
        PROVE  KeptOf(N, v, a + 1)[n] = IF n = c + 1 THEN x ELSE list[n]
    <3>1. CASE n = c + 1
      <4>1. a + 1 \in NthIn(v, a + 1, n)
        BY <2>1, <3>1 DEF NthIn, G
      <4>2. a + 1 \in Nat
        BY <1>1
      <4>3. KeptOf(N, v, a + 1)[n] = v[a + 1]
        <5>. DEFINE b == a + 1
        <5>. HIDE DEF b
        <5>1. b \in Nat /\ b \in NthIn(v, b, n)
          BY <4>1, <4>2 DEF b
        <5>2. KeptOf(N, v, b)[n] = v[b]
          BY ONLY <5>1, n \in 1 .. N, N \in Nat, KeptHere
        <5>. QED BY <5>2 DEF b
      <4>. QED BY <3>1, <4>1, <4>3 DEF x
    <3>2. CASE n # c + 1
      <4>1. NthIn(v, a + 1, n) = NthIn(v, a, n)
        <5>1. NthIn(v, a + 1, n) = {k \in G : PlaceIn(G, k) = n}
          BY DEF NthIn, G
        <5>2. NthIn(v, a, n) = {k \in F : PlaceIn(F, k) = n}
          BY DEF NthIn, F
        <5>. QED BY <2>1, <3>2, <5>1, <5>2
      <4>2. KeptOf(N, v, a + 1)[n] = KeptOf(N, v, a)[n]
        BY <4>1 DEF KeptOf
      <4>. QED BY <3>2, <4>2 DEF list
    <3>. QED BY <3>1, <3>2
  <2>4. x \notin ToSet(list)
    <3>1. ASSUME NEW n \in 1 .. N PROVE list[n] # x
      <4>1. CASE n > c
        BY <1>5, <1>8, <4>1
      <4>2. CASE n <= c
        <5>1. PICK k \in NthIn(v, a, n) : TRUE
          BY <1>1, <4>2, KeptAt DEF c, F
        <5>2. list[n] = v[k]
          <6>1. KeptOf(N, v, a)[n] = v[k]
            BY ONLY <1>0, n \in 1 .. N, N \in Nat, k \in NthIn(v, a, n), KeptHere
          <6>. QED BY <5>1, <6>1 DEF list
        <5>3. k \in 1 .. a
          BY <5>1 DEF NthIn, FirstIn
        <5>. QED BY <1>8, <5>2, <5>3
      <4>. QED BY <1>1, <4>1, <4>2
    <3>. QED BY <1>6, <3>1
  <2>5. DOMAIN KeptOf(N, v, a + 1) = 1 .. N /\ KeptOf(N, v, a + 1) = [n \in 1 .. N |-> KeptOf(N, v, a + 1)[n]]
    BY DEF KeptOf
  <2>6. list = [n \in 1 .. N |-> list[n]]
    BY DEF list, KeptOf
  <2>7. CASE c < N
    <3>1. c + 1 \in free /\ \A j \in free : c + 1 <= j
      BY <1>1, <1>2, <1>5, <2>7 DEF free
    <3>2. \A k \in free : k \in Nat
      BY <1>2 DEF free
    <3>3. (CHOOSE k \in free : \A j \in free : k <= j) = c + 1
      <4>1. \E k \in free : \A j \in free : k <= j
        BY <3>1
      <4>2. \A k \in free : (\A j \in free : k <= j) => k = c + 1
        BY <1>1, <3>1, <3>2
      <4>. QED BY <4>1, <4>2
    <3>4. Listed(list, x) = [list EXCEPT ![c + 1] = x]
      BY <1>3, <2>4, <3>1, <3>3
    <3>5. Listed(list, x) = [n \in 1 .. N |-> IF n = c + 1 THEN x ELSE list[n]]
      BY <1>1, <1>2, <2>6, <3>4
    <3>. QED BY <2>3, <2>5, <3>5 DEF list, x
  <2>8. CASE ~(c < N)
    <3>1. free = {}
      BY <1>1, <1>2, <1>5, <2>8 DEF free
    <3>2. \A n \in 1 .. N : KeptOf(N, v, a + 1)[n] = list[n]
      BY <1>1, <2>3, <2>8
    <3>. QED BY <1>3, <2>5, <2>6, <3>1, <3>2 DEF list, x
  <2>. QED BY <2>7, <2>8
<1>. QED BY <1>7, <1>8

LEMMA KeptNone == ASSUME NEW N \in Nat, NEW v PROVE KeptOf(N, v, 0) = [n \in 1 .. N |-> 0]
<1>1. \A n : NthIn(v, 0, n) = {}
  BY DEF NthIn, FirstIn
<1>. QED BY <1>1 DEF KeptOf, ValueAt

\* The operands as they are recorded.
Bytes(s) == [k \in DOMAIN s |-> s[k] % 256]

LEMMA BytesAre ==
  ASSUME NEW s \in Seq(Nat)
  PROVE  /\ Bytes(s) \in [1 .. Len(s) -> Nat] /\ Len(s) \in Nat
         /\ s \in [1 .. Len(s) -> Nat]
<1>1. s \in [1 .. Len(s) -> Nat] /\ Len(s) \in Nat /\ DOMAIN s = 1 .. Len(s)
  OBVIOUS
<1>2. \A x \in Nat : x % 256 \in Nat
  OBVIOUS
<1>3. \A k \in DOMAIN s : s[k] % 256 \in Nat
  BY <1>1, <1>2
<1>. QED BY <1>1, <1>3 DEF Bytes

LEMMA KeptIs ==
  ASSUME NEW s \in Seq(Nat), NEW byte \in BOOLEAN, NEW list, NEW N \in Nat, DOMAIN list = 1 .. N
  PROVE  Kept(list, s, byte) = KeptOf(N, IF byte THEN Bytes(s) ELSE s, Len(s))
<1>. DEFINE v == IF byte THEN Bytes(s) ELSE s
            value(k) == IF byte THEN s[k] % 256 ELSE s[k]
            first == {k \in DOMAIN s : value(k) # 0 /\ \A j \in 1 .. k - 1 : value(j) # value(k)}
            nth(n) == {k \in first : Cardinality({j \in first : j <= k}) = n}
<1>1. DOMAIN s = 1 .. Len(s) /\ Len(s) \in Nat
  OBVIOUS
<1>2. \A k \in 1 .. Len(s) : v[k] = value(k)
  BY <1>1 DEF Bytes
<1>. HIDE DEF v, value
<1>3. first = FirstIn(v, Len(s))
  <2>1. ASSUME NEW k \in 1 .. Len(s), NEW j \in 1 .. k - 1 PROVE v[j] = value(j)
    <3>1. j \in 1 .. Len(s)
      BY <1>1
    <3>. QED BY <1>2, <3>1
  <2>. QED BY <1>1, <1>2, <2>1 DEF FirstIn
<1>. HIDE DEF first
<1>4. \A n : nth(n) = NthIn(v, Len(s), n)
  BY <1>3 DEF NthIn, PlaceIn, UpToIn
<1>5. \A n : \A k \in nth(n) : k \in 1 .. Len(s)
  BY <1>3 DEF FirstIn
<1>6. Kept(list, s, byte) = [n \in 1 .. N |-> IF nth(n) = {} THEN 0 ELSE value(CHOOSE k \in nth(n) : TRUE)]
  BY DEF Kept, first, value
<1>. HIDE DEF nth
<1>7. ASSUME NEW n \in 1 .. N
      PROVE  (IF nth(n) = {} THEN 0 ELSE value(CHOOSE k \in nth(n) : TRUE)) = ValueAt(v, nth(n))
  <2>1. CASE nth(n) = {}
    BY <2>1 DEF ValueAt
  <2>2. CASE nth(n) # {}
    <3>1. (CHOOSE k \in nth(n) : TRUE) \in nth(n)
      BY <2>2
    <3>2. value(CHOOSE k \in nth(n) : TRUE) = v[CHOOSE k \in nth(n) : TRUE]
      BY <1>2, <1>5, <3>1
    <3>. QED BY <2>2, <3>2 DEF ValueAt
  <2>. QED BY <2>1, <2>2
<1>8. Kept(list, s, byte) = [n \in 1 .. N |-> ValueAt(v, nth(n))]
  BY <1>6, <1>7
<1>. QED BY <1>4, <1>8 DEF KeptOf, v

-----------------------------------------------------------------------------
(* The calls of an instruction.                                            *)

Routines == {"BeginInstruction", "BranchOrNot", "RegRead", "RegWrite", "MemoryRead", "MemoryWrite",
             "EndInstruction"}
Calls == [routine : Routines, arg : Nat]

\* Before which call the calls for the branch, the reads, and so on, are over.
BranchEnd(i) == IF i.branch = "none" THEN 1 ELSE 2
ReadsEnd(i) == BranchEnd(i) + Len(i.reads)
WritesEnd(i) == ReadsEnd(i) + Len(i.writes)
LoadsEnd(i) == WritesEnd(i) + Len(i.loads)
StoresEnd(i) == LoadsEnd(i) + Len(i.stores)

CallOf(r, a) == [routine |-> r, arg |-> a]
\* The call after d others.
CallAt(i, d) ==
  IF d = 0 THEN CallOf("BeginInstruction", 0)
  ELSE IF d < BranchEnd(i) THEN CallOf("BranchOrNot", IF i.branch = "taken" THEN 1 ELSE 0)
  ELSE IF d < ReadsEnd(i) THEN CallOf("RegRead", i.reads[d - BranchEnd(i) + 1])
  ELSE IF d < WritesEnd(i) THEN CallOf("RegWrite", i.writes[d - ReadsEnd(i) + 1])
  ELSE IF d < LoadsEnd(i) THEN CallOf("MemoryRead", i.loads[d - WritesEnd(i) + 1])
  ELSE IF d < StoresEnd(i) THEN CallOf("MemoryWrite", i.stores[d - LoadsEnd(i) + 1])
  ELSE CallOf("EndInstruction", 0)

\* u is s and then t.
Joins(s, t, u) ==
  /\ u \in Seq(Calls) /\ Len(u) = Len(s) + Len(t)
  /\ \A k \in 1 .. Len(s) : u[k] = s[k]
  /\ \A k \in 1 .. Len(t) : u[Len(s) + k] = t[k]
LEMMA ConcatJoins == ASSUME NEW s \in Seq(Calls), NEW t \in Seq(Calls) PROVE Joins(s, t, s \o t)
<1>. DEFINE C == Calls
<1>1. s \in Seq(C) /\ t \in Seq(C)
  OBVIOUS
<1>. HIDE DEF C
<1>2. /\ s \o t \in Seq(C) /\ Len(s \o t) = Len(s) + Len(t)
      /\ \A k \in 1 .. Len(s) : (s \o t)[k] = s[k]
      /\ \A k \in 1 .. Len(t) : (s \o t)[Len(s) + k] = t[k]
  BY <1>1
<1>. QED BY <1>2 DEF Joins, C

\* e calls the routine r for each of s.
CallsEach(r, s, e) ==
  /\ e \in Seq(Calls) /\ Len(e) = Len(s)
  /\ \A k \in 1 .. Len(s) : e[k] = CallOf(r, s[k])
LEMMA EachCalls ==
  ASSUME NEW r \in Routines, NEW s \in Seq(Nat) PROVE CallsEach(r, s, Each(r, s))
<1>1. DOMAIN s = 1 .. Len(s) /\ Len(s) \in Nat /\ \A k \in 1 .. Len(s) : s[k] \in Nat
  OBVIOUS
<1>2. Each(r, s) = [k \in 1 .. Len(s) |-> CallOf(r, s[k])]
  BY <1>1 DEF Each, CallOf
<1>3. \A a \in Nat : CallOf(r, a) \in Calls
  BY DEF CallOf, Calls
<1>4. Each(r, s) \in [1 .. Len(s) -> Calls]
  BY <1>1, <1>2, <1>3
<1>5. Each(r, s) \in Seq(Calls) /\ Len(Each(r, s)) = Len(s)
  BY <1>1, <1>4
<1>. QED BY <1>2, <1>5 DEF CallsEach

\* c has the calls before the lo-th, and u those of r for each of s as well.
Goes(c, lo, r, s, hi, u) ==
  /\ u \in Seq(Calls) /\ Len(u) = hi
  /\ \A d \in 0 .. lo - 1 : u[d + 1] = c[d + 1]
  /\ \A d \in lo .. hi - 1 : u[d + 1] = CallOf(r, s[d - lo + 1])
LEMMA NextCalls ==
  ASSUME NEW c \in Seq(Calls), NEW lo \in Nat, Len(c) = lo, NEW r, NEW s \in Seq(Nat),
         NEW e, CallsEach(r, s, e), NEW hi, hi = lo + Len(s)
  PROVE  Goes(c, lo, r, s, hi, c \o e)
<1>1. e \in Seq(Calls) /\ Len(e) = Len(s) /\ \A k \in 1 .. Len(s) : e[k] = CallOf(r, s[k])
  BY DEF CallsEach
<1>. DEFINE u == c \o e
<1>2. Joins(c, e, u)
  BY <1>1, ConcatJoins
<1>. HIDE DEF u
<1>3. /\ u \in Seq(Calls) /\ Len(u) = lo + Len(s)
      /\ \A k \in 1 .. lo : u[k] = c[k]
      /\ \A k \in 1 .. Len(s) : u[lo + k] = e[k]
  BY <1>1, <1>2 DEF Joins
<1>4. Len(s) \in Nat
  OBVIOUS
<1>5. ASSUME NEW d \in 0 .. lo - 1 PROVE u[d + 1] = c[d + 1]
  <2>1. d + 1 \in 1 .. lo
    OBVIOUS
  <2>. QED BY ONLY <1>3, <2>1
<1>6. ASSUME NEW d \in lo .. hi - 1 PROVE u[d + 1] = CallOf(r, s[d - lo + 1])
  <2>1. d - lo + 1 \in 1 .. Len(s) /\ d + 1 = lo + (d - lo + 1)
    BY <1>4
  <2>. DEFINE k == d - lo + 1
  <2>. HIDE DEF k
  <2>2. k \in 1 .. Len(s) /\ d + 1 = lo + k
    BY <2>1 DEF k
  <2>3. u[d + 1] = CallOf(r, s[k])
    BY ONLY <1>1, <1>3, <2>2
  <2>. QED BY <2>3 DEF k
<1>. QED BY <1>3, <1>5, <1>6 DEF u, Goes

LEMMA TracedIs ==
  ASSUME NEW i \in Traced
  PROVE  /\ i.branch \in {"none", "taken", "not"}
         /\ i.reads \in Seq(Nat) /\ i.writes \in Seq(Nat) /\ i.loads \in Seq(Nat) /\ i.stores \in Seq(Nat)
         /\ Len(i.reads) \in Nat /\ Len(i.writes) \in Nat /\ Len(i.loads) \in Nat /\ Len(i.stores) \in Nat
BY DEF Traced

LEMMA EndsAre ==
  ASSUME NEW i \in Traced
  PROVE  /\ BranchEnd(i) \in {1, 2} /\ BranchEnd(i) \in Nat /\ ReadsEnd(i) \in Nat /\ WritesEnd(i) \in Nat
         /\ LoadsEnd(i) \in Nat /\ StoresEnd(i) \in Nat
         /\ 1 <= BranchEnd(i) /\ BranchEnd(i) <= ReadsEnd(i) /\ ReadsEnd(i) <= WritesEnd(i)
         /\ WritesEnd(i) <= LoadsEnd(i) /\ LoadsEnd(i) <= StoresEnd(i)
<1>1. BranchEnd(i) \in {1, 2} /\ BranchEnd(i) \in Nat
  BY DEF BranchEnd
<1>2. ReadsEnd(i) \in Nat /\ BranchEnd(i) <= ReadsEnd(i)
  BY <1>1, TracedIs DEF ReadsEnd
<1>3. WritesEnd(i) \in Nat /\ ReadsEnd(i) <= WritesEnd(i)
  BY <1>2, TracedIs DEF WritesEnd
<1>4. LoadsEnd(i) \in Nat /\ WritesEnd(i) <= LoadsEnd(i)
  BY <1>3, TracedIs DEF LoadsEnd
<1>5. StoresEnd(i) \in Nat /\ LoadsEnd(i) <= StoresEnd(i)
  BY <1>4, TracedIs DEF StoresEnd
<1>. QED BY <1>1, <1>2, <1>3, <1>4, <1>5

LEMMA LengthsAre ==
  ASSUME NEW i \in Traced
  PROVE  /\ Len(i.reads) \in Nat /\ Len(i.writes) \in Nat /\ Len(i.loads) \in Nat /\ Len(i.stores) \in Nat
         /\ ReadsEnd(i) = BranchEnd(i) + Len(i.reads) /\ WritesEnd(i) = ReadsEnd(i) + Len(i.writes)
         /\ LoadsEnd(i) = WritesEnd(i) + Len(i.loads) /\ StoresEnd(i) = LoadsEnd(i) + Len(i.stores)
<1>1. /\ Len(i.reads) \in Nat /\ Len(i.writes) \in Nat /\ Len(i.loads) \in Nat /\ Len(i.stores) \in Nat
  BY TracedIs
<1>2. ReadsEnd(i) = BranchEnd(i) + Len(i.reads)
  BY DEF ReadsEnd
<1>3. WritesEnd(i) = ReadsEnd(i) + Len(i.writes)
  BY DEF WritesEnd
<1>4. LoadsEnd(i) = WritesEnd(i) + Len(i.loads)
  BY DEF LoadsEnd
<1>5. StoresEnd(i) = LoadsEnd(i) + Len(i.stores)
  BY DEF StoresEnd
<1>. QED BY <1>1, <1>2, <1>3, <1>4, <1>5

LEMMA InstrumentedIs ==
  ASSUME NEW i \in Traced
  PROVE  /\ Instrumented(i) \in Seq(Calls) /\ Len(Instrumented(i)) = StoresEnd(i) + 1
         /\ \A d \in 0 .. StoresEnd(i) : Instrumented(i)[d + 1] = CallAt(i, d)
<1>. DEFINE x == IF i.branch = "taken" THEN 1 ELSE 0
            branch == IF i.branch = "none" THEN <<>> ELSE <<x>>
            b0 == Each("BeginInstruction", <<0>>)
            b1 == Each("BranchOrNot", branch)
            b2 == Each("RegRead", i.reads)
            b3 == Each("RegWrite", i.writes)
            b4 == Each("MemoryRead", i.loads)
            b5 == Each("MemoryWrite", i.stores)
            b6 == Each("EndInstruction", <<0>>)
            c1 == b0 \o b1
            c2 == c1 \o b2
            c3 == c2 \o b3
            c4 == c3 \o b4
            c5 == c4 \o b5
            c6 == c5 \o b6
<1>1. /\ <<0>> \in Seq(Nat) /\ Len(<<0>>) = 1 /\ <<0>>[1] = 0
      /\ branch \in Seq(Nat) /\ Len(branch) = BranchEnd(i) - 1
      /\ BranchEnd(i) = 2 => branch[1] = x
  BY DEF BranchEnd
<1>2. /\ CallsEach("BeginInstruction", <<0>>, b0) /\ CallsEach("BranchOrNot", branch, b1)
      /\ CallsEach("RegRead", i.reads, b2) /\ CallsEach("RegWrite", i.writes, b3)
      /\ CallsEach("MemoryRead", i.loads, b4) /\ CallsEach("MemoryWrite", i.stores, b5)
      /\ CallsEach("EndInstruction", <<0>>, b6)
  <2>. HIDE DEF branch
  <2>. QED BY <1>1, EachCalls, TracedIs DEF Routines
<1>3. Instrumented(i) = c6
  <2>1. (IF i.branch = "none" THEN <<>> ELSE Each("BranchOrNot", <<x>>)) = b1
    BY DEF Each
  <2>2. Instrumented(i) = b0 \o (IF i.branch = "none" THEN <<>> ELSE Each("BranchOrNot", <<x>>))
                          \o b2 \o b3 \o b4 \o b5 \o b6
    BY DEF Instrumented
  <2>. QED BY <2>1, <2>2
<1>4. b0 \in Seq(Calls) /\ Len(b0) = 1 /\ b0[1] = CallOf("BeginInstruction", 0)
  <2>. HIDE DEF b0
  <2>. QED BY <1>1, <1>2 DEF CallsEach
<1>. HIDE DEF b0, b1, b2, b3, b4, b5, b6, c1, c2, c3, c4, c5, c6, x, branch
<1>5. /\ BranchEnd(i) \in {1, 2} /\ BranchEnd(i) \in Nat /\ ReadsEnd(i) \in Nat /\ WritesEnd(i) \in Nat
      /\ LoadsEnd(i) \in Nat /\ StoresEnd(i) \in Nat
      /\ 1 <= BranchEnd(i) /\ BranchEnd(i) <= ReadsEnd(i) /\ ReadsEnd(i) <= WritesEnd(i)
      /\ WritesEnd(i) <= LoadsEnd(i) /\ LoadsEnd(i) <= StoresEnd(i)
  BY EndsAre
<1>. DEFINE Until(c, n) == c \in Seq(Calls) /\ Len(c) = n /\ \A d \in 0 .. n - 1 : c[d + 1] = CallAt(i, d)
<1>6. Until(c1, BranchEnd(i))
  <2>1. /\ c1 \in Seq(Calls) /\ Len(c1) = BranchEnd(i)
        /\ \A d \in 0 .. 1 - 1 : c1[d + 1] = b0[d + 1]
        /\ \A d \in 1 .. BranchEnd(i) - 1 : c1[d + 1] = CallOf("BranchOrNot", branch[d - 1 + 1])
    <3>1. BranchEnd(i) = 1 + Len(branch)
      BY <1>1, <1>5
    <3>2. Goes(b0, 1, "BranchOrNot", branch, BranchEnd(i), b0 \o b1)
      <4>1. b0 \in Seq(Calls) /\ Len(b0) = 1 /\ branch \in Seq(Nat) /\ 1 \in Nat
        BY <1>1, <1>4
      <4>2. CallsEach("BranchOrNot", branch, b1)
        BY <1>2
      <4>. QED BY ONLY <3>1, <4>1, <4>2, NextCalls
    <3>. QED BY <3>2 DEF c1, Goes
  <2>2. CallAt(i, 0) = CallOf("BeginInstruction", 0)
    BY DEF CallAt
  <2>3. c1[1] = CallAt(i, 0)
    BY <1>4, <2>1, <2>2
  <2>4. BranchEnd(i) = 2 => c1[2] = CallAt(i, 1)
    BY <1>1, <2>1 DEF CallAt, x
  <2>5. \A d \in 0 .. BranchEnd(i) - 1 : d = 0 \/ (d = 1 /\ BranchEnd(i) = 2)
    BY <1>5
  <2>. QED BY <2>1, <2>3, <2>4, <2>5
<1>7. Until(c2, ReadsEnd(i))
  <2>1. /\ c2 \in Seq(Calls) /\ Len(c2) = ReadsEnd(i)
        /\ \A d \in 0 .. BranchEnd(i) - 1 : c2[d + 1] = c1[d + 1]
        /\ \A d \in BranchEnd(i) .. ReadsEnd(i) - 1 : c2[d + 1] = CallOf("RegRead", i.reads[d - BranchEnd(i) + 1])
    <3>1. ReadsEnd(i) = BranchEnd(i) + Len(i.reads)
      BY DEF ReadsEnd
    <3>2. i.reads \in Seq(Nat)
      BY TracedIs
    <3>3. Goes(c1, BranchEnd(i), "RegRead", i.reads, ReadsEnd(i), c1 \o b2)
      <4>1. c1 \in Seq(Calls) /\ Len(c1) = BranchEnd(i) /\ BranchEnd(i) \in Nat
        BY <1>5, <1>6
      <4>2. CallsEach("RegRead", i.reads, b2)
        BY <1>2
      <4>. QED BY ONLY <3>1, <3>2, <4>1, <4>2, NextCalls
    <3>. QED BY <3>3 DEF c2, Goes
  <2>2. ASSUME NEW d \in BranchEnd(i) .. ReadsEnd(i) - 1
        PROVE  CallAt(i, d) = CallOf("RegRead", i.reads[d - BranchEnd(i) + 1])
    <3>1. d # 0 /\ d < ReadsEnd(i)
          /\ ~(d < BranchEnd(i))
      BY <1>5
    <3>. QED BY <3>1 DEF CallAt
  <2>3. \A d \in 0 .. ReadsEnd(i) - 1 : d \in 0 .. BranchEnd(i) - 1 \/ d \in BranchEnd(i) .. ReadsEnd(i) - 1
    BY <1>5
  <2>. QED BY <1>6, <2>1, <2>2, <2>3
<1>8. Until(c3, WritesEnd(i))
  <2>1. /\ c3 \in Seq(Calls) /\ Len(c3) = WritesEnd(i)
        /\ \A d \in 0 .. ReadsEnd(i) - 1 : c3[d + 1] = c2[d + 1]
        /\ \A d \in ReadsEnd(i) .. WritesEnd(i) - 1 : c3[d + 1] = CallOf("RegWrite", i.writes[d - ReadsEnd(i) + 1])
    <3>1. WritesEnd(i) = ReadsEnd(i) + Len(i.writes)
      BY DEF WritesEnd
    <3>2. i.writes \in Seq(Nat)
      BY TracedIs
    <3>3. Goes(c2, ReadsEnd(i), "RegWrite", i.writes, WritesEnd(i), c2 \o b3)
      <4>1. c2 \in Seq(Calls) /\ Len(c2) = ReadsEnd(i) /\ ReadsEnd(i) \in Nat
        BY <1>5, <1>7
      <4>2. CallsEach("RegWrite", i.writes, b3)
        BY <1>2
      <4>. QED BY ONLY <3>1, <3>2, <4>1, <4>2, NextCalls
    <3>. QED BY <3>3 DEF c3, Goes
  <2>2. ASSUME NEW d \in ReadsEnd(i) .. WritesEnd(i) - 1
        PROVE  CallAt(i, d) = CallOf("RegWrite", i.writes[d - ReadsEnd(i) + 1])
    <3>1. d # 0 /\ d < WritesEnd(i)
          /\ ~(d < BranchEnd(i)) /\ ~(d < ReadsEnd(i))
      BY <1>5
    <3>. QED BY <3>1 DEF CallAt
  <2>3. \A d \in 0 .. WritesEnd(i) - 1 : d \in 0 .. ReadsEnd(i) - 1 \/ d \in ReadsEnd(i) .. WritesEnd(i) - 1
    BY <1>5
  <2>. QED BY <1>7, <2>1, <2>2, <2>3
<1>9. Until(c4, LoadsEnd(i))
  <2>1. /\ c4 \in Seq(Calls) /\ Len(c4) = LoadsEnd(i)
        /\ \A d \in 0 .. WritesEnd(i) - 1 : c4[d + 1] = c3[d + 1]
        /\ \A d \in WritesEnd(i) .. LoadsEnd(i) - 1 : c4[d + 1] = CallOf("MemoryRead", i.loads[d - WritesEnd(i) + 1])
    <3>1. LoadsEnd(i) = WritesEnd(i) + Len(i.loads)
      BY DEF LoadsEnd
    <3>2. i.loads \in Seq(Nat)
      BY TracedIs
    <3>3. Goes(c3, WritesEnd(i), "MemoryRead", i.loads, LoadsEnd(i), c3 \o b4)
      <4>1. c3 \in Seq(Calls) /\ Len(c3) = WritesEnd(i) /\ WritesEnd(i) \in Nat
        BY <1>5, <1>8
      <4>2. CallsEach("MemoryRead", i.loads, b4)
        BY <1>2
      <4>. QED BY ONLY <3>1, <3>2, <4>1, <4>2, NextCalls
    <3>. QED BY <3>3 DEF c4, Goes
  <2>2. ASSUME NEW d \in WritesEnd(i) .. LoadsEnd(i) - 1
        PROVE  CallAt(i, d) = CallOf("MemoryRead", i.loads[d - WritesEnd(i) + 1])
    <3>1. d # 0 /\ d < LoadsEnd(i)
          /\ ~(d < BranchEnd(i)) /\ ~(d < ReadsEnd(i)) /\ ~(d < WritesEnd(i))
      BY <1>5
    <3>. QED BY <3>1 DEF CallAt
  <2>3. \A d \in 0 .. LoadsEnd(i) - 1 : d \in 0 .. WritesEnd(i) - 1 \/ d \in WritesEnd(i) .. LoadsEnd(i) - 1
    BY <1>5
  <2>. QED BY <1>8, <2>1, <2>2, <2>3
<1>10. Until(c5, StoresEnd(i))
  <2>1. /\ c5 \in Seq(Calls) /\ Len(c5) = StoresEnd(i)
        /\ \A d \in 0 .. LoadsEnd(i) - 1 : c5[d + 1] = c4[d + 1]
        /\ \A d \in LoadsEnd(i) .. StoresEnd(i) - 1 : c5[d + 1] = CallOf("MemoryWrite", i.stores[d - LoadsEnd(i) + 1])
    <3>1. StoresEnd(i) = LoadsEnd(i) + Len(i.stores)
      BY DEF StoresEnd
    <3>2. i.stores \in Seq(Nat)
      BY TracedIs
    <3>3. Goes(c4, LoadsEnd(i), "MemoryWrite", i.stores, StoresEnd(i), c4 \o b5)
      <4>1. c4 \in Seq(Calls) /\ Len(c4) = LoadsEnd(i) /\ LoadsEnd(i) \in Nat
        BY <1>5, <1>9
      <4>2. CallsEach("MemoryWrite", i.stores, b5)
        BY <1>2
      <4>. QED BY ONLY <3>1, <3>2, <4>1, <4>2, NextCalls
    <3>. QED BY <3>3 DEF c5, Goes
  <2>2. ASSUME NEW d \in LoadsEnd(i) .. StoresEnd(i) - 1
        PROVE  CallAt(i, d) = CallOf("MemoryWrite", i.stores[d - LoadsEnd(i) + 1])
    <3>1. d # 0 /\ d < StoresEnd(i)
          /\ ~(d < BranchEnd(i)) /\ ~(d < ReadsEnd(i)) /\ ~(d < WritesEnd(i)) /\ ~(d < LoadsEnd(i))
      BY <1>5
    <3>. QED BY <3>1 DEF CallAt
  <2>3. \A d \in 0 .. StoresEnd(i) - 1 : d \in 0 .. LoadsEnd(i) - 1 \/ d \in LoadsEnd(i) .. StoresEnd(i) - 1
    BY <1>5
  <2>. QED BY <1>9, <2>1, <2>2, <2>3
<1>11. Until(c6, StoresEnd(i) + 1)
  <2>1. /\ c6 \in Seq(Calls) /\ Len(c6) = StoresEnd(i) + 1
        /\ \A d \in 0 .. StoresEnd(i) - 1 : c6[d + 1] = c5[d + 1]
        /\ \A d \in StoresEnd(i) .. (StoresEnd(i) + 1) - 1 :
             c6[d + 1] = CallOf("EndInstruction", <<0>>[d - StoresEnd(i) + 1])
    <3>1. StoresEnd(i) + 1 = StoresEnd(i) + Len(<<0>>)
      BY <1>1
    <3>2. Goes(c5, StoresEnd(i), "EndInstruction", <<0>>, StoresEnd(i) + 1, c5 \o b6)
      <4>1. c5 \in Seq(Calls) /\ Len(c5) = StoresEnd(i) /\ StoresEnd(i) \in Nat /\ <<0>> \in Seq(Nat)
        BY <1>1, <1>5, <1>10
      <4>2. CallsEach("EndInstruction", <<0>>, b6)
        BY <1>2
      <4>. QED BY ONLY <3>1, <4>1, <4>2, NextCalls
    <3>. QED BY <3>2 DEF c6, Goes
  <2>2. c6[StoresEnd(i) + 1] = CallOf("EndInstruction", 0)
    <3>. DEFINE n == StoresEnd(i)
    <3>. HIDE DEF n
    <3>1. n \in Nat /\ \A d \in n .. (n + 1) - 1 : c6[d + 1] = CallOf("EndInstruction", <<0>>[d - n + 1])
      BY <1>5, <2>1 DEF n
    <3>2. n \in n .. (n + 1) - 1 /\ n - n + 1 = 1
      BY <3>1
    <3>3. c6[n + 1] = CallOf("EndInstruction", <<0>>[1])
      BY <3>1, <3>2
    <3>. QED BY <3>3 DEF n
  <2>3. CallAt(i, StoresEnd(i)) = CallOf("EndInstruction", 0)
    <3>1. StoresEnd(i) # 0 /\ ~(StoresEnd(i) < BranchEnd(i)) /\ ~(StoresEnd(i) < ReadsEnd(i))
          /\ ~(StoresEnd(i) < WritesEnd(i)) /\ ~(StoresEnd(i) < LoadsEnd(i))
          /\ ~(StoresEnd(i) < StoresEnd(i))
      BY <1>5
    <3>. QED BY <3>1 DEF CallAt
  <2>4. \A d \in 0 .. (StoresEnd(i) + 1) - 1 : d \in 0 .. StoresEnd(i) - 1 \/ d = StoresEnd(i)
    BY <1>5
  <2>. QED BY <1>10, <2>1, <2>2, <2>3, <2>4
<1>12. 0 .. (StoresEnd(i) + 1) - 1 = 0 .. StoresEnd(i)
  BY <1>5
<1>. QED BY <1>3, <1>11, <1>12

\* Each routine is called where its calls are.
LEMMA RoutineIs ==
  ASSUME NEW i \in Traced, NEW d \in 0 .. StoresEnd(i)
  PROVE  LET c == CallAt(i, d)
         IN /\ c.routine = "BeginInstruction" => d = 0
            /\ c.routine = "BranchOrNot" => /\ d = 1 /\ BranchEnd(i) = 2
                                            /\ c.arg = IF i.branch = "taken" THEN 1 ELSE 0
            /\ c.routine = "RegRead" => /\ d \in BranchEnd(i) .. ReadsEnd(i) - 1
                                        /\ c.arg = i.reads[d - BranchEnd(i) + 1]
            /\ c.routine = "RegWrite" => /\ d \in ReadsEnd(i) .. WritesEnd(i) - 1
                                         /\ c.arg = i.writes[d - ReadsEnd(i) + 1]
            /\ c.routine = "MemoryRead" => /\ d \in WritesEnd(i) .. LoadsEnd(i) - 1
                                           /\ c.arg = i.loads[d - WritesEnd(i) + 1]
            /\ c.routine = "MemoryWrite" => /\ d \in LoadsEnd(i) .. StoresEnd(i) - 1
                                            /\ c.arg = i.stores[d - LoadsEnd(i) + 1]
            /\ c.routine = "EndInstruction" => d = StoresEnd(i)
<1>. DEFINE c == CallAt(i, d)
<1>1. /\ BranchEnd(i) \in {1, 2} /\ ReadsEnd(i) \in Nat /\ WritesEnd(i) \in Nat
      /\ LoadsEnd(i) \in Nat /\ StoresEnd(i) \in Nat /\ d \in Nat /\ d <= StoresEnd(i)
  BY EndsAre
<1>2. CASE d = 0
  <2>1. c = CallOf("BeginInstruction", 0)
    BY <1>2 DEF CallAt
  <2>. QED BY <1>2, <2>1 DEF CallOf
<1>3. CASE d # 0 /\ d < BranchEnd(i)
  <2>1. c = CallOf("BranchOrNot", IF i.branch = "taken" THEN 1 ELSE 0)
    BY <1>3 DEF CallAt
  <2>2. d = 1 /\ BranchEnd(i) = 2
    BY <1>1, <1>3
  <2>. QED BY <2>1, <2>2 DEF CallOf
<1>4. CASE d # 0 /\ ~(d < BranchEnd(i)) /\ d < ReadsEnd(i)
  <2>1. c = CallOf("RegRead", i.reads[d - BranchEnd(i) + 1])
    BY <1>4 DEF CallAt
  <2>2. d \in BranchEnd(i) .. ReadsEnd(i) - 1
    BY <1>1, <1>4
  <2>. QED BY <2>1, <2>2 DEF CallOf
<1>5. CASE d # 0 /\ ~(d < BranchEnd(i)) /\ ~(d < ReadsEnd(i)) /\ d < WritesEnd(i)
  <2>1. c = CallOf("RegWrite", i.writes[d - ReadsEnd(i) + 1])
    BY <1>5 DEF CallAt
  <2>2. d \in ReadsEnd(i) .. WritesEnd(i) - 1
    BY <1>1, <1>5
  <2>. QED BY <2>1, <2>2 DEF CallOf
<1>6. CASE d # 0 /\ ~(d < BranchEnd(i)) /\ ~(d < ReadsEnd(i)) /\ ~(d < WritesEnd(i)) /\ d < LoadsEnd(i)
  <2>1. c = CallOf("MemoryRead", i.loads[d - WritesEnd(i) + 1])
    BY <1>6 DEF CallAt
  <2>2. d \in WritesEnd(i) .. LoadsEnd(i) - 1
    BY <1>1, <1>6
  <2>. QED BY <2>1, <2>2 DEF CallOf
<1>7. CASE /\ d # 0 /\ ~(d < BranchEnd(i)) /\ ~(d < ReadsEnd(i)) /\ ~(d < WritesEnd(i)) /\ ~(d < LoadsEnd(i))
           /\ d < StoresEnd(i)
  <2>1. c = CallOf("MemoryWrite", i.stores[d - LoadsEnd(i) + 1])
    BY <1>7 DEF CallAt
  <2>2. d \in LoadsEnd(i) .. StoresEnd(i) - 1
    BY <1>1, <1>7
  <2>. QED BY <2>1, <2>2 DEF CallOf
<1>8. CASE /\ d # 0 /\ ~(d < BranchEnd(i)) /\ ~(d < ReadsEnd(i)) /\ ~(d < WritesEnd(i)) /\ ~(d < LoadsEnd(i))
           /\ ~(d < StoresEnd(i))
  <2>1. c = CallOf("EndInstruction", 0)
    BY <1>8 DEF CallAt
  <2>2. d = StoresEnd(i)
    BY <1>1, <1>8
  <2>. QED BY <2>1, <2>2 DEF CallOf
<1>. HIDE DEF c
<1>. QED BY <1>2, <1>3, <1>4, <1>5, <1>6, <1>7, <1>8

-----------------------------------------------------------------------------
(* The record of an instruction while its routines are called.             *)

\* How many of n calls were among x.
Clip(x, n) == IF x <= 0 THEN 0 ELSE IF x >= n THEN n ELSE x
RecordAt(i, b, r, w, l, s) ==
  [is_branch |-> i.branch # "none" /\ b, branch_taken |-> i.branch = "taken" /\ b,
   destination_registers |-> KeptOf(2, Bytes(i.writes), w),
   source_registers |-> KeptOf(4, Bytes(i.reads), r),
   destination_memory |-> KeptOf(2, i.stores, s),
   source_memory |-> KeptOf(4, i.loads, l)]
Partial(i, d) ==
  RecordAt(i, d >= BranchEnd(i), Clip(d - BranchEnd(i), Len(i.reads)), Clip(d - ReadsEnd(i), Len(i.writes)),
           Clip(d - WritesEnd(i), Len(i.loads)), Clip(d - LoadsEnd(i), Len(i.stores)))

\* The same from the numbers of calls.
PartialAt(i, d, b, r, w, l, nr, nw, nl, ns) ==
  RecordAt(i, d >= b, Clip(d - b, nr), Clip(d - r, nw), Clip(d - w, nl), Clip(d - l, ns))
\* Where the calls of each kind start and how many they are, as numbers.
Spans(i, b, r, w, l, t, nr, nw, nl, ns) ==
  /\ b = BranchEnd(i) /\ r = ReadsEnd(i) /\ w = WritesEnd(i) /\ l = LoadsEnd(i) /\ t = StoresEnd(i)
  /\ nr = Len(i.reads) /\ nw = Len(i.writes) /\ nl = Len(i.loads) /\ ns = Len(i.stores)
  /\ b \in {1, 2} /\ b \in Nat /\ nr \in Nat /\ nw \in Nat /\ nl \in Nat /\ ns \in Nat
  /\ r = b + nr /\ w = r + nw /\ l = w + nl /\ t = l + ns
  /\ i.branch # "none" <=> b = 2
  /\ \A d : Partial(i, d) = PartialAt(i, d, b, r, w, l, nr, nw, nl, ns)
LEMMA SpansAre ==
  ASSUME NEW i \in Traced
  PROVE  \E b, r, w, l, t, nr, nw, nl, ns : Spans(i, b, r, w, l, t, nr, nw, nl, ns)
<1>1. /\ Len(i.reads) \in Nat /\ Len(i.writes) \in Nat /\ Len(i.loads) \in Nat /\ Len(i.stores) \in Nat
      /\ ReadsEnd(i) = BranchEnd(i) + Len(i.reads) /\ WritesEnd(i) = ReadsEnd(i) + Len(i.writes)
      /\ LoadsEnd(i) = WritesEnd(i) + Len(i.loads) /\ StoresEnd(i) = LoadsEnd(i) + Len(i.stores)
  BY LengthsAre
<1>2. BranchEnd(i) \in {1, 2} /\ BranchEnd(i) \in Nat
  BY EndsAre
<1>3. i.branch # "none" <=> BranchEnd(i) = 2
  BY DEF BranchEnd
<1>4. \A d : Partial(i, d) = PartialAt(i, d, BranchEnd(i), ReadsEnd(i), WritesEnd(i), LoadsEnd(i),
                                       Len(i.reads), Len(i.writes), Len(i.loads), Len(i.stores))
  BY DEF Partial, PartialAt
<1>5. Spans(i, BranchEnd(i), ReadsEnd(i), WritesEnd(i), LoadsEnd(i), StoresEnd(i),
            Len(i.reads), Len(i.writes), Len(i.loads), Len(i.stores))
  BY ONLY <1>1, <1>2, <1>3, <1>4, Zenon DEF Spans
<1>. QED BY <1>5

LEMMA FirstPartial == ASSUME NEW i \in Traced PROVE Partial(i, 1) = Empty
<1>1. PICK b, r, w, l, t, nr, nw, nl, ns : Spans(i, b, r, w, l, t, nr, nw, nl, ns)
  BY SpansAre
<1>0. /\ b \in {1, 2} /\ nr \in Nat /\ nw \in Nat /\ nl \in Nat /\ ns \in Nat
      /\ r = b + nr /\ w = r + nw /\ l = w + nl /\ t = l + ns
      /\ i.branch # "none" <=> b = 2
  BY ONLY <1>1 DEF Spans
<1>2. Clip(1 - b, nr) = 0 /\ Clip(1 - r, nw) = 0 /\ Clip(1 - w, nl) = 0 /\ Clip(1 - l, ns) = 0
  BY ONLY <1>0 DEF Clip
<1>3. Partial(i, 1) = RecordAt(i, 1 >= b, 0, 0, 0, 0)
  <2>1. Partial(i, 1) = RecordAt(i, 1 >= b, Clip(1 - b, nr), Clip(1 - r, nw), Clip(1 - w, nl), Clip(1 - l, ns))
    <3>1. Partial(i, 1) = PartialAt(i, 1, b, r, w, l, nr, nw, nl, ns)
      BY ONLY <1>1 DEF Spans
    <3>. QED BY ONLY <3>1 DEF PartialAt
  <2>. QED BY ONLY <1>2, <2>1
<1>4. \A v : KeptOf(2, v, 0) = <<0, 0>> /\ KeptOf(4, v, 0) = <<0, 0, 0, 0>>
  <2>1. [n \in 1 .. 2 |-> 0] = <<0, 0>> /\ [n \in 1 .. 4 |-> 0] = <<0, 0, 0, 0>>
    OBVIOUS
  <2>2. 2 \in Nat /\ 4 \in Nat
    OBVIOUS
  <2>. QED BY <2>1, <2>2, KeptNone
<1>5. /\ (i.branch # "none" /\ 1 >= b) = FALSE
      /\ (i.branch = "taken" /\ 1 >= b) = FALSE
  BY ONLY <1>0
<1>. QED BY ONLY <1>3, <1>4, <1>5 DEF RecordAt, Empty

LEMMA LastPartial == ASSUME NEW i \in Traced PROVE Partial(i, StoresEnd(i)) = RecordOf(i)
<1>1. PICK b, r, w, l, t, nr, nw, nl, ns : Spans(i, b, r, w, l, t, nr, nw, nl, ns)
  BY SpansAre
<1>0. /\ b \in Nat /\ nr \in Nat /\ nw \in Nat /\ nl \in Nat /\ ns \in Nat
      /\ r = b + nr /\ w = r + nw /\ l = w + nl /\ t = l + ns
  BY ONLY <1>1 DEF Spans
<1>2. Clip(t - b, nr) = nr /\ Clip(t - r, nw) = nw /\ Clip(t - w, nl) = nl /\ Clip(t - l, ns) = ns
  BY ONLY <1>0 DEF Clip
<1>3. Partial(i, StoresEnd(i)) = RecordAt(i, t >= b, Len(i.reads), Len(i.writes), Len(i.loads), Len(i.stores))
  <2>1. Partial(i, t) = RecordAt(i, t >= b, Clip(t - b, nr), Clip(t - r, nw), Clip(t - w, nl), Clip(t - l, ns))
    <3>1. Partial(i, t) = PartialAt(i, t, b, r, w, l, nr, nw, nl, ns)
      BY ONLY <1>1 DEF Spans
    <3>. QED BY ONLY <3>1 DEF PartialAt
  <2>2. t = StoresEnd(i) /\ nr = Len(i.reads) /\ nw = Len(i.writes) /\ nl = Len(i.loads) /\ ns = Len(i.stores)
    BY ONLY <1>1 DEF Spans
  <2>. QED BY ONLY <1>2, <2>1, <2>2
<1>4. /\ DOMAIN <<0, 0>> = 1 .. 2 /\ DOMAIN <<0, 0, 0, 0>> = 1 .. 4 /\ 2 \in Nat /\ 4 \in Nat
      /\ TRUE \in BOOLEAN /\ FALSE \in BOOLEAN
  OBVIOUS
<1>5. /\ Kept(<<0, 0>>, i.writes, TRUE) = KeptOf(2, Bytes(i.writes), Len(i.writes))
      /\ Kept(<<0, 0, 0, 0>>, i.reads, TRUE) = KeptOf(4, Bytes(i.reads), Len(i.reads))
  BY <1>4, TracedIs, KeptIs
<1>6. /\ Kept(<<0, 0>>, i.stores, FALSE) = KeptOf(2, i.stores, Len(i.stores))
      /\ Kept(<<0, 0, 0, 0>>, i.loads, FALSE) = KeptOf(4, i.loads, Len(i.loads))
  BY <1>4, TracedIs, KeptIs
<1>7. (t >= b) = TRUE
  BY ONLY <1>0
<1>. QED BY ONLY <1>3, <1>5, <1>6, <1>7 DEF RecordAt, RecordOf

\* The record, and what the routine of a branch sets of it.
Fields(a, b, c, d, e, f) ==
  [is_branch |-> a, branch_taken |-> b, destination_registers |-> c, source_registers |-> d,
   destination_memory |-> e, source_memory |-> f]
Branched(p, x, y) == [p EXCEPT !.is_branch = x, !.branch_taken = y]
LEMMA BranchedIs ==
  ASSUME NEW a, NEW b, NEW c, NEW d, NEW e, NEW f, NEW x, NEW y
  PROVE  Branched(Fields(a, b, c, d, e, f), x, y) = Fields(x, y, c, d, e, f)
<1>. DEFINE p == Fields(a, b, c, d, e, f)
            q == Fields(x, y, c, d, e, f)
            D == {"is_branch", "branch_taken", "destination_registers", "source_registers",
                  "destination_memory", "source_memory"}
<1>1. DOMAIN p = D /\ DOMAIN q = D
  BY DEF Fields
<1>2. q = [k \in D |-> q[k]]
  BY <1>1 DEF Fields
<1>3. \A k \in D : q[k] = IF k = "branch_taken" THEN y ELSE IF k = "is_branch" THEN x ELSE p[k]
  BY DEF Fields
<1>. HIDE DEF p, q
<1>4. Branched(p, x, y) = [k \in D |-> IF k = "branch_taken" THEN y ELSE IF k = "is_branch" THEN x ELSE p[k]]
  BY <1>1 DEF Branched
<1>5. Branched(p, x, y) = q
  BY <1>2, <1>3, <1>4
<1>. QED BY <1>5 DEF p, q

LEMMA BranchPartial ==
  ASSUME NEW i \in Traced, BranchEnd(i) = 2
  PROVE  Partial(i, 2) = [Partial(i, 1) EXCEPT !.is_branch = TRUE,
                            !.branch_taken = IF (IF i.branch = "taken" THEN 1 ELSE 0) # 0 THEN TRUE ELSE @]
<1>1. PICK b, r, w, l, t, nr, nw, nl, ns : Spans(i, b, r, w, l, t, nr, nw, nl, ns)
  BY SpansAre
<1>2. b = 2
  BY ONLY <1>1, BranchEnd(i) = 2 DEF Spans
<1>0. /\ b = 2 /\ nr \in Nat /\ nw \in Nat /\ nl \in Nat /\ ns \in Nat
      /\ r = b + nr /\ w = r + nw /\ l = w + nl /\ t = l + ns /\ i.branch # "none"
  BY ONLY <1>1, <1>2 DEF Spans
<1>3. /\ Clip(2 - b, nr) = 0 /\ Clip(2 - r, nw) = 0 /\ Clip(2 - w, nl) = 0 /\ Clip(2 - l, ns) = 0
      /\ Clip(1 - b, nr) = 0 /\ Clip(1 - r, nw) = 0 /\ Clip(1 - w, nl) = 0 /\ Clip(1 - l, ns) = 0
  BY ONLY <1>0 DEF Clip
<1>4. /\ Partial(i, 2) = RecordAt(i, 2 >= b, Clip(2 - b, nr), Clip(2 - r, nw), Clip(2 - w, nl), Clip(2 - l, ns))
      /\ Partial(i, 1) = RecordAt(i, 1 >= b, Clip(1 - b, nr), Clip(1 - r, nw), Clip(1 - w, nl), Clip(1 - l, ns))
  <2>1. /\ Partial(i, 2) = PartialAt(i, 2, b, r, w, l, nr, nw, nl, ns)
        /\ Partial(i, 1) = PartialAt(i, 1, b, r, w, l, nr, nw, nl, ns)
    BY ONLY <1>1 DEF Spans
  <2>. QED BY ONLY <2>1 DEF PartialAt
<1>5. (2 >= b) = TRUE /\ (1 >= b) = FALSE
  BY ONLY <1>0
<1>6. Partial(i, 2) = RecordAt(i, TRUE, 0, 0, 0, 0) /\ Partial(i, 1) = RecordAt(i, FALSE, 0, 0, 0, 0)
  BY ONLY <1>3, <1>4, <1>5
<1>. DEFINE c == KeptOf(2, Bytes(i.writes), 0)
            d == KeptOf(4, Bytes(i.reads), 0)
            e == KeptOf(2, i.stores, 0)
            f == KeptOf(4, i.loads, 0)
<1>7. CASE i.branch = "taken"
  <2>1. RecordAt(i, TRUE, 0, 0, 0, 0) = Fields(TRUE, TRUE, c, d, e, f)
        /\ RecordAt(i, FALSE, 0, 0, 0, 0) = Fields(FALSE, FALSE, c, d, e, f)
    BY ONLY <1>7 DEF RecordAt, Fields
  <2>. HIDE DEF c, d, e, f
  <2>2. Branched(Fields(FALSE, FALSE, c, d, e, f), TRUE, TRUE) = Fields(TRUE, TRUE, c, d, e, f)
    <3>. DEFINE yes == TRUE
                no == FALSE
    <3>. HIDE DEF yes, no
    <3>1. Branched(Fields(no, no, c, d, e, f), yes, yes) = Fields(yes, yes, c, d, e, f)
      BY ONLY BranchedIs
    <3>. QED BY ONLY <3>1 DEF yes, no
  <2>3. Partial(i, 2) = Branched(Partial(i, 1), TRUE, TRUE)
    BY ONLY <1>6, <2>1, <2>2
  <2>. QED BY ONLY <1>7, <2>3 DEF Branched
<1>8. CASE i.branch # "taken"
  <2>1. RecordAt(i, TRUE, 0, 0, 0, 0) = Fields(TRUE, FALSE, c, d, e, f)
        /\ RecordAt(i, FALSE, 0, 0, 0, 0) = Fields(FALSE, FALSE, c, d, e, f)
    BY ONLY <1>0, <1>8 DEF RecordAt, Fields
  <2>. HIDE DEF c, d, e, f
  <2>2. Branched(Fields(FALSE, FALSE, c, d, e, f), TRUE, FALSE) = Fields(TRUE, FALSE, c, d, e, f)
    <3>. DEFINE yes == TRUE
                no == FALSE
    <3>. HIDE DEF yes, no
    <3>1. Branched(Fields(no, no, c, d, e, f), yes, no) = Fields(yes, no, c, d, e, f)
      BY ONLY BranchedIs
    <3>. QED BY ONLY <3>1 DEF yes, no
  <2>3. Partial(i, 2) = Branched(Partial(i, 1), TRUE, FALSE)
    BY ONLY <1>6, <2>1, <2>2
  <2>4. Partial(i, 1).branch_taken = FALSE
    <3>1. Fields(FALSE, FALSE, c, d, e, f).branch_taken = FALSE
      BY DEF Fields
    <3>. QED BY ONLY <1>6, <2>1, <3>1
  <2>. QED BY ONLY <1>8, <2>3, <2>4 DEF Branched
<1>. QED BY <1>7, <1>8

LEMMA ReadPartial ==
  ASSUME NEW i \in Traced, NEW d \in BranchEnd(i) .. ReadsEnd(i) - 1
  PROVE  Partial(i, d + 1) =
           [Partial(i, d) EXCEPT !["source_registers"] = Listed(@, i.reads[d - BranchEnd(i) + 1] % 256)]
<1>1. PICK b, r, w, l, t, nr, nw, nl, ns : Spans(i, b, r, w, l, t, nr, nw, nl, ns)
  BY SpansAre
<1>0. /\ b \in Nat /\ nr \in Nat /\ nw \in Nat /\ nl \in Nat /\ ns \in Nat
      /\ r = b + nr /\ w = r + nw /\ l = w + nl /\ t = l + ns
  BY ONLY <1>1 DEF Spans
<1>2. b = BranchEnd(i) /\ r = ReadsEnd(i) /\ nr = Len(i.reads)
  BY ONLY <1>1 DEF Spans
<1>3. d \in b .. r - 1
  BY <1>2
<1>. DEFINE a == d - b
<1>4. /\ a \in 0 .. nr - 1 /\ a + 1 \in 1 .. nr /\ d >= b /\ d + 1 >= b
      /\ Clip(d - b, nr) = a /\ Clip(d + 1 - b, nr) = a + 1
      /\ Clip(d - r, nw) = 0 /\ Clip(d + 1 - r, nw) = 0
      /\ Clip(d - w, nl) = 0 /\ Clip(d + 1 - w, nl) = 0
      /\ Clip(d - l, ns) = 0 /\ Clip(d + 1 - l, ns) = 0
  BY ONLY <1>0, <1>3 DEF Clip
<1>5. /\ Partial(i, d + 1) = RecordAt(i, d + 1 >= b, Clip(d + 1 - b, nr), Clip(d + 1 - r, nw), Clip(d + 1 - w, nl), Clip(d + 1 - l, ns))
      /\ Partial(i, d) = RecordAt(i, d >= b, Clip(d - b, nr), Clip(d - r, nw), Clip(d - w, nl), Clip(d - l, ns))
  <2>1. /\ Partial(i, d + 1) = PartialAt(i, d + 1, b, r, w, l, nr, nw, nl, ns)
        /\ Partial(i, d) = PartialAt(i, d, b, r, w, l, nr, nw, nl, ns)
    BY ONLY <1>1 DEF Spans
  <2>. QED BY ONLY <1>0, <1>3, <2>1 DEF PartialAt
<1>6. (d >= b) = TRUE /\ (d + 1 >= b) = TRUE
  BY ONLY <1>4
<1>. HIDE DEF a
<1>7. /\ Partial(i, d + 1) = RecordAt(i, TRUE, a + 1, 0, 0, 0)
      /\ Partial(i, d) = RecordAt(i, TRUE, a, 0, 0, 0)
  BY ONLY <1>4, <1>5, <1>6
<1>8. Bytes(i.reads)[a + 1] = i.reads[a + 1] % 256
  <2>1. DOMAIN i.reads = 1 .. nr
    BY <1>2, TracedIs
  <2>. QED BY ONLY <1>4, <2>1 DEF Bytes
<1>9. Listed(KeptOf(4, Bytes(i.reads), a), Bytes(i.reads)[a + 1]) = KeptOf(4, Bytes(i.reads), a + 1)
  <2>. DEFINE v == Bytes(i.reads)
              N == 4
  <2>1. v \in [1 .. nr -> Nat] /\ nr \in Nat /\ N \in Nat
    BY <1>2, TracedIs, BytesAre
  <2>2. a \in 0 .. nr - 1
    BY <1>4
  <2>. HIDE DEF v, N
  <2>3. Listed(KeptOf(N, v, a), v[a + 1]) = KeptOf(N, v, a + 1)
    BY ONLY <2>1, <2>2, ListedIsKept
  <2>. QED BY <2>3 DEF v, N
<1>10. a = d - BranchEnd(i)
  BY <1>2 DEF a
<1>11. Partial(i, d + 1) = [Partial(i, d) EXCEPT !["source_registers"] = Listed(@, i.reads[a + 1] % 256)]
  BY ONLY <1>7, <1>8, <1>9 DEF RecordAt
<1>. QED BY <1>10, <1>11

LEMMA WritePartial ==
  ASSUME NEW i \in Traced, NEW d \in ReadsEnd(i) .. WritesEnd(i) - 1
  PROVE  Partial(i, d + 1) =
           [Partial(i, d) EXCEPT !["destination_registers"] = Listed(@, i.writes[d - ReadsEnd(i) + 1] % 256)]
<1>1. PICK b, r, w, l, t, nr, nw, nl, ns : Spans(i, b, r, w, l, t, nr, nw, nl, ns)
  BY SpansAre
<1>0. /\ b \in Nat /\ nr \in Nat /\ nw \in Nat /\ nl \in Nat /\ ns \in Nat
      /\ r = b + nr /\ w = r + nw /\ l = w + nl /\ t = l + ns
  BY ONLY <1>1 DEF Spans
<1>2. r = ReadsEnd(i) /\ w = WritesEnd(i) /\ nw = Len(i.writes)
  BY ONLY <1>1 DEF Spans
<1>3. d \in r .. w - 1
  BY <1>2
<1>. DEFINE a == d - r
<1>4. /\ a \in 0 .. nw - 1 /\ a + 1 \in 1 .. nw /\ d >= b /\ d + 1 >= b
      /\ Clip(d - b, nr) = nr /\ Clip(d + 1 - b, nr) = nr
      /\ Clip(d - r, nw) = a /\ Clip(d + 1 - r, nw) = a + 1
      /\ Clip(d - w, nl) = 0 /\ Clip(d + 1 - w, nl) = 0
      /\ Clip(d - l, ns) = 0 /\ Clip(d + 1 - l, ns) = 0
  BY ONLY <1>0, <1>3 DEF Clip
<1>5. /\ Partial(i, d + 1) = RecordAt(i, d + 1 >= b, Clip(d + 1 - b, nr), Clip(d + 1 - r, nw), Clip(d + 1 - w, nl), Clip(d + 1 - l, ns))
      /\ Partial(i, d) = RecordAt(i, d >= b, Clip(d - b, nr), Clip(d - r, nw), Clip(d - w, nl), Clip(d - l, ns))
  <2>1. /\ Partial(i, d + 1) = PartialAt(i, d + 1, b, r, w, l, nr, nw, nl, ns)
        /\ Partial(i, d) = PartialAt(i, d, b, r, w, l, nr, nw, nl, ns)
    BY ONLY <1>1 DEF Spans
  <2>. QED BY ONLY <1>0, <1>3, <2>1 DEF PartialAt
<1>6. (d >= b) = TRUE /\ (d + 1 >= b) = TRUE
  BY ONLY <1>4
<1>. HIDE DEF a
<1>7. /\ Partial(i, d + 1) = RecordAt(i, TRUE, nr, a + 1, 0, 0)
      /\ Partial(i, d) = RecordAt(i, TRUE, nr, a, 0, 0)
  BY ONLY <1>4, <1>5, <1>6
<1>8. Bytes(i.writes)[a + 1] = i.writes[a + 1] % 256
  <2>1. DOMAIN i.writes = 1 .. nw
    BY <1>2, TracedIs
  <2>. QED BY ONLY <1>4, <2>1 DEF Bytes
<1>9. Listed(KeptOf(2, Bytes(i.writes), a), Bytes(i.writes)[a + 1]) = KeptOf(2, Bytes(i.writes), a + 1)
  <2>. DEFINE v == Bytes(i.writes)
              N == 2
  <2>1. v \in [1 .. nw -> Nat] /\ nw \in Nat /\ N \in Nat
    BY <1>2, TracedIs, BytesAre
  <2>2. a \in 0 .. nw - 1
    BY <1>4
  <2>. HIDE DEF v, N
  <2>3. Listed(KeptOf(N, v, a), v[a + 1]) = KeptOf(N, v, a + 1)
    BY ONLY <2>1, <2>2, ListedIsKept
  <2>. QED BY <2>3 DEF v, N
<1>10. a = d - ReadsEnd(i)
  BY <1>2 DEF a
<1>11. Partial(i, d + 1) = [Partial(i, d) EXCEPT !["destination_registers"] = Listed(@, i.writes[a + 1] % 256)]
  BY ONLY <1>7, <1>8, <1>9 DEF RecordAt
<1>. QED BY <1>10, <1>11

LEMMA LoadPartial ==
  ASSUME NEW i \in Traced, NEW d \in WritesEnd(i) .. LoadsEnd(i) - 1
  PROVE  Partial(i, d + 1) =
           [Partial(i, d) EXCEPT !["source_memory"] = Listed(@, i.loads[d - WritesEnd(i) + 1])]
<1>1. PICK b, r, w, l, t, nr, nw, nl, ns : Spans(i, b, r, w, l, t, nr, nw, nl, ns)
  BY SpansAre
<1>0. /\ b \in Nat /\ nr \in Nat /\ nw \in Nat /\ nl \in Nat /\ ns \in Nat
      /\ r = b + nr /\ w = r + nw /\ l = w + nl /\ t = l + ns
  BY ONLY <1>1 DEF Spans
<1>2. w = WritesEnd(i) /\ l = LoadsEnd(i) /\ nl = Len(i.loads)
  BY ONLY <1>1 DEF Spans
<1>3. d \in w .. l - 1
  BY <1>2
<1>. DEFINE a == d - w
<1>4. /\ a \in 0 .. nl - 1 /\ a + 1 \in 1 .. nl /\ d >= b /\ d + 1 >= b
      /\ Clip(d - b, nr) = nr /\ Clip(d + 1 - b, nr) = nr
      /\ Clip(d - r, nw) = nw /\ Clip(d + 1 - r, nw) = nw
      /\ Clip(d - w, nl) = a /\ Clip(d + 1 - w, nl) = a + 1
      /\ Clip(d - l, ns) = 0 /\ Clip(d + 1 - l, ns) = 0
  BY ONLY <1>0, <1>3 DEF Clip
<1>5. /\ Partial(i, d + 1) = RecordAt(i, d + 1 >= b, Clip(d + 1 - b, nr), Clip(d + 1 - r, nw), Clip(d + 1 - w, nl), Clip(d + 1 - l, ns))
      /\ Partial(i, d) = RecordAt(i, d >= b, Clip(d - b, nr), Clip(d - r, nw), Clip(d - w, nl), Clip(d - l, ns))
  <2>1. /\ Partial(i, d + 1) = PartialAt(i, d + 1, b, r, w, l, nr, nw, nl, ns)
        /\ Partial(i, d) = PartialAt(i, d, b, r, w, l, nr, nw, nl, ns)
    BY ONLY <1>1 DEF Spans
  <2>. QED BY ONLY <1>0, <1>3, <2>1 DEF PartialAt
<1>6. (d >= b) = TRUE /\ (d + 1 >= b) = TRUE
  BY ONLY <1>4
<1>. HIDE DEF a
<1>7. /\ Partial(i, d + 1) = RecordAt(i, TRUE, nr, nw, a + 1, 0)
      /\ Partial(i, d) = RecordAt(i, TRUE, nr, nw, a, 0)
  BY ONLY <1>4, <1>5, <1>6
<1>8. i.loads[a + 1] = i.loads[a + 1]
  <2>1. DOMAIN i.loads = 1 .. nl
    BY <1>2, TracedIs
  <2>. QED BY ONLY <1>4, <2>1 DEF Bytes
<1>9. Listed(KeptOf(4, i.loads, a), i.loads[a + 1]) = KeptOf(4, i.loads, a + 1)
  <2>. DEFINE v == i.loads
              N == 4
  <2>1. v \in [1 .. nl -> Nat] /\ nl \in Nat /\ N \in Nat
    BY <1>2, TracedIs, BytesAre
  <2>2. a \in 0 .. nl - 1
    BY <1>4
  <2>. HIDE DEF v, N
  <2>3. Listed(KeptOf(N, v, a), v[a + 1]) = KeptOf(N, v, a + 1)
    BY ONLY <2>1, <2>2, ListedIsKept
  <2>. QED BY <2>3 DEF v, N
<1>10. a = d - WritesEnd(i)
  BY <1>2 DEF a
<1>11. Partial(i, d + 1) = [Partial(i, d) EXCEPT !["source_memory"] = Listed(@, i.loads[a + 1])]
  BY ONLY <1>7, <1>8, <1>9 DEF RecordAt
<1>. QED BY <1>10, <1>11

LEMMA StorePartial ==
  ASSUME NEW i \in Traced, NEW d \in LoadsEnd(i) .. StoresEnd(i) - 1
  PROVE  Partial(i, d + 1) =
           [Partial(i, d) EXCEPT !["destination_memory"] = Listed(@, i.stores[d - LoadsEnd(i) + 1])]
<1>1. PICK b, r, w, l, t, nr, nw, nl, ns : Spans(i, b, r, w, l, t, nr, nw, nl, ns)
  BY SpansAre
<1>0. /\ b \in Nat /\ nr \in Nat /\ nw \in Nat /\ nl \in Nat /\ ns \in Nat
      /\ r = b + nr /\ w = r + nw /\ l = w + nl /\ t = l + ns
  BY ONLY <1>1 DEF Spans
<1>2. l = LoadsEnd(i) /\ t = StoresEnd(i) /\ ns = Len(i.stores)
  BY ONLY <1>1 DEF Spans
<1>3. d \in l .. t - 1
  BY <1>2
<1>. DEFINE a == d - l
<1>4. /\ a \in 0 .. ns - 1 /\ a + 1 \in 1 .. ns /\ d >= b /\ d + 1 >= b
      /\ Clip(d - b, nr) = nr /\ Clip(d + 1 - b, nr) = nr
      /\ Clip(d - r, nw) = nw /\ Clip(d + 1 - r, nw) = nw
      /\ Clip(d - w, nl) = nl /\ Clip(d + 1 - w, nl) = nl
      /\ Clip(d - l, ns) = a /\ Clip(d + 1 - l, ns) = a + 1
  BY ONLY <1>0, <1>3 DEF Clip
<1>5. /\ Partial(i, d + 1) = RecordAt(i, d + 1 >= b, Clip(d + 1 - b, nr), Clip(d + 1 - r, nw), Clip(d + 1 - w, nl), Clip(d + 1 - l, ns))
      /\ Partial(i, d) = RecordAt(i, d >= b, Clip(d - b, nr), Clip(d - r, nw), Clip(d - w, nl), Clip(d - l, ns))
  <2>1. /\ Partial(i, d + 1) = PartialAt(i, d + 1, b, r, w, l, nr, nw, nl, ns)
        /\ Partial(i, d) = PartialAt(i, d, b, r, w, l, nr, nw, nl, ns)
    BY ONLY <1>1 DEF Spans
  <2>. QED BY ONLY <1>0, <1>3, <2>1 DEF PartialAt
<1>6. (d >= b) = TRUE /\ (d + 1 >= b) = TRUE
  BY ONLY <1>4
<1>. HIDE DEF a
<1>7. /\ Partial(i, d + 1) = RecordAt(i, TRUE, nr, nw, nl, a + 1)
      /\ Partial(i, d) = RecordAt(i, TRUE, nr, nw, nl, a)
  BY ONLY <1>4, <1>5, <1>6
<1>8. i.stores[a + 1] = i.stores[a + 1]
  <2>1. DOMAIN i.stores = 1 .. ns
    BY <1>2, TracedIs
  <2>. QED BY ONLY <1>4, <2>1 DEF Bytes
<1>9. Listed(KeptOf(2, i.stores, a), i.stores[a + 1]) = KeptOf(2, i.stores, a + 1)
  <2>. DEFINE v == i.stores
              N == 2
  <2>1. v \in [1 .. ns -> Nat] /\ ns \in Nat /\ N \in Nat
    BY <1>2, TracedIs, BytesAre
  <2>2. a \in 0 .. ns - 1
    BY <1>4
  <2>. HIDE DEF v, N
  <2>3. Listed(KeptOf(N, v, a), v[a + 1]) = KeptOf(N, v, a + 1)
    BY ONLY <2>1, <2>2, ListedIsKept
  <2>. QED BY <2>3 DEF v, N
<1>10. a = d - LoadsEnd(i)
  BY <1>2 DEF a
<1>11. Partial(i, d + 1) = [Partial(i, d) EXCEPT !["destination_memory"] = Listed(@, i.stores[a + 1])]
  BY ONLY <1>7, <1>8, <1>9 DEF RecordAt
<1>. QED BY <1>10, <1>11

-----------------------------------------------------------------------------
(* The tracer.                                                             *)

Now == program[ran]
Done == StoresEnd(Now) + 1 - Len(calls)
\* The instructions that are over, and how many of them are in the window.
Over == IF calls = <<>> THEN ran ELSE ran - 1
Width(n) == IF n <= SkipInstructions THEN 0
            ELSE IF n > LastTraced THEN TraceInstructions ELSE n - SkipInstructions

TracerTypes ==
  /\ program \in Seq(Traced) /\ ran \in 0 .. Len(program) /\ calls \in Seq(Calls)
  /\ instrCount \in Nat /\ tracing_on \in BOOLEAN /\ exited \in BOOLEAN
CallsLeft ==
  calls # <<>> => /\ ran >= 1 /\ Len(calls) <= StoresEnd(Now) + 1
                  /\ \A k \in 1 .. Len(calls) : calls[k] = CallAt(Now, Done + k - 1)
Counted ==
  /\ instrCount = IF calls # <<>> /\ Done = 0 THEN ran - 1 ELSE ran
  /\ exited <=> calls = <<>> /\ ran > LastTraced
  /\ ran <= LastTraced + 1
InWindow ==
  /\ instrCount <= SkipInstructions => ~tracing_on
  /\ calls # <<>> /\ Done > 0 =>
       (tracing_on <=> instrCount > SkipInstructions /\ instrCount <= LastTraced)
RecordSoFar == calls # <<>> /\ Done > 0 /\ tracing_on => curr_instr = Partial(Now, Done)
FileSoFar == file = [n \in 1 .. Width(Over) |-> RecordOf(program[SkipInstructions + n])]
TracerInv == TracerTypes /\ CallsLeft /\ Counted /\ InWindow /\ RecordSoFar /\ FileSoFar

LEMMA KnobsAre == SkipInstructions \in Nat /\ TraceInstructions \in Nat /\ LastTraced \in Nat
                  /\ LastTraced = TraceInstructions + SkipInstructions
BY KnobAssumption DEF LastTraced

LEMMA TracerInitially == PInit => TracerInv
<1>. SUFFICES ASSUME PInit PROVE TracerInv
  OBVIOUS
<1>1. /\ program \in Seq(Traced) /\ ran = 0 /\ calls = <<>> /\ instrCount = 0 /\ ~tracing_on
      /\ tracing_on \in BOOLEAN /\ exited \in BOOLEAN /\ ~exited /\ file = <<>>
  BY ProgramsAssumption DEF PInit
<1>2. TracerTypes
  BY <1>1 DEF TracerTypes
<1>3. Counted
  BY <1>1, KnobsAre DEF Counted
<1>4. FileSoFar
  <2>1. Over = 0 /\ Width(Over) = 0
    BY <1>1, KnobsAre DEF Over, Width
  <2>. QED BY <1>1, <2>1 DEF FileSoFar
<1>. QED BY <1>1, <1>2, <1>3, <1>4 DEF TracerInv, CallsLeft, InWindow, RecordSoFar

LEMMA TailIs ==
  ASSUME NEW s \in Seq(Calls), s # <<>>
  PROVE  /\ Len(s) \in Nat /\ Len(s) >= 1 /\ Tail(s) \in Seq(Calls) /\ Len(Tail(s)) = Len(s) - 1
         /\ \A k \in 1 .. Len(Tail(s)) : Tail(s)[k] = s[k + 1]
         /\ Head(s) = s[1] /\ (Tail(s) = <<>> <=> Len(s) = 1)
<1>. DEFINE C == Calls
<1>1. s \in Seq(C)
  OBVIOUS
<1>. HIDE DEF C
<1>2. Len(s) \in Nat /\ Len(s) >= 1
  BY <1>1
<1>3. Tail(s) \in Seq(C) /\ Len(Tail(s)) = Len(s) - 1
  BY <1>1
<1>4. \A k \in 1 .. Len(Tail(s)) : Tail(s)[k] = s[k + 1]
  BY <1>1, <1>3
<1>5. Tail(s) = <<>> <=> Len(s) = 1
  <2>. DEFINE u == Tail(s)
  <2>1. u \in Seq(C) /\ Len(u) = Len(s) - 1
    BY <1>3
  <2>. HIDE DEF u
  <2>2. u = <<>> <=> Len(u) = 0
    BY ONLY <2>1, EmptySeq
  <2>. QED BY <1>2, <2>1, <2>2 DEF u
<1>. QED BY <1>2, <1>3, <1>4, <1>5 DEF C

\* One call: which it is, and what is left.
LEMMA CallStep ==
  ASSUME TracerTypes, CallsLeft, NEW r, Call(r)
  PROVE  /\ calls # <<>> /\ Now \in Traced /\ ran \in 1 .. Len(program)
         /\ Done \in 0 .. StoresEnd(Now) /\ StoresEnd(Now) \in Nat
         /\ CallAt(Now, Done).routine = r /\ Arg = CallAt(Now, Done).arg
         /\ program' = program /\ ran' = ran /\ Now' = Now /\ Done' = Done + 1
         /\ calls' \in Seq(Calls) /\ (calls' = <<>> <=> Done = StoresEnd(Now))
         /\ CallsLeft'
<1>1. calls # <<>> /\ calls' = Tail(calls) /\ program' = program /\ ran' = ran /\ Head(calls).routine = r
  BY DEF Call
<1>2. /\ program \in Seq(Traced) /\ ran \in 0 .. Len(program) /\ calls \in Seq(Calls)
  BY DEF TracerTypes
<1>3. /\ ran >= 1 /\ Len(calls) <= StoresEnd(Now) + 1
      /\ \A k \in 1 .. Len(calls) : calls[k] = CallAt(Now, Done + k - 1)
  BY <1>1 DEF CallsLeft
<1>4. ran \in 1 .. Len(program) /\ Now \in Traced
  BY <1>2, <1>3 DEF Now
<1>5. StoresEnd(Now) \in Nat /\ 1 <= StoresEnd(Now)
  <2>1. StoresEnd(Now) \in Nat /\ 1 <= BranchEnd(Now) /\ BranchEnd(Now) <= ReadsEnd(Now)
        /\ ReadsEnd(Now) <= WritesEnd(Now) /\ WritesEnd(Now) <= LoadsEnd(Now) /\ LoadsEnd(Now) <= StoresEnd(Now)
        /\ BranchEnd(Now) \in Nat /\ ReadsEnd(Now) \in Nat /\ WritesEnd(Now) \in Nat /\ LoadsEnd(Now) \in Nat
    BY <1>4, EndsAre
  <2>. QED BY ONLY <2>1
<1>6. /\ Len(calls) \in Nat /\ Len(calls) >= 1 /\ calls' \in Seq(Calls) /\ Len(calls') = Len(calls) - 1
      /\ \A k \in 1 .. Len(calls') : calls'[k] = calls[k + 1]
      /\ Head(calls) = calls[1] /\ (calls' = <<>> <=> Len(calls) = 1)
  BY <1>1, <1>2, TailIs
<1>7. Now' = Now
  BY <1>1 DEF Now
<1>. DEFINE t == StoresEnd(Now)
            m == Len(calls)
            m1 == Len(calls')
            d == Done
            d1 == Done'
<1>8. d = t + 1 - m /\ d1 = t + 1 - m1
  BY <1>7 DEF Done
<1>9. t \in Nat /\ 1 <= t /\ m \in Nat /\ m >= 1 /\ m1 = m - 1 /\ m <= t + 1
  BY <1>3, <1>5, <1>6
<1>. HIDE DEF t, m, m1, d, d1
<1>10. d \in 0 .. t /\ d1 = d + 1 /\ (m = 1 <=> d = t) /\ d + 1 - 1 = d /\ m1 <= t + 1
  BY ONLY <1>8, <1>9
<1>11. calls[1] = CallAt(Now, d)
  <2>1. 1 \in 1 .. m
    BY ONLY <1>9
  <2>2. calls[1] = CallAt(Now, d + 1 - 1)
    BY <1>3, <2>1 DEF m, d
  <2>. QED BY <1>10, <2>2
<1>12. ASSUME NEW k \in 1 .. m1 PROVE calls'[k] = CallAt(Now, d1 + k - 1)
  <2>1. k + 1 \in 1 .. m /\ d + (k + 1) - 1 = d1 + k - 1
    BY ONLY <1>8, <1>9, <1>10
  <2>2. calls'[k] = calls[k + 1]
    BY <1>6 DEF m1
  <2>3. calls[k + 1] = CallAt(Now, d + (k + 1) - 1)
    BY <1>3, <2>1 DEF m, d
  <2>. QED BY <2>1, <2>2, <2>3
<1>13. CallsLeft'
  BY <1>1, <1>3, <1>7, <1>10, <1>12 DEF CallsLeft, t, m1, d1
<1>. QED BY <1>1, <1>4, <1>5, <1>6, <1>7, <1>10, <1>11, <1>13 DEF Arg, t, m, m1, d, d1

LEMMA StartStep == TracerInv /\ Execute => TracerInv'
<1>. SUFFICES ASSUME TracerInv, Execute PROVE TracerInv'
  OBVIOUS
<1>1. /\ calls = <<>> /\ ~exited /\ ran < Len(program) /\ ran' = ran + 1
      /\ calls' = Instrumented(program[ran + 1])
      /\ program' = program /\ instrCount' = instrCount /\ tracing_on' = tracing_on
      /\ curr_instr' = curr_instr /\ file' = file /\ exited' = exited
  BY DEF Execute
<1>2. TracerTypes /\ Counted /\ InWindow /\ FileSoFar
  BY DEF TracerInv
<1>3. /\ program \in Seq(Traced) /\ ran \in 0 .. Len(program)
  BY <1>2 DEF TracerTypes
<1>4. program[ran + 1] \in Traced /\ ran + 1 \in 1 .. Len(program) /\ Now' = program[ran + 1]
  BY <1>1, <1>3 DEF Now
<1>. DEFINE i == program[ran + 1]
<1>5. /\ calls' \in Seq(Calls) /\ Len(calls') = StoresEnd(i) + 1
      /\ \A k \in 0 .. StoresEnd(i) : calls'[k + 1] = CallAt(i, k)
      /\ StoresEnd(i) \in Nat
  BY <1>1, <1>4, InstrumentedIs, EndsAre
<1>6. Done' = 0 /\ calls' # <<>>
  BY <1>4, <1>5 DEF Done
<1>7. TracerTypes'
  BY <1>1, <1>2, <1>4, <1>5 DEF TracerTypes
<1>8. CallsLeft'
  <2>. DEFINE t == StoresEnd(i)
              s == calls'
  <2>. HIDE DEF i
  <2>1. t \in Nat /\ Len(s) = t + 1 /\ \A k \in 0 .. t : s[k + 1] = CallAt(i, k)
    BY <1>5
  <2>. HIDE DEF t, s
  <2>2. ASSUME NEW k \in 1 .. Len(s) PROVE s[k] = CallAt(i, 0 + k - 1)
    <3>1. k - 1 \in 0 .. t /\ (k - 1) + 1 = k /\ 0 + k - 1 = k - 1
      BY <2>1
    <3>. QED BY <2>1, <3>1
  <2>3. Len(s) <= t + 1 /\ ran' >= 1
    BY <1>1, <1>3, <2>1
  <2>. QED BY <1>4, <1>6, <2>2, <2>3 DEF CallsLeft, i, t, s
<1>9. Counted'
  <2>1. instrCount = ran /\ ran <= LastTraced
    BY <1>1, <1>2, <1>3, KnobsAre DEF Counted
  <2>. QED BY <1>1, <1>3, <1>6, <2>1, KnobsAre DEF Counted
<1>10. InWindow' /\ RecordSoFar'
  BY <1>1, <1>2, <1>6 DEF InWindow, RecordSoFar
<1>11. FileSoFar'
  <2>1. Over' = Over
    BY <1>1, <1>3, <1>6 DEF Over
  <2>. QED BY <1>1, <1>2, <2>1 DEF FileSoFar, Width
<1>. QED BY <1>7, <1>8, <1>9, <1>10, <1>11 DEF TracerInv

\* The calls but the last leave the file.
LEMMA FileStays ==
  ASSUME FileSoFar, calls # <<>>, calls' # <<>>, program' = program, ran' = ran, file' = file
  PROVE  FileSoFar'
<1>1. Over' = Over
  BY DEF Over
<1>. QED BY <1>1 DEF FileSoFar, Width

LEMMA BeginStep == TracerInv /\ BeginInstruction => TracerInv'
<1>. SUFFICES ASSUME TracerInv, BeginInstruction PROVE TracerInv'
  OBVIOUS
<1>1. /\ Call("BeginInstruction") /\ instrCount' = instrCount + 1
      /\ tracing_on' = IF instrCount' > SkipInstructions THEN instrCount' <= LastTraced ELSE tracing_on
      /\ curr_instr' = IF tracing_on' THEN Empty ELSE curr_instr
      /\ file' = file /\ exited' = exited
  BY DEF BeginInstruction, Reset
<1>2. TracerTypes /\ CallsLeft /\ Counted /\ InWindow /\ FileSoFar
  BY DEF TracerInv
<1>3. /\ calls # <<>> /\ Now \in Traced /\ ran \in 1 .. Len(program)
      /\ Done \in 0 .. StoresEnd(Now) /\ StoresEnd(Now) \in Nat
      /\ CallAt(Now, Done).routine = "BeginInstruction"
      /\ program' = program /\ ran' = ran /\ Now' = Now /\ Done' = Done + 1
      /\ calls' \in Seq(Calls) /\ (calls' = <<>> <=> Done = StoresEnd(Now))
      /\ CallsLeft'
  BY <1>1, <1>2, CallStep
<1>4. Done = 0 /\ Done' = 1 /\ calls' # <<>>
  <2>1. Done = 0
    BY <1>3, RoutineIs
  <2>2. 1 <= BranchEnd(Now) /\ BranchEnd(Now) <= ReadsEnd(Now) /\ ReadsEnd(Now) <= WritesEnd(Now)
        /\ WritesEnd(Now) <= LoadsEnd(Now) /\ LoadsEnd(Now) <= StoresEnd(Now)
        /\ BranchEnd(Now) \in Nat /\ ReadsEnd(Now) \in Nat /\ WritesEnd(Now) \in Nat /\ LoadsEnd(Now) \in Nat
    BY <1>3, EndsAre
  <2>3. StoresEnd(Now) # 0
    BY ONLY <1>3, <2>2
  <2>. QED BY <1>3, <2>1, <2>3
<1>5. instrCount = ran - 1 /\ instrCount' = ran /\ ~exited /\ ran \in Nat /\ ran <= LastTraced + 1
      /\ exited \in BOOLEAN /\ tracing_on \in BOOLEAN
  BY <1>1, <1>2, <1>3, <1>4 DEF Counted, TracerTypes
<1>6. /\ tracing_on' \in BOOLEAN
      /\ ran <= SkipInstructions => ~tracing_on'
      /\ tracing_on' <=> ran > SkipInstructions /\ ran <= LastTraced
  <2>1. instrCount <= SkipInstructions => ~tracing_on
    BY <1>2 DEF InWindow
  <2>2. CASE ran > SkipInstructions
    <3>1. CASE ran <= LastTraced
      <4>1. tracing_on' = TRUE
        BY <1>1, <1>5, <2>2, <3>1
      <4>. QED BY <1>5, <2>2, <3>1, <4>1, KnobsAre
    <3>2. CASE ~(ran <= LastTraced)
      <4>1. tracing_on' = FALSE
        BY <1>1, <1>5, <2>2, <3>2
      <4>. QED BY <1>5, <2>2, <3>2, <4>1, KnobsAre
    <3>. QED BY <3>1, <3>2
  <2>3. CASE ~(ran > SkipInstructions)
    <3>1. tracing_on' = tracing_on
      BY <1>1, <1>5, <2>3
    <3>2. instrCount <= SkipInstructions
      BY <1>5, <2>3, KnobsAre
    <3>3. ~tracing_on
      BY <2>1, <3>2
    <3>. QED BY <1>5, <2>3, <3>1, <3>3
  <2>. QED BY <2>2, <2>3
<1>7. TracerTypes'
  BY <1>1, <1>2, <1>3, <1>5, <1>6 DEF TracerTypes
<1>8. Counted'
  <2>1. exited' <=> calls' = <<>> /\ ran' > LastTraced
    BY <1>1, <1>4, <1>5
  <2>2. instrCount' = IF calls' # <<>> /\ Done' = 0 THEN ran' - 1 ELSE ran'
    BY <1>3, <1>4, <1>5
  <2>3. ran' <= LastTraced + 1
    BY <1>3, <1>5
  <2>. QED BY <2>1, <2>2, <2>3 DEF Counted, LastTraced
<1>9. InWindow'
  BY <1>5, <1>6 DEF InWindow, LastTraced
<1>10. RecordSoFar'
  <2>1. Partial(Now', 1) = Empty
    BY <1>3, FirstPartial
  <2>. QED BY <1>1, <1>4, <2>1 DEF RecordSoFar
<1>11. FileSoFar'
  BY <1>1, <1>2, <1>3, <1>4, FileStays
<1>. QED BY <1>3, <1>7, <1>8, <1>9, <1>10, <1>11 DEF TracerInv

\* A call between the first and the last.
LEMMA MiddleStep ==
  ASSUME TracerInv, NEW r, Call(r), Done > 0, Done < StoresEnd(Now),
         UNCHANGED <<instrCount, tracing_on, file, exited>>,
         tracing_on /\ curr_instr = Partial(Now, Done) => curr_instr' = Partial(Now, Done + 1)
  PROVE  TracerInv'
<1>2. TracerTypes /\ CallsLeft /\ Counted /\ InWindow /\ RecordSoFar /\ FileSoFar
  BY DEF TracerInv
<1>3. /\ calls # <<>> /\ Now \in Traced /\ ran \in 1 .. Len(program)
      /\ Done \in 0 .. StoresEnd(Now) /\ StoresEnd(Now) \in Nat
      /\ program' = program /\ ran' = ran /\ Now' = Now /\ Done' = Done + 1
      /\ calls' \in Seq(Calls) /\ (calls' = <<>> <=> Done = StoresEnd(Now))
      /\ CallsLeft'
  BY <1>2, CallStep
<1>4. calls' # <<>> /\ Done' > 0 /\ Done # 0 /\ Done' # 0
  BY <1>3
<1>5. TracerTypes'
  BY <1>2, <1>3 DEF TracerTypes
<1>6. Counted'
  BY <1>2, <1>3, <1>4 DEF Counted, LastTraced
<1>7. InWindow'
  BY <1>2, <1>3, <1>4 DEF InWindow, LastTraced
<1>8. RecordSoFar'
  <2>1. tracing_on => curr_instr' = Partial(Now, Done + 1)
    BY <1>2, <1>3 DEF RecordSoFar
  <2>2. tracing_on' = tracing_on
    OBVIOUS
  <2>. QED BY ONLY <1>3, <2>1, <2>2 DEF RecordSoFar
<1>9. FileSoFar'
  BY <1>2, <1>3, <1>4, FileStays
<1>. QED BY <1>3, <1>5, <1>6, <1>7, <1>8, <1>9 DEF TracerInv

LEMMA BranchStep == TracerInv /\ BranchOrNot => TracerInv'
<1>. SUFFICES ASSUME TracerInv, BranchOrNot PROVE TracerInv'
  OBVIOUS
<1>1. /\ Call("BranchOrNot")
      /\ curr_instr' = [curr_instr EXCEPT !.is_branch = TRUE, !.branch_taken = IF Arg # 0 THEN TRUE ELSE @]
      /\ UNCHANGED <<instrCount, tracing_on, file, exited>>
  BY DEF BranchOrNot
<1>2. /\ Now \in Traced /\ Done \in 0 .. StoresEnd(Now)
      /\ CallAt(Now, Done).routine = "BranchOrNot" /\ Arg = CallAt(Now, Done).arg
  BY <1>1, CallStep DEF TracerInv
<1>3. Done = 1 /\ BranchEnd(Now) = 2 /\ Arg = IF Now.branch = "taken" THEN 1 ELSE 0
  BY <1>2, RoutineIs
<1>4. Done > 0 /\ Done < StoresEnd(Now)
  <2>1. BranchEnd(Now) <= ReadsEnd(Now) /\ ReadsEnd(Now) <= WritesEnd(Now)
        /\ WritesEnd(Now) <= LoadsEnd(Now) /\ LoadsEnd(Now) <= StoresEnd(Now)
        /\ ReadsEnd(Now) \in Nat /\ WritesEnd(Now) \in Nat /\ LoadsEnd(Now) \in Nat /\ StoresEnd(Now) \in Nat
    BY <1>2, EndsAre
  <2>. QED BY ONLY <1>3, <2>1
<1>5. Partial(Now, 2) = [Partial(Now, 1) EXCEPT !.is_branch = TRUE,
                           !.branch_taken = IF Arg # 0 THEN TRUE ELSE @]
  BY <1>2, <1>3, BranchPartial
<1>6. curr_instr = Partial(Now, Done) => curr_instr' = Partial(Now, Done + 1)
  <2>1. Done = 1 /\ Done + 1 = 2
    BY <1>3
  <2>. QED BY ONLY <1>1, <1>5, <2>1
<1>. QED BY <1>1, <1>4, <1>6, MiddleStep

LEMMA ReadStep == TracerInv /\ RegRead => TracerInv'
<1>. SUFFICES ASSUME TracerInv, RegRead PROVE TracerInv'
  OBVIOUS
<1>1. /\ Call("RegRead")
      /\ curr_instr' = IF tracing_on THEN [curr_instr EXCEPT !["source_registers"] = Listed(@, Arg % 256)]
                       ELSE curr_instr
      /\ UNCHANGED <<instrCount, tracing_on, file, exited>>
  BY DEF RegRead, List
<1>2. /\ Now \in Traced /\ Done \in 0 .. StoresEnd(Now)
      /\ CallAt(Now, Done).routine = "RegRead" /\ Arg = CallAt(Now, Done).arg
  BY <1>1, CallStep DEF TracerInv
<1>3. Done \in BranchEnd(Now) .. ReadsEnd(Now) - 1 /\ Arg = Now.reads[Done - BranchEnd(Now) + 1]
  BY <1>2, RoutineIs
<1>4. Done > 0 /\ Done < StoresEnd(Now)
  <2>1. 1 <= BranchEnd(Now) /\ BranchEnd(Now) <= ReadsEnd(Now) /\ ReadsEnd(Now) <= WritesEnd(Now)
        /\ WritesEnd(Now) <= LoadsEnd(Now) /\ LoadsEnd(Now) <= StoresEnd(Now) /\ BranchEnd(Now) \in Nat
        /\ ReadsEnd(Now) \in Nat /\ WritesEnd(Now) \in Nat /\ LoadsEnd(Now) \in Nat /\ StoresEnd(Now) \in Nat
    BY <1>2, EndsAre
  <2>2. Done \in Nat /\ BranchEnd(Now) <= Done /\ Done <= ReadsEnd(Now) - 1
    BY <1>2, <1>3, <2>1
  <2>. QED BY ONLY <2>1, <2>2
<1>5. Partial(Now, Done + 1) = [Partial(Now, Done) EXCEPT !["source_registers"] = Listed(@, Arg % 256)]
  <2>1. \A d \in BranchEnd(Now) .. ReadsEnd(Now) - 1 : Partial(Now, d + 1) =
           [Partial(Now, d) EXCEPT !["source_registers"] = Listed(@, Now.reads[d - BranchEnd(Now) + 1] % 256)]
    BY <1>2, ReadPartial
  <2>. QED BY <1>3, <2>1
<1>6. tracing_on /\ curr_instr = Partial(Now, Done) => curr_instr' = Partial(Now, Done + 1)
  BY ONLY <1>1, <1>5
<1>. QED BY <1>1, <1>4, <1>6, MiddleStep

LEMMA WriteStep == TracerInv /\ RegWrite => TracerInv'
<1>. SUFFICES ASSUME TracerInv, RegWrite PROVE TracerInv'
  OBVIOUS
<1>1. /\ Call("RegWrite")
      /\ curr_instr' = IF tracing_on THEN [curr_instr EXCEPT !["destination_registers"] = Listed(@, Arg % 256)]
                       ELSE curr_instr
      /\ UNCHANGED <<instrCount, tracing_on, file, exited>>
  BY DEF RegWrite, List
<1>2. /\ Now \in Traced /\ Done \in 0 .. StoresEnd(Now)
      /\ CallAt(Now, Done).routine = "RegWrite" /\ Arg = CallAt(Now, Done).arg
  BY <1>1, CallStep DEF TracerInv
<1>3. Done \in ReadsEnd(Now) .. WritesEnd(Now) - 1 /\ Arg = Now.writes[Done - ReadsEnd(Now) + 1]
  BY <1>2, RoutineIs
<1>4. Done > 0 /\ Done < StoresEnd(Now)
  <2>1. 1 <= BranchEnd(Now) /\ BranchEnd(Now) <= ReadsEnd(Now) /\ ReadsEnd(Now) <= WritesEnd(Now)
        /\ WritesEnd(Now) <= LoadsEnd(Now) /\ LoadsEnd(Now) <= StoresEnd(Now) /\ BranchEnd(Now) \in Nat
        /\ ReadsEnd(Now) \in Nat /\ WritesEnd(Now) \in Nat /\ LoadsEnd(Now) \in Nat /\ StoresEnd(Now) \in Nat
    BY <1>2, EndsAre
  <2>2. Done \in Nat /\ ReadsEnd(Now) <= Done /\ Done <= WritesEnd(Now) - 1
    BY <1>2, <1>3, <2>1
  <2>. QED BY ONLY <2>1, <2>2
<1>5. Partial(Now, Done + 1) = [Partial(Now, Done) EXCEPT !["destination_registers"] = Listed(@, Arg % 256)]
  <2>1. \A d \in ReadsEnd(Now) .. WritesEnd(Now) - 1 : Partial(Now, d + 1) =
           [Partial(Now, d) EXCEPT !["destination_registers"] = Listed(@, Now.writes[d - ReadsEnd(Now) + 1] % 256)]
    BY <1>2, WritePartial
  <2>. QED BY <1>3, <2>1
<1>6. tracing_on /\ curr_instr = Partial(Now, Done) => curr_instr' = Partial(Now, Done + 1)
  BY ONLY <1>1, <1>5
<1>. QED BY <1>1, <1>4, <1>6, MiddleStep

LEMMA LoadStep == TracerInv /\ MemoryRead => TracerInv'
<1>. SUFFICES ASSUME TracerInv, MemoryRead PROVE TracerInv'
  OBVIOUS
<1>1. /\ Call("MemoryRead")
      /\ curr_instr' = IF tracing_on THEN [curr_instr EXCEPT !["source_memory"] = Listed(@, Arg)]
                       ELSE curr_instr
      /\ UNCHANGED <<instrCount, tracing_on, file, exited>>
  BY DEF MemoryRead, List
<1>2. /\ Now \in Traced /\ Done \in 0 .. StoresEnd(Now)
      /\ CallAt(Now, Done).routine = "MemoryRead" /\ Arg = CallAt(Now, Done).arg
  BY <1>1, CallStep DEF TracerInv
<1>3. Done \in WritesEnd(Now) .. LoadsEnd(Now) - 1 /\ Arg = Now.loads[Done - WritesEnd(Now) + 1]
  BY <1>2, RoutineIs
<1>4. Done > 0 /\ Done < StoresEnd(Now)
  <2>1. 1 <= BranchEnd(Now) /\ BranchEnd(Now) <= ReadsEnd(Now) /\ ReadsEnd(Now) <= WritesEnd(Now)
        /\ WritesEnd(Now) <= LoadsEnd(Now) /\ LoadsEnd(Now) <= StoresEnd(Now) /\ BranchEnd(Now) \in Nat
        /\ ReadsEnd(Now) \in Nat /\ WritesEnd(Now) \in Nat /\ LoadsEnd(Now) \in Nat /\ StoresEnd(Now) \in Nat
    BY <1>2, EndsAre
  <2>2. Done \in Nat /\ WritesEnd(Now) <= Done /\ Done <= LoadsEnd(Now) - 1
    BY <1>2, <1>3, <2>1
  <2>. QED BY ONLY <2>1, <2>2
<1>5. Partial(Now, Done + 1) = [Partial(Now, Done) EXCEPT !["source_memory"] = Listed(@, Arg)]
  <2>1. \A d \in WritesEnd(Now) .. LoadsEnd(Now) - 1 : Partial(Now, d + 1) =
           [Partial(Now, d) EXCEPT !["source_memory"] = Listed(@, Now.loads[d - WritesEnd(Now) + 1])]
    BY <1>2, LoadPartial
  <2>. QED BY <1>3, <2>1
<1>6. tracing_on /\ curr_instr = Partial(Now, Done) => curr_instr' = Partial(Now, Done + 1)
  BY ONLY <1>1, <1>5
<1>. QED BY <1>1, <1>4, <1>6, MiddleStep

LEMMA StoreStep == TracerInv /\ MemoryWrite => TracerInv'
<1>. SUFFICES ASSUME TracerInv, MemoryWrite PROVE TracerInv'
  OBVIOUS
<1>1. /\ Call("MemoryWrite")
      /\ curr_instr' = IF tracing_on THEN [curr_instr EXCEPT !["destination_memory"] = Listed(@, Arg)]
                       ELSE curr_instr
      /\ UNCHANGED <<instrCount, tracing_on, file, exited>>
  BY DEF MemoryWrite, List
<1>2. /\ Now \in Traced /\ Done \in 0 .. StoresEnd(Now)
      /\ CallAt(Now, Done).routine = "MemoryWrite" /\ Arg = CallAt(Now, Done).arg
  BY <1>1, CallStep DEF TracerInv
<1>3. Done \in LoadsEnd(Now) .. StoresEnd(Now) - 1 /\ Arg = Now.stores[Done - LoadsEnd(Now) + 1]
  BY <1>2, RoutineIs
<1>4. Done > 0 /\ Done < StoresEnd(Now)
  <2>1. 1 <= BranchEnd(Now) /\ BranchEnd(Now) <= ReadsEnd(Now) /\ ReadsEnd(Now) <= WritesEnd(Now)
        /\ WritesEnd(Now) <= LoadsEnd(Now) /\ LoadsEnd(Now) <= StoresEnd(Now) /\ BranchEnd(Now) \in Nat
        /\ ReadsEnd(Now) \in Nat /\ WritesEnd(Now) \in Nat /\ LoadsEnd(Now) \in Nat /\ StoresEnd(Now) \in Nat
    BY <1>2, EndsAre
  <2>2. Done \in Nat /\ LoadsEnd(Now) <= Done /\ Done <= StoresEnd(Now) - 1
    BY <1>2, <1>3, <2>1
  <2>. QED BY ONLY <2>1, <2>2
<1>5. Partial(Now, Done + 1) = [Partial(Now, Done) EXCEPT !["destination_memory"] = Listed(@, Arg)]
  <2>1. \A d \in LoadsEnd(Now) .. StoresEnd(Now) - 1 : Partial(Now, d + 1) =
           [Partial(Now, d) EXCEPT !["destination_memory"] = Listed(@, Now.stores[d - LoadsEnd(Now) + 1])]
    BY <1>2, StorePartial
  <2>. QED BY <1>3, <2>1
<1>6. tracing_on /\ curr_instr = Partial(Now, Done) => curr_instr' = Partial(Now, Done + 1)
  BY ONLY <1>1, <1>5
<1>. QED BY <1>1, <1>4, <1>6, MiddleStep

\* One record more.
LEMMA OneMore ==
  ASSUME NEW w \in Nat, NEW f, f = [n \in 1 .. w |-> RecordOf(program[SkipInstructions + n])],
         NEW x, x = RecordOf(program[SkipInstructions + (w + 1)])
  PROVE  Append(f, x) = [n \in 1 .. w + 1 |-> RecordOf(program[SkipInstructions + n])]
<1>. DEFINE S == {f[n] : n \in 1 .. w} \cup {x}
<1>1. f \in [1 .. w -> S] /\ x \in S
  OBVIOUS
<1>. HIDE DEF S
<1>2. f \in Seq(S) /\ Len(f) = w
  BY <1>1
<1>3. Append(f, x) = [n \in 1 .. w + 1 |-> IF n = w + 1 THEN x ELSE f[n]]
  BY <1>1, <1>2
<1>4. \A n \in 1 .. w + 1 :
        (IF n = w + 1 THEN x ELSE f[n]) = RecordOf(program[SkipInstructions + n])
  <2>1. \A n \in 1 .. w + 1 : n = w + 1 \/ n \in 1 .. w
    OBVIOUS
  <2>. QED BY <2>1
<1>. QED BY <1>3, <1>4

LEMMA EndStep == TracerInv /\ EndInstruction => TracerInv'
<1>. SUFFICES ASSUME TracerInv, EndInstruction PROVE TracerInv'
  OBVIOUS
<1>1. /\ Call("EndInstruction") /\ instrCount' = instrCount /\ curr_instr' = curr_instr
      /\ instrCount > SkipInstructions =>
           /\ tracing_on' = (instrCount <= LastTraced)
           /\ file' = IF instrCount <= LastTraced THEN Append(file, curr_instr) ELSE file
           /\ exited' = (instrCount > LastTraced)
      /\ ~(instrCount > SkipInstructions) => tracing_on' = tracing_on /\ file' = file /\ exited' = exited
  BY DEF EndInstruction
<1>2. TracerTypes /\ CallsLeft /\ Counted /\ InWindow /\ RecordSoFar /\ FileSoFar
  BY DEF TracerInv
<1>3. /\ calls # <<>> /\ Now \in Traced /\ ran \in 1 .. Len(program)
      /\ Done \in 0 .. StoresEnd(Now) /\ StoresEnd(Now) \in Nat
      /\ CallAt(Now, Done).routine = "EndInstruction"
      /\ program' = program /\ ran' = ran /\ Now' = Now /\ Done' = Done + 1
      /\ calls' \in Seq(Calls) /\ (calls' = <<>> <=> Done = StoresEnd(Now))
      /\ CallsLeft'
  BY <1>1, <1>2, CallStep
<1>4. Done = StoresEnd(Now) /\ calls' = <<>> /\ Done > 0
  <2>1. Done = StoresEnd(Now)
    BY <1>3, RoutineIs
  <2>2. 1 <= BranchEnd(Now) /\ BranchEnd(Now) <= ReadsEnd(Now) /\ ReadsEnd(Now) <= WritesEnd(Now)
        /\ WritesEnd(Now) <= LoadsEnd(Now) /\ LoadsEnd(Now) <= StoresEnd(Now)
        /\ BranchEnd(Now) \in Nat /\ ReadsEnd(Now) \in Nat /\ WritesEnd(Now) \in Nat /\ LoadsEnd(Now) \in Nat
    BY <1>3, EndsAre
  <2>3. StoresEnd(Now) > 0
    BY ONLY <1>3, <2>2
  <2>. QED BY <1>3, <2>1, <2>3
<1>5. /\ instrCount = ran /\ ~exited /\ ran \in Nat /\ ran >= 1 /\ ran <= LastTraced + 1
      /\ tracing_on \in BOOLEAN /\ exited \in BOOLEAN
      /\ tracing_on <=> ran > SkipInstructions /\ ran <= LastTraced
  BY <1>2, <1>3, <1>4 DEF Counted, InWindow, TracerTypes
<1>6. /\ tracing_on' \in BOOLEAN /\ exited' \in BOOLEAN
      /\ ran <= SkipInstructions => ~tracing_on'
      /\ exited' <=> ran > LastTraced
  <2>1. CASE ran > SkipInstructions
    <3>1. CASE ran <= LastTraced
      <4>1. tracing_on' = TRUE
        BY <1>1, <1>5, <2>1, <3>1
      <4>2. tracing_on' /\ tracing_on' \in BOOLEAN
        BY ONLY <4>1
      <4>3. exited' = FALSE
        BY <1>1, <1>5, <2>1, <3>1, KnobsAre
      <4>4. ~exited' /\ exited' \in BOOLEAN
        BY ONLY <4>3
      <4>5. ~(ran <= SkipInstructions) /\ ~(ran > LastTraced)
        BY <1>5, <2>1, <3>1, KnobsAre
      <4>. QED BY ONLY <4>2, <4>4, <4>5
    <3>2. CASE ~(ran <= LastTraced)
      <4>1. tracing_on' = FALSE
        BY <1>1, <1>5, <2>1, <3>2
      <4>2. ~tracing_on' /\ tracing_on' \in BOOLEAN
        BY ONLY <4>1
      <4>3. exited' = TRUE
        <5>1. instrCount > LastTraced /\ instrCount > SkipInstructions
          BY <1>5, <2>1, <3>2, KnobsAre
        <5>. QED BY ONLY <1>1, <5>1
      <4>4. exited' /\ exited' \in BOOLEAN
        BY ONLY <4>3
      <4>5. ~(ran <= SkipInstructions) /\ (ran > LastTraced)
        BY <1>5, <2>1, <3>2, KnobsAre
      <4>. QED BY ONLY <4>2, <4>4, <4>5
    <3>. QED BY <3>1, <3>2
  <2>2. CASE ~(ran > SkipInstructions)
    <3>1. tracing_on' = tracing_on /\ exited' = exited
      BY <1>1, <1>5, <2>2
    <3>2. ~(ran > LastTraced)
      BY <1>5, <2>2, KnobsAre
    <3>. QED BY <1>5, <2>2, <3>1, <3>2
  <2>. QED BY <2>1, <2>2
<1>7. TracerTypes'
  BY <1>1, <1>2, <1>3, <1>6 DEF TracerTypes
<1>8. Counted'
  BY <1>1, <1>3, <1>4, <1>5, <1>6 DEF Counted, LastTraced
<1>9. InWindow' /\ RecordSoFar'
  BY <1>1, <1>4, <1>5, <1>6 DEF InWindow, RecordSoFar
<1>10. FileSoFar'
  <2>1. Over = ran - 1 /\ Over' = ran
    BY <1>3, <1>4 DEF Over
  <2>2. file = [n \in 1 .. Width(ran - 1) |-> RecordOf(program[SkipInstructions + n])]
    BY <1>2, <2>1 DEF FileSoFar
  <2>3. CASE ran > SkipInstructions /\ ran <= LastTraced
    <3>. DEFINE w == ran - 1 - SkipInstructions
    <3>1. w \in Nat /\ Width(ran - 1) = w /\ Width(ran) = w + 1 /\ SkipInstructions + (w + 1) = ran
      BY <1>5, <2>3, KnobsAre DEF Width
    <3>2. file' = Append(file, curr_instr)
      BY <1>1, <1>5, <2>3
    <3>3. curr_instr = RecordOf(program[SkipInstructions + (w + 1)])
      <4>1. curr_instr = Partial(Now, StoresEnd(Now))
        BY <1>2, <1>3, <1>4, <1>5, <2>3 DEF RecordSoFar
      <4>2. Partial(Now, StoresEnd(Now)) = RecordOf(Now)
        BY <1>3, LastPartial
      <4>. QED BY <3>1, <4>1, <4>2 DEF Now
    <3>. HIDE DEF w
    <3>4. file = [n \in 1 .. w |-> RecordOf(program[SkipInstructions + n])]
      BY <2>2, <3>1
    <3>5. file' = [n \in 1 .. w + 1 |-> RecordOf(program[SkipInstructions + n])]
      BY <3>1, <3>2, <3>3, <3>4, OneMore
    <3>6. file' = [n \in 1 .. Width(ran) |-> RecordOf(program[SkipInstructions + n])]
      BY <3>1, <3>5
    <3>. QED BY <1>3, <2>1, <3>6 DEF FileSoFar, Width, LastTraced
  <2>4. CASE ~(ran > SkipInstructions /\ ran <= LastTraced)
    <3>1. file' = file
      BY <1>1, <1>5, <2>4
    <3>2. Width(ran) = Width(ran - 1)
      BY <1>5, <2>4, KnobsAre DEF Width
    <3>3. file' = [n \in 1 .. Width(ran) |-> RecordOf(program[SkipInstructions + n])]
      BY <2>2, <3>1, <3>2
    <3>. QED BY <1>3, <2>1, <3>3 DEF FileSoFar, Width, LastTraced
  <2>. QED BY <2>3, <2>4
<1>. QED BY <1>3, <1>7, <1>8, <1>9, <1>10 DEF TracerInv

LEMMA TracerInductive == PSpec => []TracerInv
<1>1. PInit => TracerInv
  BY TracerInitially
<1>2. TracerInv /\ [PNext]_tracerVars => TracerInv'
  <2>. SUFFICES ASSUME TracerInv, [PNext]_tracerVars PROVE TracerInv'
    OBVIOUS
  <2>1. CASE Execute
    BY <2>1, StartStep
  <2>2. CASE BeginInstruction
    BY <2>2, BeginStep
  <2>3. CASE BranchOrNot
    BY <2>3, BranchStep
  <2>4. CASE RegRead
    BY <2>4, ReadStep
  <2>5. CASE RegWrite
    BY <2>5, WriteStep
  <2>6. CASE MemoryRead
    BY <2>6, LoadStep
  <2>7. CASE MemoryWrite
    BY <2>7, StoreStep
  <2>8. CASE EndInstruction
    BY <2>8, EndStep
  <2>9. CASE UNCHANGED tracerVars
    <3>1. /\ program' = program /\ ran' = ran /\ calls' = calls /\ instrCount' = instrCount
          /\ tracing_on' = tracing_on /\ curr_instr' = curr_instr /\ file' = file /\ exited' = exited
      BY <2>9 DEF tracerVars
    <3>. QED BY <3>1 DEF TracerInv, TracerTypes, CallsLeft, Counted, InWindow, RecordSoFar, FileSoFar,
                         Now, Done, Over, Width, LastTraced
  <2>. QED BY <2>1, <2>2, <2>3, <2>4, <2>5, <2>6, <2>7, <2>8, <2>9 DEF PNext
<1>. QED BY <1>1, <1>2, PTL DEF PSpec

\* TraceIsTheWindow: between instructions the trace of champsim_tracer holds the records of
\* the instructions in the window that KnobSkipInstructions and KnobTraceInstructions ask for,
\* each as if its routines had been called alone.
THEOREM TraceTheorem == PSpec => []TraceIsTheWindow
<1>1. TracerInv => TraceIsTheWindow
  <2>. SUFFICES ASSUME TracerInv, calls = <<>> PROVE
      file = [n \in 1 .. IF ran <= SkipInstructions THEN 0
                         ELSE IF exited THEN TraceInstructions
                         ELSE ran - SkipInstructions |->
                RecordOf(program[SkipInstructions + n])]
    BY DEF TraceIsTheWindow
  <2>1. file = [n \in 1 .. Width(ran) |-> RecordOf(program[SkipInstructions + n])]
    BY DEF TracerInv, FileSoFar, Over
  <2>2. exited <=> ran > LastTraced
    BY DEF TracerInv, Counted
  <2>3. Width(ran) = IF ran <= SkipInstructions THEN 0
                     ELSE IF exited THEN TraceInstructions ELSE ran - SkipInstructions
    BY <2>2 DEF Width
  <2>. QED BY <2>1, <2>3
<1>. QED BY <1>1, TracerInductive, PTL

-----------------------------------------------------------------------------
(* CACTI's search for a cache: sorting.                                    *)

\* R orders S strictly and totally.
Orders(R, S) ==
  /\ \A x \in S : <<x, x>> \notin R
  /\ \A x, y \in S : x # y => <<x, y>> \in R \/ <<y, x>> \in R
  /\ \A x, y, z \in S : <<x, y>> \in R /\ <<y, z>> \in R => <<x, z>> \in R
Befores(R, S, x) == {y \in S : <<y, x>> \in R}
SortedBy(R, S) ==
  [i \in 1 .. Cardinality(S) |-> CHOOSE x \in S : 1 + Cardinality(Befores(R, S, x)) = i]

\* Each element of S is once in the list, and none comes before a lesser one.
ListsInOrder(list, R, S) ==
  /\ list \in Seq(S) /\ Len(list) = Cardinality(S)
  /\ \A x \in S : \E i \in 1 .. Len(list) : list[i] = x
  /\ \A i, j \in 1 .. Len(list) : i < j => <<list[j], list[i]>> \notin R

LEMMA SortedIs ==
  ASSUME NEW S, IsFiniteSet(S), NEW R, Orders(R, S)
  PROVE  ListsInOrder(SortedBy(R, S), R, S)
<1>. DEFINE c == Cardinality(S)
            B(x) == Befores(R, S, x)
            r == [x \in S |-> 1 + Cardinality(B(x))]
            list == SortedBy(R, S)
<1>1. c \in Nat
  BY FS_CardinalityType
<1>2. ASSUME NEW x \in S
      PROVE  IsFiniteSet(B(x)) /\ Cardinality(B(x)) \in Nat /\ Cardinality(B(x)) <= c
             /\ Cardinality(B(x)) # c
  <2>1. B(x) \subseteq S /\ x \notin B(x)
    BY DEF Befores, Orders
  <2>2. IsFiniteSet(B(x)) /\ Cardinality(B(x)) <= c /\ (c = Cardinality(B(x)) => S = B(x))
    BY <2>1, FS_Subset
  <2>. QED BY <2>1, <2>2, FS_CardinalityType
<1>3. ASSUME NEW x \in S PROVE r[x] \in 1 .. c
  BY <1>1, <1>2
<1>4. ASSUME NEW x \in S, NEW y \in S, <<x, y>> \in R PROVE r[x] < r[y]
  <2>1. B(x) \subseteq B(y) /\ x \in B(y) /\ x \notin B(x)
    BY <1>4 DEF Befores, Orders
  <2>2. /\ Cardinality(B(x)) <= Cardinality(B(y))
        /\ Cardinality(B(x)) # Cardinality(B(y))
    BY <1>2, <2>1, FS_Subset
  <2>. QED BY <1>2, <2>2
<1>5. r \in Injection(S, 1 .. c)
  <2>1. r \in [S -> 1 .. c]
    BY <1>3
  <2>2. \A x, y \in S : r[x] = r[y] => x = y
    <3>1. SUFFICES ASSUME NEW x \in S, NEW y \in S, x # y PROVE r[x] # r[y]
      OBVIOUS
    <3>2. <<x, y>> \in R \/ <<y, x>> \in R
      BY <3>1 DEF Orders
    <3>3. r[x] \in 1 .. c /\ r[y] \in 1 .. c /\ (r[x] < r[y] \/ r[y] < r[x])
      BY <1>3, <1>4, <3>2
    <3>. HIDE DEF r, c
    <3>. QED BY <1>1, <3>3
  <2>. QED BY <2>1, <2>2 DEF Injection, IsInjective
<1>6. IsFiniteSet(1 .. c) /\ Cardinality(1 .. c) = c
  BY <1>1, FS_Interval
<1>7. r \in Surjection(S, 1 .. c)
  BY <1>5, <1>6, FS_Injection
<1>8. \A x \in S : r[x] = 1 + Cardinality(B(x))
  OBVIOUS
<1>9. list = [i \in 1 .. c |-> CHOOSE x \in S : 1 + Cardinality(B(x)) = i]
  BY DEF SortedBy
<1>10. ASSUME NEW i \in 1 .. c PROVE list[i] \in S /\ r[list[i]] = i
  <2>1. \E x \in S : 1 + Cardinality(B(x)) = i
    BY <1>7, <1>8 DEF Surjection
  <2>2. list[i] = CHOOSE x \in S : 1 + Cardinality(B(x)) = i
    BY <1>9
  <2>. HIDE DEF list, r, B
  <2>. QED BY <1>8, <2>1, <2>2
<1>. HIDE DEF list, r, B
<1>11. list \in Seq(S) /\ Len(list) = c
  <2>1. list \in [1 .. c -> S]
    BY <1>9, <1>10
  <2>. QED BY ONLY <1>1, <2>1
<1>12. ASSUME NEW x \in S PROVE \E i \in 1 .. Len(list) : list[i] = x
  <2>1. r[x] \in 1 .. c
    BY <1>3
  <2>2. list[r[x]] \in S /\ r[list[r[x]]] = r[x]
    BY <1>10, <2>1
  <2>3. list[r[x]] = x
    BY <1>5, <2>2 DEF Injection, IsInjective
  <2>. QED BY <1>11, <2>1, <2>3
<1>13. ASSUME NEW i \in 1 .. Len(list), NEW j \in 1 .. Len(list), i < j
       PROVE  <<list[j], list[i]>> \notin R
  <2>1. i \in 1 .. c /\ j \in 1 .. c
    BY <1>11
  <2>2. list[i] \in S /\ r[list[i]] = i /\ list[j] \in S /\ r[list[j]] = j
    BY <1>10, <2>1
  <2>3. <<list[j], list[i]>> \in R => j < i
    BY <1>4, <2>2
  <2>. QED BY <1>1, <1>13, <2>1, <2>3
<1>. QED BY <1>11, <1>12, <1>13 DEF ListsInOrder, list

\* A finite set of numbers has a least and a greatest element.
LEMMA FiniteHasBounds ==
  ASSUME NEW S, S \subseteq Int, IsFiniteSet(S), S # {}
  PROVE  Min(S) \in S /\ Max(S) \in S /\ \A x \in S : Min(S) <= x /\ x <= Max(S)
<1>. DEFINE c == Cardinality(S)
            lt == {p \in S \X S : p[1] < p[2]}
            list == SortedBy(lt, S)
<1>1. Orders(lt, S)
  BY DEF Orders
<1>2. ListsInOrder(list, lt, S)
  BY <1>1, SortedIs
<1>3. /\ list \in Seq(S) /\ Len(list) = c
      /\ \A x \in S : \E i \in 1 .. Len(list) : list[i] = x
      /\ \A i, j \in 1 .. Len(list) : i < j => <<list[j], list[i]>> \notin lt
  BY <1>2 DEF ListsInOrder
<1>. HIDE DEF list
<1>4. c \in Nat /\ c # 0
  BY FS_CardinalityType, FS_EmptySet
<1>. HIDE DEF c
<1>5. \A i, j \in 1 .. c : i < j => ~(list[j] < list[i])
  <2>1. \A i \in 1 .. c : list[i] \in S
    BY <1>3
  <2>. QED BY <1>3, <2>1
<1>6. list[1] \in S /\ list[c] \in S
  BY <1>3, <1>4
<1>7. \A x \in S : list[1] <= x /\ x <= list[c]
  <2>1. SUFFICES ASSUME NEW x \in S PROVE list[1] <= x /\ x <= list[c]
    OBVIOUS
  <2>2. PICK i \in 1 .. c : list[i] = x
    BY <1>3
  <2>3. x \in Int /\ list[1] \in Int /\ list[c] \in Int
    BY <1>6
  <2>4. ~(x < list[1]) /\ ~(list[c] < x)
    <3>1. CASE i = 1 /\ i = c
      BY <2>2, <2>3, <3>1
    <3>2. CASE i = 1 /\ i # c
      BY <1>4, <1>5, <2>2, <2>3, <3>2
    <3>3. CASE i # 1 /\ i = c
      BY <1>4, <1>5, <2>2, <2>3, <3>3
    <3>4. CASE i # 1 /\ i # c
      BY <1>4, <1>5, <2>2, <2>3, <3>4
    <3>. QED BY <3>1, <3>2, <3>3, <3>4
  <2>. QED BY ONLY <2>3, <2>4
<1>8. (\E x \in S : \A y \in S : x =< y) /\ (\E x \in S : \A y \in S : x >= y)
  <2>1. \A x \in S : list[c] >= x
    BY <1>6, <1>7
  <2>. QED BY <1>6, <1>7, <2>1
<1>9. Min(S) \in S /\ \A y \in S : Min(S) =< y
  BY <1>8 DEF Min
<1>10. Max(S) \in S /\ \A y \in S : Max(S) >= y
  BY <1>8 DEF Max
<1>11. Max(S) \in Int /\ \A y \in S : y \in Int
  BY <1>10
<1>. QED BY <1>9, <1>10, <1>11

LoopRel(S) == {p \in S \X S : LoopOrder(p[1], p[2])}
MergeRel(S) == {p \in S \X S : MergeOrder(p[1], p[2])}

LEMMA SortedLoops ==
  ASSUME NEW S
  PROVE  Sorted(S, LoopOrder) = SortedBy(LoopRel(S), S)
<1>1. ASSUME NEW x \in S
      PROVE  {y \in S : LoopOrder(y, x)} = Befores(LoopRel(S), S, x)
  BY DEF Befores, LoopRel
<1>. DEFINE place == [x \in S |-> 1 + Cardinality({y \in S : LoopOrder(y, x)})]
<1>2. \A x \in S : place[x] = 1 + Cardinality(Befores(LoopRel(S), S, x))
  BY <1>1
<1>3. Sorted(S, LoopOrder) = [i \in 1 .. Cardinality(S) |-> CHOOSE x \in S : place[x] = i]
  BY DEF Sorted
<1>. HIDE DEF place
<1>4. ASSUME NEW i
      PROVE  (CHOOSE x \in S : place[x] = i)
             = CHOOSE x \in S : 1 + Cardinality(Befores(LoopRel(S), S, x)) = i
  BY ONLY <1>2, Zenon
<1>5. SortedBy(LoopRel(S), S) =
        [i \in 1 .. Cardinality(S) |-> CHOOSE x \in S : 1 + Cardinality(Befores(LoopRel(S), S, x)) = i]
  BY DEF SortedBy
<1>. DEFINE here(i) == CHOOSE x \in S : place[x] = i
            there(i) == CHOOSE x \in S : 1 + Cardinality(Befores(LoopRel(S), S, x)) = i
<1>6. \A i : here(i) = there(i)
  BY <1>4
<1>7. Sorted(S, LoopOrder) = [i \in 1 .. Cardinality(S) |-> here(i)]
      /\ SortedBy(LoopRel(S), S) = [i \in 1 .. Cardinality(S) |-> there(i)]
  BY <1>3, <1>5
<1>. HIDE DEF here, there
<1>. QED BY ONLY <1>6, <1>7

LEMMA SortedMerge ==
  ASSUME NEW S
  PROVE  Sorted(S, MergeOrder) = SortedBy(MergeRel(S), S)
<1>1. ASSUME NEW x \in S
      PROVE  {y \in S : MergeOrder(y, x)} = Befores(MergeRel(S), S, x)
  BY DEF Befores, MergeRel
<1>. DEFINE place == [x \in S |-> 1 + Cardinality({y \in S : MergeOrder(y, x)})]
<1>2. \A x \in S : place[x] = 1 + Cardinality(Befores(MergeRel(S), S, x))
  BY <1>1
<1>3. Sorted(S, MergeOrder) = [i \in 1 .. Cardinality(S) |-> CHOOSE x \in S : place[x] = i]
  BY DEF Sorted
<1>. HIDE DEF place
<1>4. ASSUME NEW i
      PROVE  (CHOOSE x \in S : place[x] = i)
             = CHOOSE x \in S : 1 + Cardinality(Befores(MergeRel(S), S, x)) = i
  BY ONLY <1>2, Zenon
<1>5. SortedBy(MergeRel(S), S) =
        [i \in 1 .. Cardinality(S) |-> CHOOSE x \in S : 1 + Cardinality(Befores(MergeRel(S), S, x)) = i]
  BY DEF SortedBy
<1>. DEFINE here(i) == CHOOSE x \in S : place[x] = i
            there(i) == CHOOSE x \in S : 1 + Cardinality(Befores(MergeRel(S), S, x)) = i
<1>6. \A i : here(i) = there(i)
  BY <1>4
<1>7. Sorted(S, MergeOrder) = [i \in 1 .. Cardinality(S) |-> here(i)]
      /\ SortedBy(MergeRel(S), S) = [i \in 1 .. Cardinality(S) |-> there(i)]
  BY <1>3, <1>5
<1>. HIDE DEF here, there
<1>. QED BY ONLY <1>6, <1>7

-----------------------------------------------------------------------------
(* The lists of work.                                                      *)

Kinds == {"tag", "data"}
\* The organisations of a thread, and what it may find.
Share(t) == {o \in Org : o.iter % nthreads = t}
Find == [org : Org, by : Thread]

LEMMA SearchConstants ==
  /\ nthreads \in Nat /\ nthreads > 0 /\ niter \in Nat /\ niter > 0
  /\ \A t : t \in Thread <=> t \in Int /\ 0 <= t /\ t < nthreads
  /\ Thread \subseteq Int
BY SearchAssumption DEF Thread

LEMMA OrgIs ==
  ASSUME NEW o \in Org
  PROVE  /\ o.nspd \in Int /\ o.wr \in Int /\ o.iter \in Int /\ 0 <= o.iter /\ o.iter < niter
         /\ o.nspd \in Nspd /\ o.wr \in Wire
         /\ o = [nspd |-> o.nspd, wr |-> o.wr, iter |-> o.iter]
<1>1. o.nspd \in Nspd /\ o.wr \in Wire /\ o.iter \in 0 .. niter - 1
      /\ o = [nspd |-> o.nspd, wr |-> o.wr, iter |-> o.iter]
  BY DEF Org
<1>2. Nspd \subseteq Int /\ Wire \subseteq Int
  BY ArrayAssumption
<1>. QED BY <1>1, <1>2, SearchConstants

LEMMA SameOrg ==
  ASSUME NEW o \in Org, NEW p \in Org, o.nspd = p.nspd, o.wr = p.wr, o.iter = p.iter
  PROVE  o = p
BY DEF Org

LEMMA OrgIsFinite == IsFiniteSet(Org)
<1>. DEFINE I == 0 .. niter - 1
            P == (Nspd \X Wire) \X I
            f == [p \in P |-> [nspd |-> p[1][1], wr |-> p[1][2], iter |-> p[2]]]
<1>1. IsFiniteSet(I)
  BY SearchConstants, FS_Interval
<1>2. IsFiniteSet(Nspd \X Wire)
  BY ArrayAssumption, FS_Product
<1>3. IsFiniteSet(P)
  BY <1>1, <1>2, FS_Product
<1>4. f \in [P -> Org]
  BY DEF Org
<1>5. ASSUME NEW o \in Org PROVE \E p \in P : f[p] = o
  <2>1. o.nspd \in Nspd /\ o.wr \in Wire /\ o.iter \in I
        /\ o = [nspd |-> o.nspd, wr |-> o.wr, iter |-> o.iter]
    BY DEF Org
  <2>2. <<<<o.nspd, o.wr>>, o.iter>> \in P
    BY <2>1
  <2>3. f[<<<<o.nspd, o.wr>>, o.iter>>] = o
    BY <2>1, <2>2
  <2>. QED BY <2>2, <2>3
<1>6. f \in Surjection(P, Org)
  BY <1>4, <1>5 DEF Surjection
<1>. QED BY <1>3, <1>6, FS_Surjection

LEMMA FindIsFinite == IsFiniteSet(Find)
<1>. DEFINE P == Org \X Thread
            f == [p \in P |-> [org |-> p[1], by |-> p[2]]]
<1>1. IsFiniteSet(Thread)
  BY SearchConstants, FS_Interval DEF Thread
<1>2. IsFiniteSet(P)
  BY <1>1, OrgIsFinite, FS_Product
<1>3. f \in [P -> Find]
  BY DEF Find
<1>4. ASSUME NEW a \in Find PROVE \E p \in P : f[p] = a
  <2>1. a.org \in Org /\ a.by \in Thread /\ a = [org |-> a.org, by |-> a.by]
    BY DEF Find
  <2>2. <<a.org, a.by>> \in P
    BY <2>1
  <2>3. f[<<a.org, a.by>>] = a
    BY <2>1, <2>2
  <2>. QED BY <2>2, <2>3
<1>5. f \in Surjection(P, Find)
  BY <1>3, <1>4 DEF Surjection
<1>. QED BY <1>2, <1>5, FS_Surjection

LEMMA LoopsOrder == ASSUME NEW S, S \subseteq Org PROVE Orders(LoopRel(S), S)
<1>1. ASSUME NEW x \in S PROVE <<x, x>> \notin LoopRel(S)
  BY OrgIs DEF LoopRel, LoopOrder
<1>2. ASSUME NEW x \in S, NEW y \in S, x # y
      PROVE  <<x, y>> \in LoopRel(S) \/ <<y, x>> \in LoopRel(S)
  <2>1. x.nspd # y.nspd \/ x.wr # y.wr \/ x.iter # y.iter
    BY <1>2, SameOrg
  <2>2. LoopOrder(x, y) \/ LoopOrder(y, x)
    BY <2>1, OrgIs DEF LoopOrder
  <2>. QED BY <2>2 DEF LoopRel
<1>3. ASSUME NEW x \in S, NEW y \in S, NEW z \in S, <<x, y>> \in LoopRel(S), <<y, z>> \in LoopRel(S)
      PROVE  <<x, z>> \in LoopRel(S)
  <2>1. LoopOrder(x, y) /\ LoopOrder(y, z)
    BY <1>3 DEF LoopRel
  <2>2. LoopOrder(x, z)
    BY <2>1, OrgIs DEF LoopOrder
  <2>. QED BY <2>2 DEF LoopRel
<1>. QED BY <1>1, <1>2, <1>3 DEF Orders

\* A thread has its share, each organisation once.
LEMMA WorkIs ==
  ASSUME NEW t \in Thread
  PROVE  /\ Work(t) \in Seq(Org) /\ \A k \in 1 .. Len(Work(t)) : Work(t)[k] \in Share(t)
         /\ \A o \in Share(t) : \E k \in 1 .. Len(Work(t)) : Work(t)[k] = o
<1>. DEFINE S == Share(t)
<1>1. S \subseteq Org /\ IsFiniteSet(S)
  BY OrgIsFinite, FS_Subset DEF Share
<1>2. Work(t) = Sorted(S, LoopOrder)
  BY DEF Work, WorkOf, Share
<1>3. Work(t) = SortedBy(LoopRel(S), S)
  BY <1>2, SortedLoops
<1>4. ListsInOrder(Work(t), LoopRel(S), S)
  BY <1>1, <1>3, LoopsOrder, SortedIs
<1>5. Work(t) \in Seq(S) /\ \A o \in S : \E k \in 1 .. Len(Work(t)) : Work(t)[k] = o
  BY <1>4 DEF ListsInOrder
<1>. HIDE DEF S
<1>6. Work(t) \in Seq(Org) /\ \A k \in 1 .. Len(Work(t)) : Work(t)[k] \in S
  BY <1>1, <1>5
<1>. QED BY <1>5, <1>6 DEF S

-----------------------------------------------------------------------------
(* Merging.                                                                *)

LEMMA FindIs ==
  ASSUME NEW a \in Find
  PROVE  a.org \in Org /\ a.by \in Int /\ a.by \in Thread /\ a = [org |-> a.org, by |-> a.by]
BY SearchConstants DEF Find

\* Of two finds the one of the shorter row is first, then the one of the lesser number,
\* then the one of the lesser thread, and at last the one of the lesser wire type.
Precedes(a, b) ==
  \/ a.org.nspd < b.org.nspd
  \/ /\ a.org.nspd = b.org.nspd
     /\ \/ a.org.iter < b.org.iter
        \/ /\ a.org.iter = b.org.iter
           /\ a.by < b.by \/ (a.by = b.by /\ a.org.wr < b.org.wr)

LEMMA MergePrecedes ==
  ASSUME NEW a \in Find, NEW b \in Find
  PROVE  MergeOrder(a, b) <=> Precedes(a, b)
<1>. DEFINE n == a.org.nspd
            i == a.org.iter
            w == a.org.wr
            x == a.by
            m == b.org.nspd
            j == b.org.iter
            v == b.org.wr
            y == b.by
<1>1. n \in Int /\ i \in Int /\ w \in Int /\ x \in Int /\ m \in Int /\ j \in Int /\ v \in Int /\ y \in Int
  BY FindIs, OrgIs
<1>2. MergeOrder(a, b) <=>
        \/ n < m \/ (n = m /\ i < j)
        \/ /\ ~(m < n \/ (m = n /\ j < i))
           /\ x < y \/ (x = y /\ (n < m \/ (n = m /\ w < v) \/ (n = m /\ w = v /\ i < j)))
  BY DEF MergeOrder, Lt, LoopOrder
<1>3. Precedes(a, b) <=>
        n < m \/ (n = m /\ (i < j \/ (i = j /\ (x < y \/ (x = y /\ w < v)))))
  BY DEF Precedes
<1>. HIDE DEF n, i, w, x, m, j, v, y
<1>. QED BY ONLY <1>1, <1>2, <1>3

LEMMA MergeOrders == ASSUME NEW S, S \subseteq Find PROVE Orders(MergeRel(S), S)
<1>1. ASSUME NEW x \in S, NEW y \in S
      PROVE  <<x, y>> \in MergeRel(S) <=> Precedes(x, y)
  BY MergePrecedes DEF MergeRel
<1>2. ASSUME NEW x \in S PROVE ~Precedes(x, x)
  BY FindIs, OrgIs DEF Precedes
<1>3. ASSUME NEW x \in S, NEW y \in S, x # y PROVE Precedes(x, y) \/ Precedes(y, x)
  <2>1. x \in Find /\ y \in Find
    OBVIOUS
  <2>2. x.org # y.org \/ x.by # y.by
    BY <1>3, <2>1, FindIs
  <2>3. x.org.nspd # y.org.nspd \/ x.org.wr # y.org.wr \/ x.org.iter # y.org.iter \/ x.by # y.by
    BY <2>1, <2>2, FindIs, SameOrg
  <2>4. /\ x.org.nspd \in Int /\ x.org.wr \in Int /\ x.org.iter \in Int /\ x.by \in Int
        /\ y.org.nspd \in Int /\ y.org.wr \in Int /\ y.org.iter \in Int /\ y.by \in Int
    BY <2>1, FindIs, OrgIs
  <2>. QED BY ONLY <2>3, <2>4 DEF Precedes
<1>4. ASSUME NEW x \in S, NEW y \in S, NEW z \in S, Precedes(x, y), Precedes(y, z)
      PROVE  Precedes(x, z)
  <2>1. x \in Find /\ y \in Find /\ z \in Find
    OBVIOUS
  <2>2. /\ x.org.nspd \in Int /\ x.org.wr \in Int /\ x.org.iter \in Int /\ x.by \in Int
        /\ y.org.nspd \in Int /\ y.org.wr \in Int /\ y.org.iter \in Int /\ y.by \in Int
        /\ z.org.nspd \in Int /\ z.org.wr \in Int /\ z.org.iter \in Int /\ z.by \in Int
    BY <2>1, FindIs, OrgIs
  <2>. QED BY ONLY <1>4, <2>2 DEF Precedes
<1>. QED BY <1>1, <1>2, <1>3, <1>4 DEF Orders

LEMMA MergeIs ==
  ASSUME NEW S, S \subseteq Find, IsFiniteSet(S)
  PROVE  /\ Sorted(S, MergeOrder) \in Seq(S) /\ Len(Sorted(S, MergeOrder)) = Cardinality(S)
         /\ \A x \in S : \E i \in 1 .. Cardinality(S) : Sorted(S, MergeOrder)[i] = x
         /\ \A i, j \in 1 .. Cardinality(S) :
              i < j => ~Lt(Sorted(S, MergeOrder)[j], Sorted(S, MergeOrder)[i])
<1>. DEFINE list == Sorted(S, MergeOrder)
<1>1. ListsInOrder(list, MergeRel(S), S)
  BY SortedMerge, MergeOrders, SortedIs
<1>2. /\ list \in Seq(S) /\ Len(list) = Cardinality(S)
      /\ \A x \in S : \E i \in 1 .. Len(list) : list[i] = x
      /\ \A i, j \in 1 .. Len(list) : i < j => <<list[j], list[i]>> \notin MergeRel(S)
  BY <1>1 DEF ListsInOrder
<1>. HIDE DEF list
<1>3. \A i \in 1 .. Len(list) : list[i] \in S
  BY <1>2
<1>4. ASSUME NEW x \in S, NEW y \in S, Lt(x, y) PROVE <<x, y>> \in MergeRel(S)
  BY <1>4 DEF MergeRel, MergeOrder
<1>5. ASSUME NEW i \in 1 .. Len(list), NEW j \in 1 .. Len(list), i < j
      PROVE  ~Lt(list[j], list[i])
  BY <1>2, <1>3, <1>4, <1>5
<1>. QED BY <1>2, <1>5 DEF list

-----------------------------------------------------------------------------
(* The least of each measure.                                              *)

LEMMA MinIs ==
  ASSUME NEW S, S \subseteq Nat, NEW x \in S, \A y \in S : x <= y
  PROVE  Min(S) = x
<1>1. \A y \in S : x =< y
  OBVIOUS
<1>2. Min(S) \in S /\ \A y \in S : Min(S) =< y
  BY <1>1 DEF Min
<1>3. Min(S) <= x /\ x <= Min(S) /\ Min(S) \in Nat /\ x \in Nat
  BY <1>1, <1>2
<1>. HIDE DEF Min
<1>. QED BY ONLY <1>3

\* Of a measure.
Valued(S, f) == {a[f] : a \in S} \cup {BIGNUM}
Natural(S) == \A a \in S : \A f \in Measure : a[f] \in Nat

LEMMA LowestIs ==
  ASSUME NEW S, Natural(S)
  PROVE  /\ Lowest(S) \in [Measure -> Nat]
         /\ \A f \in Measure : /\ Lowest(S)[f] \in Valued(S, f)
                               /\ \A x \in Valued(S, f) : Lowest(S)[f] <= x
<1>1. ASSUME NEW f \in Measure
      PROVE  /\ Lowest(S)[f] \in Nat /\ Lowest(S)[f] \in Valued(S, f)
             /\ \A x \in Valued(S, f) : Lowest(S)[f] <= x
  <2>1. Valued(S, f) \subseteq Nat /\ BIGNUM \in Valued(S, f)
    BY BignumAssumption DEF Valued, Natural
  <2>2. PICK x \in Valued(S, f) : \A y \in Valued(S, f) : x <= y
    BY <2>1, LeastOf
  <2>3. Lowest(S)[f] = Min(Valued(S, f))
    BY DEF Lowest, Valued
  <2>4. Lowest(S)[f] = x
    BY <2>1, <2>2, <2>3, MinIs
  <2>. QED BY <2>1, <2>2, <2>4
<1>2. Lowest(S) = [f \in Measure |-> Lowest(S)[f]]
  BY DEF Lowest
<1>. QED BY <1>1, <1>2

\* What lowest values are, whatever they are computed from.
LEMMA IsLowest ==
  ASSUME NEW S, Natural(S), NEW l \in [Measure -> Nat],
         \A f \in Measure : l[f] \in Valued(S, f) /\ \A x \in Valued(S, f) : l[f] <= x
  PROVE  l = Lowest(S)
<1>1. ASSUME NEW f \in Measure PROVE l[f] = Lowest(S)[f]
  <2>1. /\ Lowest(S)[f] \in Nat /\ l[f] \in Nat
        /\ Lowest(S)[f] <= l[f] /\ l[f] <= Lowest(S)[f]
    BY LowestIs
  <2>. QED BY ONLY <2>1
<1>2. l \in [Measure -> Nat] /\ Lowest(S) \in [Measure -> Nat]
  BY LowestIs
<1>. QED BY ONLY <1>1, <1>2

LEMMA LowestOfNone == Lowest({}) = Unset
<1>1. Natural({})
  BY DEF Natural
<1>2. Unset \in [Measure -> Nat]
  BY BignumAssumption DEF Unset
<1>3. \A f \in Measure : Valued({}, f) = {BIGNUM} /\ Unset[f] = BIGNUM
  BY DEF Valued, Unset
<1>4. \A f \in Measure : Unset[f] \in Valued({}, f) /\ \A x \in Valued({}, f) : Unset[f] <= x
  BY <1>3, BignumAssumption
<1>. QED BY <1>1, <1>2, <1>4, IsLowest

LEMMA LowestOfOneMore ==
  ASSUME NEW S, Natural(S), NEW m, \A f \in Measure : m[f] \in Nat
  PROVE  Natural(S \cup {m}) /\ Lower(Lowest(S), m) = Lowest(S \cup {m})
<1>. DEFINE l == Lower(Lowest(S), m)
<1>1. Natural(S \cup {m})
  BY DEF Natural
<1>2. ASSUME NEW f \in Measure
      PROVE  /\ l[f] \in Nat /\ l[f] \in Valued(S \cup {m}, f)
             /\ \A x \in Valued(S \cup {m}, f) : l[f] <= x
  <2>. DEFINE a == Lowest(S)[f]
              b == m[f]
              c == l[f]
  <2>1. a \in Nat /\ b \in Nat /\ a \in Valued(S, f) /\ \A x \in Valued(S, f) : a <= x
    BY LowestIs
  <2>2. Valued(S \cup {m}, f) = Valued(S, f) \cup {b}
    BY DEF Valued
  <2>3. c = IF a > b THEN b ELSE a
    BY DEF Lower
  <2>4. Valued(S, f) \subseteq Nat
    BY BignumAssumption DEF Valued, Natural
  <2>. HIDE DEF a, b, c
  <2>5. c \in Nat /\ c \in Valued(S, f) \cup {b} /\ \A x \in Valued(S, f) \cup {b} : c <= x
    BY ONLY <2>1, <2>3, <2>4
  <2>. QED BY <2>2, <2>5 DEF c
<1>3. l = [f \in Measure |-> l[f]]
  BY DEF Lower
<1>. HIDE DEF l
<1>4. l \in [Measure -> Nat]
  BY <1>2, <1>3
<1>5. l = Lowest(S \cup {m})
  BY <1>1, <1>2, <1>4, IsLowest
<1>. QED BY <1>1, <1>5 DEF l

\* The least of the least of parts.
LEMMA LowestOfParts ==
  ASSUME NEW T, NEW part, NEW S, Natural(S), \A t \in T : part[t] \subseteq S,
         \A a \in S : \E t \in T : a \in part[t]
  PROVE  Lowest({Lowest(part[t]) : t \in T}) = Lowest(S)
<1>. DEFINE L == {Lowest(part[t]) : t \in T}
            l == Lowest(S)
<1>1. \A t \in T : Natural(part[t])
  BY DEF Natural
<1>2. Natural(L)
  BY <1>1, LowestIs DEF Natural
<1>3. l \in [Measure -> Nat]
  BY LowestIs
<1>4. ASSUME NEW f \in Measure
      PROVE  l[f] \in Valued(L, f) /\ \A x \in Valued(L, f) : l[f] <= x
  <2>1. l[f] \in Valued(S, f) /\ \A x \in Valued(S, f) : l[f] <= x
    BY LowestIs
  <2>2. ASSUME NEW t \in T PROVE l[f] <= Lowest(part[t])[f]
    <3>1. Lowest(part[t])[f] \in Valued(part[t], f)
      BY <1>1, LowestIs
    <3>2. Valued(part[t], f) \subseteq Valued(S, f)
      BY DEF Valued
    <3>. QED BY <2>1, <3>1, <3>2
  <2>3. \A x \in Valued(L, f) : l[f] <= x
    BY <2>1, <2>2 DEF Valued
  <2>4. CASE l[f] = BIGNUM
    BY <2>3, <2>4 DEF Valued
  <2>5. CASE l[f] # BIGNUM
    <3>1. PICK a \in S : l[f] = a[f]
      BY <2>1, <2>5 DEF Valued
    <3>2. PICK t \in T : a \in part[t]
      BY <3>1
    <3>3. a[f] \in Valued(part[t], f)
      BY <3>2 DEF Valued
    <3>4. Lowest(part[t])[f] <= a[f] /\ Lowest(part[t])[f] \in Nat
      BY <1>1, <3>3, LowestIs
    <3>5. l[f] <= Lowest(part[t])[f] /\ l[f] \in Nat
      BY <1>3, <2>2
    <3>6. l[f] = Lowest(part[t])[f]
      BY <3>1, <3>4, <3>5
    <3>7. Lowest(part[t])[f] \in Valued(L, f)
      BY DEF Valued
    <3>. QED BY <2>3, <3>6, <3>7
  <2>. QED BY <2>4, <2>5
<1>. QED BY <1>2, <1>3, <1>4, IsLowest

-----------------------------------------------------------------------------
(* The threads.                                                            *)

ValidIn(kind, S) == {o \in S : evaluation[kind][o] # Invalid}
Values(kind, S) == {evaluation[kind][o] : o \in ValidIn(kind, S)}
FoundOf(t, S) == {[org |-> o, by |-> t] : o \in S}
\* What a thread is done with.
Seen(t) == {Work(t)[k] : k \in 1 .. pos[t] - 1}

SearchTypes ==
  /\ evaluation \in Evaluation
  /\ pos \in [Thread -> Nat \ {0}]
  /\ \A t \in Thread : pos[t] <= Len(Work(t)) + 1
  /\ found \in [Thread -> [Kinds -> Seq(Find)]]
  /\ low \in [Thread -> [Kinds -> [Measure -> Nat]]]
  /\ arr \in [Kinds -> Seq(Find)]
  /\ cursor \in Nat \ {0}
SoFar(t, kind) ==
  /\ Range(found[t][kind]) = FoundOf(t, ValidIn(kind, Seen(t)))
  /\ low[t][kind] = Lowest(Values(kind, Seen(t)))
\* Each thread found what is valid of what it is done with; the least of the tags is kept
\* while the data arrays are evaluated.
SearchInv ==
  /\ SearchTypes
  /\ phase = "tag" => \A t \in Thread : SoFar(t, "tag") /\ low[t]["data"] = Unset
  /\ phase = "tag" => \A t \in Thread : found[t]["data"] = <<>>
  /\ phase = "data" /\ ~config.forced => \A t \in Thread : SoFar(t, "data")
  /\ phase = "data" /\ ~config.ram =>
       \A t \in Thread : low[t]["tag"] = Lowest(Values("tag", Share(t)))

LEMMA FoundOfBoth ==
  ASSUME NEW t, NEW S, NEW U
  PROVE  FoundOf(t, S \cup U) = FoundOf(t, S) \cup FoundOf(t, U)
BY DEF FoundOf

LEMMA EvaluationIs ==
  ASSUME evaluation \in Evaluation, NEW kind \in Kinds, NEW o \in Org, evaluation[kind][o] # Invalid
  PROVE  \A f \in Measure : evaluation[kind][o][f] \in Nat
<1>1. /\ evaluation.tag[o] # Invalid => \A f \in Measure : evaluation.tag[o][f] \in Nat
      /\ evaluation.data[o] # Invalid => \A f \in Measure \cup {"mux", "before", "after"} :
                                           evaluation.data[o][f] \in Nat
  BY ArrayAssumption
<1>2. CASE kind = "tag"
  BY <1>1, <1>2
<1>3. CASE kind = "data"
  BY <1>1, <1>3
<1>. QED BY <1>2, <1>3 DEF Kinds

LEMMA ValuesAreNatural ==
  ASSUME evaluation \in Evaluation, NEW kind \in Kinds, NEW S, S \subseteq Org
  PROVE  Natural(Values(kind, S))
<1>1. ASSUME NEW o \in ValidIn(kind, S)
      PROVE  \A f \in Measure : evaluation[kind][o][f] \in Nat
  BY EvaluationIs DEF ValidIn
<1>. QED BY <1>1 DEF Natural, Values

LEMMA SeenIs ==
  ASSUME SearchTypes, NEW t \in Thread
  PROVE  /\ Seen(t) \subseteq Share(t) /\ Seen(t) \subseteq Org
         /\ Finished(t) => Seen(t) = Share(t)
         /\ ~Finished(t) => pos[t] \in 1 .. Len(Work(t)) /\ Work(t)[pos[t]] \in Share(t)
<1>1. pos[t] \in Nat /\ pos[t] >= 1 /\ pos[t] <= Len(Work(t)) + 1
  BY DEF SearchTypes
<1>2. /\ Len(Work(t)) \in Nat /\ \A k \in 1 .. Len(Work(t)) : Work(t)[k] \in Share(t)
      /\ \A o \in Share(t) : \E k \in 1 .. Len(Work(t)) : Work(t)[k] = o
  BY WorkIs
<1>3. \A k \in 1 .. pos[t] - 1 : k \in 1 .. Len(Work(t))
  BY <1>1, <1>2
<1>4. Seen(t) \subseteq Share(t)
  BY <1>2, <1>3 DEF Seen
<1>5. Share(t) \subseteq Org
  BY DEF Share
<1>6. ASSUME Finished(t) PROVE Share(t) \subseteq Seen(t)
  <2>1. pos[t] - 1 = Len(Work(t))
    BY <1>1, <1>2, <1>6 DEF Finished
  <2>. QED BY <1>2, <2>1 DEF Seen
<1>7. ~Finished(t) => pos[t] \in 1 .. Len(Work(t))
  BY <1>1, <1>2 DEF Finished
<1>. QED BY <1>2, <1>4, <1>5, <1>6, <1>7

\* A thread keeps what it evaluates.
LEMMA KeepIs ==
  ASSUME SearchTypes, NEW t \in Thread, NEW kind \in Kinds, NEW o \in Org, Keep(t, kind, o)
  PROVE  /\ found' \in [Thread -> [Kinds -> Seq(Find)]]
         /\ low' \in [Thread -> [Kinds -> [Measure -> Nat]]]
         /\ \A s \in Thread, k \in Kinds :
              s # t \/ k # kind => found'[s][k] = found[s][k] /\ low'[s][k] = low[s][k]
         /\ Range(found'[t][kind]) = Range(found[t][kind]) \cup FoundOf(t, ValidIn(kind, {o}))
         /\ IF evaluation[kind][o] = Invalid THEN low'[t][kind] = low[t][kind]
            ELSE low'[t][kind] = Lower(low[t][kind], evaluation[kind][o])
<1>. DEFINE m == evaluation[kind][o]
            a == [org |-> o, by |-> t]
<1>1. /\ found \in [Thread -> [Kinds -> Seq(Find)]]
      /\ low \in [Thread -> [Kinds -> [Measure -> Nat]]]
  BY DEF SearchTypes
<1>2. CASE m = Invalid
  <2>1. found' = found /\ low' = low
    BY <1>2 DEF Keep
  <2>2. ValidIn(kind, {o}) = {}
    BY <1>2 DEF ValidIn
  <2>3. FoundOf(t, ValidIn(kind, {o})) = {}
    BY <2>2 DEF FoundOf
  <2>. QED BY <1>1, <1>2, <2>1, <2>3
<1>3. CASE m # Invalid
  <2>1. /\ found' = [found EXCEPT ![t][kind] = Append(@, a)]
        /\ low' = [low EXCEPT ![t][kind] = Lower(@, m)]
    BY <1>3 DEF Keep
  <2>2. a \in Find
    BY DEF Find
  <2>3. Lower(low[t][kind], m) \in [Measure -> Nat]
    <3>1. \A f \in Measure : m[f] \in Nat
      BY <1>3, EvaluationIs DEF SearchTypes
    <3>2. low[t][kind] \in [Measure -> Nat]
      BY <1>1
    <3>. QED BY <3>1, <3>2 DEF Lower
  <2>4. found[t][kind] \in Seq(Find) /\ Append(found[t][kind], a) \in Seq(Find)
    BY <1>1, <2>2
  <2>5. /\ \A s \in Thread, k \in Kinds :
             s # t \/ k # kind => found'[s][k] = found[s][k] /\ low'[s][k] = low[s][k]
        /\ found'[t][kind] = Append(found[t][kind], a)
        /\ low'[t][kind] = Lower(low[t][kind], m)
    BY <1>1, <2>1
  <2>6. found' \in [Thread -> [Kinds -> Seq(Find)]]
    BY <1>1, <2>1, <2>4
  <2>7. low' \in [Thread -> [Kinds -> [Measure -> Nat]]]
    BY <1>1, <2>1, <2>3
  <2>8. Range(Append(found[t][kind], a)) = Range(found[t][kind]) \cup {a}
    <3>. DEFINE q == found[t][kind]
    <3>1. q \in Seq(Find)
      BY <2>4
    <3>. HIDE DEF q, a
    <3>2. DOMAIN q = 1 .. Len(q) /\ Len(q) \in Nat /\ DOMAIN Append(q, a) = 1 .. Len(q) + 1
      BY <3>1
    <3>3. Append(q, a)[Len(q) + 1] = a /\ \A i \in 1 .. Len(q) : Append(q, a)[i] = q[i]
      BY <3>1
    <3>. QED BY <3>2, <3>3 DEF Range, q
  <2>9. ValidIn(kind, {o}) = {o}
    BY <1>3 DEF ValidIn
  <2>10. FoundOf(t, ValidIn(kind, {o})) = {a}
    BY <2>9 DEF FoundOf
  <2>. QED BY <1>3, <2>5, <2>6, <2>7, <2>8, <2>10
<1>. QED BY <1>2, <1>3

\* An evaluation keeps what is known of its thread and of the others.
LEMMA EvaluateKeeps ==
  ASSUME SearchTypes, NEW t \in Thread, NEW kind \in Kinds, ~Finished(t),
         Keep(t, kind, Work(t)[pos[t]]), pos' = [pos EXCEPT ![t] = @ + 1],
         evaluation' = evaluation, NEW s \in Thread, SoFar(s, kind)
  PROVE  SoFar(s, kind)'
<1>. DEFINE o == Work(t)[pos[t]]
<1>1. o \in Org /\ pos[t] \in 1 .. Len(Work(t))
  BY SeenIs DEF Share
<1>2. Work(s)' = Work(s) /\ Work(t)' = Work(t)
  BY DEF Work
<1>3. pos \in [Thread -> Nat \ {0}]
  BY DEF SearchTypes
<1>4. CASE s # t
  <2>1. found'[s][kind] = found[s][kind] /\ low'[s][kind] = low[s][kind]
    BY <1>1, <1>4, KeepIs
  <2>2. pos'[s] = pos[s]
    BY <1>3, <1>4
  <2>3. Seen(s)' = Seen(s)
    BY <1>2, <2>2 DEF Seen
  <2>. QED BY <2>1, <2>3 DEF SoFar, ValidIn, Values
<1>5. CASE s = t
  <2>1. pos'[t] = pos[t] + 1 /\ pos[t] \in Nat
    BY <1>1, <1>3
  <2>2. Seen(t)' = Seen(t) \cup {o}
    <3>1. 1 .. pos'[t] - 1 = (1 .. pos[t] - 1) \cup {pos[t]}
      BY <1>1, <2>1
    <3>. QED BY <1>2, <3>1 DEF Seen
  <2>3. Seen(t) \subseteq Org
    BY SeenIs
  <2>4. ValidIn(kind, Seen(t))' = ValidIn(kind, Seen(t)) \cup ValidIn(kind, {o})
    BY <2>2 DEF ValidIn
  <2>5. Range(found'[t][kind]) = FoundOf(t, ValidIn(kind, Seen(t)))'
    <3>. DEFINE V == ValidIn(kind, Seen(t))
                W == ValidIn(kind, {o})
    <3>1. FoundOf(t, ValidIn(kind, Seen(t)))' = FoundOf(t, V \cup W)
      BY <2>4 DEF FoundOf
    <3>2. FoundOf(t, V \cup W) = FoundOf(t, V) \cup FoundOf(t, W)
      <4>. HIDE DEF V, W
      <4>. QED BY FoundOfBoth
    <3>3. Range(found'[t][kind]) = Range(found[t][kind]) \cup FoundOf(t, W)
      <4>1. Keep(t, kind, o) /\ o \in Org
        BY <1>1
      <4>. HIDE DEF o
      <4>. QED BY <4>1, KeepIs
    <3>4. Range(found[t][kind]) = FoundOf(t, V)
      BY <1>5 DEF SoFar
    <3>. QED BY <3>1, <3>2, <3>3, <3>4
  <2>6. low[t][kind] = Lowest(Values(kind, Seen(t)))
    BY <1>5 DEF SoFar
  <2>7. Natural(Values(kind, Seen(t)))
    BY <2>3, ValuesAreNatural DEF SearchTypes
  <2>8. low'[t][kind] = Lowest(Values(kind, Seen(t)))'
    <3>0. Lowest(Values(kind, Seen(t)))' = Lowest(Values(kind, Seen(t))')
      BY DEF Lowest
    <3>1. CASE evaluation[kind][o] = Invalid
      <4>1. low'[t][kind] = low[t][kind]
        BY <1>1, <3>1, KeepIs
      <4>2. ValidIn(kind, Seen(t))' = ValidIn(kind, Seen(t))
        BY <2>4, <3>1 DEF ValidIn
      <4>3. Values(kind, Seen(t))' = Values(kind, Seen(t))
        BY <4>2 DEF Values
      <4>. QED BY <2>6, <3>0, <4>1, <4>3
    <3>2. CASE evaluation[kind][o] # Invalid
      <4>1. low'[t][kind] = Lower(low[t][kind], evaluation[kind][o])
        BY <1>1, <3>2, KeepIs
      <4>2. ValidIn(kind, Seen(t))' = ValidIn(kind, Seen(t)) \cup {o}
        BY <2>4, <3>2 DEF ValidIn
      <4>3. Values(kind, Seen(t))' = Values(kind, Seen(t)) \cup {evaluation[kind][o]}
        BY <4>2 DEF Values
      <4>4. \A f \in Measure : evaluation[kind][o][f] \in Nat
        BY <1>1, <3>2, EvaluationIs DEF SearchTypes
      <4>5. Lower(Lowest(Values(kind, Seen(t))), evaluation[kind][o])
            = Lowest(Values(kind, Seen(t)) \cup {evaluation[kind][o]})
        BY <2>7, <4>4, LowestOfOneMore
      <4>. QED BY <2>6, <3>0, <4>1, <4>3, <4>5
    <3>. QED BY <3>1, <3>2
  <2>. QED BY <1>5, <2>5, <2>8 DEF SoFar
<1>. QED BY <1>4, <1>5

LEMMA ForcedIsOrg == ForcedOrg \in Org
<1>1. Min(Nspd) \in Nspd /\ Max(Wire) \in Wire
  BY ArrayAssumption, FiniteHasBounds
<1>2. niter - 1 \in 0 .. niter - 1
  BY SearchConstants
<1>. QED BY <1>1, <1>2 DEF ForcedOrg, Org

LEMMA TypesKept ==
  ASSUME SearchTypes, NEW t \in Thread, NEW kind \in Kinds, NEW o \in Org, Keep(t, kind, o),
         NEW p \in 1 .. Len(Work(t)) + 1, pos' = [pos EXCEPT ![t] = p], SearchUnchanged
  PROVE  SearchTypes'
<1>1. /\ found' \in [Thread -> [Kinds -> Seq(Find)]]
      /\ low' \in [Thread -> [Kinds -> [Measure -> Nat]]]
  BY KeepIs
<1>2. \A s \in Thread : Work(s)' = Work(s)
  BY DEF Work
<1>3. pos \in [Thread -> Nat \ {0}] /\ \A s \in Thread : pos[s] <= Len(Work(s)) + 1
  BY DEF SearchTypes
<1>4. p \in Nat \ {0} /\ p <= Len(Work(t)) + 1
  BY WorkIs
<1>5. pos' \in [Thread -> Nat \ {0}] /\ \A s \in Thread : pos'[s] = IF s = t THEN p ELSE pos[s]
  BY <1>3, <1>4
<1>6. \A s \in Thread : pos'[s] <= Len(Work(s)) + 1
  BY <1>3, <1>4, <1>5
<1>. QED BY <1>1, <1>2, <1>5, <1>6 DEF SearchTypes, SearchUnchanged

LEMMA EvaluateStep == ASSUME SearchInv, NEW t \in Thread, Evaluate(t) PROVE SearchInv'
<1>. DEFINE o == Work(t)[pos[t]]
<1>1. /\ SearchTypes /\ phase \in Kinds /\ ~(phase = "data" /\ config.forced) /\ ~Finished(t)
      /\ Keep(t, phase, o) /\ pos' = [pos EXCEPT ![t] = @ + 1] /\ SearchUnchanged
  BY DEF SearchInv, Evaluate, Kinds
<1>2. evaluation' = evaluation /\ config' = config /\ phase' = phase
  BY <1>1 DEF SearchUnchanged
<1>3. o \in Org /\ pos[t] \in 1 .. Len(Work(t))
  BY <1>1, SeenIs DEF Share
<1>4. SearchTypes'
  <2>1. pos[t] + 1 \in 1 .. Len(Work(t)) + 1
    BY <1>3, WorkIs
  <2>2. pos' = [pos EXCEPT ![t] = pos[t] + 1]
    BY <1>1
  <2>. HIDE DEF o
  <2>. QED BY <1>1, <1>3, <2>1, <2>2, TypesKept
<1>5. ASSUME NEW s \in Thread, NEW k \in Kinds, k = phase, SoFar(s, k) PROVE SoFar(s, k)'
  <2>1. Keep(t, k, Work(t)[pos[t]])
    BY <1>1, <1>5
  <2>2. /\ SearchTypes /\ ~Finished(t) /\ pos' = [pos EXCEPT ![t] = @ + 1]
        /\ evaluation' = evaluation /\ SoFar(s, k) /\ t \in Thread /\ s \in Thread /\ k \in Kinds
    BY <1>1, <1>2, <1>5
  <2>. QED BY ONLY <2>1, <2>2, EvaluateKeeps, Zenon
<1>6. \A s \in Thread, k \in Kinds : k # phase => found'[s][k] = found[s][k] /\ low'[s][k] = low[s][k]
  <2>1. SUFFICES ASSUME NEW s \in Thread, NEW k \in Kinds, k # phase
                 PROVE  found'[s][k] = found[s][k] /\ low'[s][k] = low[s][k]
    OBVIOUS
  <2>2. PICK j \in Kinds : j = phase
    BY <1>1
  <2>3. SearchTypes /\ Keep(t, j, o) /\ o \in Org /\ k # j
    BY <1>1, <1>3, <2>1, <2>2
  <2>. HIDE DEF o
  <2>4. \A u \in Thread, i \in Kinds :
          u # t \/ i # j => found'[u][i] = found[u][i] /\ low'[u][i] = low[u][i]
    BY ONLY <2>3, KeepIs, t \in Thread, j \in Kinds
  <2>. QED BY ONLY <2>1, <2>3, <2>4
<1>7. CASE phase = "tag"
  <2>1. \A s \in Thread : SoFar(s, "tag") /\ low[s]["data"] = Unset /\ found[s]["data"] = <<>>
    BY <1>7 DEF SearchInv
  <2>2. \A s \in Thread : SoFar(s, "tag")'
    BY <1>5, <1>7, <2>1 DEF Kinds
  <2>3. \A s \in Thread : low'[s]["data"] = Unset /\ found'[s]["data"] = <<>>
    BY <1>6, <1>7, <2>1 DEF Kinds
  <2>4. phase' = "tag" /\ Unset' = Unset
    BY <1>2, <1>7 DEF Unset
  <2>. QED BY <1>4, <2>2, <2>3, <2>4 DEF SearchInv
<1>8. CASE phase = "data"
  <2>1. \A s \in Thread : SoFar(s, "data")
    BY <1>1, <1>8 DEF SearchInv
  <2>2. \A s \in Thread : SoFar(s, "data")'
    BY <1>5, <1>8, <2>1 DEF Kinds
  <2>3. \A s \in Thread : low'[s]["tag"] = low[s]["tag"]
    BY <1>6, <1>8 DEF Kinds
  <2>4. ~config.ram => \A s \in Thread : low[s]["tag"] = Lowest(Values("tag", Share(s)))
    BY <1>8 DEF SearchInv
  <2>5. \A s \in Thread : Lowest(Values("tag", Share(s)))' = Lowest(Values("tag", Share(s)))
    BY <1>2 DEF Lowest, Values, ValidIn, Share
  <2>6. ~config'.ram => \A s \in Thread : low'[s]["tag"] = Lowest(Values("tag", Share(s)))'
    BY <1>2, <2>3, <2>4, <2>5
  <2>7. phase' = "data"
    BY <1>2, <1>8
  <2>. QED BY <1>4, <2>2, <2>6, <2>7 DEF SearchInv
<1>. QED BY <1>1, <1>7, <1>8 DEF Kinds

LEMMA ForcedStep == ASSUME SearchInv, NEW t \in Thread, EvaluateForced(t) PROVE SearchInv'
<1>1. /\ SearchTypes /\ phase = "data" /\ config.forced /\ Keep(t, "data", ForcedOrg)
      /\ pos' = [pos EXCEPT ![t] = Len(Work(t)) + 1] /\ SearchUnchanged
  BY DEF SearchInv, EvaluateForced
<1>2. evaluation' = evaluation /\ config' = config /\ phase' = phase
  BY <1>1 DEF SearchUnchanged
<1>3. SearchTypes'
  <2>1. Len(Work(t)) + 1 \in 1 .. Len(Work(t)) + 1
    BY WorkIs
  <2>. QED BY <1>1, <2>1, ForcedIsOrg, TypesKept DEF Kinds
<1>4. \A s \in Thread : low'[s]["tag"] = low[s]["tag"]
  BY <1>1, ForcedIsOrg, KeepIs DEF Kinds
<1>5. ~config.ram => \A s \in Thread : low[s]["tag"] = Lowest(Values("tag", Share(s)))
  BY <1>1 DEF SearchInv
<1>6. \A s \in Thread : Lowest(Values("tag", Share(s)))' = Lowest(Values("tag", Share(s)))
  BY <1>2 DEF Lowest, Values, ValidIn, Share
<1>7. phase' = "data" /\ config'.forced
  BY <1>1, <1>2
<1>. QED BY <1>2, <1>3, <1>4, <1>5, <1>6, <1>7 DEF SearchInv

\* What all threads found is a find each, and only finitely many.
AllFound(kind) == UNION {Range(found[t][kind]) : t \in Thread}

LEMMA AllFoundIs ==
  ASSUME SearchTypes, NEW kind \in Kinds
  PROVE  /\ AllFound(kind) \subseteq Find /\ IsFiniteSet(AllFound(kind))
         /\ Merged(kind) = Sorted(AllFound(kind), MergeOrder)
         /\ Merged(kind) \in Seq(Find)
<1>1. \A t \in Thread : found[t][kind] \in Seq(Find)
  BY DEF SearchTypes
<1>2. \A t \in Thread : Range(found[t][kind]) \subseteq Find
  BY <1>1 DEF Range
<1>3. AllFound(kind) \subseteq Find
  BY <1>2 DEF AllFound
<1>4. IsFiniteSet(Find)
  BY FindIsFinite
<1>5. IsFiniteSet(AllFound(kind))
  BY <1>3, <1>4, FS_Subset
<1>6. Merged(kind) = Sorted(AllFound(kind), MergeOrder)
  BY DEF Merged, AllFound
<1>7. Merged(kind) \in Seq(AllFound(kind))
  BY <1>3, <1>5, <1>6, MergeIs
<1>. QED BY <1>3, <1>5, <1>6, <1>7

\* When all threads have joined, everything valid was found once, by one thread.
LEMMA AllFoundIsValid ==
  ASSUME SearchTypes, NEW kind \in Kinds, Joined, \A t \in Thread : SoFar(t, kind)
  PROVE  IsEvery(Merged(kind), kind)
<1>. DEFINE S == AllFound(kind)
            V == Valid(kind)
            list == Merged(kind)
            g == [o \in V |-> [org |-> o, by |-> o.iter % nthreads]]
<1>1. \A t \in Thread : Seen(t) = Share(t)
  BY SeenIs DEF Joined
<1>2. \A t \in Thread : Range(found[t][kind]) = FoundOf(t, ValidIn(kind, Share(t)))
  BY <1>1 DEF SoFar
<1>3. \A o \in Org : o.iter % nthreads \in Thread
  BY OrgIs, SearchConstants
<1>4. ASSUME NEW a \in S PROVE a.org \in V /\ a = [org |-> a.org, by |-> a.org.iter % nthreads]
  <2>1. PICK t \in Thread : a \in FoundOf(t, ValidIn(kind, Share(t)))
    BY <1>2 DEF AllFound
  <2>2. PICK o \in ValidIn(kind, Share(t)) : a = [org |-> o, by |-> t]
    BY <2>1 DEF FoundOf
  <2>3. o \in Org /\ o.iter % nthreads = t /\ evaluation[kind][o] # Invalid
    BY <2>2 DEF ValidIn, Share
  <2>. QED BY <2>2, <2>3 DEF Valid
<1>5. ASSUME NEW o \in V PROVE g[o] \in S /\ g[o].org = o
  <2>1. o \in Org /\ evaluation[kind][o] # Invalid
    BY DEF Valid
  <2>. DEFINE t == o.iter % nthreads
  <2>2. t \in Thread /\ o \in ValidIn(kind, Share(t))
    BY <1>3, <2>1 DEF ValidIn, Share
  <2>3. g[o] = [org |-> o, by |-> t]
    OBVIOUS
  <2>. HIDE DEF t, g
  <2>4. g[o] \in FoundOf(t, ValidIn(kind, Share(t)))
    BY <2>2, <2>3 DEF FoundOf
  <2>. QED BY <1>2, <2>2, <2>3, <2>4 DEF AllFound
<1>6. IsFiniteSet(V) /\ IsFiniteSet(S) /\ S \subseteq Find
  <2>1. V \subseteq Org
    BY DEF Valid
  <2>. QED BY <2>1, OrgIsFinite, FS_Subset, AllFoundIs
<1>7. Cardinality(S) = Cardinality(V)
  <2>1. g \in [V -> S]
    BY <1>5
  <2>2. \A o, p \in V : g[o] = g[p] => o = p
    BY <1>5
  <2>3. \A a \in S : \E o \in V : g[o] = a
    <3>1. SUFFICES ASSUME NEW a \in S PROVE \E o \in V : g[o] = a
      OBVIOUS
    <3>2. a.org \in V /\ a = [org |-> a.org, by |-> a.org.iter % nthreads]
      BY <1>4
    <3>3. g[a.org] = [org |-> a.org, by |-> a.org.iter % nthreads]
      BY <3>2
    <3>. HIDE DEF g, V
    <3>. QED BY <3>2, <3>3
  <2>. HIDE DEF g, S, V
  <2>4. g \in Bijection(V, S)
    BY <2>1, <2>2, <2>3 DEF Bijection, Injection, IsInjective, Surjection
  <2>. QED BY <1>6, <2>4, FS_Bijection DEF ExistsBijection
<1>8. /\ list \in Seq(S) /\ Len(list) = Cardinality(S)
      /\ \A x \in S : \E i \in 1 .. Cardinality(S) : list[i] = x
      /\ \A i, j \in 1 .. Cardinality(S) : i < j => ~Lt(list[j], list[i])
  BY <1>6, AllFoundIs, MergeIs
<1>9. {list[i].org : i \in DOMAIN list} = V
  <2>. HIDE DEF g, S, V, list
  <2>1. DOMAIN list = 1 .. Cardinality(S) /\ \A i \in DOMAIN list : list[i] \in S
    BY <1>8
  <2>2. \A i \in DOMAIN list : list[i].org \in V
    BY <1>4, <2>1
  <2>3. \A o \in V : \E i \in DOMAIN list : list[i].org = o
    BY <1>5, <1>8, <2>1
  <2>. QED BY <2>2, <2>3
<1>10. DOMAIN list = 1 .. Cardinality(S)
  <2>. HIDE DEF S, list
  <2>. QED BY <1>8
<1>. HIDE DEF list, S
<1>. QED BY <1>7, <1>8, <1>9, <1>10 DEF IsEvery, list

\* The least of all threads is the least of all.
LEMMA LeastOfAll ==
  ASSUME SearchTypes, NEW kind \in Kinds,
         \A t \in Thread : low[t][kind] = Lowest(Values(kind, Share(t)))
  PROVE  Lowest({low[t][kind] : t \in Thread}) = LowestOf(kind)
<1>. DEFINE part == [t \in Thread |-> Values(kind, Share(t))]
            S == Values(kind, Org)
<1>1. Natural(S)
  BY ValuesAreNatural DEF SearchTypes
<1>2. \A t \in Thread : part[t] \subseteq S
  BY DEF Values, ValidIn, Share
<1>3. ASSUME NEW a \in S PROVE \E t \in Thread : a \in part[t]
  <2>1. PICK o \in ValidIn(kind, Org) : a = evaluation[kind][o]
    BY DEF Values
  <2>2. o \in Org /\ o.iter % nthreads \in Thread
    BY OrgIs, SearchConstants DEF ValidIn
  <2>3. o \in ValidIn(kind, Share(o.iter % nthreads))
    BY <2>1, <2>2 DEF ValidIn, Share
  <2>4. a \in part[o.iter % nthreads]
    BY <2>1, <2>2, <2>3 DEF Values
  <2>. QED BY <2>2, <2>4
<1>4. {low[t][kind] : t \in Thread} = {Lowest(part[t]) : t \in Thread}
  OBVIOUS
<1>. HIDE DEF part
<1>5. Lowest({Lowest(part[t]) : t \in Thread}) = Lowest(S)
  <2>. HIDE DEF S
  <2>. QED BY <1>1, <1>2, <1>3, LowestOfParts
<1>6. LowestOf(kind) = Lowest(S)
  BY DEF LowestOf, Valid, Values, ValidIn
<1>. QED BY <1>4, <1>5, <1>6

\* Only what is valid is found, merged and kept.
FindIn(kind) == {a \in Find : evaluation[kind][a.org] # Invalid}
FoundInv ==
  /\ \A t \in Thread, kind \in Kinds : Range(found[t][kind]) \subseteq FindIn(kind)
  /\ \A kind \in Kinds : Range(arr[kind]) \subseteq FindIn(kind)

LEMMA RangeOfFinds ==
  ASSUME NEW S, NEW q \in Seq(S)
  PROVE  Range(q) \subseteq S /\ (q = <<>> => Range(q) = {})
<1>0. DOMAIN q = 1 .. Len(q)
  OBVIOUS
<1>1. \A i \in DOMAIN q : q[i] \in S
  BY <1>0
<1>2. Range(q) \subseteq S
  BY ONLY <1>1 DEF Range
<1>3. q = <<>> => DOMAIN q = {}
  OBVIOUS
<1>. QED BY ONLY <1>2, <1>3 DEF Range

LEMMA FoundEvaluated ==
  ASSUME SearchTypes, FoundInv, NEW t \in Thread, NEW kind \in Kinds, NEW o \in Org,
         Keep(t, kind, o), SearchUnchanged
  PROVE  FoundInv'
<1>1. /\ \A s \in Thread, k \in Kinds : s # t \/ k # kind => found'[s][k] = found[s][k]
      /\ Range(found'[t][kind]) = Range(found[t][kind]) \cup FoundOf(t, ValidIn(kind, {o}))
  BY KeepIs
<1>2. FoundOf(t, ValidIn(kind, {o})) \subseteq FindIn(kind)
  BY DEF FoundOf, ValidIn, FindIn, Find
<1>3. evaluation' = evaluation /\ arr' = arr
  BY DEF SearchUnchanged
<1>4. \A k \in Kinds : FindIn(k)' = FindIn(k)
  BY <1>3 DEF FindIn
<1>5. ASSUME NEW s \in Thread, NEW k \in Kinds PROVE Range(found'[s][k]) \subseteq FindIn(k)
  BY <1>1, <1>2 DEF FoundInv
<1>. QED BY <1>3, <1>4, <1>5 DEF FoundInv

LEMMA MergedIsValid ==
  ASSUME SearchTypes, FoundInv, NEW kind \in Kinds
  PROVE  Merged(kind) \in Seq(Find) /\ Range(Merged(kind)) \subseteq FindIn(kind)
<1>1. AllFound(kind) \subseteq FindIn(kind)
  BY DEF FoundInv, AllFound
<1>2. Merged(kind) \in Seq(AllFound(kind)) /\ Merged(kind) \in Seq(Find)
  BY AllFoundIs, MergeIs
<1>. QED BY <1>1, <1>2, RangeOfFinds

LEMMA EndTagsStep ==
  ASSUME SearchInv, FoundInv, EndTags
  PROVE  SearchInv' /\ FoundInv' /\ IsEvery(arr'.tag, "tag")
<1>1. /\ SearchTypes /\ phase = "tag" /\ Joined /\ phase' = "data"
      /\ \A t \in Thread : SoFar(t, "tag") /\ low[t]["data"] = Unset
      /\ arr' = [arr EXCEPT !["tag"] = Merged("tag")]
      /\ pos' = [t \in Thread |-> 1]
      /\ found' = [t \in Thread |-> [tag |-> <<>>, data |-> <<>>]]
      /\ evaluation' = evaluation /\ config' = config /\ low' = low
  BY DEF EndTags, SearchInv
<1>2. cursor' = cursor
  BY DEF EndTags
<1>3. arr \in [Kinds -> Seq(Find)] /\ low \in [Thread -> [Kinds -> [Measure -> Nat]]]
      /\ evaluation \in Evaluation /\ cursor \in Nat \ {0}
  BY <1>1 DEF SearchTypes
<1>4. Merged("tag") \in Seq(Find) /\ Range(Merged("tag")) \subseteq FindIn("tag")
  BY <1>1, MergedIsValid DEF Kinds
<1>5. arr' \in [Kinds -> Seq(Find)] /\ arr'["tag"] = Merged("tag") /\ arr'["data"] = arr["data"]
  BY <1>1, <1>3, <1>4 DEF Kinds
<1>6. \A t \in Thread, kind \in Kinds : found'[t][kind] = <<>> /\ Range(found'[t][kind]) = {}
  <2>1. \A t \in Thread, kind \in Kinds : found'[t][kind] = <<>>
    BY <1>1 DEF Kinds
  <2>2. <<>> \in Seq(Find)
    OBVIOUS
  <2>3. Range(<<>>) = {}
    BY <2>2, RangeOfFinds
  <2>. QED BY <2>1, <2>3
<1>7. found' \in [Thread -> [Kinds -> Seq(Find)]]
  <2>. DEFINE r == [tag |-> <<>>, data |-> <<>>]
  <2>0. <<>> \in Seq(Find)
    OBVIOUS
  <2>1. r = [k \in Kinds |-> <<>>]
    BY DEF Kinds
  <2>2. r \in [Kinds -> Seq(Find)]
    BY <2>0, <2>1
  <2>3. found' = [t \in Thread |-> r]
    BY <1>1
  <2>. HIDE DEF r
  <2>. QED BY ONLY <2>2, <2>3
<1>8. \A t \in Thread : pos'[t] <= Len(Work(t)') + 1
  <2>1. \A t \in Thread : Work(t)' = Work(t) /\ Len(Work(t)) \in Nat
    BY WorkIs DEF Work
  <2>. QED BY <1>1, <2>1
<1>9. SearchTypes'
  <2>1. pos' \in [Thread -> Nat \ {0}]
    BY <1>1
  <2>. QED BY <1>1, <1>2, <1>3, <1>5, <1>7, <1>8, <2>1 DEF SearchTypes
<1>10. \A t \in Thread : SoFar(t, "data")'
  <2>1. \A t \in Thread : Seen(t)' = {}
    BY <1>1 DEF Seen
  <2>2. ASSUME NEW t \in Thread PROVE SoFar(t, "data")'
    <3>1. ValidIn("data", Seen(t))' = {}
      BY <2>1 DEF ValidIn
    <3>2. Values("data", Seen(t))' = {} /\ FoundOf(t, ValidIn("data", Seen(t)))' = {}
      BY <3>1 DEF Values, FoundOf
    <3>3. Lowest(Values("data", Seen(t)))' = Unset
      <4>1. Lowest(Values("data", Seen(t)))' = Lowest({})
        BY <3>2 DEF Lowest
      <4>. QED BY <4>1, LowestOfNone
    <3>. QED BY <1>1, <1>6, <3>2, <3>3 DEF SoFar, Kinds
  <2>. QED BY <2>2
<1>11. \A t \in Thread : low'[t]["tag"] = Lowest(Values("tag", Share(t)))'
  <2>1. \A t \in Thread : low[t]["tag"] = Lowest(Values("tag", Share(t)))
    BY <1>1, SeenIs DEF SoFar, Joined
  <2>2. \A t \in Thread : Lowest(Values("tag", Share(t)))' = Lowest(Values("tag", Share(t)))
    BY <1>1 DEF Lowest, Values, ValidIn, Share
  <2>. QED BY <1>1, <2>1, <2>2
<1>12. FoundInv'
  <2>1. \A k \in Kinds : FindIn(k)' = FindIn(k)
    BY <1>1 DEF FindIn
  <2>2. \A k \in Kinds : Range(arr'[k]) \subseteq FindIn(k)
    BY <1>4, <1>5 DEF FoundInv, Kinds
  <2>. QED BY <1>6, <2>1, <2>2 DEF FoundInv
<1>13. IsEvery(arr'.tag, "tag")
  BY <1>1, <1>5, AllFoundIsValid DEF Kinds
<1>. QED BY <1>1, <1>9, <1>10, <1>11, <1>12, <1>13 DEF SearchInv

LEMMA EndDataStep ==
  ASSUME SearchInv, FoundInv, EndData
  PROVE  /\ SearchInv' /\ FoundInv'
         /\ ~config.forced => IsEvery(arr'.data, "data") /\ min'.data = LowestOf("data")
         /\ ~config.forced /\ ~config.ram => min'.tag = LowestOf("tag")
<1>1. /\ SearchTypes /\ phase = "data" /\ Joined /\ phase' \in {"no_data", "filter"}
      /\ arr' = [arr EXCEPT !["data"] = Merged("data")]
      /\ evaluation' = evaluation /\ config' = config /\ low' = low /\ found' = found /\ pos' = pos
      /\ cursor' = 1
  BY DEF EndData, SearchInv
<1>2. \A kind \in Kinds : min'[kind] = Lowest({low[t][kind] : t \in Thread})
  <2>1. min' = [tag |-> LowestFound("tag"), data |-> LowestFound("data"), cache |-> Unset]
    BY DEF EndData
  <2>2. min'["tag"] = LowestFound("tag") /\ min'["data"] = LowestFound("data")
    BY <2>1
  <2>. QED BY <2>2 DEF Kinds, LowestFound
<1>3. arr \in [Kinds -> Seq(Find)]
  BY <1>1 DEF SearchTypes
<1>4. Merged("data") \in Seq(Find) /\ Range(Merged("data")) \subseteq FindIn("data")
  BY <1>1, MergedIsValid DEF Kinds
<1>5. arr' \in [Kinds -> Seq(Find)] /\ arr'["data"] = Merged("data") /\ arr'["tag"] = arr["tag"]
  BY <1>1, <1>3, <1>4 DEF Kinds
<1>6. SearchTypes'
  <2>1. \A t \in Thread : Work(t)' = Work(t)
    BY DEF Work
  <2>. QED BY <1>1, <1>5, <2>1 DEF SearchTypes
<1>7. FoundInv'
  <2>1. \A k \in Kinds : FindIn(k)' = FindIn(k)
    BY <1>1 DEF FindIn
  <2>2. \A k \in Kinds : Range(arr'[k]) \subseteq FindIn(k)
    BY <1>4, <1>5 DEF FoundInv, Kinds
  <2>. QED BY <1>1, <2>1, <2>2 DEF FoundInv
<1>8. ASSUME ~config.forced PROVE IsEvery(arr'.data, "data") /\ min'.data = LowestOf("data")
  <2>1. \A t \in Thread : SoFar(t, "data")
    BY <1>1, <1>8 DEF SearchInv
  <2>2. IsEvery(arr'.data, "data")
    BY <1>1, <1>5, <2>1, AllFoundIsValid DEF Kinds
  <2>3. \A t \in Thread : low[t]["data"] = Lowest(Values("data", Share(t)))
    BY <1>1, <2>1, SeenIs DEF SoFar, Joined
  <2>4. min'["data"] = LowestOf("data")
    BY <1>1, <1>2, <2>3, LeastOfAll DEF Kinds
  <2>. QED BY <2>2, <2>4
<1>9. ASSUME ~config.ram PROVE min'.tag = LowestOf("tag")
  <2>1. \A t \in Thread : low[t]["tag"] = Lowest(Values("tag", Share(t)))
    BY <1>1, <1>9 DEF SearchInv
  <2>2. min'["tag"] = LowestOf("tag")
    BY <1>1, <1>2, <2>1, LeastOfAll DEF Kinds
  <2>. QED BY <2>2
<1>. QED BY <1>1, <1>6, <1>7, <1>8, <1>9 DEF SearchInv

-----------------------------------------------------------------------------
(* The lists that are left.                                                *)

LEMMA RemoveAtIs ==
  ASSUME NEW S, NEW q \in Seq(S), NEW i \in 1 .. Len(q)
  PROVE  /\ RemoveAt(q, i) \in Seq(S) /\ Len(RemoveAt(q, i)) = Len(q) - 1
         /\ \A j \in 1 .. Len(q) - 1 : RemoveAt(q, i)[j] = IF j < i THEN q[j] ELSE q[j + 1]
<1>. DEFINE a == SubSeq(q, 1, i - 1)
            b == SubSeq(q, i + 1, Len(q))
            n == Len(q)
<1>1. n \in Nat /\ i \in Nat /\ 1 <= i /\ i <= n
  OBVIOUS
<1>2. a \in Seq(S) /\ Len(a) = i - 1 /\ \A j \in 1 .. i - 1 : a[j] = q[j]
  <2>1. 1 \in 1 .. n + 1 /\ i - 1 \in 0 .. n
    BY <1>1
  <2>2. \A j \in 1 .. i - 1 : j \in 1 .. n
    BY <1>1
  <2>. QED BY <1>1, <2>1, <2>2, SubSeqProperties
<1>3. b \in Seq(S) /\ Len(b) = n - i /\ \A j \in 1 .. n - i : b[j] = q[i + j]
  <2>1. i + 1 \in Int /\ n \in Int /\ (i + 1 <= n <=> i < n) /\ (~(i < n) => n - i = 0)
    BY <1>1
  <2>2. n - (i + 1) + 1 = n - i /\ \A j \in 1 .. n - i : i + 1 + j - 1 = i + j
    BY <1>1
  <2>3. \A k \in i + 1 .. n : q[k] \in S
    BY <1>1
  <2>. HIDE DEF n
  <2>4. /\ SubSeq(q, i + 1, n) \in Seq(S)
        /\ Len(SubSeq(q, i + 1, n)) = IF i + 1 <= n THEN n - (i + 1) + 1 ELSE 0
        /\ \A j \in 1 .. n - (i + 1) + 1 : SubSeq(q, i + 1, n)[j] = q[i + 1 + j - 1]
    BY <2>1, <2>3, SubSeqProperties
  <2>5. b = SubSeq(q, i + 1, n)
    BY DEF n
  <2>. HIDE DEF b
  <2>. QED BY <2>1, <2>2, <2>4, <2>5
<1>4. RemoveAt(q, i) = a \o b
  BY DEF RemoveAt
<1>. HIDE DEF a, b, n
<1>5. a \o b \in Seq(S) /\ Len(a \o b) = Len(a) + Len(b)
      /\ \A j \in 1 .. Len(a) + Len(b) : (a \o b)[j] = IF j <= Len(a) THEN a[j] ELSE b[j - Len(a)]
  BY <1>2, <1>3, ConcatProperties
<1>6. Len(a) + Len(b) = n - 1
  BY <1>1, <1>2, <1>3
<1>7. ASSUME NEW j \in 1 .. n - 1 PROVE (a \o b)[j] = IF j < i THEN q[j] ELSE q[j + 1]
  <2>1. (a \o b)[j] = IF j <= i - 1 THEN a[j] ELSE b[j - (i - 1)]
    BY <1>2, <1>5, <1>6
  <2>2. CASE j < i
    <3>1. j <= i - 1 /\ j \in 1 .. i - 1
      BY <1>1, <2>2
    <3>. QED BY <1>2, <2>1, <2>2, <3>1
  <2>3. CASE ~(j < i)
    <3>1. ~(j <= i - 1) /\ j - (i - 1) \in 1 .. n - i /\ i + (j - (i - 1)) = j + 1
      BY <1>1, <2>3
    <3>. QED BY <1>3, <2>1, <2>3, <3>1
  <2>. QED BY <2>2, <2>3
<1>. QED BY <1>4, <1>5, <1>6, <1>7 DEF n

LEMMA TypesStay ==
  ASSUME SearchTypes, evaluation' = evaluation, pos' = pos, found' = found, low' = low,
         cursor' \in Nat \ {0}, arr' \in [Kinds -> Seq(Find)]
  PROVE  SearchTypes'
<1>1. \A t \in Thread : Work(t)' = Work(t)
  BY DEF Work
<1>. QED BY <1>1 DEF SearchTypes

LEMMA FoundStay ==
  ASSUME FoundInv, evaluation' = evaluation, found' = found,
         \A kind \in Kinds : Range(arr'[kind]) \subseteq Range(arr[kind])
  PROVE  FoundInv'
<1>1. \A k \in Kinds : FindIn(k)' = FindIn(k)
  BY DEF FindIn
<1>. QED BY <1>1 DEF FoundInv

LEMMA FilterStep == ASSUME SearchInv, FoundInv, FilterData PROVE SearchInv' /\ FoundInv'
<1>1. /\ SearchTypes /\ phase = "filter" /\ phase' = "filter" /\ cursor <= Len(arr["data"])
      /\ evaluation' = evaluation /\ pos' = pos /\ found' = found /\ low' = low
      /\ \/ arr' = [arr EXCEPT !["data"] = RemoveAt(@, cursor)] /\ cursor' = cursor
         \/ arr' = arr /\ cursor' = cursor + 1
  BY DEF FilterData, SearchInv, CursorAfterErase
<1>2. arr \in [Kinds -> Seq(Find)] /\ cursor \in Nat \ {0}
  BY <1>1 DEF SearchTypes
<1>3. cursor' \in Nat \ {0}
  BY <1>1, <1>2
<1>4. CASE arr' = arr
  BY <1>1, <1>2, <1>3, <1>4, TypesStay, FoundStay DEF SearchInv
<1>5. CASE arr' = [arr EXCEPT !["data"] = RemoveAt(@, cursor)]
  <2>. DEFINE q == arr["data"]
              r == RemoveAt(q, cursor)
  <2>1. q \in Seq(Find) /\ cursor \in 1 .. Len(q)
    BY <1>1, <1>2 DEF Kinds
  <2>2. /\ r \in Seq(Find) /\ Len(r) = Len(q) - 1
        /\ \A j \in 1 .. Len(q) - 1 : r[j] = IF j < cursor THEN q[j] ELSE q[j + 1]
    <3>. HIDE DEF q
    <3>. QED BY <2>1, RemoveAtIs
  <2>3. arr' \in [Kinds -> Seq(Find)] /\ arr'["data"] = r /\ arr'["tag"] = arr["tag"]
    BY <1>2, <1>5, <2>2 DEF Kinds
  <2>4. Range(r) \subseteq Range(q)
    <3>. HIDE DEF q, r
    <3>1. DOMAIN r = 1 .. Len(q) - 1 /\ DOMAIN q = 1 .. Len(q) /\ Len(q) \in Nat
      BY <2>1, <2>2
    <3>2. \A j \in DOMAIN r : j \in DOMAIN q /\ j + 1 \in DOMAIN q
      BY <3>1
    <3>. QED BY <2>2, <3>1, <3>2 DEF Range
  <2>5. \A kind \in Kinds : Range(arr'[kind]) \subseteq Range(arr[kind])
    BY <2>3, <2>4 DEF Kinds
  <2>. QED BY <1>1, <1>3, <2>3, <2>5, TypesStay, FoundStay DEF SearchInv
<1>. QED BY <1>1, <1>4, <1>5

\* At most one tag array is left, one of those that were found.
LEMMA TagChoicesIs ==
  ASSUME SearchTypes
  PROVE  /\ TagChoices \in Seq(Find) /\ Range(TagChoices) \subseteq Range(arr["tag"])
         /\ TagChoices = <<>> \/ \E i \in DOMAIN arr["tag"] : TagChoices = <<arr["tag"][i]>>
<1>. DEFINE q == arr["tag"]
            ok == {i \in DOMAIN q : Within(TagOf(q[i]), min.tag)}
            weighted(i) == Weighted(TagOf(q[i]), min.tag)
            least == {i \in ok : \A j \in ok : weighted(i) <= weighted(j)}
<1>1. q \in Seq(Find)
  BY DEF SearchTypes, Kinds
<1>2. TagChoices = IF least = {} THEN <<>> ELSE <<q[Max(least)]>>
  BY DEF TagChoices
<1>3. least \subseteq DOMAIN q
  OBVIOUS
<1>. HIDE DEF least
<1>4. CASE least = {}
  <2>1. TagChoices = <<>> /\ <<>> \in Seq(Find)
    BY <1>2, <1>4
  <2>2. Range(<<>>) = {}
    BY <2>1, RangeOfFinds
  <2>. QED BY <2>1, <2>2
<1>5. CASE least # {}
  <2>. HIDE DEF q
  <2>1. DOMAIN q = 1 .. Len(q) /\ Len(q) \in Nat
    BY <1>1
  <2>2. IsFiniteSet(1 .. Len(q))
    BY <2>1, FS_Interval
  <2>3. least \subseteq Int /\ IsFiniteSet(least)
    BY <1>3, <2>1, <2>2, FS_Subset
  <2>4. Max(least) \in DOMAIN q
    BY <1>3, <1>5, <2>3, FiniteHasBounds
  <2>. DEFINE a == q[Max(least)]
  <2>5. a \in Find /\ TagChoices = <<a>> /\ a \in Range(q)
    BY <1>1, <1>2, <1>5, <2>1, <2>4 DEF Range
  <2>6. <<a>> \in Seq(Find) /\ Range(<<a>>) = {a}
    <3>. HIDE DEF a
    <3>1. <<a>> \in Seq(Find) /\ DOMAIN <<a>> = {1} /\ <<a>>[1] = a
      BY <2>5
    <3>. QED BY ONLY <3>1 DEF Range
  <2>. QED BY <2>4, <2>5, <2>6 DEF q
<1>. QED BY <1>4, <1>5

LEMMA CombineStep == ASSUME SearchInv, FoundInv, Combine PROVE SearchInv' /\ FoundInv'
<1>1. /\ SearchTypes /\ phase' \in {"no_tag", "choose"}
      /\ evaluation' = evaluation /\ pos' = pos /\ found' = found /\ low' = low /\ cursor' = 1
      /\ arr' = arr \/ arr' = [arr EXCEPT !["tag"] = TagChoices]
  BY DEF Combine, SearchInv
<1>2. arr \in [Kinds -> Seq(Find)]
  BY <1>1 DEF SearchTypes
<1>3. arr' \in [Kinds -> Seq(Find)] /\ \A kind \in Kinds : Range(arr'[kind]) \subseteq Range(arr[kind])
  <2>1. TagChoices \in Seq(Find) /\ Range(TagChoices) \subseteq Range(arr["tag"])
    BY <1>1, TagChoicesIs
  <2>2. CASE arr' = arr
    BY <1>2, <2>2
  <2>3. CASE arr' = [arr EXCEPT !["tag"] = TagChoices]
    <3>1. arr' \in [Kinds -> Seq(Find)] /\ arr'["tag"] = TagChoices /\ arr'["data"] = arr["data"]
      BY <1>2, <2>1, <2>3 DEF Kinds
    <3>. QED BY <2>1, <3>1 DEF Kinds
  <2>. QED BY <1>1, <2>2, <2>3
<1>. QED BY <1>1, <1>3, TypesStay, FoundStay DEF SearchInv

LEMMA LaterStep ==
  ASSUME SearchInv, FoundInv, Consider \/ Finish
  PROVE  SearchInv' /\ FoundInv'
<1>1. SearchTypes
  BY DEF SearchInv
<1>2. arr \in [Kinds -> Seq(Find)] /\ cursor \in Nat \ {0}
  BY <1>1 DEF SearchTypes
<1>3. /\ evaluation' = evaluation /\ pos' = pos /\ found' = found /\ low' = low /\ arr' = arr
      /\ phase' \notin Kinds /\ cursor' \in {cursor, cursor + 1, 2}
  BY DEF Consider, Finish, Erase, Pass, Kinds
<1>4. cursor' \in Nat \ {0}
  BY <1>2, <1>3
<1>. QED BY <1>1, <1>2, <1>3, <1>4, TypesStay, FoundStay DEF SearchInv, Kinds

LEMMA SearchInitially == Init => SearchInv /\ FoundInv
<1>. SUFFICES ASSUME Init PROVE SearchInv /\ FoundInv
  OBVIOUS
<1>. DEFINE none == [tag |-> <<>>, data |-> <<>>]
            unset == [tag |-> Unset, data |-> Unset]
<1>1. /\ evaluation \in Evaluation /\ phase = IF config.ram THEN "data" ELSE "tag"
      /\ pos = [t \in Thread |-> 1] /\ found = [t \in Thread |-> none]
      /\ low = [t \in Thread |-> unset] /\ arr = none /\ cursor = 1
  BY DEF Init
<1>2. none = [k \in Kinds |-> <<>>] /\ <<>> \in Seq(Find)
  BY DEF Kinds
<1>3. none \in [Kinds -> Seq(Find)] /\ \A k \in Kinds : none[k] = <<>> /\ Range(none[k]) = {}
  <2>1. Range(<<>>) = {}
    BY <1>2, RangeOfFinds
  <2>. QED BY <1>2, <2>1
<1>4. unset = [k \in Kinds |-> Unset] /\ Unset \in [Measure -> Nat]
  BY BignumAssumption DEF Kinds, Unset
<1>5. unset \in [Kinds -> [Measure -> Nat]] /\ \A k \in Kinds : unset[k] = Unset
  BY <1>4
<1>. HIDE DEF none, unset
<1>6. SearchTypes
  <2>1. \A t \in Thread : pos[t] = 1 /\ pos[t] <= Len(Work(t)) + 1
    BY <1>1, WorkIs
  <2>. QED BY <1>1, <1>3, <1>5, <2>1 DEF SearchTypes
<1>7. ASSUME NEW t \in Thread, NEW k \in Kinds PROVE SoFar(t, k)
  <2>1. Seen(t) = {}
    BY <1>1 DEF Seen
  <2>2. ValidIn(k, Seen(t)) = {}
    BY <2>1 DEF ValidIn
  <2>3. Values(k, Seen(t)) = {} /\ FoundOf(t, ValidIn(k, Seen(t))) = {}
    BY <2>2 DEF Values, FoundOf
  <2>. QED BY <1>1, <1>3, <1>5, <2>3, LowestOfNone DEF SoFar
<1>8. FoundInv
  BY <1>1, <1>3 DEF FoundInv
<1>. QED BY <1>1, <1>3, <1>5, <1>6, <1>7, <1>8 DEF SearchInv, Kinds

LEMMA SearchStays ==
  ASSUME SearchInv, FoundInv, UNCHANGED searchVars
  PROVE  SearchInv' /\ FoundInv'
<1>1. /\ evaluation' = evaluation /\ config' = config /\ phase' = phase /\ pos' = pos /\ found' = found
      /\ low' = low /\ arr' = arr /\ cursor' = cursor
  BY DEF searchVars
<1>2. SearchTypes' /\ FoundInv'
  BY <1>1, TypesStay, FoundStay DEF SearchInv, SearchTypes
<1>3. \A t \in Thread, k \in Kinds : SoFar(t, k)' <=> SoFar(t, k)
  <2>1. ASSUME NEW t \in Thread PROVE Seen(t)' = Seen(t)
    BY <1>1 DEF Seen, Work
  <2>2. ASSUME NEW t \in Thread, NEW k \in Kinds
        PROVE  ValidIn(k, Seen(t))' = ValidIn(k, Seen(t))
    BY <1>1, <2>1 DEF ValidIn
  <2>3. ASSUME NEW t \in Thread, NEW k \in Kinds
        PROVE  Values(k, Seen(t))' = Values(k, Seen(t))
    BY <1>1, <2>2 DEF Values
  <2>4. ASSUME NEW t \in Thread, NEW k \in Kinds
        PROVE  Lowest(Values(k, Seen(t)))' = Lowest(Values(k, Seen(t)))
    BY <2>3 DEF Lowest
  <2>5. ASSUME NEW t \in Thread, NEW k \in Kinds
        PROVE  FoundOf(t, ValidIn(k, Seen(t)))' = FoundOf(t, ValidIn(k, Seen(t)))
    BY <2>2 DEF FoundOf
  <2>. QED BY <1>1, <2>4, <2>5 DEF SoFar
<1>4. \A t \in Thread : Lowest(Values("tag", Share(t)))' = Lowest(Values("tag", Share(t)))
  BY <1>1 DEF Lowest, Values, ValidIn, Share
<1>5. Unset' = Unset
  BY DEF Unset
<1>. QED BY <1>1, <1>2, <1>3, <1>4, <1>5 DEF SearchInv, Kinds

LEMMA SearchInductive == Spec => [](SearchInv /\ FoundInv)
<1>1. SearchInv /\ FoundInv /\ [Next]_searchVars => (SearchInv /\ FoundInv)'
  <2>. SUFFICES ASSUME SearchInv, FoundInv, [Next]_searchVars PROVE SearchInv' /\ FoundInv'
    OBVIOUS
  <2>1. ASSUME NEW t \in Thread, Evaluate(t) PROVE SearchInv' /\ FoundInv'
    <3>. DEFINE o == Work(t)[pos[t]]
    <3>1. SearchTypes /\ phase \in Kinds /\ ~Finished(t) /\ Keep(t, phase, o) /\ SearchUnchanged
      BY <2>1 DEF SearchInv, Evaluate, Kinds
    <3>2. o \in Org
      BY <3>1, SeenIs DEF Share
    <3>3. PICK k \in Kinds : k = phase
      BY <3>1
    <3>4. Keep(t, k, o)
      BY <3>1, <3>3
    <3>. HIDE DEF o
    <3>5. FoundInv'
      BY <3>1, <3>2, <3>4, FoundEvaluated
    <3>. QED BY <2>1, <3>5, EvaluateStep
  <2>2. ASSUME NEW t \in Thread, EvaluateForced(t) PROVE SearchInv' /\ FoundInv'
    <3>1. SearchTypes /\ Keep(t, "data", ForcedOrg) /\ SearchUnchanged
      BY <2>2 DEF SearchInv, EvaluateForced
    <3>2. FoundInv'
      BY <3>1, ForcedIsOrg, FoundEvaluated DEF Kinds
    <3>. QED BY <2>2, <3>2, ForcedStep
  <2>3. CASE EndTags
    BY <2>3, EndTagsStep
  <2>4. CASE EndData
    BY <2>4, EndDataStep
  <2>5. CASE FilterData
    BY <2>5, FilterStep
  <2>6. CASE Combine
    BY <2>6, CombineStep
  <2>7. CASE Consider \/ Finish
    BY <2>7, LaterStep
  <2>8. CASE UNCHANGED searchVars
    BY <2>8, SearchStays
  <2>. QED BY <2>1, <2>2, <2>3, <2>4, <2>5, <2>6, <2>7, <2>8 DEF Next
<1>. QED BY <1>1, SearchInitially, PTL DEF Spec

\* SearchIsComplete: for any number of threads, of partitions, rows and wire types, and in
\* whatever order the threads run, the merged list holds every valid partition once and in
\* the order of mem_array::lt, and the least measures are those of all.
THEOREM SearchTheorem == Spec => SearchIsComplete
<1>. DEFINE A == /\ phase = "tag" /\ phase' # phase => IsEvery(arr'.tag, "tag")
                 /\ phase = "data" /\ phase' # phase /\ ~config.forced =>
                      /\ IsEvery(arr'.data, "data")
                      /\ min'.data = LowestOf("data")
                      /\ ~config.ram => min'.tag = LowestOf("tag")
<1>1. SearchInv /\ FoundInv /\ [Next]_searchVars => [A]_searchVars
  <2>. SUFFICES ASSUME SearchInv, FoundInv, Next PROVE A
    OBVIOUS
  <2>1. CASE EndTags
    BY <2>1, EndTagsStep DEF EndTags
  <2>2. CASE EndData
    BY <2>2, EndDataStep DEF EndData
  <2>3. CASE \E t \in Thread : Evaluate(t) \/ EvaluateForced(t)
    <3>1. phase' = phase
      BY <2>3 DEF Evaluate, EvaluateForced, SearchUnchanged
    <3>. QED BY <3>1
  <2>4. CASE FilterData \/ Combine \/ Consider \/ Finish
    <3>1. phase \notin Kinds
      BY <2>4 DEF FilterData, Combine, Consider, Finish, Kinds
    <3>. QED BY <3>1 DEF Kinds
  <2>. QED BY <2>1, <2>2, <2>3, <2>4 DEF Next
<1>2. Spec => [][A]_searchVars
  <2>. HIDE DEF A
  <2>. QED BY <1>1, SearchInductive, PTL DEF Spec
<1>. QED BY <1>2 DEF SearchIsComplete

LEMMA TimesMonotone ==
  ASSUME NEW a \in Nat, NEW b \in Nat, NEW c \in Nat, b <= c
  PROVE  a * b <= a * c /\ a * b \in Nat /\ a * c \in Nat
<1>1. PICK k \in Nat : c = b + k
  <2>1. c - b \in Nat /\ c = b + (c - b)
    OBVIOUS
  <2>. QED BY <2>1
<1>2. a * c = a * b + a * k /\ a * b \in Nat /\ a * k \in Nat
  BY <1>1
<1>3. a * b \in Nat /\ a * k \in Nat
  BY <1>2
<1>4. ASSUME NEW x \in Nat, NEW y \in Nat PROVE x <= x + y
  OBVIOUS
<1>. QED BY <1>2, <1>4

\* The weighted sum against the least measures is below the weighted product.
LEMMA WeightedIsBelow ==
  ASSUME NEW m \in [Measure -> Nat], NEW least \in [Measure -> Nat],
         \A f \in Measure : least[f] <= m[f], Affordable(m.access_time, m.dynamic)
  PROVE  Weighted(m, least) \in 0 .. BIGNUM - 1
<1>. DEFINE a == m["access_time"]
            e == m["dynamic"]
            a0 == least["access_time"]
            e0 == least["dynamic"]
            v == delay_wt
            w == dynamic_power_wt
<1>1. a \in Nat /\ e \in Nat /\ a0 \in Nat /\ e0 \in Nat /\ a0 <= a /\ e0 <= e
      /\ v \in Nat /\ w \in Nat
  BY SearchAssumption DEF Measure
<1>2. Weighted(m, least) = v * a * e0 + w * e * a0
  BY DEF Weighted
<1>3. (v + w) * a * e \in 0 .. BIGNUM - 1
  BY DEF Affordable
<1>. HIDE DEF a, e, a0, e0, v, w
<1>4. v * a \in Nat /\ w * e \in Nat
  BY <1>1
<1>5. v * a * e0 <= v * a * e /\ v * a * e0 \in Nat /\ v * a * e \in Nat
  BY <1>1, <1>4, TimesMonotone
<1>6. w * e * a0 <= w * e * a /\ w * e * a0 \in Nat /\ w * e * a \in Nat
  BY <1>1, <1>4, TimesMonotone
<1>7. (v + w) * a * e = v * a * e + w * e * a
  BY <1>1
<1>8. v * a * e0 + w * e * a0 <= v * a * e + w * e * a
      /\ v * a * e0 + w * e * a0 \in Nat
  BY ONLY <1>5, <1>6
<1>9. BIGNUM \in Nat
  BY BignumAssumption
<1>. QED BY <1>2, <1>3, <1>7, <1>8, <1>9

LEMMA PairIsMeasure ==
  ASSUME NEW a \in Nat, NEW e \in Nat
  PROVE  [access_time |-> a, dynamic |-> e] \in [Measure -> Nat]
<1>1. [access_time |-> a, dynamic |-> e] = [f \in Measure |-> IF f = "access_time" THEN a ELSE e]
  BY DEF Measure
<1>. QED BY <1>1

\* What two arrays make together.
Joint(y, x) == [tag |-> y, data |-> x]

LEMMA CombinedIs ==
  ASSUME evaluation \in Evaluation, config \in Config,
         NEW x \in FindIn("data"), NEW y, config.ram \/ y \in FindIn("tag")
  PROVE  /\ Combined(Joint(y, x)) \in [Measure -> Nat]
         /\ Affordable(Combined(Joint(y, x)).access_time, Combined(Joint(y, x)).dynamic)
<1>. DEFINE s == Joint(y, x)
            d == evaluation.data[x.org]
            t == evaluation.tag[y.org]
<1>1. config.ram \in BOOLEAN /\ config.access \in {"fast", "sequential", "normal"}
  BY InputAssumption
<1>2. x.org \in Org /\ d # Invalid /\ DataOf(s.data) = d /\ TagOf(s.tag) = t
  BY DEF FindIn, Find, DataOf, TagOf, Joint
<1>3. d["access_time"] \in Nat /\ d["dynamic"] \in Nat /\ d["mux"] \in Nat /\ d["before"] \in Nat
      /\ d["after"] \in Nat
  BY <1>2, ArrayAssumption DEF Measure
<1>4. CASE config.ram
  <2>1. Combined(s) = [access_time |-> d.access_time, dynamic |-> d.dynamic]
    BY <1>2, <1>4 DEF Combined
  <2>2. Affordable(d.access_time, d.dynamic)
    BY <1>2, BignumAssumption
  <2>. QED BY <1>3, <2>1, <2>2, PairIsMeasure
<1>5. CASE ~config.ram
  <2>1. y.org \in Org /\ t # Invalid
    BY <1>5 DEF FindIn, Find
  <2>2. t["access_time"] \in Nat /\ t["dynamic"] \in Nat
    BY <2>1, ArrayAssumption DEF Measure
  <2>3. Combined(s) = [access_time |-> Delay(t, d), dynamic |-> d.dynamic + t.dynamic]
    BY <1>2, <1>5 DEF Combined
  <2>4. Delay(t, d) \in {FastDelay(t, d), SequentialDelay(t, d), NormalDelay(t, d)}
    BY <1>1 DEF Delay
  <2>5. Delay(t, d) \in Nat
    BY <1>3, <2>2, <2>4 DEF FastDelay, SequentialDelay, NormalDelay, Larger
  <2>6. Affordable(Delay(t, d), d.dynamic + t.dynamic)
    BY <1>2, <2>1, <2>4, BignumAssumption
  <2>7. d.dynamic + t.dynamic \in Nat
    BY <1>3, <2>2
  <2>. QED BY <2>3, <2>5, <2>6, <2>7, PairIsMeasure
<1>. QED BY <1>1, <1>4, <1>5

-----------------------------------------------------------------------------
(* The combinations and their costs.                                       *)

Sols == Solutions(arr.tag, arr.data)
CostAt(i) == Cost(Combined(Sols[i]))
MeetsAt(i) == Meets(Combined(Sols[i]))
Pair == [tag : Find \cup {NoTag}, data : Find]
ByProduct == config.ed \in {1, 2}
\* What is still to be looked at is the end of the list of combinations.
Gone == Len(arr.data) - Len(sol_list)
PickList ==
  /\ sol_list \in Seq(Pair) /\ Len(sol_list) <= Len(arr.data)
  /\ cursor = 1 => Len(sol_list) = Len(arr.data)
  /\ \A i \in cursor .. Len(sol_list) : sol_list[i] = Sols[i + Gone]
PickCosts ==
  /\ \A i \in 1 .. Len(arr.data) : CostAt(i) \in 0 .. BIGNUM - 1
  /\ min_cost \in 0 .. BIGNUM
  /\ min_cost # BIGNUM => min_cost = Cost(Combined(best))
  /\ \A i \in 1 .. Len(arr.data) :
       i < cursor + Gone /\ (ByProduct \/ i # 2) /\ MeetsAt(i) => min_cost <= CostAt(i)
PickInv ==
  /\ config \in Config /\ "cache" \in DOMAIN min
  /\ phase \in {"tag", "data", "filter"} => min_cost = BIGNUM
  /\ phase = "choose" \/ Chosen => PickList /\ PickCosts
  /\ Chosen => cursor > Len(sol_list) /\ (phase = "done" <=> min_cost # BIGNUM)

LEMMA PickedIsLeast == SearchInv /\ PickInv => PicksLeastOfTheRest
<1>. SUFFICES ASSUME SearchInv, PickInv, Chosen
              PROVE  LET rest(D) == IF config.ed \in {1, 2} THEN D ELSE D \ {2}
                     IN  PickedAmong(rest)
  BY DEF PicksLeastOfTheRest
<1>. DEFINE n == Len(arr.data)
            D == DOMAIN Sols
            R == IF config.ed \in {1, 2} THEN D ELSE D \ {2}
            E == Eligible(Sols) \cap R
<1>1. arr["data"] \in Seq(Find) /\ cursor \in Nat \ {0}
  BY DEF SearchInv, SearchTypes, Kinds
<1>2. n \in Nat /\ D = 1 .. n
  BY <1>1 DEF Sols, Solutions
<1>3. sol_list \in Seq(Pair) /\ cursor > Len(sol_list) /\ PickCosts
      /\ (phase = "done" <=> min_cost # BIGNUM)
  BY DEF PickInv, PickList
<1>4. Len(sol_list) \in Nat /\ \A i \in 1 .. n : i < cursor + Gone
  BY <1>1, <1>2, <1>3 DEF Gone
<1>5. ASSUME NEW i \in E PROVE min_cost <= CostAt(i) /\ CostAt(i) \in 0 .. BIGNUM - 1
  <2>1. i \in 1 .. n /\ (ByProduct \/ i # 2) /\ MeetsAt(i)
    BY <1>2, <1>5 DEF Eligible, MeetsAt, ByProduct
  <2>. QED BY <1>3, <1>4, <2>1 DEF PickCosts
<1>6. CASE phase = "done"
  <2>1. min_cost = Cost(Combined(best))
    BY <1>3, <1>6 DEF PickCosts
  <2>2. \A i \in E : min_cost <= Cost(Combined(Sols[i]))
    BY <1>5 DEF CostAt
  <2>. QED BY <1>6, <2>1, <2>2 DEF PickedAmong, Sols
<1>7. CASE phase = "no_solution"
  <2>1. min_cost = BIGNUM /\ BIGNUM \in Nat
    BY <1>3, <1>7, BignumAssumption
  <2>2. E = {}
    <3>. HIDE DEF E
    <3>. QED BY <1>5, <2>1
  <2>. QED BY <1>7, <2>2 DEF PickedAmong, Sols
<1>. QED BY <1>6, <1>7 DEF Chosen

-----------------------------------------------------------------------------
(* The steps until one is picked.                                          *)

LEMMA PickInitially == Init => PickInv
BY DEF Init, PickInv, Chosen

LEMMA BeforePick ==
  ASSUME PickInv, NEW t \in Thread,
         Evaluate(t) \/ EvaluateForced(t) \/ EndTags \/ EndData \/ FilterData
  PROVE  PickInv'
<1>1. /\ phase \in {"tag", "data", "filter"} /\ config' = config /\ min_cost' = min_cost
      /\ phase' \in {"tag", "data", "filter", "no_data"}
      /\ "cache" \in DOMAIN min'
  BY DEF PickInv, Evaluate, EvaluateForced, SearchUnchanged, EndTags, EndData, FilterData
<1>. QED BY <1>1 DEF PickInv, Chosen

\* Nothing that costs are made of changes while one is picked.
LEMMA CostsStay ==
  ASSUME evaluation' = evaluation, config' = config, arr' = arr, min' = min
  PROVE  /\ Sols' = Sols /\ ByProduct' = ByProduct
         /\ \A i : CostAt(i)' = CostAt(i) /\ MeetsAt(i)' = MeetsAt(i)
         /\ \A s : Cost(Combined(s))' = Cost(Combined(s))
<1>1. Sols' = Sols /\ ByProduct' = ByProduct
  BY DEF Sols, Solutions, ByProduct
<1>2. \A s : Combined(s)' = Combined(s)
  BY DEF Combined, Delay, DataOf, TagOf
<1>3. \A m : Cost(m)' = Cost(m) /\ Meets(m)' = Meets(m)
  BY DEF Cost, Meets, Weighted, Within
<1>. QED BY <1>1, <1>2, <1>3 DEF CostAt, MeetsAt

LEMMA BestStays ==
  ASSUME evaluation' = evaluation, config' = config, min' = min, best' = best
  PROVE  Cost(Combined(best))' = Cost(Combined(best))
<1>1. Combined(best)' = Combined(best)
  BY DEF Combined, Delay, DataOf, TagOf
<1>2. PICK m : m = Combined(best)
  OBVIOUS
<1>3. Cost(m)' = Cost(m)
  BY DEF Cost, Weighted
<1>4. Cost(Combined(best))' = Cost(m)'
  BY <1>1, <1>2
<1>. QED BY <1>2, <1>3, <1>4

LEMMA FinishStep == ASSUME SearchInv, PickInv, Finish PROVE PickInv'
<1>1. /\ phase = "choose" /\ cursor > Len(sol_list)
      /\ phase' = IF min_cost = BIGNUM THEN "no_solution" ELSE "done"
      /\ evaluation' = evaluation /\ config' = config /\ arr' = arr /\ min' = min
      /\ sol_list' = sol_list /\ cursor' = cursor /\ best' = best /\ min_cost' = min_cost
  BY DEF Finish
<1>2. PickList /\ PickCosts
  BY <1>1 DEF PickInv
<1>3. PickList'
  BY <1>1, <1>2, CostsStay DEF PickList, Gone
<1>4. PickCosts'
  <2>1. Cost(Combined(best))' = Cost(Combined(best))
    BY <1>1, BestStays
  <2>. QED BY <1>1, <1>2, <2>1, CostsStay DEF PickCosts, Gone
<1>. QED BY <1>1, <1>3, <1>4 DEF PickInv, Chosen

\* From c on, q ends as the list full of n elements does.
EndsAs(q, c, full, n) == \A i \in c .. Len(q) : q[i] = full[i + (n - Len(q))]

\* The list and the cursor after one combination was looked at: it stays, or
\* it is erased.
LEMMA EraseKeepsTail ==
  ASSUME NEW S, NEW q \in Seq(S), NEW n \in Nat, Len(q) <= n, NEW full,
         NEW c \in 1 .. Len(q), NEW d \in {c, 2}, c # 1 => d = c, c = 1 => d = 2,
         EndsAs(q, c, full, n)
  PROVE  /\ RemoveAt(q, c) \in Seq(S) /\ Len(RemoveAt(q, c)) = Len(q) - 1
         /\ EndsAs(RemoveAt(q, c), d, full, n)
<1>. DEFINE r == RemoveAt(q, c)
            l == Len(q)
<1>1. r \in Seq(S) /\ Len(r) = l - 1 /\ \A j \in 1 .. l - 1 : r[j] = IF j < c THEN q[j] ELSE q[j + 1]
  BY RemoveAtIs
<1>2. l \in Nat /\ c \in 1 .. l /\ d >= c /\ d \in Nat
  OBVIOUS
<1>3. \A i \in c .. l : q[i] = full[i + (n - l)]
  BY DEF EndsAs
<1>. HIDE DEF r, l
<1>4. ASSUME NEW i \in d .. l - 1 PROVE r[i] = full[i + (n - (l - 1))]
  <2>1. i \in 1 .. l - 1 /\ ~(i < c) /\ i + 1 \in c .. l /\ i + 1 + (n - l) = i + (n - (l - 1))
    BY <1>2
  <2>2. r[i] = q[i + 1] /\ q[i + 1] = full[i + 1 + (n - l)]
    BY <1>1, <1>3, <2>1
  <2>. QED BY <2>1, <2>2
<1>5. Len(r) = l - 1
  BY <1>1
<1>6. EndsAs(r, d, full, n)
  BY ONLY <1>4, <1>5 DEF EndsAs
<1>. QED BY <1>1, <1>6 DEF r, l

LEMMA PickedOneMore ==
  ASSUME PickCosts, evaluation' = evaluation, config' = config, arr' = arr, min' = min,
         NEW s, NEW k \in 1 .. Len(arr.data), k = cursor + Gone, s = Sols[k],
         IF Cheaper(Combined(s)) THEN best' = s /\ min_cost' = Cost(Combined(s))
                                 ELSE best' = best /\ min_cost' = min_cost,
         NEW later, later = (cursor + Gone)', later = k + 1 \/ (later = 3 /\ k = 1 /\ ~ByProduct)
  PROVE  PickCosts'
<1>. DEFINE n == Len(arr.data)
            x == Cost(Combined(s))
<1>1. /\ \A i \in 1 .. n : CostAt(i) \in 0 .. BIGNUM - 1
      /\ min_cost \in 0 .. BIGNUM
      /\ min_cost # BIGNUM => min_cost = Cost(Combined(best))
      /\ \A i \in 1 .. n : i < k /\ (ByProduct \/ i # 2) /\ MeetsAt(i) => min_cost <= CostAt(i)
  BY DEF PickCosts
<1>2. x = CostAt(k) /\ (Meets(Combined(s)) <=> MeetsAt(k)) /\ BIGNUM \in Nat
  BY BignumAssumption DEF CostAt, MeetsAt
<1>3. x \in 0 .. BIGNUM - 1 /\ min_cost \in Int /\ x \in Int
  BY <1>1, <1>2
<1>4. Cheaper(Combined(s)) <=> MeetsAt(k) /\ x < min_cost
  BY <1>2 DEF Cheaper
<1>5. min_cost' \in 0 .. BIGNUM /\ min_cost' <= min_cost /\ (MeetsAt(k) => min_cost' <= x)
  BY <1>1, <1>2, <1>3, <1>4
<1>6. min_cost' # BIGNUM => min_cost' = Cost(Combined(best))'
  <2>1. CASE best' = s /\ min_cost' = x
    <3>1. Cost(Combined(s))' = Cost(Combined(s))
      BY CostsStay
    <3>2. Cost(Combined(best))' = Cost(Combined(s))'
      BY <2>1
    <3>. QED BY <2>1, <3>1, <3>2
  <2>2. CASE best' = best /\ min_cost' = min_cost
    <3>1. Cost(Combined(best))' = Cost(Combined(best))
      BY <2>2, BestStays
    <3>. QED BY <1>1, <2>2, <3>1
  <2>. QED BY <2>1, <2>2
<1>7. ASSUME NEW i \in 1 .. n, i < later, ByProduct \/ i # 2, MeetsAt(i)
      PROVE  min_cost' <= CostAt(i)
  <2>1. CostAt(i) \in Int
    BY <1>1
  <2>2. i < k \/ i = k
    <3>1. k \in Nat /\ i \in Nat
      OBVIOUS
    <3>. QED BY <1>7, <3>1
  <2>3. CASE i < k
    BY <1>1, <1>3, <1>5, <1>7, <2>1, <2>3
  <2>4. CASE i = k
    BY <1>2, <1>5, <1>7, <2>4
  <2>. QED BY <2>2, <2>3, <2>4
<1>8. /\ n' = n /\ (ByProduct' <=> ByProduct) /\ BIGNUM' = BIGNUM
      /\ \A i : CostAt(i)' = CostAt(i) /\ MeetsAt(i)' = MeetsAt(i)
  BY CostsStay
<1>9. PickCosts' <=> /\ \A i \in 1 .. n' : CostAt(i)' \in 0 .. BIGNUM - 1
                     /\ min_cost' \in 0 .. BIGNUM
                     /\ min_cost' # BIGNUM => min_cost' = Cost(Combined(best))'
                     /\ \A i \in 1 .. n' : i < later /\ (ByProduct' \/ i # 2) /\ MeetsAt(i)'
                                           => min_cost' <= CostAt(i)'
  BY DEF PickCosts
<1>. HIDE DEF n
<1>. QED BY <1>1, <1>5, <1>6, <1>7, <1>8, <1>9

LEMMA ConsiderStep == ASSUME SearchInv, PickInv, Consider PROVE PickInv'
<1>. DEFINE n == Len(arr.data)
            l == Len(sol_list)
            k == cursor + Gone
            m == Combined(sol_list[cursor])
            erased == ~ByProduct /\ (Cheaper(m) \/ ~Meets(m))
<1>1. /\ phase = "choose" /\ phase' = "choose" /\ cursor <= l
      /\ IF Cheaper(m) THEN best' = sol_list[cursor] /\ min_cost' = Cost(m)
                       ELSE best' = best /\ min_cost' = min_cost
      /\ IF erased THEN Erase ELSE Pass
      /\ evaluation' = evaluation /\ config' = config /\ arr' = arr /\ min' = min
  BY DEF Consider, ByProduct
<1>2. PickList /\ PickCosts /\ config \in Config
  BY <1>1 DEF PickInv
<1>3. cursor \in Nat \ {0} /\ arr["data"] \in Seq(Find)
  BY DEF SearchInv, SearchTypes, Kinds
<1>4. n \in Nat /\ l \in Nat /\ l <= n /\ sol_list \in Seq(Pair) /\ (cursor = 1 => l = n)
      /\ \A i \in cursor .. l : sol_list[i] = Sols[i + Gone]
  BY <1>2, <1>3 DEF PickList
<1>5. Gone = n - l /\ Gone \in Nat /\ k \in 1 .. n /\ cursor \in 1 .. l
  BY <1>1, <1>3, <1>4 DEF Gone
<1>6. sol_list[cursor] = Sols[k] /\ Cost(m) = CostAt(k) /\ (Meets(m) <=> MeetsAt(k))
  <2>1. cursor \in cursor .. l
    BY <1>5
  <2>2. sol_list[cursor] = Sols[k]
    BY <1>4, <2>1
  <2>. QED BY <2>2 DEF CostAt, MeetsAt
<1>7. CASE erased
  <2>. DEFINE d == IF cursor = 1 THEN 2 ELSE cursor
  <2>1. sol_list' = RemoveAt(sol_list, cursor) /\ cursor' = d
    BY <1>1, <1>5, <1>7 DEF Erase, ErasesLater
  <2>2. \A i \in cursor .. l : sol_list[i] = Sols[i + (n - l)]
    BY <1>4, <1>5
  <2>3. /\ RemoveAt(sol_list, cursor) \in Seq(Pair) /\ Len(RemoveAt(sol_list, cursor)) = l - 1
        /\ \A i \in d .. Len(RemoveAt(sol_list, cursor)) :
             RemoveAt(sol_list, cursor)[i] = Sols[i + (n - Len(RemoveAt(sol_list, cursor)))]
    <3>. DEFINE q == sol_list
                c == cursor
                full == Sols
    <3>1. /\ q \in Seq(Pair) /\ n \in Nat /\ Len(q) <= n /\ c \in 1 .. Len(q) /\ d \in {c, 2}
          /\ (c # 1 => d = c) /\ (c = 1 => d = 2) /\ EndsAs(q, c, full, n)
      BY <1>4, <1>5, <2>2 DEF EndsAs
    <3>. HIDE DEF q, c, full, d, n
    <3>2. /\ RemoveAt(q, c) \in Seq(Pair) /\ Len(RemoveAt(q, c)) = Len(q) - 1
          /\ EndsAs(RemoveAt(q, c), d, full, n)
      BY ONLY <3>1, EraseKeepsTail
    <3>. QED BY <3>2 DEF q, c, full, EndsAs
  <2>4. Gone' = n - (l - 1) /\ PickList' /\ cursor' + Gone' \in {k + 1, 3}
        /\ (cursor' + Gone' # k + 1 => k = 1)
    <3>. HIDE DEF n, l
    <3>1. Len(arr.data)' = n /\ Sols' = Sols /\ Len(sol_list)' = l - 1
      BY <1>1, <2>1, <2>3, CostsStay DEF n
    <3>2. Gone' = n - (l - 1)
      BY <3>1 DEF Gone
    <3>3. cursor' # 1 /\ l - 1 <= n
      BY <1>3, <1>4, <2>1
    <3>4. PickList'
      BY <2>1, <2>3, <3>1, <3>2, <3>3 DEF PickList, n
    <3>5. cursor' + Gone' \in {k + 1, 3} /\ (cursor' + Gone' # k + 1 => k = 1)
      <4>1. n \in Nat /\ l \in Nat /\ cursor \in Nat /\ k = cursor + Gone /\ Gone = n - l
            /\ Gone' = n - (l - 1) /\ (cursor = 1 => l = n)
        BY <1>3, <1>4, <1>5, <3>2
      <4>2. cursor' = IF cursor = 1 THEN 2 ELSE cursor
        BY <2>1
      <4>. HIDE DEF k
      <4>. QED BY ONLY <4>1, <4>2
    <3>. QED BY <3>2, <3>4, <3>5
  <2>5. PickCosts'
    <3>1. cursor' + Gone' = k + 1 \/ (cursor' + Gone' = 3 /\ k = 1 /\ ~ByProduct)
      BY <1>7, <2>4
    <3>. HIDE DEF k
    <3>. QED BY <1>1, <1>2, <1>5, <1>6, <3>1, PickedOneMore DEF k
  <2>. QED BY <1>1, <1>2, <2>4, <2>5 DEF PickInv, Chosen
<1>8. CASE ~erased
  <2>1. sol_list' = sol_list /\ cursor' = cursor + 1
    BY <1>1, <1>8 DEF Pass
  <2>2. Gone' = Gone
    BY <1>1, <2>1 DEF Gone
  <2>3. PickList'
    <3>1. Sols' = Sols /\ Len(arr.data)' = n /\ Len(sol_list)' = l
      BY <1>1, <2>1, CostsStay
    <3>2. cursor' # 1 /\ cursor' .. l \subseteq cursor .. l
      BY <1>3, <1>4, <2>1
    <3>. HIDE DEF n, l
    <3>. QED BY <1>4, <2>1, <2>2, <3>1, <3>2 DEF PickList, n, l
  <2>4. cursor' + Gone' = k + 1
    <3>. HIDE DEF n, l
    <3>. QED BY ONLY <1>3, <1>5, <2>1, <2>2
  <2>5. PickCosts'
    <3>. HIDE DEF k
    <3>. QED BY <1>1, <1>2, <1>5, <1>6, <2>4, PickedOneMore DEF k
  <2>. QED BY <1>1, <1>2, <2>3, <2>5 DEF PickInv, Chosen
<1>. QED BY <1>7, <1>8

\* The combinations that are picked from, their least measures, and so their costs.
LEMMA CombineStarts == ASSUME SearchInv, FoundInv, PickInv, Combine PROVE PickInv'
<1>. DEFINE datas == arr["data"]
            tags == TagChoices
            n == Len(datas)
            y == IF config.ram THEN NoTag ELSE tags[1]
            full == sol_list'
            S == {Combined(full[i]) : i \in DOMAIN full}
<1>1. CASE phase' # "choose"
  <2>1. phase' = "no_tag" /\ config' = config /\ min' = min
    BY <1>1 DEF Combine
  <2>. HIDE DEF datas, tags, full, S
  <2>. QED BY <2>1 DEF PickInv, Chosen
<1>2. CASE phase' = "choose"
  <2>1. /\ phase = "filter" /\ (config.ram \/ tags # <<>>)
        /\ arr' = [arr EXCEPT !["tag"] = tags] /\ full = Solutions(tags, datas)
        /\ min' = [min EXCEPT !["cache"] = Lowest(S)] /\ cursor' = 1
        /\ evaluation' = evaluation /\ config' = config /\ best' = best /\ min_cost' = min_cost
    BY <1>2 DEF Combine
  <2>2. config \in Config /\ min_cost = BIGNUM /\ BIGNUM \in Nat
    BY <2>1, BignumAssumption DEF PickInv
  <2>3. arr \in [Kinds -> Seq(Find)] /\ datas \in Seq(Find) /\ n \in Nat /\ DOMAIN datas = 1 .. n
    BY DEF SearchInv, SearchTypes, Kinds
  <2>4. arr'["tag"] = tags /\ arr'["data"] = datas
    BY <2>1, <2>3 DEF Kinds
  <2>5. config.ram \/ y \in FindIn("tag")
    <3>1. tags \in Seq(Find) /\ Range(tags) \subseteq FindIn("tag")
          /\ (tags = <<>> \/ \E i \in DOMAIN arr["tag"] : tags = <<arr["tag"][i]>>)
      BY TagChoicesIs DEF SearchInv, FoundInv, Kinds
    <3>2. CASE config.ram
      BY <3>2
    <3>3. CASE ~config.ram
      <4>1. y = tags[1] /\ 1 \in DOMAIN tags
        BY <2>1, <3>1, <3>3
      <4>. QED BY <3>1, <4>1 DEF Range
    <3>. QED BY <3>2, <3>3
  <2>. HIDE DEF tags
  <2>6. \A i \in 1 .. n : full[i] = Joint(y, datas[i])
    BY <2>1, <2>3 DEF Solutions, Joint
  <2>7. DOMAIN full = 1 .. n /\ Sols' = full
    <3>1. full = Solutions(arr'["tag"], arr'["data"])
      BY <2>1, <2>4
    <3>. QED BY <2>1, <2>3, <3>1 DEF Sols, Solutions
  <2>8. full \in Seq(Pair) /\ Len(full) = n
    <3>1. y \in Find \cup {NoTag}
      BY <2>5 DEF FindIn
    <3>2. full = [i \in 1 .. n |-> Joint(y, datas[i])]
      BY <2>1, <2>3 DEF Solutions, Joint
    <3>3. \A i \in 1 .. n : Joint(y, datas[i]) \in Pair
      <4>1. \A i \in 1 .. n : datas[i] \in Find
        BY <2>3
      <4>. QED BY <3>1, <4>1 DEF Joint, Pair
    <3>. QED BY <2>3, <3>2, <3>3
  <2>9. ASSUME NEW i \in 1 .. n
        PROVE  /\ Combined(full[i]) \in [Measure -> Nat] /\ Combined(full[i]) \in S
               /\ Affordable(Combined(full[i]).access_time, Combined(full[i]).dynamic)
    <3>1. datas[i] \in FindIn("data")
      <4>1. Range(datas) \subseteq FindIn("data")
        BY DEF FoundInv, Kinds
      <4>. QED BY <2>3, <4>1 DEF Range
    <3>2. evaluation \in Evaluation
      BY DEF SearchInv, SearchTypes
    <3>. HIDE DEF y, datas
    <3>3. /\ Combined(Joint(y, datas[i])) \in [Measure -> Nat]
          /\ Affordable(Combined(Joint(y, datas[i])).access_time,
                        Combined(Joint(y, datas[i])).dynamic)
      BY <2>2, <2>5, <3>1, <3>2, CombinedIs
    <3>. QED BY <2>6, <2>7, <3>3
  <2>10. Lowest(S) \in [Measure -> Nat]
         /\ \A i \in 1 .. n, f \in Measure : Lowest(S)[f] <= Combined(full[i])[f]
    <3>1. Natural(S)
      BY <2>7, <2>9 DEF Natural
    <3>2. \A i \in 1 .. n, f \in Measure : Combined(full[i])[f] \in Valued(S, f)
      BY <2>9 DEF Valued
    <3>. HIDE DEF S
    <3>. QED BY <3>1, <3>2, LowestIs
  <2>11. ASSUME NEW i \in 1 .. n PROVE CostAt(i)' \in 0 .. BIGNUM - 1
    <3>1. PICK s : s = full[i]
      OBVIOUS
    <3>2. PICK m \in [Measure -> Nat] : m = Combined(s)
      BY <2>9, <3>1
    <3>3. PICK least \in [Measure -> Nat] : least = Lowest(S)
      BY <2>10
    <3>4. (\A f \in Measure : least[f] <= m[f]) /\ Affordable(m.access_time, m.dynamic)
      BY <2>9, <2>10, <3>1, <3>2, <3>3
    <3>5. Combined(s)' = m
      BY <2>1, <2>4, <3>2 DEF Combined, Delay, DataOf, TagOf
    <3>6. CostAt(i)' = Cost(m)'
      <4>1. Sols'[i] = s
        BY <2>7, <3>1
      <4>. QED BY <3>5, <4>1 DEF CostAt
    <3>7. min'["cache"] = least
      <4>1. "cache" \in DOMAIN min
        BY DEF PickInv
      <4>. HIDE DEF S
      <4>. QED BY <2>1, <3>3, <4>1
    <3>. HIDE DEF S, full, n
    <3>8. CASE config.ed \in {1, 2}
      <4>1. Cost(m)' \in {m.access_time * m.dynamic, m.access_time * m.access_time * m.dynamic}
        BY <2>1, <3>8 DEF Cost
      <4>. QED BY <3>4, <3>6, <4>1 DEF Affordable
    <3>9. CASE config.ed \notin {1, 2}
      <4>1. Cost(m)' = Weighted(m, least)
        BY <2>1, <3>7, <3>9 DEF Cost, Weighted
      <4>2. Weighted(m, least) \in 0 .. BIGNUM - 1
        BY <3>4, WeightedIsBelow
      <4>. QED BY <3>6, <4>1, <4>2
    <3>. QED BY <3>8, <3>9
  <2>12. Len(arr.data)' = n /\ Gone' = 0
    <3>1. Len(arr.data)' = n /\ Len(sol_list)' = n
      BY <2>4, <2>8
    <3>. HIDE DEF full, n
    <3>. QED BY <2>3, <3>1 DEF Gone
  <2>13. PickList'
    <3>1. \A i \in cursor' .. Len(full) : full[i] = Sols'[i + Gone']
      <4>. HIDE DEF full
      <4>. QED BY <2>1, <2>3, <2>7, <2>8, <2>12
    <3>. HIDE DEF n
    <3>. QED BY <2>3, <2>8, <2>12, <3>1 DEF PickList
  <2>14. PickCosts'
    <3>1. min_cost' = BIGNUM' /\ BIGNUM' = BIGNUM
      BY <2>1, <2>2
    <3>2. \A i \in 1 .. n : ~(i < cursor' + Gone')
      BY <2>1, <2>3, <2>12
    <3>. HIDE DEF n
    <3>. QED BY <2>2, <2>11, <2>12, <3>1, <3>2 DEF PickCosts
  <2>15. "cache" \in DOMAIN min'
    <3>1. "cache" \in DOMAIN min
      BY DEF PickInv
    <3>. HIDE DEF S
    <3>. QED BY <2>1, <3>1
  <2>. QED BY <1>2, <2>1, <2>2, <2>13, <2>14, <2>15 DEF PickInv, Chosen
<1>. QED BY <1>1, <1>2

LEMMA PickInductive == Spec => [](SearchInv /\ PickInv)
<1>1. SearchInv /\ FoundInv /\ PickInv /\ [Next]_searchVars => PickInv'
  <2>. SUFFICES ASSUME SearchInv, FoundInv, PickInv, [Next]_searchVars PROVE PickInv'
    OBVIOUS
  <2>1. ASSUME NEW t \in Thread, Evaluate(t) \/ EvaluateForced(t) PROVE PickInv'
    BY <2>1, BeforePick
  <2>2. CASE EndTags \/ EndData \/ FilterData
    <3>1. PICK t : t \in Thread
      BY SearchConstants
    <3>. QED BY <2>2, <3>1, BeforePick
  <2>3. CASE Combine
    BY <2>3, CombineStarts
  <2>4. CASE Consider
    BY <2>4, ConsiderStep
  <2>5. CASE Finish
    BY <2>5, FinishStep
  <2>6. CASE UNCHANGED searchVars
    <3>1. /\ evaluation' = evaluation /\ config' = config /\ arr' = arr /\ min' = min
          /\ phase' = phase /\ sol_list' = sol_list /\ cursor' = cursor /\ best' = best
          /\ min_cost' = min_cost
      BY <2>6 DEF searchVars
    <3>2. Cost(Combined(best))' = Cost(Combined(best))
      BY <3>1, BestStays
    <3>3. PickList' <=> PickList
      BY <3>1, CostsStay DEF PickList, Gone
    <3>4. PickCosts' <=> PickCosts
      BY <3>1, <3>2, CostsStay DEF PickCosts, Gone
    <3>. QED BY <3>1, <3>3, <3>4 DEF PickInv, Chosen
  <2>. QED BY <2>1, <2>2, <2>3, <2>4, <2>5, <2>6 DEF Next
<1>. QED BY <1>1, PickInitially, SearchInductive, PTL DEF Spec

\* PicksLeastOfTheRest: whatever the arrays measure and in whatever order they were found,
\* what is picked costs least of all the combinations that meet the deviations, the second
\* of the list apart when no energy-delay product is asked for, and there is no solution
\* only when none of these meets them.
THEOREM PicksTheorem == Spec => []PicksLeastOfTheRest
BY PickInductive, PickedIsLeast, PTL

-----------------------------------------------------------------------------
(* CACTI's search for a cache of many banks: numbers.                      *)

LEMMA DivisionIs ==
  ASSUME NEW a \in Nat, NEW b \in Nat, b > 0
  PROVE  /\ a \div b \in Nat /\ a % b \in Nat /\ a % b < b /\ a = b * (a \div b) + (a % b)
         /\ b * (a \div b) \in Nat /\ b * (a \div b) <= a
<1>1. a \div b \in Int /\ a % b \in Int /\ 0 <= a % b /\ a % b < b
  OBVIOUS
<1>4. a = b * (a \div b) + (a % b)
  OBVIOUS
<1>2. a \div b \in Nat
  OBVIOUS
<1>3. b * (a \div b) \in Nat
  BY <1>2
<1>. QED BY <1>1, <1>2, <1>3, <1>4

LEMMA QuotientIs ==
  ASSUME NEW a \in Nat, NEW b \in Nat, b > 0, NEW q \in Nat, NEW m \in Nat, m < b, a = b * q + m
  PROVE  a \div b = q /\ a % b = m
<1>. DEFINE p == a \div b
            n == a % b
<1>1. p \in Nat /\ n \in Nat /\ n < b /\ a = b * p + n
  BY DivisionIs
<1>. HIDE DEF p, n
<1>2. ~(p < q)
  <2>. SUFFICES ASSUME p < q PROVE FALSE
    OBVIOUS
  <2>1. p + 1 \in Nat /\ p + 1 <= q
    BY <1>1
  <2>2. b * (p + 1) <= b * q /\ b * (p + 1) = b * p + b /\ b * p \in Nat /\ b * q \in Nat
    BY <1>1, <2>1, TimesMonotone
  <2>. QED BY <1>1, <2>2
<1>3. ~(q < p)
  <2>. SUFFICES ASSUME q < p PROVE FALSE
    OBVIOUS
  <2>1. q + 1 \in Nat /\ q + 1 <= p
    BY <1>1
  <2>2. b * (q + 1) <= b * p /\ b * (q + 1) = b * q + b /\ b * p \in Nat /\ b * q \in Nat
    BY <1>1, <2>1, TimesMonotone
  <2>. QED BY <1>1, <2>2
<1>4. p = q
  BY <1>1, <1>2, <1>3
<1>5. n = m
  <2>1. b * q \in Nat
    OBVIOUS
  <2>. QED BY <1>1, <1>4, <2>1
<1>. QED BY <1>4, <1>5 DEF p, n

Power(k) == 2 ^ k
LEMMA PowerIs ==
  /\ Power(0) = 1
  /\ \A k \in 0 .. 29 : Power(k) \in Nat /\ Power(k + 1) = 2 * Power(k)
BY PowerAssumption DEF Power

LEMMA PowerIsPositive == \A i \in 0 .. 30 : Power(i) \in Nat \ {0}
<1>. DEFINE B == {i \in 0 .. 30 : Power(i) \notin Nat \ {0}}
<1>. SUFFICES ASSUME B # {} PROVE FALSE
  OBVIOUS
<1>1. PICK i \in B : \A x \in B : i <= x
  <2>1. B \subseteq Nat
    OBVIOUS
  <2>. HIDE DEF B
  <2>. QED BY <2>1, LeastOf
<1>2. CASE i = 0
  BY <1>2, PowerIs
<1>3. CASE i # 0
  <2>1. i - 1 \in 0 .. 29 /\ i - 1 \notin B /\ (i - 1) + 1 = i
    BY <1>1, <1>3
  <2>2. Power(i - 1) \in Nat \ {0}
    BY <2>1
  <2>3. Power(i) = 2 * Power(i - 1)
    BY <2>1, PowerIs
  <2>. QED BY <2>2, <2>3
<1>. QED BY <1>2, <1>3

LEMMA PowersIncrease ==
  ASSUME NEW j \in 0 .. 30, NEW k \in 0 .. 30, j <= k
  PROVE  Power(j) \in Nat \ {0} /\ Power(j) <= Power(k)
<1>1. \A i \in 0 .. 30 : Power(i) \in Nat \ {0}
  BY PowerIsPositive
<1>2. ASSUME NEW i \in 0 .. 30, j <= i, Power(i) < Power(j) PROVE FALSE
  <2>. DEFINE B == {x \in j .. 30 : Power(x) < Power(j)}
  <2>1. PICK x \in B : \A y \in B : x <= y
    <3>1. B \subseteq Nat /\ i \in B
      BY <1>2
    <3>. HIDE DEF B
    <3>. QED BY <3>1, LeastOf
  <2>2. x # j /\ x - 1 \in 0 .. 29 /\ x - 1 \in j .. 30 /\ (x - 1) + 1 = x
    BY <1>1, <2>1
  <2>3. ~(Power(x - 1) < Power(j))
    BY <2>1, <2>2
  <2>4. Power(x) = 2 * Power(x - 1) /\ Power(x - 1) \in Nat
    BY <2>2, PowerIs
  <2>5. Power(x) \in Nat /\ Power(j) \in Nat /\ Power(x) < Power(j)
    BY <1>1, <2>1
  <2>. QED BY <2>3, <2>4, <2>5
<1>. QED BY <1>1, <1>2

\* Of a number below 2^31 logtwo has a value.
LEMMA FloorLogIs ==
  ASSUME NEW n \in Nat, n > 0, n \div Power(30) <= 1
  PROVE  FloorLog(n) \in 0 .. 30 /\ Power(FloorLog(n)) <= n /\ n < 2 * Power(FloorLog(n))
<1>. DEFINE S == {k \in 0 .. 30 : Power(k) <= n}
<1>1. \A k \in 0 .. 30 : Power(k) \in Nat \ {0}
  BY PowerIsPositive
<1>2. S \subseteq Int /\ IsFiniteSet(S) /\ 0 \in S
  <2>1. IsFiniteSet(0 .. 30)
    <3>1. \A a, b \in Int : IsFiniteSet(a .. b)
      BY FS_Interval
    <3>2. 0 \in Int /\ 30 \in Int
      OBVIOUS
    <3>. QED BY ONLY <3>1, <3>2
  <2>2. IsFiniteSet(S)
    BY <2>1, FS_Subset
  <2>. QED BY <2>2, PowerIs
<1>3. Max(S) \in S /\ \A x \in S : x <= Max(S)
  <2>. HIDE DEF S
  <2>. QED BY <1>2, FiniteHasBounds
<1>4. PICK k \in S : k = Max(S)
  BY <1>3
<1>5. n < 2 * Power(k)
  <2>1. CASE k = 30
    <3>. DEFINE p == Power(30)
    <3>1. p \in Nat \ {0} /\ n \div p <= 1
      BY <1>1
    <3>. HIDE DEF p
    <3>2. n % p < p /\ n = p * (n \div p) + (n % p) /\ n \div p \in Nat /\ n % p \in Nat
      BY <3>1, DivisionIs
    <3>3. p * (n \div p) <= p
      <4>1. n \div p = 0 \/ n \div p = 1
        BY <3>1, <3>2
      <4>. QED BY <3>1, <4>1
    <3>4. p * (n \div p) \in Nat
      BY <3>1, <3>2
    <3>5. n < 2 * p
      BY <3>1, <3>2, <3>3, <3>4
    <3>. QED BY <2>1, <3>5 DEF p
  <2>2. CASE k # 30
    <3>1. k \in 0 .. 29 /\ k + 1 \in 0 .. 30 /\ k + 1 \notin S
      BY <1>3, <1>4, <2>2
    <3>2. Power(k + 1) = 2 * Power(k) /\ Power(k + 1) \in Nat
      BY <1>1, <3>1, PowerIs
    <3>. QED BY <3>1, <3>2
  <2>. QED BY <2>1, <2>2
<1>6. n \div Power(k) = 1
  <2>. DEFINE p == Power(k)
  <2>1. p \in Nat /\ p > 0 /\ p <= n /\ n < 2 * p
    BY <1>1, <1>5
  <2>. HIDE DEF p
  <2>2. n - p \in Nat /\ n - p < p /\ n = p * 1 + (n - p)
    BY <2>1
  <2>3. n \div p = 1
    BY <2>1, <2>2, QuotientIs
  <2>. QED BY <2>3 DEF p
<1>7. FloorLog(n) \in 0 .. 30 /\ n \div Power(FloorLog(n)) = 1
  BY <1>6 DEF FloorLog, Power
<1>8. ASSUME NEW l \in 0 .. 30, n \div Power(l) = 1 PROVE Power(l) <= n /\ n < 2 * Power(l)
  <2>. DEFINE p == Power(l)
  <2>1. p \in Nat /\ p > 0 /\ n \div p = 1
    BY <1>1, <1>8
  <2>. HIDE DEF p
  <2>2. n % p < p /\ n % p \in Nat /\ n = p * (n \div p) + (n % p)
    BY <2>1, DivisionIs
  <2>3. p <= n /\ n < 2 * p
    BY <2>1, <2>2
  <2>. QED BY <2>3 DEF p
<1>. QED BY <1>7, <1>8

-----------------------------------------------------------------------------
(* The organisations.                                                      *)

LEMMA NucaConstants ==
  ASSUME nuca_ip \in NucaInputs
  PROVE  /\ MIN_BANKSIZE \in Nat \ {0} /\ Low_swing \in Nat \ {0} /\ ROUTER_TYPES \in Nat \ {0}
         /\ nuca_ip.cache_sz \in Nat \ {0} /\ nuca_ip.cache_sz \div 2 ^ 30 <= 1
         /\ nuca_ip.nuca_bank_count \in 0 .. nuca_ip.cache_sz
         /\ nuca_ip.assoc \in Nat /\ nuca_ip.delay_dev \in Nat /\ nuca_ip.dynamic_dev \in Nat
BY NucaAssumption

LEMMA SmallestIs ==
  ASSUME nuca_ip \in NucaInputs
  PROVE  SmallestBank \in Nat \ {0}
<1>1. MIN_BANKSIZE \in Nat \ {0} /\ nuca_ip.assoc \in Nat
  BY NucaConstants
<1>2. CASE nuca_ip.assoc > 2
  <2>. DEFINE a == nuca_ip.assoc
  <2>1. a \in Nat /\ a > 2
    BY <1>1, <1>2
  <2>. HIDE DEF a
  <2>2. a \div 2 \in Nat \ {0}
    BY <2>1
  <2>3. PICK q \in Nat \ {0} : q = a \div 2
    BY <2>2
  <2>4. MIN_BANKSIZE * q \in Nat \ {0}
    BY <1>1
  <2>. QED BY <1>2, <2>3, <2>4 DEF SmallestBank, a
<1>3. CASE ~(nuca_ip.assoc > 2)
  BY <1>1, <1>3 DEF SmallestBank
<1>. QED BY <1>2, <1>3

LEMMA WireTypesAre ==
  ASSUME nuca_ip \in NucaInputs
  PROVE  \E a, b \in Wires : /\ WireTypes = a .. b /\ a <= b /\ Min(WireTypes) = a
                             /\ Cardinality(WireTypes) = b - a + 1
<1>1. Low_swing \in Nat \ {0}
  BY NucaConstants
<1>2. PICK a \in Wires, b \in Wires : WireTypes = a .. b /\ a <= b
  <2>1. Low_swing .. Low_swing = {Low_swing}
    BY <1>1
  <2>2. CASE ~nuca_ip.force_wiretype
    BY <1>1, <2>2 DEF WireTypes, Wires
  <2>3. CASE nuca_ip.force_wiretype /\ nuca_ip.low_swing
    BY <1>1, <2>1, <2>3 DEF WireTypes, Wires
  <2>4. CASE nuca_ip.force_wiretype /\ ~nuca_ip.low_swing
    BY <1>1, <2>4 DEF WireTypes, Wires
  <2>. QED BY <2>2, <2>3, <2>4
<1>3. a \in Int /\ b \in Int
  BY DEF Wires
<1>4. IsFiniteSet(a .. b) /\ Cardinality(a .. b) = b - a + 1
  BY <1>2, <1>3, FS_Interval
<1>5. Min(a .. b) \in a .. b /\ \A x \in a .. b : Min(a .. b) <= x
  <2>. DEFINE S == a .. b
  <2>1. S \subseteq Int /\ IsFiniteSet(S) /\ S # {}
    BY <1>2, <1>3, <1>4
  <2>. HIDE DEF S
  <2>2. Min(S) \in S /\ \A x \in S : Min(S) <= x
    BY <2>1, FiniteHasBounds
  <2>. QED BY <2>2 DEF S
<1>6. Min(a .. b) = a
  <2>1. a \in a .. b
    BY <1>2, <1>3
  <2>2. PICK x \in a .. b : x = Min(a .. b)
    BY <1>5
  <2>3. x <= a
    BY <1>5, <2>1, <2>2
  <2>4. x = a
    BY <1>3, <2>3
  <2>. QED BY <2>2, <2>4
<1>. QED BY <1>2, <1>4, <1>6

LEMMA GridsAre ==
  ASSUME NEW n \in Nat, n > 0, NEW c \in 1 .. n, n % c = 0
  PROVE  n \div c \in 1 .. n /\ (n \div c) * c = n
<1>. DEFINE q == n \div c
<1>1. c \in Nat /\ c > 0 /\ c <= n
  OBVIOUS
<1>2. q \in Nat /\ n = c * q + (n % c)
  BY <1>1, DivisionIs
<1>. HIDE DEF q
<1>3. n = c * q
  BY <1>1, <1>2
<1>4. q # 0
  BY <1>1, <1>3
<1>5. q * c = n /\ q * c = c * q
  BY <1>1, <1>2, <1>3
<1>6. q <= n
  <2>1. q * 1 <= q * c
    BY <1>1, <1>2, TimesMonotone
  <2>. QED BY <1>2, <1>5, <2>1
<1>. QED BY <1>2, <1>4, <1>5, <1>6 DEF q

\* Every grid of n banks has a number of columns that divides n.
LEMMA GridsDivide ==
  ASSUME NEW n \in Nat, n > 0, NEW r \in 1 .. n, NEW c \in 1 .. n, r * c = n
  PROVE  n % c = 0 /\ n \div c = r
<1>1. c \in Nat /\ c > 0 /\ r \in Nat /\ n = c * r + 0
  OBVIOUS
<1>. QED BY <1>1, QuotientIs

LEMMA LatencyIs ==
  ASSUME NEW net, {net.ver, net.hor, net.router, net.hop, net.hhop, net.vhop} \subseteq Nat,
         NEW r \in Nat, NEW c \in Nat
  PROVE  Latency(net, r, c) \in Int /\ HopEnergy(net, r, c) \in Int
<1>1. SumBelow(r) \in Int /\ SumBelow(c) \in Int
  <2>1. ASSUME NEW n \in Nat PROVE SumBelow(n) \in Int
    <3>1. PICK m \in Int : m = n * (n - 1)
      OBVIOUS
    <3>2. m \div 2 \in Int
      OBVIOUS
    <3>. QED BY <3>1, <3>2 DEF SumBelow
  <2>. QED BY <2>1
<1>2. HorHops(r, c) \in Int
  BY <1>1 DEF HorHops
<1>3. VerHops(r, c) \in Int
  BY <1>1 DEF VerHops
<1>4. AllHops(r, c) \in Int
  BY <1>2, <1>3 DEF AllHops
<1>5. Latency(net, r, c) \in Int
  <2>1. PICK v \in Int, h \in Int, a \in Int, p \in Int :
          v = VerHops(r, c) /\ h = HorHops(r, c) /\ a = AllHops(r, c) /\ p = r * c
    BY <1>2, <1>3, <1>4
  <2>2. (v - p) * net.ver \in Int /\ h * net.hor \in Int /\ 2 * net.router * a \in Int
    OBVIOUS
  <2>3. 2 * ((v - p) * net.ver + h * net.hor) + 2 * net.router * a \in Int
    BY <2>2
  <2>. QED BY <2>1, <2>3 DEF Latency
<1>6. HopEnergy(net, r, c) \in Int
  <2>1. AllHops(r, c) * net.hop \in Int /\ HorHops(r, c) * net.hhop \in Int
        /\ VerHops(r, c) * net.vhop \in Int
    BY <1>2, <1>3, <1>4
  <2>. QED BY <2>1 DEF HopEnergy
<1>. QED BY <1>5, <1>6

\* There is a nearest grid, and it is one of least latency.
LEMMA NearestIs ==
  ASSUME NEW n \in Nat, n > 0,
         NEW net, {net.ver, net.hor, net.router, net.hop, net.hhop, net.vhop} \subseteq Nat
  PROVE  LET c == NearestColumns(net, n)
         IN  /\ c \in 1 .. n /\ n % c = 0
             /\ \A d \in 1 .. n : n % d = 0 => Latency(net, n \div c, c) <= Latency(net, n \div d, d)
<1>. DEFINE grids == {c \in 1 .. n : n % c = 0}
            latency == [c \in grids |-> Latency(net, n \div c, c)]
            L == {latency[c] : c \in grids}
<1>1. \A c \in grids : latency[c] \in Int
  <2>1. \A c \in grids : n \div c \in Nat /\ c \in Nat
    BY GridsAre
  <2>. QED BY <2>1, LatencyIs
<1>2. 1 \in grids /\ IsFiniteSet(grids) /\ grids \subseteq Int
  <2>1. IsFiniteSet(1 .. n)
    BY FS_Interval
  <2>2. IsFiniteSet(grids)
    BY <2>1, FS_Subset
  <2>3. n % 1 = 0
    <3>1. n = 1 * n + 0
      OBVIOUS
    <3>. QED BY <3>1, QuotientIs
  <2>. QED BY <2>2, <2>3
<1>11. latency \in [grids -> L]
  <2>. HIDE DEF grids
  <2>. QED OBVIOUS
<1>. HIDE DEF grids, latency
<1>3. IsFiniteSet(L) /\ L \subseteq Int /\ L # {}
  <2>1. IsFiniteSet(L)
    <3>1. latency \in Surjection(grids, L)
      BY <1>11 DEF Surjection
    <3>. HIDE DEF L
    <3>. QED BY <1>2, <3>1, FS_Surjection
  <2>. QED BY <1>1, <1>2, <2>1
<1>4. PICK l \in L : \A x \in L : l <= x
  <2>. HIDE DEF L
  <2>. QED BY <1>3, FiniteHasBounds
<1>. DEFINE G == {c \in grids : latency[c] = l}
<1>5. IsFiniteSet(G) /\ G \subseteq Int /\ G # {}
  <2>1. IsFiniteSet(G)
    BY <1>2, FS_Subset
  <2>. QED BY <1>2, <1>4, <2>1
<1>6. PICK c \in G : \A x \in G : c <= x
  <2>. HIDE DEF G
  <2>. QED BY <1>5, FiniteHasBounds
<1>7. \A d \in grids : latency[c] < latency[d] \/ (latency[c] = latency[d] /\ c <= d)
  BY <1>1, <1>4, <1>6
<1>8. NearestColumns(net, n) = CHOOSE x \in grids : \A d \in grids :
                                  latency[x] < latency[d] \/ (latency[x] = latency[d] /\ x <= d)
  BY DEF NearestColumns, grids, latency
<1>9. PICK x \in grids : /\ x = NearestColumns(net, n)
                         /\ \A d \in grids : latency[x] < latency[d] \/ (latency[x] = latency[d] /\ x <= d)
  BY <1>6, <1>7, <1>8
<1>10. \A d \in grids : latency[x] <= latency[d]
  BY <1>1, <1>9
<1>. QED BY <1>9, <1>10 DEF grids, latency

SizesInv ==
  /\ nuca_ip \in NucaInputs /\ bank_start \in Nat /\ iterations \in Nat
  /\ \A it \in bank_start .. iterations - 1 : SizeOfBank(it) \in 1 .. nuca_ip.cache_sz

LEMMA QuotientPositive ==
  ASSUME NEW a \in Nat, NEW b \in 1 .. a
  PROVE  a \div b \in 1 .. a
<1>. DEFINE q == a \div b
<1>1. b \in Nat /\ b > 0 /\ b <= a
  OBVIOUS
<1>2. q \in Nat /\ a % b \in Nat /\ a % b < b /\ a = b * q + (a % b)
  BY <1>1, DivisionIs
<1>. HIDE DEF q
<1>3. q # 0
  BY <1>1, <1>2
<1>4. 1 * q <= b * q /\ b * q <= a
  <2>1. q * 1 <= q * b /\ q * b \in Nat /\ q * b = b * q
    BY <1>1, <1>2, TimesMonotone
  <2>. QED BY <1>2, <2>1
<1>5. q <= a
  BY <1>1, <1>2, <1>4
<1>. QED BY <1>2, <1>3, <1>5 DEF q

LEMMA BankCountIs ==
  ASSUME SizesInv, NEW it \in bank_start .. iterations - 1
  PROVE  BankCount(it) \in 1 .. nuca_ip.cache_sz
<1>1. PICK a \in Nat : a = nuca_ip.cache_sz
  BY NucaConstants DEF SizesInv
<1>2. PICK b \in 1 .. a : b = SizeOfBank(it)
  BY <1>1 DEF SizesInv
<1>3. a \div b \in 1 .. a
  BY QuotientPositive
<1>. QED BY <1>1, <1>2, <1>3 DEF BankCount

LEMMA PerBankCountIs ==
  ASSUME SizesInv
  PROVE  /\ PerBankCount \in Nat \ {0} /\ NumOrgs \in Int
         /\ \E w \in Nat : w = Cardinality(WireTypes) /\ PerBankCount = w * ROUTER_TYPES
<1>1. PICK a \in Wires, b \in Wires : a <= b /\ Cardinality(WireTypes) = b - a + 1
  BY WireTypesAre DEF SizesInv
<1>2. a \in Nat /\ b \in Nat
  BY DEF Wires
<1>3. PICK w \in Nat \ {0} : w = Cardinality(WireTypes)
  BY <1>1, <1>2
<1>4. ROUTER_TYPES \in Nat \ {0}
  BY NucaAssumption
<1>5. w * ROUTER_TYPES \in Nat \ {0}
  BY <1>4
<1>6. PerBankCount = w * ROUTER_TYPES
  BY <1>3 DEF PerBankCount
<1>7. NumOrgs \in Int
  <2>1. PICK p \in Nat : p = PerBankCount
    BY <1>5, <1>6
  <2>2. bank_start \in Nat /\ iterations \in Nat
    BY DEF SizesInv
  <2>3. (iterations - bank_start) * p \in Int
    BY <2>2
  <2>. QED BY <2>1, <2>3 DEF NumOrgs
<1>. QED BY <1>3, <1>5, <1>6, <1>7

LEMMA OrgAtIs ==
  ASSUME SizesInv, NEW k \in 0 .. NumOrgs - 1
  PROVE  /\ OrgAt(k).it \in bank_start .. iterations - 1
         /\ OrgAt(k).wr \in Wires /\ OrgAt(k).ro \in Routers
         /\ OrgAt(k) \in [it : Nat, wr : Nat, ro : Nat]
<1>1. PICK p \in Nat : p = PerBankCount /\ p > 0
  BY PerBankCountIs
<1>2. PICK w \in Nat : w = Cardinality(WireTypes) /\ p = w * ROUTER_TYPES
  BY <1>1, PerBankCountIs
<1>3. PICK a \in Wires, b \in Wires : a <= b /\ w = b - a + 1 /\ Min(WireTypes) = a
  BY <1>2, WireTypesAre DEF SizesInv
<1>4. ROUTER_TYPES \in Nat /\ ROUTER_TYPES > 0 /\ Low_swing \in Nat
  BY NucaAssumption
<1>5. bank_start \in Nat /\ iterations \in Nat
  BY DEF SizesInv
<1>. DEFINE d == iterations - bank_start
<1>6. NumOrgs = d * p /\ k \in Nat /\ k < d * p
  BY <1>1, <1>5, PerBankCountIs DEF NumOrgs
<1>. DEFINE q == k \div p
            m == k % p
            v == m \div ROUTER_TYPES
            ro == k % ROUTER_TYPES
<1>7. q \in Nat /\ m \in Nat /\ m < p /\ p * q <= k /\ p * q \in Nat
  BY <1>1, <1>6, DivisionIs
<1>8. OrgAt(k) = [it |-> bank_start + q, wr |-> a + v, ro |-> ro]
  BY <1>1, <1>3 DEF OrgAt
<1>9. ro \in Nat /\ ro < ROUTER_TYPES
  BY <1>4, <1>6, DivisionIs
<1>. HIDE DEF q, m
<1>10. v \in Nat /\ ROUTER_TYPES * v <= m
  BY <1>4, <1>7, DivisionIs
<1>. HIDE DEF v, ro, d
<1>11. q < d
  <2>1. d \in Int
    BY <1>5 DEF d
  <2>2. CASE d \in Nat
    <3>. SUFFICES ASSUME d <= q PROVE FALSE
      BY <1>7, <2>1
    <3>1. p * d <= p * q
      BY <1>1, <1>7, <2>2, TimesMonotone
    <3>2. p * d = d * p /\ d * p \in Nat
      BY <1>1, <2>2
    <3>. QED BY <1>6, <1>7, <3>1, <3>2
  <2>3. CASE d \notin Nat
    <3>1. PICK e \in Nat : d = -e
      <4>1. -d \in Nat /\ d = -(-d)
        BY <2>1, <2>3
      <4>. QED BY <4>1
    <3>2. d * p = -(e * p) /\ e * p \in Nat
      BY <1>1, <3>1
    <3>. QED BY <1>6, <3>2
  <2>. QED BY <2>2, <2>3
<1>12. v < w
  <2>. SUFFICES ASSUME w <= v PROVE FALSE
    BY <1>10
  <2>1. ROUTER_TYPES * w <= ROUTER_TYPES * v /\ ROUTER_TYPES * w = w * ROUTER_TYPES
        /\ ROUTER_TYPES * w \in Nat /\ ROUTER_TYPES * v \in Nat
    BY <1>4, <1>10, TimesMonotone
  <2>. QED BY <1>2, <1>7, <1>10, <2>1
<1>13. bank_start + q \in bank_start .. iterations - 1 /\ bank_start + q \in Nat
  BY <1>5, <1>7, <1>11 DEF d
<1>14. a + v \in Wires /\ a + v \in Nat
  BY <1>3, <1>4, <1>10, <1>12 DEF Wires
<1>15. ro \in Routers
  BY <1>4, <1>9 DEF Routers
<1>. QED BY <1>8, <1>9, <1>13, <1>14, <1>15

LEMMA ContentionIs ==
  ASSUME NEW o \in [it : Nat, wr : Nat, ro : Nat], o.ro \in Routers, NEW cycles \in Nat, cycles > 0
  PROVE  ContentionOf(o, cycles) \in Nat
<1>. DEFINE row == IF o.it < 7 THEN o.it ELSE 7
            even == Min({16, cycles + (cycles % 2)})
            l == L2Row(nuca_ip)
            core == CoreRow(nuca_ip)
            x == ((l * 5 + core) * ROUTER_TYPES + o.ro) * 7 + row
<1>1. row \in 0 .. 7 /\ l \in 0 .. 1 /\ core \in 2 .. 4
  BY DEF L2Row, CoreRow
<1>2. ROUTER_TYPES \in Nat /\ o.ro \in 0 .. ROUTER_TYPES - 1
  BY NucaAssumption DEF Routers
<1>3. x \in 0 .. 70 * ROUTER_TYPES
  <2>. HIDE DEF row, l, core
  <2>1. PICK g \in 2 .. 9 : g = l * 5 + core
    BY <1>1
  <2>2. g * ROUTER_TYPES <= 9 * ROUTER_TYPES /\ g * ROUTER_TYPES \in Nat
    <3>1. ROUTER_TYPES * g <= ROUTER_TYPES * 9 /\ ROUTER_TYPES * g \in Nat
      BY <1>2, TimesMonotone
    <3>. QED BY <1>2, <3>1
  <2>3. PICK y \in Nat : y = g * ROUTER_TYPES
    BY <2>2
  <2>4. (y + o.ro) * 7 + row \in 0 .. 70 * ROUTER_TYPES
    BY <1>1, <1>2, <2>2, <2>3
  <2>. QED BY <2>1, <2>3, <2>4
<1>4. even \div 2 - 1 \in 0 .. 7
  <2>1. PICK y \in Nat : y = cycles + (cycles % 2) /\ y >= 2
    <3>1. cycles % 2 \in {0, 1} /\ (cycles = 1 => cycles % 2 = 1)
      OBVIOUS
    <3>. QED BY <3>1
  <2>2. {16, y} \subseteq Int /\ IsFiniteSet({16, y}) /\ {16, y} # {}
    <3>1. IsFiniteSet({16}) /\ IsFiniteSet({16} \cup {y})
      BY FS_Singleton, FS_AddElement
    <3>2. {16, y} = {16} \cup {y}
      OBVIOUS
    <3>. QED BY <3>1, <3>2
  <2>3. Min({16, y}) \in {16, y} /\ Min({16, y}) <= 16
    BY <2>2, FiniteHasBounds
  <2>4. PICK z \in 2 .. 16 : z = even
    BY <2>1, <2>3
  <2>5. z \div 2 - 1 \in 0 .. 7
    OBVIOUS
  <2>. QED BY <2>4, <2>5
<1>5. ContentionOf(o, cycles) = cont_stats[x][even \div 2 - 1]
  BY DEF ContentionOf
<1>. HIDE DEF x, even
<1>. QED BY <1>3, <1>4, <1>5, NetworkAssumption

\* What an organisation is laid out as: a grid of all its banks, and a nearest one.
IsNearest(m) ==
  /\ m.bank_count \in 1 .. nuca_ip.cache_sz /\ m.rows * m.columns = m.bank_count
  /\ LET net == Network[m.bank_count][m.org.wr][m.org.ro]
     IN \A r, c \in 1 .. m.bank_count : r * c = m.bank_count =>
          Latency(net, m.rows, m.columns) <= Latency(net, r, c)

LEMMA OrganisedIs ==
  ASSUME SizesInv, NEW k \in 0 .. NumOrgs - 1
  PROVE  Organised(OrgAt(k)) \in OrgRecords /\ IsNearest(Organised(OrgAt(k)))
<1>1. PICK o \in [it : Nat, wr : Nat, ro : Nat] :
        o = OrgAt(k) /\ o.it \in bank_start .. iterations - 1 /\ o.wr \in Wires /\ o.ro \in Routers
  BY OrgAtIs
<1>2. PICK a \in Nat : a = nuca_ip.cache_sz
  BY NucaConstants DEF SizesInv
<1>3. PICK n \in 1 .. a : n = BankCount(o.it)
  BY <1>1, <1>2, BankCountIs
<1>4. PICK net : net = Network[n][o.wr][o.ro]
  OBVIOUS
<1>5. /\ net.access \in Nat /\ net.access > 0 /\ net.dynamic \in Nat
      /\ {net.ver, net.hor, net.router, net.hop, net.hhop, net.vhop} \subseteq Nat
  <2>1. n \in DOMAIN Network
    BY <1>2, <1>3, NetworkAssumption DEF SizesInv
  <2>. QED BY <1>1, <1>4, <2>1, NetworkAssumption
<1>6. n \in Nat /\ n > 0
  BY <1>2, <1>3
<1>7. PICK c \in 1 .. n :
        /\ c = NearestColumns(net, n) /\ n % c = 0
        /\ \A d \in 1 .. n : n % d = 0 => Latency(net, n \div c, c) <= Latency(net, n \div d, d)
  BY <1>5, <1>6, NearestIs
<1>8. PICK r \in 1 .. n : r = n \div c /\ r * c = n
  BY <1>6, <1>7, GridsAre
<1>9. \A i, j \in 1 .. n : i * j = n => Latency(net, r, c) <= Latency(net, i, j)
  <2>. SUFFICES ASSUME NEW i \in 1 .. n, NEW j \in 1 .. n, i * j = n
                PROVE  Latency(net, r, c) <= Latency(net, i, j)
    OBVIOUS
  <2>1. n % j = 0 /\ n \div j = i
    BY <1>6, GridsDivide
  <2>. QED BY <1>7, <1>8, <2>1
<1>10. MostBanks \in Nat /\ Average(n, Latency(net, r, c)) \in Int /\ Average(n, HopEnergy(net, r, c)) \in Int
  <2>1. bank_start \in Nat /\ iterations \in Nat /\ iterations - 1 \in bank_start .. iterations - 1
    <3>1. bank_start \in Nat /\ iterations \in Nat
      BY DEF SizesInv
    <3>. QED BY <1>1, <3>1
  <2>2. PICK b \in Nat : b = MostBanks
    <3>1. MostBanks \in 1 .. nuca_ip.cache_sz
      BY <2>1, BankCountIs DEF MostBanks
    <3>. QED BY <1>2, <3>1
  <2>3. PICK q \in Nat : q = b \div n
    BY <1>6, DivisionIs
  <2>4. PICK x \in Int, y \in Int : x = Latency(net, r, c) /\ y = HopEnergy(net, r, c)
    <3>1. r \in Nat /\ c \in Nat
      BY <1>6
    <3>2. Latency(net, r, c) \in Int /\ HopEnergy(net, r, c) \in Int
      BY <1>5, <3>1, LatencyIs
    <3>. QED BY <3>2
  <2>5. x * q \in Int /\ y * q \in Int
    OBVIOUS
  <2>. QED BY <2>2, <2>3, <2>4, <2>5 DEF Average
<1>11. ContentionOf(o, net.access) \in Nat
  BY <1>1, <1>5, ContentionIs
<1>. DEFINE delay == Average(n, Latency(net, r, c)) + MostBanks * (net.access + ContentionOf(o, net.access))
            energy == Average(n, HopEnergy(net, r, c)) + MostBanks * net.dynamic
<1>12. delay \in Int /\ energy \in Int
  <2>1. PICK b \in Nat, x \in Nat, y \in Nat :
          b = MostBanks /\ x = net.access + ContentionOf(o, net.access) /\ y = net.dynamic
    BY <1>5, <1>10, <1>11
  <2>2. b * x \in Int /\ b * y \in Int
    OBVIOUS
  <2>. QED BY <1>10, <2>1, <2>2
<1>13. Organised(o) = [org |-> o, bank_count |-> n, rows |-> r, columns |-> c,
                       delay |-> delay, dynamic |-> energy]
  BY <1>3, <1>4, <1>7, <1>8 DEF Organised
<1>. HIDE DEF delay, energy
<1>14. Organised(o) \in OrgRecords
  BY <1>6, <1>12, <1>13 DEF OrgRecords
<1>15. IsNearest(Organised(o))
  BY <1>2, <1>4, <1>8, <1>9, <1>13 DEF IsNearest
<1>. QED BY <1>1, <1>14, <1>15

-----------------------------------------------------------------------------
(* The search over the organisations.                                      *)

OrgNumber(i) == Organised(OrgAt(i - 1))
MinRecords == [delay : Int, dynamic : Int]
NucaGone == NumOrgs - Len(nuca_list)
FirstMeets == MeetsNuca(OrgNumber(1))
LookedAt(i) == i < nuca_iter + NucaGone /\ (i # 2 \/ FirstMeets)
ExploreInv ==
  /\ explored \in Nat /\ (minval = NoOrg \/ minval \in MinRecords)
  /\ explored # 0 => minval \in MinRecords
  /\ nuca_stage \in {"bounds", "explore"} =>
       /\ res = NoOrg /\ nuca_iter = 1
       /\ nuca_list \in Seq(OrgRecords) /\ Len(nuca_list) = explored
       /\ (nuca_stage = "bounds" => explored = 0)
       /\ \A i \in 1 .. explored : i <= NumOrgs /\ nuca_list[i] = OrgNumber(i)
WalkBegun == nuca_stage = "choose" \/ nuca_stage = "done"
            \/ (nuca_stage = "crashed" /\ ~(nuca_ip.cache_sz < SmallestBank))
WalkInv ==
  WalkBegun =>
    /\ NumOrgs \in Nat /\ explored = NumOrgs
    /\ nuca_list \in Seq(OrgRecords) /\ Len(nuca_list) <= NumOrgs /\ nuca_iter \in Nat \ {0}
    /\ nuca_iter = 1 => Len(nuca_list) = NumOrgs
    /\ nuca_iter + NucaGone = 2 => FirstMeets
    /\ \A i \in nuca_iter .. Len(nuca_list) : nuca_list[i] = OrgNumber(i + NucaGone)
CheapestInv ==
  WalkBegun =>
    /\ res # NoOrg => /\ nuca_min_cost = NucaCost(res)
                      /\ \E i \in 1 .. NumOrgs : /\ i # 2 \/ FirstMeets
                                                 /\ res = OrgNumber(i) /\ MeetsNuca(res)
    /\ \A i \in 1 .. NumOrgs : LookedAt(i) /\ MeetsNuca(OrgNumber(i)) =>
         res # NoOrg /\ nuca_min_cost <= NucaCost(OrgNumber(i))
StoppedInv ==
  nuca_stage \in {"done", "crashed"} /\ WalkBegun =>
    /\ nuca_iter > Len(nuca_list)
    /\ (nuca_stage = "done" <=> res # NoOrg)
    /\ nuca_stage = "done" => bank_sz = nuca_ip.cache_sz \div res.bank_count
NucaInv == SizesInv /\ ExploreInv /\ WalkInv /\ CheapestInv /\ StoppedInv

LEMMA OrgNumbersAre ==
  ASSUME SizesInv, NEW i \in 1 .. NumOrgs
  PROVE  OrgNumber(i) \in OrgRecords /\ OrgNumber(i) # NoOrg /\ IsNearest(OrgNumber(i))
<1>1. i - 1 \in 0 .. NumOrgs - 1
  BY PerBankCountIs
<1>2. PICK k \in 0 .. NumOrgs - 1 : k = i - 1
  BY <1>1
<1>. QED BY <1>2, OrganisedIs, NoOrgAssumption DEF OrgNumber

LEMMA CostIsInt ==
  ASSUME minval \in MinRecords, NEW m \in OrgRecords
  PROVE  NucaCost(m) \in Int
<1>1. PICK d \in Int, e \in Int, d0 \in Int, e0 \in Int :
        d = m.delay /\ e = m.dynamic /\ d0 = minval.delay /\ e0 = minval.dynamic
  BY DEF OrgRecords, MinRecords
<1>2. d * e \in Int /\ d * d * e \in Int /\ d * e0 + e * d0 \in Int
  OBVIOUS
<1>. QED BY <1>1, <1>2 DEF NucaCost

LEMMA ChosenBankFits ==
  ASSUME SizesInv, NEW m \in OrgRecords, IsNearest(m), NEW size,
         size = nuca_ip.cache_sz \div m.bank_count
  PROVE  m.rows * m.columns * size <= nuca_ip.cache_sz
<1>1. PICK a \in Nat : a = nuca_ip.cache_sz
  BY NucaConstants DEF SizesInv
<1>2. PICK n \in 1 .. a : n = m.bank_count /\ m.rows * m.columns = n
  BY <1>1 DEF IsNearest
<1>3. n * (a \div n) <= a
  BY DivisionIs
<1>. QED BY <1>1, <1>2, <1>3

LEMMA NucaIsLeast == NucaInv => PicksLeastNuca
<1>. SUFFICES ASSUME NucaInv, nuca_stage \in {"done", "crashed"},
                     ~(nuca_stage = "crashed" /\ nuca_ip.cache_sz < SmallestBank)
              PROVE  PicksLeastNuca
  BY DEF PicksLeastNuca
<1>. DEFINE all == [k \in 0 .. NumOrgs - 1 |-> Organised(OrgAt(k))]
            meet == {k \in DOMAIN all : MeetsNuca(all[k])}
            seen == IF 0 \in meet THEN meet ELSE meet \ {1}
            Latencies == LET net == Network[res.bank_count][res.org.wr][res.org.ro]
                         IN \A r, c \in 1 .. res.bank_count : r * c = res.bank_count =>
                              Latency(net, res.rows, res.columns) <= Latency(net, r, c)
<1>1. WalkBegun /\ SizesInv /\ NumOrgs \in Nat
  BY DEF WalkBegun, NucaInv, WalkInv
<1>2. \A k \in 0 .. NumOrgs - 1 : k + 1 \in 1 .. NumOrgs /\ all[k] = OrgNumber(k + 1)
  <2>1. \A k \in 0 .. NumOrgs - 1 : k + 1 \in 1 .. NumOrgs /\ (k + 1) - 1 = k
    BY <1>1
  <2>. QED BY <2>1 DEF OrgNumber
<1>3. \A i \in 1 .. NumOrgs : i - 1 \in 0 .. NumOrgs - 1 /\ all[i - 1] = OrgNumber(i)
  <2>1. \A i \in 1 .. NumOrgs : i - 1 \in 0 .. NumOrgs - 1
    BY <1>1
  <2>. QED BY <2>1 DEF OrgNumber
<1>4. DOMAIN all = 0 .. NumOrgs - 1
  OBVIOUS
<1>. HIDE DEF all
<1>5. NumOrgs > 0 => (0 \in meet <=> FirstMeets)
  <2>. SUFFICES ASSUME NumOrgs > 0 PROVE 0 \in meet <=> FirstMeets
    OBVIOUS
  <2>1. 0 \in 0 .. NumOrgs - 1 /\ 0 + 1 = 1
    BY <1>1
  <2>2. all[0] = OrgNumber(1)
    BY <1>2, <2>1
  <2>. QED BY <1>4, <2>1, <2>2 DEF FirstMeets
<1>6. ASSUME NEW k \in seen
      PROVE  /\ k \in 0 .. NumOrgs - 1 /\ LookedAt(k + 1) /\ MeetsNuca(all[k])
             /\ k + 1 \in 1 .. NumOrgs /\ all[k] = OrgNumber(k + 1)
  <2>1. k \in 0 .. NumOrgs - 1 /\ MeetsNuca(all[k]) /\ (0 \in meet \/ k # 1)
    BY <1>4
  <2>2. k + 1 \in 1 .. NumOrgs /\ all[k] = OrgNumber(k + 1) /\ NumOrgs > 0
    BY <1>1, <1>2, <2>1
  <2>3. k + 1 # 2 \/ FirstMeets
    <3>1. k \in Nat
      BY <1>1, <2>1
    <3>. HIDE DEF meet
    <3>. QED BY <1>5, <2>1, <2>2, <3>1
  <2>4. k + 1 < nuca_iter + NucaGone
    <3>1. /\ nuca_iter \in Nat /\ nuca_list \in Seq(OrgRecords) /\ nuca_iter > Len(nuca_list)
      BY <1>1 DEF NucaInv, WalkInv, StoppedInv
    <3>2. Len(nuca_list) \in Nat
      BY <3>1
    <3>. QED BY <1>1, <2>2, <3>1, <3>2 DEF NucaGone
  <2>. QED BY <2>1, <2>2, <2>3, <2>4 DEF LookedAt
<1>7. \A k \in seen : res # NoOrg /\ nuca_min_cost <= NucaCost(all[k])
  <2>. HIDE DEF seen
  <2>. QED BY <1>1, <1>6 DEF NucaInv, CheapestInv
<1>8. nuca_stage = "done" <=> res # NoOrg
  BY <1>1 DEF NucaInv, StoppedInv
<1>9. ASSUME nuca_stage = "done"
      PROVE  /\ \E k \in seen : res = all[k]
             /\ \A k \in seen : NucaCost(res) <= NucaCost(all[k])
             /\ Latencies
             /\ res.rows * res.columns * bank_sz <= nuca_ip.cache_sz
  <2>1. nuca_min_cost = NucaCost(res)
    BY <1>1, <1>8, <1>9 DEF NucaInv, CheapestInv
  <2>2. PICK i \in 1 .. NumOrgs : (i # 2 \/ FirstMeets) /\ res = OrgNumber(i) /\ MeetsNuca(res)
    BY <1>1, <1>8, <1>9 DEF NucaInv, CheapestInv
  <2>3. i - 1 \in seen /\ res = all[i - 1]
    <3>1. i - 1 \in meet /\ res = all[i - 1]
      BY <1>3, <1>4, <2>2
    <3>2. i - 1 # 1 \/ 0 \in meet
      <4>1. i \in Nat /\ NumOrgs > 0 /\ (i # 2 => i - 1 # 1)
        BY <1>1
      <4>. HIDE DEF meet
      <4>. QED BY <1>5, <2>2, <4>1
    <3>. HIDE DEF meet
    <3>. QED BY <3>1, <3>2
  <2>4. res \in OrgRecords /\ IsNearest(res)
    BY <1>1, <2>2, OrgNumbersAre
  <2>5. bank_sz = nuca_ip.cache_sz \div res.bank_count
    BY <1>1, <1>9 DEF NucaInv, StoppedInv
  <2>6. res.rows * res.columns * bank_sz <= nuca_ip.cache_sz
    BY <1>1, <2>4, <2>5, ChosenBankFits
  <2>7. Latencies
    BY <2>4 DEF IsNearest
  <2>. HIDE DEF seen, Latencies
  <2>. QED BY <1>7, <2>1, <2>3, <2>6, <2>7
<1>10. nuca_stage = "crashed" => seen = {}
  <2>. HIDE DEF seen
  <2>. QED BY <1>7, <1>8
<1>. QED BY <1>9, <1>10 DEF PicksLeastNuca, all

-----------------------------------------------------------------------------
(* Its steps.                                                              *)

LEMMA NucaInitially == NucaInit => NucaInv
<1>. SUFFICES ASSUME NucaInit PROVE NucaInv
  OBVIOUS
<1>1. /\ nuca_ip \in NucaInputs /\ nuca_stage = "bounds" /\ bank_start = 0 /\ iterations = 0
      /\ explored = 0 /\ nuca_list = <<>> /\ nuca_iter = 1 /\ minval = NoOrg /\ res = NoOrg
  BY DEF NucaInit
<1>2. SizesInv
  <2>1. bank_start .. iterations - 1 = {}
    BY <1>1
  <2>. QED BY <1>1, <2>1 DEF SizesInv
<1>3. ExploreInv
  <2>1. 1 .. explored = {} /\ Len(nuca_list) = 0 /\ nuca_list \in Seq(OrgRecords)
    BY <1>1
  <2>. QED BY <1>1, <2>1 DEF ExploreInv
<1>4. ~WalkBegun
  BY <1>1 DEF WalkBegun
<1>. QED BY <1>2, <1>3, <1>4 DEF NucaInv, WalkInv, CheapestInv, StoppedInv

\* The organisations do not change once the bounds are known.
LEMMA OrgsStay ==
  ASSUME nuca_ip' = nuca_ip, bank_start' = bank_start, iterations' = iterations
  PROVE  /\ NumOrgs' = NumOrgs /\ SmallestBank' = SmallestBank
         /\ \A i : OrgNumber(i)' = OrgNumber(i)
         /\ SizesInv => SizesInv'
<1>1. \A it : SizeOfBank(it)' = SizeOfBank(it)
  BY DEF SizeOfBank, OneBankCount
<1>2. \A it : BankCount(it)' = BankCount(it)
  BY <1>1 DEF BankCount
<1>3. WireTypes' = WireTypes
  BY DEF WireTypes
<1>4. PerBankCount' = PerBankCount
  BY <1>3 DEF PerBankCount
<1>5. NumOrgs' = NumOrgs
  BY <1>4 DEF NumOrgs
<1>6. \A k : OrgAt(k)' = OrgAt(k)
  BY <1>3, <1>4 DEF OrgAt
<1>7. MostBanks' = MostBanks
  BY <1>2 DEF MostBanks
<1>8. \A n, x : Average(n, x)' = Average(n, x)
  BY <1>7 DEF Average
<1>9. \A o, x : ContentionOf(o, x)' = ContentionOf(o, x)
  BY DEF ContentionOf
<1>10. \A o : Organised(o)' = Organised(o)
  BY <1>2, <1>7, <1>8, <1>9 DEF Organised
<1>11. \A i : OrgNumber(i)' = OrgNumber(i)
  BY <1>6, <1>10 DEF OrgNumber
<1>12. SmallestBank' = SmallestBank
  BY DEF SmallestBank
<1>13. SizesInv => SizesInv'
  BY <1>1 DEF SizesInv
<1>. QED BY <1>5, <1>11, <1>12, <1>13

LEMMA SizesStart ==
  ASSUME SizesInv, BoundSearch
  PROVE  SizesInv'
<1>. DEFINE ip == nuca_ip
            a == ip.cache_sz
            b == ip.nuca_bank_count
<1>1. ip' = ip /\ ip \in NucaInputs /\ bank_start \in Nat /\ iterations \in Nat
  BY DEF BoundSearch, SizesInv
<1>2. a \in Nat /\ a > 0 /\ b \in 0 .. a /\ a \div Power(30) <= 1
  BY <1>1, NucaConstants DEF Power
<1>3. \A it : SizeOfBank(it)' = SizeOfBank(it)
  BY <1>1 DEF SizeOfBank, OneBankCount
<1>4. CASE bank_start' = bank_start /\ iterations' = iterations
  BY <1>1, <1>4, OrgsStay
<1>5. CASE ~(bank_start' = bank_start /\ iterations' = iterations)
  <2>1. /\ ~(a < SmallestBank)
        /\ bank_start' = IF b # 0 THEN FloorLog(b) ELSE 0
        /\ iterations' = IF b # 0 THEN bank_start' + 1 ELSE FloorLog(a \div SmallestBank)
    BY <1>5 DEF BoundSearch, OneBankCount
  <2>2. PICK s \in Nat : s = SmallestBank /\ s > 0 /\ s <= a
    BY <1>1, <1>2, <2>1, SmallestIs
  <2>. HIDE DEF a, b
  <2>3. ASSUME NEW n \in 1 .. a PROVE FloorLog(n) \in 0 .. 30 /\ Power(FloorLog(n)) <= n
    <3>1. n \in Nat /\ n > 0 /\ n <= a
      BY <1>2
    <3>2. n \div Power(30) <= 1
      <4>1. PICK p \in Nat : p = Power(30) /\ p > 0
        <5>1. 30 \in 0 .. 30
          OBVIOUS
        <5>. QED BY ONLY <5>1, PowerIsPositive
      <4>. DEFINE x == n \div p
                  y == a \div p
      <4>2. x \in Nat /\ y \in Nat /\ n % p \in Nat /\ a % p \in Nat /\ a % p < p
            /\ n = p * x + (n % p) /\ a = p * y + (a % p) /\ y <= 1
        BY <1>2, <3>1, <4>1, DivisionIs
      <4>. HIDE DEF x, y
      <4>3. ~(2 <= x)
        <5>. SUFFICES ASSUME 2 <= x PROVE FALSE
          OBVIOUS
        <5>1. p * 2 <= p * x /\ p * x \in Nat
          BY <4>1, <4>2, TimesMonotone
        <5>2. p * y <= p * 1 /\ p * y \in Nat
          BY <4>1, <4>2, TimesMonotone
        <5>. QED BY <3>1, <4>1, <4>2, <5>1, <5>2
      <4>4. x <= 1
        BY <4>2, <4>3
      <4>. QED BY <4>1, <4>4 DEF x
    <3>. QED BY <3>1, <3>2, FloorLogIs
  <2>4. CASE b # 0
    <3>1. b \in 1 .. a /\ b \in Nat
      BY <1>2, <2>4
    <3>2. bank_start' \in Nat /\ iterations' = bank_start' + 1
      BY <2>1, <2>3, <2>4, <3>1
    <3>5. iterations' \in Nat
      <4>1. \A x \in Nat : x + 1 \in Nat
        OBVIOUS
      <4>. QED BY ONLY <3>2, <4>1
    <3>3. a \div b \in 1 .. a
      BY <1>2, <3>1, QuotientPositive
    <3>4. \A it : SizeOfBank(it) = a \div b
      <4>1. OneBankCount
        BY <2>4 DEF OneBankCount, b
      <4>2. \A it : SizeOfBank(it) = nuca_ip.cache_sz \div nuca_ip.nuca_bank_count
        BY <4>1 DEF SizeOfBank
      <4>3. a \div b = nuca_ip.cache_sz \div nuca_ip.nuca_bank_count
        BY DEF a, b
      <4>. QED BY ONLY <4>2, <4>3
    <3>. QED BY <1>1, <1>3, <3>2, <3>3, <3>4, <3>5 DEF SizesInv, a
  <2>5. CASE b = 0
    <3>1. PICK q \in 1 .. a : q = a \div s
      BY <1>2, <2>2, QuotientPositive
    <3>2. FloorLog(q) \in 0 .. 30 /\ Power(FloorLog(q)) <= q
      BY <2>3
    <3>3. bank_start' = 0 /\ iterations' = FloorLog(q)
      BY <2>1, <2>2, <2>5, <3>1
    <3>4. ASSUME NEW it \in bank_start' .. iterations' - 1 PROVE SizeOfBank(it) \in 1 .. a
      <4>1. it \in 0 .. 30 /\ it <= FloorLog(q)
        BY <3>2, <3>3
      <4>2. Power(it) \in Nat /\ Power(it) > 0 /\ Power(it) <= Power(FloorLog(q))
        BY <3>2, <4>1, PowersIncrease, PowerIsPositive
      <4>3. Power(FloorLog(q)) \in Nat /\ q <= a /\ q \in Nat
        BY <1>2, <3>2, PowerIsPositive
      <4>4. PICK p \in 1 .. a : p = Power(it)
        BY <1>2, <3>2, <4>2, <4>3
      <4>5. a \div p \in 1 .. a
        BY <1>2, QuotientPositive
      <4>6. SizeOfBank(it) = a \div p
        BY <2>5, <4>4 DEF SizeOfBank, OneBankCount, Power, a, b
      <4>. QED BY <4>5, <4>6
    <3>. QED BY <1>1, <1>3, <3>2, <3>3, <3>4 DEF SizesInv, a
  <2>. QED BY <2>4, <2>5
<1>. QED BY <1>4, <1>5

LEMMA BoundStep == ASSUME NucaInv, BoundSearch PROVE NucaInv'
<1>1. SizesInv'
  BY SizesStart DEF NucaInv
<1>2. /\ nuca_stage = "bounds" /\ nuca_ip' = nuca_ip /\ explored' = explored /\ nuca_list' = nuca_list
      /\ minval' = minval /\ nuca_iter' = nuca_iter /\ res' = res
      /\ nuca_stage' \in {"exit", "explore", "crashed"}
      /\ nuca_stage' = "crashed" => nuca_ip.cache_sz < SmallestBank
  BY DEF BoundSearch
<1>3. ExploreInv'
  <2>1. explored = 0 /\ 1 .. explored = {}
    BY <1>2 DEF NucaInv, ExploreInv
  <2>. QED BY <1>2, <2>1 DEF NucaInv, ExploreInv
<1>4. ~WalkBegun'
  <2>1. SmallestBank' = SmallestBank
    BY <1>2 DEF SmallestBank
  <2>. QED BY <1>2, <2>1 DEF WalkBegun
<1>. QED BY <1>1, <1>3, <1>4 DEF NucaInv, WalkInv, CheapestInv, StoppedInv

LEMMA ExploreStep == ASSUME NucaInv, ExploreOrg PROVE NucaInv'
<1>. DEFINE m == Organised(OrgAt(explored))
<1>1. /\ nuca_stage = "explore" /\ nuca_stage' = "explore" /\ explored < NumOrgs
      /\ nuca_list' = Append(nuca_list, m) /\ minval' = UpdateMin(m) /\ explored' = explored + 1
      /\ nuca_ip' = nuca_ip /\ bank_start' = bank_start /\ iterations' = iterations
      /\ nuca_iter' = nuca_iter /\ res' = res
  BY DEF ExploreOrg
<1>2. SizesInv /\ SizesInv' /\ NumOrgs' = NumOrgs /\ \A i : OrgNumber(i)' = OrgNumber(i)
  BY <1>1, OrgsStay DEF NucaInv
<1>3. /\ explored \in Nat /\ res = NoOrg /\ nuca_iter = 1
      /\ nuca_list \in Seq(OrgRecords) /\ Len(nuca_list) = explored
      /\ \A i \in 1 .. explored : i <= NumOrgs /\ nuca_list[i] = OrgNumber(i)
      /\ minval = NoOrg \/ minval \in MinRecords
  BY <1>1 DEF NucaInv, ExploreInv
<1>4. explored + 1 \in 1 .. NumOrgs /\ (explored + 1) - 1 = explored /\ explored + 1 \in Nat \ {0}
  BY <1>1, <1>2, <1>3, PerBankCountIs
<1>5. m = OrgNumber(explored + 1) /\ m \in OrgRecords
  <2>1. m = OrgNumber(explored + 1)
    BY <1>4 DEF OrgNumber
  <2>2. OrgNumber(explored + 1) \in OrgRecords
    BY <1>2, <1>4, OrgNumbersAre
  <2>. QED BY <2>1, <2>2
<1>. HIDE DEF m
<1>6. minval' \in MinRecords
  <2>1. m.delay \in Int /\ m.dynamic \in Int
    BY <1>5 DEF OrgRecords
  <2>2. CASE minval = NoOrg
    BY <1>1, <2>1, <2>2 DEF UpdateMin, MinRecords
  <2>3. CASE minval # NoOrg
    <3>1. minval.delay \in Int /\ minval.dynamic \in Int
      BY <1>3, <2>3 DEF MinRecords
    <3>2. Lesser(minval.delay, m.delay) \in Int /\ Lesser(minval.dynamic, m.dynamic) \in Int
      BY <2>1, <3>1 DEF Lesser
    <3>. QED BY <1>1, <2>3, <3>2 DEF UpdateMin, MinRecords
  <2>. QED BY <2>2, <2>3
<1>7. /\ nuca_list' \in Seq(OrgRecords) /\ Len(nuca_list') = explored'
      /\ \A i \in 1 .. explored' : i <= NumOrgs /\ nuca_list'[i] = OrgNumber(i)
  <2>1. nuca_list' \in Seq(OrgRecords) /\ Len(nuca_list') = explored + 1
        /\ nuca_list'[explored + 1] = m /\ \A i \in 1 .. explored : nuca_list'[i] = nuca_list[i]
    BY <1>1, <1>3, <1>5
  <2>2. \A i \in 1 .. explored + 1 : i \in 1 .. explored \/ i = explored + 1
    BY <1>3
  <2>. QED BY <1>1, <1>3, <1>4, <1>5, <2>1, <2>2
<1>8. ExploreInv'
  BY <1>1, <1>2, <1>3, <1>4, <1>6, <1>7 DEF ExploreInv
<1>. QED BY <1>1, <1>2, <1>8 DEF NucaInv, WalkInv, CheapestInv, StoppedInv, WalkBegun

LEMMA EndExploreStep == ASSUME NucaInv, EndExplore PROVE NucaInv'
<1>1. /\ nuca_stage = "explore" /\ nuca_stage' = "choose" /\ explored = NumOrgs /\ nuca_iter' = 1
      /\ nuca_list' = nuca_list /\ minval' = minval /\ explored' = explored
      /\ nuca_ip' = nuca_ip /\ bank_start' = bank_start /\ iterations' = iterations /\ res' = res
  BY DEF EndExplore
<1>2. SizesInv' /\ NumOrgs' = NumOrgs /\ \A i : OrgNumber(i)' = OrgNumber(i)
  BY <1>1, OrgsStay DEF NucaInv
<1>3. /\ explored \in Nat /\ res = NoOrg
      /\ nuca_list \in Seq(OrgRecords) /\ Len(nuca_list) = explored
      /\ \A i \in 1 .. explored : i <= NumOrgs /\ nuca_list[i] = OrgNumber(i)
      /\ minval = NoOrg \/ minval \in MinRecords
      /\ explored # 0 => minval \in MinRecords
  BY <1>1 DEF NucaInv, ExploreInv
<1>4. ExploreInv'
  BY <1>1, <1>3 DEF ExploreInv
<1>5. NucaGone' = 0
  BY <1>1, <1>2, <1>3 DEF NucaGone
<1>6. WalkInv'
  <2>1. nuca_iter' + NucaGone' = 1
    BY <1>1, <1>5
  <2>2. (\A i \in nuca_iter .. Len(nuca_list) : nuca_list[i] = OrgNumber(i + NucaGone))'
    <3>1. ASSUME NEW i \in 1 .. explored
          PROVE  OrgNumber(i + NucaGone)' = OrgNumber(i)
      <4>1. (i + NucaGone)' = i
        BY <1>3, <1>5
      <4>2. OrgNumber(i + NucaGone)' = OrgNumber(i)'
        BY <4>1
      <4>. QED BY <1>2, <4>2
    <3>. QED BY <1>1, <1>3, <3>1
  <2>. QED BY <1>1, <1>2, <1>3, <2>1, <2>2 DEF WalkInv
<1>7. CheapestInv'
  <2>1. \A i \in 1 .. NumOrgs : ~(i < nuca_iter' + NucaGone')
    BY <1>1, <1>3, <1>5
  <2>. QED BY <1>1, <1>2, <1>3, <2>1 DEF CheapestInv, LookedAt
<1>. QED BY <1>1, <1>2, <1>4, <1>6, <1>7 DEF NucaInv, StoppedInv

LEMMA NucaCostsStay ==
  ASSUME nuca_ip' = nuca_ip, minval' = minval
  PROVE  \A m : NucaCost(m)' = NucaCost(m) /\ (MeetsNuca(m)' <=> MeetsNuca(m))
BY DEF NucaCost, MeetsNuca, HasEd

LEMMA ConsiderNucaStep == ASSUME NucaInv, ConsiderNuca PROVE NucaInv'
<1>. DEFINE n == NumOrgs
            l == Len(nuca_list)
            k == nuca_iter + NucaGone
            m == nuca_list[nuca_iter]
            cheaper == res = NoOrg \/ nuca_min_cost > NucaCost(m)
<1>1. /\ nuca_stage = "choose" /\ nuca_stage' = "choose" /\ nuca_iter <= l
      /\ IF MeetsNuca(m)
         THEN /\ nuca_iter' = nuca_iter + 1 /\ nuca_list' = nuca_list
              /\ IF cheaper THEN res' = m /\ nuca_min_cost' = NucaCost(m)
                            ELSE res' = res /\ nuca_min_cost' = nuca_min_cost
         ELSE EraseNuca /\ res' = res /\ nuca_min_cost' = nuca_min_cost
      /\ nuca_ip' = nuca_ip /\ bank_start' = bank_start /\ iterations' = iterations
      /\ explored' = explored /\ minval' = minval
  BY DEF ConsiderNuca
<1>2. SizesInv /\ SizesInv' /\ NumOrgs' = n /\ \A i : OrgNumber(i)' = OrgNumber(i)
  BY <1>1, OrgsStay DEF NucaInv
<1>3. /\ n \in Nat /\ explored = n
      /\ nuca_list \in Seq(OrgRecords) /\ l <= n /\ nuca_iter \in Nat \ {0}
      /\ nuca_iter = 1 => l = n
      /\ k = 2 => FirstMeets
      /\ \A i \in nuca_iter .. l : nuca_list[i] = OrgNumber(i + NucaGone)
  BY <1>1 DEF NucaInv, WalkInv, WalkBegun
<1>4. /\ res # NoOrg => /\ nuca_min_cost = NucaCost(res)
                        /\ \E i \in 1 .. n : /\ i # 2 \/ FirstMeets
                                             /\ res = OrgNumber(i) /\ MeetsNuca(res)
      /\ \A i \in 1 .. n : i < k /\ (i # 2 \/ FirstMeets) /\ MeetsNuca(OrgNumber(i)) =>
           res # NoOrg /\ nuca_min_cost <= NucaCost(OrgNumber(i))
  BY <1>1 DEF NucaInv, CheapestInv, WalkBegun, LookedAt
<1>5. l \in Nat /\ NucaGone = n - l /\ NucaGone \in Nat /\ nuca_iter \in 1 .. l /\ k \in 1 .. n
  <2>1. l \in Nat
    BY <1>3
  <2>. HIDE DEF n, l
  <2>. QED BY <1>1, <1>3, <2>1 DEF NucaGone, n, l
<1>6. m = OrgNumber(k) /\ m \in OrgRecords /\ m # NoOrg
  <2>1. nuca_iter \in nuca_iter .. l
    BY <1>5
  <2>2. m = OrgNumber(k)
    BY <1>3, <2>1
  <2>3. OrgNumber(k) \in OrgRecords /\ OrgNumber(k) # NoOrg
    <3>. HIDE DEF k
    <3>. QED BY <1>2, <1>5, OrgNumbersAre
  <2>. QED BY <2>2, <2>3
<1>7. ExploreInv'
  BY <1>1 DEF NucaInv, ExploreInv
<1>8. \A x : NucaCost(x)' = NucaCost(x) /\ (MeetsNuca(x)' <=> MeetsNuca(x))
  BY <1>1, NucaCostsStay
<1>9. FirstMeets' <=> FirstMeets
  BY <1>2, <1>8 DEF FirstMeets
<1>10. minval \in MinRecords
  <2>1. explored # 0
    BY <1>3, <1>5
  <2>. QED BY <2>1 DEF NucaInv, ExploreInv
<1>11. k = 1 => (FirstMeets <=> MeetsNuca(m))
  BY <1>6 DEF FirstMeets
<1>12. /\ nuca_list' \in Seq(OrgRecords) /\ Len(nuca_list') \in Nat /\ Len(nuca_list') <= n
       /\ nuca_iter' \in Nat /\ nuca_iter' > 1
       /\ (\A i \in nuca_iter .. Len(nuca_list) : nuca_list[i] = OrgNumber(i + NucaGone))'
       /\ \/ (nuca_iter + NucaGone)' = k + 1 /\ (k = 1 => MeetsNuca(m))
          \/ (nuca_iter + NucaGone)' = 3 /\ k = 1 /\ ~MeetsNuca(m)
  <2>1. CASE MeetsNuca(m)
    <3>1. nuca_list' = nuca_list /\ nuca_iter' = nuca_iter + 1
      BY <1>1, <2>1
    <3>2. NucaGone' = NucaGone
      BY <1>2, <3>1 DEF NucaGone
    <3>3. nuca_iter' \in Nat /\ nuca_iter' > 1 /\ (nuca_iter + NucaGone)' = k + 1
      <4>1. nuca_iter \in Nat /\ nuca_iter > 0 /\ NucaGone \in Nat
        BY <1>3, <1>5
      <4>. QED BY ONLY <3>1, <3>2, <4>1
    <3>4. ASSUME NEW i \in nuca_iter' .. Len(nuca_list')
          PROVE  nuca_list'[i] = OrgNumber(i + NucaGone)'
      <4>1. i \in nuca_iter .. l
        <5>1. i \in nuca_iter + 1 .. l
          BY <3>1
        <5>. QED BY <1>5, <5>1
      <4>2. OrgNumber(i + NucaGone)' = OrgNumber(i + NucaGone)
        <5>1. PICK j : j = i + NucaGone
          OBVIOUS
        <5>2. (i + NucaGone)' = j
          BY <3>2, <5>1
        <5>3. OrgNumber(i + NucaGone)' = OrgNumber(j)'
          BY <5>2
        <5>. QED BY <1>2, <5>1, <5>3
      <4>. QED BY <1>3, <3>1, <4>1, <4>2
    <3>. QED BY <1>3, <1>5, <2>1, <3>1, <3>3, <3>4
  <2>2. CASE ~MeetsNuca(m)
    <3>. DEFINE d == IF nuca_iter = 1 THEN 2 ELSE nuca_iter
                r == RemoveAt(nuca_list, nuca_iter)
                full == [i \in 1 .. n |-> OrgNumber(i)]
    <3>1. nuca_list' = r /\ nuca_iter' = d
      BY <1>1, <1>5, <2>2 DEF EraseNuca
    <3>2. \A i \in nuca_iter .. l : nuca_list[i] = full[i + (n - l)]
      <4>1. ASSUME NEW i \in nuca_iter .. l PROVE i + NucaGone \in 1 .. n /\ i + NucaGone = i + (n - l)
        <5>. HIDE DEF n, l
        <5>. QED BY <1>3, <1>5
      <4>. QED BY <1>3, <4>1
    <3>3. /\ r \in Seq(OrgRecords) /\ Len(r) = l - 1
          /\ \A i \in d .. Len(r) : r[i] = full[i + (n - Len(r))]
      <4>. DEFINE q == nuca_list
                  c == nuca_iter
      <4>1. /\ q \in Seq(OrgRecords) /\ n \in Nat /\ Len(q) <= n /\ c \in 1 .. Len(q) /\ d \in {c, 2}
            /\ (c # 1 => d = c) /\ (c = 1 => d = 2) /\ EndsAs(q, c, full, n)
        BY <1>3, <1>5, <3>2 DEF EndsAs
      <4>. HIDE DEF q, c, full, d, n
      <4>2. /\ RemoveAt(q, c) \in Seq(OrgRecords) /\ Len(RemoveAt(q, c)) = Len(q) - 1
            /\ EndsAs(RemoveAt(q, c), d, full, n)
        BY ONLY <4>1, EraseKeepsTail
      <4>. QED BY <4>2 DEF q, c, EndsAs
    <3>4. NucaGone' = n - (l - 1) /\ Len(nuca_list') = l - 1
      <4>1. Len(nuca_list)' = l - 1
        BY <3>1, <3>3
      <4>. HIDE DEF l, n, r
      <4>. QED BY <1>2, <4>1 DEF NucaGone
    <3>5. d \in Nat /\ d > 1
      BY <1>5
    <3>6. ASSUME NEW i \in nuca_iter' .. Len(nuca_list')
          PROVE  nuca_list'[i] = OrgNumber(i + NucaGone)'
      <4>1. i \in d .. l - 1
        BY <3>1, <3>4
      <4>2. PICK j \in 1 .. n : j = i + (n - (l - 1))
        <5>. HIDE DEF l, n, d
        <5>. QED BY <1>3, <1>5, <3>5, <4>1
      <4>3. OrgNumber(i + NucaGone)' = OrgNumber(j)'
        <5>1. (i + NucaGone)' = j
          BY <3>4, <4>2
        <5>. QED BY <5>1
      <4>4. r[i] = full[j]
        <5>. HIDE DEF r, full, l, n, d
        <5>. QED BY <3>3, <4>1, <4>2
      <4>. QED BY <1>2, <3>1, <4>3, <4>4
    <3>7. \/ (nuca_iter + NucaGone)' = k + 1 /\ k # 1
          \/ (nuca_iter + NucaGone)' = 3 /\ k = 1
      <4>1. /\ n \in Nat /\ l \in Nat /\ nuca_iter \in Nat /\ nuca_iter > 0 /\ l <= n
            /\ k = nuca_iter + (n - l)
            /\ NucaGone' = n - (l - 1) /\ (nuca_iter = 1 => l = n)
        BY <1>3, <1>5, <3>4
      <4>2. nuca_iter' = IF nuca_iter = 1 THEN 2 ELSE nuca_iter
        BY <3>1
      <4>. HIDE DEF k, n, l
      <4>. QED BY ONLY <4>1, <4>2
    <3>. HIDE DEF r, d, k
    <3>8. Len(nuca_list') \in Nat /\ Len(nuca_list') <= n
      BY <1>3, <1>5, <3>4
    <3>. QED BY <2>2, <3>1, <3>3, <3>5, <3>6, <3>7, <3>8
  <2>. QED BY <2>1, <2>2
<1>13. WalkInv'
  <2>1. (nuca_iter + NucaGone)' = 2 => FirstMeets
    <3>1. k + 1 = 2 => k = 1
      BY <1>5
    <3>. HIDE DEF k, m
    <3>. QED BY <1>11, <1>12, <3>1
  <2>2. (nuca_iter + NucaGone)' = nuca_iter' + NucaGone'
    OBVIOUS
  <2>3. nuca_iter' # 1 /\ nuca_iter' \in Nat \ {0}
    BY <1>12
  <2>. HIDE DEF k, m, n, l
  <2>. QED BY <1>1, <1>2, <1>3, <1>9, <1>12, <2>1, <2>2, <2>3 DEF WalkInv, n
<1>14. CheapestInv'
  <2>. DEFINE Found(r, c) == /\ c = NucaCost(r)
                             /\ \E i \in 1 .. n : /\ i # 2 \/ FirstMeets
                                                  /\ r = OrgNumber(i) /\ MeetsNuca(r)
              Least(i, r, c) == MeetsNuca(OrgNumber(i)) => r # NoOrg /\ c <= NucaCost(OrgNumber(i))
  <2>1. res' # NoOrg => Found(res', nuca_min_cost')
    <3>1. CASE res' = res /\ nuca_min_cost' = nuca_min_cost
      BY <1>4, <3>1
    <3>2. CASE MeetsNuca(m) /\ res' = m /\ nuca_min_cost' = NucaCost(m)
      BY <1>3, <1>5, <1>6, <3>2
    <3>. HIDE DEF Found
    <3>. QED BY <1>1, <3>1, <3>2
  <2>2. NucaCost(m) \in Int /\ (res # NoOrg => nuca_min_cost = NucaCost(res) /\ NucaCost(res) \in Int)
    <3>1. NucaCost(m) \in Int
      BY <1>6, <1>10, CostIsInt
    <3>2. ASSUME res # NoOrg PROVE nuca_min_cost = NucaCost(res) /\ NucaCost(res) \in Int
      <4>1. PICK i \in 1 .. n : res = OrgNumber(i)
        BY <1>4, <3>2
      <4>2. res \in OrgRecords
        BY <1>2, <4>1, OrgNumbersAre
      <4>. QED BY <1>4, <1>10, <3>2, <4>2, CostIsInt
    <3>. QED BY <3>1, <3>2
  <2>3. ASSUME NEW i \in 1 .. n, i < k, i # 2 \/ FirstMeets
        PROVE  Least(i, res', nuca_min_cost')
    <3>1. Least(i, res, nuca_min_cost)
      BY <1>4, <2>3
    <3>2. CASE res' = res /\ nuca_min_cost' = nuca_min_cost
      BY <3>1, <3>2
    <3>3. CASE cheaper /\ res' = m /\ nuca_min_cost' = NucaCost(m)
      <4>1. ASSUME MeetsNuca(OrgNumber(i)) PROVE NucaCost(m) <= NucaCost(OrgNumber(i))
        <5>1. PICK x \in Int : x = NucaCost(OrgNumber(i))
          BY <1>2, <1>10, OrgNumbersAre, CostIsInt
        <5>2. res # NoOrg /\ nuca_min_cost <= x
          BY <3>1, <4>1, <5>1
        <5>3. PICK y \in Int, z \in Int : y = NucaCost(m) /\ z = nuca_min_cost
          BY <2>2, <5>2
        <5>4. z > y /\ z <= x
          BY <3>3, <5>2, <5>3
        <5>5. y <= x
          BY ONLY <5>4
        <5>. QED BY <5>1, <5>3, <5>5
      <4>. QED BY <1>6, <3>3, <4>1
    <3>. HIDE DEF Least, cheaper
    <3>. QED BY <1>1, <3>2, <3>3
  <2>4. Least(k, res', nuca_min_cost')
    <3>. SUFFICES ASSUME MeetsNuca(m) PROVE res' # NoOrg /\ nuca_min_cost' <= NucaCost(m)
      BY <1>6
    <3>1. CASE cheaper
      BY <1>1, <1>6, <2>2, <3>1
    <3>2. CASE ~cheaper
      <4>1. res # NoOrg /\ nuca_min_cost \in Int /\ ~(nuca_min_cost > NucaCost(m))
        BY <2>2, <3>2
      <4>2. res' = res /\ nuca_min_cost' = nuca_min_cost
        BY <1>1, <3>2
      <4>. QED BY <2>2, <4>1, <4>2
    <3>. QED BY <3>1, <3>2
  <2>5. ASSUME NEW i \in 1 .. n, i < (nuca_iter + NucaGone)', i # 2 \/ FirstMeets
        PROVE  i < k \/ i = k
    <3>1. CASE (nuca_iter + NucaGone)' = k + 1
      <4>1. k \in Nat /\ i \in Nat /\ i < k + 1
        BY <1>5, <2>5, <3>1
      <4>. HIDE DEF k
      <4>. QED BY <4>1
    <3>2. CASE (nuca_iter + NucaGone)' = 3 /\ k = 1 /\ ~MeetsNuca(m)
      <4>1. i # 2
        BY <1>11, <2>5, <3>2
      <4>2. i \in Nat /\ i > 0 /\ i < 3
        BY <1>3, <2>5, <3>2
      <4>. QED BY <3>2, <4>1, <4>2
    <3>. QED BY <1>12, <3>1, <3>2
  <2>6. ASSUME NEW i \in 1 .. n, LookedAt(i)' PROVE Least(i, res', nuca_min_cost')
    <3>1. i < (nuca_iter + NucaGone)' /\ (i # 2 \/ FirstMeets)
      BY <1>9, <2>6 DEF LookedAt
    <3>. HIDE DEF Least, k
    <3>. QED BY <2>3, <2>4, <2>5, <3>1
  <2>7. (res # NoOrg => /\ nuca_min_cost = NucaCost(res)
                        /\ \E i \in 1 .. NumOrgs : /\ i # 2 \/ FirstMeets
                                                   /\ res = OrgNumber(i) /\ MeetsNuca(res))'
    <3>1. NucaCost(res)' = NucaCost(res')
      <4>1. PICK r : r = res'
        OBVIOUS
      <4>2. NucaCost(res)' = NucaCost(r)'
        BY <4>1
      <4>. QED BY <1>8, <4>1, <4>2
    <3>2. MeetsNuca(res)' <=> MeetsNuca(res')
      <4>1. PICK r : r = res'
        OBVIOUS
      <4>2. MeetsNuca(res)' <=> MeetsNuca(r)'
        BY <4>1
      <4>. QED BY <1>8, <4>1, <4>2
    <3>3. NumOrgs' = n /\ \A i \in 1 .. n : OrgNumber(i)' = OrgNumber(i)
      BY <1>2
    <3>. HIDE DEF n
    <3>. QED BY <1>9, <2>1, <3>1, <3>2, <3>3
  <2>8. (\A i \in 1 .. NumOrgs : LookedAt(i) /\ MeetsNuca(OrgNumber(i)) =>
           res # NoOrg /\ nuca_min_cost <= NucaCost(OrgNumber(i)))'
    <3>. SUFFICES ASSUME NEW i \in 1 .. n, LookedAt(i)', MeetsNuca(OrgNumber(i))'
                  PROVE  res' # NoOrg /\ nuca_min_cost' <= NucaCost(OrgNumber(i))'
      BY <1>2
    <3>1. PICK o : o = OrgNumber(i)
      OBVIOUS
    <3>2. OrgNumber(i)' = o
      BY <1>2, <3>1
    <3>3. (MeetsNuca(OrgNumber(i))' <=> MeetsNuca(o)') /\ NucaCost(OrgNumber(i))' = NucaCost(o)'
      BY <3>2
    <3>4. (MeetsNuca(o)' <=> MeetsNuca(o)) /\ NucaCost(o)' = NucaCost(o)
      BY <1>8
    <3>. QED BY <2>6, <3>1, <3>3, <3>4
  <2>. HIDE DEF Found, Least
  <2>. QED BY <2>7, <2>8 DEF CheapestInv
<1>15. ~(nuca_stage' \in {"done", "crashed"})
  BY <1>1
<1>. QED BY <1>2, <1>7, <1>13, <1>14, <1>15 DEF NucaInv, StoppedInv

\* What the walk has established stays while it does not move.
LEMMA WalkStays ==
  ASSUME NucaInv, nuca_ip' = nuca_ip, bank_start' = bank_start, iterations' = iterations,
         explored' = explored, nuca_list' = nuca_list, minval' = minval, nuca_iter' = nuca_iter,
         res' = res, nuca_min_cost' = nuca_min_cost, WalkBegun' => WalkBegun
  PROVE  SizesInv' /\ WalkInv' /\ CheapestInv' /\ SmallestBank' = SmallestBank
<1>1. SizesInv' /\ SmallestBank' = SmallestBank /\ NumOrgs' = NumOrgs /\ \A i : OrgNumber(i)' = OrgNumber(i)
  BY OrgsStay DEF NucaInv
<1>2. \A x : NucaCost(x)' = NucaCost(x) /\ (MeetsNuca(x)' <=> MeetsNuca(x))
  BY NucaCostsStay
<1>3. NucaGone' = NucaGone
  BY <1>1 DEF NucaGone
<1>4. FirstMeets' <=> FirstMeets
  BY <1>1, <1>2 DEF FirstMeets
<1>5. \A i : OrgNumber(i + NucaGone)' = OrgNumber(i + NucaGone)
  <2>. TAKE i
  <2>1. PICK j : j = i + NucaGone
    OBVIOUS
  <2>2. (i + NucaGone)' = j
    BY <1>3, <2>1
  <2>3. OrgNumber(i + NucaGone)' = OrgNumber(j)'
    BY <2>2
  <2>. QED BY <1>1, <2>1, <2>3
<1>6. WalkInv'
  BY <1>1, <1>3, <1>4, <1>5 DEF NucaInv, WalkInv
<1>7. NucaCost(res)' = NucaCost(res) /\ (MeetsNuca(res)' <=> MeetsNuca(res))
  <2>1. PICK r : r = res
    OBVIOUS
  <2>2. NucaCost(res)' = NucaCost(r)' /\ (MeetsNuca(res)' <=> MeetsNuca(r)')
    BY <2>1
  <2>. QED BY <1>2, <2>1, <2>2
<1>8. \A i : /\ NucaCost(OrgNumber(i))' = NucaCost(OrgNumber(i))
            /\ (MeetsNuca(OrgNumber(i))' <=> MeetsNuca(OrgNumber(i)))
            /\ (LookedAt(i)' <=> LookedAt(i))
  <2>. TAKE i
  <2>1. PICK o : o = OrgNumber(i)
    OBVIOUS
  <2>2. OrgNumber(i)' = o
    BY <1>1, <2>1
  <2>3. NucaCost(OrgNumber(i))' = NucaCost(o)' /\ (MeetsNuca(OrgNumber(i))' <=> MeetsNuca(o)')
    BY <2>2
  <2>4. LookedAt(i)' <=> LookedAt(i)
    BY <1>3, <1>4 DEF LookedAt
  <2>. QED BY <1>2, <2>1, <2>3, <2>4
<1>9. CheapestInv'
  BY <1>1, <1>4, <1>7, <1>8 DEF NucaInv, CheapestInv
<1>. QED BY <1>1, <1>6, <1>9

LEMMA TakeBankStep == ASSUME NucaInv, TakeBank PROVE NucaInv'
<1>1. /\ nuca_stage = "choose" /\ nuca_iter > Len(nuca_list)
      /\ nuca_stage' \in {"done", "crashed"}
      /\ nuca_stage' = "done" <=> res # NoOrg
      /\ nuca_stage' = "done" => bank_sz' = nuca_ip.cache_sz \div res.bank_count
      /\ nuca_ip' = nuca_ip /\ bank_start' = bank_start /\ iterations' = iterations
      /\ explored' = explored /\ nuca_list' = nuca_list /\ minval' = minval
      /\ nuca_iter' = nuca_iter /\ res' = res /\ nuca_min_cost' = nuca_min_cost
  BY DEF TakeBank
<1>2. SizesInv' /\ WalkInv' /\ CheapestInv'
  <2>1. WalkBegun
    BY <1>1 DEF WalkBegun
  <2>. QED BY <1>1, <2>1, WalkStays
<1>3. ExploreInv'
  BY <1>1 DEF NucaInv, ExploreInv
<1>4. StoppedInv'
  BY <1>1 DEF StoppedInv
<1>. QED BY <1>2, <1>3, <1>4 DEF NucaInv

LEMMA NucaStutters == ASSUME NucaInv, UNCHANGED nucaVars PROVE NucaInv'
<1>1. /\ nuca_ip' = nuca_ip /\ nuca_stage' = nuca_stage /\ bank_start' = bank_start
      /\ iterations' = iterations /\ explored' = explored /\ nuca_list' = nuca_list
      /\ minval' = minval /\ nuca_iter' = nuca_iter /\ res' = res
      /\ nuca_min_cost' = nuca_min_cost /\ bank_sz' = bank_sz
  BY DEF nucaVars
<1>2. /\ SmallestBank' = SmallestBank /\ NumOrgs' = NumOrgs
      /\ \A i : OrgNumber(i)' = OrgNumber(i)
  BY <1>1, OrgsStay
<1>3. WalkBegun' <=> WalkBegun
  BY <1>1, <1>2 DEF WalkBegun
<1>4. SizesInv' /\ WalkInv' /\ CheapestInv'
  BY <1>1, <1>3, WalkStays
<1>5. ExploreInv'
  BY <1>1, <1>2 DEF NucaInv, ExploreInv
<1>6. StoppedInv'
  BY <1>1, <1>3 DEF NucaInv, StoppedInv
<1>. QED BY <1>4, <1>5, <1>6 DEF NucaInv

LEMMA NucaInductive == NucaSpec => []NucaInv
<1>1. NucaInit => NucaInv
  BY NucaInitially
<1>2. NucaInv /\ [NucaNext]_nucaVars => NucaInv'
  <2>. SUFFICES ASSUME NucaInv, [NucaNext]_nucaVars PROVE NucaInv'
    OBVIOUS
  <2>1. CASE BoundSearch
    BY <2>1, BoundStep
  <2>2. CASE ExploreOrg
    BY <2>2, ExploreStep
  <2>3. CASE EndExplore
    BY <2>3, EndExploreStep
  <2>4. CASE ConsiderNuca
    BY <2>4, ConsiderNucaStep
  <2>5. CASE TakeBank
    BY <2>5, TakeBankStep
  <2>6. CASE UNCHANGED nucaVars
    BY <2>6, NucaStutters
  <2>. QED BY <2>1, <2>2, <2>3, <2>4, <2>5, <2>6 DEF NucaNext
<1>. QED BY <1>1, <1>2, PTL DEF NucaSpec

\* Whatever the sizes, the network and the weights, what the search of nuca.cc ends with is
\* the cheapest organisation of all the numbers of banks, wires and routers, each in its grid
\* of least latency, the second explored apart when the first misses the deviations; it
\* crashes only when none is left, and a bank of its size fits the grid.
THEOREM NucaTheorem == NucaSpec => []PicksLeastNuca
BY NucaInductive, NucaIsLeast, PTL

-----------------------------------------------------------------------------
(* The cut of an array: numbers.                                           *)

LEMMA CeilDivIs ==
  ASSUME NEW a \in Nat, NEW b \in Nat, b > 0
  PROVE  CeilDiv(a, b) \in Nat /\ b * CeilDiv(a, b) \in Nat /\ a <= b * CeilDiv(a, b)
<1>. DEFINE q == (a + b - 1) \div b
            r == (a + b - 1) % b
<1>1. a + b - 1 \in Nat
  OBVIOUS
<1>2. q \in Nat /\ r \in Nat /\ r < b /\ a + b - 1 = b * q + r /\ b * q \in Nat
  BY <1>1, DivisionIs
<1>. HIDE DEF q, r
<1>3. a <= b * q
  BY <1>2
<1>. QED BY <1>2, <1>3 DEF CeilDiv, q

LEMMA TimesCancel ==
  ASSUME NEW m \in Nat \ {0}, NEW x \in Nat, NEW y \in Nat, m * x <= m * y
  PROVE  x <= y
<1>. SUFFICES ASSUME y + 1 <= x PROVE FALSE
  OBVIOUS
<1>1. m * (y + 1) <= m * x /\ m * x \in Nat
  BY TimesMonotone
<1>2. m * (y + 1) = m * y + m /\ m * y \in Nat
  OBVIOUS
<1>. QED BY <1>1, <1>2

LEMMA QuotientIsBelow ==
  ASSUME NEW m \in Nat \ {0}, NEW x \in Nat, NEW y \in Nat
  PROVE  /\ y \div m \in Nat /\ (y <= m * x => y \div m <= x) /\ (y < m * x => y \div m < x)
<1>. DEFINE q == y \div m
<1>1. q \in Nat /\ m * q <= y /\ m * q \in Nat /\ m * x \in Nat
  BY DivisionIs
<1>. HIDE DEF q
<1>2. ASSUME y <= m * x PROVE q <= x
  BY <1>1, <1>2, TimesCancel
<1>3. ASSUME y < m * x PROVE q < x
  <2>1. q <= x /\ m * q < m * x
    BY <1>1, <1>3, TimesCancel
  <2>. QED BY <1>1, <2>1
<1>. QED BY <1>1, <1>2, <1>3 DEF q

\* Of a number below 2^31 the logarithm is rounded down.
LEMMA LogIs ==
  ASSUME NEW n \in Nat, n > 0, n \div Power(30) <= 1
  PROVE  /\ Log2(n) \in 0 .. 30 /\ Power(Log2(n)) \in Nat \ {0}
         /\ Power(Log2(n)) <= n /\ n < 2 * Power(Log2(n))
<1>1. Log2(n) = FloorLog(n)
  BY DEF Log2, FloorLog
<1>2. Log2(n) \in 0 .. 30 /\ Power(Log2(n)) <= n /\ n < 2 * Power(Log2(n))
  BY <1>1, FloorLogIs
<1>. QED BY <1>2, PowerIsPositive

LEMMA BelowTwice ==
  ASSUME NEW p \in Nat \ {0}, NEW a \in Nat, NEW n \in Nat, n <= a, a \div p <= 1
  PROVE  n \div p <= 1
<1>1. PICK y \in Nat : y = a \div p /\ a = p * y + (a % p) /\ a % p \in Nat /\ a % p < p
  BY DivisionIs
<1>2. y = 0 \/ y = 1
  BY <1>1
<1>3. a < p * 2
  BY <1>1, <1>2
<1>4. n < p * 2
  BY <1>3
<1>5. n \div p \in Nat /\ n \div p < 2
  BY <1>4, QuotientIsBelow
<1>. QED BY <1>5

\* A square of mats.
LEMMA RootIs ==
  ASSUME NEW n \in Nat \ {0}, NEW h \in 1 .. n, h * h <= n, n < (h + 1) * (h + 1)
  PROVE  Root(n) = h
<1>1. ASSUME NEW a \in Nat, NEW b \in Nat, a < b, n < (a + 1) * (a + 1), b * b <= n PROVE FALSE
  <2>1. a + 1 <= b /\ a + 1 \in Nat
    BY <1>1
  <2>2. (a + 1) * (a + 1) <= (a + 1) * b /\ b * (a + 1) <= b * b
    BY <2>1, TimesMonotone
  <2>3. (a + 1) * b = b * (a + 1) /\ (a + 1) * b \in Nat /\ (a + 1) * (a + 1) \in Nat /\ b * b \in Nat
    BY <2>1
  <2>. QED BY <1>1, <2>2, <2>3
<1>2. ASSUME NEW x \in 1 .. n, x * x <= n, n < (x + 1) * (x + 1) PROVE x = h
  <2>1. x \in Nat /\ h \in Nat
    OBVIOUS
  <2>2. ~(x < h) /\ ~(h < x)
    BY <1>1, <1>2, <2>1
  <2>. QED BY <2>1, <2>2
<1>. QED BY <1>2 DEF Root

LEMMA RootsAre ==
  Root(1) = 1 /\ Root(2) = 1 /\ Root(4) = 2 /\ Root(8) = 2 /\ Root(16) = 4 /\ Root(64) = 8
<1>1. Root(1) = 1 /\ Root(2) = 1
  BY RootIs
<1>2. Root(4) = 2 /\ Root(8) = 2
  BY RootIs
<1>3. Root(16) = 4
  BY RootIs
<1>4. Root(64) = 8
  BY RootIs
<1>. QED BY <1>1, <1>2, <1>3, <1>4

-----------------------------------------------------------------------------
(* The places of a cut.                                                    *)

Sides == {1, 2, 4, 8, 16, 32, 64, 128, 256, 512}

LEMMA InputIs ==
  ASSUME NEW g \in Inputs
  PROVE  /\ g.cache_sz \in Nat \ {0} /\ g.nbanks \in Nat \ {0} /\ g.block_sz \in Nat \ {0}
         /\ g.tag_assoc \in Nat \ {0} /\ g.data_assoc \in Nat \ {0} /\ g.tag_w \in Nat \ {0}
         /\ g.cache_sz \div Power(30) <= 1 /\ (2 * g.tag_assoc - 1) \div Power(30) <= 1
         /\ ~(g.is_cache /\ g.pure_cam)
BY PartitionAssumption DEF Power

LEMMA StackIs ==
  ASSUME NEW g \in Inputs, g.is_3d_mem, NEW c \in Cuts, NEW bits,
         bits = (Giga \div (g.num_die_3d * g.nbanks)) * g.cache_sz
  PROVE  /\ g.page_sz_bits \in Nat \ {0} /\ g.num_die_3d \in Nat \ {0}
         /\ ~g.fully_assoc /\ ~g.pure_cam
         /\ bits \div Power(30) <= 1 /\ g.page_sz_bits * c.Ndbl <= bits
BY PartitionAssumption DEF Power

LEMMA CutIs ==
  ASSUME cut \in Cuts
  PROVE  cut.Ndwl \in Sides /\ cut.Ndbl \in Sides /\ cut.Nspd \in Nat \ {0}
BY PartitionAssumption DEF Sides

LEMMA SearchedMats ==
  ASSUME cut \in Cuts, cut.Ndbl >= 2, cut.Ndbl \notin {128, 512}
  PROVE  cut.Ndbl <= 4 * (Mats[1] * Mats[2])
<1>. DEFINE n == cut.Ndbl
<1>1. n \in {2, 4, 8, 16, 32, 64, 256}
  BY CutIs DEF Sides
<1>2. Mats = IF n = 2 THEN <<1, 1>> ELSE LET h == Root(n \div 4) IN <<h, (n \div 4) \div h>>
  BY DEF Mats
<1>. SUFFICES n <= 4 * (Mats[1] * Mats[2])
  OBVIOUS
<1>. HIDE DEF n
<1>3. CASE n = 2
  BY <1>2, <1>3
<1>4. CASE n \in {4, 8}
  <2>1. n \div 4 \in {1, 2} /\ n = 4 * (n \div 4)
    BY <1>4
  <2>2. Root(n \div 4) = 1
    BY <2>1, RootsAre
  <2>. QED BY <1>2, <1>4, <2>1, <2>2
<1>5. CASE n \in {16, 32}
  <2>1. n \div 4 \in {4, 8} /\ n = 4 * (n \div 4)
    BY <1>5
  <2>2. Root(n \div 4) = 2
    BY <2>1, RootsAre
  <2>. QED BY <1>2, <1>5, <2>1, <2>2
<1>6. CASE n = 64
  <2>1. n \div 4 = 16
    BY <1>6
  <2>. QED BY <1>2, <1>6, <2>1, RootsAre
<1>7. CASE n = 256
  <2>1. n \div 4 = 64
    BY <1>7
  <2>. QED BY <1>2, <1>7, <2>1, RootsAre
<1>. QED BY <1>1, <1>3, <1>4, <1>5, <1>6, <1>7

LEMMA MatsOfFour ==
  ASSUME cut \in Cuts, cut.Ndwl >= 2, cut.Ndbl >= 2
  PROVE  cut.Ndwl * cut.Ndbl <= 4 * (Across * Down)
<1>1. \A n \in Sides : n >= 2 => \E a \in Nat \ {0} : n = 2 * a /\ n \div 2 = a
  BY DEF Sides
<1>2. PICK a \in Nat \ {0} : cut.Ndwl = 2 * a /\ cut.Ndwl \div 2 = a
  BY <1>1, CutIs
<1>3. PICK b \in Nat \ {0} : cut.Ndbl = 2 * b /\ cut.Ndbl \div 2 = b
  BY <1>1, CutIs
<1>4. Across = a /\ Down = b
  BY <1>2, <1>3 DEF Across, Down, AtLeast1
<1>5. (2 * a) * (2 * b) = 4 * (a * b) /\ (2 * a) * (2 * b) \in Nat
  OBVIOUS
<1>. QED BY <1>2, <1>3, <1>4, <1>5

\* The d * n subarrays of r rows and c columns have places for all bits, given that the rows
\* were rounded up, and so were the columns; then the same where a bit of data has t of tag.
LEMMA WordsFit ==
  ASSUME NEW r \in Nat, NEW c \in Nat, NEW nb \in Nat \ {0}, NEW b \in Nat, NEW a \in Nat,
         NEW n \in Nat, NEW d \in Nat, NEW s \in Nat, NEW all \in Nat,
         all <= (nb * b * a * n * s) * r, b * a * s <= d * c
  PROVE  all <= nb * (r * c * (d * n))
<1>1. PICK x \in Nat, y \in Nat, z \in Nat : x = r * nb * n /\ y = b * a * s /\ z = d * c
  OBVIOUS
<1>2. x * y <= x * z /\ x * y \in Nat /\ x * z \in Nat
  BY <1>1, TimesMonotone
<1>3. x * y = (nb * b * a * n * s) * r
  <2>1. (r * nb * n) * (b * a * s) = (nb * b * a * n * s) * r
    OBVIOUS
  <2>. QED BY <1>1, <2>1
<1>4. x * z = nb * (r * c * (d * n))
  <2>1. (r * nb * n) * (d * c) = nb * (r * c * (d * n))
    OBVIOUS
  <2>. QED BY <1>1, <2>1
<1>. QED BY <1>2, <1>3, <1>4

LEMMA TagsFit ==
  ASSUME NEW r \in Nat, NEW c \in Nat, NEW nb \in Nat \ {0}, NEW b \in Nat \ {0}, NEW a \in Nat,
         NEW n \in Nat, NEW d \in Nat, NEW s \in Nat, NEW t \in Nat, NEW size \in Nat,
         8 * size <= (nb * b * a * n * s) * r, t * a * s <= (8 * d) * c
  PROVE  t * (size \div (nb * b)) <= r * c * (d * n)
<1>1. PICK m \in Nat \ {0}, x \in Nat, y \in Nat, z \in Nat :
        m = nb * b /\ x = r * nb * n * b /\ y = t * a * s /\ z = (8 * d) * c
  <2>1. nb * b \in Nat \ {0}
    OBVIOUS
  <2>. QED BY <2>1
<1>2. x * y <= x * z /\ x * y \in Nat /\ x * z \in Nat
  BY <1>1, TimesMonotone
<1>3. PICK v \in Nat, p \in Nat : v = (nb * b * a * n * s) * r /\ p = r * c * (d * n)
  OBVIOUS
<1>4. x * y = t * v
  <2>1. (r * nb * n * b) * (t * a * s) = t * ((nb * b * a * n * s) * r)
    OBVIOUS
  <2>. QED BY <1>1, <1>3, <2>1
<1>5. x * z = 8 * (m * p)
  <2>1. (r * nb * n * b) * ((8 * d) * c) = 8 * ((nb * b) * (r * c * (d * n)))
    OBVIOUS
  <2>. QED BY <1>1, <1>3, <2>1
<1>6. t * (8 * size) <= t * v /\ t * (8 * size) \in Nat /\ t * v \in Nat
  BY <1>3, TimesMonotone
<1>7. t * size <= m * p /\ t * size \in Nat /\ m * p \in Nat
  <2>1. t * (8 * size) = 8 * (t * size) /\ t * size \in Nat /\ m * p \in Nat
    OBVIOUS
  <2>. QED BY <1>2, <1>4, <1>5, <1>6, <2>1
<1>8. PICK q \in Nat : q = size \div m /\ m * q <= size /\ m * q \in Nat
  BY DivisionIs
<1>9. t * (m * q) <= t * size /\ t * (m * q) \in Nat
  BY <1>8, TimesMonotone
<1>10. t * (m * q) = m * (t * q) /\ t * q \in Nat /\ m * (t * q) \in Nat
  OBVIOUS
<1>11. m * (t * q) <= m * p
  BY <1>7, <1>9, <1>10
<1>12. t * q <= p
  BY <1>10, <1>11, TimesCancel
<1>. QED BY <1>1, <1>3, <1>8, <1>12

LEMMA LinesFit ==
  ASSUME NEW size \in Nat, NEW nb \in Nat \ {0}, NEW b \in Nat \ {0}, NEW n \in Nat \ {0},
         NEW r, r = size \div (nb * b * n)
  PROVE  r \in Nat /\ (8 * size) \div nb < r * (8 * b) * n + (8 * b) * n
<1>1. PICK m \in Nat \ {0} : m = nb * b * n
  <2>1. nb * b * n \in Nat \ {0}
    OBVIOUS
  <2>. QED BY <2>1
<1>2. PICK q \in Nat : q = r /\ size = m * q + (size % m) /\ size % m \in Nat /\ size % m < m /\ m * q \in Nat
  BY <1>1, DivisionIs
<1>3. PICK x \in Nat : x = q * (8 * b) * n + (8 * b) * n
  OBVIOUS
<1>4. nb * x = 8 * (m * q + m)
  <2>1. nb * (q * (8 * b) * n + (8 * b) * n) = 8 * ((nb * b * n) * q + nb * b * n)
    OBVIOUS
  <2>. QED BY <1>1, <1>3, <2>1
<1>5. 8 * size < nb * x
  BY <1>2, <1>4
<1>6. (8 * size) \div nb < x
  BY <1>5, QuotientIsBelow
<1>. QED BY <1>2, <1>3, <1>6

LEMMA HalfOfStack ==
  ASSUME NEW bits \in Nat, NEW x \in Nat \ {0}, NEW q, q = bits \div x, NEW p \in Nat, q < 2 * p
  PROVE  bits \div 2 < p * x
<1>1. PICK k \in Nat : k = q /\ bits = x * k + (bits % x) /\ bits % x \in Nat /\ bits % x < x /\ x * k \in Nat
  BY DivisionIs
<1>2. x * (k + 1) <= x * (2 * p) /\ x * (2 * p) \in Nat
  <2>1. k + 1 \in Nat /\ k + 1 <= 2 * p /\ 2 * p \in Nat
    BY <1>1
  <2>. QED BY <2>1, TimesMonotone
<1>3. x * (k + 1) = x * k + x
  OBVIOUS
<1>4. bits < x * (2 * p)
  BY <1>1, <1>2, <1>3
<1>5. x * (2 * p) = 2 * (p * x) /\ p * x \in Nat
  OBVIOUS
<1>6. PICK y \in Nat : y = p * x
  BY <1>5
<1>7. bits < 2 * y
  BY <1>4, <1>5, <1>6
<1>. QED BY <1>6, <1>7, QuotientIsBelow

\* What HoldsTheBank says, of any construction d.
ColumnsOf(d) == IF input.pure_cam THEN d.tagbits
                ELSE IF input.fully_assoc THEN 8 * input.block_sz ELSE d.num_c_subarray
BitsOf(d) ==
  IF Stacked(input) THEN (Giga \div (input.num_die_3d * input.nbanks)) * input.cache_sz
  ELSE IF is_tag THEN d.tagbits * (input.cache_sz \div (input.nbanks * input.block_sz))
  ELSE (8 * input.cache_sz) \div input.nbanks
PlacesOf(d) == d.num_r_subarray * ColumnsOf(d) * d.num_subarrays
Holds(d) ==
  /\ CASE input.fully_assoc -> PlacesOf(d) + ColumnsOf(d) * d.num_subarrays > BitsOf(d)
       [] Stacked(input) -> PlacesOf(d) > BitsOf(d) \div 2
       [] OTHER -> PlacesOf(d) >= BitsOf(d)
  /\ InMats(input) => 4 * d.num_mats >= d.num_subarrays

LEMMA AdjustedIs ==
  ASSUME NEW g, NEW d, NEW f \in DOMAIN d, f \notin OnHtrees
  PROVE  Protected(g, d)[f] = d[f]
BY DEF Protected, ECC_adjustment

LEMMA SearchedIs ==
  ASSUME NEW g, NEW rows, NEW e, NEW d, d = Protected(g, With(Searched(g, rows), e)),
         DOMAIN e \cap {"num_r_subarray", "num_subarrays", "num_mats"} = {}
  PROVE  /\ d.num_r_subarray = rows /\ d.num_subarrays = cut.Ndbl
         /\ d.num_mats = Mats[1] * Mats[2]
         /\ "tagbits" \in DOMAIN e => d.tagbits = e.tagbits
<1>. DEFINE w == With(Searched(g, rows), e)
            names == {"num_r_subarray", "num_subarrays", "num_mats"}
<1>1. \A f \in names \cup {"tagbits"} : f \notin OnHtrees
  BY DEF OnHtrees
<1>2. names \subseteq DOMAIN w /\ w.num_r_subarray = rows /\ w.num_subarrays = cut.Ndbl
      /\ w.num_mats = Mats[1] * Mats[2]
  BY DEF With, Searched
<1>3. "tagbits" \in DOMAIN e => "tagbits" \in DOMAIN w /\ w.tagbits = e.tagbits
  BY DEF With
<1>4. \A f \in DOMAIN w : f \notin OnHtrees => d[f] = w[f]
  BY AdjustedIs
<1>. HIDE DEF w
<1>. QED BY <1>1, <1>2, <1>3, <1>4

LEMMA CamHolds ==
  ASSUME input \in Inputs, cut \in Cuts, ~is_tag, input.pure_cam, ~Stacked(input),
         NEW d, d = init_CAM(input), d.is_valid
  PROVE  Holds(d)
<1>. DEFINE t == CamTagBits(input)
            rows == CeilDiv(8 * input.cache_sz, input.nbanks * t * cut.Ndbl)
<1>1. PICK e : /\ d = Protected(input, With(Searched(input, rows), e)) /\ Fits(rows, t) /\ Fixed
               /\ e.tagbits = t /\ "tagbits" \in DOMAIN e
               /\ DOMAIN e \cap {"num_r_subarray", "num_subarrays", "num_mats"} = {}
  BY DEF init_CAM, NotValid
<1>. HIDE DEF t, rows
<1>2. /\ d.num_r_subarray = rows /\ d.num_subarrays = cut.Ndbl /\ d.tagbits = t
      /\ d.num_mats = Mats[1] * Mats[2]
  BY <1>1, SearchedIs
<1>3. PICK n \in Nat \ {0} : n = cut.Ndbl /\ n >= 2
  BY <1>1, CutIs DEF Sides, Fixed
<1>4. t \in Nat \ {0} /\ rows \in Nat
  BY <1>1, PartitionAssumption DEF Fits
<1>5. PICK nb \in Nat \ {0}, size \in Nat : nb = input.nbanks /\ size = input.cache_sz
  BY InputIs
<1>6. 8 * size <= nb * (rows * t * n)
  <2>1. PICK m \in Nat \ {0} : m = nb * t * n
    <3>1. nb * t * n \in Nat \ {0}
      BY <1>4
    <3>. QED BY <3>1
  <2>2. rows = CeilDiv(8 * size, m)
    BY <1>3, <1>5, <2>1 DEF rows
  <2>3. 8 * size <= m * rows
    BY <2>2, CeilDivIs
  <2>4. m * rows = nb * (rows * t * n)
    <3>1. (nb * t * n) * rows = nb * (rows * t * n)
      BY <1>4
    <3>. QED BY <2>1, <3>1
  <2>. QED BY <2>3, <2>4
<1>7. (8 * size) \div nb <= rows * t * n
  <2>1. rows * t * n \in Nat /\ 8 * size \in Nat
    BY <1>4
  <2>. QED BY <1>6, <2>1, QuotientIsBelow
<1>8. PlacesOf(d) = rows * t * n /\ BitsOf(d) = (8 * size) \div nb
  BY <1>2, <1>3, <1>5 DEF PlacesOf, ColumnsOf, BitsOf
<1>10. PlacesOf(d) >= BitsOf(d) /\ PlacesOf(d) + ColumnsOf(d) * d.num_subarrays > BitsOf(d)
  <2>1. PICK x \in Nat, y \in Nat, z \in Nat \ {0} : x = (8 * size) \div nb /\ y = rows * t * n /\ z = t * n
    <3>1. (8 * size) \div nb \in Nat
      <4>1. 8 * size \in Nat
        OBVIOUS
      <4>. QED BY <4>1, DivisionIs
    <3>2. rows * t * n \in Nat /\ t * n \in Nat \ {0}
      BY <1>4
    <3>. QED BY <3>1, <3>2
  <2>2. x <= y
    BY <1>7, <2>1
  <2>3. y >= x /\ y + z > x
    BY <2>1, <2>2
  <2>4. ColumnsOf(d) * d.num_subarrays = z
    BY <1>2, <1>3, <2>1 DEF ColumnsOf
  <2>. QED BY <1>8, <2>1, <2>3, <2>4
<1>9. InMats(input) => 4 * d.num_mats >= d.num_subarrays
  <2>. SUFFICES ASSUME InMats(input) PROVE cut.Ndbl <= 4 * (Mats[1] * Mats[2])
    <3>1. \A x : cut.Ndbl <= x => x >= cut.Ndbl
      OBVIOUS
    <3>. QED BY <1>2, <3>1
  <2>. QED BY <1>3, SearchedMats DEF InMats, Searchable
<1>. QED BY <1>9, <1>10 DEF Holds

LEMMA FullHolds ==
  ASSUME input \in Inputs, cut \in Cuts, ~is_tag, ~input.pure_cam, input.fully_assoc, ~Stacked(input),
         NEW d, d = init_FA(input), d.is_valid
  PROVE  Holds(d)
<1>. DEFINE rows == input.cache_sz \div (input.nbanks * input.block_sz * cut.Ndbl)
<1>1. PICK e : /\ d = Protected(input, With(Searched(input, rows), e)) /\ Fixed
               /\ DOMAIN e \cap {"num_r_subarray", "num_subarrays", "num_mats"} = {}
  BY DEF init_FA, NotValid
<1>. HIDE DEF rows
<1>2. d.num_r_subarray = rows /\ d.num_subarrays = cut.Ndbl /\ d.num_mats = Mats[1] * Mats[2]
  BY <1>1, SearchedIs
<1>3. PICK n \in Nat \ {0} : n = cut.Ndbl /\ n >= 2
  BY <1>1, CutIs DEF Sides, Fixed
<1>4. PICK nb \in Nat \ {0}, size \in Nat, b \in Nat \ {0} :
        nb = input.nbanks /\ size = input.cache_sz /\ b = input.block_sz
  BY InputIs
<1>5. rows \in Nat /\ (8 * size) \div nb < rows * (8 * b) * n + (8 * b) * n
  <2>1. rows = size \div (nb * b * n)
    BY <1>3, <1>4 DEF rows
  <2>. QED BY <2>1, LinesFit
<1>6. /\ PlacesOf(d) = rows * (8 * b) * n /\ ColumnsOf(d) * d.num_subarrays = (8 * b) * n
      /\ BitsOf(d) = (8 * size) \div nb
  BY <1>2, <1>3, <1>4 DEF PlacesOf, ColumnsOf, BitsOf
<1>7. InMats(input) => 4 * d.num_mats >= d.num_subarrays
  <2>. SUFFICES ASSUME InMats(input) PROVE cut.Ndbl <= 4 * (Mats[1] * Mats[2])
    <3>1. \A x : cut.Ndbl <= x => x >= cut.Ndbl
      OBVIOUS
    <3>. QED BY <1>2, <3>1
  <2>. QED BY <1>3, SearchedMats DEF InMats, Searchable
<1>8. PlacesOf(d) + ColumnsOf(d) * d.num_subarrays > BitsOf(d)
  <2>. DEFINE x == (8 * size) \div nb
              y == rows * (8 * b) * n
              z == (8 * b) * n
  <2>1. x < y + z
    BY <1>5
  <2>. HIDE DEF x, y, z
  <2>2. y + z > x
    BY <2>1
  <2>. QED BY <1>6, <2>2 DEF x, y, z
<1>. QED BY <1>7, <1>8 DEF Holds

\* The width of a set is at least a column's.
LEMMA TagBitsAre ==
  ASSUME input \in Inputs, is_tag
  PROVE  TagBits(input) \in Nat \ {0}
<1>1. CASE input.specific_tag
  BY <1>1, InputIs DEF TagBits
<1>2. CASE ~input.specific_tag
  <2>1. Log2(input.cache_sz) \in 0 .. 30
    BY InputIs, LogIs
  <2>2. Log2(2 * input.tag_assoc - 1) \in 0 .. 30
    <3>1. 2 * input.tag_assoc - 1 \in Nat /\ 2 * input.tag_assoc - 1 > 0
      BY InputIs
    <3>. QED BY <3>1, InputIs, LogIs
  <2>3. TagBits(input) = 47 - Log2(input.cache_sz) + Log2(2 * input.tag_assoc - 1)
    BY <1>2 DEF TagBits, AddressAndExtra, ADDRESS_BITS, EXTRA_TAG_BITS
  <2>. QED BY <2>1, <2>2, <2>3
<1>. QED BY <1>1, <1>2

LEMMA AddressedIs ==
  ASSUME NEW g, NEW d, d = Protected(g, Addressed(g))
  PROVE  /\ d.num_r_subarray = Rows(g) /\ d.num_c_subarray = Cols(g) /\ d.tagbits = TagBits(g)
         /\ d.num_subarrays = cut.Ndwl * cut.Ndbl /\ d.num_mats = Across * Down
<1>. DEFINE names == {"num_r_subarray", "num_c_subarray", "tagbits", "num_subarrays", "num_mats"}
<1>1. \A f \in names : f \notin OnHtrees /\ f \in DOMAIN Addressed(g)
  BY DEF OnHtrees, Addressed
<1>2. \A f \in names : d[f] = Addressed(g)[f]
  BY <1>1, AdjustedIs
<1>3. LET a == Addressed(g)
      IN  /\ a.num_r_subarray = Rows(g) /\ a.num_c_subarray = Cols(g) /\ a.tagbits = TagBits(g)
          /\ a.num_subarrays = cut.Ndwl * cut.Ndbl /\ a.num_mats = Across * Down
  BY DEF Addressed
<1>. QED BY <1>2, <1>3

LEMMA SetsHold ==
  ASSUME input \in Inputs, cut \in Cuts, ~input.pure_cam, ~input.fully_assoc,
         calc_subarr_rc(input), NEW d, d = Protected(input, Addressed(input))
  PROVE  Holds(d)
<1>1. /\ d.num_r_subarray = Rows(input) /\ d.num_c_subarray = Cols(input)
      /\ d.tagbits = TagBits(input) /\ d.num_subarrays = cut.Ndwl * cut.Ndbl
      /\ d.num_mats = Across * Down
  BY AddressedIs
<1>2. PICK w \in Nat \ {0}, n \in Nat \ {0}, s \in Nat \ {0} :
        w = cut.Ndwl /\ n = cut.Ndbl /\ s = cut.Nspd /\ w >= 2 /\ n >= 2
  BY CutIs DEF calc_subarr_rc, Sides
<1>3. PICK nb \in Nat \ {0}, size \in Nat \ {0}, b \in Nat \ {0}, ta \in Nat \ {0}, da \in Nat \ {0} :
        /\ nb = input.nbanks /\ size = input.cache_sz /\ b = input.block_sz
        /\ ta = input.tag_assoc /\ da = input.data_assoc
  BY InputIs
<1>4. PICK r \in Nat \ {0}, c \in Nat \ {0} : r = Rows(input) /\ c = Cols(input)
  BY PartitionAssumption DEF calc_subarr_rc, Fits
<1>5. PlacesOf(d) = r * c * (w * n)
  BY <1>1, <1>2, <1>4 DEF PlacesOf, ColumnsOf
<1>6. InMats(input) => 4 * d.num_mats >= d.num_subarrays
  <2>1. cut.Ndwl * cut.Ndbl <= 4 * (Across * Down)
    BY <1>2, MatsOfFour
  <2>2. \A x, y : x <= y => y >= x
    OBVIOUS
  <2>. QED BY <1>1, <2>1, <2>2
<1>7. CASE Stacked(input)
  <2>1. input.is_3d_mem /\ ~is_tag
    BY <1>7 DEF Stacked
  <2>2. PICK bits : bits = (Giga \div (input.num_die_3d * input.nbanks)) * input.cache_sz
    OBVIOUS
  <2>3. PICK page \in Nat \ {0}, die \in Nat \ {0} : page = input.page_sz_bits /\ die = input.num_die_3d
    BY <2>1, <2>2, StackIs
  <2>4. bits \in Nat /\ bits \div Power(30) <= 1 /\ page * n <= bits
    <3>1. PICK x \in Nat \ {0} : x = die * nb
      <4>1. die * nb \in Nat \ {0}
        OBVIOUS
      <4>. QED BY <4>1
    <3>2. Giga \in Nat /\ Giga \div x \in Nat
      BY PartitionAssumption, DivisionIs
    <3>3. bits = (Giga \div x) * size
      BY <1>3, <2>2, <2>3, <3>1
    <3>. QED BY <1>2, <2>1, <2>2, <2>3, <3>2, <3>3, StackIs
  <2>5. c = page \div w /\ c * w <= page
    <3>1. c = page \div w
      BY <1>2, <1>4, <1>7, <2>3 DEF Cols
    <3>2. w * (page \div w) <= page
      BY DivisionIs
    <3>3. c * w = w * c
      OBVIOUS
    <3>. QED BY <3>1, <3>2, <3>3
  <2>6. PICK x \in Nat \ {0} : x = c * n * w
    <3>1. c * n * w \in Nat \ {0}
      OBVIOUS
    <3>. QED BY <3>1
  <2>7. x <= bits
    <3>1. n * (c * w) <= n * page /\ n * page \in Nat
      BY <2>5, TimesMonotone
    <3>2. n * (c * w) = c * n * w /\ n * page = page * n
      OBVIOUS
    <3>. QED BY <2>4, <2>6, <3>1, <3>2
  <2>8. PICK q \in Nat \ {0} : q = bits \div x /\ q <= bits
    <3>1. bits \div x \in 1 .. bits
      BY <2>4, <2>6, <2>7, QuotientPositive
    <3>. QED BY <2>4, <3>1
  <2>9. q \div Power(30) <= 1
    <3>1. PICK p \in Nat \ {0} : p = Power(30)
      <4>1. 30 \in 0 .. 30
        OBVIOUS
      <4>. QED BY ONLY <4>1, PowerIsPositive
    <3>. QED BY <2>4, <2>8, <3>1, BelowTwice
  <2>10. r = Power(Log2(q))
    BY <1>2, <1>4, <1>7, <2>2, <2>6, <2>8 DEF Rows, Power
  <2>11. q < 2 * r
    BY <2>8, <2>9, <2>10, LogIs
  <2>12. bits \div 2 < r * x
    BY <2>4, <2>8, <2>11, HalfOfStack
  <2>13. r * x = r * c * (w * n)
    <3>1. r * (c * n * w) = r * c * (w * n)
      OBVIOUS
    <3>. QED BY <2>6, <3>1
  <2>14. BitsOf(d) = bits
    BY <1>7, <2>2 DEF BitsOf
  <2>15. PlacesOf(d) > BitsOf(d) \div 2
    <3>1. \A y, z : y < z => z > y
      OBVIOUS
    <3>. QED BY <1>5, <2>12, <2>13, <2>14, <3>1
  <2>. QED BY <1>6, <1>7, <2>15 DEF Holds
<1>8. CASE ~Stacked(input) /\ ~is_tag
  <2>1. c = CeilDiv(8 * b * da * s, 8 * w) /\ r = CeilDiv(8 * size, nb * b * da * n * s)
    BY <1>2, <1>3, <1>4, <1>8 DEF Cols, Rows, WidthOfSet, Assoc
  <2>2. b * da * s <= w * c
    <3>1. PICK x \in Nat, y \in Nat \ {0} : x = 8 * b * da * s /\ y = 8 * w
      <4>1. 8 * b * da * s \in Nat /\ 8 * w \in Nat \ {0}
        OBVIOUS
      <4>. QED BY <4>1
    <3>2. x <= y * c
      <4>1. c = CeilDiv(x, y)
        BY <2>1, <3>1
      <4>2. x <= y * CeilDiv(x, y)
        <5>1. y \in Nat /\ y > 0
          OBVIOUS
        <5>. QED BY ONLY x \in Nat, <5>1, CeilDivIs
      <4>. QED BY ONLY <4>1, <4>2
    <3>3. 8 * b * da * s = 8 * (b * da * s) /\ (8 * w) * c = 8 * (w * c)
          /\ b * da * s \in Nat /\ w * c \in Nat
      OBVIOUS
    <3>. QED BY <3>1, <3>2, <3>3
  <2>3. 8 * size <= (nb * b * da * n * s) * r
    <3>1. PICK y \in Nat \ {0} : y = nb * b * da * n * s
      <4>1. nb * b * da * n * s \in Nat \ {0}
        OBVIOUS
      <4>. QED BY <4>1
    <3>. QED BY <2>1, <3>1, CeilDivIs
  <2>4. 8 * size <= nb * (r * c * (w * n))
    <3>1. 8 * size \in Nat
      OBVIOUS
    <3>. QED BY <2>2, <2>3, <3>1, WordsFit
  <2>5. (8 * size) \div nb <= r * c * (w * n)
    <3>1. r * c * (w * n) \in Nat /\ 8 * size \in Nat
      OBVIOUS
    <3>. QED BY <2>4, <3>1, QuotientIsBelow
  <2>6. BitsOf(d) = (8 * size) \div nb
    BY <1>3, <1>8 DEF BitsOf
  <2>7. PlacesOf(d) >= BitsOf(d)
    <3>1. \A y, z : y <= z => z >= y
      OBVIOUS
    <3>. QED BY <1>5, <2>5, <2>6, <3>1
  <2>. QED BY <1>6, <1>8, <2>7 DEF Holds
<1>9. CASE ~Stacked(input) /\ is_tag
  <2>1. PICK t \in Nat \ {0} : t = TagBits(input)
    BY <1>9, TagBitsAre
  <2>2. c = CeilDiv(t * ta * s, 8 * w) /\ r = CeilDiv(8 * size, nb * b * ta * n * s)
    BY <1>2, <1>3, <1>4, <1>9, <2>1 DEF Cols, Rows, WidthOfSet, Assoc
  <2>3. t * ta * s <= (8 * w) * c
    <3>1. PICK x \in Nat, y \in Nat \ {0} : x = t * ta * s /\ y = 8 * w
      <4>1. t * ta * s \in Nat /\ 8 * w \in Nat \ {0}
        OBVIOUS
      <4>. QED BY <4>1
    <3>. QED BY <2>2, <3>1, CeilDivIs
  <2>4. 8 * size <= (nb * b * ta * n * s) * r
    <3>1. PICK y \in Nat \ {0} : y = nb * b * ta * n * s
      <4>1. nb * b * ta * n * s \in Nat \ {0}
        OBVIOUS
      <4>. QED BY <4>1
    <3>. QED BY <2>2, <3>1, CeilDivIs
  <2>5. t * (size \div (nb * b)) <= r * c * (w * n)
    BY <2>3, <2>4, TagsFit
  <2>6. BitsOf(d) = t * (size \div (nb * b))
    BY <1>1, <1>3, <1>9, <2>1 DEF BitsOf
  <2>7. PlacesOf(d) >= BitsOf(d)
    <3>1. \A y, z : y <= z => z >= y
      OBVIOUS
    <3>. QED BY <1>5, <2>5, <2>6, <3>1
  <2>. QED BY <1>6, <1>9, <2>7 DEF Holds
<1>. QED BY <1>7, <1>8, <1>9

LEMMA ConstructedHolds ==
  ASSUME input \in Inputs, cut \in Cuts, is_tag => input.is_cache /\ ~input.fully_assoc,
         NEW d, d = Constructed(input), d.is_valid
  PROVE  Holds(d)
<1>1. ~(input.is_cache /\ input.pure_cam)
  BY InputIs
<1>2. Stacked(input) => ~input.fully_assoc /\ ~input.pure_cam
  BY PartitionAssumption DEF Stacked
<1>3. CASE input.pure_cam
  <2>1. d = init_CAM(input) /\ ~is_tag
    BY <1>1, <1>3 DEF Constructed
  <2>. QED BY <1>2, <1>3, <2>1, CamHolds
<1>4. CASE ~input.pure_cam /\ input.fully_assoc
  <2>1. d = init_FA(input) /\ ~is_tag
    BY <1>4 DEF Constructed
  <2>. QED BY <1>2, <1>4, <2>1, FullHolds
<1>5. CASE ~input.pure_cam /\ ~input.fully_assoc
  <2>1. calc_subarr_rc(input) /\ d = Protected(input, Addressed(input))
    BY <1>5 DEF Constructed, NotValid
  <2>. QED BY <1>5, <2>1, SetsHold
<1>. QED BY <1>3, <1>4, <1>5

PartitionInv ==
  /\ input \in Inputs /\ cut \in Cuts /\ (is_tag => input.is_cache /\ ~input.fully_assoc)
  /\ dyn # <<>> /\ dyn.is_valid => Holds(dyn)

LEMMA HeldIsHeld == PartitionInv => HoldsTheBank
BY DEF PartitionInv, Holds, HoldsTheBank, PlacesOf, ColumnsOf, BitsOf, Columns, BankBits

\* The bank does not change.
LEMMA HoldsStays ==
  ASSUME input' = input, cut' = cut, is_tag' = is_tag, NEW d
  PROVE  Holds(d)' <=> Holds(d)
<1>1. ColumnsOf(d)' = ColumnsOf(d)
  BY DEF ColumnsOf
<1>2. Stacked(input)' <=> Stacked(input)
  BY DEF Stacked
<1>3. BitsOf(d)' = BitsOf(d)
  BY <1>2 DEF BitsOf
<1>4. PlacesOf(d)' = PlacesOf(d)
  BY <1>1 DEF PlacesOf
<1>5. InMats(input)' <=> InMats(input)
  BY DEF InMats, Searchable
<1>. QED BY <1>1, <1>2, <1>3, <1>4, <1>5 DEF Holds

LEMMA PartitionInductive == PartitionSpec => []PartitionInv
<1>1. PartitionInit => PartitionInv
  BY DEF PartitionInit, PartitionInv
<1>2. PartitionInv /\ [PartitionNext]_partitionVars => PartitionInv'
  <2>. SUFFICES ASSUME PartitionInv, [PartitionNext]_partitionVars PROVE PartitionInv'
    OBVIOUS
  <2>1. input' = input /\ cut' = cut /\ is_tag' = is_tag
    BY DEF PartitionNext, DynamicParameter, partitionVars
  <2>2. PICK d : d = dyn'
    OBVIOUS
  <2>3. (Holds(dyn)' <=> Holds(d)') /\ (Holds(d)' <=> Holds(d))
    BY <2>1, <2>2, HoldsStays
  <2>4. dyn' # <<>> /\ dyn'.is_valid => Holds(d)
    <3>1. CASE DynamicParameter
      <4>1. d = Constructed(input)
        BY <2>2, <3>1 DEF DynamicParameter
      <4>. QED BY <2>2, <4>1, ConstructedHolds DEF PartitionInv
    <3>2. CASE dyn' = dyn
      BY <2>2, <3>2 DEF PartitionInv
    <3>. QED BY <3>1, <3>2 DEF PartitionNext, partitionVars
  <2>. QED BY <2>1, <2>3, <2>4 DEF PartitionInv
<1>. QED BY <1>1, <1>2, PTL DEF PartitionSpec

\* For every memory and every cut: the subarrays of a cut that DynamicParameter of parameter.cc
\* finds valid have a place for every bit of the bank, up to a line in a subarray of a fully
\* associative cache and half of a stacked memory, and they are all in mats, of 128 and of 512
\* that are searched as a whole apart.
THEOREM BankTheorem == PartitionSpec => []HoldsTheBank
BY PartitionInductive, HeldIsHeld, PTL
=============================================================================
