-------------------------- MODULE PageTableProofs --------------------------
(***************************************************************************)
(* Proofs about va_to_pa, for every size of the memory, every generator of *)
(* random pages and every length of runs: the tables stay inverse, the run *)
(* counter never passes zero, every allocated page counts, and a stale     *)
(* translation was in flight when its page was swapped out.                *)
(***************************************************************************)
EXTENDS PageTable, FiniteSetTheorems, TLAPS

\* A counter above zero that goes down by one does not wrap.
LEMMA CountDown ==
  ASSUME NEW n \in 1 .. MODULUS - 1
  PROVE  (n - 1) % MODULUS = n - 1
  BY PageAssumption

\* The page that Allocate takes is a number that is not taken.
LEMMA FreePage ==
  ASSUME PageTypeOK, NEW first \in FirstTry, NEW p \in Free(first)
  PROVE  p \in Nat /\ p \notin Taken
  BY PageAssumption DEF PageTypeOK, TablesOK, FirstTry, Free

\* Where the walk of another page leaves the tables.
LEMMA AllocateTables ==
  ASSUME PageTypeOK, NEW v \in VPage, v \notin Mapped, Allocate(v)
  PROVE  TablesOK'
<1>1. PICK first \in FirstTry : \E p \in Free(first) :
         /\ page_table' = Put(page_table, v, p)
         /\ inverse_table' = Put(inverse_table, p, v)
         /\ previous_ppage' = p
         /\ IF NewRun(first) THEN num_adjacent_page' \in Run
            ELSE num_adjacent_page' = (num_adjacent_page - 1) % MODULUS
  BY DEF Allocate
<1>2. PICK p \in Free(first) :
         /\ page_table' = Put(page_table, v, p)
         /\ inverse_table' = Put(inverse_table, p, v)
         /\ previous_ppage' = p
         /\ IF NewRun(first) THEN num_adjacent_page' \in Run
            ELSE num_adjacent_page' = (num_adjacent_page - 1) % MODULUS
  BY <1>1
<1>3. p \in Nat /\ p \notin Taken  BY FreePage
<1>4. page_table' \in [Mapped' -> Nat] /\ Mapped' \subseteq VPage
  BY <1>2, <1>3 DEF PageTypeOK, TablesOK, Put, Mapped
<1>5. inverse_table' \in [Taken' -> VPage] /\ Taken' \subseteq Nat
  BY <1>2, <1>3 DEF PageTypeOK, TablesOK, Put, Taken
<1>6. num_adjacent_page' \in 0 .. MODULUS - 1
  <2>1. CASE NewRun(first)
    <3>1. num_adjacent_page' \in Run  BY <1>2, <2>1, Zenon
    <3> QED  BY <3>1, PageAssumption
  <2>2. CASE ~NewRun(first)
    <3>1. num_adjacent_page \in 1 .. MODULUS - 1
      BY <2>2, PageAssumption DEF NewRun, PageTypeOK, TablesOK
    <3> QED  BY <1>2, <2>2, <3>1, CountDown, PageAssumption
  <2> QED  BY <2>1, <2>2
<1>7. allocated_pages' \in 0 .. DRAM_PAGES
  BY PageAssumption DEF Allocate, MemoryFull, PageTypeOK, TablesOK
<1> QED  BY <1>2, <1>3, <1>4, <1>5, <1>6, <1>7 DEF TablesOK

LEMMA SwapTables ==
  ASSUME PageTypeOK, TablesInverse, NEW v \in VPage, v \notin Mapped, Swap(v)
  PROVE  TablesOK'
<1>1. PICK nru \in VPage :
         /\ Victim(nru)
         /\ page_table' = Move(page_table, nru, v, page_table[nru])
         /\ inverse_table' = [inverse_table EXCEPT ![page_table[nru]] = v]
  BY DEF Swap
<1>2. nru \in Mapped /\ page_table[nru] \in Nat
  BY <1>1 DEF Victim, PageTypeOK, TablesOK
<1>3. page_table' \in [Mapped' -> Nat] /\ Mapped' \subseteq VPage
  BY <1>1, <1>2 DEF PageTypeOK, TablesOK, Move, Mapped
<1>4. inverse_table' \in [Taken' -> VPage] /\ Taken' \subseteq Nat
  BY <1>1, <1>2 DEF PageTypeOK, TablesOK, Taken
<1> QED  BY <1>3, <1>4 DEF Swap, PageTypeOK, TablesOK

-----------------------------------------------------------------------------
(* The tables are inverse.                                                 *)

LEMMA AllocateInverse ==
  ASSUME PageTypeOK, TablesInverse, NEW v \in VPage, v \notin Mapped, Allocate(v)
  PROVE  TablesInverse'
<1>1. PICK first \in FirstTry : \E p \in Free(first) :
         /\ page_table' = Put(page_table, v, p)
         /\ inverse_table' = Put(inverse_table, p, v)
  BY DEF Allocate
<1>2. PICK p \in Free(first) :
         /\ page_table' = Put(page_table, v, p)
         /\ inverse_table' = Put(inverse_table, p, v)
  BY <1>1
<1>3. p \in Nat /\ p \notin Taken  BY FreePage
<1>4. /\ Mapped' = Mapped \cup {v} /\ page_table'[v] = p
      /\ \A w \in Mapped : page_table'[w] = page_table[w]
  BY <1>2 DEF Put, Mapped
<1>5. /\ Taken' = Taken \cup {p} /\ inverse_table'[p] = v
      /\ \A q \in Taken : inverse_table'[q] = inverse_table[q]
  BY <1>2, <1>3 DEF Put, Taken
<1> QED  BY <1>3, <1>4, <1>5 DEF TablesInverse

LEMMA SwapInverse ==
  ASSUME PageTypeOK, TablesInverse, NEW v \in VPage, v \notin Mapped, Swap(v)
  PROVE  TablesInverse'
<1>1. PICK nru \in VPage :
         /\ Victim(nru)
         /\ page_table' = Move(page_table, nru, v, page_table[nru])
         /\ inverse_table' = [inverse_table EXCEPT ![page_table[nru]] = v]
  BY DEF Swap
<1>2. nru \in Mapped  BY <1>1 DEF Victim
<1> DEFINE p == page_table[nru]
<1>3. p \in Taken /\ inverse_table[p] = nru  BY <1>2 DEF TablesInverse
<1>4. /\ Mapped' = (Mapped \ {nru}) \cup {v} /\ page_table'[v] = p
      /\ \A w \in Mapped \ {nru} : page_table'[w] = page_table[w]
  BY <1>1 DEF Move, Mapped
<1>5. /\ Taken' = Taken /\ inverse_table'[p] = v
      /\ \A q \in Taken \ {p} : inverse_table'[q] = inverse_table[q]
  BY <1>1, <1>3 DEF Taken, PageTypeOK, TablesOK
<1> HIDE DEF p
<1>6. \A w \in Mapped \ {nru} : page_table[w] # p
  BY <1>3 DEF TablesInverse
<1>7. \A q \in Taken \ {p} : inverse_table[q] # nru
  BY <1>3 DEF TablesInverse, p
<1> QED  BY <1>3, <1>4, <1>5, <1>6, <1>7 DEF TablesInverse

-----------------------------------------------------------------------------
(* The invariant of both, of every step.                                   *)

TablesInv == PageTypeOK /\ TablesInverse

\* va_to_pa keeps the tables well formed and inverse.
LEMMA VaToPaTables ==
  ASSUME TablesInv, NEW v \in VPage, VaToPa(v)
  PROVE  /\ TablesOK' /\ TablesInverse'
         /\ stlb' \subseteq stlb /\ dtlb' \subseteq dtlb
         /\ overtaken' \subseteq overtaken \cup InFlight
         /\ v \in Mapped'
<1> USE DEF TablesInv
<1>1. CASE v \in Mapped /\ UNCHANGED <<tables, stlb, dtlb, overtaken>>
  BY <1>1 DEF VaToPa, tables, PageTypeOK, TablesOK, TablesInverse, Mapped, Taken
<1>2. CASE v \notin Mapped /\ Allocate(v)
  <2>1. TablesOK' /\ TablesInverse'
    BY <1>2, AllocateTables, AllocateInverse
  <2>2. v \in Mapped'  BY <1>2 DEF Allocate, Put, Mapped
  <2> QED  BY <1>2, <2>1, <2>2 DEF VaToPa, Allocate
<1>3. CASE v \notin Mapped /\ Swap(v)
  <2>1. TablesOK' /\ TablesInverse'
    BY <1>3, SwapTables, SwapInverse
  <2>2. v \in Mapped'  BY <1>3 DEF Swap, Move, Mapped
  <2>3. PICK nru \in VPage : /\ stlb' = Invalidated(nru, stlb)
                             /\ dtlb' = Invalidated(nru, dtlb)
                             /\ overtaken' = overtaken \cup Of(nru, InFlight)
    BY <1>3 DEF Swap
  <2> QED  BY <2>1, <2>2, <2>3 DEF VaToPa, Invalidated, Of
<1> QED  BY <1>1, <1>2, <1>3 DEF VaToPa

LEMMA InvInit == PageInit => TablesInv
  BY PageAssumption DEF PageInit, TablesInv, PageTypeOK, TablesOK, TlbsOK, TablesInverse,
                        Mapped, Taken

LEMMA InvStep == TablesInv /\ [PageNext]_pageVars => TablesInv'
<1> SUFFICES ASSUME TablesInv, [PageNext]_pageVars PROVE TablesInv'
  OBVIOUS
<1> USE DEF TablesInv
<1>1. ASSUME NEW v \in VPage, TranslateCode(v) PROVE TablesInv'
  <2>1. VaToPa(v) /\ UNCHANGED <<walked, returned>>
    BY <1>1 DEF TranslateCode
  <2>2. TlbsOK'  BY <2>1, VaToPaTables DEF PageTypeOK, TlbsOK, InFlight
  <2> QED  BY <2>1, <2>2, VaToPaTables DEF PageTypeOK
<1>2. ASSUME NEW v \in VPage, Walk(v) PROVE TablesInv'
  <2>1. /\ VaToPa(v) /\ UNCHANGED returned
        /\ walked' = walked \cup {<<v, page_table'[v]>>}
    BY <1>2 DEF Walk
  <2>2. TablesOK' /\ v \in Mapped'  BY <2>1, VaToPaTables
  <2>3. page_table'[v] \in Nat  BY <2>2 DEF TablesOK, Mapped
  <2>4. TlbsOK'
    BY <2>1, <2>3, VaToPaTables DEF PageTypeOK, TlbsOK, InFlight, Translation
  <2> QED  BY <2>1, <2>4, VaToPaTables DEF PageTypeOK
<1>3. ASSUME UNCHANGED tables, TlbsOK' PROVE TablesInv'
  BY <1>3 DEF tables, PageTypeOK, TablesOK, TablesInverse, Mapped, Taken
<1>4. ASSUME NEW t \in walked, FillStlb(t) PROVE TablesInv'
  BY <1>3, <1>4 DEF FillStlb, FillTlb, PageTypeOK, TlbsOK
<1>5. ASSUME NEW t \in stlb, HitStlb(t) PROVE TablesInv'
  BY <1>3, <1>5 DEF HitStlb, PageTypeOK, TlbsOK
<1>6. ASSUME NEW t \in returned, FillDtlb(t) PROVE TablesInv'
  BY <1>3, <1>6 DEF FillDtlb, FillTlb, PageTypeOK, TlbsOK
<1>7. CASE UNCHANGED pageVars
  BY <1>3, <1>7 DEF pageVars, PageTypeOK, TlbsOK
<1> QED  BY <1>1, <1>2, <1>4, <1>5, <1>6, <1>7 DEF PageNext

\* Every variable keeps its type, whatever is drawn and however runs meet.
THEOREM TypeTheorem == PageSpec => []PageTypeOK
<1>1. TablesInv => PageTypeOK  BY DEF TablesInv
<1> QED  BY InvInit, InvStep, <1>1, PTL DEF PageSpec

\* No two pages share a page of memory, through allocation and swaps, and the
\* owner of a page is always found.
THEOREM InverseTheorem == PageSpec => []TablesInverse
<1>1. TablesInv => TablesInverse  BY DEF TablesInv
<1> QED  BY InvInit, InvStep, <1>1, PTL DEF PageSpec

-----------------------------------------------------------------------------
(* The run counter.                                                        *)

LEMMA RunStep == TablesInv /\ RunIsBounded /\ [PageNext]_pageVars => RunIsBounded'
<1> SUFFICES ASSUME TablesInv, RunIsBounded, [PageNext]_pageVars PROVE RunIsBounded'
  OBVIOUS
<1>1. ASSUME NEW v \in VPage, Allocate(v) PROVE RunIsBounded'
  <2>1. PICK first \in FirstTry :
           IF NewRun(first) THEN num_adjacent_page' \in Run
           ELSE num_adjacent_page' = (num_adjacent_page - 1) % MODULUS
    BY <1>1 DEF Allocate
  <2>2. CASE NewRun(first)
    <3>1. num_adjacent_page' \in Run  BY <2>1, <2>2, Zenon
    <3> QED  BY <3>1, PageAssumption DEF RunIsBounded
  <2>3. CASE ~NewRun(first)
    <3>1. num_adjacent_page \in 1 .. MODULUS - 1
      BY <2>3, PageAssumption DEF NewRun, TablesInv, PageTypeOK, TablesOK
    <3>2. num_adjacent_page' = num_adjacent_page - 1
      BY <2>1, <2>3, <3>1, CountDown
    <3> QED  BY <3>1, <3>2, PageAssumption DEF RunIsBounded
  <2> QED  BY <2>2, <2>3
<1>2. CASE UNCHANGED num_adjacent_page  BY <1>2 DEF RunIsBounded
<1>3. ASSUME NEW v \in VPage, VaToPa(v) PROVE RunIsBounded'
  BY <1>1, <1>2, <1>3 DEF VaToPa, Swap, tables
<1> QED
  BY <1>2, <1>3 DEF PageNext, TranslateCode, Walk, FillStlb, HitStlb, FillDtlb,
                    tables, pageVars

\* The unsigned counter of adjacent pages never wraps: it stays within the
\* longest run, for every way runs are cut short.
THEOREM RunTheorem == PageSpec => []RunIsBounded
<1>1. PageInit => RunIsBounded  BY DEF PageInit, RunIsBounded
<1> QED  BY InvInit, InvStep, RunStep, <1>1, PTL DEF PageSpec

-----------------------------------------------------------------------------
(* Every page counts.                                                      *)

Counts == IsFiniteSet(Mapped) /\ AllocatedCounts

LEMMA CountStep == TablesInv /\ Counts /\ [PageNext]_pageVars => Counts'
<1> SUFFICES ASSUME TablesInv, Counts, [PageNext]_pageVars PROVE Counts'
  OBVIOUS
<1> USE DEF Counts, AllocatedCounts
<1>1. ASSUME NEW v \in VPage, v \notin Mapped, Allocate(v) PROVE Counts'
  <2>1. Mapped' = Mapped \cup {v}  BY <1>1 DEF Allocate, Put, Mapped
  <2>2. IsFiniteSet(Mapped') /\ Cardinality(Mapped') = Cardinality(Mapped) + 1
    BY <1>1, <2>1, FS_AddElement
  <2> QED
    BY <1>1, <2>2, PageAssumption DEF Allocate, MemoryFull, TablesInv, PageTypeOK, TablesOK
<1>2. ASSUME NEW v \in VPage, v \notin Mapped, Swap(v) PROVE Counts'
  <2>1. PICK nru \in Mapped : page_table' = Move(page_table, nru, v, page_table[nru])
    BY <1>2 DEF Swap, Victim
  <2>2. Mapped' = (Mapped \ {nru}) \cup {v}  BY <2>1 DEF Move, Mapped
  <2>3. /\ IsFiniteSet(Mapped \ {nru})
        /\ Cardinality(Mapped \ {nru}) = Cardinality(Mapped) - 1
    BY FS_RemoveElement
  <2>4. /\ IsFiniteSet((Mapped \ {nru}) \cup {v})
        /\ Cardinality((Mapped \ {nru}) \cup {v}) = Cardinality(Mapped \ {nru}) + 1
    BY <1>2, <2>3, FS_AddElement
  <2>5. Cardinality(Mapped) \in Nat  BY FS_CardinalityType
  <2> QED  BY <1>2, <2>2, <2>3, <2>4, <2>5 DEF Swap
<1>3. CASE UNCHANGED tables  BY <1>3 DEF tables, Mapped
<1>4. ASSUME NEW v \in VPage, VaToPa(v) PROVE Counts'
  BY <1>1, <1>2, <1>3, <1>4 DEF VaToPa
<1> QED
  BY <1>3, <1>4 DEF PageNext, TranslateCode, Walk, FillStlb, HitStlb, FillDtlb, pageVars

\* The memory is never overcommitted and allocated_pages is exact.
THEOREM CountTheorem == PageSpec => []AllocatedCounts
<1>1. PageInit => Counts
  <2>1. ASSUME PageInit PROVE Mapped = {} /\ allocated_pages = 0
    BY <2>1 DEF PageInit, Mapped
  <2> QED  BY <2>1, FS_EmptySet, PageAssumption DEF Counts, AllocatedCounts
<1>2. Counts => AllocatedCounts  BY DEF Counts
<1> QED  BY InvInit, InvStep, CountStep, <1>1, <1>2, PTL DEF PageSpec

-----------------------------------------------------------------------------
(* Stale translations.                                                     *)

FreshOrOvertaken(t) == \/ t[1] \in Mapped /\ page_table[t[1]] = t[2]
                       \/ t \in overtaken

\* A call of va_to_pa leaves every translation it does not remove fresh, or
\* notes that it was overtaken.
LEMMA VaToPaFresh ==
  ASSUME TablesInv, StaleIsOvertaken, NEW v \in VPage, VaToPa(v),
         NEW t \in InFlight \cup stlb' \cup dtlb'
  PROVE  FreshOrOvertaken(t)'
<1>1. t \in walked \cup stlb \cup returned \cup dtlb
  BY VaToPaTables DEF InFlight
<1>2. FreshOrOvertaken(t)  BY <1>1 DEF StaleIsOvertaken, FreshOrOvertaken
<1>3. CASE UNCHANGED <<tables, stlb, dtlb, overtaken>>
  BY <1>2, <1>3 DEF tables, FreshOrOvertaken, Mapped
<1>4. CASE v \notin Mapped /\ Allocate(v)
  <2>1. PICK p : page_table' = Put(page_table, v, p)
    BY <1>4 DEF Allocate
  <2>2. /\ Mapped' = Mapped \cup {v}
        /\ \A w \in Mapped : page_table'[w] = page_table[w]
    BY <1>4, <2>1 DEF Put, Mapped
  <2> QED  BY <1>2, <1>4, <2>2 DEF FreshOrOvertaken, Allocate
<1>5. CASE v \notin Mapped /\ Swap(v)
  <2>1. PICK nru \in VPage :
           /\ Victim(nru)
           /\ page_table' = Move(page_table, nru, v, page_table[nru])
           /\ stlb' = Invalidated(nru, stlb)
           /\ dtlb' = Invalidated(nru, dtlb)
           /\ overtaken' = overtaken \cup Of(nru, InFlight)
    BY <1>5 DEF Swap
  <2>2. /\ Mapped' = (Mapped \ {nru}) \cup {v}
        /\ \A w \in Mapped \ {nru} : page_table'[w] = page_table[w]
    BY <1>5, <2>1 DEF Move, Mapped
  <2>3. CASE t[1] = nru
    <3>1. t \in InFlight  BY <2>1, <2>3 DEF Invalidated, Of
    <3> QED  BY <2>1, <2>3, <3>1 DEF Of, FreshOrOvertaken
  <2>4. CASE t[1] # nru
    BY <1>2, <2>1, <2>2, <2>4 DEF FreshOrOvertaken
  <2> QED  BY <2>3, <2>4
<1> QED  BY <1>3, <1>4, <1>5 DEF VaToPa

LEMMA StaleStep == TablesInv /\ StaleIsOvertaken /\ [PageNext]_pageVars => StaleIsOvertaken'
<1> SUFFICES ASSUME TablesInv, StaleIsOvertaken, [PageNext]_pageVars
             PROVE  StaleIsOvertaken'
  OBVIOUS
<1>0. StaleIsOvertaken' =
        \A t \in (walked \cup stlb \cup returned \cup dtlb)' : FreshOrOvertaken(t)'
  BY DEF StaleIsOvertaken, FreshOrOvertaken
<1>1. ASSUME NEW v \in VPage, TranslateCode(v) PROVE StaleIsOvertaken'
  BY <1>0, <1>1, VaToPaFresh DEF TranslateCode, InFlight
<1>2. ASSUME NEW v \in VPage, Walk(v) PROVE StaleIsOvertaken'
  <2>1. /\ VaToPa(v) /\ UNCHANGED returned
        /\ walked' = walked \cup {<<v, page_table'[v]>>}
    BY <1>2 DEF Walk
  <2>2. PICK new : new = <<v, page_table'[v]>>  OBVIOUS
  <2>4. FreshOrOvertaken(new)'
    BY <2>1, <2>2, VaToPaTables DEF FreshOrOvertaken
  <2>3. \A t \in InFlight \cup stlb' \cup dtlb' : FreshOrOvertaken(t)'
    BY <2>1, VaToPaFresh
  <2> QED  BY <1>0, <2>1, <2>2, <2>3, <2>4 DEF InFlight
<1>3. ASSUME UNCHANGED <<tables, overtaken>>,
             (walked \cup stlb \cup returned \cup dtlb)'
               \subseteq walked \cup stlb \cup returned \cup dtlb
      PROVE  StaleIsOvertaken'
  BY <1>3 DEF StaleIsOvertaken, tables, Mapped
<1>4. ASSUME NEW t \in walked, FillStlb(t) PROVE StaleIsOvertaken'
  BY <1>3, <1>4 DEF FillStlb, FillTlb
<1>5. ASSUME NEW t \in stlb, HitStlb(t) PROVE StaleIsOvertaken'
  BY <1>3, <1>5 DEF HitStlb
<1>6. ASSUME NEW t \in returned, FillDtlb(t) PROVE StaleIsOvertaken'
  BY <1>3, <1>6 DEF FillDtlb, FillTlb
<1>7. CASE UNCHANGED pageVars  BY <1>3, <1>7 DEF pageVars
<1> QED  BY <1>1, <1>2, <1>4, <1>5, <1>6, <1>7 DEF PageNext

\* Whatever is walked, swapped and evicted, a TLB holds a stale translation
\* only if it was on its way when its page was swapped out.
THEOREM StaleTheorem == PageSpec => []StaleIsOvertaken
<1>1. PageInit => StaleIsOvertaken  BY DEF PageInit, StaleIsOvertaken
<1> QED  BY InvInit, InvStep, StaleStep, <1>1, PTL DEF PageSpec
=============================================================================
