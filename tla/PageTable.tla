----------------------------- MODULE PageTable -----------------------------
(***************************************************************************)
(* The page tables of src/ChampSim/src/main.cc and the translations that   *)
(* travel from them to the DTLB: va_to_pa maps a page at its first use and *)
(* swaps another page out when the memory is full; the STLB calls it for   *)
(* every page walk and the instruction fetch for every instruction.        *)
(*                                                                         *)
(* One core.  page_queue is left out: it is written and never read.        *)
(***************************************************************************)
EXTENDS Integers, FiniteSets

CONSTANTS
  VPage,      \* virtual page numbers, in the order of the map page_table
  DRAM_PAGES,
  Draw,       \* the values of champsim_rand.draw_rand()
  Run,        \* the lengths of runs of pages, 1 << (rand() % 10)
  MODULUS,    \* of num_adjacent_page (2^64 in the code)
  TLB_WAY     \* ways of a set of the STLB and of the DTLB

ASSUME PageAssumption ==
  /\ VPage \subseteq Nat
  /\ DRAM_PAGES \in Nat \ {0}
  /\ Draw \subseteq Nat
  /\ MODULUS \in Nat \ {0}
  /\ Run \subseteq 1 .. MODULUS - 1
  /\ TLB_WAY \in Nat \ {0}

VARIABLES
  page_table,         \* vpage -> ppage, of the pages in memory
  inverse_table,      \* ppage -> vpage
  allocated_pages,
  previous_ppage,
  num_adjacent_page,  \* pages still to be allocated next to the previous one
  walked,             \* walks answered, in STLB MSHR entries
  stlb,               \* translations <<vpage, ppage>> in STLB blocks
  returned,           \* translations returned to DTLB MSHR entries
  dtlb,               \* translations in DTLB blocks
  overtaken           \* history: in flight when their page was swapped out

tables == <<page_table, inverse_table, allocated_pages, previous_ppage,
            num_adjacent_page>>
pageVars == <<tables, walked, stlb, returned, dtlb, overtaken>>

Mapped == DOMAIN page_table
Taken  == DOMAIN inverse_table
InFlight == walked \cup returned
Put(f, x, y) == [z \in DOMAIN f \cup {x} |-> IF z = x THEN y ELSE f[z]]
Move(f, x, w, y) == [z \in (DOMAIN f \ {x}) \cup {w} |-> IF z = w THEN y ELSE f[z]]

-----------------------------------------------------------------------------
(* va_to_pa                                                                *)

MemoryFull == allocated_pages >= DRAM_PAGES

\* A new run of adjacent pages starts when the last one is used up, or has met
\* a page that is taken.
NewRun(first) == num_adjacent_page = 0 \/ first \in Taken

\* The page after the previous one, or a random page; taken pages are redrawn.
FirstTry == IF num_adjacent_page > 0 THEN {previous_ppage + 1} ELSE Draw
AnyPage(first) == {first}  \* mutant: taken pages are not redrawn
Free(first) == IF first \in Taken THEN Draw \ Taken ELSE {first}

Allocate(v) ==
  /\ ~MemoryFull
  /\ \E first \in FirstTry : \E p \in Free(first) :
       /\ page_table' = Put(page_table, v, p)
       /\ inverse_table' = Put(inverse_table, p, v)
       /\ previous_ppage' = p
       /\ IF NewRun(first) THEN num_adjacent_page' \in Run
          ELSE num_adjacent_page' = (num_adjacent_page - 1) % MODULUS
  /\ allocated_pages' = allocated_pages + 1
  /\ UNCHANGED <<stlb, dtlb, overtaken>>

\* The page that makes room.  recent_page is empty, so that the first page of
\* page_table is taken for not recently used.
Victim(v) == v \in Mapped /\ \A w \in Mapped : v <= w

Of(v, s) == {t \in s : t[1] = v}
InvalidatedNot(v, s) == s  \* mutant: translations of the page are kept
Invalidated(v, s) == s \ Of(v, s)

Swap(v) ==
  /\ MemoryFull
  /\ \E nru \in VPage :
       /\ Victim(nru)
       /\ page_table' = Move(page_table, nru, v, page_table[nru])
       /\ inverse_table' = [inverse_table EXCEPT ![page_table[nru]] = v]
       /\ stlb' = Invalidated(nru, stlb)
       /\ dtlb' = Invalidated(nru, dtlb)
       /\ overtaken' = overtaken \cup Of(nru, InFlight)
  /\ UNCHANGED <<allocated_pages, previous_ppage, num_adjacent_page>>

VaToPa(v) ==
  \/ v \in Mapped /\ UNCHANGED <<tables, stlb, dtlb, overtaken>>
  \/ v \notin Mapped /\ (Allocate(v) \/ Swap(v))

-----------------------------------------------------------------------------
(* The callers, and the way of a translation to the DTLB.                  *)

\* Code translations are immediate: add_to_ifetch_buffer, prefetch_code_line.
TranslateCode(v) == VaToPa(v) /\ UNCHANGED <<walked, returned>>

\* A read of the STLB misses: the walk is answered at once, to its MSHR entry.
Walk(v) ==
  /\ Of(v, stlb \cup InFlight \cup dtlb) = {}
  /\ VaToPa(v)
  /\ walked' = walked \cup {<<v, page_table'[v]>>}
  /\ UNCHANGED returned

\* A fill may evict another translation.
FillTlb(s, t) == {u \in {(s \ {e}) \cup {t} : e \in s \cup {t}} :
                 Cardinality(u) <= TLB_WAY}

FillStlb(t) ==
  /\ t \in walked
  /\ walked' = walked \ {t}
  /\ stlb' \in FillTlb(stlb, t)
  /\ returned' = returned \cup {t}
  /\ UNCHANGED <<tables, dtlb, overtaken>>

HitStlb(t) ==
  /\ t \in stlb
  /\ Of(t[1], returned \cup dtlb) = {}
  /\ returned' = returned \cup {t}
  /\ UNCHANGED <<tables, walked, stlb, dtlb, overtaken>>

FillDtlb(t) ==
  /\ t \in returned
  /\ returned' = returned \ {t}
  /\ dtlb' \in FillTlb(dtlb, t)
  /\ UNCHANGED <<tables, walked, stlb, overtaken>>

PageInit ==
  /\ page_table = [v \in {} |-> 0] /\ inverse_table = [p \in {} |-> 0]
  /\ allocated_pages = 0 /\ previous_ppage = 0 /\ num_adjacent_page = 0
  /\ walked = {} /\ stlb = {} /\ returned = {} /\ dtlb = {}
  /\ overtaken = {}

PageNext ==
  \/ \E v \in VPage : TranslateCode(v) \/ Walk(v)
  \/ \E t \in walked : FillStlb(t)
  \/ \E t \in stlb : HitStlb(t)
  \/ \E t \in returned : FillDtlb(t)

PageSpec == PageInit /\ [][PageNext]_pageVars

-----------------------------------------------------------------------------
Translation == VPage \X Nat

TablesOK ==
  /\ page_table \in [Mapped -> Nat] /\ Mapped \subseteq VPage
  /\ inverse_table \in [Taken -> VPage] /\ Taken \subseteq Nat
  /\ allocated_pages \in 0 .. DRAM_PAGES
  /\ previous_ppage \in Nat
  /\ num_adjacent_page \in 0 .. MODULUS - 1
TlbsOK ==
  /\ walked \subseteq Translation /\ stlb \subseteq Translation
  /\ returned \subseteq Translation /\ dtlb \subseteq Translation
  /\ overtaken \subseteq Translation
PageTypeOK == TablesOK /\ TlbsOK

\* The two tables are inverse to each other: no two pages share a page of
\* memory, and the owner is always found (assertion at main.cc:372).
TablesInverse ==
  /\ \A v \in Mapped : page_table[v] \in Taken /\ inverse_table[page_table[v]] = v
  /\ \A p \in Taken : inverse_table[p] \in Mapped /\ page_table[inverse_table[p]] = p

\* The memory is never overcommitted, and every page counts.
AllocatedCounts ==
  allocated_pages = Cardinality(Mapped) /\ allocated_pages <= DRAM_PAGES

\* num_adjacent_page, an unsigned counter that goes down once for every page,
\* never passes zero: it stays below the longest run.
RunIsBounded == num_adjacent_page = 0 \/ \E r \in Run : num_adjacent_page <= r

\* A translation is stale only if it was on its way when its page was swapped
\* out: everything the TLBs held then is invalidated.
StaleIsOvertaken ==
  \A t \in walked \cup stlb \cup returned \cup dtlb :
    \/ t[1] \in Mapped /\ page_table[t[1]] = t[2]
    \/ t \in overtaken
=============================================================================
