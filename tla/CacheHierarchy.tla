--------------------------- MODULE CacheHierarchy ---------------------------
(***************************************************************************)
(* The caches and TLBs of ChampSim: class CACHE of src/ChampSim/src/       *)
(* cache.cc, wired together by main.cc.  One set of every cache is         *)
(* modelled: the lines of Line compete for the same ways and share the     *)
(* read, write and prefetch queues and the MSHRs.                          *)
(*                                                                         *)
(* Cache is either the data side of main.cc's wiring,                      *)
(*   L1I, L1D -> L2C -> LLC -> DRAM,                                       *)
(* or the translation side,                                                *)
(*   ITLB, DTLB -> STLB -> WALK   (WALK is the call to va_to_pa).          *)
(*                                                                         *)
(* Every handler of CACHE::operate is an action.  Cycles and latencies are *)
(* abstracted: a handler may run at any time its queue has an entry, which *)
(* includes every order the event cycles can produce.                      *)
(***************************************************************************)
EXTENDS Integers, Sequences, FiniteSets

CONSTANTS
  Line,       \* the line (or page) addresses of the modelled set
  Cache,      \* the caches of the modelled tree
  NumWay,     \* NumWay[c]:   the ways of the set
  MshrSize,   \* MshrSize[c]: entries of the MSHR file
  RqSize,     \* RqSize[n], WqSize[n], PqSize[n]: queue sizes, n a cache or DRAM
  WqSize,
  PqSize,
  CodeLine,   \* the lines the core fetches or prefetches as instructions
  DataLine,   \* the lines the core loads, stores or prefetches as data
  PfFill,     \* PfFill[c]:   fill levels the prefetcher plugged into c asks for
  Bypass,     \* whether the LLC policy may answer LLC_WAY (bypass the fill)
  Swap,       \* whether va_to_pa may swap a page out (invalidate its lines)
  MaxRequest, \* bound: requests issued by the core and the prefetchers
  None        \* an empty way or a free MSHR

Tree == {"L1I", "L1D", "L2C", "LLC", "ITLB", "DTLB", "STLB"}
Memory == {"DRAM", "WALK"}
Node == Cache \cup Memory

Level(n) == CASE n \in {"L1I", "L1D", "ITLB", "DTLB"} -> 1
              [] n \in {"L2C", "STLB"} -> 2
              [] n = "LLC" -> 4
              [] OTHER -> 16

Lower(c) == CASE c \in {"L1I", "L1D"} -> "L2C"
              [] c = "L2C" -> "LLC"
              [] c = "LLC" -> "DRAM"
              [] c \in {"ITLB", "DTLB"} -> "STLB"
              [] OTHER -> "WALK"

Side == {"I", "D"}

\* upper_level_icache ("I") and upper_level_dcache ("D") of a node.
Upper(n, s) == CASE n = "L2C"  -> IF s = "I" THEN "L1I" ELSE "L1D"
                 [] n = "STLB" -> IF s = "I" THEN "ITLB" ELSE "DTLB"
                 [] n = "LLC"  -> "L2C"
                 [] n = "DRAM" -> "LLC"
                 [] OTHER      -> "STLB"

ReqType == {"LOAD", "RFO", "PREFETCH", "WRITEBACK"}

(***************************************************************************)
(* A PACKET: dest is its fill_l1i / fill_l1d flags, kind its instruction / *)
(* is_data flags.  An MSHR entry is a packet with the returned flag.       *)
(***************************************************************************)
Packet == [line : Line, type : ReqType, fill : {1, 2, 4, 8},
           dest : SUBSET Side, kind : SUBSET Side]
Entry  == [type : ReqType, fill : {1, 2, 4, 8},
           dest : SUBSET Side, kind : SUBSET Side, returned : BOOLEAN]
Block  == [line : Line, valid : BOOLEAN, dirty : BOOLEAN]

ASSUME CacheAssumption ==
  \/ Cache = {"L1I", "L1D", "L2C", "LLC"}
  \/ Cache = {"ITLB", "DTLB", "STLB"}

ASSUME LineAssumption ==
  IsFiniteSet(Line) /\ CodeLine \subseteq Line /\ DataLine \subseteq Line

ASSUME NoneAssumption == None \notin Entry \cup Block

ASSUME SizeAssumption ==
  /\ NumWay \in [Cache -> Nat \ {0}]
  /\ MshrSize \in [Cache -> Nat \ {0}]
  /\ RqSize \in [Node -> Nat] /\ WqSize \in [Node -> Nat]
  /\ PqSize \in [Node -> Nat]
  /\ PfFill \in [Cache -> SUBSET {1, 2, 4}]
  /\ MaxRequest \in Nat

VARIABLES
  rq, wq, pq,  \* rq[n], wq[n], pq[n]: the queues of a node, oldest first
  mshr,        \* mshr[c][x]: the entry of line x in the MSHRs of c, or None
  block,       \* block[c][w]: way w of the set, None before its first fill
  waiting,     \* waiting[c]: the lines the core waits for at a first level
  warmup,      \* all_warmup_complete < NUM_CPUS
  issued       \* requests issued so far, at most MaxRequest

vars == <<rq, wq, pq, mshr, block, waiting, warmup, issued>>

-----------------------------------------------------------------------------
(* Packets.                                                                *)

Fetch(x)        == [line |-> x, type |-> "LOAD", fill |-> 1,
                    dest |-> {"I"}, kind |-> {"I"}]
Data(x, t)      == [line |-> x, type |-> t, fill |-> 1,
                    dest |-> {"D"}, kind |-> {"D"}]
CodePrefetch(x) == [Fetch(x) EXCEPT !.type = "PREFETCH"]
LinePrefetch(x, f) ==
  [line |-> x, type |-> "PREFETCH", fill |-> f,
   dest |-> IF f = 1 THEN {"D"} ELSE {}, kind |-> {"D"}]
Writeback(c, x) == [line |-> x, type |-> "WRITEBACK", fill |-> 2 * Level(c),
                    dest |-> {}, kind |-> {"D"}]
NewEntry(p)     == [type |-> p.type, fill |-> p.fill, dest |-> p.dest,
                    kind |-> p.kind, returned |-> FALSE]

-----------------------------------------------------------------------------
(* Lookups: check_queue, check_hit, check_mshr, get_occupancy.             *)

Queued(q, x) == \E i \in DOMAIN q : q[i].line = x
Ways(c) == 1 .. NumWay[c]
Holds(c, w, x) == /\ block[c][w] # None
                  /\ block[c][w].valid
                  /\ block[c][w].line = x
HitWays(c, x) == {w \in Ways(c) : Holds(c, w, x)}
Hit(c, x) == HitWays(c, x) # {}
Lowest(S) == CHOOSE w \in S : \A v \in S : w <= v
Busy(c, x) == mshr[c][x] # None
Occupancy(c) == Cardinality({x \in Line : Busy(c, x)})
Min2(a, b) == IF a < b THEN a ELSE b

(***************************************************************************)
(* The caches a node answers when it has the data of packet or entry e:    *)
(* by the fill_l1* flags at fill level 2, by instruction/is_data elsewhere.*)
(***************************************************************************)
Flags(n, e) == IF Level(n) = 2 THEN e.dest ELSE e.kind
TargetsFarOnly(n, e) ==
  IF e.fill + 1 < Level(n) THEN {Upper(n, s) : s \in Flags(n, e)} ELSE {}
Targets(n, e) ==
  IF e.fill < Level(n) THEN {Upper(n, s) : s \in Flags(n, e)} ELSE {}

\* return_data(x) of every cache of targets, over the MSHRs m.
ReturnData(m, targets, x) ==
  [c \in Cache |->
     IF c \in targets /\ m[c][x] # None
     THEN [m[c] EXCEPT ![x].returned = TRUE]
     ELSE m[c]]

\* add_rq and add_pq of a node answer at once from the write queue; the
\* DRAM controller answers at once during the warm-up, the walk always.  (The
\* L1D's write queue matches whole addresses: a match there answers the core
\* and changes nothing else.)
Immediate(n, x) == \/ n = "WALK"
                   \/ n = "DRAM" /\ warmup
                   \/ n # "L1D" /\ Queued(wq[n], x)

\* The MSHRs m once p, new in the MSHRs of c or not, went to the next level.
Forwarded(m, c, p) ==
  LET n == Lower(c)
  IN IF ~Immediate(n, p.line) THEN m
     ELSE ReturnData(m, IF n = "WALK" THEN {c} ELSE Targets(n, p), p.line)

Enqueue(q, p, size, Merge(_)) ==
  IF Queued(q, p.line)
  THEN [i \in DOMAIN q |-> IF q[i].line = p.line THEN Merge(q[i]) ELSE q[i]]
  ELSE IF Len(q) < size THEN Append(q, p) ELSE q

\* RQ of n after add_rq(p): duplicates merge, a full queue refuses (-2), and
\* the callers of the lower level ignore the refusal.
MergeRq(n, e, p) ==
  IF n = "DRAM" THEN e
  ELSE [e EXCEPT !.dest = @ \cup p.dest,
                 !.kind = @ \cup (IF "I" \in p.kind THEN {"I"} ELSE {"D"})]

AddRqAlsoForwarded(n, p) ==
  Enqueue(rq[n], p, RqSize[n], LAMBDA e : MergeRq(n, e, p))
AddRq(n, p) ==
  IF Immediate(n, p.line) THEN rq[n]
  ELSE Enqueue(rq[n], p, RqSize[n], LAMBDA e : MergeRq(n, e, p))

\* PQ of n after add_pq(p).
MergePq(e, p) == [e EXCEPT !.fill = Min2(@, p.fill),
                           !.dest = @ \cup p.dest, !.kind = @ \cup p.kind]
AddPq(n, p) ==
  IF Immediate(n, p.line) THEN pq[n]
  ELSE Enqueue(pq[n], p, PqSize[n], LAMBDA e : MergePq(e, p))

\* The write queues q after add_wq(p) on n: a duplicate is dropped, and so is
\* every write that reaches the DRAM during the warm-up.
AddWq(q, n, p) ==
  IF (n = "DRAM" /\ warmup) \/ Queued(q[n], p.line)
  THEN q
  ELSE [q EXCEPT ![n] = Append(@, p)]

Pop(q, c) == [q EXCEPT ![c] = Tail(@)]

\* PROCESSED: the core learns that x is there.  A later request for x that is
\* still in its read queue q keeps it waiting.
Processed(c, x, q) ==
  waiting' = [waiting EXCEPT ![c] = IF Queued(q, x) THEN @ ELSE @ \ {x}]

-----------------------------------------------------------------------------
(* Filling a way.                                                          *)

\* An invalid way first, then any way the replacement policy likes; a policy
\* plugged into the LLC need not look at the valid bits.
Invalid(c) == {w \in Ways(c) : block[c][w] = None \/ ~block[c][w].valid}
Victims(c) == IF c # "LLC" /\ Invalid(c) # {} THEN {Lowest(Invalid(c))}
              ELSE Ways(c)

\* The dirty bit of the victim decides, valid or not.
MustEvict(c, w) == block[c][w] # None /\ block[c][w].dirty
CanFillAlways(c, w) == TRUE
CanFill(c, w) == MustEvict(c, w) => Len(wq[Lower(c)]) < WqSize[Lower(c)]
Evict(q, c, w) ==
  IF MustEvict(c, w)
  THEN AddWq(q, Lower(c), Writeback(c, block[c][w].line))
  ELSE q
Filled(c, w, x, dirty) ==
  [block EXCEPT ![c][w] = [line |-> x, valid |-> TRUE, dirty |-> dirty]]

\* The fills that go to PROCESSED: those of the first levels, but a prefetch
\* of the L1D.
Wakes(c, e) == Level(c) = 1 /\ (c = "L1D" => e.type # "PREFETCH")

(***************************************************************************)
(* handle_fill for a completed entry.  The code takes the completed entry  *)
(* with the least event cycle; here any of them.  When the write queue     *)
(* below has no room for a dirty victim, nothing happens.                  *)
(***************************************************************************)
HandleFill(c, x) ==
  /\ Busy(c, x) /\ mshr[c][x].returned
  /\ LET e == mshr[c][x]
         m == [mshr EXCEPT ![c][x] = None]
     IN /\ mshr' = ReturnData(m, Targets(c, e), x)
        /\ \/ \E w \in Victims(c) :
                /\ CanFill(c, w)
                /\ wq' = Evict(wq, c, w)
                /\ block' = Filled(c, w, x, c = "L1D" /\ e.type = "RFO")
           \/ /\ Bypass /\ c = "LLC"
              /\ UNCHANGED <<wq, block>>
        /\ IF Wakes(c, e) THEN Processed(c, x, rq[c]) ELSE UNCHANGED waiting
  /\ UNCHANGED <<rq, pq, warmup, issued>>

-----------------------------------------------------------------------------
(* handle_read, for the oldest entry of the read queue.                    *)

ReadHit(c) ==
  /\ rq[c] # << >>
  /\ LET p == Head(rq[c])
     IN /\ Hit(c, p.line)
        /\ mshr' = ReturnData(mshr, Targets(c, p), p.line)
        /\ rq' = Pop(rq, c)
        /\ IF Level(c) = 1 THEN Processed(c, p.line, Tail(rq[c])) ELSE UNCHANGED waiting
  /\ UNCHANGED <<wq, pq, block, warmup, issued>>

\* invalidate_entry(x) in every cache: the first way that holds x turns
\* invalid; its dirty bit stays.
Invalidated(x) ==
  [c \in Cache |-> IF Hit(c, x)
                  THEN [block[c] EXCEPT ![Lowest(HitWays(c, x))].valid = FALSE]
                  ELSE block[c]]

\* What the blocks may be once c asked the next level for x: the page walk
\* may swap another page out.
AfterWalk(c, x) ==
  {block} \cup IF Lower(c) = "WALK" /\ Swap
              THEN {Invalidated(y) : y \in Line \ {x}} ELSE {}

\* A new miss takes an MSHR and goes down; only the LLC asks for room first.
NewMissNoRoom(c, p) ==
  /\ ~Hit(c, p.line) /\ ~Busy(c, p.line)
  /\ Occupancy(c) < MshrSize[c]
  /\ mshr' = Forwarded([mshr EXCEPT ![c][p.line] = NewEntry(p)], c, p)
NewMiss(c, p) ==
  /\ ~Hit(c, p.line) /\ ~Busy(c, p.line)
  /\ Occupancy(c) < MshrSize[c]
  /\ c = "LLC" => Len(rq["DRAM"]) < RqSize["DRAM"]
  /\ mshr' = Forwarded([mshr EXCEPT ![c][p.line] = NewEntry(p)], c, p)

ReadMiss(c) ==
  /\ rq[c] # << >>
  /\ LET p == Head(rq[c])
     IN /\ NewMiss(c, p)
        /\ rq' = [Pop(rq, c) EXCEPT ![Lower(c)] = AddRq(Lower(c), p)]
        /\ block' \in AfterWalk(c, p.line)
  /\ UNCHANGED <<wq, pq, waiting, warmup, issued>>

\* The request p takes over the entry e of a prefetch; the entry only keeps
\* whether its data has returned.
TakeOverStaysPrefetch(e, p) ==
  [NewEntry(p) EXCEPT !.returned = e.returned, !.type = "PREFETCH"]
TakeOver(e, p) == [NewEntry(p) EXCEPT !.returned = e.returned]

\* A second request for a line in flight: the flags are joined, then a
\* prefetch entry is overwritten by the demand.
ReadJoinDropsDest(e, p) ==
  IF e.type = "PREFETCH" THEN TakeOver(e, p)
  ELSE [e EXCEPT !.fill = Min2(@, p.fill)]
ReadJoinTakesType(e, p) == [e EXCEPT !.type = p.type, !.fill = Min2(@, p.fill),
                                     !.dest = @ \cup p.dest]
ReadJoin(e, p) ==
  IF e.type = "PREFETCH" THEN TakeOver(e, p)
  ELSE [e EXCEPT !.fill = Min2(@, p.fill),
                 !.dest = @ \cup p.dest,
                 !.kind = CASE p.type = "RFO" -> @
                            [] p.type # "RFO" /\ "I" \in p.kind -> @ \cup {"I"}
                            [] OTHER -> @ \cup {"D"}]

ReadMerge(c) ==
  /\ rq[c] # << >>
  /\ LET p == Head(rq[c])
     IN /\ ~Hit(c, p.line) /\ Busy(c, p.line)
        /\ mshr' = [mshr EXCEPT ![c][p.line] = ReadJoin(@, p)]
        /\ rq' = Pop(rq, c)
  /\ UNCHANGED <<wq, pq, block, waiting, warmup, issued>>

HandleRead(c) == ReadHit(c) \/ ReadMiss(c) \/ ReadMerge(c)

-----------------------------------------------------------------------------
(* handle_writeback, for the oldest entry of the write queue.              *)

\* The way that holds x becomes dirty.
Dirtied(c, x) == [block EXCEPT ![c][Lowest(HitWays(c, x))].dirty = TRUE]

\* A writeback, or a store at the L1D, hits.
WriteHit(c) ==
  /\ wq[c] # << >>
  /\ LET p == Head(wq[c])
     IN /\ Hit(c, p.line)
        /\ block' = Dirtied(c, p.line)
        /\ mshr' = ReturnData(mshr, Targets(c, p), p.line)
        /\ wq' = Pop(wq, c)
  /\ UNCHANGED <<rq, pq, waiting, warmup, issued>>

\* A store misses in the L1D: a read for ownership goes down.
RfoMiss ==
  /\ "L1D" \in Cache /\ wq["L1D"] # << >>
  /\ LET p == Head(wq["L1D"])
     IN /\ NewMiss("L1D", p)
        /\ rq' = [rq EXCEPT !["L2C"] = AddRq("L2C", p)]
        /\ wq' = Pop(wq, "L1D")
  /\ UNCHANGED <<pq, block, waiting, warmup, issued>>

RfoJoin(e, p) ==
  IF e.type = "PREFETCH" THEN TakeOver(e, p)
  ELSE [e EXCEPT !.fill = Min2(@, p.fill), !.dest = @ \cup p.dest]

RfoMerge ==
  /\ "L1D" \in Cache /\ wq["L1D"] # << >>
  /\ LET p == Head(wq["L1D"])
     IN /\ ~Hit("L1D", p.line) /\ Busy("L1D", p.line)
        /\ mshr' = [mshr EXCEPT !["L1D"][p.line] = RfoJoin(@, p)]
        /\ wq' = Pop(wq, "L1D")
  /\ UNCHANGED <<rq, pq, block, waiting, warmup, issued>>

\* A writeback misses in a lower cache: it is filled at once, whatever the
\* MSHRs hold for the line.
WriteFill(c) ==
  /\ c # "L1D" /\ wq[c] # << >>
  /\ LET p == Head(wq[c])
     IN /\ ~Hit(c, p.line)
        /\ \E w \in Victims(c) :
             /\ CanFill(c, w)
             /\ wq' = Evict(Pop(wq, c), c, w)
             /\ block' = Filled(c, w, p.line, TRUE)
        /\ mshr' = ReturnData(mshr, Targets(c, p), p.line)
  /\ UNCHANGED <<rq, pq, waiting, warmup, issued>>

HandleWriteback(c) == \/ WriteHit(c)
                      \/ WriteFill(c)
                      \/ c = "L1D" /\ (RfoMiss \/ RfoMerge)

-----------------------------------------------------------------------------
(* handle_prefetch, for the oldest entry of the prefetch queue.            *)

PrefetchHit(c) ==
  /\ pq[c] # << >>
  /\ LET p == Head(pq[c])
     IN /\ Hit(c, p.line)
        /\ mshr' = ReturnData(mshr, Targets(c, p), p.line)
        /\ pq' = Pop(pq, c)
  /\ UNCHANGED <<rq, wq, block, waiting, warmup, issued>>

\* A prefetch takes an MSHR only if it fills this level, and goes down only
\* if the queue below has room.
PrefetchMiss(c) ==
  /\ pq[c] # << >>
  /\ LET p == Head(pq[c])
         n == Lower(c)
         m == IF p.fill <= Level(c)
              THEN [mshr EXCEPT ![c][p.line] = NewEntry(p)] ELSE mshr
     IN /\ ~Hit(c, p.line) /\ ~Busy(c, p.line)
        /\ Occupancy(c) < MshrSize[c]
        /\ mshr' = Forwarded(m, c, p)
        /\ IF c = "LLC"
           THEN /\ Len(rq[n]) < RqSize[n]
                /\ rq' = [rq EXCEPT ![n] = AddRq(n, p)]
                /\ pq' = Pop(pq, c)
           ELSE /\ Len(pq[n]) < PqSize[n]
                /\ pq' = [Pop(pq, c) EXCEPT ![n] = AddPq(n, p)]
                /\ UNCHANGED rq
  /\ UNCHANGED <<wq, block, waiting, warmup, issued>>

PrefetchMerge(c) ==
  /\ pq[c] # << >>
  /\ LET p == Head(pq[c])
     IN /\ ~Hit(c, p.line) /\ Busy(c, p.line)
        /\ mshr' = [mshr EXCEPT ![c][p.line].fill = Min2(@, p.fill),
                                ![c][p.line].dest = @ \cup p.dest]
        /\ pq' = Pop(pq, c)
  /\ UNCHANGED <<rq, wq, block, waiting, warmup, issued>>

HandlePrefetch(c) == PrefetchHit(c) \/ PrefetchMiss(c) \/ PrefetchMerge(c)

-----------------------------------------------------------------------------
(* The DRAM controller, as its own module details it: requests are served  *)
(* in any order.                                                           *)

Without(q, i) == SubSeq(q, 1, i - 1) \o SubSeq(q, i + 1, Len(q))

DramRead(x) ==
  /\ \E i \in DOMAIN rq["DRAM"] :
       /\ rq["DRAM"][i].line = x
       /\ rq' = [rq EXCEPT !["DRAM"] = Without(@, i)]
       /\ mshr' = ReturnData(mshr, {"LLC"}, x)
  /\ UNCHANGED <<wq, pq, block, waiting, warmup, issued>>

DramWrite(x) ==
  /\ \E i \in DOMAIN wq["DRAM"] :
       /\ wq["DRAM"][i].line = x
       /\ wq' = [wq EXCEPT !["DRAM"] = Without(@, i)]
  /\ UNCHANGED <<rq, pq, mshr, block, waiting, warmup, issued>>

-----------------------------------------------------------------------------
(* The core and the prefetchers.                                           *)

Issue == issued < MaxRequest /\ issued' = issued + 1

\* add_rq at a first level; the core retries a refused request.
Request(c, p) ==
  /\ c \in Cache /\ Issue
  /\ (Queued(rq[c], p.line) \/ Len(rq[c]) < RqSize[c])
  /\ rq' = [rq EXCEPT ![c] =
              IF Queued(@, p.line) THEN @ ELSE Append(@, p)]
  /\ waiting' = [waiting EXCEPT ![c] = @ \cup {p.line}]
  /\ UNCHANGED <<wq, pq, mshr, block, warmup>>

CoreRead ==
  \/ \E x \in CodeLine : \E c \in {"L1I", "ITLB"} : Request(c, Fetch(x))
  \/ \E x \in DataLine : Request("L1D", Data(x, "LOAD"))
  \/ \E x \in DataLine, t \in {"LOAD", "RFO"} : Request("DTLB", Data(x, t))

\* retire_rob drains a store.  The L1D write queue compares whole addresses,
\* so two stores to different words of a line take two entries.
CoreStore ==
  /\ "L1D" \in Cache /\ Issue
  /\ Len(wq["L1D"]) < WqSize["L1D"]
  /\ \E x \in DataLine :
       wq' = [wq EXCEPT !["L1D"] = Append(@, Data(x, "RFO"))]
  /\ UNCHANGED <<rq, pq, mshr, block, waiting, warmup>>

\* prefetch_line and prefetch_code_line.  The prefetchers are called inside
\* the handlers, before the entry at hand is removed, and all they change is
\* the prefetch queue of their own cache: a step before the handler's.
Prefetches(c) ==
  IF c = "L1I" THEN {CodePrefetch(x) : x \in IF PfFill[c] = {} THEN {} ELSE CodeLine}
  ELSE {LinePrefetch(x, f) : x \in DataLine, f \in PfFill[c]}

IssuePrefetch(c) ==
  /\ Issue
  /\ Len(pq[c]) < PqSize[c]
  /\ \E p \in Prefetches(c) : pq' = [pq EXCEPT ![c] = AddPq(c, p)]
  /\ UNCHANGED <<rq, wq, mshr, block, waiting, warmup>>

\* A page walk of the other tree, or the translation of a code prefetch,
\* swaps the page of line x out.
SwapOut(x) ==
  /\ Swap /\ Issue
  /\ block' = Invalidated(x)
  /\ UNCHANGED <<rq, wq, pq, mshr, waiting, warmup>>

FinishWarmup ==
  /\ warmup /\ warmup' = FALSE
  /\ UNCHANGED <<rq, wq, pq, mshr, block, waiting, issued>>

-----------------------------------------------------------------------------
Init ==
  /\ rq = [n \in Node |-> << >>]
  /\ wq = [n \in Node |-> << >>]
  /\ pq = [n \in Node |-> << >>]
  /\ mshr = [c \in Cache |-> [x \in Line |-> None]]
  /\ block = [c \in Cache |-> [w \in Ways(c) |-> None]]
  /\ waiting = [c \in Cache |-> {}]
  /\ warmup = TRUE
  /\ issued = 0

Next ==
  \/ \E c \in Cache, x \in Line : HandleFill(c, x)
  \/ \E c \in Cache : HandleRead(c) \/ HandleWriteback(c) \/ HandlePrefetch(c)
  \/ \E x \in Line : DramRead(x) \/ DramWrite(x) \/ SwapOut(x)
  \/ CoreRead \/ CoreStore
  \/ \E c \in Cache : IssuePrefetch(c)
  \/ FinishWarmup

\* operate runs every handler of every cache in every cycle.
Fairness ==
  /\ \A c \in Cache :
       /\ \A x \in Line : WF_vars(HandleFill(c, x))
       /\ WF_vars(HandleRead(c))
       /\ WF_vars(HandleWriteback(c))
       /\ WF_vars(HandlePrefetch(c))
  /\ \A x \in Line : WF_vars(DramRead(x)) /\ WF_vars(DramWrite(x))

Spec == Init /\ [][Next]_vars
FairSpec == Spec /\ Fairness

-----------------------------------------------------------------------------
(* Properties.                                                             *)

\* Every queue stays within its size, every MSHR file within its entries and
\* every variable in its type.  The write queue part is the assertion in
\* add_wq that a full write queue is never written (cache.cc:1343).
QueuesOK(q, size) == /\ q \in [Node -> Seq(Packet)]
                     /\ \A n \in Node : Len(q[n]) <= size[n]
MshrOK(m) == /\ m \in [Cache -> [Line -> Entry \cup {None}]]
             /\ \A c \in Cache :
                  Cardinality({x \in Line : m[c][x] # None}) <= MshrSize[c]
BlocksOK(b) == /\ b = [c \in Cache |-> b[c]]
               /\ \A c \in Cache : b[c] \in [Ways(c) -> Block \cup {None}]
TypeOK == /\ QueuesOK(rq, RqSize) /\ QueuesOK(wq, WqSize) /\ QueuesOK(pq, PqSize)
          /\ MshrOK(mshr) /\ BlocksOK(block)
          /\ waiting \in [Cache -> SUBSET Line]
          /\ warmup \in BOOLEAN
          /\ issued \in 0 .. MaxRequest

\* The requests at n that will make it call return_data(x) of c.
InQueue(q, n, c, x) ==
  {i \in DOMAIN q[n] : q[n][i].line = x /\ c \in Targets(n, q[n][i])}
Owed(n, c, x) ==
  Cardinality(InQueue(rq, n, c, x)) + Cardinality(InQueue(pq, n, c, x))
  + IF n \in Cache /\ Busy(n, x) /\ c \in Targets(n, mshr[n][x]) THEN 1 ELSE 0

\* No miss is forgotten: a line in flight in the MSHRs of a cache has a
\* request in the level below that will answer this cache.  The requests that
\* were merged, overwritten or (add_rq returning -2) refused on the way are
\* what can break it.
MissIsServed ==
  \A c \in Cache, x \in Line :
    Busy(c, x) /\ ~mshr[c][x].returned => Owed(Lower(c), c, x) > 0

\* return_data always finds the matching MSHR entry (the assertion at
\* cache.cc:1584), and finds it once: no level owes an answer for a line that
\* the cache above does not wait for, or owes it twice.
ReturnFindsMiss ==
  \A c \in Cache, x \in Line :
    Owed(Lower(c), c, x) <= IF Busy(c, x) /\ ~mshr[c][x].returned THEN 1 ELSE 0

\* The core's request survives every merge: while the core waits for a line,
\* a demand for it (never only a prefetch, whose fill does not wake the core)
\* is in the read queue or the MSHRs of the first level.
DemandIsKept ==
  \A c \in Cache : \A x \in waiting[c] :
    \/ Queued(rq[c], x)
    \/ Busy(c, x) /\ (c = "L1D" => mshr[c][x].type # "PREFETCH")

DirtyLines(c) ==
  {x \in Line : \E w \in Ways(c) : Holds(c, w, x) /\ block[c][w].dirty}
Modified(c) ==
  DirtyLines(c) \cup
    IF c = "L1D" THEN {x \in Line : Busy(c, x) /\ mshr[c][x].type = "RFO"}
    ELSE {x \in Line : Queued(wq[c], x)}

\* Modified data is never dropped: a line that a cache holds modified (dirty,
\* in its write queue, or being fetched for a store) stays modified there
\* until the very step that puts it in the write queue of the level below.
\* Writes to the DRAM are dropped on purpose during the warm-up.
ModifiedMovesDown ==
  [][~warmup =>
       \A c \in Cache : \A x \in Modified(c) \ Modified(c)' :
         Queued(wq'[Lower(c)], x)]_vars

\* A store that leaves the L1D write queue makes its line modified.
StoreIsKept ==
  [][\A x \in Line :
       Queued(wq["L1D"], x) /\ ~Queued(wq'["L1D"], x) => x \in Modified("L1D")']_vars

\* Every request of the core is answered.
CoreIsAnswered ==
  \A c \in Cache, x \in Line : x \in waiting[c] ~> x \notin waiting[c]

\* Everything in flight drains once the core stops asking.
Drained ==
  /\ \A n \in Node : rq[n] = << >> /\ wq[n] = << >> /\ pq[n] = << >>
  /\ \A c \in Cache, x \in Line : ~Busy(c, x)
EverythingDrains == <>[]Drained
=============================================================================
