-------------------------- MODULE OutOfOrderCoreProofs --------------------------
(***************************************************************************)
(* Proofs about OutOfOrderCore, for every set of traces and all sizes.      *)
(* The inductive invariant has parts, each proved from the ones before it:  *)
(* types and sizes, RegisterInv (operands), BranchInv (mispredicted         *)
(* branches), StoreQueueInv (the order of stores), MemoryInv (counters,     *)
(* load queue, pending accesses and free slots) and, for traces with at     *)
(* most one store an instruction, AnsweredByStore (which loads still wait)  *)
(* and HistoryInv (what the loads have seen).  The theorems follow from     *)
(* the part that says what they need.                                       *)
(***************************************************************************)
EXTENDS OutOfOrderCore, FiniteSetTheorems, SequenceTheorems, WellFoundedInduction, TLAPS

LoadOps == UNION {{n} \X Loads(n) : n \in Id}
StoreOps == UNION {{n} \X Stores(n) : n \in Id}
Ops(n) == ({"load"} \X Loads(n)) \cup ({"store"} \X Stores(n))

-----------------------------------------------------------------------------
(* Types.                                                                  *)

CoreTypes ==
  /\ trace \in Traces
  /\ read \in Nat /\ sent \in Nat /\ dispatched \in Nat /\ retired \in Nat
  /\ retired <= dispatched /\ dispatched <= sent /\ sent <= read /\ read <= Len(trace)
  /\ fetched \in [Id -> Progress]
  /\ scheduled \in [Id -> Progress] /\ executed \in [Id -> Progress]
  /\ num_reg_dependent \in [Id -> Int]
  /\ registers_instrs_depend_on_me \in [Id -> SUBSET (Id \X Reg)]
  /\ added \in [Id -> SUBSET Op]
  /\ inflight_reg_executions \in Int
Sizes ==
  /\ read - sent <= IFETCH_SIZE /\ sent - dispatched <= DECODE_SIZE
  /\ dispatched - retired <= ROB_SIZE

-----------------------------------------------------------------------------
(* Registers.                                                              *)

Waiting(d) == {r \in Reg : \E m \in Rob : /\ executed[m] # "completed"
                                          /\ <<d, r>> \in registers_instrs_depend_on_me[m]}
OutsideIsClear ==
  \A n \in Id \ Rob : /\ scheduled[n] = "no" /\ executed[n] = "no"
                      /\ registers_instrs_depend_on_me[n] = {}
WaitersAreYounger ==
  \A m, d \in Id, r \in Reg : <<d, r>> \in registers_instrs_depend_on_me[m] =>
    m < d /\ m \in Rob /\ d \in Rob /\ r \in trace[d].src /\ scheduled[d] # "no"
WaitsForOne ==
  \A m, k, d \in Id, r \in Reg :
    <<d, r>> \in registers_instrs_depend_on_me[m] /\ <<d, r>> \in registers_instrs_depend_on_me[k]
      => m = k
DependenceCounted ==
  \A d \in Id : num_reg_dependent[d] = IF scheduled[d] = "no" THEN 0 ELSE Cardinality(Waiting(d))
LastWriterKnown ==
  \A d \in Rob : \A w \in Older(d), r \in trace[d].src :
    /\ scheduled[d] # "no" /\ executed[w] # "completed"
    /\ r \in trace[w].dst /\ \A k \in Older(d) : r \in trace[k].dst => k <= w
    => <<d, r>> \in registers_instrs_depend_on_me[w]
StartedIsReady ==
  \A n \in Id : executed[n] # "no" \/ added[n] # {} => n \in Rob /\ RegReady(n)
QueuedOnce ==
  /\ RTE0 \in Seq(Id) /\ RTE1 \in Seq(Id)
  /\ \A n \in Id : Count(n, RTE0) + Count(n, RTE1) =
       IF n \in Rob /\ ~IsMemory(n) /\ RegReady(n) /\ executed[n] = "no" THEN 1 ELSE 0
MemoryStarts ==
  \A n \in Rob : IsMemory(n) => (executed[n] = "no" <=> scheduled[n] # "completed")
RegInFlight ==
  inflight_reg_executions = Cardinality({n \in Rob : ~IsMemory(n) /\ executed[n] = "inflight"})
RegisterInv ==
  /\ OutsideIsClear /\ WaitersAreYounger /\ WaitsForOne /\ DependenceCounted
  /\ LastWriterKnown /\ StartedIsReady /\ QueuedOnce /\ MemoryStarts /\ RegInFlight

BranchInv ==
  /\ branch_mispredicted \subseteq retired + 1 .. read
  /\ fetch_stall \in BOOLEAN /\ fetch_resume \in BOOLEAN
  /\ fetch_resume => fetch_stall
  /\ NothingPastMispredict

-----------------------------------------------------------------------------
(* The store queue.                                                        *)

AddedIsOwn == \A n \in Id : added[n] \subseteq Ops(n)
AddedIsScheduled ==
  \A n \in Rob : IsMemory(n) => (scheduled[n] = "completed" <=> added[n] = Ops(n))
InStoreQueue ==
  /\ sq \in Seq([op : StoreOps, executed : BOOLEAN])
  /\ \A j, k \in DOMAIN sq : sq[j].op = sq[k].op => j = k
  /\ \A x \in StoreOps : <<"store", x[2]>> \in added[x[1]] <=> \E k \in DOMAIN sq : sq[k].op = x
ProgramOrdered ==
  /\ STA \in Seq(Id)
  /\ \A j, k \in DOMAIN sq : j <= k => sq[j].op[1] <= sq[k].op[1]
  /\ \A j, k \in DOMAIN STA : j <= k => STA[j] <= STA[k]
  /\ \A j \in DOMAIN sq, k \in DOMAIN STA : sq[j].op[1] <= STA[k]
StillToAdd(n) == {i \in Stores(n) : <<"store", i>> \notin added[n]}
StaCounts ==
  \A n \in Id : Count(n, STA) =
    IF n \in retired + 1 .. read THEN Cardinality(StillToAdd(n)) ELSE 0
StoreQueueInv == AddedIsOwn /\ AddedIsScheduled /\ InStoreQueue /\ ProgramOrdered /\ StaCounts
                 /\ Len(sq) <= SQ_SIZE

-----------------------------------------------------------------------------
(* Memory operations.                                                      *)

OpenLoads(n) == {i \in Loads(n) : <<"load", i>> \in added[n] => <<n, i>> \in DOMAIN lq}
OpenStores(n) == {i \in Stores(n) : ~ \E k \in DOMAIN sq : sq[k].op = <<n, i>> /\ sq[k].executed}
Unfinished == {n \in Rob : IsMemory(n) /\ num_mem_ops[n] = 0 /\ executed[n] # "completed"}
OpsCounted ==
  /\ \A n \in 1 .. read :
       num_mem_ops[n] = IF n <= retired THEN 0
                        ELSE Cardinality(OpenLoads(n)) + Cardinality(OpenStores(n))
  /\ \A n \in Rob : executed[n] = "completed" => num_mem_ops[n] = 0
CountersInv ==
  /\ num_mem_ops \in [Id -> Int] /\ inflight_mem_executions \in Int
  /\ DOMAIN seen = LoadOps
  /\ OpsCounted /\ inflight_mem_executions = Cardinality(Unfinished)

InLoadQueue ==
  /\ DOMAIN lq \subseteq LoadOps
  /\ \A x \in DOMAIN lq : <<"load", x[2]>> \in added[x[1]] /\ lq[x] = MemProducer(x)
DependentsKnown ==
  /\ memory_instrs_depend_on_me \in [Id -> SUBSET Id]
  /\ \A m, d \in Id : d \in memory_instrs_depend_on_me[m] => m < d /\ m \in Rob /\ d \in Rob
  /\ \A x \in DOMAIN lq : lq[x] # 0 => x[1] \in memory_instrs_depend_on_me[lq[x]]
  /\ \A m, d \in Id : d \in memory_instrs_depend_on_me[m] =>
       \E i \in Loads(d) : <<"load", i>> \in added[d] /\ MemProducer(<<d, i>>) = m
ProducerWaits ==
  \A x \in DOMAIN lq : \A k \in DOMAIN sq :
    lq[x] # 0 /\ sq[k].op[1] = lq[x] /\ Address(sq[k].op, "store") = Address(x, "load")
      => ~sq[k].executed
LoadQueueInv == InLoadQueue /\ DependentsKnown /\ ProducerWaits

DtlbLoads == {p.op : p \in {p \in dtlb : p.type = "LOAD"}}
DtlbStores == {p.op : p \in {p \in dtlb : p.type = "RFO"}}
Bit(b) == IF b THEN 1 ELSE 0
AccessTypes ==
  /\ RTL0 \in Seq(LoadOps) /\ RTL1 \in Seq(LoadOps)
  /\ RTS0 \in Seq(StoreOps) /\ RTS1 \in Seq(StoreOps)
  /\ dtlb \subseteq [type : {"RFO"}, op : StoreOps] \cup [type : {"LOAD"}, op : LoadOps]
  /\ l1d \subseteq LoadOps
LoadsPend ==
  \A x \in LoadOps : Count(x, RTL0) + Count(x, RTL1) + Bit(x \in DtlbLoads) + Bit(x \in l1d)
                       = Bit(x \in DOMAIN lq /\ lq[x] = 0)
StoresPend ==
  \A x \in StoreOps : Count(x, RTS0) + Count(x, RTS1) + Bit(x \in DtlbStores)
                        = Bit(\E k \in DOMAIN sq : sq[k].op = x /\ ~sq[k].executed)
AccessInv == AccessTypes /\ LoadsPend /\ StoresPend

SlotsInv ==
  /\ IsFiniteSet(DOMAIN lq) /\ Cardinality(DOMAIN lq) <= LQ_SIZE
  /\ IsFiniteSet(wq) /\ Cardinality(wq) <= L1D_WQ_SIZE
MemoryInv == CountersInv /\ LoadQueueInv /\ AccessInv /\ SlotsInv

OneStore == \A t \in Traces : \A n \in DOMAIN t : Len(t[n].store) <= 1
AnsweredByStore ==
  \A y \in LoadOps : /\ y[1] \in Rob /\ <<"load", y[2]>> \in added[y[1]] /\ MemProducer(y) # 0
                     /\ \A k \in DOMAIN sq : /\ sq[k].op[1] = MemProducer(y)
                                             /\ Address(sq[k].op, "store") = Address(y, "load")
                                             => ~sq[k].executed
                     => y \in DOMAIN lq
HistoryInv ==
  /\ DOMAIN seen = LoadOps
  /\ \A y \in LoadOps : y[1] \in Rob /\ <<"load", y[2]>> \in added[y[1]] /\ y \notin DOMAIN lq =>
       seen[y] = IF MemProducer(y) # 0 THEN MemProducer(y) ELSE memory[Address(y, "load")]
  /\ \A y \in l1d : seen[y] = memory[Address(y, "load")]

-----------------------------------------------------------------------------
(* Finite sets and numbers.                                                *)

\* A finite set that loses an element has fewer.
LEMMA Smaller ==
  ASSUME NEW S, IsFiniteSet(S), NEW T \in SUBSET S, NEW x \in S, x \notin T
  PROVE  IsFiniteSet(T) /\ Cardinality(T) \in Nat /\ Cardinality(S) \in Nat
         /\ Cardinality(T) < Cardinality(S)
<1>1. IsFiniteSet(T) /\ Cardinality(T) <= Cardinality(S)
  BY FS_Subset
<1>2. Cardinality(T) # Cardinality(S)
  BY FS_Subset
<1>3. Cardinality(T) \in Nat /\ Cardinality(S) \in Nat
  BY <1>1, FS_CardinalityType
<1>. QED BY <1>1, <1>2, <1>3

\* A nonempty bounded set of numbers has a greatest element.
LEMMA Greatest ==
  ASSUME NEW S, NEW b \in Int, S \subseteq Int, S # {}, \A k \in S : k <= b
  PROVE  \E m \in S : \A k \in S : k <= m
<1>. DEFINE T == {n \in Nat : b - n \in S}
<1>1. T # {}
  <2>1. PICK k \in S : TRUE
    OBVIOUS
  <2>2. b - k \in Nat /\ b - (b - k) = k
    OBVIOUS
  <2>. QED BY <2>1, <2>2
<1>2. IsWellFoundedOn(OpToRel(<, Nat), Nat)
  BY NatLessThanWellFounded
<1>3. PICK t \in T : \A n \in T : ~ (<<n, t>> \in OpToRel(<, Nat))
  BY <1>1, <1>2, WFMin
<1>4. ASSUME NEW k \in S PROVE k <= b - t
  <2>1. b - k \in Nat /\ b - (b - k) = k
    OBVIOUS
  <2>2. b - k \in T
    BY <2>1
  <2>3. ~ (b - k < t)
    BY <1>3, <2>1, <2>2 DEF OpToRel
  <2>. QED BY <2>1, <2>3
<1>. QED BY <1>4

\* So has a nonempty finite one.
LEMMA GreatestOfFinite ==
  ASSUME NEW S, IsFiniteSet(S), S \subseteq Int, S # {}
  PROVE  \E m \in S : \A k \in S : k <= m
<1>. DEFINE Below(x) == {y \in S : y < x}
            rank == [x \in S |-> Cardinality(Below(x))]
            R == {rank[x] : x \in S}
<1>1. ASSUME NEW x \in S
      PROVE  /\ IsFiniteSet(Below(x)) /\ rank[x] = Cardinality(Below(x)) /\ rank[x] \in Nat
             /\ Cardinality(S) \in Nat /\ rank[x] <= Cardinality(S)
  <2>1. Below(x) \in SUBSET S /\ rank[x] = Cardinality(Below(x))
    OBVIOUS
  <2>. HIDE DEF Below, rank
  <2>. QED BY <2>1, FS_Subset, FS_CardinalityType
<1>2. R \subseteq Int /\ R # {} /\ Cardinality(S) \in Int /\ \A k \in R : k <= Cardinality(S)
  <2>. HIDE DEF rank
  <2>1. PICK x \in S : TRUE
    OBVIOUS
  <2>2. rank[x] \in R
    OBVIOUS
  <2>3. Cardinality(S) \in Int
    BY FS_CardinalityType
  <2>4. ASSUME NEW k \in R PROVE k \in Int /\ k <= Cardinality(S)
    <3>1. PICK y \in S : k = rank[y]
      OBVIOUS
    <3>2. rank[y] \in Nat /\ rank[y] <= Cardinality(S)
      BY <1>1
    <3>. QED BY <3>1, <3>2
  <2>. HIDE DEF R
  <2>. QED BY <2>2, <2>3, <2>4
<1>3. PICK t \in R : \A k \in R : k <= t
  <2>. HIDE DEF R
  <2>. QED BY <1>2, Greatest
<1>4. PICK m \in S : rank[m] = t
  OBVIOUS
<1>5. ASSUME NEW k \in S, m < k PROVE FALSE
  <2>0. \A y \in S : y \in Int
    OBVIOUS
  <2>1. Below(m) \in SUBSET Below(k) /\ m \in Below(k) /\ m \notin Below(m)
    <3>1. \A y \in Below(m) : y \in Below(k)
      BY <1>5, <2>0
    <3>2. Below(m) \in SUBSET Below(k)
      BY <3>1
    <3>3. m \in Below(k)
      BY <1>5
    <3>4. m \notin Below(m)
      BY <2>0
    <3>. QED BY <3>2, <3>3, <3>4
  <2>. HIDE DEF Below
  <2>2. Cardinality(Below(m)) < Cardinality(Below(k))
    BY <1>1, <2>1, Smaller
  <2>3. rank[k] <= rank[m]
    BY <1>3, <1>4
  <2>. HIDE DEF rank
  <2>. QED BY <1>1, <2>2, <2>3
<1>. QED BY <1>5

\* Youngest gives the greatest of a set of instructions, 0 when there is none.
LEMMA YoungestIs ==
  ASSUME NEW S, NEW b \in Nat, S \subseteq 1 .. b
  PROVE  /\ Youngest(S) \in S \cup {0}
         /\ \A k \in S : k <= Youngest(S)
         /\ Youngest(S) = 0 <=> S = {}
<1>1. \E m \in S \cup {0} : \A k \in S : k <= m
  <2>1. CASE S = {}
    BY <2>1
  <2>2. CASE S # {}
    <3>1. S \subseteq Int /\ b \in Int /\ \A k \in S : k <= b
      OBVIOUS
    <3>2. \E m \in S : \A k \in S : k <= m
      BY <2>2, <3>1, Greatest
    <3>. QED BY <3>2
  <2>. QED BY <2>1, <2>2
<1>2. Youngest(S) \in S \cup {0} /\ \A k \in S : k <= Youngest(S)
  BY <1>1 DEF Youngest
<1>3. Youngest(S) = 0 <=> S = {}
  <2>1. ASSUME Youngest(S) = 0, NEW k \in S PROVE FALSE
    BY <1>2, <2>1
  <2>. QED BY <1>2, <2>1
<1>. QED BY <1>2, <1>3

\* A finite set that is cut in two.
LEMMA CutInTwo ==
  ASSUME NEW A, NEW B, IsFiniteSet(A \cup B), A \cap B = {}
  PROVE  /\ IsFiniteSet(A) /\ IsFiniteSet(B)
         /\ Cardinality(A) \in Nat /\ Cardinality(B) \in Nat
         /\ Cardinality(A \cup B) = Cardinality(A) + Cardinality(B)
<1>1. IsFiniteSet(A) /\ IsFiniteSet(B)
  BY FS_Subset
<1>2. Cardinality(A \cup B) = Cardinality(A) + Cardinality(B) - Cardinality(A \cap B)
  BY <1>1, FS_Union
<1>3. Cardinality(A \cap B) = 0
  BY FS_EmptySet
<1>4. Cardinality(A) \in Nat /\ Cardinality(B) \in Nat
  BY <1>1, FS_CardinalityType
<1>. QED BY <1>1, <1>2, <1>3, <1>4

\* Only the empty set has no members.
LEMMA Zero == ASSUME NEW S, IsFiniteSet(S) PROVE Cardinality(S) = 0 <=> S = {}
BY FS_EmptySet

\* Sets whose members correspond one to one have the same size.
LEMMA SameSize ==
  ASSUME NEW S, NEW T, IsFiniteSet(S), NEW f \in [S -> T],
         \A x, y \in S : f[x] = f[y] => x = y, \A t \in T : \E x \in S : f[x] = t
  PROVE  IsFiniteSet(T) /\ Cardinality(T) = Cardinality(S)
<1>1. f \in Bijection(S, T)
  BY DEF Bijection, Injection, Surjection, IsInjective
<1>2. ExistsBijection(S, T)
  BY <1>1 DEF ExistsBijection
<1>. QED BY <1>2, FS_Bijection

\* A set of numbers from 1 on that is closed downwards is an interval.
LEMMA DownClosed ==
  ASSUME NEW n \in Nat, NEW S \in SUBSET (1 .. n),
         \A k \in S : \A j \in 1 .. k : j \in S
  PROVE  S = 1 .. Cardinality(S) /\ Cardinality(S) \in 0 .. n
<1>1. CASE S = {}
  BY <1>1, FS_EmptySet
<1>2. CASE S # {}
  <2>1. PICK m \in S : \A k \in S : k <= m
    <3>1. S \subseteq Int /\ n \in Int /\ \A k \in S : k <= n
      OBVIOUS
    <3>. QED BY <1>2, <3>1, Greatest
  <2>2. S = 1 .. m
    <3>1. m \in Nat
      OBVIOUS
    <3>2. \A k \in S : k \in Int /\ 1 <= k
      OBVIOUS
    <3>3. ASSUME NEW k \in S PROVE k \in 1 .. m
      BY <2>1, <3>1, <3>2
    <3>4. ASSUME NEW k \in 1 .. m PROVE k \in S
      OBVIOUS
    <3>. QED BY <3>3, <3>4
  <2>3. Cardinality(S) = m
    BY <2>2, FS_Interval
  <2>. QED BY <2>2, <2>3
<1>. QED BY <1>1, <1>2

-----------------------------------------------------------------------------
(* Sorted lists the elements of a finite set once each.                    *)

\* s lists the elements of A, each once.
Lists(s, A) ==
  /\ s \in [1 .. Cardinality(A) -> A]
  /\ \A j, k \in 1 .. Cardinality(A) : s[j] = s[k] => j = k
  /\ \A x \in A : \E k \in 1 .. Cardinality(A) : s[k] = x

\* Sorted lists its set, each member once, when the keys tell them apart.
LEMMA SortedLists ==
  ASSUME NEW S, IsFiniteSet(S), NEW key, \A x \in S : key[x] \in Int,
         \A x, y \in S : key[x] = key[y] => x = y
  PROVE  Lists(Sorted(S, key), S)
<1>. DEFINE n == Cardinality(S)
            Below(x) == {y \in S : key[y] < key[x]}
            rank == [x \in S |-> Cardinality(Below(x)) + 1]
<1>1. ASSUME NEW x \in S
      PROVE  IsFiniteSet(Below(x)) /\ Cardinality(Below(x)) \in Nat /\ Cardinality(Below(x)) < n
  <2>1. Below(x) \in SUBSET S /\ x \notin Below(x)
    OBVIOUS
  <2>. QED BY <2>1, Smaller
<1>2. n \in Nat
  BY FS_CardinalityType
<1>3. rank \in [S -> 1 .. n]
  <2>1. ASSUME NEW x \in S PROVE Cardinality(Below(x)) + 1 \in 1 .. n
    <3>. HIDE DEF n, Below
    <3>. QED BY <1>1, <1>2
  <2>. QED BY <2>1
<1>4. ASSUME NEW x \in S, NEW y \in S, key[x] < key[y] PROVE rank[x] # rank[y]
  <2>1. Below(x) \in SUBSET Below(y) /\ x \in Below(y) /\ x \notin Below(x)
    BY <1>4
  <2>2. Cardinality(Below(x)) < Cardinality(Below(y))
    BY <1>1, <2>1, Smaller
  <2>3. Cardinality(Below(x)) \in Nat /\ Cardinality(Below(y)) \in Nat
    BY <1>1
  <2>4. rank[x] = Cardinality(Below(x)) + 1 /\ rank[y] = Cardinality(Below(y)) + 1
    OBVIOUS
  <2>. QED BY <2>2, <2>3, <2>4
<1>5. \A x, y \in S : rank[x] = rank[y] => x = y
  <2>. SUFFICES ASSUME NEW x \in S, NEW y \in S, x # y PROVE rank[x] # rank[y]
    OBVIOUS
  <2>1. key[x] < key[y] \/ key[y] < key[x]
    OBVIOUS
  <2>. HIDE DEF rank
  <2>. QED BY <1>4, <2>1
<1>6. rank \in Injection(S, 1 .. n)
  BY <1>3, <1>5 DEF Injection, IsInjective
<1>7. IsFiniteSet(1 .. n) /\ Cardinality(1 .. n) = n
  BY <1>2, FS_Interval
<1>8. rank \in Surjection(S, 1 .. n)
  BY <1>6, <1>7, FS_Injection
<1>9. ASSUME NEW k \in 1 .. n PROVE Sorted(S, key)[k] \in S /\ rank[Sorted(S, key)[k]] = k
  <2>1. PICK x \in S : rank[x] = k
    BY <1>8 DEF Surjection
  <2>2. Cardinality(Below(x)) = k - 1
    <3>1. rank[x] = Cardinality(Below(x)) + 1
      OBVIOUS
    <3>. HIDE DEF Below, rank
    <3>. QED BY <1>1, <2>1, <3>1
  <2>3. Sorted(S, key)[k] = CHOOSE z \in S : Cardinality({y \in S : key[y] < key[z]}) = k - 1
    BY Zenon DEF Sorted
  <2>4. Sorted(S, key)[k] \in S /\ Cardinality(Below(Sorted(S, key)[k])) = k - 1
    BY <2>2, <2>3
  <2>5. rank[Sorted(S, key)[k]] = Cardinality(Below(Sorted(S, key)[k])) + 1
    BY <2>4
  <2>. HIDE DEF Below, rank
  <2>. QED BY <1>1, <2>4, <2>5
<1>10. Sorted(S, key) \in [1 .. n -> S]
  <2>1. Sorted(S, key) = [k \in 1 .. n |-> CHOOSE z \in S : Cardinality(Below(z)) = k - 1]
    BY Zenon DEF Sorted
  <2>2. \A k \in 1 .. n : Sorted(S, key)[k] \in S
    BY <1>9
  <2>. HIDE DEF n, Below
  <2>. QED BY <2>1, <2>2
<1>11. ASSUME NEW x \in S PROVE \E k \in 1 .. n : Sorted(S, key)[k] = x
  <2>. HIDE DEF n, rank
  <2>1. rank[x] \in 1 .. n
    BY <1>3
  <2>. QED BY <1>5, <1>9, <2>1
<1>12. \A j, k \in 1 .. n : Sorted(S, key)[j] = Sorted(S, key)[k] => j = k
  <2>. HIDE DEF n, rank
  <2>. QED BY <1>9
<1>. QED BY <1>2, <1>10, <1>11, <1>12 DEF Lists

-----------------------------------------------------------------------------
(* Counting the places of a sequence that hold a value.                    *)

\* What the proofs need to know of a sequence.
LEMMA Seqs ==
  ASSUME NEW T, NEW s \in Seq(T)
  PROVE  /\ Len(s) \in Nat /\ DOMAIN s = 1 .. Len(s)
         /\ \A k \in 1 .. Len(s) : s[k] \in T
         /\ IsFiniteSet(DOMAIN s)
  BY FS_Interval

\* Concatenation puts the second sequence behind the first.
LEMMA Concatenated ==
  ASSUME NEW E, NEW s \in Seq(E), NEW t \in Seq(E)
  PROVE  /\ s \o t \in Seq(E) /\ Len(s \o t) = Len(s) + Len(t)
         /\ DOMAIN (s \o t) = 1 .. Len(s) + Len(t)
         /\ \A k \in 1 .. Len(s) : (s \o t)[k] = s[k]
         /\ \A k \in 1 .. Len(t) : (s \o t)[Len(s) + k] = t[k]
<1>1. s \o t \in Seq(E) /\ Len(s \o t) = Len(s) + Len(t)
  OBVIOUS
<1>2. DOMAIN (s \o t) = 1 .. Len(s) + Len(t)
  BY <1>1
<1>3. \A k \in 1 .. Len(s) : (s \o t)[k] = s[k]
  OBVIOUS
<1>4. \A k \in 1 .. Len(t) : (s \o t)[Len(s) + k] = t[k]
  OBVIOUS
<1>. QED BY <1>1, <1>2, <1>3, <1>4

\* What is left of a sequence when the first c elements are dropped.
LEMMA Suffix ==
  ASSUME NEW E, NEW s \in Seq(E), NEW c \in 0 .. Len(s)
  PROVE  /\ SubSeq(s, c + 1, Len(s)) \in Seq(E)
         /\ Len(SubSeq(s, c + 1, Len(s))) = Len(s) - c
         /\ DOMAIN SubSeq(s, c + 1, Len(s)) = 1 .. Len(s) - c
         /\ \A k \in 1 .. Len(s) - c : SubSeq(s, c + 1, Len(s))[k] = s[c + k] /\ c + k \in 1 .. Len(s)
<1>1. SubSeq(s, c + 1, Len(s)) \in Seq(E) /\ Len(SubSeq(s, c + 1, Len(s))) = Len(s) - c
  OBVIOUS
<1>2. DOMAIN SubSeq(s, c + 1, Len(s)) = 1 .. Len(s) - c
  BY <1>1
<1>3. ASSUME NEW k \in 1 .. Len(s) - c
      PROVE  SubSeq(s, c + 1, Len(s))[k] = s[c + k] /\ c + k \in 1 .. Len(s)
  <2>1. SubSeq(s, c + 1, Len(s))[k] = s[c + 1 + k - 1]
    OBVIOUS
  <2>2. c + 1 + k - 1 = c + k /\ c + k \in 1 .. Len(s)
    OBVIOUS
  <2>. QED BY <2>1, <2>2
<1>. QED BY <1>1, <1>2, <1>3

\* Count is a number, and zero when the value does not occur.
LEMMA CountType ==
  ASSUME NEW T, NEW s \in Seq(T), NEW x
  PROVE  /\ Count(x, s) \in Nat
         /\ Count(x, s) = 0 <=> \A k \in 1 .. Len(s) : s[k] # x
         /\ IsFiniteSet({k \in DOMAIN s : s[k] = x})
<1>. DEFINE P == {k \in DOMAIN s : s[k] = x}
<1>1. IsFiniteSet(DOMAIN s) /\ P \in SUBSET DOMAIN s /\ DOMAIN s = 1 .. Len(s)
  BY Seqs
<1>2. IsFiniteSet(P)
  BY <1>1, FS_Subset
<1>3. Cardinality(P) \in Nat /\ (Cardinality(P) = 0 <=> P = {})
  BY <1>2, FS_CardinalityType, Zero
<1>. QED BY <1>1, <1>2, <1>3 DEF Count

\* Count adds up over concatenation,
LEMMA CountConcat ==
  ASSUME NEW T, NEW s \in Seq(T), NEW t \in Seq(T), NEW x
  PROVE  Count(x, s \o t) = Count(x, s) + Count(x, t)
<1>. DEFINE u == s \o t
            P == {k \in DOMAIN s : s[k] = x}
            Q == {k \in DOMAIN t : t[k] = x}
            R == {k \in Len(s) + 1 .. Len(s) + Len(t) : u[k] = x}
            f == [k \in Q |-> Len(s) + k]
<1>1. u \in Seq(T) /\ Len(u) = Len(s) + Len(t) /\ Len(s) \in Nat /\ Len(t) \in Nat
  OBVIOUS
<1>2. DOMAIN s = 1 .. Len(s) /\ DOMAIN t = 1 .. Len(t) /\ DOMAIN u = 1 .. Len(s) + Len(t)
  BY <1>1
<1>3. \A k \in 1 .. Len(s) : u[k] = s[k]
  OBVIOUS
<1>4. \A k \in 1 .. Len(t) : u[Len(s) + k] = t[k]
  OBVIOUS
<1>5. {k \in DOMAIN u : u[k] = x} = P \cup R
  <2>1. \A k \in 1 .. Len(s) + Len(t) : k \in 1 .. Len(s) \/ k \in Len(s) + 1 .. Len(s) + Len(t)
    BY <1>1
  <2>2. \A k \in Len(s) + 1 .. Len(s) + Len(t) : k \in 1 .. Len(s) + Len(t)
    BY <1>1
  <2>3. \A k \in 1 .. Len(s) : k \in 1 .. Len(s) + Len(t)
    BY <1>1
  <2>. HIDE DEF u
  <2>. QED BY <1>2, <1>3, <2>1, <2>2, <2>3
<1>6. P \cap R = {}
  BY <1>1, <1>2
<1>7. IsFiniteSet({k \in DOMAIN u : u[k] = x}) /\ IsFiniteSet(Q)
  BY <1>1, CountType
<1>8. Cardinality(R) = Cardinality(Q)
  <2>. HIDE DEF u
  <2>1. f \in [Q -> R]
    <3>1. ASSUME NEW k \in Q PROVE Len(s) + k \in R
      <4>1. k \in 1 .. Len(t) /\ t[k] = x
        BY <1>2
      <4>2. Len(s) + k \in Len(s) + 1 .. Len(s) + Len(t)
        BY <1>1, <4>1
      <4>. QED BY <1>4, <4>1, <4>2
    <3>. QED BY <3>1
  <2>2. \A j, k \in Q : f[j] = f[k] => j = k
    BY <1>1, <1>2
  <2>3. ASSUME NEW r \in R PROVE \E k \in Q : f[k] = r
    <3>1. r \in Len(s) + 1 .. Len(s) + Len(t) /\ u[r] = x
      OBVIOUS
    <3>2. r - Len(s) \in 1 .. Len(t) /\ Len(s) + (r - Len(s)) = r
      BY <1>1, <3>1
    <3>3. r - Len(s) \in Q
      BY <1>2, <1>4, <3>1, <3>2
    <3>. QED BY <3>2, <3>3
  <2>. HIDE DEF f, Q, R
  <2>. QED BY <1>7, <2>1, <2>2, <2>3, SameSize
<1>9. Cardinality(P \cup R) = Cardinality(P) + Cardinality(R)
  <2>1. IsFiniteSet(P \cup R)
    BY <1>5, <1>7
  <2>. HIDE DEF P, R
  <2>. QED BY <1>6, <2>1, CutInTwo
<1>. QED BY <1>5, <1>8, <1>9 DEF Count

\* A one-element sequence, and what Append, Tail and a suffix leave.
LEMMA CountOne ==
  ASSUME NEW x, NEW y
  PROVE  Count(x, <<y>>) = IF x = y THEN 1 ELSE 0
<1>1. {k \in DOMAIN <<y>> : <<y>>[k] = x} = IF x = y THEN {1} ELSE {}
  OBVIOUS
<1>. QED BY <1>1, FS_Singleton, FS_EmptySet DEF Count

\* over Append,
LEMMA CountAppend ==
  ASSUME NEW T, NEW s \in Seq(T), NEW y \in T, NEW x
  PROVE  Count(x, Append(s, y)) = Count(x, s) + IF x = y THEN 1 ELSE 0
<1>1. Append(s, y) = s \o <<y>> /\ <<y>> \in Seq(T)
  OBVIOUS
<1>2. Count(x, s \o <<y>>) = Count(x, s) + Count(x, <<y>>)
  BY <1>1, CountConcat
<1>. QED BY <1>1, <1>2, CountOne

\* and over Head and Tail.
LEMMA CountTail ==
  ASSUME NEW T, NEW s \in Seq(T), s # <<>>, NEW x
  PROVE  /\ Tail(s) \in Seq(T) /\ Head(s) \in T
         /\ Count(x, s) = Count(x, Tail(s)) + IF x = Head(s) THEN 1 ELSE 0
<1>1. s = <<Head(s)>> \o Tail(s) /\ <<Head(s)>> \in Seq(T) /\ Tail(s) \in Seq(T)
  OBVIOUS
<1>2. Count(x, s) = Count(x, <<Head(s)>>) + Count(x, Tail(s))
  BY <1>1, CountConcat
<1>3. Count(x, Tail(s)) \in Nat
  BY <1>1, CountType
<1>. QED BY <1>1, <1>2, <1>3, CountOne

\* What is dropped from the front is no longer counted.
LEMMA CountSuffix ==
  ASSUME NEW T, NEW s \in Seq(T), NEW c \in 0 .. Len(s), NEW x
  PROVE  /\ SubSeq(s, c + 1, Len(s)) \in Seq(T)
         /\ Count(x, s) = Cardinality({k \in 1 .. c : s[k] = x})
                            + Count(x, SubSeq(s, c + 1, Len(s)))
<1>. DEFINE p == SubSeq(s, 1, c)
            q == SubSeq(s, c + 1, Len(s))
<1>1. p \in Seq(T) /\ q \in Seq(T) /\ Len(p) = c /\ Len(q) = Len(s) - c
  OBVIOUS
<1>2. s = p \o q
  <2>1. 1 \in 1 .. Len(s) + 1 /\ c \in 1 - 1 .. Len(s) /\ Len(s) \in c .. Len(s)
    OBVIOUS
  <2>2. p \o q = SubSeq(s, 1, Len(s))
    BY <2>1, ConcatAdjacentSubSeq
  <2>. QED BY <2>2, SubSeqFull
<1>3. Count(x, p \o q) = Count(x, p) + Count(x, q)
  BY <1>1, CountConcat
<1>4. {k \in DOMAIN p : p[k] = x} = {k \in 1 .. c : s[k] = x}
  BY <1>1
<1>. QED BY <1>1, <1>2, <1>3, <1>4 DEF Count

\* A listing of a set counts each member once.
LEMMA CountListing ==
  ASSUME NEW A, IsFiniteSet(A), NEW s, Lists(s, A)
  PROVE  /\ s \in Seq(A) /\ Len(s) = Cardinality(A)
         /\ \A x : Count(x, s) = IF x \in A THEN 1 ELSE 0
<1>0. Cardinality(A) \in Nat
  BY FS_CardinalityType
<1>1. DOMAIN s = 1 .. Cardinality(A) /\ s \in Seq(A) /\ Len(s) = Cardinality(A)
  BY <1>0 DEF Lists
<1>2. ASSUME NEW x \in A PROVE Count(x, s) = 1
  <2>1. PICK k \in 1 .. Cardinality(A) : s[k] = x
    BY DEF Lists
  <2>2. {j \in DOMAIN s : s[j] = x} = {k}
    BY <1>1, <2>1 DEF Lists
  <2>. QED BY <2>2, FS_Singleton DEF Count
<1>3. ASSUME NEW x, x \notin A PROVE Count(x, s) = 0
  <2>1. {j \in DOMAIN s : s[j] = x} = {}
    BY <1>1, <1>3 DEF Lists
  <2>. QED BY <2>1, FS_EmptySet DEF Count
<1>. QED BY <1>1, <1>2, <1>3

-----------------------------------------------------------------------------
(* The trace.                                                              *)

\* The trace is a sequence of instructions numbered from one.
LEMMA TraceFacts ==
  ASSUME trace \in Traces
  PROVE  /\ Len(trace) \in Nat /\ Id = 1 .. Len(trace)
         /\ \A n \in Id : trace[n] \in Instruction
<1>1. trace \in Seq(Instruction)
  BY CoreAssumption
<1>. QED BY <1>1 DEF Id

\* The operations of an instruction are numbered from one.
LEMMA InstructionFacts ==
  ASSUME trace \in Traces, NEW n \in Id
  PROVE  /\ Len(trace[n].load) \in Nat /\ Loads(n) = 1 .. Len(trace[n].load)
         /\ Len(trace[n].store) \in Nat /\ Stores(n) = 1 .. Len(trace[n].store)
         /\ IsFiniteSet(Loads(n)) /\ IsFiniteSet(Stores(n))
         /\ Cardinality(Loads(n)) \in Nat /\ Cardinality(Stores(n)) \in Nat
         /\ \A i \in Loads(n) : trace[n].load[i] \in Addr
         /\ \A i \in Stores(n) : trace[n].store[i] \in Addr
         /\ trace[n].src \subseteq Reg /\ trace[n].dst \subseteq Reg
<1>1. trace[n] \in Instruction
  BY TraceFacts
<1>2. trace[n].load \in Seq(Addr) /\ trace[n].store \in Seq(Addr)
      /\ trace[n].src \subseteq Reg /\ trace[n].dst \subseteq Reg
  BY <1>1 DEF Instruction
<1>3. Loads(n) = 1 .. Len(trace[n].load) /\ Stores(n) = 1 .. Len(trace[n].store)
      /\ Len(trace[n].load) \in Nat /\ Len(trace[n].store) \in Nat
  BY <1>2, Seqs DEF Loads, Stores
<1>4. IsFiniteSet(Loads(n)) /\ IsFiniteSet(Stores(n))
  <2>1. IsFiniteSet(1 .. Len(trace[n].load)) /\ IsFiniteSet(1 .. Len(trace[n].store))
    <3>1. \A k \in Nat : IsFiniteSet(1 .. k)
      BY FS_Interval
    <3>. QED BY <1>3, <3>1
  <2>. QED BY <1>3, <2>1
<1>5. Cardinality(Loads(n)) \in Nat /\ Cardinality(Stores(n)) \in Nat
  BY <1>4, FS_CardinalityType
<1>6. (\A i \in Loads(n) : trace[n].load[i] \in Addr)
      /\ (\A i \in Stores(n) : trace[n].store[i] \in Addr)
  BY <1>2, <1>3
<1>. QED BY <1>2, <1>3, <1>4, <1>5, <1>6

\* No step changes the trace, nor what is read off it.
LEMMA TraceKept ==
  ASSUME [Next]_vars
  PROVE  trace' = trace
BY DEF Next, ReadFromTrace, ResumeFetch, FetchLine, SendToDecode, L1iAnswer, DecodeAndDispatch,
       DoScheduling, ExecuteInstruction, DoExecution, CompleteExecution, ScheduleMemory,
       TranslateStore, TranslateLoad, ExecuteStore, ExecuteLoad, DtlbAnswer, L1dAnswer,
       RetireRob, L1dWrite, vars, control

\* While the trace stays, so do the operators of it.
LEMMA SameTrace ==
  ASSUME trace' = trace
  PROVE  /\ Id' = Id
         /\ \A n : /\ Loads(n)' = Loads(n) /\ Stores(n)' = Stores(n)
                   /\ IsMemory(n)' <=> IsMemory(n)
         /\ \A x : /\ Address(x, "load")' = Address(x, "load")
                   /\ Address(x, "store")' = Address(x, "store")
BY DEF Id, Loads, Stores, IsMemory, Address

\* The entries of the ROB are instructions, at most ROB_SIZE of them.
LEMMA RobFacts ==
  ASSUME CoreTypes
  PROVE  /\ \A n : n \in Rob <=> n \in Int /\ retired < n /\ n <= dispatched
         /\ Rob \subseteq Id /\ IsFiniteSet(Rob)
         /\ \A n \in Id : /\ n \in Int /\ 1 <= n /\ n <= Len(trace)
                          /\ Older(n) \subseteq Id
                          /\ \A m : m \in Older(n) <=> m \in Int /\ retired < m /\ m < n
         /\ \A n \in Rob : \A m \in Older(n) : m \in Rob
<1>1. trace \in Traces
  BY DEF CoreTypes
<1>2. retired \in Nat /\ dispatched \in Nat /\ Len(trace) \in Nat /\ dispatched <= Len(trace)
      /\ Id = 1 .. Len(trace)
  BY <1>1, TraceFacts DEF CoreTypes
<1>3. \A n : n \in Rob <=> n \in Int /\ retired < n /\ n <= dispatched
  BY <1>2 DEF Rob
<1>4. IsFiniteSet(Rob)
  BY <1>2, FS_Interval DEF Rob
<1>5. Rob \subseteq Id
  BY <1>2, <1>3
<1>6. \A n \in Id : /\ n \in Int /\ 1 <= n /\ n <= Len(trace)
                    /\ \A m : m \in Older(n) <=> m \in Int /\ retired < m /\ m < n
  BY <1>2 DEF Older
<1>7. ASSUME NEW n \in Id PROVE Older(n) \subseteq Id
  BY <1>2, <1>6
<1>8. ASSUME NEW n \in Rob, NEW m \in Older(n) PROVE m \in Rob
  BY <1>2, <1>3, <1>5, <1>6
<1>. QED BY <1>3, <1>4, <1>5, <1>6, <1>7, <1>8

-----------------------------------------------------------------------------
(* Types.                                                                  *)

\* The types and sizes hold at the start.
LEMMA InitCoreTypes == Init => CoreTypes /\ Sizes
<1>. SUFFICES ASSUME Init PROVE CoreTypes /\ Sizes
  OBVIOUS
<1>1. trace \in Traces /\ Len(trace) \in Nat
  BY TraceFacts DEF Init
<1>2. CoreTypes
  BY <1>1 DEF Init, CoreTypes, Progress
<1>3. Sizes
  BY CoreAssumption DEF Init, Sizes
<1>. QED BY <1>2, <1>3

\* The registers an instruction waits for are finitely many.
LEMMA WaitsForFinite ==
  ASSUME NEW d, NEW n
  PROVE  /\ IsFiniteSet(WaitsFor(d, n)) /\ Cardinality(WaitsFor(d, n)) \in Nat
         /\ Cardinality(WaitsFor(d, n)) = 0 <=> WaitsFor(d, n) = {}
<1>1. IsFiniteSet(WaitsFor(d, n))
  BY CoreAssumption, FS_Subset DEF WaitsFor
<1>. QED BY <1>1, FS_CardinalityType, Zero

\* Every step keeps the types.
LEMMA NextCoreTypes ==
  ASSUME CoreTypes, QueuedOnce, [Next]_vars
  PROVE  CoreTypes'
<1>. USE DEF CoreTypes
<1>0. trace' = trace /\ Id' = Id
  BY TraceKept, SameTrace
<1>. USE <1>0
<1>1. ASSUME NEW mispredicted \in BOOLEAN, ReadFromTrace(mispredicted) PROVE CoreTypes'
  BY <1>1, TraceFacts DEF ReadFromTrace, registers, inflight
<1>2. CASE ResumeFetch
  BY <1>2 DEF ResumeFetch, registers, lsq, inflight
<1>3. CASE SendToDecode
  BY <1>3 DEF SendToDecode, Mark, control, registers, lsq, inflight, Progress
<1>4. CASE DecodeAndDispatch
  BY <1>4 DEF DecodeAndDispatch, frontEnd, registers, lsq, inflight
<1>5. ASSUME NEW n \in Id, FetchLine(n) PROVE CoreTypes'
  BY <1>5 DEF FetchLine, Mark, control, registers, lsq, inflight, Progress
<1>6. ASSUME NEW n \in Id, DoScheduling(n) PROVE CoreTypes'
  <2>. DEFINE waits == {r \in trace[n].src : RegProducer(n, r) # 0}
              more(m) == {<<n, r>> : r \in {r \in waits : RegProducer(n, r) = m}}
  <2>1. waits \subseteq Reg
    BY InstructionFacts
  <2>2. Cardinality(waits) \in Int
    BY <2>1, CoreAssumption, FS_Subset, FS_CardinalityType
  <2>3. num_reg_dependent' \in [Id -> Int]
    <3>1. num_reg_dependent' = [num_reg_dependent EXCEPT ![n] = Cardinality(waits)]
      BY <1>6 DEF DoScheduling
    <3>. HIDE DEF waits
    <3>. QED BY <2>2, <3>1
  <2>4. registers_instrs_depend_on_me' \in [Id -> SUBSET (Id \X Reg)]
    <3>1. registers_instrs_depend_on_me' =
            [m \in Id |-> registers_instrs_depend_on_me[m] \cup more(m)]
      BY <1>6 DEF DoScheduling
    <3>2. \A m : more(m) \subseteq Id \X Reg
      BY <2>1
    <3>. HIDE DEF more
    <3>. QED BY <3>1, <3>2
  <2>5. scheduled' = [scheduled EXCEPT ![n] = IF IsMemory(n) THEN "inflight" ELSE "completed"]
    BY <1>6 DEF DoScheduling
  <2>6. scheduled' \in [Id -> Progress]
    BY <2>5 DEF Progress
  <2>. QED BY <1>6, <2>3, <2>4, <2>6 DEF DoScheduling, control, frontEnd, lsq, inflight
<1>7. ASSUME NEW n \in Id, CompleteExecution(n) PROVE CoreTypes'
  <2>1. num_reg_dependent' \in [Id -> Int]
    <3>1. \A d \in Id : Cardinality(WaitsFor(d, n)) \in Nat
      BY WaitsForFinite
    <3>. QED BY <1>7, <3>1 DEF CompleteExecution
  <2>2. scheduled' \in [Id -> Progress]
    <3>1. scheduled' = [d \in Id |-> IF d \notin Ready(n) THEN scheduled[d]
                                     ELSE IF IsMemory(d) THEN "inflight" ELSE "completed"]
      BY <1>7 DEF CompleteExecution
    <3>. QED BY <3>1 DEF Progress
  <2>3. executed' \in [Id -> Progress]
    BY <1>7 DEF CompleteExecution, Progress
  <2>4. inflight_reg_executions' \in Int
    BY <1>7 DEF CompleteExecution
  <2>. QED BY <1>7, <2>1, <2>2, <2>3, <2>4 DEF CompleteExecution, frontEnd, lsq
<1>8. ASSUME NEW n \in Id, ScheduleMemory(n) PROVE CoreTypes'
  <2>1. LoadsTaken(n) \subseteq Nat \ {0} /\ StoresTaken(n) \subseteq Nat \ {0}
    <3>0. Loads(n) = 1 .. Len(trace[n].load) /\ Stores(n) = 1 .. Len(trace[n].store)
      BY InstructionFacts
    <3>1. Loads(n) \subseteq Nat \ {0} /\ Stores(n) \subseteq Nat \ {0}
      BY <3>0
    <3>. QED BY <3>1 DEF LoadsTaken, StoresTaken
  <2>2. added' \in [Id -> SUBSET Op]
    <3>1. added' = [added EXCEPT ![n] = added[n] \cup ({"load"} \X LoadsTaken(n))
                                                 \cup ({"store"} \X StoresTaken(n))]
      BY <1>8 DEF ScheduleMemory
    <3>2. added[n] \cup ({"load"} \X LoadsTaken(n)) \cup ({"store"} \X StoresTaken(n)) \subseteq Op
      BY <2>1 DEF Op
    <3>. QED BY <3>1, <3>2
  <2>3. scheduled' \in [Id -> Progress] /\ executed' \in [Id -> Progress]
    <3>1. PICK c : scheduled' = [scheduled EXCEPT ![n] = IF c THEN "completed" ELSE @]
                   /\ executed' = [executed EXCEPT ![n] = IF c THEN "inflight" ELSE @]
      BY <1>8 DEF ScheduleMemory
    <3>. QED BY <3>1 DEF Progress
  <2>. QED BY <1>8, <2>2, <2>3 DEF ScheduleMemory, control, frontEnd, registers
<1>9. ASSUME NEW x \in CodeLine, NEW k \in 1 .. Len(trace), L1iAnswer(x, k) PROVE CoreTypes'
  BY <1>9 DEF L1iAnswer, Mark, control, registers, lsq, inflight, Progress
<1>10. CASE ExecuteInstruction
  <2>1. ASSUME NEW n \in Id, DoExecution(n) PROVE CoreTypes'
    <3>1. executed' = [executed EXCEPT ![n] = "inflight"]
          /\ inflight_reg_executions' = inflight_reg_executions + 1
      BY <2>1 DEF DoExecution
    <3>2. executed' \in [Id -> Progress] /\ inflight_reg_executions' \in Int
      BY <3>1 DEF Progress
    <3>. QED BY <2>1, <3>2 DEF DoExecution, control, frontEnd, registers, lsq
  <2>2. RTE0 # <<>> => Head(RTE0) \in Id
    BY HeadTailProperties DEF QueuedOnce
  <2>3. RTE1 # <<>> => Head(RTE1) \in Id
    BY HeadTailProperties DEF QueuedOnce
  <2>. QED BY <1>10, <2>1, <2>2, <2>3 DEF ExecuteInstruction
<1>11. CASE TranslateStore
  BY <1>11 DEF TranslateStore, control, frontEnd, registers, lsq, inflight
<1>12. CASE TranslateLoad
  BY <1>12 DEF TranslateLoad, control, frontEnd, registers, lsq, inflight
<1>13. CASE ExecuteStore
  BY <1>13 DEF ExecuteStore, control, frontEnd, registers
<1>14. CASE ExecuteLoad
  BY <1>14 DEF ExecuteLoad, control, frontEnd, registers, lsq, inflight
<1>15. ASSUME NEW p \in dtlb, DtlbAnswer(p) PROVE CoreTypes'
  BY <1>15 DEF DtlbAnswer, control, frontEnd, registers, lsq, inflight
<1>16. ASSUME NEW x \in l1d, L1dAnswer(x) PROVE CoreTypes'
  BY <1>16 DEF L1dAnswer, control, frontEnd, registers
<1>17. CASE RetireRob
  <2>1. scheduled' \in [Id -> Progress] /\ executed' \in [Id -> Progress]
    BY <1>17 DEF RetireRob, Progress
  <2>2. retired' \in Nat /\ retired' <= dispatched
    BY <1>17 DEF RetireRob, Rob
  <2>3. registers_instrs_depend_on_me' \in [Id -> SUBSET (Id \X Reg)] /\ added' \in [Id -> SUBSET Op]
    BY <1>17 DEF RetireRob
  <2>. QED BY <1>17, <2>1, <2>2, <2>3 DEF RetireRob, frontEnd, inflight
<1>18. ASSUME NEW a \in Addr, L1dWrite(a) PROVE CoreTypes'
  BY <1>18 DEF L1dWrite, control, frontEnd, registers, lsq, inflight
<1>19. CASE UNCHANGED vars
  BY <1>19 DEF vars, control, frontEnd, registers, lsq, inflight
<1>. QED BY <1>1, <1>2, <1>3, <1>4, <1>5, <1>6, <1>7, <1>8, <1>9, <1>10, <1>11, <1>12, <1>13,
            <1>14, <1>15, <1>16, <1>17, <1>18, <1>19 DEF Next

\* Entries of one ROB have different places in its array.
LEMMA Remainder ==
  ASSUME NEW N \in Nat \ {0}, NEW a \in Int
  PROVE  /\ a % N \in 0 .. N - 1 /\ a \div N \in Int
         /\ a = N * (a \div N) + (a % N)
BY SMT

\* A positive multiple of N is not below N.
LEMMA Multiple ==
  ASSUME NEW N \in Nat \ {0}, NEW k \in Int, 0 < N * k
  PROVE  N <= N * k
<1>1. CASE k <= 0
  BY <1>1, SMT
<1>2. CASE k >= 1
  BY <1>2, SMT
<1>. QED BY <1>1, <1>2

\* Two entries of the ROB never share a place of its ring.
LEMMA RobPlaces ==
  ASSUME CoreTypes, Sizes, NEW m \in Rob, NEW n \in Rob, RobIndex(m) = RobIndex(n)
  PROVE  m = n
<1>1. ASSUME NEW N \in Nat \ {0}, NEW a \in Int, NEW b \in Int, a < b, b - a < N, a % N = b % N
      PROVE  FALSE
  <2>. DEFINE p == a \div N
              q == b \div N
  <2>1. p \in Int /\ q \in Int /\ a = N * p + (a % N) /\ b = N * q + (b % N)
        /\ a % N \in Int /\ b % N \in Int
    BY Remainder
  <2>. HIDE DEF p, q
  <2>2. N * p \in Int /\ N * q \in Int /\ N * (q - p) = N * q - N * p
    BY <2>1, SMT
  <2>3. b - a = N * (q - p)
    BY <1>1, <2>1, <2>2
  <2>4. N <= N * (q - p)
    BY <1>1, <2>1, <2>3, Multiple
  <2>. QED BY <1>1, <2>3, <2>4
<1>2. ROB_SIZE \in Nat \ {0}
  BY CoreAssumption
<1>3. m \in Int /\ n \in Int /\ m - n < ROB_SIZE /\ n - m < ROB_SIZE
  <2>1. m \in Int /\ retired < m /\ m <= dispatched /\ n \in Int /\ retired < n /\ n <= dispatched
    BY RobFacts
  <2>2. retired \in Nat /\ dispatched \in Nat /\ dispatched - retired <= ROB_SIZE
    BY DEF CoreTypes, Sizes
  <2>. QED BY <1>2, <2>1, <2>2
<1>4. m - 1 \in Int /\ n - 1 \in Int
  BY <1>3
<1>. DEFINE a == m - 1
            b == n - 1
<1>5. a \in Int /\ b \in Int /\ a - b = m - n /\ b - a = n - m /\ (a < b <=> m < n)
      /\ (b < a <=> n < m)
  BY <1>3
<1>6. a % ROB_SIZE = b % ROB_SIZE
  BY DEF RobIndex
<1>. HIDE DEF a, b
<1>7. CASE m < n
  BY <1>1, <1>2, <1>3, <1>7, <1>5, <1>6
<1>8. CASE n < m
  BY <1>1, <1>2, <1>3, <1>8, <1>5, <1>6
<1>. QED BY <1>3, <1>7, <1>8

\* Every step keeps the buffers within their sizes.
LEMMA NextSizes ==
  ASSUME CoreTypes, Sizes, [Next]_vars
  PROVE  Sizes'
<1>. USE DEF Sizes, CoreTypes
<1>1. ASSUME NEW mispredicted \in BOOLEAN, ReadFromTrace(mispredicted) PROVE Sizes'
  <2>1. IFETCH_SIZE \in Nat
    BY CoreAssumption
  <2>. QED BY <1>1, <2>1 DEF ReadFromTrace
<1>2. CASE SendToDecode
  <2>1. DECODE_SIZE \in Nat /\ IFETCH_SIZE \in Nat
    BY CoreAssumption
  <2>. QED BY <1>2, <2>1 DEF SendToDecode, control
<1>3. CASE DecodeAndDispatch
  <2>1. ROB_SIZE \in Nat /\ DECODE_SIZE \in Nat
    BY CoreAssumption
  <2>. QED BY <1>3, <2>1 DEF DecodeAndDispatch, frontEnd
<1>4. CASE RetireRob
  <2>1. ROB_SIZE \in Nat
    BY CoreAssumption
  <2>. QED BY <1>4, <2>1 DEF RetireRob, frontEnd
<1>5. CASE ~(\E mispredicted \in BOOLEAN : ReadFromTrace(mispredicted)) /\ ~SendToDecode
           /\ ~DecodeAndDispatch /\ ~RetireRob
  <2>1. UNCHANGED <<read, sent, dispatched, retired>>
    BY <1>5 DEF Next, ResumeFetch, FetchLine, L1iAnswer, DoScheduling, ExecuteInstruction,
      DoExecution, CompleteExecution, ScheduleMemory, TranslateStore, TranslateLoad,
      ExecuteStore, ExecuteLoad, DtlbAnswer, L1dAnswer, L1dWrite, vars, control, frontEnd
  <2>. QED BY <2>1
<1>. QED BY <1>1, <1>2, <1>3, <1>4, <1>5

-----------------------------------------------------------------------------
(* Registers.                                                              *)

\* The register part holds at the start.
LEMMA InitRegisterInv == Init => RegisterInv
<1>. SUFFICES ASSUME Init PROVE RegisterInv
  OBVIOUS
<1>0. CoreTypes /\ retired = 0 /\ dispatched = 0
  BY InitCoreTypes DEF Init
<1>1. Rob = {}
  BY <1>0, RobFacts DEF CoreTypes
<1>2. OutsideIsClear /\ WaitersAreYounger /\ WaitsForOne /\ LastWriterKnown /\ StartedIsReady
      /\ MemoryStarts
  BY <1>1 DEF Init, OutsideIsClear, WaitersAreYounger, WaitsForOne, LastWriterKnown,
    StartedIsReady, MemoryStarts
<1>3. DependenceCounted
  BY DEF Init, DependenceCounted
<1>4. QueuedOnce
  <2>1. \A n : Count(n, <<>>) = 0
    <3>1. ASSUME NEW n PROVE {k \in DOMAIN <<>> : <<>>[k] = n} = {}
      OBVIOUS
    <3>. QED BY <3>1, FS_EmptySet DEF Count
  <2>. QED BY <1>1, <2>1 DEF Init, QueuedOnce
<1>5. RegInFlight
  <2>1. {n \in Rob : ~IsMemory(n) /\ executed[n] = "inflight"} = {}
    BY <1>1
  <2>. QED BY <2>1, FS_EmptySet DEF Init, RegInFlight
<1>. QED BY <1>2, <1>3, <1>4, <1>5 DEF RegisterInv

\* What the register part of the state consists of.
registerState == <<trace, dispatched, retired, scheduled, executed, num_reg_dependent,
                   registers_instrs_depend_on_me, added, RTE0, RTE1, inflight_reg_executions>>

\* It depends on registerState only,
LEMMA RegisterFrame == RegisterInv /\ UNCHANGED registerState => RegisterInv'
<1>. SUFFICES ASSUME RegisterInv, UNCHANGED registerState PROVE RegisterInv'
  OBVIOUS
<1>. USE DEF RegisterInv
<1>1. /\ trace' = trace /\ dispatched' = dispatched /\ retired' = retired /\ scheduled' = scheduled
      /\ executed' = executed /\ num_reg_dependent' = num_reg_dependent /\ added' = added
      /\ registers_instrs_depend_on_me' = registers_instrs_depend_on_me
      /\ RTE0' = RTE0 /\ RTE1' = RTE1 /\ inflight_reg_executions' = inflight_reg_executions
  BY DEF registerState
<1>2. Id' = Id /\ Rob' = Rob /\ \A n : Older(n)' = Older(n)
  BY <1>1 DEF Id, Rob, Older
<1>3. \A n : (IsMemory(n)' <=> IsMemory(n)) /\ (RegReady(n)' <=> RegReady(n))
  BY <1>1, SameTrace DEF RegReady
<1>4. \A d : Waiting(d)' = Waiting(d)
  BY <1>1, <1>2 DEF Waiting
<1>5. OutsideIsClear' /\ WaitersAreYounger' /\ WaitsForOne'
  BY <1>1, <1>2 DEF OutsideIsClear, WaitersAreYounger, WaitsForOne
<1>6. DependenceCounted'
  BY <1>1, <1>2, <1>4 DEF DependenceCounted
<1>7. LastWriterKnown'
  BY <1>1, <1>2 DEF LastWriterKnown
<1>8. StartedIsReady'
  BY <1>1, <1>2, <1>3 DEF StartedIsReady
<1>9. QueuedOnce'
  BY <1>1, <1>2, <1>3 DEF QueuedOnce, Count
<1>10. MemoryStarts'
  BY <1>1, <1>2, <1>3 DEF MemoryStarts
<1>11. RegInFlight'
  BY <1>1, <1>2, <1>3 DEF RegInFlight
<1>. QED BY <1>5, <1>6, <1>7, <1>8, <1>9, <1>10, <1>11

\* schedule_instruction looks the producers up.
LEMMA ProducerFacts ==
  ASSUME CoreTypes, NEW n \in Id, NEW r
  PROVE  /\ RegProducer(n, r) # 0 => /\ RegProducer(n, r) \in Older(n)
                                     /\ RegProducer(n, r) \in Id
                                     /\ executed[RegProducer(n, r)] # "completed"
                                     /\ r \in trace[RegProducer(n, r)].dst
                                     /\ r \in trace[RegProducer(n, r)].dst
         /\ \A k \in Older(n) : executed[k] # "completed" /\ r \in trace[k].dst =>
              k <= RegProducer(n, r) /\ RegProducer(n, r) # 0
<1>. DEFINE S == {m \in Older(n) : executed[m] # "completed" /\ r \in trace[m].dst}
<1>1. Older(n) \subseteq Id /\ Id = 1 .. Len(trace) /\ Len(trace) \in Nat
  BY RobFacts, TraceFacts DEF CoreTypes
<1>2. S \subseteq 1 .. Len(trace)
  BY <1>1
<1>3. RegProducer(n, r) = Youngest(S)
  BY DEF RegProducer
<1>4. Youngest(S) \in S \cup {0} /\ (\A k \in S : k <= Youngest(S)) /\ (Youngest(S) = 0 <=> S = {})
  <2>. HIDE DEF S
  <2>. QED BY <1>1, <1>2, YoungestIs
<1>. QED BY <1>1, <1>3, <1>4

\* a new entry of the ROB starts clear,
LEMMA DispatchKeepsRegisters ==
  ASSUME CoreTypes, RegisterInv, DecodeAndDispatch
  PROVE  RegisterInv'
<1>. USE DEF RegisterInv
<1>1. /\ trace' = trace /\ dispatched' = dispatched + 1 /\ retired' = retired
      /\ scheduled' = scheduled /\ executed' = executed /\ num_reg_dependent' = num_reg_dependent
      /\ added' = added /\ registers_instrs_depend_on_me' = registers_instrs_depend_on_me
      /\ RTE0' = RTE0 /\ RTE1' = RTE1 /\ inflight_reg_executions' = inflight_reg_executions
      /\ dispatched < sent
  BY DEF DecodeAndDispatch, registers, lsq, rings, inflight
<1>. DEFINE new == dispatched + 1
<1>2. /\ Id' = Id /\ Rob' = Rob \cup {new} /\ new \in Id \ Rob
      /\ \A n : Older(n)' = Older(n)
  <2>1. retired \in Nat /\ dispatched \in Nat /\ retired <= dispatched /\ trace \in Traces
        /\ sent \in Nat /\ read \in Nat /\ sent <= read /\ read <= Len(trace)
    BY DEF CoreTypes
  <2>2. Id = 1 .. Len(trace) /\ Len(trace) \in Nat
    BY <2>1, TraceFacts
  <2>3. Rob' = Rob \cup {new} /\ new \in Id \ Rob
    BY <1>1, <2>1, <2>2 DEF Rob
  <2>. QED BY <1>1, <2>3 DEF Id, Older
<1>3. \A n : (IsMemory(n)' <=> IsMemory(n)) /\ (RegReady(n)' <=> RegReady(n))
  BY <1>1, SameTrace DEF RegReady
<1>4. scheduled[new] = "no" /\ executed[new] = "no" /\ registers_instrs_depend_on_me[new] = {}
  BY <1>2 DEF OutsideIsClear
<1>. HIDE DEF new
<1>5. \A d : Waiting(d)' = Waiting(d)
  BY <1>1, <1>2, <1>4 DEF Waiting
<1>6. OutsideIsClear' /\ WaitersAreYounger' /\ WaitsForOne'
  BY <1>1, <1>2 DEF OutsideIsClear, WaitersAreYounger, WaitsForOne
<1>7. DependenceCounted'
  BY <1>1, <1>2, <1>5 DEF DependenceCounted
<1>8. LastWriterKnown'
  BY <1>1, <1>2, <1>4 DEF LastWriterKnown
<1>9. StartedIsReady'
  BY <1>1, <1>2, <1>3 DEF StartedIsReady
<1>10. QueuedOnce'
  <2>1. ~RegReady(new)
    BY <1>4 DEF RegReady
  <2>. QED BY <1>1, <1>2, <1>3, <2>1 DEF QueuedOnce, Count
<1>11. MemoryStarts'
  BY <1>1, <1>2, <1>3, <1>4 DEF MemoryStarts
<1>12. RegInFlight'
  <2>1. {n \in Rob : ~IsMemory(n) /\ executed[n] = "inflight"}'
          = {n \in Rob : ~IsMemory(n) /\ executed[n] = "inflight"}
    BY <1>1, <1>2, <1>3, <1>4
  <2>. QED BY <1>1, <2>1 DEF RegInFlight
<1>. QED BY <1>6, <1>7, <1>8, <1>9, <1>10, <1>11, <1>12

\* do_scheduling makes an instruction wait for its unfinished writers,
LEMMA SchedulingKeepsRegisters ==
  ASSUME CoreTypes, RegisterInv, NEW n \in Id, DoScheduling(n)
  PROVE  RegisterInv'
<1>. USE DEF RegisterInv
<1>. DEFINE waits == {r \in trace[n].src : RegProducer(n, r) # 0}
<1>1. /\ trace' = trace /\ dispatched' = dispatched /\ retired' = retired
      /\ executed' = executed /\ added' = added /\ RTE0' = RTE0
      /\ inflight_reg_executions' = inflight_reg_executions
      /\ n \in Rob /\ scheduled[n] = "no"
  BY DEF DoScheduling, control, lsq, inflight
<1>2. Id' = Id /\ Rob' = Rob /\ \A k : Older(k)' = Older(k)
  BY <1>1 DEF Id, Rob, Older
<1>3. \A k : IsMemory(k)' <=> IsMemory(k)
  BY <1>1, SameTrace
<1>4. /\ \A d \in Id : d # n => scheduled'[d] = scheduled[d]
      /\ scheduled'[n] = IF IsMemory(n) THEN "inflight" ELSE "completed"
  BY DEF DoScheduling, CoreTypes
<1>5. /\ \A d \in Id : d # n => num_reg_dependent'[d] = num_reg_dependent[d]
      /\ num_reg_dependent'[n] = Cardinality(waits)
  BY DEF DoScheduling, CoreTypes
<1>6. \A m, d \in Id, r \in Reg : <<d, r>> \in registers_instrs_depend_on_me'[m] <=>
        \/ <<d, r>> \in registers_instrs_depend_on_me[m]
        \/ d = n /\ r \in waits /\ RegProducer(n, r) = m
  <2>1. \A m \in Id : registers_instrs_depend_on_me'[m] =
          registers_instrs_depend_on_me[m] \cup {<<n, r>> : r \in {r \in waits : RegProducer(n, r) = m}}
    BY DEF DoScheduling
  <2>. HIDE DEF waits
  <2>. QED BY <2>1
<1>7. waits \subseteq Reg /\ waits \subseteq trace[n].src /\ IsFiniteSet(waits)
      /\ (Cardinality(waits) = 0 <=> waits = {})
  <2>1. waits \subseteq Reg
    BY InstructionFacts DEF CoreTypes
  <2>2. IsFiniteSet(waits)
    BY <2>1, CoreAssumption, FS_Subset
  <2>3. Cardinality(waits) = 0 <=> waits = {}
    BY <2>2, Zero
  <2>. QED BY <2>1, <2>2, <2>3
<1>8. executed[n] = "no" /\ added[n] = {}
  BY <1>1 DEF StartedIsReady, RegReady
<1>9. \A m \in Id, r \in Reg : <<n, r>> \notin registers_instrs_depend_on_me[m]
  BY <1>1 DEF WaitersAreYounger
<1>10. \A r \in waits : /\ RegProducer(n, r) \in Older(n) /\ RegProducer(n, r) \in Id
                        /\ executed[RegProducer(n, r)] # "completed"
  BY ProducerFacts
<1>11. \A r : \A k \in Older(n) : executed[k] # "completed" /\ r \in trace[k].dst =>
         k <= RegProducer(n, r) /\ RegProducer(n, r) # 0
  BY ProducerFacts
<1>12. Older(n) \subseteq Rob /\ (\A m \in Older(n) : m < n /\ m \in Int)
  BY <1>1, RobFacts
<1>13. RTE1' = IF ~IsMemory(n) /\ waits = {} THEN Append(RTE1, n) ELSE RTE1
  BY DEF DoScheduling
<1>14. Rob \subseteq Id /\ n \in Int
  BY RobFacts
<1>15. \A r \in waits : RegProducer(n, r) # 0
  OBVIOUS
<1>16. \A r \in trace[n].src : RegProducer(n, r) # 0 => r \in waits
  OBVIOUS
<1>producer. \A r : RegProducer(n, r) # 0 => /\ RegProducer(n, r) \in Older(n) /\ RegProducer(n, r) \in Int
                                        /\ r \in trace[RegProducer(n, r)].dst
  BY <1>12, ProducerFacts
<1>others. \A m \in Id : (\A r \in waits : RegProducer(n, r) # m) =>
         registers_instrs_depend_on_me'[m] = registers_instrs_depend_on_me[m]
  BY DEF DoScheduling
<1>. HIDE DEF waits
<1>17. OutsideIsClear'
  <2>1. ASSUME NEW m \in Id \ Rob PROVE registers_instrs_depend_on_me'[m] = {}
    <3>1. \A r \in waits : RegProducer(n, r) # m
      BY <1>10, <1>12
    <3>2. registers_instrs_depend_on_me'[m] = registers_instrs_depend_on_me[m]
      BY <1>others, <3>1
    <3>. QED BY <3>2 DEF OutsideIsClear
  <2>. QED BY <1>1, <1>2, <1>4, <2>1 DEF OutsideIsClear
<1>18. WaitersAreYounger'
  <2>. SUFFICES ASSUME NEW m \in Id, NEW d \in Id, NEW r \in Reg,
                       <<d, r>> \in registers_instrs_depend_on_me'[m]
                PROVE  m < d /\ m \in Rob /\ d \in Rob /\ r \in trace[d].src /\ scheduled'[d] # "no"
    BY <1>1, <1>2 DEF WaitersAreYounger
  <2>1. CASE <<d, r>> \in registers_instrs_depend_on_me[m]
    BY <1>1, <1>4, <2>1 DEF WaitersAreYounger
  <2>2. CASE d = n /\ r \in waits /\ RegProducer(n, r) = m
    <3>1. m \in Older(n)
      BY <1>10, <2>2
    <3>2. m \in Rob /\ m < n
      BY <1>12, <3>1
    <3>. QED BY <1>1, <1>4, <1>7, <2>2, <3>2
  <2>. QED BY <1>6, <2>1, <2>2
<1>19. WaitsForOne'
  BY <1>2, <1>6, <1>9 DEF WaitsForOne
<1>20. Waiting(n)' = waits
  <2>1. ASSUME NEW r \in Reg
        PROVE (\E m \in Rob : executed[m] # "completed" /\ <<n, r>> \in registers_instrs_depend_on_me'[m])
                <=> r \in waits
    BY <1>6, <1>9, <1>10, <1>12, <1>14
  <2>. QED BY <1>1, <1>2, <1>7, <2>1 DEF Waiting
<1>21. \A d \in Id : d # n => Waiting(d)' = Waiting(d)
  BY <1>1, <1>2, <1>6, <1>14 DEF Waiting
<1>22. DependenceCounted'
  BY <1>2, <1>4, <1>5, <1>20, <1>21 DEF DependenceCounted
<1>23. LastWriterKnown'
  <2>. SUFFICES ASSUME NEW d \in Rob, NEW w \in Older(d), NEW r \in trace[d].src,
                       scheduled'[d] # "no", executed[w] # "completed", r \in trace[w].dst,
                       \A k \in Older(d) : r \in trace[k].dst => k <= w
                PROVE  <<d, r>> \in registers_instrs_depend_on_me'[w]
    BY <1>1, <1>2 DEF LastWriterKnown
  <2>1. w \in Id /\ w \in Int /\ d \in Id
    BY RobFacts
  <2>2. r \in Reg
    BY <2>1, InstructionFacts DEF CoreTypes
  <2>3. CASE d = n
    <3>1. RegProducer(n, r) # 0 /\ w <= RegProducer(n, r)
      BY <1>11, <2>3
    <3>2. r \in waits
      BY <1>16, <2>3, <3>1
    <3>3. RegProducer(n, r) <= w /\ RegProducer(n, r) \in Int
      BY <1>producer, <2>3, <3>1
    <3>. QED BY <1>6, <2>1, <2>2, <2>3, <3>1, <3>2, <3>3
  <2>4. CASE d # n
    BY <1>4, <1>6, <2>1, <2>2, <2>4 DEF LastWriterKnown
  <2>. QED BY <2>3, <2>4
<1>24. StartedIsReady'
  BY <1>1, <1>2, <1>4, <1>5, <1>8 DEF StartedIsReady, RegReady
<1>25. QueuedOnce'
  <2>1. RTE1' \in Seq(Id)
    BY <1>13 DEF QueuedOnce
  <2>2. ASSUME NEW k \in Id
        PROVE  Count(k, RTE0) + Count(k, RTE1') =
                 IF k \in Rob /\ ~IsMemory(k) /\ RegReady(k)' /\ executed[k] = "no" THEN 1 ELSE 0
    <3>1. CASE k = n
      <4>1. Count(k, RTE0) + Count(k, RTE1) = 0
        BY <1>1, <3>1 DEF QueuedOnce, RegReady
      <4>2. RegReady(k)' <=> waits = {}
        BY <1>4, <1>5, <1>7, <3>1 DEF RegReady
      <4>3. Count(k, RTE0) \in Nat /\ Count(k, RTE1) \in Nat
        BY CountType DEF QueuedOnce
      <4>4. CASE ~IsMemory(n) /\ waits = {}
        <5>1. Count(k, RTE1') = Count(k, RTE1) + 1
          BY <1>13, <3>1, <4>4, CountAppend DEF QueuedOnce
        <5>. QED BY <1>1, <1>8, <3>1, <4>1, <4>2, <4>3, <4>4, <5>1
      <4>5. CASE ~(~IsMemory(n) /\ waits = {})
        BY <1>13, <3>1, <4>1, <4>2, <4>5
      <4>. QED BY <4>4, <4>5
    <3>2. CASE k # n
      <4>1. RegReady(k)' <=> RegReady(k)
        BY <1>4, <1>5, <3>2 DEF RegReady
      <4>2. Count(k, RTE1') = Count(k, RTE1)
        <5>1. Count(k, RTE1) \in Nat
          BY CountType DEF QueuedOnce
        <5>2. Count(k, Append(RTE1, n)) = Count(k, RTE1) + 0
          BY <3>2, CountAppend DEF QueuedOnce
        <5>. QED BY <1>13, <5>1, <5>2
      <4>. QED BY <4>1, <4>2 DEF QueuedOnce
    <3>. QED BY <3>1, <3>2
  <2>. QED BY <1>1, <1>2, <1>3, <2>1, <2>2 DEF QueuedOnce, Count
<1>26. MemoryStarts'
  BY <1>1, <1>2, <1>3, <1>4, <1>8, <1>14 DEF MemoryStarts
<1>27. RegInFlight'
  BY <1>1, <1>2, <1>3 DEF RegInFlight
<1>. QED BY <1>17, <1>18, <1>19, <1>22, <1>23, <1>24, <1>25, <1>26, <1>27

\* The head of a ready ring waits to be executed.
LEMMA ExecutionFacts ==
  ASSUME CoreTypes, RegisterInv, ExecuteInstruction
  PROVE  \E n \in Id :
           /\ n \in Rob /\ ~IsMemory(n) /\ RegReady(n) /\ executed[n] = "no"
           /\ DoExecution(n)
           /\ RTE0' \in Seq(Id) /\ RTE1' \in Seq(Id)
           /\ \A k \in Id : Count(k, RTE0') + Count(k, RTE1') + (IF k = n THEN 1 ELSE 0)
                              = Count(k, RTE0) + Count(k, RTE1)
<1>. USE DEF RegisterInv
<1>1. PICK n \in Id :
        /\ DoExecution(n)
        /\ \A k \in Id : Count(k, RTE0') + Count(k, RTE1') + (IF k = n THEN 1 ELSE 0)
                           = Count(k, RTE0) + Count(k, RTE1)
        /\ RTE0' \in Seq(Id) /\ RTE1' \in Seq(Id)
  <2>1. CASE RTE0 # <<>> /\ DoExecution(Head(RTE0)) /\ RTE0' = Tail(RTE0) /\ UNCHANGED RTE1
    <3>1. ASSUME NEW k \in Id
          PROVE  Count(k, RTE0) = Count(k, Tail(RTE0)) + IF k = Head(RTE0) THEN 1 ELSE 0
      BY <2>1, CountTail DEF QueuedOnce
    <3>2. \A k : Count(k, Tail(RTE0)) \in Nat /\ Count(k, RTE1) \in Nat
      BY <2>1, HeadTailProperties, CountType DEF QueuedOnce
    <3>3. Head(RTE0) \in Id /\ Tail(RTE0) \in Seq(Id)
      BY <2>1, HeadTailProperties DEF QueuedOnce
    <3>4. \A k \in Id : Count(k, RTE0') + Count(k, RTE1') + (IF k = Head(RTE0) THEN 1 ELSE 0)
                          = Count(k, RTE0) + Count(k, RTE1)
      BY <2>1, <3>1, <3>2
    <3>5. RTE0' \in Seq(Id) /\ RTE1' \in Seq(Id)
      BY <2>1, <3>3 DEF QueuedOnce
    <3>. QED BY <2>1, <3>3, <3>4, <3>5
  <2>2. CASE RTE1 # <<>> /\ DoExecution(Head(RTE1)) /\ RTE1' = Tail(RTE1) /\ UNCHANGED RTE0
    <3>1. ASSUME NEW k \in Id
          PROVE  Count(k, RTE1) = Count(k, Tail(RTE1)) + IF k = Head(RTE1) THEN 1 ELSE 0
      BY <2>2, CountTail DEF QueuedOnce
    <3>2. \A k : Count(k, Tail(RTE1)) \in Nat /\ Count(k, RTE0) \in Nat
      BY <2>2, HeadTailProperties, CountType DEF QueuedOnce
    <3>3. Head(RTE1) \in Id /\ Tail(RTE1) \in Seq(Id)
      BY <2>2, HeadTailProperties DEF QueuedOnce
    <3>4. \A k \in Id : Count(k, RTE0') + Count(k, RTE1') + (IF k = Head(RTE1) THEN 1 ELSE 0)
                          = Count(k, RTE0) + Count(k, RTE1)
      BY <2>2, <3>1, <3>2
    <3>5. RTE0' \in Seq(Id) /\ RTE1' \in Seq(Id)
      BY <2>2, <3>3 DEF QueuedOnce
    <3>. QED BY <2>2, <3>3, <3>4, <3>5
  <2>. QED BY <2>1, <2>2 DEF ExecuteInstruction
<1>2. n \in Rob /\ ~IsMemory(n) /\ RegReady(n) /\ executed[n] = "no"
  <2>1. Count(n, RTE0) + Count(n, RTE1) =
          IF n \in Rob /\ ~IsMemory(n) /\ RegReady(n) /\ executed[n] = "no" THEN 1 ELSE 0
    BY DEF QueuedOnce
  <2>2. Count(n, RTE0') + Count(n, RTE1') + 1 = Count(n, RTE0) + Count(n, RTE1)
    BY <1>1
  <2>3. Count(n, RTE0') \in Nat /\ Count(n, RTE1') \in Nat
    BY <1>1, CountType
  <2>. QED BY <2>1, <2>2, <2>3
<1>. QED BY <1>1, <1>2

\* execute_instruction takes what is ready from RTE0 and RTE1,
LEMMA ExecutionKeepsRegisters ==
  ASSUME CoreTypes, RegisterInv, ExecuteInstruction
  PROVE  RegisterInv'
<1>. USE DEF RegisterInv
<1>1. PICK n \in Id :
        /\ n \in Rob /\ ~IsMemory(n) /\ RegReady(n) /\ executed[n] = "no"
        /\ DoExecution(n)
        /\ RTE0' \in Seq(Id) /\ RTE1' \in Seq(Id)
        /\ \A k \in Id : Count(k, RTE0') + Count(k, RTE1') + (IF k = n THEN 1 ELSE 0)
                           = Count(k, RTE0) + Count(k, RTE1)
  BY ExecutionFacts
<1>2. /\ trace' = trace /\ dispatched' = dispatched /\ retired' = retired
      /\ scheduled' = scheduled /\ num_reg_dependent' = num_reg_dependent /\ added' = added
      /\ registers_instrs_depend_on_me' = registers_instrs_depend_on_me
      /\ inflight_reg_executions' = inflight_reg_executions + 1
      /\ \A k \in Id : k # n => executed'[k] = executed[k]
      /\ executed'[n] = "inflight"
  BY <1>1 DEF DoExecution, CoreTypes, control, registers, lsq
<1>3. Id' = Id /\ Rob' = Rob /\ (\A k : Older(k)' = Older(k)) /\ Rob \subseteq Id
  BY <1>2, RobFacts DEF Id, Rob, Older
<1>4. \A k : (IsMemory(k)' <=> IsMemory(k)) /\ (RegReady(k)' <=> RegReady(k))
  BY <1>2, SameTrace DEF RegReady
<1>5. n \in Rob /\ ~IsMemory(n) /\ RegReady(n) /\ executed[n] = "no"
  BY <1>1
<1>6. \A d : Waiting(d)' = Waiting(d)
  BY <1>2, <1>3, <1>5 DEF Waiting
<1>7. OutsideIsClear' /\ WaitersAreYounger' /\ WaitsForOne'
  BY <1>2, <1>3, <1>5 DEF OutsideIsClear, WaitersAreYounger, WaitsForOne
<1>8. DependenceCounted'
  BY <1>2, <1>3, <1>6 DEF DependenceCounted
<1>9. LastWriterKnown'
  <2>. SUFFICES ASSUME NEW d \in Rob, NEW w \in Older(d), NEW r \in trace[d].src,
                       scheduled[d] # "no", executed'[w] # "completed", r \in trace[w].dst,
                       \A k \in Older(d) : r \in trace[k].dst => k <= w
                PROVE  <<d, r>> \in registers_instrs_depend_on_me[w]
    BY <1>2, <1>3 DEF LastWriterKnown
  <2>1. w \in Id
    BY RobFacts
  <2>2. executed[w] # "completed"
    BY <1>2, <1>5, <2>1
  <2>. QED BY <2>2 DEF LastWriterKnown
<1>10. StartedIsReady'
  BY <1>2, <1>3, <1>4, <1>5 DEF StartedIsReady
<1>11. QueuedOnce'
  <2>1. ASSUME NEW k \in Id
        PROVE  Count(k, RTE0') + Count(k, RTE1') =
                 IF k \in Rob /\ ~IsMemory(k) /\ RegReady(k) /\ executed'[k] = "no" THEN 1 ELSE 0
    <3>1. Count(k, RTE0) + Count(k, RTE1) =
            IF k \in Rob /\ ~IsMemory(k) /\ RegReady(k) /\ executed[k] = "no" THEN 1 ELSE 0
      BY DEF QueuedOnce
    <3>2. Count(k, RTE0') + Count(k, RTE1') + (IF k = n THEN 1 ELSE 0) = Count(k, RTE0) + Count(k, RTE1)
      BY <1>1
    <3>3. Count(k, RTE0') \in Nat /\ Count(k, RTE1') \in Nat
      BY <1>1, CountType
    <3>. QED BY <1>2, <1>5, <3>1, <3>2, <3>3
  <2>. QED BY <1>1, <1>2, <1>3, <1>4, <2>1 DEF QueuedOnce, Count
<1>12. MemoryStarts'
  BY <1>2, <1>3, <1>4, <1>5 DEF MemoryStarts
<1>13. RegInFlight'
  <2>. DEFINE S == {k \in Rob : ~IsMemory(k) /\ executed[k] = "inflight"}
  <2>1. S' = S \cup {n} /\ n \notin S
    BY <1>2, <1>3, <1>4, <1>5
  <2>2. IsFiniteSet(S)
    BY RobFacts, FS_Subset
  <2>3. Cardinality(S \cup {n}) = Cardinality(S) + 1
    <3>. HIDE DEF S
    <3>. QED BY <2>1, <2>2, FS_AddElement
  <2>. QED BY <1>2, <2>1, <2>3 DEF RegInFlight
<1>. QED BY <1>7, <1>8, <1>9, <1>10, <1>11, <1>12, <1>13

\* n completes: it was in flight, and what waits for it waits once less.
LEMMA CompletionFacts ==
  ASSUME CoreTypes, RegisterInv, NEW n \in Id, CompleteExecution(n)
  PROVE  /\ trace' = trace /\ dispatched' = dispatched /\ retired' = retired /\ added' = added
         /\ registers_instrs_depend_on_me' = registers_instrs_depend_on_me /\ RTE1' = RTE1
         /\ n \in Rob /\ executed[n] = "inflight" /\ executed'[n] = "completed"
         /\ \A k \in Id : k # n => executed'[k] = executed[k]
         /\ \A d \in Id :
              num_reg_dependent'[d] = num_reg_dependent[d] - Cardinality(WaitsFor(d, n))
         /\ \A d \in Id : scheduled'[d] = IF d \notin Ready(n) THEN scheduled[d]
                                          ELSE IF IsMemory(d) THEN "inflight" ELSE "completed"
         /\ \A d \in Ready(n) : /\ d \in Rob /\ d # n /\ scheduled[d] # "no" /\ executed[d] = "no"
                                /\ added[d] = {} /\ num_reg_dependent[d] # 0
                                /\ num_reg_dependent'[d] = 0
         /\ \A d \in Id : WaitsFor(d, n) # {} => d \in Rob /\ d # n /\ scheduled[d] # "no"
<1>. USE DEF RegisterInv
<1>1. /\ trace' = trace /\ dispatched' = dispatched /\ retired' = retired /\ added' = added
      /\ registers_instrs_depend_on_me' = registers_instrs_depend_on_me /\ RTE1' = RTE1
      /\ n \in Rob /\ executed[n] = "inflight"
  BY DEF CompleteExecution, lsq
<1>2. executed'[n] = "completed" /\ \A k \in Id : k # n => executed'[k] = executed[k]
  BY DEF CompleteExecution, CoreTypes
<1>3. \A d \in Id : num_reg_dependent'[d] = num_reg_dependent[d] - Cardinality(WaitsFor(d, n))
  BY DEF CompleteExecution
<1>4. \A d \in Id : scheduled'[d] = IF d \notin Ready(n) THEN scheduled[d]
                                    ELSE IF IsMemory(d) THEN "inflight" ELSE "completed"
  BY DEF CompleteExecution
<1>5. ASSUME NEW d \in Id, WaitsFor(d, n) # {} PROVE d \in Rob /\ d # n /\ scheduled[d] # "no"
  <2>1. PICK r \in Reg : <<d, r>> \in registers_instrs_depend_on_me[n]
    BY <1>5 DEF WaitsFor
  <2>2. n < d /\ n \in Int /\ d \in Int
    BY <2>1, RobFacts DEF WaitersAreYounger
  <2>. QED BY <2>1, <2>2 DEF WaitersAreYounger
<1>6. ASSUME NEW d \in Ready(n)
      PROVE  /\ d \in Rob /\ d # n /\ scheduled[d] # "no" /\ executed[d] = "no"
             /\ added[d] = {} /\ num_reg_dependent[d] # 0 /\ num_reg_dependent'[d] = 0
  <2>1. d \in Id /\ WaitsFor(d, n) # {} /\ num_reg_dependent[d] = Cardinality(WaitsFor(d, n))
    BY DEF Ready
  <2>2. Cardinality(WaitsFor(d, n)) \in Nat /\ Cardinality(WaitsFor(d, n)) # 0
    BY <2>1, WaitsForFinite
  <2>3. num_reg_dependent[d] # 0 /\ num_reg_dependent'[d] = 0
    BY <1>3, <2>1, <2>2
  <2>4. executed[d] = "no" /\ added[d] = {}
    BY <2>1, <2>3 DEF StartedIsReady, RegReady
  <2>. QED BY <1>5, <2>1, <2>3, <2>4
<1>. QED BY <1>1, <1>2, <1>3, <1>4, <1>5, <1>6

\* The instructions to execute, in the order of their places in the ROB.
LEMMA ToExecute ==
  ASSUME CoreTypes, Sizes, RegisterInv, NEW n \in Id, CompleteExecution(n)
  PROVE  \E s \in Seq(Id) :
           /\ RTE0' = RTE0 \o s
           /\ \A k : Count(k, s) = IF k \in Ready(n) /\ ~IsMemory(k) THEN 1 ELSE 0
<1>. DEFINE S == {d \in Ready(n) : ~IsMemory(d)}
            key == [d \in Id |-> RobIndex(d)]
            s == Sorted(S, key)
<1>1. S \subseteq Rob /\ Rob \subseteq Id /\ IsFiniteSet(Rob)
  BY CompletionFacts, RobFacts
<1>2. IsFiniteSet(S)
  BY <1>1, FS_Subset
<1>3. \A d \in S : key[d] = RobIndex(d)
  BY <1>1
<1>4. \A d \in S : key[d] \in Int
  <2>1. \A d \in S : d - 1 \in Int
    BY <1>1, RobFacts
  <2>2. ROB_SIZE \in Nat \ {0}
    BY CoreAssumption
  <2>3. \A d \in S : (d - 1) % ROB_SIZE \in 0 .. ROB_SIZE - 1
    BY <2>1, <2>2, Remainder
  <2>4. \A d \in S : (d - 1) % ROB_SIZE \in Int
    BY <2>2, <2>3
  <2>. QED BY <1>3, <2>4 DEF RobIndex
<1>5. \A a, b \in S : key[a] = key[b] => a = b
  BY <1>1, <1>3, RobPlaces
<1>6. RTE0' = RTE0 \o s
  BY DEF CompleteExecution
<1>. HIDE DEF S, key
<1>7. Lists(s, S)
  BY <1>2, <1>4, <1>5, SortedLists
<1>. HIDE DEF s
<1>8. s \in Seq(S) /\ \A d : Count(d, s) = IF d \in S THEN 1 ELSE 0
  BY <1>2, <1>7, CountListing
<1>9. s \in Seq(Id)
  BY <1>1, <1>8
<1>. QED BY <1>6, <1>8, <1>9 DEF S

\* complete_execution releases what waited for the instruction only,
LEMMA CompletionKeepsRegisters ==
  ASSUME CoreTypes, Sizes, RegisterInv, NEW n \in Id, CompleteExecution(n)
  PROVE  RegisterInv'
<1>. USE DEF RegisterInv
<1>1. /\ trace' = trace /\ dispatched' = dispatched /\ retired' = retired /\ added' = added
      /\ registers_instrs_depend_on_me' = registers_instrs_depend_on_me /\ RTE1' = RTE1
      /\ n \in Rob /\ executed[n] = "inflight" /\ executed'[n] = "completed"
      /\ \A k \in Id : k # n => executed'[k] = executed[k]
  BY CompletionFacts
<1>2. \A d \in Id : num_reg_dependent'[d] = num_reg_dependent[d] - Cardinality(WaitsFor(d, n))
  BY CompletionFacts
<1>3. /\ \A d \in Id : d \notin Ready(n) => scheduled'[d] = scheduled[d]
      /\ \A d \in Id : d \in Ready(n) /\ IsMemory(d) => scheduled'[d] = "inflight"
      /\ \A d \in Id : d \in Ready(n) /\ ~IsMemory(d) => scheduled'[d] = "completed"
  BY CompletionFacts
<1>4. \A d \in Ready(n) : /\ d \in Rob /\ d # n /\ scheduled[d] # "no" /\ executed[d] = "no"
                          /\ added[d] = {} /\ num_reg_dependent[d] # 0
                          /\ num_reg_dependent'[d] = 0
  BY CompletionFacts
<1>5. \A d \in Id : WaitsFor(d, n) # {} => d \in Rob /\ d # n /\ scheduled[d] # "no"
  BY CompletionFacts
<1>6. Id' = Id /\ Rob' = Rob /\ (\A k : Older(k)' = Older(k)) /\ Rob \subseteq Id
  BY <1>1, RobFacts DEF Id, Rob, Older
<1>7. \A k : IsMemory(k)' <=> IsMemory(k)
  BY <1>1, SameTrace
<1>8. \A d \in Id : scheduled'[d] = "no" <=> scheduled[d] = "no"
  BY <1>3, <1>4
<1>9. ASSUME NEW d \in Id
      PROVE  /\ IsFiniteSet(Waiting(d)) /\ Cardinality(Waiting(d)) \in Nat
             /\ Cardinality(Waiting(d)') = Cardinality(Waiting(d)) - Cardinality(WaitsFor(d, n))
  <2>1. ASSUME NEW r \in Reg PROVE r \in Waiting(d)' <=> r \in Waiting(d) /\ r \notin WaitsFor(d, n)
    <3>1. r \in WaitsFor(d, n) <=> <<d, r>> \in registers_instrs_depend_on_me[n]
      BY DEF WaitsFor
    <3>2. \A m \in Id : <<d, r>> \in registers_instrs_depend_on_me[m]
                        /\ <<d, r>> \in registers_instrs_depend_on_me[n] => m = n
      BY DEF WaitsForOne
    <3>. QED BY <1>1, <1>6, <3>1, <3>2 DEF Waiting
  <2>2. Waiting(d) \subseteq Reg /\ Waiting(d)' \subseteq Reg /\ WaitsFor(d, n) \subseteq Reg
    BY DEF Waiting, WaitsFor
  <2>3. WaitsFor(d, n) \subseteq Waiting(d)
    BY <1>1 DEF Waiting, WaitsFor
  <2>4. Waiting(d) = Waiting(d)' \cup WaitsFor(d, n) /\ Waiting(d)' \cap WaitsFor(d, n) = {}
    BY <2>1, <2>2, <2>3
  <2>5. IsFiniteSet(Waiting(d))
    BY <2>2, CoreAssumption, FS_Subset
  <2>. DEFINE W == Waiting(d)'
  <2>. HIDE DEF W
  <2>6. Cardinality(W \cup WaitsFor(d, n)) = Cardinality(W) + Cardinality(WaitsFor(d, n))
        /\ Cardinality(W) \in Nat /\ Cardinality(WaitsFor(d, n)) \in Nat
    BY <2>4, <2>5, CutInTwo DEF W
  <2>7. Cardinality(Waiting(d)) = Cardinality(W) + Cardinality(WaitsFor(d, n))
    BY <2>4, <2>6 DEF W
  <2>8. Cardinality(W) = Cardinality(Waiting(d)) - Cardinality(WaitsFor(d, n))
        /\ Cardinality(Waiting(d)) \in Nat
    BY <2>6, <2>7
  <2>. QED BY <2>5, <2>8 DEF W
<1>10. OutsideIsClear'
  BY <1>1, <1>3, <1>4, <1>6 DEF OutsideIsClear
<1>11. WaitersAreYounger' /\ WaitsForOne'
  BY <1>1, <1>6, <1>8 DEF WaitersAreYounger, WaitsForOne
<1>12. DependenceCounted'
  <2>1. ASSUME NEW d \in Id
        PROVE  num_reg_dependent'[d] = IF scheduled'[d] = "no" THEN 0 ELSE Cardinality(Waiting(d)')
    <3>1. CASE scheduled[d] = "no"
      <4>1. Cardinality(WaitsFor(d, n)) = 0 /\ num_reg_dependent[d] = 0
        BY <1>5, <3>1, WaitsForFinite DEF DependenceCounted
      <4>. QED BY <1>2, <1>8, <3>1, <4>1
    <3>2. CASE scheduled[d] # "no"
      <4>1. num_reg_dependent[d] = Cardinality(Waiting(d))
        BY <3>2 DEF DependenceCounted
      <4>. QED BY <1>2, <1>8, <1>9, <3>2, <4>1
    <3>. QED BY <3>1, <3>2
  <2>. QED BY <1>6, <2>1 DEF DependenceCounted
<1>13. LastWriterKnown'
  <2>. SUFFICES ASSUME NEW d \in Rob, NEW w \in Older(d), NEW r \in trace[d].src,
                       scheduled'[d] # "no", executed'[w] # "completed", r \in trace[w].dst,
                       \A k \in Older(d) : r \in trace[k].dst => k <= w
                PROVE  <<d, r>> \in registers_instrs_depend_on_me[w]
    BY <1>1, <1>6 DEF LastWriterKnown
  <2>1. w \in Id
    BY RobFacts
  <2>2. executed[w] # "completed" /\ scheduled[d] # "no"
    BY <1>1, <1>6, <1>8, <2>1
  <2>. QED BY <2>2 DEF LastWriterKnown
\* Whether an instruction may execute changes for the released ones only.
<1>14. ASSUME NEW d \in Id
       PROVE  RegReady(d)' <=> RegReady(d) \/ d \in Ready(n)
  <2>1. Cardinality(WaitsFor(d, n)) \in Nat /\ num_reg_dependent[d] \in Int
        /\ (Cardinality(WaitsFor(d, n)) = 0 <=> WaitsFor(d, n) = {})
    BY WaitsForFinite DEF CoreTypes
  <2>2. d \in Ready(n) <=> WaitsFor(d, n) # {} /\ num_reg_dependent[d] = Cardinality(WaitsFor(d, n))
    BY DEF Ready
  <2>3. RegReady(d)' <=> scheduled[d] # "no" /\ num_reg_dependent[d] = Cardinality(WaitsFor(d, n))
    BY <1>2, <1>8, <2>1 DEF RegReady
  <2>4. CASE WaitsFor(d, n) = {}
    BY <2>1, <2>2, <2>3, <2>4 DEF RegReady
  <2>5. CASE WaitsFor(d, n) # {}
    <3>1. scheduled[d] # "no"
      BY <1>5, <2>5
    <3>2. num_reg_dependent[d] # 0
      <4>1. num_reg_dependent[d] = Cardinality(Waiting(d))
        BY <3>1 DEF DependenceCounted
      <4>2. WaitsFor(d, n) \subseteq Waiting(d)
        BY <1>1 DEF Waiting, WaitsFor
      <4>. QED BY <1>9, <2>5, <4>1, <4>2, Zero
    <3>. QED BY <2>2, <2>3, <2>5, <3>1, <3>2 DEF RegReady
  <2>. QED BY <2>4, <2>5
<1>15. StartedIsReady'
  <2>1. \A k \in Id : executed'[k] # "no" => executed[k] # "no"
    BY <1>1
  <2>. QED BY <1>1, <1>6, <1>14, <2>1 DEF StartedIsReady
<1>16. QueuedOnce'
  <2>1. PICK s \in Seq(Id) : /\ RTE0' = RTE0 \o s
                             /\ \A k : Count(k, s) = IF k \in Ready(n) /\ ~IsMemory(k) THEN 1 ELSE 0
    BY ToExecute
  <2>2. RTE0' \in Seq(Id) /\ RTE1 \in Seq(Id)
    BY <2>1 DEF QueuedOnce
  <2>3. ASSUME NEW k \in Id
        PROVE  Count(k, RTE0') + Count(k, RTE1) =
                 IF k \in Rob /\ ~IsMemory(k) /\ RegReady(k)' /\ executed'[k] = "no" THEN 1 ELSE 0
    <3>1. Count(k, RTE0') = Count(k, RTE0) + Count(k, s)
      BY <2>1, CountConcat DEF QueuedOnce
    <3>2. Count(k, RTE0) \in Nat /\ Count(k, RTE1) \in Nat
      BY CountType DEF QueuedOnce
    <3>3. Count(k, RTE0) + Count(k, RTE1) =
            IF k \in Rob /\ ~IsMemory(k) /\ RegReady(k) /\ executed[k] = "no" THEN 1 ELSE 0
      BY DEF QueuedOnce
    <3>4. k \in Ready(n) => k \in Rob /\ ~RegReady(k) /\ executed[k] = "no" /\ executed'[k] = "no"
      BY <1>1, <1>4 DEF RegReady
    <3>5. executed'[k] = "no" <=> executed[k] = "no"
      BY <1>1
    <3>. QED BY <1>14, <2>1, <3>1, <3>2, <3>3, <3>4, <3>5
  <2>. QED BY <1>1, <1>6, <1>7, <2>2, <2>3 DEF QueuedOnce, Count
<1>17. MemoryStarts'
  <2>1. ASSUME NEW k \in Rob, IsMemory(k) PROVE executed'[k] = "no" <=> scheduled'[k] # "completed"
    <3>1. executed'[k] = "no" <=> executed[k] = "no"
      BY <1>1, <1>6
    <3>2. executed[k] = "no" <=> scheduled[k] # "completed"
      BY <2>1 DEF MemoryStarts
    <3>. QED BY <1>3, <1>4, <1>6, <2>1, <3>1, <3>2
  <2>. QED BY <1>6, <1>7, <2>1 DEF MemoryStarts
<1>18. RegInFlight'
  <2>. DEFINE S == {k \in Rob : ~IsMemory(k) /\ executed[k] = "inflight"}
  <2>1. IsFiniteSet(S)
    BY RobFacts, FS_Subset
  <2>2. CASE IsMemory(n)
    <3>1. S' = S
      BY <1>1, <1>6, <1>7, <2>2
    <3>2. inflight_reg_executions' = inflight_reg_executions
      BY <2>2 DEF CompleteExecution
    <3>. QED BY <3>1, <3>2 DEF RegInFlight
  <2>3. CASE ~IsMemory(n)
    <3>1. S' = S \ {n} /\ n \in S
      BY <1>1, <1>6, <1>7, <2>3
    <3>2. inflight_reg_executions' = inflight_reg_executions - 1
      BY <2>3 DEF CompleteExecution
    <3>3. Cardinality(S \ {n}) = Cardinality(S) - 1
      <4>. HIDE DEF S
      <4>. QED BY <2>1, <3>1, FS_RemoveElement
    <3>. QED BY <3>1, <3>2, <3>3 DEF RegInFlight
  <2>. QED BY <2>2, <2>3
<1>. QED BY <1>10, <1>11, <1>12, <1>13, <1>15, <1>16, <1>17, <1>18

\* A memory instruction of which loads and stores have entered the queues.
LEMMA MemorySchedulingFacts ==
  ASSUME CoreTypes, RegisterInv, NEW n \in Id, ScheduleMemory(n)
  PROVE  /\ n \in Rob /\ IsMemory(n) /\ RegReady(n) /\ scheduled[n] = "inflight" /\ executed[n] = "no"
         /\ \A k \in Id : k # n => /\ executed'[k] = executed[k] /\ scheduled'[k] = scheduled[k]
                                   /\ added'[k] = added[k]
         /\ added'[n] = added[n] \cup ({"load"} \X LoadsTaken(n)) \cup ({"store"} \X StoresTaken(n))
         /\ IF added'[n] = Ops(n)
            THEN executed'[n] = "inflight" /\ scheduled'[n] = "completed"
            ELSE executed'[n] = "no" /\ scheduled'[n] = "inflight"
<1>1. n \in Rob /\ IsMemory(n) /\ RegReady(n) /\ scheduled[n] = "inflight"
  BY DEF ScheduleMemory, CanBeScheduled
<1>2. executed[n] = "no"
  BY <1>1 DEF RegisterInv, MemoryStarts
<1>3. added'[n] = added[n] \cup ({"load"} \X LoadsTaken(n)) \cup ({"store"} \X StoresTaken(n))
      /\ \A k \in Id : k # n => added'[k] = added[k]
  BY DEF ScheduleMemory, CoreTypes
<1>4. /\ scheduled' = [scheduled EXCEPT ![n] = IF added'[n] = Ops(n) THEN "completed" ELSE @]
      /\ executed' = [executed EXCEPT ![n] = IF added'[n] = Ops(n) THEN "inflight" ELSE @]
  BY <1>3 DEF ScheduleMemory, Ops
<1>5. /\ \A k \in Id : k # n => executed'[k] = executed[k] /\ scheduled'[k] = scheduled[k]
      /\ IF added'[n] = Ops(n)
         THEN executed'[n] = "inflight" /\ scheduled'[n] = "completed"
         ELSE executed'[n] = "no" /\ scheduled'[n] = "inflight"
  BY <1>1, <1>2, <1>4 DEF CoreTypes
<1>. QED BY <1>1, <1>2, <1>3, <1>5

\* memory operations start when the registers are ready,
LEMMA MemorySchedulingKeepsRegisters ==
  ASSUME CoreTypes, RegisterInv, NEW n \in Id, ScheduleMemory(n)
  PROVE  RegisterInv'
<1>. USE DEF RegisterInv
<1>1. /\ trace' = trace /\ dispatched' = dispatched /\ retired' = retired
      /\ registers_instrs_depend_on_me' = registers_instrs_depend_on_me
      /\ num_reg_dependent' = num_reg_dependent /\ RTE0' = RTE0 /\ RTE1' = RTE1
      /\ inflight_reg_executions' = inflight_reg_executions
  BY DEF ScheduleMemory, control, registers
<1>2. /\ n \in Rob /\ IsMemory(n) /\ RegReady(n) /\ scheduled[n] = "inflight" /\ executed[n] = "no"
      /\ \A k \in Id : k # n => /\ executed'[k] = executed[k] /\ scheduled'[k] = scheduled[k]
                                /\ added'[k] = added[k]
      /\ \/ executed'[n] = "inflight" /\ scheduled'[n] = "completed"
         \/ executed'[n] = "no" /\ scheduled'[n] = "inflight"
  BY MemorySchedulingFacts
<1>3. Id' = Id /\ Rob' = Rob /\ (\A k : Older(k)' = Older(k)) /\ Rob \subseteq Id
  BY <1>1, RobFacts DEF Id, Rob, Older
<1>4. \A k \in Id : (IsMemory(k)' <=> IsMemory(k)) /\ (RegReady(k)' <=> RegReady(k))
  BY <1>1, <1>2, SameTrace DEF RegReady
<1>5. \A k \in Id : /\ executed'[k] = "completed" <=> executed[k] = "completed"
                    /\ scheduled'[k] = "no" <=> scheduled[k] = "no"
  BY <1>2
<1>6. \A d : Waiting(d)' = Waiting(d)
  BY <1>1, <1>3, <1>5 DEF Waiting
<1>7. OutsideIsClear' /\ WaitersAreYounger' /\ WaitsForOne'
  BY <1>1, <1>2, <1>3, <1>5 DEF OutsideIsClear, WaitersAreYounger, WaitsForOne
<1>8. DependenceCounted'
  BY <1>1, <1>3, <1>5, <1>6 DEF DependenceCounted
<1>9. LastWriterKnown'
  <2>. SUFFICES ASSUME NEW d \in Rob, NEW w \in Older(d), NEW r \in trace[d].src,
                       scheduled'[d] # "no", executed'[w] # "completed", r \in trace[w].dst,
                       \A k \in Older(d) : r \in trace[k].dst => k <= w
                PROVE  <<d, r>> \in registers_instrs_depend_on_me[w]
    BY <1>1, <1>3 DEF LastWriterKnown
  <2>1. w \in Id
    BY RobFacts
  <2>2. executed[w] # "completed" /\ scheduled[d] # "no"
    BY <1>3, <1>5, <2>1
  <2>. QED BY <2>2 DEF LastWriterKnown
<1>10. StartedIsReady'
  BY <1>2, <1>3, <1>4 DEF StartedIsReady
<1>11. QueuedOnce'
  BY <1>1, <1>2, <1>3, <1>4 DEF QueuedOnce, Count
<1>12. MemoryStarts'
  BY <1>1, <1>2, <1>3, <1>4 DEF MemoryStarts
<1>13. RegInFlight'
  <2>1. {k \in Rob : ~IsMemory(k) /\ executed[k] = "inflight"}'
          = {k \in Rob : ~IsMemory(k) /\ executed[k] = "inflight"}
    BY <1>2, <1>3, <1>4
  <2>. QED BY <1>1, <2>1 DEF RegInFlight
<1>. QED BY <1>7, <1>8, <1>9, <1>10, <1>11, <1>12, <1>13

\* What retire_rob does to the ROB and its entries.
LEMMA RetirementFacts ==
  ASSUME CoreTypes, RetireRob
  PROVE  /\ trace' = trace /\ dispatched' = dispatched /\ retired' = retired + 1
         /\ retired + 1 \in Rob /\ executed[retired + 1] = "completed"
         /\ Id' = Id /\ Rob' = Rob \ {retired + 1} /\ Rob \subseteq Id
         /\ \A k \in Id : k # retired + 1 =>
              /\ scheduled'[k] = scheduled[k] /\ executed'[k] = executed[k] /\ added'[k] = added[k]
              /\ registers_instrs_depend_on_me'[k] = registers_instrs_depend_on_me[k]
         /\ scheduled'[retired + 1] = "no" /\ executed'[retired + 1] = "no"
         /\ added'[retired + 1] = {} /\ registers_instrs_depend_on_me'[retired + 1] = {}
<1>1. /\ trace' = trace /\ dispatched' = dispatched /\ retired' = retired + 1
      /\ retired + 1 \in Rob /\ executed[retired + 1] = "completed"
  BY DEF RetireRob
<1>2. Rob \subseteq Id /\ retired + 1 \in Id
  BY <1>1, RobFacts
<1>3. Rob' = Rob \ {retired + 1}
  BY <1>1 DEF Rob, CoreTypes
<1>4. /\ scheduled' = [scheduled EXCEPT ![retired + 1] = "no"]
      /\ executed' = [executed EXCEPT ![retired + 1] = "no"]
      /\ added' = [added EXCEPT ![retired + 1] = {}]
      /\ registers_instrs_depend_on_me' = [registers_instrs_depend_on_me EXCEPT ![retired + 1] = {}]
  BY DEF RetireRob
<1>5. /\ \A k \in Id : k # retired + 1 =>
           /\ scheduled'[k] = scheduled[k] /\ executed'[k] = executed[k] /\ added'[k] = added[k]
           /\ registers_instrs_depend_on_me'[k] = registers_instrs_depend_on_me[k]
      /\ scheduled'[retired + 1] = "no" /\ executed'[retired + 1] = "no"
      /\ added'[retired + 1] = {} /\ registers_instrs_depend_on_me'[retired + 1] = {}
  <2>. DEFINE m == retired + 1
  <2>. HIDE DEF m
  <2>. QED BY <1>2, <1>4 DEF CoreTypes, m
<1>. QED BY <1>1, <1>2, <1>3, <1>5 DEF Id

\* and a retired instruction has nobody waiting for it.
LEMMA RetirementKeepsRegisters ==
  ASSUME CoreTypes, RegisterInv, RetireRob
  PROVE  RegisterInv'
<1>. USE DEF RegisterInv
<1>. DEFINE n == retired + 1
<1>1. /\ trace' = trace /\ retired' = n /\ n \in Rob /\ executed[n] = "completed"
      /\ Id' = Id /\ Rob' = Rob \ {n} /\ Rob \subseteq Id
      /\ \A k \in Id : k # n =>
           /\ scheduled'[k] = scheduled[k] /\ executed'[k] = executed[k] /\ added'[k] = added[k]
           /\ registers_instrs_depend_on_me'[k] = registers_instrs_depend_on_me[k]
      /\ scheduled'[n] = "no" /\ executed'[n] = "no" /\ added'[n] = {}
      /\ registers_instrs_depend_on_me'[n] = {}
  BY RetirementFacts
<1>2. /\ num_reg_dependent' = num_reg_dependent /\ RTE0' = RTE0 /\ RTE1' = RTE1
      /\ inflight_reg_executions' = inflight_reg_executions
  BY DEF RetireRob, rings, inflight
<1>3. \A k \in Id : n \notin Older(k)' /\ Older(k)' \subseteq Older(k) /\ Older(k) \subseteq Older(k)' \cup {n}
  <2>1. retired \in Int
    BY DEF CoreTypes
  <2>2. \A k \in Id : k \in Int
    BY RobFacts
  <2>. QED BY <1>1, <2>1, <2>2 DEF Older
<1>4. scheduled[n] # "no" /\ num_reg_dependent[n] = 0
  BY <1>1 DEF StartedIsReady, RegReady
<1>5. \A k \in Id : IsMemory(k)' <=> IsMemory(k)
  BY <1>1, SameTrace
<1>6. \A k \in Id : k # n => (RegReady(k)' <=> RegReady(k))
  BY <1>1, <1>2 DEF RegReady
<1>7. n \in Int /\ \A k \in Rob : n <= k /\ k \in Int
  <2>1. retired \in Int
    BY DEF CoreTypes
  <2>. QED BY <2>1, RobFacts
<1>. HIDE DEF n
<1>8. \A d \in Id : Waiting(d)' = Waiting(d)
  BY <1>1 DEF Waiting
<1>9. OutsideIsClear'
  BY <1>1 DEF OutsideIsClear
<1>10. WaitersAreYounger'
  <2>. SUFFICES ASSUME NEW m \in Id, NEW d \in Id, NEW r \in Reg,
                       <<d, r>> \in registers_instrs_depend_on_me'[m]
                PROVE  /\ m < d /\ m \in Rob \ {n} /\ d \in Rob \ {n} /\ r \in trace[d].src
                       /\ scheduled'[d] # "no"
    BY <1>1 DEF WaitersAreYounger
  <2>1. m # n /\ <<d, r>> \in registers_instrs_depend_on_me[m]
    BY <1>1
  <2>2. m < d /\ m \in Rob /\ d \in Rob /\ r \in trace[d].src /\ scheduled[d] # "no"
    BY <2>1 DEF WaitersAreYounger
  <2>3. d # n
    BY <1>7, <2>2
  <2>. QED BY <1>1, <2>1, <2>2, <2>3
<1>11. WaitsForOne'
  <2>1. \A m \in Id : registers_instrs_depend_on_me'[m] \subseteq registers_instrs_depend_on_me[m]
    BY <1>1
  <2>. QED BY <1>1, <2>1 DEF WaitsForOne
<1>12. DependenceCounted'
  BY <1>1, <1>2, <1>4, <1>8 DEF DependenceCounted
<1>13. LastWriterKnown'
  <2>. SUFFICES ASSUME NEW d \in Rob \ {n}, NEW w \in Older(d)', NEW r \in trace[d].src,
                       scheduled'[d] # "no", executed'[w] # "completed", r \in trace[w].dst,
                       \A k \in Older(d)' : r \in trace[k].dst => k <= w
                PROVE  <<d, r>> \in registers_instrs_depend_on_me'[w]
    BY <1>1 DEF LastWriterKnown
  <2>1. w \in Older(d) /\ w # n
    BY <1>1, <1>3
  <2>2. w \in Id /\ w \in Rob
    BY <2>1, RobFacts
  <2>3. executed[w] # "completed" /\ scheduled[d] # "no"
    BY <1>1, <2>1, <2>2
  <2>4. n <= w
    BY <1>7, <2>2
  <2>5. \A k \in Older(d) : r \in trace[k].dst => k <= w
    BY <1>1, <1>3, <2>4
  <2>6. <<d, r>> \in registers_instrs_depend_on_me[w]
    BY <2>1, <2>3, <2>5 DEF LastWriterKnown
  <2>. QED BY <1>1, <2>1, <2>2, <2>6
<1>14. StartedIsReady'
  BY <1>1, <1>6 DEF StartedIsReady
<1>15. QueuedOnce'
  <2>1. ASSUME NEW k \in Id
        PROVE  Count(k, RTE0) + Count(k, RTE1) =
                 IF k \in Rob \ {n} /\ ~IsMemory(k) /\ RegReady(k)' /\ executed'[k] = "no" THEN 1 ELSE 0
    <3>1. CASE k = n
      BY <1>1, <3>1 DEF QueuedOnce
    <3>2. CASE k # n
      BY <1>1, <1>6, <3>2 DEF QueuedOnce
    <3>. QED BY <3>1, <3>2
  <2>. QED BY <1>1, <1>2, <1>5, <2>1 DEF QueuedOnce, Count
<1>16. MemoryStarts'
  BY <1>1, <1>5 DEF MemoryStarts
<1>17. RegInFlight'
  <2>1. {k \in Rob : ~IsMemory(k) /\ executed[k] = "inflight"}'
          = {k \in Rob : ~IsMemory(k) /\ executed[k] = "inflight"}
    BY <1>1, <1>5
  <2>. QED BY <1>2, <2>1 DEF RegInFlight
<1>. QED BY <1>9, <1>10, <1>11, <1>12, <1>13, <1>14, <1>15, <1>16, <1>17

\* Every step keeps the register part.
LEMMA NextRegisterInv ==
  ASSUME CoreTypes, Sizes, RegisterInv, [Next]_vars
  PROVE  RegisterInv'
<1>1. CASE UNCHANGED registerState
  BY <1>1, RegisterFrame
<1>2. CASE DecodeAndDispatch
  BY <1>2, DispatchKeepsRegisters
<1>3. ASSUME NEW n \in Id, DoScheduling(n) PROVE RegisterInv'
  BY <1>3, SchedulingKeepsRegisters
<1>4. ASSUME NEW n \in Id, CompleteExecution(n) PROVE RegisterInv'
  BY <1>4, CompletionKeepsRegisters
<1>5. ASSUME NEW n \in Id, ScheduleMemory(n) PROVE RegisterInv'
  BY <1>5, MemorySchedulingKeepsRegisters
<1>6. CASE ExecuteInstruction
  BY <1>6, ExecutionKeepsRegisters
<1>7. CASE RetireRob
  BY <1>7, RetirementKeepsRegisters
<1>8. ASSUME ~ UNCHANGED registerState
      PROVE  \/ DecodeAndDispatch \/ ExecuteInstruction \/ RetireRob
             \/ \E n \in Id : DoScheduling(n) \/ CompleteExecution(n) \/ ScheduleMemory(n)
  <2>. USE DEF registerState
  <2>1. ASSUME NEW mispredicted \in BOOLEAN, ReadFromTrace(mispredicted) PROVE FALSE
    BY <1>8, <2>1 DEF ReadFromTrace, registers, rings, inflight
  <2>2. ~ResumeFetch
    BY <1>8 DEF ResumeFetch, registers, lsq, rings, inflight
  <2>3. ~SendToDecode
    BY <1>8 DEF SendToDecode, control, registers, lsq, rings, inflight
  <2>4. ASSUME NEW n \in Id, FetchLine(n) PROVE FALSE
    BY <1>8, <2>4 DEF FetchLine, control, registers, lsq, rings, inflight
  <2>5. ASSUME NEW x \in CodeLine, NEW k \in 1 .. Len(trace), L1iAnswer(x, k) PROVE FALSE
    BY <1>8, <2>5 DEF L1iAnswer, control, registers, lsq, rings, inflight
  <2>6. ~TranslateStore /\ ~TranslateLoad /\ ~ExecuteStore /\ ~ExecuteLoad
    BY <1>8 DEF TranslateStore, TranslateLoad, ExecuteStore, ExecuteLoad, control, registers, lsq,
      rings, inflight
  <2>7. ASSUME NEW p \in dtlb, DtlbAnswer(p) PROVE FALSE
    BY <1>8, <2>7 DEF DtlbAnswer, control, registers, lsq, rings, inflight
  <2>8. ASSUME NEW x \in l1d, L1dAnswer(x) PROVE FALSE
    BY <1>8, <2>8 DEF L1dAnswer, control, registers, lsq, rings, inflight
  <2>9. ASSUME NEW a \in Addr, L1dWrite(a) PROVE FALSE
    BY <1>8, <2>9 DEF L1dWrite, control, registers, lsq, rings, inflight
  <2>10. ~UNCHANGED vars
    BY <1>8 DEF vars, control, registers, lsq, rings, inflight
  <2>. QED BY <2>1, <2>2, <2>3, <2>4, <2>5, <2>6, <2>7, <2>8, <2>9, <2>10 DEF Next
<1>. QED BY <1>1, <1>2, <1>3, <1>4, <1>5, <1>6, <1>7, <1>8

RegisterPart == CoreTypes /\ Sizes /\ RegisterInv

\* The types, sizes and the register part are invariant.
LEMMA RegisterPartInvariant == Spec => []RegisterPart
<1>1. Init => RegisterPart
  BY InitCoreTypes, InitRegisterInv DEF RegisterPart
<1>2. RegisterPart /\ [Next]_vars => RegisterPart'
  BY NextCoreTypes, NextSizes, NextRegisterInv DEF RegisterPart, RegisterInv
<1>. QED BY <1>1, <1>2, PTL DEF Spec

\* An instruction starts only when the last writers of its sources are done.
LEMMA RegisterPartGivesOperands == RegisterPart => OperandsAreReady
<1>. SUFFICES ASSUME RegisterPart, NEW n \in Rob, executed[n] # "no" \/ added[n] # {},
                     NEW r \in trace[n].src,
                     Youngest({m \in Older(n) : r \in trace[m].dst}) # 0
              PROVE  executed[Youngest({m \in Older(n) : r \in trace[m].dst})] = "completed"
  BY DEF OperandsAreReady
<1>. USE DEF RegisterPart, RegisterInv
<1>. DEFINE S == {m \in Older(n) : r \in trace[m].dst}
            w == Youngest(S)
<1>1. n \in Id /\ Older(n) \subseteq Rob /\ Rob \subseteq Id /\ Id = 1 .. Len(trace)
      /\ Len(trace) \in Nat
  BY RobFacts, TraceFacts DEF CoreTypes
<1>2. S \subseteq 1 .. Len(trace)
  BY <1>1
<1>3. w \in S /\ \A k \in S : k <= w
  <2>1. w # 0
    OBVIOUS
  <2>. HIDE DEF S
  <2>. QED BY <1>1, <1>2, <2>1, YoungestIs
<1>4. scheduled[n] # "no" /\ num_reg_dependent[n] = 0
  BY <1>1 DEF StartedIsReady, RegReady
<1>5. SUFFICES ASSUME executed[w] # "completed" PROVE FALSE
  OBVIOUS
<1>. HIDE DEF w
<1>6. <<n, r>> \in registers_instrs_depend_on_me[w]
  BY <1>3, <1>4, <1>5 DEF LastWriterKnown
<1>7. r \in Reg
  BY <1>1, InstructionFacts DEF CoreTypes
<1>8. r \in Waiting(n)
  BY <1>1, <1>3, <1>5, <1>6, <1>7 DEF Waiting
<1>9. IsFiniteSet(Waiting(n))
  BY CoreAssumption, FS_Subset DEF Waiting
<1>10. Cardinality(Waiting(n)) = 0
  BY <1>1, <1>4 DEF DependenceCounted
<1>. QED BY <1>8, <1>9, <1>10, Zero

\* For every trace: an instruction starts only when the last writers of its
\* sources are done, whatever else is in flight.
THEOREM OperandsTheorem == Spec => []OperandsAreReady
BY RegisterPartInvariant, RegisterPartGivesOperands, PTL

-----------------------------------------------------------------------------
(* Mispredicted branches.                                                  *)

\* Every step keeps the part about branches.
LEMMA NextBranchInv ==
  ASSUME CoreTypes, RegisterInv, BranchInv, [Next]_vars
  PROVE  BranchInv'
<1>. USE DEF BranchInv, NothingPastMispredict
<1>0. retired \in Nat /\ dispatched \in Nat /\ read \in Nat /\ retired <= dispatched /\ dispatched <= read
      /\ executed \in [Id -> Progress] /\ trace' = trace /\ trace \in Traces /\ read <= Len(trace)
      /\ Len(trace) \in Nat /\ Id = 1 .. Len(trace)
  BY TraceKept, TraceFacts DEF CoreTypes
<1>1. ASSUME NEW mispredicted \in BOOLEAN, ReadFromTrace(mispredicted) PROVE BranchInv'
  <2>1. /\ retired' = retired /\ executed' = executed /\ fetch_resume' = fetch_resume
        /\ read' = read + 1 /\ ~fetch_stall /\ fetch_stall' = mispredicted
        /\ branch_mispredicted' = branch_mispredicted \cup {m \in {read + 1} : mispredicted}
    BY <1>1 DEF ReadFromTrace, Predict
  <2>2. branch_mispredicted' \subseteq retired + 1 .. read + 1
    <3>1. \A b \in branch_mispredicted : b \in retired + 1 .. read + 1
      BY <1>0
    <3>2. read + 1 \in retired + 1 .. read + 1
      BY <1>0
    <3>. QED BY <2>1, <3>1, <3>2
  <2>3. \A b \in branch_mispredicted : executed[b] = "completed"
    BY <2>1
  <2>. QED BY <2>1, <2>2, <2>3
<1>2. CASE ResumeFetch
  <2>1. /\ retired' = retired /\ executed' = executed /\ read' = read /\ fetch_resume
        /\ ~fetch_stall' /\ ~fetch_resume' /\ fetch_stall' \in BOOLEAN /\ fetch_resume' \in BOOLEAN
        /\ branch_mispredicted' = branch_mispredicted
    BY <1>2 DEF ResumeFetch
  <2>. QED BY <2>1
<1>3. ASSUME NEW n \in Id, CompleteExecution(n) PROVE BranchInv'
  <2>1. /\ retired' = retired /\ read' = read /\ fetch_stall' = fetch_stall
        /\ branch_mispredicted' = branch_mispredicted
        /\ fetch_resume' = (fetch_resume \/ n \in branch_mispredicted)
        /\ executed[n] = "inflight" /\ executed'[n] = "completed"
        /\ \A k \in Id : k # n => executed'[k] = executed[k]
    BY <1>3, <1>0 DEF CompleteExecution, Resumes, frontEnd
  <2>2. ASSUME NEW b \in branch_mispredicted, executed'[b] # "completed"
        PROVE  read = b /\ fetch_stall /\ ~fetch_resume'
    <3>1. b \in Id /\ b # n
      BY <1>0, <2>1, <2>2
    <3>2. executed[b] # "completed"
      BY <2>1, <2>2, <3>1
    <3>3. n \notin branch_mispredicted
      BY <2>1, <3>1, <3>2
    <3>. QED BY <2>1, <3>2, <3>3
  <2>3. fetch_resume' => fetch_stall
    BY <2>1
  <2>4. fetch_resume' \in BOOLEAN
    BY <2>1
  <2>. QED BY <2>1, <2>2, <2>3, <2>4
<1>4. CASE RetireRob
  <2>1. /\ retired' = retired + 1 /\ read' = read /\ fetch_stall' = fetch_stall
        /\ branch_mispredicted' = branch_mispredicted \ {retired + 1} /\ fetch_resume' = fetch_resume
        /\ \A k \in Id : k # retired + 1 => executed'[k] = executed[k]
    BY <1>4, RetirementFacts DEF RetireRob, frontEnd
  <2>2. branch_mispredicted' \subseteq retired + 2 .. read
    BY <1>0, <2>1
  <2>3. \A b \in branch_mispredicted' : b \in Id /\ b # retired + 1
    BY <1>0, <2>1
  <2>. QED BY <2>1, <2>2, <2>3
\* Otherwise nothing happens to branches; what starts has not been executed.
<1>5. ASSUME ~(\E mispredicted \in BOOLEAN : ReadFromTrace(mispredicted)), ~ResumeFetch, ~RetireRob,
             ~(\E n \in Id : CompleteExecution(n))
      PROVE  BranchInv'
  <2>1. /\ retired' = retired /\ read' = read /\ fetch_stall' = fetch_stall
        /\ fetch_resume' = fetch_resume /\ branch_mispredicted' = branch_mispredicted
    BY <1>5 DEF Next, SendToDecode, DecodeAndDispatch, FetchLine, L1iAnswer, DoScheduling,
      ExecuteInstruction, DoExecution, ScheduleMemory, TranslateStore, TranslateLoad,
      ExecuteStore, ExecuteLoad, DtlbAnswer, L1dAnswer, L1dWrite, vars, control, frontEnd
  <2>2. \A k \in Id : executed[k] = "completed" => executed'[k] = "completed"
    <3>1. CASE ExecuteInstruction
      <4>1. PICK n \in Id : executed[n] = "no" /\ DoExecution(n)
        BY <3>1, ExecutionFacts
      <4>. QED BY <1>0, <4>1 DEF DoExecution
    <3>2. ASSUME NEW n \in Id, ScheduleMemory(n) PROVE \A k \in Id : executed[k] = "completed" => executed'[k] = "completed"
      BY <3>2, MemorySchedulingFacts
    <3>3. CASE ~ExecuteInstruction /\ ~(\E n \in Id : ScheduleMemory(n))
      <4>1. executed' = executed
        BY <1>5, <3>3 DEF Next, SendToDecode, DecodeAndDispatch, FetchLine, L1iAnswer, DoScheduling,
          TranslateStore, TranslateLoad, ExecuteStore, ExecuteLoad, DtlbAnswer, L1dAnswer,
          L1dWrite, vars
      <4>. QED BY <4>1
    <3>. QED BY <3>1, <3>2, <3>3
  <2>3. \A b \in branch_mispredicted : b \in Id
    BY <1>0
  <2>. QED BY <2>1, <2>2, <2>3
<1>. QED BY <1>1, <1>2, <1>3, <1>4, <1>5

\* It holds at the start.
LEMMA InitBranchInv == Init => BranchInv
BY DEF Init, BranchInv, NothingPastMispredict

\* For every trace: nothing is read past a mispredicted branch before it has
\* been executed, and no other instruction ends the stall.
THEOREM MispredictTheorem == Spec => []NothingPastMispredict
<1>1. RegisterPart /\ BranchInv /\ [Next]_vars => BranchInv'
  BY NextBranchInv DEF RegisterPart
<1>2. BranchInv => NothingPastMispredict
  BY DEF BranchInv
<1>. QED BY <1>1, <1>2, InitBranchInv, RegisterPartInvariant, PTL DEF Spec

-----------------------------------------------------------------------------
(* The store queue.                                                        *)

\* Operations are pairs of an instruction and an index.
LEMMA OpFacts ==
  /\ \A x \in StoreOps : x[1] \in Id /\ x[2] \in Stores(x[1]) /\ x = <<x[1], x[2]>>
  /\ \A n \in Id : \A i \in Stores(n) : <<n, i>> \in StoreOps
  /\ \A x \in LoadOps : x[1] \in Id /\ x[2] \in Loads(x[1]) /\ x = <<x[1], x[2]>>
  /\ \A n \in Id : \A i \in Loads(n) : <<n, i>> \in LoadOps
BY DEF StoreOps, LoadOps

SqEntry == [op : StoreOps, executed : BOOLEAN]

\* What an entry of the store queue is.
LEMMA SqFacts ==
  ASSUME InStoreQueue
  PROVE  /\ sq \in Seq(SqEntry) /\ Len(sq) \in Nat /\ DOMAIN sq = 1 .. Len(sq)
         /\ \A k \in DOMAIN sq : /\ sq[k] \in SqEntry /\ sq[k].op \in StoreOps /\ sq[k].executed \in BOOLEAN
                                 /\ sq[k].op[1] \in Id /\ sq[k].op[2] \in Stores(sq[k].op[1])
                                 /\ sq[k].op = <<sq[k].op[1], sq[k].op[2]>>
                                 /\ <<"store", sq[k].op[2]>> \in added[sq[k].op[1]]
                                 /\ k \in Int
<1>1. sq \in Seq(SqEntry)
  BY DEF InStoreQueue, SqEntry
<1>2. Len(sq) \in Nat /\ DOMAIN sq = 1 .. Len(sq) /\ \A k \in 1 .. Len(sq) : sq[k] \in SqEntry
  BY <1>1, Seqs
<1>3. \A k \in DOMAIN sq : sq[k].op \in StoreOps /\ sq[k].executed \in BOOLEAN
  BY <1>2 DEF SqEntry
<1>4. ASSUME NEW k \in DOMAIN sq PROVE <<"store", sq[k].op[2]>> \in added[sq[k].op[1]]
  BY <1>3 DEF InStoreQueue
<1>5. ASSUME NEW k \in DOMAIN sq
      PROVE  /\ sq[k].op[1] \in Id /\ sq[k].op[2] \in Stores(sq[k].op[1])
             /\ sq[k].op = <<sq[k].op[1], sq[k].op[2]>> /\ k \in Int
  BY <1>2, <1>3, OpFacts
<1>. QED BY <1>1, <1>2, <1>3, <1>4, <1>5

\* Instruction n has one entry for each of its stores that has been added.
AddedStores(n) == {i \in Stores(n) : <<"store", i>> \in added[n]}
EntriesOf(n) == {k \in DOMAIN sq : sq[k].op[1] = n}

\* An instruction has an entry for each store that was added.
LEMMA EntriesCounted ==
  ASSUME trace \in Traces, InStoreQueue, NEW n \in Id
  PROVE  /\ IsFiniteSet(EntriesOf(n)) /\ Cardinality(EntriesOf(n)) \in Nat
         /\ Cardinality(EntriesOf(n)) = Cardinality(AddedStores(n))
         /\ IsFiniteSet(AddedStores(n)) /\ IsFiniteSet(StillToAdd(n))
         /\ Cardinality(StillToAdd(n)) \in Nat
         /\ Cardinality(Stores(n)) = Cardinality(AddedStores(n)) + Cardinality(StillToAdd(n))
<1>. DEFINE f == [k \in EntriesOf(n) |-> sq[k].op[2]]
<1>1. IsFiniteSet(DOMAIN sq) /\ EntriesOf(n) \in SUBSET DOMAIN sq
  BY SqFacts, Seqs DEF EntriesOf
<1>2. IsFiniteSet(EntriesOf(n)) /\ Cardinality(EntriesOf(n)) \in Nat
  BY <1>1, FS_Subset, FS_CardinalityType
<1>3. f \in [EntriesOf(n) -> AddedStores(n)]
  <2>1. \A k \in EntriesOf(n) : sq[k].op[2] \in AddedStores(n)
    BY SqFacts DEF EntriesOf, AddedStores
  <2>. QED BY <2>1
<1>4. ASSUME NEW j \in EntriesOf(n), NEW k \in EntriesOf(n), f[j] = f[k] PROVE j = k
  <2>1. sq[j].op = sq[k].op
    BY <1>4, SqFacts DEF EntriesOf
  <2>. QED BY <2>1 DEF InStoreQueue, EntriesOf
<1>5. ASSUME NEW i \in AddedStores(n) PROVE \E k \in EntriesOf(n) : f[k] = i
  <2>1. <<n, i>> \in StoreOps
    BY OpFacts DEF AddedStores
  <2>2. PICK k \in DOMAIN sq : sq[k].op = <<n, i>>
    BY <2>1 DEF InStoreQueue, AddedStores
  <2>3. k \in EntriesOf(n) /\ f[k] = i
    BY <2>2 DEF EntriesOf
  <2>. QED BY <2>3
<1>. HIDE DEF f
<1>6. Cardinality(EntriesOf(n)) = Cardinality(AddedStores(n))
  BY <1>2, <1>3, <1>4, <1>5, SameSize
<1>7. /\ Stores(n) = AddedStores(n) \cup StillToAdd(n) /\ AddedStores(n) \cap StillToAdd(n) = {}
      /\ IsFiniteSet(Stores(n))
  BY InstructionFacts DEF AddedStores, StillToAdd
<1>8. /\ IsFiniteSet(AddedStores(n)) /\ IsFiniteSet(StillToAdd(n))
      /\ Cardinality(StillToAdd(n)) \in Nat
      /\ Cardinality(AddedStores(n) \cup StillToAdd(n)) = Cardinality(AddedStores(n)) + Cardinality(StillToAdd(n))
  BY <1>7, CutInTwo
<1>. QED BY <1>2, <1>6, <1>7, <1>8

\* check_and_add_lsq goes through what is to be added in order, as long as
\* what it keeps leaves room: it keeps no more than that.
LEMMA TakeInOrder ==
  ASSUME NEW keeps, keeps \subseteq Int, IsFiniteSet(keeps), NEW room \in Int, NEW taken,
         taken \subseteq keeps, taken # {},
         \A i \in taken : Cardinality({j \in keeps : j < i}) < room
  PROVE  IsFiniteSet(taken) /\ Cardinality(taken) \in Nat /\ Cardinality(taken) <= room
<1>1. IsFiniteSet(taken)
  BY FS_Subset
<1>2. taken \subseteq Int
  OBVIOUS
<1>3. PICK m \in taken : \A i \in taken : i <= m
  BY <1>1, <1>2, GreatestOfFinite
<1>. DEFINE before == {j \in keeps : j < m}
<1>4. IsFiniteSet(before) /\ m \notin before
  BY <1>2, FS_Subset
<1>5. taken \subseteq before \cup {m}
  <2>1. ASSUME NEW i \in taken, i # m PROVE i \in before
    <3>1. i \in Int /\ m \in Int /\ i <= m
      BY <1>2, <1>3
    <3>. QED BY <2>1, <3>1
  <2>. QED BY <2>1
<1>6. Cardinality(before) < room
  OBVIOUS
<1>. HIDE DEF before
<1>7. /\ IsFiniteSet(before \cup {m}) /\ Cardinality(before \cup {m}) = Cardinality(before) + 1
      /\ Cardinality(before) \in Nat
  BY <1>4, FS_AddElement, FS_CardinalityType
<1>8. Cardinality(taken) <= Cardinality(before \cup {m}) /\ Cardinality(taken) \in Nat
  BY <1>1, <1>5, <1>7, FS_Subset, FS_CardinalityType
<1>. QED BY <1>1, <1>6, <1>7, <1>8

\* The operations of one instruction enter a queue in the order of their index.
LEMMA Sequence ==
  ASSUME NEW n, NEW I, I \subseteq Int, IsFiniteSet(I)
  PROVE  /\ Cardinality(I) \in Nat
         /\ InSequence(n, I) \in Seq({n} \X I) /\ Len(InSequence(n, I)) = Cardinality(I)
         /\ \A x : Count(x, InSequence(n, I)) = IF x \in {n} \X I THEN 1 ELSE 0
         /\ \A x \in {n} \X I : \E k \in 1 .. Cardinality(I) : InSequence(n, I)[k] = x
         /\ \A j, k \in 1 .. Cardinality(I) : InSequence(n, I)[j] = InSequence(n, I)[k] => j = k
<1>. DEFINE key == [i \in I |-> i]
            s == Sorted(I, key)
            t == InSequence(n, I)
            S == {n} \X I
            c == Cardinality(I)
<1>1. Lists(s, I)
  <2>1. (\A x \in I : key[x] \in Int) /\ (\A x, y \in I : key[x] = key[y] => x = y)
    OBVIOUS
  <2>. HIDE DEF key
  <2>2. Lists(Sorted(I, key), I)
    BY <2>1, SortedLists
  <2>. QED BY <2>2
<1>2. t = [k \in 1 .. c |-> <<n, s[k]>>]
  BY DEF InSequence
<1>. HIDE DEF s, t
<1>3. c \in Nat
  BY FS_CardinalityType
<1>4. /\ s \in [1 .. c -> I] /\ \A x \in I : \E k \in 1 .. c : s[k] = x
      /\ \A j, k \in 1 .. c : s[j] = s[k] => j = k
  BY <1>1 DEF Lists
<1>. HIDE DEF c
<1>5. /\ t \in [1 .. c -> S] /\ \A x \in S : \E k \in 1 .. c : t[k] = x
      /\ \A j, k \in 1 .. c : t[j] = t[k] => j = k
  <2>1. \A k \in 1 .. c : t[k] = <<n, s[k]>> /\ s[k] \in I
    BY <1>2, <1>4
  <2>2. t \in [1 .. c -> S]
    BY <1>2, <1>4
  <2>3. ASSUME NEW x \in S PROVE \E k \in 1 .. c : t[k] = x
    <3>1. x = <<n, x[2]>> /\ x[2] \in I
      OBVIOUS
    <3>2. PICK k \in 1 .. c : s[k] = x[2]
      BY <1>4, <3>1
    <3>3. t[k] = <<n, x[2]>>
      BY <2>1, <3>2
    <3>. QED BY <3>1, <3>2, <3>3
  <2>4. \A j, k \in 1 .. c : t[j] = t[k] => j = k
    BY <1>4, <2>1
  <2>. QED BY <2>2, <2>3, <2>4
<1>6. IsFiniteSet(S) /\ Cardinality(S) = c
  <2>1. IsFiniteSet(1 .. c) /\ Cardinality(1 .. c) = c
    BY <1>3, FS_Interval
  <2>. HIDE DEF S
  <2>. QED BY <1>5, <2>1, SameSize
<1>7. Lists(t, S)
  BY <1>5, <1>6 DEF Lists
<1>. HIDE DEF S
<1>8. t \in Seq(S) /\ Len(t) = c /\ \A x : Count(x, t) = IF x \in S THEN 1 ELSE 0
  BY <1>6, <1>7, CountListing
<1>. QED BY <1>3, <1>5, <1>8 DEF c, S, t

\* The part about stores holds at the start.
LEMMA InitStoreQueueInv == Init => StoreQueueInv
<1>. SUFFICES ASSUME Init PROVE StoreQueueInv
  OBVIOUS
<1>0. CoreTypes /\ retired = 0 /\ dispatched = 0
  BY InitCoreTypes DEF Init
<1>1. Rob = {}
  BY <1>0, RobFacts DEF CoreTypes
<1>2. AddedIsOwn
  BY DEF Init, AddedIsOwn
<1>3. AddedIsScheduled
  BY <1>1 DEF AddedIsScheduled
<1>4. sq = <<>> /\ STA = <<>> /\ DOMAIN sq = {} /\ DOMAIN STA = {} /\ Len(sq) = 0
  BY DEF Init
<1>5. InStoreQueue
  <2>1. \A x \in StoreOps : added[x[1]] = {}
    BY OpFacts DEF Init
  <2>. QED BY <1>4, <2>1 DEF InStoreQueue
<1>6. ProgramOrdered
  BY <1>4 DEF ProgramOrdered
<1>7. StaCounts
  <2>1. \A n : Count(n, STA) = 0
    BY <1>4, FS_EmptySet DEF Count
  <2>2. \A n : n \notin retired + 1 .. read
    BY DEF Init
  <2>. QED BY <2>1, <2>2 DEF StaCounts
<1>8. Len(sq) <= SQ_SIZE
  BY <1>4, CoreAssumption
<1>. QED BY <1>2, <1>3, <1>5, <1>6, <1>7, <1>8 DEF StoreQueueInv

\* It depends on the queue, STA, added and the bounds of the ROB only.
LEMMA QueueFrame ==
  ASSUME StoreQueueInv, UNCHANGED <<trace, read, retired, added, sq, STA>>, AddedIsScheduled'
  PROVE  StoreQueueInv'
<1>1. /\ trace' = trace /\ read' = read /\ retired' = retired /\ added' = added /\ sq' = sq
      /\ STA' = STA
  OBVIOUS
<1>2. Id' = Id /\ (\A n : Loads(n)' = Loads(n) /\ Stores(n)' = Stores(n)) /\ StoreOps' = StoreOps
  BY <1>1, SameTrace DEF StoreOps, Id
<1>3. \A n : Ops(n)' = Ops(n) /\ StillToAdd(n)' = StillToAdd(n)
  BY <1>1, <1>2 DEF Ops, StillToAdd
<1>4. AddedIsOwn'
  BY <1>1, <1>2, <1>3 DEF AddedIsOwn, StoreQueueInv
<1>5. InStoreQueue'
  BY <1>1, <1>2 DEF InStoreQueue, StoreQueueInv
<1>6. ProgramOrdered'
  BY <1>1, <1>2 DEF ProgramOrdered, StoreQueueInv
<1>7. StaCounts'
  BY <1>1, <1>2, <1>3 DEF StaCounts, StoreQueueInv, Count
<1>8. (Len(sq) <= SQ_SIZE)'
  BY <1>1 DEF StoreQueueInv
<1>. QED BY <1>4, <1>5, <1>6, <1>7, <1>8 DEF StoreQueueInv

\* What the queues hold belongs to the ROB, and what STA holds has not retired.
LEMMA QueueFacts ==
  ASSUME CoreTypes, RegisterInv, StoreQueueInv
  PROVE  /\ STA \in Seq(Id) /\ Len(STA) \in Nat /\ DOMAIN STA = 1 .. Len(STA)
         /\ \A k \in DOMAIN STA : STA[k] \in Id /\ STA[k] \in retired + 1 .. read
         /\ \A k \in DOMAIN sq : sq[k].op[1] \in Rob
         /\ \A n \in Id \ Rob : added[n] = {}
<1>1. STA \in Seq(Id) /\ Len(STA) \in Nat /\ DOMAIN STA = 1 .. Len(STA)
      /\ \A k \in 1 .. Len(STA) : STA[k] \in Id
  BY Seqs DEF StoreQueueInv, ProgramOrdered
<1>2. ASSUME NEW k \in DOMAIN STA PROVE STA[k] \in retired + 1 .. read
  <2>1. STA[k] \in Id
    BY <1>1
  <2>2. Count(STA[k], STA) # 0
    BY <1>1, CountType
  <2>. QED BY <2>1, <2>2 DEF StoreQueueInv, StaCounts
<1>3. ASSUME NEW n \in Id, added[n] # {} PROVE n \in Rob
  BY <1>3 DEF RegisterInv, StartedIsReady
<1>4. ASSUME NEW k \in DOMAIN sq PROVE sq[k].op[1] \in Rob
  <2>1. sq[k].op[1] \in Id /\ <<"store", sq[k].op[2]>> \in added[sq[k].op[1]]
    BY SqFacts DEF StoreQueueInv
  <2>. QED BY <1>3, <2>1
<1>. QED BY <1>1, <1>2, <1>3, <1>4

\* All of an instruction is added when it is scheduled.
LEMMA NextAddedIsScheduled ==
  ASSUME CoreTypes, RegisterInv, StoreQueueInv, [Next]_vars
  PROVE  AddedIsScheduled'
<1>0. trace' = trace /\ Id' = Id /\ Rob \subseteq Id
      /\ \A n : (IsMemory(n)' <=> IsMemory(n)) /\ Ops(n)' = Ops(n)
  BY TraceKept, SameTrace, RobFacts DEF Ops
<1>memory. \A n \in Rob : IsMemory(n) => (scheduled[n] = "completed" <=> added[n] = Ops(n))
  BY DEF StoreQueueInv, AddedIsScheduled
<1>1. CASE DecodeAndDispatch
  <2>1. /\ dispatched' = dispatched + 1 /\ retired' = retired /\ scheduled' = scheduled /\ added' = added
        /\ dispatched < sent
    BY <1>1 DEF DecodeAndDispatch, lsq
  <2>2. retired \in Nat /\ dispatched \in Nat /\ retired <= dispatched /\ sent \in Nat /\ read \in Nat
        /\ sent <= read /\ read <= Len(trace) /\ Id = 1 .. Len(trace) /\ Len(trace) \in Nat
    BY TraceFacts DEF CoreTypes
  <2>3. Rob' = Rob \cup {dispatched + 1} /\ dispatched + 1 \in Id \ Rob
    BY <2>1, <2>2 DEF Rob
  <2>4. scheduled[dispatched + 1] = "no" /\ added[dispatched + 1] = {}
    BY <2>3, QueueFacts DEF RegisterInv, OutsideIsClear
  <2>5. \A n : IsMemory(n) => Ops(n) # {}
    <3>1. \A n : \A i \in Loads(n) : <<"load", i>> \in Ops(n)
      BY DEF Ops
    <3>2. \A n : \A i \in Stores(n) : <<"store", i>> \in Ops(n)
      BY DEF Ops
    <3>. QED BY <3>1, <3>2 DEF IsMemory
  <2>6. ASSUME NEW n \in Rob', IsMemory(n) PROVE scheduled[n] = "completed" <=> added[n] = Ops(n)
    <3>1. CASE n \in Rob
      BY <1>memory, <2>6, <3>1
    <3>2. CASE n = dispatched + 1
      BY <2>4, <2>5, <2>6, <3>2
    <3>. QED BY <2>3, <3>1, <3>2
  <2>. QED BY <1>0, <2>1, <2>6 DEF AddedIsScheduled
<1>2. ASSUME NEW n \in Id, DoScheduling(n) PROVE AddedIsScheduled'
  <2>1. /\ dispatched' = dispatched /\ retired' = retired /\ added' = added
        /\ n \in Rob /\ scheduled[n] = "no"
        /\ scheduled' = [scheduled EXCEPT ![n] = IF IsMemory(n) THEN "inflight" ELSE "completed"]
    BY <1>2 DEF DoScheduling, control, lsq
  <2>2. \A d \in Id : /\ d # n => scheduled'[d] = scheduled[d]
                      /\ d = n /\ IsMemory(n) => scheduled'[d] = "inflight"
    BY <2>1 DEF CoreTypes
  <2>3. Rob' = Rob
    BY <2>1 DEF Rob
  <2>4. \A d \in Rob : IsMemory(d) => (scheduled'[d] = "completed" <=> scheduled[d] = "completed")
    BY <1>0, <2>1, <2>2
  <2>. QED BY <1>0, <1>memory, <2>1, <2>3, <2>4 DEF AddedIsScheduled
<1>3. ASSUME NEW n \in Id, CompleteExecution(n) PROVE AddedIsScheduled'
  <2>1. /\ dispatched' = dispatched /\ retired' = retired /\ added' = added
        /\ \A d \in Id : scheduled'[d] = IF d \notin Ready(n) THEN scheduled[d]
                                         ELSE IF IsMemory(d) THEN "inflight" ELSE "completed"
        /\ \A d \in Ready(n) : d \in Rob /\ executed[d] = "no"
    BY <1>3, CompletionFacts
  <2>2. Rob' = Rob
    BY <2>1 DEF Rob
  <2>3. \A d \in Ready(n) : IsMemory(d) => scheduled[d] # "completed"
    BY <2>1 DEF RegisterInv, MemoryStarts
  <2>4. \A d \in Rob : IsMemory(d) => (scheduled'[d] = "completed" <=> scheduled[d] = "completed")
    BY <1>0, <2>1, <2>3
  <2>. QED BY <1>0, <1>memory, <2>1, <2>2, <2>4 DEF AddedIsScheduled
<1>4. ASSUME NEW n \in Id, ScheduleMemory(n) PROVE AddedIsScheduled'
  <2>1. /\ n \in Rob /\ \A k \in Id : k # n => scheduled'[k] = scheduled[k] /\ added'[k] = added[k]
        /\ scheduled'[n] = "completed" <=> added'[n] = Ops(n)
    BY <1>4, MemorySchedulingFacts
  <2>2. dispatched' = dispatched /\ retired' = retired
    BY <1>4 DEF ScheduleMemory, control
  <2>3. Rob' = Rob
    BY <2>2 DEF Rob
  <2>. QED BY <1>0, <1>memory, <2>1, <2>3 DEF AddedIsScheduled
<1>5. CASE RetireRob
  <2>1. /\ Rob' = Rob \ {retired + 1}
        /\ \A k \in Id : k # retired + 1 => scheduled'[k] = scheduled[k] /\ added'[k] = added[k]
    BY <1>5, RetirementFacts
  <2>. QED BY <1>0, <1>memory, <2>1 DEF AddedIsScheduled
<1>6. ASSUME ~DecodeAndDispatch, ~RetireRob,
             ~ \E n \in Id : DoScheduling(n) \/ CompleteExecution(n) \/ ScheduleMemory(n)
      PROVE  AddedIsScheduled'
  <2>1. /\ dispatched' = dispatched /\ retired' = retired /\ scheduled' = scheduled /\ added' = added
    BY <1>6 DEF Next, ReadFromTrace, ResumeFetch, FetchLine, SendToDecode, L1iAnswer,
       ExecuteInstruction, DoExecution,
       TranslateStore, TranslateLoad, ExecuteStore, ExecuteLoad, DtlbAnswer, L1dAnswer,
       L1dWrite, vars, control, lsq
  <2>2. Rob' = Rob
    BY <2>1 DEF Rob
  <2>. QED BY <1>0, <1>memory, <2>1, <2>2 DEF AddedIsScheduled
<1>. QED BY <1>1, <1>2, <1>3, <1>4, <1>5, <1>6

\* A new instruction puts its stores at the end of STA.
LEMMA ReadingKeepsQueue ==
  ASSUME CoreTypes, RegisterInv, StoreQueueInv, NEW mispredicted \in BOOLEAN,
         ReadFromTrace(mispredicted), AddedIsScheduled'
  PROVE  StoreQueueInv'
<1>. USE DEF StoreQueueInv
<1>. DEFINE new == read + 1
            t == [i \in Stores(new) |-> new]
<1>1. /\ trace' = trace /\ read' = new /\ retired' = retired /\ added' = added /\ sq' = sq
      /\ STA' = STA \o t /\ read < Len(trace)
  BY DEF ReadFromTrace
<1>2. Id' = Id /\ (\A n : Loads(n)' = Loads(n) /\ Stores(n)' = Stores(n)) /\ StoreOps' = StoreOps
  BY <1>1, SameTrace DEF StoreOps, Id
<1>3. \A n : Ops(n)' = Ops(n) /\ StillToAdd(n)' = StillToAdd(n)
  BY <1>1, <1>2 DEF Ops, StillToAdd
<1>4. AddedIsOwn'
  BY <1>1, <1>2, <1>3 DEF AddedIsOwn
<1>5. InStoreQueue'
  BY <1>1, <1>2 DEF InStoreQueue
<1>6. /\ retired \in Nat /\ read \in Nat /\ retired <= read /\ dispatched <= read /\ dispatched \in Nat
      /\ new \in Id /\ new \in Nat /\ new \notin Rob /\ new \notin retired + 1 .. read
      /\ \A n \in Id : n \in Int
  <2>1. retired \in Nat /\ read \in Nat /\ retired <= read /\ dispatched <= read /\ dispatched \in Nat
    BY DEF CoreTypes
  <2>2. new \in Id /\ \A n \in Id : n \in Int
    BY <1>1, <2>1, TraceFacts DEF CoreTypes
  <2>3. new \notin Rob
    BY <2>1, RobFacts
  <2>4. new \notin retired + 1 .. read
    BY <2>1
  <2>. QED BY <2>1, <2>2, <2>3, <2>4
<1>7. added[new] = {}
  BY <1>6, QueueFacts
<1>8. \A n \in retired + 1 .. new : n \in retired + 1 .. read \/ n = new
  BY <1>6
<1>9. \A n \in retired + 1 .. read : n \in retired + 1 .. new
  BY <1>6
<1>10. new \in retired + 1 .. new
  BY <1>6
<1>11. Stores(new) = 1 .. Len(trace[new].store) /\ Len(trace[new].store) \in Nat
       /\ IsFiniteSet(Stores(new)) /\ Cardinality(Stores(new)) \in Nat
  BY <1>6, InstructionFacts DEF CoreTypes
<1>12. t \in Seq(Id) /\ \A k \in DOMAIN t : t[k] = new
  <2>. HIDE DEF new
  <2>. QED BY <1>6, <1>11
<1>13. \A n : Count(n, t) = IF n = new THEN Cardinality(Stores(new)) ELSE 0
  <2>. HIDE DEF new
  <2>1. ASSUME NEW n PROVE {k \in DOMAIN t : t[k] = n} = IF n = new THEN Stores(new) ELSE {}
    OBVIOUS
  <2>. HIDE DEF t
  <2>. QED BY <2>1, FS_EmptySet DEF Count
<1>. HIDE DEF new, t
<1>14. STA \in Seq(Id)
  BY DEF ProgramOrdered
<1>15. \A n : Count(n, STA \o t) = Count(n, STA) + Count(n, t)
  BY <1>12, <1>14, CountConcat
<1>16. StaCounts'
  <2>1. StillToAdd(new) = Stores(new)
    BY <1>7 DEF StillToAdd
  <2>2. ASSUME NEW n \in Id
        PROVE  Count(n, STA \o t) = IF n \in retired + 1 .. new THEN Cardinality(StillToAdd(n)) ELSE 0
    <3>1. Count(n, STA) = IF n \in retired + 1 .. read THEN Cardinality(StillToAdd(n)) ELSE 0
      BY DEF StaCounts
    <3>2. Count(n, STA) \in Nat
      BY <1>14, CountType
    <3>3. CASE n = new
      BY <1>6, <1>10, <1>11, <1>13, <1>15, <2>1, <3>1, <3>3
    <3>4. CASE n # new
      BY <1>8, <1>9, <1>13, <1>15, <3>1, <3>2, <3>4
    <3>. QED BY <3>3, <3>4
  <2>3. \A n : Count(n, STA)' = Count(n, STA \o t)
    BY <1>1 DEF Count
  <2>. QED BY <1>1, <1>2, <1>3, <2>2, <2>3 DEF StaCounts
<1>17. ProgramOrdered'
  <2>. DEFINE u == STA \o t
  <2>1. /\ u \in Seq(Id) /\ DOMAIN u = 1 .. Len(STA) + Len(t) /\ Len(STA) \in Nat /\ Len(t) \in Nat
        /\ \A k \in 1 .. Len(STA) : u[k] = STA[k] /\ k \in DOMAIN STA
        /\ \A k \in 1 .. Len(t) : u[Len(STA) + k] = t[k] /\ k \in DOMAIN t
    BY <1>12, <1>14
  <2>. HIDE DEF u
  <2>2. \A k \in DOMAIN u : k \in Int /\ (k \in 1 .. Len(STA) \/ k - Len(STA) \in 1 .. Len(t))
    BY <2>1
  <2>3. ASSUME NEW k \in DOMAIN u, k \notin 1 .. Len(STA) PROVE u[k] = new
    <3>1. k - Len(STA) \in 1 .. Len(t) /\ Len(STA) + (k - Len(STA)) = k
      BY <2>1, <2>2, <2>3
    <3>. QED BY <1>12, <2>1, <3>1
  <2>4. \A k \in DOMAIN STA : STA[k] \in Int /\ STA[k] <= new
    <3>1. \A k \in DOMAIN STA : STA[k] \in retired + 1 .. read
      BY QueueFacts
    <3>. QED BY <1>6, <3>1 DEF new
  <2>5. \A k \in DOMAIN sq : sq[k].op[1] \in Int /\ sq[k].op[1] <= new
    <3>1. \A k \in DOMAIN sq : sq[k].op[1] \in Rob
      BY QueueFacts
    <3>2. \A m \in Rob : m \in Int /\ m <= dispatched
      BY RobFacts
    <3>. QED BY <1>6, <3>1, <3>2 DEF new
  <2>6. ASSUME NEW j \in DOMAIN u, NEW k \in DOMAIN u, j <= k PROVE u[j] <= u[k]
    <3>1. CASE k \in 1 .. Len(STA)
      <4>1. j \in 1 .. Len(STA)
        BY <2>1, <2>2, <2>6, <3>1
      <4>. QED BY <2>1, <2>6, <3>1, <4>1 DEF ProgramOrdered
    <3>2. CASE k \notin 1 .. Len(STA)
      <4>1. u[k] = new
        BY <2>3, <3>2
      <4>2. CASE j \in 1 .. Len(STA)
        BY <2>1, <2>4, <4>1, <4>2
      <4>3. CASE j \notin 1 .. Len(STA)
        BY <1>6, <2>3, <4>1, <4>3
      <4>. QED BY <4>2, <4>3
    <3>. QED BY <3>1, <3>2
  <2>7. ASSUME NEW j \in DOMAIN sq, NEW k \in DOMAIN u PROVE sq[j].op[1] <= u[k]
    <3>1. CASE k \in 1 .. Len(STA)
      BY <2>1, <3>1 DEF ProgramOrdered
    <3>2. CASE k \notin 1 .. Len(STA)
      BY <2>3, <2>5, <3>2
    <3>. QED BY <3>1, <3>2
  <2>. QED BY <1>1, <1>2, <2>1, <2>6, <2>7 DEF ProgramOrdered, u
<1>. QED BY <1>1, <1>4, <1>5, <1>16, <1>17

\* execute_store marks one entry and moves none.
LEMMA ExecutedEntries ==
  ASSUME InStoreQueue, ExecuteStore
  PROVE  /\ sq' \in Seq(SqEntry) /\ Len(sq') = Len(sq) /\ DOMAIN sq' = DOMAIN sq
         /\ \A k \in DOMAIN sq : /\ sq'[k].op = sq[k].op
                                 /\ sq'[k].executed <=> sq[k].executed \/ sq[k].op = Head(RTS1)
<1>1. sq \in Seq(SqEntry) /\ Len(sq) \in Nat /\ DOMAIN sq = 1 .. Len(sq)
      /\ \A k \in DOMAIN sq : sq[k] \in SqEntry
  BY SqFacts
<1>2. sq' = [k \in 1 .. Len(sq) |-> IF sq[k].op = Head(RTS1) THEN [sq[k] EXCEPT !.executed = TRUE]
                                    ELSE sq[k]]
  BY <1>1 DEF ExecuteStore
<1>3. \A k \in 1 .. Len(sq) : /\ sq'[k] \in SqEntry /\ sq'[k].op = sq[k].op
                              /\ sq'[k].executed <=> sq[k].executed \/ sq[k].op = Head(RTS1)
  BY <1>1, <1>2 DEF SqEntry
<1>4. sq' \in [1 .. Len(sq) -> SqEntry]
  BY <1>2, <1>3
<1>5. sq' \in Seq(SqEntry) /\ Len(sq') = Len(sq)
  BY <1>1, <1>4
<1>. QED BY <1>1, <1>3, <1>4, <1>5

\* execute_store marks an entry and moves none,
LEMMA ExecutingKeepsQueue ==
  ASSUME CoreTypes, StoreQueueInv, ExecuteStore, AddedIsScheduled'
  PROVE  StoreQueueInv'
<1>. USE DEF StoreQueueInv
<1>1. /\ trace' = trace /\ read' = read /\ retired' = retired /\ added' = added /\ STA' = STA
  BY DEF ExecuteStore, control, frontEnd
<1>2. Id' = Id /\ (\A n : Loads(n)' = Loads(n) /\ Stores(n)' = Stores(n)) /\ StoreOps' = StoreOps
  BY <1>1, SameTrace DEF StoreOps, Id
<1>3. \A n : Ops(n)' = Ops(n) /\ StillToAdd(n)' = StillToAdd(n)
  BY <1>1, <1>2 DEF Ops, StillToAdd
<1>4. /\ sq' \in Seq(SqEntry) /\ Len(sq') = Len(sq) /\ DOMAIN sq' = DOMAIN sq
      /\ \A k \in DOMAIN sq : sq'[k].op = sq[k].op
  BY ExecutedEntries
<1>5. AddedIsOwn'
  BY <1>1, <1>2, <1>3 DEF AddedIsOwn
<1>6. InStoreQueue'
  <2>1. \A j, k \in DOMAIN sq' : sq'[j].op = sq'[k].op => j = k
    BY <1>4 DEF InStoreQueue
  <2>2. ASSUME NEW x \in StoreOps
        PROVE  <<"store", x[2]>> \in added[x[1]] <=> \E k \in DOMAIN sq' : sq'[k].op = x
    BY <1>4 DEF InStoreQueue
  <2>. QED BY <1>1, <1>2, <1>4, <2>1, <2>2 DEF InStoreQueue, SqEntry
<1>7. ProgramOrdered'
  BY <1>1, <1>2, <1>4 DEF ProgramOrdered
<1>8. StaCounts'
  BY <1>1, <1>2, <1>3 DEF StaCounts, Count
<1>. QED BY <1>4, <1>5, <1>6, <1>7, <1>8

\* What check_and_add_lsq takes of the stores of n are entries at the head of STA.
LEMMA TakenStores ==
  ASSUME CoreTypes, RegisterInv, StoreQueueInv, NEW n \in Rob
  PROVE  /\ StoresTaken(n) \subseteq StillToAdd(n) /\ IsFiniteSet(StoresTaken(n))
         /\ StoresTaken(n) \subseteq Int /\ StoresTaken(n) \subseteq Stores(n)
         /\ Cardinality(StoresTaken(n)) \in 0 .. Len(STA)
         /\ Len(sq) + Cardinality(StoresTaken(n)) <= SQ_SIZE
         /\ \A k \in 1 .. Cardinality(StoresTaken(n)) : k \in DOMAIN STA /\ STA[k] = n
<1>. USE DEF StoreQueueInv
<1>. DEFINE T == StoresTaken(n)
            P == {k \in DOMAIN STA : STA[k] = n}
<1>1. n \in Id /\ n \in Int /\ n \in retired + 1 .. read
  <2>1. n \in Id /\ n \in Int /\ retired < n /\ n <= dispatched
    BY RobFacts
  <2>2. retired \in Nat /\ dispatched \in Nat /\ sent \in Nat /\ read \in Nat /\ dispatched <= sent
        /\ sent <= read
    BY DEF CoreTypes
  <2>. QED BY <2>1, <2>2
<1>2. T \subseteq StillToAdd(n)
  BY DEF StoresTaken, StillToAdd
<1>3. IsFiniteSet(StillToAdd(n)) /\ Cardinality(StillToAdd(n)) \in Nat
  BY <1>1, EntriesCounted DEF CoreTypes
<1>4. StillToAdd(n) \subseteq Int /\ StillToAdd(n) \subseteq Stores(n)
  <2>1. Stores(n) \subseteq Int
    BY <1>1, InstructionFacts DEF CoreTypes
  <2>. QED BY <2>1 DEF StillToAdd
<1>5. IsFiniteSet(T) /\ Cardinality(T) \in Nat /\ Cardinality(T) <= Cardinality(StillToAdd(n))
  BY <1>2, <1>3, FS_Subset, FS_CardinalityType
<1>6. STA \in Seq(Id) /\ Len(STA) \in Nat /\ DOMAIN STA = 1 .. Len(STA)
  BY QueueFacts
<1>7. T # {} => STA # <<>> /\ STA[1] = n
  <2>1. T # {} => STA # <<>> /\ Head(STA) = n
    BY DEF StoresTaken
  <2>2. STA # <<>> => Head(STA) = STA[1]
    BY <1>6
  <2>. QED BY <2>1, <2>2
<1>8. Len(sq) + Cardinality(T) <= SQ_SIZE
  <2>1. Len(sq) \in Nat /\ SQ_SIZE \in Int
    BY SqFacts, CoreAssumption
  <2>2. CASE T = {}
    <3>1. Cardinality(T) = 0
      BY <2>2, FS_EmptySet
    <3>. QED BY <2>1, <3>1
  <2>3. CASE T # {}
    <3>1. \A i \in T : Cardinality({j \in StillToAdd(n) : j < i}) < SQ_SIZE - Len(sq)
      BY DEF StoresTaken, StillToAdd
    <3>. DEFINE K == StillToAdd(n)
    <3>2. SQ_SIZE - Len(sq) \in Int
      BY <2>1
    <3>. HIDE DEF T, K
    <3>3. Cardinality(T) <= SQ_SIZE - Len(sq)
      BY <1>2, <1>3, <1>4, <2>3, <3>1, <3>2, TakeInOrder DEF K
    <3>. QED BY <1>5, <2>1, <3>3
  <2>. QED BY <2>2, <2>3
<1>9. Cardinality(P) = Cardinality(StillToAdd(n))
  BY <1>1 DEF StaCounts, Count
<1>10. ASSUME T # {} PROVE P = 1 .. Cardinality(P) /\ Cardinality(P) \in 0 .. Len(STA)
  <2>1. STA[1] = n /\ 1 \in DOMAIN STA
    BY <1>6, <1>7, <1>10
  <2>2. \A k \in DOMAIN STA : STA[k] \in Int
    BY <1>6, QueueFacts, RobFacts
  <2>3. ASSUME NEW k \in P, NEW j \in 1 .. k PROVE j \in P
    <3>1. k \in DOMAIN STA /\ STA[k] = n /\ j \in DOMAIN STA /\ 1 <= j /\ j <= k
      BY <1>6
    <3>2. STA[1] <= STA[j] /\ STA[j] <= STA[k]
      BY <2>1, <3>1 DEF ProgramOrdered
    <3>3. STA[j] = n
      BY <1>1, <2>1, <2>2, <3>1, <3>2
    <3>. QED BY <3>1, <3>3
  <2>4. P \in SUBSET (1 .. Len(STA))
    BY <1>6
  <2>. HIDE DEF P
  <2>. QED BY <1>6, <2>3, <2>4, DownClosed
<1>11. Cardinality(T) \in 0 .. Len(STA) /\ \A k \in 1 .. Cardinality(T) : k \in DOMAIN STA /\ STA[k] = n
  <2>1. CASE T = {}
    BY <1>6, <2>1, FS_EmptySet
  <2>2. CASE T # {}
    <3>1. \A k \in P : k \in DOMAIN STA /\ STA[k] = n
      OBVIOUS
    <3>. HIDE DEF T, P
    <3>. QED BY <1>3, <1>5, <1>6, <1>9, <1>10, <2>2, <3>1
  <2>. QED BY <2>1, <2>2
<1>. QED BY <1>2, <1>4, <1>5, <1>8, <1>11

\* The store queue after the stores T of n have entered it.
LEMMA EnteredEntries ==
  ASSUME CoreTypes, RegisterInv, StoreQueueInv, NEW n \in Rob, ScheduleMemory(n)
  PROVE  LET c == Cardinality(StoresTaken(n)) IN
         /\ sq' \in Seq(SqEntry) /\ c \in Nat /\ Len(sq') = Len(sq) + c
         /\ \A k \in DOMAIN sq : k \in DOMAIN sq' /\ sq'[k] = sq[k]
         /\ \A k \in DOMAIN sq' \ DOMAIN sq :
              /\ ~sq'[k].executed /\ sq'[k].op[1] = n /\ sq'[k].op[2] \in StoresTaken(n)
              /\ sq'[k].op = <<n, sq'[k].op[2]>>
              /\ \A j \in DOMAIN sq' \ DOMAIN sq : sq'[j].op = sq'[k].op => j = k
         /\ \A i \in StoresTaken(n) : \E k \in DOMAIN sq' \ DOMAIN sq : sq'[k].op = <<n, i>>
<1>. USE DEF StoreQueueInv
<1>. DEFINE T == StoresTaken(n)
            c == Cardinality(T)
            q == InSequence(n, T)
            new == [k \in 1 .. c |-> [op |-> q[k], executed |-> FALSE]]
            u == sq \o new
<1>1. sq' = u
  BY DEF ScheduleMemory
<1>2. /\ IsFiniteSet(T) /\ T \subseteq Int /\ T \subseteq Stores(n) /\ n \in Id
  BY TakenStores, RobFacts
<1>. HIDE DEF T
<1>3. /\ c \in Nat /\ q \in Seq({n} \X T) /\ Len(q) = c
      /\ \A x \in {n} \X T : \E k \in 1 .. c : q[k] = x
      /\ \A j, k \in 1 .. c : q[j] = q[k] => j = k
  BY <1>2, Sequence
<1>. HIDE DEF c, q
<1>4. \A k \in 1 .. c : q[k] \in {n} \X T
  BY <1>3
<1>5. {n} \X T \subseteq StoreOps
  BY <1>2, OpFacts
<1>6. \A k \in 1 .. c : [op |-> q[k], executed |-> FALSE] \in SqEntry
  BY <1>4, <1>5 DEF SqEntry
<1>7. new \in Seq(SqEntry) /\ Len(new) = c /\ \A k \in 1 .. c : new[k].op = q[k] /\ new[k].executed = FALSE
  <2>1. new \in [1 .. c -> SqEntry]
    BY <1>6
  <2>. QED BY <1>3, <2>1
<1>. HIDE DEF new
<1>8. sq \in Seq(SqEntry) /\ Len(sq) \in Nat /\ DOMAIN sq = 1 .. Len(sq)
  BY SqFacts
<1>9. /\ u \in Seq(SqEntry) /\ Len(u) = Len(sq) + c /\ DOMAIN u = 1 .. Len(sq) + c
      /\ \A k \in 1 .. Len(sq) : u[k] = sq[k]
      /\ \A k \in 1 .. c : u[Len(sq) + k] = new[k]
  <2>1. sq \in Seq(SqEntry) /\ new \in Seq(SqEntry) /\ Len(new) = c
    BY <1>7, <1>8
  <2>2. u \in Seq(SqEntry)
    BY <2>1, Concatenated
  <2>3. Len(u) = Len(sq) + Len(new)
    BY <2>1, Concatenated
  <2>4. DOMAIN u = 1 .. Len(sq) + Len(new)
    BY <2>1, Concatenated
  <2>5. \A k \in 1 .. Len(sq) : u[k] = sq[k]
    BY <2>1, Concatenated
  <2>6. \A k \in 1 .. Len(new) : u[Len(sq) + k] = new[k]
    BY <2>1, Concatenated
  <2>. QED BY <2>1, <2>2, <2>3, <2>4, <2>5, <2>6
<1>. HIDE DEF u
<1>10. ASSUME NEW k \in DOMAIN u \ DOMAIN sq
       PROVE  k - Len(sq) \in 1 .. c /\ k = Len(sq) + (k - Len(sq)) /\ u[k] = new[k - Len(sq)]
  <2>1. k - Len(sq) \in 1 .. c /\ k = Len(sq) + (k - Len(sq))
    BY <1>3, <1>8, <1>9
  <2>. QED BY <1>9, <2>1
<1>11. ASSUME NEW k \in DOMAIN u \ DOMAIN sq
       PROVE  /\ ~u[k].executed /\ u[k].op = q[k - Len(sq)] /\ u[k].op \in {n} \X T
              /\ k - Len(sq) \in 1 .. c /\ k \in Int
  BY <1>4, <1>7, <1>9, <1>10
<1>12. ASSUME NEW k \in DOMAIN u \ DOMAIN sq, NEW j \in DOMAIN u \ DOMAIN sq, u[j].op = u[k].op PROVE j = k
  <2>1. q[j - Len(sq)] = q[k - Len(sq)]
    BY <1>11, <1>12
  <2>2. j - Len(sq) = k - Len(sq)
    BY <1>3, <1>11, <2>1
  <2>. QED BY <1>8, <1>11, <2>2
<1>13. ASSUME NEW i \in T PROVE \E k \in DOMAIN u \ DOMAIN sq : u[k].op = <<n, i>>
  <2>1. PICK k \in 1 .. c : q[k] = <<n, i>>
    BY <1>3
  <2>2. Len(sq) + k \in DOMAIN u \ DOMAIN sq
    BY <1>3, <1>8, <1>9
  <2>. QED BY <1>7, <1>9, <2>1, <2>2
<1>14. \A x \in {n} \X T : x[1] = n /\ x[2] \in T /\ x = <<n, x[2]>>
  OBVIOUS
<1>15. \A k \in DOMAIN sq : k \in DOMAIN u
  BY <1>3, <1>8, <1>9
<1>. QED BY <1>1, <1>3, <1>8, <1>9, <1>11, <1>12, <1>13, <1>14, <1>15 DEF c, T

\* check_and_add_lsq moves stores from the head of STA to the tail of the queue,
LEMMA MemorySchedulingKeepsQueue ==
  ASSUME CoreTypes, RegisterInv, StoreQueueInv, NEW n \in Id, ScheduleMemory(n), AddedIsScheduled'
  PROVE  StoreQueueInv'
<1>. USE DEF StoreQueueInv
<1>. DEFINE T == StoresTaken(n)
            c == Cardinality(T)
<1>1. /\ trace' = trace /\ read' = read /\ retired' = retired /\ n \in Rob
      /\ STA' = SubSeq(STA, c + 1, Len(STA))
  BY DEF ScheduleMemory, control, frontEnd
<1>2. Id' = Id /\ (\A m : Loads(m)' = Loads(m) /\ Stores(m)' = Stores(m)) /\ StoreOps' = StoreOps
      /\ \A m : Ops(m)' = Ops(m)
  BY <1>1, SameTrace DEF StoreOps, Id, Ops
<1>3. /\ \A k \in Id : k # n => added'[k] = added[k]
      /\ added'[n] = added[n] \cup ({"load"} \X LoadsTaken(n)) \cup ({"store"} \X T)
  BY MemorySchedulingFacts
<1>4. LoadsTaken(n) \subseteq Loads(n) /\ T \subseteq StillToAdd(n) /\ T \subseteq Stores(n)
      /\ IsFiniteSet(T) /\ T \subseteq Int
  BY <1>1, TakenStores DEF LoadsTaken
<1>5. /\ sq' \in Seq(SqEntry) /\ c \in Nat /\ Len(sq') = Len(sq) + c
      /\ \A k \in DOMAIN sq : k \in DOMAIN sq' /\ sq'[k] = sq[k]
      /\ \A k \in DOMAIN sq' \ DOMAIN sq :
           /\ ~sq'[k].executed /\ sq'[k].op[1] = n /\ sq'[k].op[2] \in T
           /\ sq'[k].op = <<n, sq'[k].op[2]>>
           /\ \A j \in DOMAIN sq' \ DOMAIN sq : sq'[j].op = sq'[k].op => j = k
      /\ \A i \in T : \E k \in DOMAIN sq' \ DOMAIN sq : sq'[k].op = <<n, i>>
  BY <1>1, EnteredEntries
<1>6. /\ c \in 0 .. Len(STA) /\ Len(sq) + c <= SQ_SIZE
      /\ \A k \in 1 .. c : k \in DOMAIN STA /\ STA[k] = n
  BY <1>1, TakenStores
<1>7. STA \in Seq(Id) /\ Len(STA) \in Nat /\ DOMAIN STA = 1 .. Len(STA)
  BY QueueFacts
<1>. HIDE DEF T
<1>8. \A m \in Id : \A i : <<"store", i>> \in added'[m] <=> <<"store", i>> \in added[m] \/ (m = n /\ i \in T)
  <2>1. \A i : <<"store", i>> \in added'[n] <=> <<"store", i>> \in added[n] \/ i \in T
    BY <1>3
  <2>. QED BY <1>3, <2>1
<1>9. AddedIsOwn'
  <2>1. \A i \in LoadsTaken(n) : <<"load", i>> \in Ops(n)
    BY <1>4 DEF Ops
  <2>2. \A i \in T : <<"store", i>> \in Ops(n)
    BY <1>4 DEF Ops
  <2>3. added'[n] \subseteq Ops(n)
    BY <1>3, <2>1, <2>2 DEF AddedIsOwn
  <2>. QED BY <1>2, <1>3, <2>3 DEF AddedIsOwn
<1>10. \A i \in T : <<"store", i>> \notin added[n]
  BY <1>4 DEF StillToAdd
<1>11. InStoreQueue'
  <2>1. \A j, k \in DOMAIN sq' : sq'[j].op = sq'[k].op => j = k
    <3>1. ASSUME NEW j \in DOMAIN sq, NEW k \in DOMAIN sq' \ DOMAIN sq, sq'[j].op = sq'[k].op PROVE FALSE
      <4>1. sq[j].op = <<n, sq'[k].op[2]>> /\ sq'[k].op[2] \in T
        BY <1>5, <3>1
      <4>2. <<"store", sq[j].op[2]>> \in added[sq[j].op[1]]
        BY SqFacts
      <4>. QED BY <1>10, <4>1, <4>2
    <3>. QED BY <1>5, <3>1 DEF InStoreQueue
  <2>2. ASSUME NEW x \in StoreOps
        PROVE  <<"store", x[2]>> \in added'[x[1]] <=> \E k \in DOMAIN sq' : sq'[k].op = x
    <3>1. x[1] \in Id /\ x = <<x[1], x[2]>>
      BY OpFacts
    <3>2. <<"store", x[2]>> \in added'[x[1]] <=> <<"store", x[2]>> \in added[x[1]] \/ (x[1] = n /\ x[2] \in T)
      BY <1>8, <3>1
    <3>3. <<"store", x[2]>> \in added[x[1]] <=> \E k \in DOMAIN sq : sq[k].op = x
      BY DEF InStoreQueue
    <3>4. ASSUME x[1] = n, x[2] \in T PROVE \E k \in DOMAIN sq' : sq'[k].op = x
      <4>1. PICK k \in DOMAIN sq' : sq'[k].op = <<n, x[2]>>
        BY <1>5, <3>4
      <4>. QED BY <3>1, <3>4, <4>1
    <3>5. ASSUME NEW k \in DOMAIN sq', sq'[k].op = x
          PROVE  <<"store", x[2]>> \in added[x[1]] \/ (x[1] = n /\ x[2] \in T)
      <4>1. CASE k \in DOMAIN sq
        BY <1>5, <3>3, <3>5, <4>1
      <4>2. CASE k \notin DOMAIN sq
        BY <1>5, <3>5, <4>2
      <4>. QED BY <4>1, <4>2
    <3>6. ASSUME NEW k \in DOMAIN sq, sq[k].op = x PROVE k \in DOMAIN sq' /\ sq'[k].op = x
      BY <1>5, <3>6
    <3>. QED BY <3>2, <3>3, <3>4, <3>5, <3>6
  <2>. QED BY <1>2, <1>5, <2>1, <2>2 DEF InStoreQueue, SqEntry
<1>12. /\ STA' \in Seq(Id) /\ Len(STA') = Len(STA) - c /\ DOMAIN STA' = 1 .. Len(STA')
       /\ \A k \in DOMAIN STA' : STA'[k] = STA[c + k] /\ c + k \in DOMAIN STA /\ k \in Int
  <2>1. STA' \in Seq(Id) /\ Len(STA') = Len(STA) - c
    BY <1>1, <1>6, <1>7
  <2>2. DOMAIN STA' = 1 .. Len(STA')
    BY <2>1
  <2>3. ASSUME NEW k \in DOMAIN STA' PROVE STA'[k] = STA[c + k] /\ c + k \in DOMAIN STA /\ k \in Int
    <3>1. k \in 1 .. Len(STA) - c
      BY <2>1, <2>2
    <3>2. STA'[k] = STA[c + 1 + k - 1]
      BY <1>1, <1>6, <1>7, <3>1
    <3>3. c + 1 + k - 1 = c + k
      BY <1>5, <3>1
    <3>4. c + k \in DOMAIN STA
      BY <1>5, <1>7, <3>1
    <3>. QED BY <3>1, <3>2, <3>3, <3>4
  <2>. QED BY <2>1, <2>2, <2>3
<1>13. StaCounts'
  <2>1. ASSUME NEW m \in Id
        PROVE  Count(m, STA') = IF m \in retired + 1 .. read THEN Cardinality(StillToAdd(m)') ELSE 0
    <3>1. Count(m, STA) = Cardinality({k \in 1 .. c : STA[k] = m}) + Count(m, STA')
      BY <1>1, <1>6, <1>7, CountSuffix
    <3>2. {k \in 1 .. c : STA[k] = m} = IF m = n THEN 1 .. c ELSE {}
      BY <1>6
    <3>3. Cardinality({k \in 1 .. c : STA[k] = m}) = IF m = n THEN c ELSE 0
      <4>1. Cardinality(1 .. c) = c
        BY <1>5, FS_Interval
      <4>. QED BY <3>2, <4>1, FS_EmptySet
    <3>4. Count(m, STA) = IF m \in retired + 1 .. read THEN Cardinality(StillToAdd(m)) ELSE 0
      BY DEF StaCounts
    <3>5. Count(m, STA') \in Nat
      BY <1>12, CountType
    <3>6. CASE m # n
      <4>1. StillToAdd(m)' = StillToAdd(m)
        BY <1>2, <1>3, <3>6 DEF StillToAdd
      <4>. QED BY <3>1, <3>3, <3>4, <3>5, <3>6, <4>1
    <3>7. CASE m = n
      <4>1. StillToAdd(n) = StillToAdd(n)' \cup T /\ StillToAdd(n)' \cap T = {}
        <5>1. StillToAdd(n)' = {i \in Stores(n) : <<"store", i>> \notin added'[n]}
          BY <1>2 DEF StillToAdd
        <5>2. \A i : i \in StillToAdd(n)' <=> i \in StillToAdd(n) /\ i \notin T
          BY <1>8, <5>1 DEF StillToAdd
        <5>. QED BY <1>4, <5>2
      <4>. DEFINE R == StillToAdd(n)'
      <4>. HIDE DEF R
      <4>2. IsFiniteSet(StillToAdd(n))
        BY EntriesCounted DEF CoreTypes
      <4>3. Cardinality(R \cup T) = Cardinality(R) + Cardinality(T) /\ Cardinality(R) \in Nat
        BY <4>1, <4>2, CutInTwo DEF R
      <4>4. Cardinality(StillToAdd(n)) = Cardinality(R) + c
        BY <4>1, <4>3 DEF R
      <4>5. n \in retired + 1 .. read
        <5>1. n \in Int /\ retired < n /\ n <= dispatched
          BY <1>1, RobFacts
        <5>2. retired \in Nat /\ dispatched \in Nat /\ sent \in Nat /\ read \in Nat /\ dispatched <= sent
              /\ sent <= read
          BY DEF CoreTypes
        <5>. QED BY <5>1, <5>2
      <4>. HIDE DEF c
      <4>6. Count(m, STA') = Cardinality(R)
        BY <1>5, <3>1, <3>3, <3>4, <3>5, <3>7, <4>3, <4>4, <4>5
      <4>. QED BY <3>7, <4>5, <4>6 DEF R
    <3>. QED BY <3>6, <3>7
  <2>2. \A m : Count(m, STA)' = Count(m, STA')
    BY DEF Count
  <2>. QED BY <1>1, <1>2, <2>1, <2>2 DEF StaCounts
<1>14. ProgramOrdered'
  <2>1. \A k \in DOMAIN sq' : k \in DOMAIN sq \/ sq'[k].op[1] = n
    BY <1>5
  <2>2. /\ DOMAIN sq = 1 .. Len(sq) /\ DOMAIN sq' = 1 .. Len(sq) + c /\ Len(sq) \in Nat
    <3>1. DOMAIN sq = 1 .. Len(sq) /\ Len(sq) \in Nat
      BY SqFacts
    <3>2. DOMAIN sq' = 1 .. Len(sq')
      BY <1>5
    <3>. QED BY <1>5, <3>1, <3>2
  <2>3. ASSUME NEW k \in DOMAIN sq' \ DOMAIN sq PROVE 1 \in DOMAIN STA /\ STA[1] = n
    <3>1. 1 <= c
      BY <1>5, <2>2
    <3>2. 1 \in 1 .. c
      BY <1>5, <3>1
    <3>. QED BY <1>6, <3>2
  <2>4. /\ \A k \in DOMAIN sq : sq[k].op[1] \in Int
        /\ n \in Int /\ \A k \in DOMAIN STA : k \in Int /\ 1 <= k
    <3>1. \A m \in Id : m \in Int
      BY RobFacts
    <3>2. \A k \in DOMAIN sq : sq[k].op[1] \in Id
      BY SqFacts
    <3>. QED BY <1>7, <3>1, <3>2
  <2>5. ASSUME NEW j \in DOMAIN sq', NEW k \in DOMAIN sq', j <= k PROVE sq'[j].op[1] <= sq'[k].op[1]
    <3>1. CASE k \in DOMAIN sq
      <4>1. j \in DOMAIN sq
        BY <2>2, <2>5, <3>1
      <4>. QED BY <1>5, <2>5, <3>1, <4>1 DEF ProgramOrdered
    <3>2. CASE k \notin DOMAIN sq /\ j \in DOMAIN sq
      <4>1. sq[j].op[1] <= STA[1] /\ STA[1] = n
        BY <2>3, <3>2 DEF ProgramOrdered
      <4>2. sq'[k].op[1] = n /\ sq'[j].op[1] = sq[j].op[1]
        BY <1>5, <3>2
      <4>. QED BY <4>1, <4>2
    <3>3. CASE k \notin DOMAIN sq /\ j \notin DOMAIN sq
      BY <1>5, <2>4, <3>3
    <3>. QED BY <3>1, <3>2, <3>3
  <2>6. ASSUME NEW j \in DOMAIN sq', NEW k \in DOMAIN STA' PROVE sq'[j].op[1] <= STA'[k]
    <3>1. STA'[k] = STA[c + k] /\ c + k \in DOMAIN STA
      BY <1>12
    <3>2. CASE j \in DOMAIN sq
      BY <1>5, <3>1, <3>2 DEF ProgramOrdered
    <3>3. CASE j \notin DOMAIN sq
      <4>1. 1 \in DOMAIN STA /\ STA[1] = n /\ sq'[j].op[1] = n
        BY <1>5, <2>3, <3>3
      <4>2. STA[1] <= STA[c + k]
        BY <2>4, <3>1, <4>1 DEF ProgramOrdered
      <4>. QED BY <3>1, <4>1, <4>2
    <3>. QED BY <3>2, <3>3
  <2>7. ASSUME NEW j \in DOMAIN STA', NEW k \in DOMAIN STA', j <= k PROVE STA'[j] <= STA'[k]
    <3>1. c + j <= c + k /\ c + j \in DOMAIN STA /\ c + k \in DOMAIN STA
      BY <1>5, <1>12, <2>7
    <3>. QED BY <1>12, <3>1 DEF ProgramOrdered
  <2>. QED BY <1>2, <1>12, <2>5, <2>6, <2>7 DEF ProgramOrdered
<1>15. (Len(sq) <= SQ_SIZE)'
  BY <1>5, <1>6
<1>. QED BY <1>9, <1>11, <1>13, <1>14, <1>15

\* The head of the ROB owns the first entries of the store queue.
LEMMA HeadEntries ==
  ASSUME CoreTypes, RegisterInv, StoreQueueInv, RetireRob
  PROVE  LET n == retired + 1
             c == Cardinality(Stores(n)) IN
         /\ c \in 0 .. Len(sq) /\ StillToAdd(n) = {}
         /\ IsMemory(n) => added[n] = Ops(n)
         /\ sq' \in Seq(SqEntry) /\ Len(sq') = Len(sq) - c /\ DOMAIN sq' = 1 .. Len(sq')
         /\ \A k \in DOMAIN sq' : sq'[k] = sq[c + k] /\ c + k \in DOMAIN sq /\ sq'[k].op[1] # n
         /\ \A k \in DOMAIN sq : sq[k].op[1] # n => k - c \in DOMAIN sq' /\ sq'[k - c] = sq[k]
<1>. USE DEF StoreQueueInv
<1>. DEFINE n == retired + 1
            c == Cardinality(Stores(n))
            E == EntriesOf(n)
<1>1. n \in Rob /\ executed[n] = "completed" /\ sq' = SubSeq(sq, c + 1, Len(sq)) /\ n \in Id
      /\ n \in Int
  BY RetirementFacts, RobFacts DEF RetireRob
<1>2. IsMemory(n) => added[n] = Ops(n)
  <2>1. IsMemory(n) => scheduled[n] = "completed"
    BY <1>1 DEF RegisterInv, MemoryStarts
  <2>. QED BY <1>1, <2>1 DEF AddedIsScheduled
<1>. HIDE DEF n
<1>3. StillToAdd(n) = {}
  <2>1. \A i \in Stores(n) : IsMemory(n) /\ <<"store", i>> \in Ops(n)
    BY DEF IsMemory, Ops
  <2>. QED BY <1>2, <2>1 DEF StillToAdd
<1>4. Cardinality(E) = c /\ c \in Nat
  <2>1. Cardinality(E) \in Nat /\ c = Cardinality(E) + Cardinality(StillToAdd(n))
    BY <1>1, EntriesCounted DEF CoreTypes
  <2>2. Cardinality(StillToAdd(n)) = 0
    BY <1>3, FS_EmptySet
  <2>. HIDE DEF E
  <2>. QED BY <2>1, <2>2
<1>5. sq \in Seq(SqEntry) /\ Len(sq) \in Nat /\ DOMAIN sq = 1 .. Len(sq)
  BY SqFacts
<1>6. \A k \in DOMAIN sq : sq[k].op[1] \in Int /\ n <= sq[k].op[1]
  <2>1. \A k \in DOMAIN sq : sq[k].op[1] \in Rob
    BY QueueFacts
  <2>2. \A m \in Rob : m \in Int /\ n <= m
    <3>1. retired \in Int
      BY DEF CoreTypes
    <3>. QED BY <3>1, RobFacts DEF n
  <2>. QED BY <2>1, <2>2
<1>7. E = 1 .. c /\ c \in 0 .. Len(sq)
  <2>1. ASSUME NEW k \in E, NEW j \in 1 .. k PROVE j \in E
    <3>1. k \in DOMAIN sq /\ sq[k].op[1] = n /\ j \in DOMAIN sq /\ j <= k
      BY <1>5 DEF EntriesOf
    <3>2. sq[j].op[1] <= sq[k].op[1]
      BY <3>1 DEF ProgramOrdered
    <3>3. sq[j].op[1] = n
      BY <1>1, <1>6, <3>1, <3>2
    <3>. QED BY <3>1, <3>3 DEF EntriesOf
  <2>2. E \in SUBSET (1 .. Len(sq))
    BY <1>5 DEF EntriesOf
  <2>. HIDE DEF E, c
  <2>3. E = 1 .. Cardinality(E) /\ Cardinality(E) \in 0 .. Len(sq)
    BY <1>5, <2>1, <2>2, DownClosed
  <2>. QED BY <1>4, <2>3
<1>. HIDE DEF c
<1>8. sq' \in Seq(SqEntry) /\ Len(sq') = Len(sq) - c /\ DOMAIN sq' = 1 .. Len(sq) - c
  <2>1. sq' \in Seq(SqEntry) /\ Len(sq') = Len(sq) - c
    BY <1>1, <1>5, <1>7, Suffix
  <2>. QED BY <2>1
<1>9. ASSUME NEW k \in DOMAIN sq' PROVE sq'[k] = sq[c + k] /\ c + k \in DOMAIN sq /\ sq'[k].op[1] # n
  <2>1. k \in 1 .. Len(sq) - c
    BY <1>8
  <2>2. sq'[k] = sq[c + 1 + k - 1]
    BY <1>1, <1>5, <1>7, <2>1
  <2>3. c + 1 + k - 1 = c + k /\ c + k \in DOMAIN sq /\ c + k \notin 1 .. c
    BY <1>4, <1>5, <2>1
  <2>4. c + k \notin E
    BY <1>7, <2>3
  <2>. QED BY <2>2, <2>3, <2>4 DEF EntriesOf
<1>10. ASSUME NEW k \in DOMAIN sq, sq[k].op[1] # n PROVE k - c \in DOMAIN sq' /\ sq'[k - c] = sq[k]
  <2>1. k \notin 1 .. c
    BY <1>7, <1>10 DEF EntriesOf
  <2>2. k - c \in DOMAIN sq' /\ c + (k - c) = k
    BY <1>4, <1>5, <1>8, <2>1
  <2>. QED BY <1>9, <2>2
<1>. QED BY <1>2, <1>3, <1>7, <1>8, <1>9, <1>10 DEF c, n

\* and retire_rob frees the entries at the head, which are its own.
LEMMA RetirementKeepsQueue ==
  ASSUME CoreTypes, RegisterInv, StoreQueueInv, RetireRob, AddedIsScheduled'
  PROVE  StoreQueueInv'
<1>. USE DEF StoreQueueInv
<1>. DEFINE n == retired + 1
            c == Cardinality(Stores(n))
<1>1. /\ trace' = trace /\ read' = read /\ retired' = n /\ STA' = STA /\ retired \in Nat
      /\ n \in Rob /\ n \in Id /\ read \in Nat
  BY RetirementFacts DEF RetireRob, frontEnd, CoreTypes
<1>2. Id' = Id /\ (\A m : Loads(m)' = Loads(m) /\ Stores(m)' = Stores(m)) /\ StoreOps' = StoreOps
      /\ \A m : Ops(m)' = Ops(m)
  BY <1>1, SameTrace DEF StoreOps, Id, Ops
<1>3. (\A k \in Id : k # n => added'[k] = added[k]) /\ added'[n] = {}
  BY RetirementFacts
<1>4. /\ c \in 0 .. Len(sq) /\ StillToAdd(n) = {}
      /\ sq' \in Seq(SqEntry) /\ Len(sq') = Len(sq) - c /\ DOMAIN sq' = 1 .. Len(sq')
      /\ \A k \in DOMAIN sq' : sq'[k] = sq[c + k] /\ c + k \in DOMAIN sq /\ sq'[k].op[1] # n
      /\ \A k \in DOMAIN sq : sq[k].op[1] # n => k - c \in DOMAIN sq' /\ sq'[k - c] = sq[k]
  BY HeadEntries
<1>5. \A m \in retired + 1 .. read : m = n \/ m \in n + 1 .. read
  BY <1>1
<1>6. (\A m \in n + 1 .. read : m \in retired + 1 .. read) /\ n \notin n + 1 .. read
  BY <1>1
<1>7. Len(sq) \in Nat
  BY SqFacts
<1>. HIDE DEF n, c
<1>8. c \in Int /\ \A k \in DOMAIN sq' : k \in Int
  BY <1>4
<1>9. AddedIsOwn'
  BY <1>2, <1>3 DEF AddedIsOwn
<1>10. InStoreQueue'
  <2>1. ASSUME NEW j \in DOMAIN sq', NEW k \in DOMAIN sq', sq'[j].op = sq'[k].op PROVE j = k
    <3>1. c + j = c + k
      BY <1>4, <2>1 DEF InStoreQueue
    <3>. QED BY <1>8, <3>1
  <2>2. ASSUME NEW x \in StoreOps
        PROVE  <<"store", x[2]>> \in added'[x[1]] <=> \E k \in DOMAIN sq' : sq'[k].op = x
    <3>1. x[1] \in Id
      BY OpFacts
    <3>2. CASE x[1] = n
      BY <1>3, <1>4, <3>2
    <3>3. CASE x[1] # n
      <4>1. <<"store", x[2]>> \in added'[x[1]] <=> \E k \in DOMAIN sq : sq[k].op = x
        BY <1>3, <3>1, <3>3 DEF InStoreQueue
      <4>2. ASSUME NEW k \in DOMAIN sq, sq[k].op = x PROVE \E j \in DOMAIN sq' : sq'[j].op = x
        BY <1>4, <3>3, <4>2
      <4>3. ASSUME NEW k \in DOMAIN sq', sq'[k].op = x PROVE \E j \in DOMAIN sq : sq[j].op = x
        BY <1>4, <4>3
      <4>. QED BY <4>1, <4>2, <4>3
    <3>. QED BY <3>2, <3>3
  <2>. QED BY <1>2, <1>4, <2>1, <2>2 DEF InStoreQueue, SqEntry
<1>11. ProgramOrdered'
  <2>1. ASSUME NEW j \in DOMAIN sq', NEW k \in DOMAIN sq', j <= k PROVE sq'[j].op[1] <= sq'[k].op[1]
    <3>1. c + j <= c + k
      BY <1>8, <2>1
    <3>. QED BY <1>4, <3>1 DEF ProgramOrdered
  <2>. QED BY <1>1, <1>2, <1>4, <2>1 DEF ProgramOrdered
<1>12. StaCounts'
  <2>1. ASSUME NEW m \in Id
        PROVE  Count(m, STA) = IF m \in n + 1 .. read THEN Cardinality(StillToAdd(m)') ELSE 0
    <3>1. Count(m, STA) = IF m \in retired + 1 .. read THEN Cardinality(StillToAdd(m)) ELSE 0
      BY DEF StaCounts
    <3>2. CASE m = n
      <4>1. Cardinality(StillToAdd(n)) = 0
        BY <1>4, FS_EmptySet
      <4>. QED BY <1>6, <3>1, <3>2, <4>1
    <3>3. CASE m # n
      <4>1. StillToAdd(m)' = StillToAdd(m)
        BY <1>2, <1>3, <3>3 DEF StillToAdd
      <4>. QED BY <1>5, <1>6, <3>1, <3>3, <4>1
    <3>. QED BY <3>2, <3>3
  <2>. QED BY <1>1, <1>2, <2>1 DEF StaCounts, Count
<1>13. (Len(sq) <= SQ_SIZE)'
  <2>1. SQ_SIZE \in Int
    BY CoreAssumption
  <2>2. c >= 0
    BY <1>4
  <2>. QED BY <1>4, <1>7, <1>8, <2>1, <2>2
<1>. QED BY <1>9, <1>10, <1>11, <1>12, <1>13

\* Every step keeps the part about stores.
LEMMA NextStoreQueueInv ==
  ASSUME CoreTypes, RegisterInv, StoreQueueInv, [Next]_vars
  PROVE  StoreQueueInv'
<1>0. AddedIsScheduled'
  BY NextAddedIsScheduled
<1>1. ASSUME NEW mispredicted \in BOOLEAN, ReadFromTrace(mispredicted) PROVE StoreQueueInv'
  BY <1>0, <1>1, ReadingKeepsQueue
<1>2. CASE ExecuteStore
  BY <1>0, <1>2, ExecutingKeepsQueue
<1>3. ASSUME NEW n \in Id, ScheduleMemory(n) PROVE StoreQueueInv'
  BY <1>0, <1>3, MemorySchedulingKeepsQueue
<1>4. CASE RetireRob
  BY <1>0, <1>4, RetirementKeepsQueue
<1>5. ASSUME ~(\E mispredicted \in BOOLEAN : ReadFromTrace(mispredicted)), ~ExecuteStore, ~RetireRob,
             ~(\E n \in Id : ScheduleMemory(n))
      PROVE  StoreQueueInv'
  <2>1. UNCHANGED <<trace, read, retired, added, sq, STA>>
    BY <1>5 DEF Next, ResumeFetch, SendToDecode, DecodeAndDispatch, FetchLine, L1iAnswer,
      DoScheduling, ExecuteInstruction, DoExecution, CompleteExecution, TranslateStore,
      TranslateLoad, ExecuteLoad, DtlbAnswer, L1dAnswer, L1dWrite, vars, control, frontEnd, lsq
  <2>. QED BY <1>0, <2>1, QueueFrame
<1>. QED BY <1>1, <1>2, <1>3, <1>4, <1>5

QueuePart == CoreTypes /\ Sizes /\ RegisterInv /\ StoreQueueInv

\* The part about stores is invariant.
LEMMA QueuePartInvariant == Spec => []QueuePart
<1>1. Init => StoreQueueInv
  BY InitStoreQueueInv
<1>2. RegisterPart /\ StoreQueueInv /\ [Next]_vars => StoreQueueInv'
  BY NextStoreQueueInv DEF RegisterPart
<1>3. RegisterPart /\ StoreQueueInv => QueuePart
  BY DEF RegisterPart, QueuePart
<1>. QED BY <1>1, <1>2, <1>3, RegisterPartInvariant, PTL DEF Spec

\* It says that the stores stay in order.
LEMMA QueuePartGivesOrder == QueuePart => StoresStayInOrder
<1>. SUFFICES ASSUME QueuePart PROVE StoresStayInOrder
  OBVIOUS
<1>. USE DEF QueuePart, StoreQueueInv
<1>. DEFINE a == [k \in DOMAIN sq |-> sq[k].op[1]]
            u == a \o STA
<1>1. DOMAIN sq = 1 .. Len(sq) /\ Len(sq) \in Nat /\ \A k \in DOMAIN sq : sq[k].op[1] \in Id
  BY SqFacts
<1>2. a \in Seq(Id) /\ Len(a) = Len(sq) /\ DOMAIN a = DOMAIN sq
      /\ \A k \in DOMAIN sq : a[k] = sq[k].op[1]
  BY <1>1
<1>. HIDE DEF a
<1>3. STA \in Seq(Id) /\ Len(STA) \in Nat /\ DOMAIN STA = 1 .. Len(STA)
  BY QueueFacts
<1>4. DOMAIN u = 1 .. Len(sq) + Len(STA)
  <2>1. DOMAIN u = 1 .. Len(a) + Len(STA)
    <3>1. a \in Seq(Id) /\ STA \in Seq(Id)
      BY <1>2, <1>3
    <3>2. DOMAIN (a \o STA) = 1 .. Len(a) + Len(STA)
      BY <3>1, Concatenated
    <3>. QED BY <3>2
  <2>. QED BY <1>2, <2>1
<1>5. \A k \in 1 .. Len(sq) : u[k] = sq[k].op[1]
  <2>1. \A k \in 1 .. Len(a) : u[k] = a[k]
    BY <1>2, <1>3, Concatenated
  <2>. QED BY <1>1, <1>2, <2>1
<1>6. \A k \in 1 .. Len(STA) : u[Len(sq) + k] = STA[k]
  <2>1. \A k \in 1 .. Len(STA) : u[Len(a) + k] = STA[k]
    BY <1>2, <1>3, Concatenated
  <2>. QED BY <1>2, <2>1
<1>7. \A n : Count(n, u) = Count(n, a) + Count(n, STA)
  BY <1>2, <1>3, CountConcat
<1>. HIDE DEF u
<1>8. ASSUME NEW j \in DOMAIN u, NEW k \in DOMAIN u, j <= k PROVE u[j] <= u[k]
  <2>1. j \in Int /\ k \in Int /\ 1 <= j /\ 1 <= k
    BY <1>1, <1>3, <1>4
  <2>2. \A i \in DOMAIN u : i \notin DOMAIN sq =>
          i - Len(sq) \in DOMAIN STA /\ Len(sq) + (i - Len(sq)) = i
    BY <1>1, <1>3, <1>4
  <2>3. \A i \in DOMAIN u : i \notin DOMAIN sq => u[i] = STA[i - Len(sq)]
    BY <1>3, <1>6, <2>2
  <2>4. CASE k \in DOMAIN sq
    <3>1. j \in DOMAIN sq
      BY <1>1, <1>8, <2>1, <2>4
    <3>. QED BY <1>1, <1>5, <1>8, <2>4, <3>1 DEF ProgramOrdered
  <2>5. CASE k \notin DOMAIN sq /\ j \in DOMAIN sq
    BY <1>1, <1>5, <2>2, <2>3, <2>5 DEF ProgramOrdered
  <2>6. CASE k \notin DOMAIN sq /\ j \notin DOMAIN sq
    <3>1. j - Len(sq) <= k - Len(sq)
      BY <1>1, <1>8, <2>1
    <3>. QED BY <2>2, <2>3, <2>6, <3>1 DEF ProgramOrdered
  <2>. QED BY <2>4, <2>5, <2>6
<1>9. ASSUME NEW n \in Id
      PROVE  Count(n, u) = IF n \in retired + 1 .. read THEN Cardinality(Stores(n)) ELSE 0
  <2>1. Count(n, a) = Cardinality(EntriesOf(n))
    <3>1. {k \in DOMAIN a : a[k] = n} = EntriesOf(n)
      BY <1>2 DEF EntriesOf
    <3>. QED BY <3>1 DEF Count
  <2>2. /\ Cardinality(EntriesOf(n)) = Cardinality(AddedStores(n)) /\ Cardinality(EntriesOf(n)) \in Nat
        /\ Cardinality(Stores(n)) = Cardinality(AddedStores(n)) + Cardinality(StillToAdd(n))
    BY EntriesCounted DEF CoreTypes
  <2>3. Count(n, STA) = IF n \in retired + 1 .. read THEN Cardinality(StillToAdd(n)) ELSE 0
    BY DEF StaCounts
  <2>4. CASE n \in retired + 1 .. read
    BY <1>7, <2>1, <2>2, <2>3, <2>4
  <2>5. CASE n \notin retired + 1 .. read
    <3>1. n \notin Rob
      <4>1. retired \in Nat /\ dispatched \in Nat /\ sent \in Nat /\ read \in Nat /\ dispatched <= sent
            /\ sent <= read
        BY DEF CoreTypes
      <4>. QED BY <2>5, <4>1, RobFacts
    <3>2. AddedStores(n) = {}
      BY <3>1, QueueFacts DEF AddedStores
    <3>3. Cardinality(AddedStores(n)) = 0
      BY <3>2, FS_EmptySet
    <3>. QED BY <1>7, <2>1, <2>2, <2>3, <2>5, <3>3
  <2>. QED BY <2>4, <2>5
<1>. QED BY <1>8, <1>9 DEF StoresStayInOrder, u, a

\* For every trace: the store queue followed by STA holds the stores that have
\* not retired, in program order, so that retirement finds its stores at the head.
THEOREM StoreOrderTheorem == Spec => []StoresStayInOrder
BY QueuePartInvariant, QueuePartGivesOrder, PTL

\* The producer of a load is the youngest older store to its address, or 0 when there is none.
LEMMA MemProducerFacts ==
  ASSUME CoreTypes, NEW x \in LoadOps
  PROVE  /\ MemProducer(x) \in Nat
         /\ MemProducer(x) # 0 =>
              /\ MemProducer(x) \in Older(x[1]) /\ MemProducer(x) \in Id
              /\ \E i \in Stores(MemProducer(x)) :
                   Address(<<MemProducer(x), i>>, "store") = Address(x, "load")
         /\ \A m \in Older(x[1]) : \A i \in Stores(m) :
              Address(<<m, i>>, "store") = Address(x, "load") =>
                m <= MemProducer(x) /\ MemProducer(x) # 0
<1>. DEFINE S == {m \in Older(x[1]) : \E i \in Stores(m) : trace[m].store[i] = Address(x, "load")}
<1>1. x[1] \in Id
  BY OpFacts
<1>2. Older(x[1]) \subseteq Id /\ Id = 1 .. Len(trace) /\ Len(trace) \in Nat
  BY <1>1, RobFacts, TraceFacts DEF CoreTypes
<1>3. S \subseteq 1 .. Len(trace)
  BY <1>2
<1>4. MemProducer(x) = Youngest(S)
  BY DEF MemProducer
<1>5. \A m, i : Address(<<m, i>>, "store") = trace[m].store[i]
  BY DEF Address
<1>6. Youngest(S) \in S \cup {0} /\ (\A k \in S : k <= Youngest(S)) /\ (Youngest(S) = 0 <=> S = {})
  <2>. HIDE DEF S
  <2>. QED BY <1>2, <1>3, YoungestIs
<1>7. \A m \in S : m \in Older(x[1]) /\ \E i \in Stores(m) : Address(<<m, i>>, "store") = Address(x, "load")
  BY <1>5
<1>8. ASSUME NEW m \in Older(x[1]), NEW i \in Stores(m), Address(<<m, i>>, "store") = Address(x, "load")
      PROVE  m \in S
  BY <1>5, <1>8
<1>. HIDE DEF S
<1>9. MemProducer(x) \in Nat /\ (MemProducer(x) # 0 => MemProducer(x) \in S)
  <2>1. MemProducer(x) \in S \cup {0}
    BY <1>4, <1>6
  <2>2. S \subseteq Nat
    BY <1>2, <1>3
  <2>3. MemProducer(x) # 0 => MemProducer(x) \in S
    BY <2>1
  <2>4. MemProducer(x) \in Nat
    <3>1. CASE MemProducer(x) = 0
      BY <3>1
    <3>2. CASE MemProducer(x) \in S
      BY <2>2, <3>2
    <3>. QED BY <2>1, <3>1, <3>2
  <2>. QED BY <2>3, <2>4
<1>10. MemProducer(x) # 0 =>
              /\ MemProducer(x) \in Older(x[1]) /\ MemProducer(x) \in Id
              /\ \E i \in Stores(MemProducer(x)) :
                   Address(<<MemProducer(x), i>>, "store") = Address(x, "load")
  BY <1>2, <1>7, <1>9
<1>11. ASSUME NEW m \in Older(x[1]), NEW i \in Stores(m), Address(<<m, i>>, "store") = Address(x, "load")
       PROVE  m <= MemProducer(x) /\ MemProducer(x) # 0
  <2>1. m \in S
    BY <1>8, <1>11
  <2>. QED BY <1>4, <1>6, <2>1
<1>. QED BY <1>9, <1>10, <1>11

\* The parts depend on their own state only.
LEMMA MemProducerKept ==
  ASSUME trace' = trace, retired' = retired
  PROVE  /\ \A x : MemProducer(x)' = MemProducer(x)
         /\ LoadOps' = LoadOps /\ StoreOps' = StoreOps
<1>1. (\A n : Stores(n)' = Stores(n)) /\ LoadOps' = LoadOps /\ StoreOps' = StoreOps
  BY SameTrace DEF LoadOps, StoreOps
<1>2. ASSUME NEW x PROVE MemProducer(x)' = MemProducer(x)
  <2>1. Older(x[1])' = Older(x[1]) /\ Address(x, "load")' = Address(x, "load")
    BY SameTrace DEF Older
  <2>2. {m \in Older(x[1]) : \E i \in Stores(m) : trace[m].store[i] = Address(x, "load")}'
          = {m \in Older(x[1]) : \E i \in Stores(m) : trace[m].store[i] = Address(x, "load")}
    BY <1>1, <2>1
  <2>. QED BY <2>2 DEF MemProducer, Youngest
<1>. QED BY <1>1, <1>2

\* The part about the load queue depends on the queues, added and the dependents only,
LEMMA LoadQueueFrame ==
  ASSUME LoadQueueInv, Rob \subseteq Rob',
         UNCHANGED <<trace, retired, added, sq, lq, memory_instrs_depend_on_me>>
  PROVE  LoadQueueInv'
<1>1. /\ trace' = trace /\ added' = added /\ sq' = sq /\ lq' = lq
      /\ memory_instrs_depend_on_me' = memory_instrs_depend_on_me
  OBVIOUS
<1>2. Id' = Id /\ (\A n : Loads(n)' = Loads(n))
      /\ \A x : Address(x, "load")' = Address(x, "load") /\ Address(x, "store")' = Address(x, "store")
  BY <1>1, SameTrace
<1>3. (\A x : MemProducer(x)' = MemProducer(x)) /\ LoadOps' = LoadOps
  BY MemProducerKept
<1>4. InLoadQueue'
  BY <1>1, <1>3 DEF InLoadQueue, LoadQueueInv
<1>5. DependentsKnown'
  BY <1>1, <1>2, <1>3 DEF DependentsKnown, LoadQueueInv
<1>6. ProducerWaits'
  BY <1>1, <1>2 DEF ProducerWaits, LoadQueueInv
<1>. QED BY <1>4, <1>5, <1>6 DEF LoadQueueInv

\* the part about accesses on the queues and the lists of accesses only,
LEMMA AccessFrame ==
  ASSUME AccessInv, UNCHANGED <<trace, sq, lq, RTL0, RTL1, RTS0, RTS1, dtlb, l1d>>
  PROVE  AccessInv'
<1>1. /\ trace' = trace /\ sq' = sq /\ lq' = lq /\ RTL0' = RTL0 /\ RTL1' = RTL1 /\ RTS0' = RTS0
      /\ RTS1' = RTS1 /\ dtlb' = dtlb /\ l1d' = l1d
  OBVIOUS
<1>2. LoadOps' = LoadOps /\ StoreOps' = StoreOps
  BY <1>1, SameTrace DEF LoadOps, StoreOps
<1>3. AccessTypes'
  BY <1>1, <1>2 DEF AccessTypes, AccessInv
<1>4. DtlbLoads' = DtlbLoads /\ DtlbStores' = DtlbStores
  BY <1>1 DEF DtlbLoads, DtlbStores
<1>5. \A x : /\ Count(x, RTL0)' = Count(x, RTL0) /\ Count(x, RTL1)' = Count(x, RTL1)
             /\ Count(x, RTS0)' = Count(x, RTS0) /\ Count(x, RTS1)' = Count(x, RTS1)
  BY <1>1 DEF Count
<1>6. LoadsPend'
  BY <1>1, <1>2, <1>4, <1>5 DEF LoadsPend, AccessInv, Bit
<1>7. StoresPend'
  BY <1>1, <1>2, <1>4, <1>5 DEF StoresPend, AccessInv, Bit
<1>. QED BY <1>3, <1>6, <1>7 DEF AccessInv

\* and the part about counters on neither the data loaded nor the registers.
LEMMA CountersFrame ==
  ASSUME CountersInv, trace' = trace, read' = read, retired' = retired, Rob' = Rob,
         executed' = executed, added' = added, sq' = sq, DOMAIN lq' = DOMAIN lq,
         num_mem_ops' = num_mem_ops, inflight_mem_executions' = inflight_mem_executions,
         DOMAIN seen' = DOMAIN seen
  PROVE  CountersInv'
<1>1. Id' = Id /\ (\A n : Loads(n)' = Loads(n) /\ Stores(n)' = Stores(n) /\ (IsMemory(n)' <=> IsMemory(n)))
      /\ LoadOps' = LoadOps
  BY SameTrace DEF LoadOps
<1>2. \A n : OpenLoads(n)' = OpenLoads(n)
  BY <1>1 DEF OpenLoads
<1>3. \A n : OpenStores(n)' = OpenStores(n)
  BY <1>1 DEF OpenStores
<1>4. OpsCounted'
  BY <1>2, <1>3 DEF OpsCounted, CountersInv
<1>5. Unfinished' = Unfinished
  BY <1>1 DEF Unfinished
<1>. QED BY <1>1, <1>4, <1>5 DEF CountersInv

\* An operation is in one place at most.
LEMMA AccessFacts ==
  ASSUME AccessInv
  PROVE  /\ \A x \in LoadOps : /\ Count(x, RTL0) \in Nat /\ Count(x, RTL1) \in Nat
                               /\ Bit(x \in DtlbLoads) \in Nat /\ Bit(x \in l1d) \in Nat
                               /\ Count(x, RTL0) + Count(x, RTL1) + Bit(x \in DtlbLoads)
                                    + Bit(x \in l1d) <= 1
         /\ \A x \in StoreOps : /\ Count(x, RTS0) \in Nat /\ Count(x, RTS1) \in Nat
                                /\ Bit(x \in DtlbStores) \in Nat
                                /\ Count(x, RTS0) + Count(x, RTS1) + Bit(x \in DtlbStores) <= 1
<1>1. /\ \A x \in LoadOps : Count(x, RTL0) \in Nat /\ Count(x, RTL1) \in Nat
      /\ \A x \in StoreOps : Count(x, RTS0) \in Nat /\ Count(x, RTS1) \in Nat
  BY CountType DEF AccessInv, AccessTypes
<1>2. ASSUME NEW x \in LoadOps
      PROVE  /\ Bit(x \in DtlbLoads) \in Nat /\ Bit(x \in l1d) \in Nat
             /\ Bit(x \in DOMAIN lq /\ lq[x] = 0) <= 1
  BY DEF Bit
<1>3. ASSUME NEW x \in StoreOps
      PROVE  /\ Bit(x \in DtlbStores) \in Nat
             /\ Bit(\E k \in DOMAIN sq : sq[k].op = x /\ ~sq[k].executed) <= 1
  BY DEF Bit
<1>. QED BY <1>1, <1>2, <1>3 DEF AccessInv, LoadsPend, StoresPend

\* What has been taken from a place is in the next.
LEMMA LoadsMove ==
  ASSUME AccessInv, trace' = trace, lq' = lq,
         \A x \in LoadOps :
           Count(x, RTL0') + Count(x, RTL1') + Bit(x \in DtlbLoads') + Bit(x \in l1d')
             = Count(x, RTL0) + Count(x, RTL1) + Bit(x \in DtlbLoads) + Bit(x \in l1d)
  PROVE  LoadsPend'
<1>1. LoadOps' = LoadOps
  BY SameTrace DEF LoadOps
<1>2. \A x : /\ Count(x, RTL0)' = Count(x, RTL0') /\ Count(x, RTL1)' = Count(x, RTL1')
  BY DEF Count
<1>3. \A x : /\ Bit(x \in DtlbLoads)' = Bit(x \in DtlbLoads') /\ Bit(x \in l1d)' = Bit(x \in l1d')
             /\ Bit(x \in DOMAIN lq /\ lq[x] = 0)' = Bit(x \in DOMAIN lq /\ lq[x] = 0)
  BY DEF Bit
<1>. QED BY <1>1, <1>2, <1>3 DEF AccessInv, LoadsPend

\* A step that only moves stores between RTS0, the DTLB and RTS1 loses none.
LEMMA StoresMove ==
  ASSUME AccessInv, trace' = trace, sq' = sq,
         \A x \in StoreOps :
           Count(x, RTS0') + Count(x, RTS1') + Bit(x \in DtlbStores')
             = Count(x, RTS0) + Count(x, RTS1) + Bit(x \in DtlbStores)
  PROVE  StoresPend'
<1>1. StoreOps' = StoreOps
  BY SameTrace DEF StoreOps
<1>2. \A x : /\ Count(x, RTS0)' = Count(x, RTS0') /\ Count(x, RTS1)' = Count(x, RTS1')
  BY DEF Count
<1>3. ASSUME NEW x \in StoreOps
      PROVE  (Count(x, RTS0) + Count(x, RTS1) + Bit(x \in DtlbStores))'
               = Bit(\E k \in DOMAIN sq : sq[k].op = x /\ ~sq[k].executed)'
  <2>1. Bit(x \in DtlbStores)' = Bit(x \in DtlbStores')
    BY DEF Bit
  <2>2. Bit(\E k \in DOMAIN sq : sq[k].op = x /\ ~sq[k].executed)'
          = Bit(\E k \in DOMAIN sq : sq[k].op = x /\ ~sq[k].executed)
    BY DEF Bit
  <2>3. Count(x, RTS0) + Count(x, RTS1) + Bit(x \in DtlbStores)
          = Bit(\E k \in DOMAIN sq : sq[k].op = x /\ ~sq[k].executed)
    BY DEF AccessInv, StoresPend
  <2>. QED BY <1>2, <2>1, <2>2, <2>3
<1>. QED BY <1>1, <1>3 DEF StoresPend

\* An access that the DTLB takes is with its loads or with its stores.
LEMMA DtlbSets ==
  ASSUME NEW x
  PROVE  /\ dtlb' = dtlb \cup {[type |-> "LOAD", op |-> x]} =>
              DtlbLoads' = DtlbLoads \cup {x} /\ DtlbStores' = DtlbStores
         /\ dtlb' = dtlb \cup {[type |-> "RFO", op |-> x]} =>
              DtlbStores' = DtlbStores \cup {x} /\ DtlbLoads' = DtlbLoads
<1>1. \A y : /\ y \in DtlbLoads <=> \E q \in dtlb : q.type = "LOAD" /\ q.op = y
             /\ y \in DtlbLoads' <=> \E q \in dtlb' : q.type = "LOAD" /\ q.op = y
             /\ y \in DtlbStores <=> \E q \in dtlb : q.type = "RFO" /\ q.op = y
             /\ y \in DtlbStores' <=> \E q \in dtlb' : q.type = "RFO" /\ q.op = y
  BY DEF DtlbLoads, DtlbStores
<1>2. ASSUME NEW p, dtlb' = dtlb \cup {p}, p.type = "LOAD", p.op = x
      PROVE  DtlbLoads' = DtlbLoads \cup {x} /\ DtlbStores' = DtlbStores
  <2>1. p.type # "RFO"
    BY <1>2
  <2>2. \A y : y \in DtlbLoads' <=> y \in DtlbLoads \/ y = x
    BY <1>1, <1>2
  <2>3. \A y : y \in DtlbStores' <=> y \in DtlbStores
    BY <1>1, <1>2, <2>1
  <2>4. DtlbLoads' = DtlbLoads \cup {x}
    BY <2>2
  <2>5. DtlbStores' = DtlbStores
    BY <2>3 DEF DtlbStores
  <2>. QED BY <2>4, <2>5
<1>3. ASSUME NEW p, dtlb' = dtlb \cup {p}, p.type = "RFO", p.op = x
      PROVE  DtlbStores' = DtlbStores \cup {x} /\ DtlbLoads' = DtlbLoads
  <2>1. p.type # "LOAD"
    BY <1>3
  <2>2. \A y : y \in DtlbStores' <=> y \in DtlbStores \/ y = x
    BY <1>1, <1>3
  <2>3. \A y : y \in DtlbLoads' <=> y \in DtlbLoads
    BY <1>1, <1>3, <2>1
  <2>4. DtlbStores' = DtlbStores \cup {x}
    BY <2>2
  <2>5. DtlbLoads' = DtlbLoads
    BY <2>3 DEF DtlbLoads
  <2>. QED BY <2>4, <2>5
<1>4. ASSUME dtlb' = dtlb \cup {[type |-> "LOAD", op |-> x]}
      PROVE  DtlbLoads' = DtlbLoads \cup {x} /\ DtlbStores' = DtlbStores
  <2>. DEFINE p == [type |-> "LOAD", op |-> x]
  <2>1. dtlb' = dtlb \cup {p} /\ p.type = "LOAD" /\ p.op = x
    BY <1>4
  <2>. HIDE DEF p
  <2>. QED BY <1>2, <2>1
<1>5. ASSUME dtlb' = dtlb \cup {[type |-> "RFO", op |-> x]}
      PROVE  DtlbStores' = DtlbStores \cup {x} /\ DtlbLoads' = DtlbLoads
  <2>. DEFINE p == [type |-> "RFO", op |-> x]
  <2>1. dtlb' = dtlb \cup {p} /\ p.type = "RFO" /\ p.op = x
    BY <1>5
  <2>. HIDE DEF p
  <2>. QED BY <1>3, <2>1
<1>. QED BY <1>4, <1>5

\* A load that is sent to the DTLB leaves RTL0 for it,
LEMMA TranslatingLoad ==
  ASSUME AccessInv, TranslateLoad
  PROVE  AccessInv'
<1>. DEFINE x == Head(RTL0)
<1>1. /\ RTL0 # <<>> /\ RTL0' = Tail(RTL0) /\ dtlb' = dtlb \cup {[type |-> "LOAD", op |-> x]}
      /\ trace' = trace /\ sq' = sq /\ lq' = lq /\ RTL1' = RTL1 /\ RTS0' = RTS0 /\ RTS1' = RTS1
      /\ l1d' = l1d
  BY DEF TranslateLoad, control, lsq
<1>2. RTL0' \in Seq(LoadOps) /\ x \in LoadOps
      /\ \A y : Count(y, RTL0) = Count(y, RTL0') + IF y = x THEN 1 ELSE 0
  BY <1>1, CountTail DEF AccessInv, AccessTypes
<1>3. \A y : Count(y, RTL0') \in Nat
  BY <1>2, CountType
<1>. HIDE DEF x
<1>4. DtlbLoads' = DtlbLoads \cup {x} /\ DtlbStores' = DtlbStores
  <2>1. DtlbLoads' = DtlbLoads \cup {x}
    BY <1>1, DtlbSets
  <2>2. DtlbStores' = DtlbStores
    BY <1>1, DtlbSets
  <2>. QED BY <2>1, <2>2
<1>5. LoadOps' = LoadOps /\ StoreOps' = StoreOps
  BY <1>1, SameTrace DEF LoadOps, StoreOps
<1>6. AccessTypes'
  BY <1>1, <1>2, <1>5 DEF AccessTypes, AccessInv
<1>7. ASSUME NEW y \in LoadOps
      PROVE  Count(y, RTL0') + Count(y, RTL1') + Bit(y \in DtlbLoads') + Bit(y \in l1d')
               = Count(y, RTL0) + Count(y, RTL1) + Bit(y \in DtlbLoads) + Bit(y \in l1d)
  <2>1. Count(y, RTL0) \in Nat /\ Count(y, RTL1) \in Nat /\ Bit(y \in DtlbLoads) \in Nat
        /\ Bit(y \in l1d) \in Nat
        /\ Count(y, RTL0) + Count(y, RTL1) + Bit(y \in DtlbLoads) + Bit(y \in l1d) <= 1
    BY AccessFacts
  <2>2. Count(y, RTL0) = Count(y, RTL0') + (IF y = x THEN 1 ELSE 0) /\ Count(y, RTL0') \in Nat
    BY <1>2, <1>3
  <2>3. Bit(y \in DtlbLoads') = Bit(y \in DtlbLoads) + IF y = x THEN 1 ELSE 0
    BY <1>4, <2>1, <2>2 DEF Bit
  <2>. QED BY <1>1, <2>1, <2>2, <2>3
<1>8. LoadsPend'
  BY <1>1, <1>7, LoadsMove
<1>9. StoresPend'
  BY <1>1, <1>4, StoresMove
<1>. QED BY <1>6, <1>8, <1>9 DEF AccessInv

\* a store leaves RTS0 for it,
LEMMA TranslatingStore ==
  ASSUME AccessInv, TranslateStore
  PROVE  AccessInv'
<1>. DEFINE x == Head(RTS0)
<1>1. /\ RTS0 # <<>> /\ RTS0' = Tail(RTS0) /\ dtlb' = dtlb \cup {[type |-> "RFO", op |-> x]}
      /\ trace' = trace /\ sq' = sq /\ lq' = lq /\ RTL0' = RTL0 /\ RTL1' = RTL1 /\ RTS1' = RTS1
      /\ l1d' = l1d
  BY DEF TranslateStore, control, lsq
<1>2. RTS0' \in Seq(StoreOps) /\ x \in StoreOps
      /\ \A y : Count(y, RTS0) = Count(y, RTS0') + IF y = x THEN 1 ELSE 0
  BY <1>1, CountTail DEF AccessInv, AccessTypes
<1>3. \A y : Count(y, RTS0') \in Nat
  BY <1>2, CountType
<1>. HIDE DEF x
<1>4. DtlbStores' = DtlbStores \cup {x} /\ DtlbLoads' = DtlbLoads
  <2>1. DtlbStores' = DtlbStores \cup {x}
    BY <1>1, DtlbSets
  <2>2. DtlbLoads' = DtlbLoads
    BY <1>1, DtlbSets
  <2>. QED BY <2>1, <2>2
<1>5. LoadOps' = LoadOps /\ StoreOps' = StoreOps
  BY <1>1, SameTrace DEF LoadOps, StoreOps
<1>6. AccessTypes'
  BY <1>1, <1>2, <1>5 DEF AccessTypes, AccessInv
<1>7. ASSUME NEW y \in StoreOps
      PROVE  Count(y, RTS0') + Count(y, RTS1') + Bit(y \in DtlbStores')
               = Count(y, RTS0) + Count(y, RTS1) + Bit(y \in DtlbStores)
  <2>1. Count(y, RTS0) \in Nat /\ Count(y, RTS1) \in Nat /\ Bit(y \in DtlbStores) \in Nat
        /\ Count(y, RTS0) + Count(y, RTS1) + Bit(y \in DtlbStores) <= 1
    BY AccessFacts
  <2>2. Count(y, RTS0) = Count(y, RTS0') + (IF y = x THEN 1 ELSE 0) /\ Count(y, RTS0') \in Nat
    BY <1>2, <1>3
  <2>3. Bit(y \in DtlbStores') = Bit(y \in DtlbStores) + IF y = x THEN 1 ELSE 0
    BY <1>4, <2>1, <2>2 DEF Bit
  <2>. QED BY <1>1, <2>1, <2>2, <2>3
<1>8. StoresPend'
  BY <1>1, <1>7, StoresMove
<1>9. LoadsPend'
  BY <1>1, <1>4, LoadsMove
<1>. QED BY <1>6, <1>8, <1>9 DEF AccessInv

\* a translated load leaves RTL1 for the L1D,
LEMMA ExecutingLoad ==
  ASSUME AccessInv, ExecuteLoad
  PROVE  AccessInv'
<1>. DEFINE x == Head(RTL1)
<1>1. /\ RTL1 # <<>> /\ RTL1' = Tail(RTL1) /\ l1d' = l1d \cup {x}
      /\ trace' = trace /\ sq' = sq /\ lq' = lq /\ RTL0' = RTL0 /\ RTS0' = RTS0 /\ RTS1' = RTS1
      /\ dtlb' = dtlb
  BY DEF ExecuteLoad, control, lsq
<1>2. RTL1' \in Seq(LoadOps) /\ x \in LoadOps
      /\ \A y : Count(y, RTL1) = Count(y, RTL1') + IF y = x THEN 1 ELSE 0
  BY <1>1, CountTail DEF AccessInv, AccessTypes
<1>3. \A y : Count(y, RTL1') \in Nat
  BY <1>2, CountType
<1>. HIDE DEF x
<1>4. DtlbStores' = DtlbStores /\ DtlbLoads' = DtlbLoads
  BY <1>1 DEF DtlbLoads, DtlbStores
<1>5. LoadOps' = LoadOps /\ StoreOps' = StoreOps
  BY <1>1, SameTrace DEF LoadOps, StoreOps
<1>6. AccessTypes'
  BY <1>1, <1>2, <1>5 DEF AccessTypes, AccessInv
<1>7. ASSUME NEW y \in LoadOps
      PROVE  Count(y, RTL0') + Count(y, RTL1') + Bit(y \in DtlbLoads') + Bit(y \in l1d')
               = Count(y, RTL0) + Count(y, RTL1) + Bit(y \in DtlbLoads) + Bit(y \in l1d)
  <2>1. Count(y, RTL0) \in Nat /\ Count(y, RTL1) \in Nat /\ Bit(y \in DtlbLoads) \in Nat
        /\ Bit(y \in l1d) \in Nat
        /\ Count(y, RTL0) + Count(y, RTL1) + Bit(y \in DtlbLoads) + Bit(y \in l1d) <= 1
    BY AccessFacts
  <2>2. Count(y, RTL1) = Count(y, RTL1') + (IF y = x THEN 1 ELSE 0) /\ Count(y, RTL1') \in Nat
    BY <1>2, <1>3
  <2>3. Bit(y \in l1d') = Bit(y \in l1d) + IF y = x THEN 1 ELSE 0
    BY <1>1, <2>1, <2>2 DEF Bit
  <2>. QED BY <1>1, <1>4, <2>1, <2>2, <2>3
<1>8. LoadsPend'
  BY <1>1, <1>7, LoadsMove
<1>9. StoresPend'
  BY <1>1, <1>4, StoresMove
<1>. QED BY <1>6, <1>8, <1>9 DEF AccessInv

\* and an answer of the DTLB moves the access to RTL1 or RTS1.
LEMMA DtlbAnswers ==
  ASSUME AccessInv, NEW p \in dtlb, DtlbAnswer(p)
  PROVE  AccessInv'
<1>. DEFINE x == p.op
<1>1. /\ dtlb' = dtlb \ {p}
      /\ trace' = trace /\ sq' = sq /\ lq' = lq /\ RTL0' = RTL0 /\ RTS0' = RTS0 /\ l1d' = l1d
  BY DEF DtlbAnswer, control, lsq
<1>2. dtlb \subseteq [type : {"RFO"}, op : StoreOps] \cup [type : {"LOAD"}, op : LoadOps]
  BY DEF AccessInv, AccessTypes
<1>3. LoadOps' = LoadOps /\ StoreOps' = StoreOps
  BY <1>1, SameTrace DEF LoadOps, StoreOps
<1>4. CASE p.type = "RFO"
  <2>1. RTS1' = Append(RTS1, x) /\ RTL1' = RTL1 /\ x \in StoreOps /\ RTS1 \in Seq(StoreOps)
    BY <1>2, <1>4 DEF DtlbAnswer, AccessInv, AccessTypes
  <2>2. \A q \in dtlb : q.type = "RFO" /\ q.op = x => q = p
    BY <1>2, <1>4
  <2>3. \A q \in dtlb : q.type = "LOAD" => q # p
    BY <1>4
  <2>. HIDE DEF x
  <2>4. \A y : Count(y, RTS1') = Count(y, RTS1) + IF y = x THEN 1 ELSE 0
    BY <2>1, CountAppend
  <2>5. RTS1' \in Seq(StoreOps)
    BY <2>1
  <2>6. DtlbLoads' = DtlbLoads
    BY <1>1, <2>3 DEF DtlbLoads
  <2>7. x \in DtlbStores /\ DtlbStores' = DtlbStores \ {x}
    <3>1. x \in DtlbStores
      BY <1>4 DEF DtlbStores, x
    <3>2. \A y : y \in DtlbStores' <=> \E q \in dtlb' : q.type = "RFO" /\ q.op = y
      BY DEF DtlbStores
    <3>3. \A y : y \in DtlbStores <=> \E q \in dtlb : q.type = "RFO" /\ q.op = y
      BY DEF DtlbStores
    <3>4. p.op = x
      BY DEF x
    <3>. QED BY <1>1, <2>2, <3>1, <3>2, <3>3, <3>4
  <2>8. AccessTypes'
    BY <1>1, <1>3, <2>1, <2>5 DEF AccessTypes, AccessInv
  <2>9. ASSUME NEW y \in StoreOps
        PROVE  Count(y, RTS0') + Count(y, RTS1') + Bit(y \in DtlbStores')
                 = Count(y, RTS0) + Count(y, RTS1) + Bit(y \in DtlbStores)
    <3>1. Count(y, RTS0) \in Nat /\ Count(y, RTS1) \in Nat
      BY AccessFacts
    <3>2. Count(y, RTS1') = Count(y, RTS1) + IF y = x THEN 1 ELSE 0
      BY <2>4
    <3>. QED BY <1>1, <2>7, <3>1, <3>2 DEF Bit
  <2>10. StoresPend'
    BY <1>1, <2>9, StoresMove
  <2>11. LoadsPend'
    BY <1>1, <2>1, <2>6, LoadsMove
  <2>. QED BY <2>8, <2>10, <2>11 DEF AccessInv
<1>5. CASE p.type # "RFO"
  <2>1. RTL1' = Append(RTL1, x) /\ RTS1' = RTS1 /\ x \in LoadOps /\ RTL1 \in Seq(LoadOps)
        /\ p.type = "LOAD"
    BY <1>2, <1>5 DEF DtlbAnswer, AccessInv, AccessTypes
  <2>2. \A q \in dtlb : q.type = "LOAD" /\ q.op = x => q = p
    BY <1>2, <2>1
  <2>3. \A q \in dtlb : q.type = "RFO" => q # p
    BY <1>5
  <2>. HIDE DEF x
  <2>4. \A y : Count(y, RTL1') = Count(y, RTL1) + IF y = x THEN 1 ELSE 0
    BY <2>1, CountAppend
  <2>5. RTL1' \in Seq(LoadOps)
    BY <2>1
  <2>6. DtlbStores' = DtlbStores
    BY <1>1, <2>3 DEF DtlbStores
  <2>7. x \in DtlbLoads /\ DtlbLoads' = DtlbLoads \ {x}
    <3>1. x \in DtlbLoads
      BY <2>1 DEF DtlbLoads, x
    <3>2. \A y : y \in DtlbLoads' <=> \E q \in dtlb' : q.type = "LOAD" /\ q.op = y
      BY DEF DtlbLoads
    <3>3. \A y : y \in DtlbLoads <=> \E q \in dtlb : q.type = "LOAD" /\ q.op = y
      BY DEF DtlbLoads
    <3>4. p.op = x
      BY DEF x
    <3>. QED BY <1>1, <2>2, <3>1, <3>2, <3>3, <3>4
  <2>8. AccessTypes'
    BY <1>1, <1>3, <2>1, <2>5 DEF AccessTypes, AccessInv
  <2>9. ASSUME NEW y \in LoadOps
        PROVE  Count(y, RTL0') + Count(y, RTL1') + Bit(y \in DtlbLoads') + Bit(y \in l1d')
                 = Count(y, RTL0) + Count(y, RTL1) + Bit(y \in DtlbLoads) + Bit(y \in l1d)
    <3>1. Count(y, RTL0) \in Nat /\ Count(y, RTL1) \in Nat /\ Bit(y \in l1d) \in Nat
      BY AccessFacts
    <3>2. Count(y, RTL1') = Count(y, RTL1) + IF y = x THEN 1 ELSE 0
      BY <2>4
    <3>3. Bit(y \in DtlbLoads) = Bit(y \in DtlbLoads') + IF y = x THEN 1 ELSE 0
      BY <2>7 DEF Bit
    <3>4. Bit(y \in DtlbLoads') \in Nat
      BY DEF Bit
    <3>. QED BY <1>1, <3>1, <3>2, <3>3, <3>4
  <2>10. LoadsPend'
    BY <1>1, <2>9, LoadsMove
  <2>11. StoresPend'
    BY <1>1, <2>1, <2>6, StoresMove
  <2>. QED BY <2>8, <2>10, <2>11 DEF AccessInv
<1>. QED BY <1>4, <1>5

\* What counts as open.
LEMMA OpenFacts ==
  ASSUME trace \in Traces, NEW n \in Id
  PROVE  /\ OpenLoads(n) \subseteq Loads(n) /\ OpenStores(n) \subseteq Stores(n)
         /\ IsFiniteSet(OpenLoads(n)) /\ IsFiniteSet(OpenStores(n))
         /\ Cardinality(OpenLoads(n)) \in Nat /\ Cardinality(OpenStores(n)) \in Nat
<1>1. OpenLoads(n) \in SUBSET Loads(n) /\ OpenStores(n) \in SUBSET Stores(n)
  BY DEF OpenLoads, OpenStores
<1>2. IsFiniteSet(Loads(n)) /\ IsFiniteSet(Stores(n))
  BY InstructionFacts
<1>3. IsFiniteSet(OpenLoads(n))
  BY <1>1, <1>2, FS_Subset
<1>4. IsFiniteSet(OpenStores(n))
  BY <1>1, <1>2, FS_Subset
<1>. QED BY <1>1, <1>3, <1>4, FS_CardinalityType

\* The count of an entry of the ROB, and what it says.
LEMMA CountOfEntry ==
  ASSUME CoreTypes, CountersInv, NEW n \in Rob
  PROVE  /\ n \in Id /\ num_mem_ops[n] \in Nat
         /\ num_mem_ops[n] = Cardinality(OpenLoads(n)) + Cardinality(OpenStores(n))
         /\ num_mem_ops[n] = 0 <=> OpenLoads(n) = {} /\ OpenStores(n) = {}
         /\ executed[n] = "completed" => num_mem_ops[n] = 0
<1>1. n \in Int /\ retired < n /\ n <= dispatched /\ n \in Id
  BY RobFacts
<1>2. n \in 1 .. read /\ ~(n <= retired)
  BY <1>1 DEF CoreTypes
<1>3. num_mem_ops[n] = Cardinality(OpenLoads(n)) + Cardinality(OpenStores(n))
  BY <1>2 DEF CountersInv, OpsCounted
<1>4. /\ IsFiniteSet(OpenLoads(n)) /\ IsFiniteSet(OpenStores(n))
      /\ Cardinality(OpenLoads(n)) \in Nat /\ Cardinality(OpenStores(n)) \in Nat
  BY <1>1, OpenFacts DEF CoreTypes
<1>5. /\ Cardinality(OpenLoads(n)) = 0 <=> OpenLoads(n) = {}
      /\ Cardinality(OpenStores(n)) = 0 <=> OpenStores(n) = {}
  BY <1>4, Zero
<1>6. executed[n] = "completed" => num_mem_ops[n] = 0
  BY DEF CountersInv, OpsCounted
<1>. QED BY <1>1, <1>3, <1>4, <1>5, <1>6

\* Before an instruction enters the ROB all of its operations are open.
LEMMA FreshOps ==
  ASSUME CoreTypes, RegisterInv, StoreQueueInv, NEW n \in Id \ Rob
  PROVE  OpenLoads(n) = Loads(n) /\ OpenStores(n) = Stores(n)
<1>1. added[n] = {} /\ \A k \in DOMAIN sq : sq[k].op[1] # n
  BY QueueFacts
<1>2. \A k \in DOMAIN sq : \A i : sq[k].op # <<n, i>>
  BY <1>1
<1>. QED BY <1>1, <1>2 DEF OpenLoads, OpenStores

\* An instruction is read with as many operations pending as it has addresses,
LEMMA ReadingKeepsCounters ==
  ASSUME CoreTypes, RegisterInv, StoreQueueInv, CountersInv, NEW mispredicted \in BOOLEAN,
         ReadFromTrace(mispredicted)
  PROVE  CountersInv'
<1>. DEFINE n == read + 1
<1>1. /\ trace' = trace /\ read' = n /\ retired' = retired /\ dispatched' = dispatched
      /\ executed' = executed /\ added' = added /\ sq' = sq /\ lq' = lq /\ seen' = seen
      /\ inflight_mem_executions' = inflight_mem_executions /\ read < Len(trace)
      /\ num_mem_ops' = [num_mem_ops EXCEPT ![n] = Cardinality(Loads(n)) + Cardinality(Stores(n))]
  BY DEF ReadFromTrace, history, inflight
<1>2. /\ read \in Nat /\ retired \in Nat /\ dispatched \in Nat /\ retired <= dispatched
      /\ dispatched <= read /\ Id = 1 .. Len(trace) /\ Len(trace) \in Nat
  BY TraceFacts DEF CoreTypes
<1>3. n \in Id \ Rob /\ retired < n
  BY <1>1, <1>2 DEF Rob
<1>4. Rob' = Rob /\ Rob \subseteq Id
  BY <1>1, RobFacts DEF Rob
<1>5. Id' = Id /\ (\A m : Loads(m)' = Loads(m) /\ Stores(m)' = Stores(m) /\ (IsMemory(m)' <=> IsMemory(m)))
      /\ LoadOps' = LoadOps
  BY <1>1, SameTrace DEF LoadOps
<1>6. \A m : OpenLoads(m)' = OpenLoads(m) /\ OpenStores(m)' = OpenStores(m)
  BY <1>1, <1>5 DEF OpenLoads, OpenStores
<1>7. /\ \A m \in Id : m # n => num_mem_ops'[m] = num_mem_ops[m]
      /\ num_mem_ops'[n] = Cardinality(OpenLoads(n)) + Cardinality(OpenStores(n))
  BY <1>1, <1>3, FreshOps DEF CountersInv
<1>8. num_mem_ops' \in [Id -> Int]
  <2>1. Cardinality(Loads(n)) \in Nat /\ Cardinality(Stores(n)) \in Nat
    BY <1>3, InstructionFacts DEF CoreTypes
  <2>2. Cardinality(Loads(n)) + Cardinality(Stores(n)) \in Int
    BY <2>1
  <2>. HIDE DEF n
  <2>. QED BY <1>1, <2>2 DEF CountersInv
<1>9. ASSUME NEW m \in 1 .. read'
      PROVE  num_mem_ops'[m] = IF m <= retired THEN 0
                               ELSE Cardinality(OpenLoads(m)) + Cardinality(OpenStores(m))
  <2>1. CASE m = n
    BY <1>2, <1>3, <1>7, <2>1
  <2>2. CASE m # n
    <3>1. m \in 1 .. read /\ m \in Id
      BY <1>1, <1>2, <2>2
    <3>. QED BY <1>7, <2>2, <3>1 DEF CountersInv, OpsCounted
  <2>. QED BY <2>1, <2>2
<1>10. \A m \in Rob : num_mem_ops'[m] = num_mem_ops[m]
  BY <1>3, <1>4, <1>7
<1>11. OpsCounted'
  BY <1>1, <1>4, <1>6, <1>9, <1>10 DEF OpsCounted, CountersInv
<1>12. Unfinished' = Unfinished
  BY <1>1, <1>4, <1>5, <1>10 DEF Unfinished
<1>. QED BY <1>1, <1>5, <1>8, <1>11, <1>12 DEF CountersInv

\* it enters the ROB with none of them done,
LEMMA DispatchKeepsCounters ==
  ASSUME CoreTypes, RegisterInv, StoreQueueInv, CountersInv, DecodeAndDispatch
  PROVE  CountersInv'
<1>. DEFINE n == dispatched + 1
<1>1. /\ trace' = trace /\ read' = read /\ retired' = retired /\ dispatched' = n
      /\ executed' = executed /\ added' = added /\ sq' = sq /\ lq' = lq /\ seen' = seen
      /\ inflight_mem_executions' = inflight_mem_executions /\ dispatched < sent
      /\ num_mem_ops' = num_mem_ops
  BY DEF DecodeAndDispatch, frontEnd, lsq, history, inflight
<1>2. /\ read \in Nat /\ retired \in Nat /\ dispatched \in Nat /\ sent \in Nat /\ retired <= dispatched
      /\ sent <= read /\ Id = 1 .. Len(trace) /\ Len(trace) \in Nat /\ read <= Len(trace)
  BY TraceFacts DEF CoreTypes
<1>3. n \in Id \ Rob /\ Rob' = Rob \cup {n} /\ n \in 1 .. read /\ ~(n <= retired)
  BY <1>1, <1>2 DEF Rob
<1>5. Id' = Id /\ (\A m : Loads(m)' = Loads(m) /\ Stores(m)' = Stores(m) /\ (IsMemory(m)' <=> IsMemory(m)))
      /\ LoadOps' = LoadOps
  BY <1>1, SameTrace DEF LoadOps
<1>6. \A m : OpenLoads(m)' = OpenLoads(m) /\ OpenStores(m)' = OpenStores(m)
  BY <1>1, <1>5 DEF OpenLoads, OpenStores
<1>. HIDE DEF n
<1>7. executed[n] = "no"
  BY <1>3 DEF RegisterInv, OutsideIsClear
<1>8. IsMemory(n) => num_mem_ops[n] # 0
  <2>1. num_mem_ops[n] = Cardinality(Loads(n)) + Cardinality(Stores(n))
    BY <1>3, FreshOps DEF CountersInv, OpsCounted
  <2>2. /\ IsFiniteSet(Loads(n)) /\ IsFiniteSet(Stores(n))
        /\ Cardinality(Loads(n)) \in Nat /\ Cardinality(Stores(n)) \in Nat
    BY <1>3, InstructionFacts DEF CoreTypes
  <2>3. /\ Cardinality(Loads(n)) = 0 <=> Loads(n) = {}
        /\ Cardinality(Stores(n)) = 0 <=> Stores(n) = {}
    BY <2>2, Zero
  <2>. QED BY <2>1, <2>2, <2>3 DEF IsMemory
<1>9. OpsCounted'
  BY <1>1, <1>3, <1>6, <1>7 DEF OpsCounted, CountersInv
<1>10. Unfinished' = Unfinished
  <2>1. \A m : m \in Unfinished' <=> m \in Rob' /\ IsMemory(m) /\ num_mem_ops[m] = 0 /\ executed[m] # "completed"
    BY <1>1, <1>5 DEF Unfinished
  <2>2. \A m : m \in Unfinished <=> m \in Rob /\ IsMemory(m) /\ num_mem_ops[m] = 0 /\ executed[m] # "completed"
    BY DEF Unfinished
  <2>. QED BY <1>3, <1>8, <2>1, <2>2
<1>. QED BY <1>1, <1>5, <1>9, <1>10 DEF CountersInv

\* the execution of other instructions leaves the memory operations alone,
LEMMA ExecutionKeepsCounters ==
  ASSUME CoreTypes, RegisterInv, CountersInv, ExecuteInstruction
  PROVE  CountersInv'
<1>1. PICK n \in Id : n \in Rob /\ ~IsMemory(n) /\ DoExecution(n)
  BY ExecutionFacts
<1>2. /\ trace' = trace /\ read' = read /\ retired' = retired /\ dispatched' = dispatched
      /\ added' = added /\ sq' = sq /\ lq' = lq /\ seen' = seen
      /\ inflight_mem_executions' = inflight_mem_executions /\ num_mem_ops' = num_mem_ops
      /\ executed' = [executed EXCEPT ![n] = "inflight"]
  BY <1>1 DEF DoExecution, control, frontEnd, lsq, history
<1>3. Rob' = Rob /\ Rob \subseteq Id
  BY <1>2, RobFacts DEF Rob
<1>4. \A m \in Id : executed'[m] = IF m = n THEN "inflight" ELSE executed[m]
  BY <1>2 DEF CoreTypes
<1>5. Id' = Id /\ (\A m : Loads(m)' = Loads(m) /\ Stores(m)' = Stores(m) /\ (IsMemory(m)' <=> IsMemory(m)))
      /\ LoadOps' = LoadOps
  BY <1>2, SameTrace DEF LoadOps
<1>6. \A m : OpenLoads(m)' = OpenLoads(m) /\ OpenStores(m)' = OpenStores(m)
  BY <1>2, <1>5 DEF OpenLoads, OpenStores
<1>7. OpsCounted'
  BY <1>2, <1>3, <1>4, <1>6 DEF OpsCounted, CountersInv
<1>8. Unfinished' = Unfinished
  <2>1. \A m : m \in Unfinished' <=> m \in Rob /\ IsMemory(m) /\ num_mem_ops[m] = 0 /\ executed'[m] # "completed"
    BY <1>2, <1>3, <1>5 DEF Unfinished
  <2>2. \A m : m \in Unfinished <=> m \in Rob /\ IsMemory(m) /\ num_mem_ops[m] = 0 /\ executed[m] # "completed"
    BY DEF Unfinished
  <2>. QED BY <1>1, <1>3, <1>4, <2>1, <2>2
<1>. QED BY <1>2, <1>5, <1>7, <1>8 DEF CountersInv

\* and completing an instruction whose operations are all done removes it from the count in flight.
LEMMA CompletionKeepsCounters ==
  ASSUME CoreTypes, RegisterInv, CountersInv, NEW n \in Id, CompleteExecution(n)
  PROVE  CountersInv'
<1>1. /\ trace' = trace /\ read' = read /\ retired' = retired /\ dispatched' = dispatched
      /\ added' = added /\ sq' = sq /\ lq' = lq /\ seen' = seen /\ num_mem_ops' = num_mem_ops
      /\ n \in Rob /\ executed[n] = "inflight" /\ (IsMemory(n) => num_mem_ops[n] = 0)
  BY DEF CompleteExecution, frontEnd, lsq, history
<1>2. /\ IsMemory(n) => inflight_mem_executions' = inflight_mem_executions - 1
      /\ ~IsMemory(n) => inflight_mem_executions' = inflight_mem_executions
  BY DEF CompleteExecution
<1>3. Rob' = Rob /\ Rob \subseteq Id
  BY <1>1, RobFacts DEF Rob
<1>4. \A m \in Id : executed'[m] = IF m = n THEN "completed" ELSE executed[m]
  BY CompletionFacts
<1>5. Id' = Id /\ (\A m : Loads(m)' = Loads(m) /\ Stores(m)' = Stores(m) /\ (IsMemory(m)' <=> IsMemory(m)))
      /\ LoadOps' = LoadOps
  BY <1>1, SameTrace DEF LoadOps
<1>6. \A m : OpenLoads(m)' = OpenLoads(m) /\ OpenStores(m)' = OpenStores(m)
  BY <1>1, <1>5 DEF OpenLoads, OpenStores
<1>7. num_mem_ops[n] = 0
  <2>1. ASSUME ~IsMemory(n) PROVE num_mem_ops[n] = 0
    <3>1. OpenLoads(n) = {} /\ OpenStores(n) = {}
      BY <2>1 DEF IsMemory, OpenLoads, OpenStores
    <3>. QED BY <1>1, <3>1, CountOfEntry
  <2>. QED BY <1>1, <2>1
<1>8. OpsCounted'
  BY <1>1, <1>3, <1>4, <1>6, <1>7 DEF OpsCounted, CountersInv
<1>9. IsFiniteSet(Unfinished)
  <2>1. Unfinished \in SUBSET Rob /\ IsFiniteSet(Rob)
    BY RobFacts DEF Unfinished
  <2>. QED BY <2>1, FS_Subset
<1>10. /\ \A m : m \in Unfinished' <=> m \in Rob /\ IsMemory(m) /\ num_mem_ops[m] = 0 /\ executed'[m] # "completed"
       /\ \A m : m \in Unfinished <=> m \in Rob /\ IsMemory(m) /\ num_mem_ops[m] = 0 /\ executed[m] # "completed"
  BY <1>1, <1>3, <1>5 DEF Unfinished
<1>11. inflight_mem_executions' \in Int /\ inflight_mem_executions' = Cardinality(Unfinished')
  <2>1. CASE IsMemory(n)
    <3>1. Unfinished' = Unfinished \ {n} /\ n \in Unfinished
      BY <1>1, <1>3, <1>4, <1>10, <2>1
    <3>2. Cardinality(Unfinished \ {n}) = Cardinality(Unfinished) - 1
      BY <1>9, <3>1, FS_RemoveElement
    <3>. QED BY <1>2, <2>1, <3>1, <3>2 DEF CountersInv
  <2>2. CASE ~IsMemory(n)
    <3>1. Unfinished' = Unfinished
      BY <1>3, <1>4, <1>10, <2>2
    <3>. QED BY <1>2, <2>2, <3>1 DEF CountersInv
  <2>. QED BY <2>1, <2>2
<1>. QED BY <1>1, <1>5, <1>8, <1>11 DEF CountersInv

\* What is open in the next state is finite too.
LEMMA OpenNext ==
  ASSUME trace \in Traces, trace' = trace, NEW n \in Id
  PROVE  /\ OpenLoads(n)' \subseteq Loads(n) /\ OpenStores(n)' \subseteq Stores(n)
         /\ Cardinality(OpenLoads(n)') \in Nat /\ Cardinality(OpenStores(n)') \in Nat
<1>1. OpenLoads(n)' \in SUBSET Loads(n) /\ OpenStores(n)' \in SUBSET Stores(n)
  BY SameTrace DEF OpenLoads, OpenStores
<1>2. IsFiniteSet(Loads(n)) /\ IsFiniteSet(Stores(n))
  BY InstructionFacts
<1>3. IsFiniteSet(OpenLoads(n)')
  BY <1>1, <1>2, FS_Subset
<1>4. IsFiniteSet(OpenStores(n)')
  BY <1>1, <1>2, FS_Subset
<1>. QED BY <1>1, <1>3, <1>4, FS_CardinalityType

\* Finish counts right when each of its operations was open and no other ends.
LEMMA FinishKeepsCounters ==
  ASSUME CoreTypes, CountersInv, NEW ops, NEW loads, Finish(ops, loads),
         trace' = trace, read' = read, retired' = retired, dispatched' = dispatched,
         executed' = executed, DOMAIN seen' = DOMAIN seen,
         \A y \in ops : y[1] \in Rob,
         \A m \in Rob : IsFiniteSet({y \in ops : y[1] = m}),
         \A m \in Rob : Cardinality(OpenLoads(m)) + Cardinality(OpenStores(m))
                          = Cardinality(OpenLoads(m)') + Cardinality(OpenStores(m)')
                              + Cardinality({y \in ops : y[1] = m}),
         \A m \in Id \ Rob : OpenLoads(m)' = OpenLoads(m) /\ OpenStores(m)' = OpenStores(m)
  PROVE  CountersInv'
<1>. DEFINE C(m) == Cardinality({y \in ops : y[1] = m})
            ended == {m \in Id : num_mem_ops'[m] = 0 /\ num_mem_ops[m] # 0}
<1>1. /\ num_mem_ops' = [m \in Id |-> num_mem_ops[m] - C(m)]
      /\ inflight_mem_executions' = inflight_mem_executions + Cardinality(ended)
  BY DEF Finish
<1>2. Rob' = Rob /\ Rob \subseteq Id /\ IsFiniteSet(Rob)
  BY RobFacts DEF Rob
<1>3. Id' = Id /\ (\A m : Loads(m)' = Loads(m) /\ Stores(m)' = Stores(m) /\ (IsMemory(m)' <=> IsMemory(m)))
      /\ LoadOps' = LoadOps
  BY SameTrace DEF LoadOps
<1>4. \A m \in Id : num_mem_ops[m] \in Int
  BY DEF CountersInv
<1>5. \A m \in Rob : C(m) \in Nat
  BY FS_CardinalityType
<1>6. \A m \in Id \ Rob : C(m) = 0
  <2>1. ASSUME NEW m \in Id \ Rob PROVE {y \in ops : y[1] = m} = {}
    OBVIOUS
  <2>. QED BY <2>1, FS_EmptySet
<1>7. /\ \A m \in Rob : Cardinality(OpenLoads(m)) + Cardinality(OpenStores(m))
                          = Cardinality(OpenLoads(m)') + Cardinality(OpenStores(m)') + C(m)
  OBVIOUS
<1>. HIDE DEF C
<1>8. \A m \in Id : num_mem_ops'[m] = num_mem_ops[m] - C(m) /\ C(m) \in Nat
  BY <1>1, <1>5, <1>6
<1>9. num_mem_ops' \in [Id -> Int]
  BY <1>1, <1>4, <1>8
<1>10. ASSUME NEW m \in Rob
       PROVE  /\ num_mem_ops'[m] = Cardinality(OpenLoads(m)') + Cardinality(OpenStores(m)')
              /\ num_mem_ops'[m] \in Nat /\ num_mem_ops[m] \in Nat
              /\ num_mem_ops[m] = 0 => num_mem_ops'[m] = 0
  <2>1. num_mem_ops[m] = Cardinality(OpenLoads(m)) + Cardinality(OpenStores(m)) /\ num_mem_ops[m] \in Nat
    BY CountOfEntry
  <2>2. Cardinality(OpenLoads(m)') \in Nat /\ Cardinality(OpenStores(m)') \in Nat
    BY <1>2, OpenNext DEF CoreTypes
  <2>3. num_mem_ops'[m] = num_mem_ops[m] - C(m) /\ C(m) \in Nat
    BY <1>2, <1>8
  <2>4. Cardinality(OpenLoads(m)) + Cardinality(OpenStores(m))
          = Cardinality(OpenLoads(m)') + Cardinality(OpenStores(m)') + C(m)
    BY <1>7
  <2>. QED BY <2>1, <2>2, <2>3, <2>4
<1>11. \A m \in Id \ Rob : num_mem_ops'[m] = num_mem_ops[m]
  BY <1>4, <1>6, <1>8
<1>12. OpsCounted'
  <2>1. ASSUME NEW m \in 1 .. read
        PROVE  num_mem_ops'[m] = IF m <= retired THEN 0
                                 ELSE Cardinality(OpenLoads(m)') + Cardinality(OpenStores(m)')
    <3>1. m \in Id /\ m \in Int
      BY TraceFacts DEF CoreTypes
    <3>2. m \in Rob => ~(m <= retired)
      BY <3>1, RobFacts DEF CoreTypes
    <3>3. CASE m \in Rob
      BY <1>10, <3>2, <3>3
    <3>4. CASE m \notin Rob
      <4>1. num_mem_ops'[m] = num_mem_ops[m] /\ OpenLoads(m)' = OpenLoads(m) /\ OpenStores(m)' = OpenStores(m)
        BY <1>11, <3>1, <3>4
      <4>2. num_mem_ops[m] = IF m <= retired THEN 0
                                 ELSE Cardinality(OpenLoads(m)) + Cardinality(OpenStores(m))
        BY DEF CountersInv, OpsCounted
      <4>. QED BY <4>1, <4>2
    <3>. QED BY <3>3, <3>4
  <2>2. \A m \in Rob : executed[m] = "completed" => num_mem_ops'[m] = 0
    BY <1>10, CountOfEntry
  <2>. QED BY <1>2, <2>1, <2>2 DEF OpsCounted
<1>13. ASSUME NEW m \in ended PROVE m \in Rob /\ IsMemory(m) /\ executed[m] # "completed"
  <2>1. m \in Rob
    BY <1>11, <1>13
  <2>2. num_mem_ops[m] # 0
    BY <1>13
  <2>3. executed[m] # "completed" /\ ~(OpenLoads(m) = {} /\ OpenStores(m) = {})
    BY <2>1, <2>2, CountOfEntry
  <2>4. OpenLoads(m) \subseteq Loads(m) /\ OpenStores(m) \subseteq Stores(m)
    BY DEF OpenLoads, OpenStores
  <2>. QED BY <2>1, <2>3, <2>4 DEF IsMemory
<1>14. /\ \A m : m \in Unfinished' <=> m \in Rob /\ IsMemory(m) /\ num_mem_ops'[m] = 0 /\ executed[m] # "completed"
       /\ \A m : m \in Unfinished <=> m \in Rob /\ IsMemory(m) /\ num_mem_ops[m] = 0 /\ executed[m] # "completed"
  BY <1>2, <1>3 DEF Unfinished
<1>15. \A m : m \in ended <=> m \in Id /\ num_mem_ops'[m] = 0 /\ num_mem_ops[m] # 0
  OBVIOUS
<1>. HIDE DEF ended
<1>16. Unfinished' = Unfinished \cup ended /\ Unfinished \cap ended = {}
  BY <1>2, <1>10, <1>13, <1>14, <1>15
<1>17. IsFiniteSet(Unfinished \cup ended)
  <2>1. Unfinished \cup ended \in SUBSET Rob
    BY <1>13, <1>14
  <2>. QED BY <1>2, <2>1, FS_Subset
<1>18. Cardinality(Unfinished') = Cardinality(Unfinished) + Cardinality(ended) /\ Cardinality(ended) \in Nat
  BY <1>16, <1>17, CutInTwo
<1>19. inflight_mem_executions' \in Int /\ inflight_mem_executions' = Cardinality(Unfinished')
  BY <1>1, <1>18 DEF CountersInv
<1>. QED BY <1>3, <1>9, <1>12, <1>19 DEF CountersInv

\* A load of the queue belongs to an entry of the ROB and knows its producer.
LEMMA WaitingLoads ==
  ASSUME CoreTypes, RegisterInv, StoreQueueInv, LoadQueueInv, NEW x \in DOMAIN lq
  PROVE  /\ x \in LoadOps /\ x[1] \in Id /\ x[1] \in Rob /\ x[2] \in Loads(x[1]) /\ x = <<x[1], x[2]>>
         /\ <<"load", x[2]>> \in added[x[1]] /\ lq[x] = MemProducer(x) /\ lq[x] \in Nat
         /\ x[2] \in OpenLoads(x[1])
<1>1. x \in LoadOps /\ <<"load", x[2]>> \in added[x[1]] /\ lq[x] = MemProducer(x)
  BY DEF LoadQueueInv, InLoadQueue
<1>2. x[1] \in Id /\ x[2] \in Loads(x[1]) /\ x = <<x[1], x[2]>>
  BY <1>1, OpFacts
<1>3. x[1] \in Rob
  BY <1>1, <1>2, QueueFacts
<1>4. lq[x] \in Nat
  BY <1>1, MemProducerFacts
<1>5. x[2] \in OpenLoads(x[1])
  BY <1>2 DEF OpenLoads
<1>. QED BY <1>1, <1>2, <1>3, <1>4, <1>5

\* Where an access of a load is on its way, the load waits for no store.
LEMMA PendingLoad ==
  ASSUME AccessInv, NEW x \in LoadOps,
         x \in l1d \/ x \in DtlbLoads \/ Count(x, RTL0) # 0 \/ Count(x, RTL1) # 0
  PROVE  /\ x \in DOMAIN lq /\ lq[x] = 0
         /\ Count(x, RTL0) + Count(x, RTL1) + Bit(x \in DtlbLoads) + Bit(x \in l1d) = 1
<1>1. Count(x, RTL0) + Count(x, RTL1) + Bit(x \in DtlbLoads) + Bit(x \in l1d)
        = Bit(x \in DOMAIN lq /\ lq[x] = 0)
  BY DEF AccessInv, LoadsPend
<1>2. Count(x, RTL0) \in Nat /\ Count(x, RTL1) \in Nat /\ Bit(x \in DtlbLoads) \in Nat
      /\ Bit(x \in l1d) \in Nat
  BY AccessFacts
<1>3. Count(x, RTL0) # 0 \/ Count(x, RTL1) # 0 \/ Bit(x \in DtlbLoads) # 0 \/ Bit(x \in l1d) # 0
  BY DEF Bit
<1>4. Bit(x \in DOMAIN lq /\ lq[x] = 0) # 0
  <2>. DEFINE a == Count(x, RTL0)
              b == Count(x, RTL1)
              c == Bit(x \in DtlbLoads)
              d == Bit(x \in l1d)
              e == Bit(x \in DOMAIN lq /\ lq[x] = 0)
  <2>1. a + b + c + d = e /\ a \in Nat /\ b \in Nat /\ c \in Nat /\ d \in Nat
    BY <1>1, <1>2
  <2>2. a # 0 \/ b # 0 \/ c # 0 \/ d # 0
    BY <1>3
  <2>. HIDE DEF a, b, c, d, e
  <2>3. e # 0
    BY <2>1, <2>2
  <2>. QED BY <2>3 DEF e
<1>5. x \in DOMAIN lq /\ lq[x] = 0 /\ Bit(x \in DOMAIN lq /\ lq[x] = 0) = 1
  BY <1>4 DEF Bit
<1>. QED BY <1>1, <1>5

\* Where an access of a store is on its way, the store has not been executed.
LEMMA PendingStore ==
  ASSUME AccessInv, NEW x \in StoreOps,
         x \in DtlbStores \/ Count(x, RTS0) # 0 \/ Count(x, RTS1) # 0
  PROVE  /\ \E k \in DOMAIN sq : sq[k].op = x /\ ~sq[k].executed
         /\ Count(x, RTS0) + Count(x, RTS1) + Bit(x \in DtlbStores) = 1
<1>1. Count(x, RTS0) + Count(x, RTS1) + Bit(x \in DtlbStores)
        = Bit(\E k \in DOMAIN sq : sq[k].op = x /\ ~sq[k].executed)
  BY DEF AccessInv, StoresPend
<1>2. Count(x, RTS0) \in Nat /\ Count(x, RTS1) \in Nat /\ Bit(x \in DtlbStores) \in Nat
  BY AccessFacts
<1>3. Count(x, RTS0) # 0 \/ Count(x, RTS1) # 0 \/ Bit(x \in DtlbStores) # 0
  BY DEF Bit
<1>4. Bit(\E k \in DOMAIN sq : sq[k].op = x /\ ~sq[k].executed) # 0
  <2>. DEFINE a == Count(x, RTS0)
              b == Count(x, RTS1)
              c == Bit(x \in DtlbStores)
              e == Bit(\E k \in DOMAIN sq : sq[k].op = x /\ ~sq[k].executed)
  <2>1. a + b + c = e /\ a \in Nat /\ b \in Nat /\ c \in Nat
    BY <1>1, <1>2
  <2>2. a # 0 \/ b # 0 \/ c # 0
    BY <1>3
  <2>. HIDE DEF a, b, c, e
  <2>3. e # 0
    BY <2>1, <2>2
  <2>. QED BY <2>3 DEF e
<1>5. (\E k \in DOMAIN sq : sq[k].op = x /\ ~sq[k].executed)
      /\ Bit(\E k \in DOMAIN sq : sq[k].op = x /\ ~sq[k].executed) = 1
  BY <1>4 DEF Bit
<1>. QED BY <1>1, <1>5

\* Loads leave the queue: each was open and is so no longer.
LEMMA LoadsClose ==
  ASSUME CoreTypes, RegisterInv, StoreQueueInv, LoadQueueInv, NEW loads \in SUBSET DOMAIN lq,
         lq' = [x \in DOMAIN lq \ loads |-> lq[x]], trace' = trace, added' = added, NEW m \in Id
  PROVE  /\ IsFiniteSet({y \in loads : y[1] = m}) /\ Cardinality({y \in loads : y[1] = m}) \in Nat
         /\ Cardinality(OpenLoads(m)) = Cardinality(OpenLoads(m)') + Cardinality({y \in loads : y[1] = m})
         /\ {y \in loads : y[1] = m} = {} => OpenLoads(m)' = OpenLoads(m)
<1>. DEFINE L == {y \in loads : y[1] = m}
            D == {i \in Loads(m) : <<m, i>> \in loads}
            f == [i \in D |-> <<m, i>>]
<1>1. \A y \in loads : y \in DOMAIN lq /\ y[2] \in Loads(y[1]) /\ y = <<y[1], y[2]>>
                       /\ <<"load", y[2]>> \in added[y[1]] /\ y[2] \in OpenLoads(y[1])
  BY WaitingLoads
<1>2. DOMAIN lq' = DOMAIN lq \ loads
  OBVIOUS
<1>3. Loads(m)' = Loads(m)
  BY SameTrace
<1>4. \A i \in D : <<"load", i>> \in added[m] /\ i \in OpenLoads(m)
  BY <1>1
<1>5. ASSUME NEW i PROVE i \in OpenLoads(m)' <=> i \in OpenLoads(m) /\ i \notin D
  <2>1. i \in OpenLoads(m)' <=> i \in Loads(m) /\ (<<"load", i>> \in added[m] => <<m, i>> \in DOMAIN lq \ loads)
    BY <1>2, <1>3 DEF OpenLoads
  <2>2. i \in OpenLoads(m) <=> i \in Loads(m) /\ (<<"load", i>> \in added[m] => <<m, i>> \in DOMAIN lq)
    BY DEF OpenLoads
  <2>. QED BY <1>4, <2>1, <2>2
<1>6. OpenLoads(m) = OpenLoads(m)' \cup D /\ OpenLoads(m)' \cap D = {}
  BY <1>4, <1>5
<1>7. IsFiniteSet(OpenLoads(m))
  BY OpenFacts DEF CoreTypes
<1>8. Cardinality(OpenLoads(m)) = Cardinality(OpenLoads(m)') + Cardinality(D) /\ IsFiniteSet(D)
      /\ Cardinality(D) \in Nat
  <2>. DEFINE O == OpenLoads(m)'
  <2>1. OpenLoads(m) = O \cup D /\ O \cap D = {} /\ IsFiniteSet(OpenLoads(m))
    BY <1>6, <1>7
  <2>. HIDE DEF O, D
  <2>2. IsFiniteSet(O \cup D) /\ Cardinality(OpenLoads(m)) = Cardinality(O \cup D)
    BY <2>1
  <2>3. /\ Cardinality(O \cup D) = Cardinality(O) + Cardinality(D)
        /\ IsFiniteSet(D) /\ Cardinality(D) \in Nat
    BY <2>1, <2>2, CutInTwo
  <2>. QED BY <2>2, <2>3 DEF O
<1>9. IsFiniteSet(L) /\ Cardinality(L) = Cardinality(D)
  <2>1. f \in [D -> L]
    OBVIOUS
  <2>2. \A i, j \in D : f[i] = f[j] => i = j
    OBVIOUS
  <2>3. ASSUME NEW y \in L PROVE \E i \in D : f[i] = y
    <3>1. y[2] \in D /\ y = <<m, y[2]>>
      BY <1>1
    <3>. QED BY <3>1
  <2>. HIDE DEF f, D, L
  <2>. QED BY <1>8, <2>1, <2>2, <2>3, SameSize
<1>10. L = {} => OpenLoads(m)' = OpenLoads(m)
  <2>1. L = {} => D = {}
    <3>1. \A i \in D : <<m, i>> \in L
      OBVIOUS
    <3>. QED BY <3>1
  <2>. QED BY <1>6, <2>1
<1>. QED BY <1>8, <1>9, <1>10

\* No load or store can take its slot.
LEMMA LoadsLeaveSlots ==
  ASSUME SlotsInv, NEW loads, lq' = [x \in DOMAIN lq \ loads |-> lq[x]], wq' = wq
  PROVE  SlotsInv'
<1>1. DOMAIN lq' \in SUBSET DOMAIN lq
  OBVIOUS
<1>2. IsFiniteSet(DOMAIN lq') /\ Cardinality(DOMAIN lq') <= Cardinality(DOMAIN lq)
  BY <1>1, FS_Subset DEF SlotsInv
<1>3. Cardinality(DOMAIN lq') \in Nat /\ Cardinality(DOMAIN lq) \in Nat /\ LQ_SIZE \in Nat
  BY <1>2, FS_CardinalityType, CoreAssumption DEF SlotsInv
<1>4. Cardinality(DOMAIN lq') <= LQ_SIZE
  BY <1>2, <1>3 DEF SlotsInv
<1>. QED BY <1>2, <1>4 DEF SlotsInv

\* The answer of the L1D finishes its load, which leaves the queue and the count.
LEMMA L1dAnswersLoads ==
  ASSUME CoreTypes, RegisterInv, StoreQueueInv, MemoryInv, NEW x \in l1d, L1dAnswer(x)
  PROVE  MemoryInv'
<1>. USE DEF MemoryInv
<1>1. /\ trace' = trace /\ read' = read /\ retired' = retired /\ dispatched' = dispatched
      /\ executed' = executed /\ added' = added /\ sq' = sq /\ seen' = seen /\ wq' = wq /\ dtlb' = dtlb
      /\ memory_instrs_depend_on_me' = memory_instrs_depend_on_me
      /\ RTL0' = RTL0 /\ RTL1' = RTL1 /\ RTS0' = RTS0 /\ RTS1' = RTS1
      /\ l1d' = l1d \ {x} /\ Finish({x}, {x}) /\ lq' = [y \in DOMAIN lq \ {x} |-> lq[y]]
  BY DEF L1dAnswer, Finish, control, frontEnd, rings, history
<1>2. x \in LoadOps /\ x \in DOMAIN lq /\ lq[x] = 0
      /\ Count(x, RTL0) + Count(x, RTL1) + Bit(x \in DtlbLoads) + Bit(x \in l1d) = 1
  <2>1. x \in LoadOps
    BY DEF AccessInv, AccessTypes
  <2>. QED BY <2>1, PendingLoad
<1>3. x[1] \in Id /\ x[1] \in Rob /\ x = <<x[1], x[2]>>
  BY <1>2, WaitingLoads
<1>4. Rob' = Rob /\ Id' = Id /\ Rob \subseteq Id /\ (\A n : Stores(n)' = Stores(n) /\ Loads(n)' = Loads(n))
      /\ LoadOps' = LoadOps /\ StoreOps' = StoreOps /\ (\A y : MemProducer(y)' = MemProducer(y))
      /\ \A y : Address(y, "load")' = Address(y, "load") /\ Address(y, "store")' = Address(y, "store")
  BY <1>1, SameTrace, RobFacts, MemProducerKept DEF Rob
<1>5. \A m : OpenStores(m)' = OpenStores(m)
  BY <1>1, <1>4 DEF OpenStores
<1>6. DOMAIN lq' = DOMAIN lq \ {x} /\ \A y \in DOMAIN lq \ {x} : lq'[y] = lq[y]
  BY <1>1
<1>7. ASSUME NEW m \in Id
      PROVE  /\ IsFiniteSet({y \in {x} : y[1] = m}) /\ Cardinality({y \in {x} : y[1] = m}) \in Nat
             /\ Cardinality(OpenLoads(m)) = Cardinality(OpenLoads(m)') + Cardinality({y \in {x} : y[1] = m})
             /\ {y \in {x} : y[1] = m} = {} => OpenLoads(m)' = OpenLoads(m)
  <2>1. {x} \in SUBSET DOMAIN lq
    BY <1>2
  <2>. QED BY <1>1, <2>1, LoadsClose
<1>8. CountersInv'
  <2>1. ASSUME NEW m \in Rob
        PROVE  Cardinality(OpenLoads(m)) + Cardinality(OpenStores(m))
                 = Cardinality(OpenLoads(m)') + Cardinality(OpenStores(m)')
                     + Cardinality({y \in {x} : y[1] = m})
    <3>1. m \in Id
      BY <1>4
    <3>2. Cardinality(OpenLoads(m)') \in Nat /\ Cardinality(OpenStores(m)') \in Nat
      BY <1>1, <3>1, OpenNext DEF CoreTypes
    <3>. QED BY <1>5, <1>7, <3>1, <3>2
  <2>2. \A m \in Id \ Rob : OpenLoads(m)' = OpenLoads(m) /\ OpenStores(m)' = OpenStores(m)
    <3>1. ASSUME NEW m \in Id \ Rob PROVE {y \in {x} : y[1] = m} = {}
      BY <1>3
    <3>. QED BY <1>5, <1>7, <3>1
  <2>3. \A m \in Rob : IsFiniteSet({y \in {x} : y[1] = m})
    BY <1>4, <1>7
  <2>4. \A y \in {x} : y[1] \in Rob
    BY <1>3
  <2>. QED BY <1>1, <2>1, <2>2, <2>3, <2>4, FinishKeepsCounters
<1>9. LoadQueueInv'
  <2>1. InLoadQueue'
    BY <1>1, <1>4, <1>6 DEF LoadQueueInv, InLoadQueue
  <2>2. DependentsKnown'
    BY <1>1, <1>4, <1>6 DEF LoadQueueInv, DependentsKnown
  <2>3. ProducerWaits'
    BY <1>1, <1>4, <1>6 DEF LoadQueueInv, ProducerWaits
  <2>. QED BY <2>1, <2>2, <2>3 DEF LoadQueueInv
<1>10. AccessInv'
  <2>1. DtlbLoads' = DtlbLoads /\ DtlbStores' = DtlbStores
    BY <1>1 DEF DtlbLoads, DtlbStores
  <2>2. AccessTypes'
    BY <1>1, <1>4 DEF AccessTypes, AccessInv
  <2>3. StoresPend'
    BY <1>1, <2>1, StoresMove
  <2>4. ASSUME NEW y \in LoadOps
        PROVE  Count(y, RTL0) + Count(y, RTL1) + Bit(y \in DtlbLoads) + Bit(y \in l1d')
                 = Bit(y \in DOMAIN lq' /\ lq'[y] = 0)
    <3>1. CASE y = x
      <4>1. Bit(x \in l1d) = 1 /\ Bit(x \in l1d') = 0 /\ Bit(x \in DOMAIN lq' /\ lq'[x] = 0) = 0
        BY <1>1, <1>6 DEF Bit
      <4>2. Count(x, RTL0) \in Nat /\ Count(x, RTL1) \in Nat /\ Bit(x \in DtlbLoads) \in Nat
        BY <1>2, AccessFacts
      <4>. QED BY <1>2, <3>1, <4>1, <4>2
    <3>2. CASE y # x
      <4>1. Bit(y \in l1d') = Bit(y \in l1d)
        BY <1>1, <3>2
      <4>2. Bit(y \in DOMAIN lq' /\ lq'[y] = 0) = Bit(y \in DOMAIN lq /\ lq[y] = 0)
        BY <1>6, <3>2
      <4>. QED BY <4>1, <4>2 DEF AccessInv, LoadsPend
    <3>. QED BY <3>1, <3>2
  <2>5. LoadsPend'
    BY <1>1, <1>4, <2>1, <2>4 DEF LoadsPend, Count, Bit
  <2>. QED BY <2>2, <2>3, <2>5 DEF AccessInv
<1>11. SlotsInv'
  BY <1>1, LoadsLeaveSlots
<1>. QED BY <1>8, <1>9, <1>10, <1>11

\* The store that is executed is in the queue once, and the loads it serves
\* are younger ones that wait for it.
LEMMA ServedLoads ==
  ASSUME CoreTypes, RegisterInv, StoreQueueInv, MemoryInv, RTS1 # <<>>
  PROVE  LET x == Head(RTS1) IN
         /\ x \in StoreOps /\ x[1] \in Id /\ x[2] \in Stores(x[1]) /\ x = <<x[1], x[2]>>
         /\ x[1] \in Rob /\ x[2] \in OpenStores(x[1])
         /\ Count(x, RTS0) + Count(x, RTS1) + Bit(x \in DtlbStores) = 1
         /\ \A y \in Dependents(x) : /\ y \in LoadOps /\ y[1] \in Id /\ y = <<y[1], y[2]>>
                                     /\ x[1] < y[1] /\ x[1] \in Older(y[1]) /\ y[1] \in Rob
                                     /\ MemProducer(y) # 0
<1>. USE DEF MemoryInv
<1>. DEFINE x == Head(RTS1)
<1>1. x \in StoreOps /\ Count(x, RTS1) # 0
  <2>1. RTS1 \in Seq(StoreOps)
    BY DEF AccessInv, AccessTypes
  <2>2. Tail(RTS1) \in Seq(StoreOps) /\ x \in StoreOps /\ Count(x, RTS1) = Count(x, Tail(RTS1)) + 1
    BY <2>1, CountTail
  <2>3. Count(x, Tail(RTS1)) \in Nat
    BY <2>2, CountType
  <2>. QED BY <2>2, <2>3
<1>. HIDE DEF x
<1>2. x[1] \in Id /\ x[2] \in Stores(x[1]) /\ x = <<x[1], x[2]>>
  BY <1>1, OpFacts
<1>3. (\E k \in DOMAIN sq : sq[k].op = x /\ ~sq[k].executed)
      /\ Count(x, RTS0) + Count(x, RTS1) + Bit(x \in DtlbStores) = 1
  BY <1>1, PendingStore
<1>4. PICK k \in DOMAIN sq : sq[k].op = x /\ ~sq[k].executed
  BY <1>3
<1>5. x[1] \in Rob
  BY <1>4, QueueFacts
<1>6. x[2] \in OpenStores(x[1])
  <2>1. \A j \in DOMAIN sq : sq[j].op = x => j = k
    BY <1>4 DEF StoreQueueInv, InStoreQueue
  <2>. QED BY <1>2, <1>4, <2>1 DEF OpenStores
<1>7. ASSUME NEW y \in Dependents(x)
      PROVE  /\ y \in LoadOps /\ y[1] \in Id /\ y = <<y[1], y[2]>>
             /\ x[1] < y[1] /\ x[1] \in Older(y[1]) /\ y[1] \in Rob /\ MemProducer(y) # 0
  <2>1. y \in LoadOps /\ y[1] \in memory_instrs_depend_on_me[x[1]] /\ Address(y, "load") = Address(x, "store")
    BY DEF Dependents, CountersInv
  <2>2. y[1] \in Id /\ y = <<y[1], y[2]>>
    BY <2>1, OpFacts
  <2>3. x[1] < y[1] /\ x[1] \in Rob /\ y[1] \in Rob
    BY <1>2, <2>1, <2>2 DEF LoadQueueInv, DependentsKnown
  <2>4. x[1] \in Older(y[1])
    BY <1>2, <2>2, <2>3, RobFacts
  <2>5. Address(<<x[1], x[2]>>, "store") = Address(y, "load")
    BY <1>2, <2>1
  <2>. QED BY <1>2, <2>1, <2>2, <2>3, <2>4, <2>5, MemProducerFacts
<1>. QED BY <1>1, <1>2, <1>3, <1>5, <1>6, <1>7 DEF x

\* execute_store finishes its store and every load it forwards to: each is counted once,
LEMMA ExecutingStoreKeepsCounters ==
  ASSUME CoreTypes, RegisterInv, StoreQueueInv, MemoryInv, ExecuteStore
  PROVE  CountersInv'
<1>. USE DEF MemoryInv
<1>x. PICK x : x = Head(RTS1)
  OBVIOUS
<1>s. PICK served : served = Dependents(x) \cap DOMAIN lq
  OBVIOUS
<1>. DEFINE ops == {x} \cup served
<1>1. /\ trace' = trace /\ read' = read /\ retired' = retired /\ dispatched' = dispatched
      /\ executed' = executed /\ added' = added /\ RTS1 # <<>> /\ Finish(ops, served)
      /\ lq' = [y \in DOMAIN lq \ served |-> lq[y]] /\ DOMAIN seen' = DOMAIN seen
  BY <1>x, <1>s DEF ExecuteStore, Finish, control, frontEnd
<1>2. /\ x[1] \in Id /\ x = <<x[1], x[2]>> /\ x[1] \in Rob /\ x[2] \in OpenStores(x[1])
      /\ \A y \in served : x[1] < y[1] /\ y[1] \in Rob /\ y[1] \in Id
  BY <1>1, <1>x, <1>s, ServedLoads
<1>3. served \in SUBSET DOMAIN lq
  BY <1>s
<1>4. /\ DOMAIN sq' = DOMAIN sq
      /\ \A k \in DOMAIN sq : /\ sq'[k].op = sq[k].op
                              /\ sq'[k].executed <=> sq[k].executed \/ sq[k].op = x
  BY <1>x, ExecutedEntries DEF StoreQueueInv
<1>5. (\A n : Stores(n)' = Stores(n)) /\ Rob \subseteq Id /\ \A n \in Id : n \in Int
  BY <1>1, SameTrace, RobFacts
<1>6. ASSUME NEW m \in Id
      PROVE  /\ IsFiniteSet({y \in served : y[1] = m}) /\ Cardinality({y \in served : y[1] = m}) \in Nat
             /\ Cardinality(OpenLoads(m)) = Cardinality(OpenLoads(m)') + Cardinality({y \in served : y[1] = m})
             /\ {y \in served : y[1] = m} = {} => OpenLoads(m)' = OpenLoads(m)
  BY <1>1, <1>3, LoadsClose
<1>7. ASSUME NEW m \in Id, m # x[1] PROVE OpenStores(m)' = OpenStores(m)
  <2>1. \A i, k : k \in DOMAIN sq /\ sq[k].op = <<m, i>> => sq[k].op # x
    BY <1>2, <1>7
  <2>. QED BY <1>4, <1>5, <2>1 DEF OpenStores
<1>8. OpenStores(x[1])' = OpenStores(x[1]) \ {x[2]}
  <2>1. \E k \in DOMAIN sq : sq[k].op = x
    <3>1. Count(x, RTS1) # 0 /\ x \in StoreOps
      <4>1. RTS1 \in Seq(StoreOps)
        BY DEF AccessInv, AccessTypes
      <4>2. Tail(RTS1) \in Seq(StoreOps) /\ x \in StoreOps /\ Count(x, RTS1) = Count(x, Tail(RTS1)) + 1
        BY <1>1, <4>1, <1>x, CountTail
      <4>3. Count(x, Tail(RTS1)) \in Nat
        BY <4>2, CountType
      <4>. QED BY <4>2, <4>3
    <3>. QED BY <3>1, PendingStore
  <2>2. x[2] \notin OpenStores(x[1])'
    BY <1>2, <1>4, <2>1 DEF OpenStores
  <2>3. ASSUME NEW i, i # x[2] PROVE i \in OpenStores(x[1])' <=> i \in OpenStores(x[1])
    <3>1. <<x[1], i>> # x
      BY <1>2, <2>3
    <3>2. i \in OpenStores(x[1])' <=>
            i \in Stores(x[1]) /\ ~ \E k \in DOMAIN sq : sq'[k].op = <<x[1], i>> /\ sq'[k].executed
      BY <1>4, <1>5 DEF OpenStores
    <3>3. \A k \in DOMAIN sq : sq'[k].op = <<x[1], i>> /\ sq'[k].executed
                                <=> sq[k].op = <<x[1], i>> /\ sq[k].executed
      BY <1>4, <3>1
    <3>. QED BY <3>2, <3>3 DEF OpenStores
  <2>. QED BY <1>2, <2>2, <2>3
<1>9. ASSUME NEW m \in Id
      PROVE  {y \in ops : y[1] = m} = IF m = x[1] THEN {x} ELSE {y \in served : y[1] = m}
  BY <1>2, <1>5
<1>10. {y \in served : y[1] = x[1]} = {} /\ OpenLoads(x[1])' = OpenLoads(x[1])
  <2>1. {y \in served : y[1] = x[1]} = {}
    BY <1>2, <1>5
  <2>. QED BY <1>2, <1>6, <2>1
<1>. HIDE DEF ops
<1>11. ASSUME NEW m \in Rob
       PROVE  /\ IsFiniteSet({y \in ops : y[1] = m})
              /\ Cardinality(OpenLoads(m)) + Cardinality(OpenStores(m))
                   = Cardinality(OpenLoads(m)') + Cardinality(OpenStores(m)')
                       + Cardinality({y \in ops : y[1] = m})
  <2>0. m \in Id
    BY <1>5
  <2>1. Cardinality(OpenLoads(m)') \in Nat /\ Cardinality(OpenStores(m)') \in Nat
    BY <1>1, <2>0, OpenNext DEF CoreTypes
  <2>2. CASE m = x[1]
    <3>1. {y \in ops : y[1] = m} = {x}
      BY <1>9, <2>0, <2>2
    <3>2. IsFiniteSet({x}) /\ Cardinality({x}) = 1
      BY FS_Singleton
    <3>3. IsFiniteSet(OpenStores(m)) /\ x[2] \in OpenStores(m) /\ Cardinality(OpenStores(m)) \in Nat
      BY <1>2, <2>0, <2>2, OpenFacts DEF CoreTypes
    <3>4. Cardinality(OpenStores(m) \ {x[2]}) = Cardinality(OpenStores(m)) - 1
      BY <3>3, FS_RemoveElement
    <3>5. Cardinality(OpenStores(m)') = Cardinality(OpenStores(m)) - 1
      BY <1>8, <2>2, <3>4
    <3>6. OpenLoads(m)' = OpenLoads(m)
      BY <1>10, <2>2
    <3>. QED BY <2>1, <3>1, <3>2, <3>3, <3>5, <3>6
  <2>3. CASE m # x[1]
    <3>1. {y \in ops : y[1] = m} = {y \in served : y[1] = m}
      BY <1>9, <2>0, <2>3
    <3>. QED BY <1>6, <1>7, <2>0, <2>1, <2>3, <3>1
  <2>. QED BY <2>2, <2>3
<1>12. \A y \in ops : y[1] \in Rob
  BY <1>2 DEF ops
<1>13. ASSUME NEW m \in Id \ Rob PROVE OpenLoads(m)' = OpenLoads(m) /\ OpenStores(m)' = OpenStores(m)
  <2>1. m # x[1] /\ {y \in served : y[1] = m} = {}
    BY <1>2
  <2>. QED BY <1>6, <1>7, <2>1
<1>. QED BY <1>1, <1>11, <1>12, <1>13, FinishKeepsCounters

\* the loads that still wait for the instruction wait for another address,
LEMMA ExecutingStoreKeepsLoads ==
  ASSUME CoreTypes, RegisterInv, StoreQueueInv, MemoryInv, ExecuteStore
  PROVE  LoadQueueInv'
<1>. USE DEF MemoryInv
<1>. DEFINE x == Head(RTS1)
            served == Dependents(x) \cap DOMAIN lq
<1>1. /\ trace' = trace /\ retired' = retired /\ dispatched' = dispatched
      /\ added' = added /\ RTS1 # <<>> /\ memory_instrs_depend_on_me' = memory_instrs_depend_on_me
      /\ lq' = [y \in DOMAIN lq \ served |-> lq[y]]
  BY DEF ExecuteStore, Finish, control, frontEnd
<1>2. DOMAIN lq' = DOMAIN lq \ served /\ \A y \in DOMAIN lq \ served : lq'[y] = lq[y]
  BY <1>1
<1>3. /\ DOMAIN sq' = DOMAIN sq
      /\ \A k \in DOMAIN sq : /\ sq'[k].op = sq[k].op
                              /\ sq'[k].executed <=> sq[k].executed \/ sq[k].op = x
  BY ExecutedEntries DEF StoreQueueInv
<1>4. Rob' = Rob /\ Id' = Id /\ (\A n : Loads(n)' = Loads(n))
      /\ LoadOps' = LoadOps /\ (\A y : MemProducer(y)' = MemProducer(y))
      /\ \A y : Address(y, "load")' = Address(y, "load") /\ Address(y, "store")' = Address(y, "store")
  BY <1>1, SameTrace, MemProducerKept DEF Rob
<1>5. InLoadQueue'
  BY <1>1, <1>2, <1>4 DEF LoadQueueInv, InLoadQueue
<1>6. DependentsKnown'
  BY <1>1, <1>2, <1>4 DEF LoadQueueInv, DependentsKnown
<1>7. ASSUME NEW y \in DOMAIN lq \ served, NEW k \in DOMAIN sq, lq[y] # 0, sq[k].op[1] = lq[y],
             Address(sq[k].op, "store") = Address(y, "load")
      PROVE  ~sq'[k].executed
  <2>1. ~sq[k].executed
    BY <1>7 DEF LoadQueueInv, ProducerWaits
  <2>2. ASSUME sq[k].op = x PROVE FALSE
    <3>1. y \in DOMAIN seen /\ <<"load", y[2]>> \in added[y[1]]
      BY WaitingLoads DEF CountersInv
    <3>2. y[1] \in memory_instrs_depend_on_me[x[1]]
      BY <1>7, <2>2 DEF LoadQueueInv, DependentsKnown
    <3>3. Address(y, "load") = Address(x, "store")
      BY <1>7, <2>2
    <3>4. y \in Dependents(x)
      <4>. HIDE DEF x, served
      <4>. QED BY <3>1, <3>2, <3>3 DEF Dependents
    <3>. QED BY <3>4
  <2>. QED BY <1>3, <2>1, <2>2
<1>8. ProducerWaits'
  <2>. HIDE DEF served, x
  <2>1. \A k \in DOMAIN sq : Address(sq[k].op, "store")' = Address(sq[k].op, "store")
    BY <1>1, <1>3 DEF Address
  <2>2. ASSUME NEW y \in DOMAIN lq', NEW k \in DOMAIN sq', lq'[y] # 0, sq'[k].op[1] = lq'[y],
               Address(sq[k].op, "store")' = Address(y, "load")'
        PROVE  ~sq'[k].executed
    <3>1. Address(sq[k].op, "store") = Address(y, "load")
      BY <1>3, <1>4, <2>1, <2>2
    <3>. QED BY <1>2, <1>3, <1>7, <2>2, <3>1
  <2>. QED BY <2>2 DEF ProducerWaits
<1>. QED BY <1>5, <1>6, <1>8 DEF LoadQueueInv

\* none of those it forwards to has an access pending,
LEMMA ExecutingStoreKeepsAccesses ==
  ASSUME CoreTypes, RegisterInv, StoreQueueInv, MemoryInv, ExecuteStore
  PROVE  AccessInv'
<1>. USE DEF MemoryInv
<1>x. PICK x : x = Head(RTS1)
  OBVIOUS
<1>s. PICK served : served = Dependents(x) \cap DOMAIN lq
  OBVIOUS
<1>1. /\ trace' = trace /\ RTS1 # <<>> /\ RTS1' = Tail(RTS1) /\ dtlb' = dtlb /\ l1d' = l1d
      /\ RTL0' = RTL0 /\ RTL1' = RTL1 /\ RTS0' = RTS0
      /\ lq' = [y \in DOMAIN lq \ served |-> lq[y]]
  BY <1>x, <1>s DEF ExecuteStore, Finish, control, caches
<1>2. DOMAIN lq' = DOMAIN lq \ served /\ \A y \in DOMAIN lq \ served : lq'[y] = lq[y]
  BY <1>1
<1>3. /\ DOMAIN sq' = DOMAIN sq
      /\ \A k \in DOMAIN sq : /\ sq'[k].op = sq[k].op
                              /\ sq'[k].executed <=> sq[k].executed \/ sq[k].op = x
  BY <1>x, ExecutedEntries DEF StoreQueueInv
<1>4. /\ x \in StoreOps /\ Count(x, RTS0) + Count(x, RTS1) + Bit(x \in DtlbStores) = 1
      /\ \A y \in served : MemProducer(y) # 0
  BY <1>1, <1>x, <1>s, ServedLoads
<1>5. \A y \in served : lq[y] # 0
  <2>1. \A y \in served : lq[y] = MemProducer(y)
    BY <1>s, WaitingLoads
  <2>. QED BY <1>4, <2>1
<1>6. RTS1' \in Seq(StoreOps) /\ \A y : Count(y, RTS1) = Count(y, RTS1') + IF y = x THEN 1 ELSE 0
  BY <1>1, <1>x, CountTail DEF AccessInv, AccessTypes
<1>7. \A y : Count(y, RTS1') \in Nat
  BY <1>6, CountType
<1>8. LoadOps' = LoadOps /\ StoreOps' = StoreOps /\ DtlbLoads' = DtlbLoads /\ DtlbStores' = DtlbStores
  BY <1>1, SameTrace DEF LoadOps, StoreOps, DtlbLoads, DtlbStores
<1>9. AccessTypes'
  BY <1>1, <1>6, <1>8 DEF AccessTypes, AccessInv
<1>10. LoadsPend'
  <2>1. ASSUME NEW y \in LoadOps
        PROVE  Bit(y \in DOMAIN lq' /\ lq'[y] = 0) = Bit(y \in DOMAIN lq /\ lq[y] = 0)
    <3>1. (y \in DOMAIN lq' /\ lq'[y] = 0) <=> (y \in DOMAIN lq /\ lq[y] = 0)
      BY <1>2, <1>5
    <3>. QED BY <3>1 DEF Bit
  <2>2. \A y : Count(y, RTL0)' = Count(y, RTL0) /\ Count(y, RTL1)' = Count(y, RTL1)
    BY <1>1 DEF Count
  <2>. QED BY <1>1, <1>8, <2>1, <2>2 DEF LoadsPend, AccessInv, Bit
<1>11. ASSUME NEW y \in StoreOps
       PROVE  Count(y, RTS0) + Count(y, RTS1') + Bit(y \in DtlbStores)
                = Bit(\E k \in DOMAIN sq' : sq'[k].op = y /\ ~sq'[k].executed)
  <2>1. CASE y = x
    <3>1. ~ \E k \in DOMAIN sq' : sq'[k].op = y /\ ~sq'[k].executed
      BY <1>3, <2>1
    <3>2. Bit(\E k \in DOMAIN sq' : sq'[k].op = y /\ ~sq'[k].executed) = 0
      BY <3>1 DEF Bit
    <3>3. Count(x, RTS0) \in Nat /\ Bit(x \in DtlbStores) \in Nat /\ Count(x, RTS1') \in Nat
      BY <1>4, <1>7, AccessFacts
    <3>4. Count(x, RTS1) = Count(x, RTS1') + 1
      BY <1>6
    <3>5. Count(x, RTS0) + Count(x, RTS1') + Bit(x \in DtlbStores) = 0
      <4>. DEFINE c == Bit(x \in DtlbStores)
      <4>. HIDE DEF c
      <4>1. Count(x, RTS0) + Count(x, RTS1) + c = 1 /\ c \in Nat
        BY <1>4, <3>3 DEF c
      <4>2. Count(x, RTS0) + Count(x, RTS1') + c = 0
        BY <3>3, <3>4, <4>1
      <4>. QED BY <4>2 DEF c
    <3>. QED BY <2>1, <3>2, <3>5
  <2>2. CASE y # x
    <3>1. (\E k \in DOMAIN sq' : sq'[k].op = y /\ ~sq'[k].executed)
            <=> (\E k \in DOMAIN sq : sq[k].op = y /\ ~sq[k].executed)
      BY <1>3, <2>2
    <3>2. Bit(\E k \in DOMAIN sq' : sq'[k].op = y /\ ~sq'[k].executed)
            = Bit(\E k \in DOMAIN sq : sq[k].op = y /\ ~sq[k].executed)
      BY <3>1 DEF Bit
    <3>3. Count(y, RTS1) = Count(y, RTS1')
      BY <1>6, <1>7, <2>2
    <3>4. Count(y, RTS0) + Count(y, RTS1) + Bit(y \in DtlbStores)
            = Bit(\E k \in DOMAIN sq : sq[k].op = y /\ ~sq[k].executed)
      BY DEF AccessInv, StoresPend
    <3>. QED BY <3>2, <3>3, <3>4
  <2>. QED BY <2>1, <2>2
<1>12. StoresPend'
  <2>1. \A y : Count(y, RTS0)' = Count(y, RTS0) /\ Count(y, RTS1)' = Count(y, RTS1')
    BY <1>1 DEF Count
  <2>2. \A y : /\ Bit(y \in DtlbStores)' = Bit(y \in DtlbStores)
               /\ Bit(\E k \in DOMAIN sq : sq[k].op = y /\ ~sq[k].executed)'
                    = Bit(\E k \in DOMAIN sq' : sq'[k].op = y /\ ~sq'[k].executed)
    BY <1>8 DEF Bit
  <2>3. ASSUME NEW y \in StoreOps
        PROVE  (Count(y, RTS0) + Count(y, RTS1) + Bit(y \in DtlbStores))'
                  = Bit(\E k \in DOMAIN sq : sq[k].op = y /\ ~sq[k].executed)'
    <3>1. Count(y, RTS0) + Count(y, RTS1') + Bit(y \in DtlbStores)
            = Bit(\E k \in DOMAIN sq' : sq'[k].op = y /\ ~sq'[k].executed)
      BY <1>11
    <3>2. /\ Bit(y \in DtlbStores)' = Bit(y \in DtlbStores)
          /\ Bit(\E k \in DOMAIN sq : sq[k].op = y /\ ~sq[k].executed)'
                = Bit(\E k \in DOMAIN sq' : sq'[k].op = y /\ ~sq'[k].executed)
      BY <2>2
    <3>. QED BY <2>1, <3>1, <3>2
  <2>. QED BY <1>8, <2>3 DEF StoresPend
<1>. QED BY <1>9, <1>10, <1>12 DEF AccessInv

\* so that it keeps the part about memory operations.
LEMMA ExecutingStoreKeepsMemory ==
  ASSUME CoreTypes, RegisterInv, StoreQueueInv, MemoryInv, ExecuteStore
  PROVE  MemoryInv'
<1>. DEFINE served == Dependents(Head(RTS1)) \cap DOMAIN lq
<1>1. wq' = wq /\ lq' = [y \in DOMAIN lq \ served |-> lq[y]]
  BY DEF ExecuteStore, Finish, caches
<1>2. SlotsInv'
  <2>. HIDE DEF served
  <2>. QED BY <1>1, LoadsLeaveSlots DEF MemoryInv
<1>3. CountersInv'
  BY ExecutingStoreKeepsCounters
<1>4. LoadQueueInv'
  BY ExecutingStoreKeepsLoads
<1>5. AccessInv'
  BY ExecutingStoreKeepsAccesses
<1>. QED BY <1>2, <1>3, <1>4, <1>5 DEF MemoryInv

ForwardedLoads(n) == {i \in LoadsTaken(n) : ForwardedAtOnce(<<n, i>>)}
KeptLoads(n) == {i \in LoadsTaken(n) : ~ForwardedAtOnce(<<n, i>>)}

\* What check_and_add_lsq takes of the loads of n is not in the queue yet.
LEMMA TakenLoads ==
  ASSUME CoreTypes, RegisterInv, StoreQueueInv, LoadQueueInv, NEW n \in Id
  PROVE  /\ LoadsTaken(n) = KeptLoads(n) \cup ForwardedLoads(n) /\ KeptLoads(n) \cap ForwardedLoads(n) = {}
         /\ LoadsTaken(n) \subseteq Loads(n) /\ LoadsTaken(n) \subseteq Int
         /\ IsFiniteSet(LoadsTaken(n)) /\ IsFiniteSet(KeptLoads(n)) /\ IsFiniteSet(ForwardedLoads(n))
         /\ Cardinality(KeptLoads(n)) \in Nat /\ Cardinality(ForwardedLoads(n)) \in Nat
         /\ \A i \in LoadsTaken(n) : /\ <<"load", i>> \notin added[n] /\ <<n, i>> \in LoadOps
                                     /\ <<n, i>> \notin DOMAIN lq
<1>1. LoadsTaken(n) = KeptLoads(n) \cup ForwardedLoads(n) /\ KeptLoads(n) \cap ForwardedLoads(n) = {}
  BY DEF KeptLoads, ForwardedLoads
<1>2. /\ LoadsTaken(n) \in SUBSET Loads(n) /\ KeptLoads(n) \in SUBSET Loads(n)
      /\ ForwardedLoads(n) \in SUBSET Loads(n)
      /\ \A i \in LoadsTaken(n) : <<"load", i>> \notin added[n]
  BY DEF LoadsTaken, KeptLoads, ForwardedLoads
<1>3. IsFiniteSet(Loads(n)) /\ Loads(n) \subseteq Int
  <2>1. Loads(n) = 1 .. Len(trace[n].load) /\ Len(trace[n].load) \in Nat
    BY InstructionFacts DEF CoreTypes
  <2>. QED BY <2>1, FS_Interval
<1>4. IsFiniteSet(LoadsTaken(n)) /\ IsFiniteSet(KeptLoads(n)) /\ IsFiniteSet(ForwardedLoads(n))
  BY <1>2, <1>3, FS_Subset
<1>5. Cardinality(KeptLoads(n)) \in Nat /\ Cardinality(ForwardedLoads(n)) \in Nat
  BY <1>4, FS_CardinalityType
<1>6. ASSUME NEW i \in LoadsTaken(n) PROVE <<n, i>> \in LoadOps /\ <<n, i>> \notin DOMAIN lq
  <2>1. i \in Loads(n) /\ <<"load", i>> \notin added[n]
    BY <1>2
  <2>2. <<n, i>> \in LoadOps
    BY <2>1, OpFacts
  <2>3. ASSUME NEW x \in DOMAIN lq, x = <<n, i>> PROVE FALSE
    <3>1. <<"load", x[2]>> \in added[x[1]]
      BY DEF LoadQueueInv, InLoadQueue
    <3>2. x[1] = n /\ x[2] = i
      BY <2>3
    <3>. QED BY <2>1, <3>1, <3>2
  <2>. QED BY <2>2, <2>3
<1>. QED BY <1>1, <1>2, <1>3, <1>4, <1>5, <1>6

\* The load queue after the kept loads K of n have entered it.
LEMMA EnteredLoads ==
  ASSUME CoreTypes, RegisterInv, StoreQueueInv, LoadQueueInv, NEW n \in Id, ScheduleMemory(n),
         NEW K, K = KeptLoads(n)
  PROVE  /\ DOMAIN lq' = DOMAIN lq \cup ({n} \X K) /\ DOMAIN lq \cap ({n} \X K) = {}
         /\ \A x \in DOMAIN lq : lq'[x] = lq[x]
         /\ \A x \in {n} \X K : lq'[x] = MemProducer(x)
<1>1. LoadsTaken(n) \ {i \in LoadsTaken(n) : ForwardedAtOnce(<<n, i>>)} = K
  BY DEF KeptLoads
<1>2. lq' = [x \in DOMAIN lq \cup ({n} \X K) |->
               IF x[1] = n /\ x[2] \in K THEN MemProducer(x) ELSE lq[x]]
  BY <1>1 DEF ScheduleMemory
<1>3. \A i \in K : <<n, i>> \notin DOMAIN lq
  BY TakenLoads DEF KeptLoads
<1>4. \A x \in {n} \X K : x[1] = n /\ x[2] \in K /\ x = <<n, x[2]>>
  OBVIOUS
<1>5. DOMAIN lq' = DOMAIN lq \cup ({n} \X K) /\ DOMAIN lq \cap ({n} \X K) = {}
  BY <1>2, <1>3, <1>4
<1>6. ASSUME NEW x \in DOMAIN lq PROVE lq'[x] = lq[x]
  <2>1. x = <<x[1], x[2]>>
    BY WaitingLoads
  <2>2. ~(x[1] = n /\ x[2] \in K)
    BY <1>3, <2>1
  <2>. QED BY <1>2, <2>2
<1>7. \A x \in {n} \X K : lq'[x] = MemProducer(x)
  BY <1>2, <1>4
<1>. QED BY <1>5, <1>6, <1>7

\* The loads that are kept fit.
LEMMA KeptLoadsFit ==
  ASSUME CoreTypes, RegisterInv, StoreQueueInv, LoadQueueInv, SlotsInv, NEW n \in Id, ScheduleMemory(n)
  PROVE  SlotsInv'
<1>k. PICK K : K = KeptLoads(n)
  OBVIOUS
<1>1. DOMAIN lq' = DOMAIN lq \cup ({n} \X K) /\ DOMAIN lq \cap ({n} \X K) = {}
  BY <1>k, EnteredLoads
<1>2. IsFiniteSet(K) /\ Cardinality(K) \in Nat
  BY <1>k, TakenLoads
<1>3. IsFiniteSet({n} \X K) /\ Cardinality({n} \X K) = Cardinality(K)
  <2>. DEFINE f == [i \in K |-> <<n, i>>]
              T == {n} \X K
  <2>1. f \in [K -> T] /\ (\A i, j \in K : f[i] = f[j] => i = j)
    OBVIOUS
  <2>2. \A x \in T : \E i \in K : f[i] = x
    OBVIOUS
  <2>. HIDE DEF f, T
  <2>3. IsFiniteSet(T) /\ Cardinality(T) = Cardinality(K)
    BY <1>2, <2>1, <2>2, SameSize
  <2>. QED BY <2>3 DEF T
<1>4. IsFiniteSet(DOMAIN lq) /\ Cardinality(DOMAIN lq) \in Nat /\ Cardinality(DOMAIN lq) <= LQ_SIZE
      /\ LQ_SIZE \in Int
  BY FS_CardinalityType, CoreAssumption DEF SlotsInv
<1>5. IsFiniteSet(DOMAIN lq \cup ({n} \X K))
      /\ Cardinality(DOMAIN lq \cup ({n} \X K)) = Cardinality(DOMAIN lq) + Cardinality(K)
  <2>1. IsFiniteSet(DOMAIN lq \cup ({n} \X K))
    BY <1>3, <1>4, FS_Union
  <2>. QED BY <1>1, <1>3, <2>1, CutInTwo
<1>6. Cardinality(DOMAIN lq) + Cardinality(K) <= LQ_SIZE
  <2>1. CASE K = {}
    BY <1>4, <2>1, FS_EmptySet
  <2>2. CASE K # {}
    <3>. DEFINE rest == {i \in Loads(n) : <<"load", i>> \notin added[n]}
                keeps == {j \in rest : ~ForwardedAtOnce(<<n, j>>)}
                room == LQ_SIZE - Cardinality(DOMAIN lq)
    <3>1. IsFiniteSet(keeps) /\ keeps \subseteq Int
      <4>1. IsFiniteSet(Loads(n)) /\ Loads(n) \subseteq Int
        <5>1. Loads(n) = 1 .. Len(trace[n].load) /\ Len(trace[n].load) \in Nat
          BY InstructionFacts DEF CoreTypes
        <5>. QED BY <5>1, FS_Interval
      <4>2. keeps \in SUBSET Loads(n)
        OBVIOUS
      <4>. QED BY <4>1, <4>2, FS_Subset
    <3>2. K \subseteq keeps
      BY <1>k DEF KeptLoads, LoadsTaken
    <3>3. ASSUME NEW i \in K PROVE Cardinality({j \in keeps : j < i}) < room
      <4>1. {j \in rest : j < i /\ ~ForwardedAtOnce(<<n, j>>)} = {j \in keeps : j < i}
        OBVIOUS
      <4>2. Cardinality({j \in rest : j < i /\ ~ForwardedAtOnce(<<n, j>>)}) < room
        BY <1>k DEF KeptLoads, LoadsTaken
      <4>. QED BY <4>1, <4>2
    <3>4. room \in Int
      BY <1>4
    <3>. HIDE DEF keeps, room
    <3>5. Cardinality(K) <= room
      BY <2>2, <3>1, <3>2, <3>3, <3>4, TakeInOrder
    <3>. QED BY <1>2, <1>4, <3>5 DEF room
  <2>. QED BY <2>1, <2>2
<1>7. wq' = wq
  BY DEF ScheduleMemory, caches
<1>8. IsFiniteSet(DOMAIN lq') /\ Cardinality(DOMAIN lq') <= LQ_SIZE
  BY <1>1, <1>5, <1>6
<1>. QED BY <1>7, <1>8 DEF SlotsInv

\* do_memory_scheduling gives each load the producer that the program gives it,
LEMMA MemorySchedulingKeepsLoads ==
  ASSUME CoreTypes, RegisterInv, StoreQueueInv, LoadQueueInv, NEW n \in Id, ScheduleMemory(n)
  PROVE  LoadQueueInv'
<1>k. PICK K : K = KeptLoads(n)
  OBVIOUS
<1>1. /\ trace' = trace /\ retired' = retired /\ dispatched' = dispatched /\ n \in Rob
      /\ \A m \in Id : memory_instrs_depend_on_me'[m] =
           memory_instrs_depend_on_me[m] \cup {d \in {n} : \E i \in LoadsTaken(n) : MemProducer(<<n, i>>) = m}
      /\ DOMAIN memory_instrs_depend_on_me' = Id
  BY DEF ScheduleMemory, control
<1>2. /\ DOMAIN lq' = DOMAIN lq \cup ({n} \X K)
      /\ \A x \in DOMAIN lq : lq'[x] = lq[x]
      /\ \A x \in {n} \X K : lq'[x] = MemProducer(x)
  BY <1>k, EnteredLoads
<1>3. Rob' = Rob /\ Id' = Id /\ (\A m : Loads(m)' = Loads(m))
      /\ LoadOps' = LoadOps /\ (\A y : MemProducer(y)' = MemProducer(y))
      /\ \A y : Address(y, "load")' = Address(y, "load")
  BY <1>1, SameTrace, MemProducerKept DEF Rob
<1>4. /\ \A k \in Id : k # n => added'[k] = added[k]
      /\ \A m \in Id : added[m] \subseteq added'[m]
      /\ \A i \in LoadsTaken(n) : <<"load", i>> \in added'[n]
  BY MemorySchedulingFacts
<1>5. /\ \A k \in DOMAIN sq : k \in DOMAIN sq' /\ sq'[k] = sq[k]
      /\ \A k \in DOMAIN sq' \ DOMAIN sq : ~sq'[k].executed
  BY <1>1, EnteredEntries
<1>6. \A x \in {n} \X K : /\ x = <<n, x[2]>> /\ x[1] = n /\ x[2] \in LoadsTaken(n) /\ x \in LoadOps
                          /\ x[2] \in Loads(n) /\ ~ForwardedAtOnce(x)
  <2>1. \A i \in K : i \in LoadsTaken(n) /\ ~ForwardedAtOnce(<<n, i>>)
    BY <1>k DEF KeptLoads
  <2>2. \A x \in {n} \X K : x = <<n, x[2]>> /\ x[1] = n /\ x[2] \in K
    OBVIOUS
  <2>3. \A i \in LoadsTaken(n) : i \in Loads(n) /\ <<n, i>> \in LoadOps
    BY TakenLoads
  <2>. QED BY <2>1, <2>2, <2>3
<1>7. InLoadQueue'
  <2>1. \A x \in DOMAIN lq : x \in LoadOps /\ <<"load", x[2]>> \in added'[x[1]] /\ lq'[x] = MemProducer(x)
    BY <1>2, <1>4, WaitingLoads
  <2>2. \A x \in {n} \X K : x \in LoadOps /\ <<"load", x[2]>> \in added'[x[1]] /\ lq'[x] = MemProducer(x)
    BY <1>2, <1>4, <1>6
  <2>. QED BY <1>2, <1>3, <2>1, <2>2 DEF InLoadQueue
<1>8. ASSUME NEW m \in Id, NEW d \in memory_instrs_depend_on_me'[m]
      PROVE  \/ d \in memory_instrs_depend_on_me[m]
             \/ d = n /\ \E i \in LoadsTaken(n) : MemProducer(<<n, i>>) = m
  BY <1>1
<1>9. ASSUME NEW m \in Id, NEW i \in LoadsTaken(n), MemProducer(<<n, i>>) = m
      PROVE  m < n /\ m \in Rob /\ i \in Loads(n)
  <2>0. m # 0
    BY RobFacts
  <2>1. <<n, i>> \in LoadOps /\ i \in Loads(n) /\ m # 0
    BY <2>0, TakenLoads
  <2>. DEFINE x == <<n, i>>
  <2>2. x[1] = n /\ x \in LoadOps /\ MemProducer(x) = m
    BY <1>9, <2>1
  <2>. HIDE DEF x
  <2>3. m \in Older(n)
    BY <2>1, <2>2, MemProducerFacts
  <2>. QED BY <1>1, <2>1, <2>3, RobFacts
<1>10. DependentsKnown'
  <2>1. memory_instrs_depend_on_me' \in [Id -> SUBSET Id]
    <3>1. \A m \in Id : memory_instrs_depend_on_me'[m] \in SUBSET Id
      BY <1>8 DEF LoadQueueInv, DependentsKnown
    <3>2. memory_instrs_depend_on_me' = [m \in Id |-> memory_instrs_depend_on_me'[m]]
      BY <1>1 DEF ScheduleMemory
    <3>. QED BY <3>1, <3>2
  <2>2. ASSUME NEW m \in Id, NEW d \in Id, d \in memory_instrs_depend_on_me'[m]
        PROVE  /\ m < d /\ m \in Rob /\ d \in Rob
               /\ \E i \in Loads(d) : <<"load", i>> \in added'[d] /\ MemProducer(<<d, i>>) = m
    <3>1. CASE d \in memory_instrs_depend_on_me[m]
      BY <1>4, <3>1 DEF LoadQueueInv, DependentsKnown
    <3>2. CASE d = n /\ \E i \in LoadsTaken(n) : MemProducer(<<n, i>>) = m
      BY <1>1, <1>4, <1>9, <3>2
    <3>. QED BY <1>8, <2>2, <3>1, <3>2
  <2>3. ASSUME NEW x \in DOMAIN lq', lq'[x] # 0 PROVE x[1] \in memory_instrs_depend_on_me'[lq'[x]]
    <3>1. CASE x \in DOMAIN lq
      <4>1. lq[x] \in Id
        <5>1. lq[x] = MemProducer(x) /\ x \in LoadOps
          BY <3>1, WaitingLoads
        <5>. QED BY <1>2, <2>3, <3>1, <5>1, MemProducerFacts
      <4>2. x[1] \in memory_instrs_depend_on_me[lq[x]]
        BY <1>2, <2>3, <3>1 DEF LoadQueueInv, DependentsKnown
      <4>. QED BY <1>1, <1>2, <3>1, <4>1, <4>2
    <3>2. CASE x \in {n} \X K
      <4>1. lq'[x] = MemProducer(x) /\ x \in LoadOps /\ x[1] = n /\ x = <<n, x[2]>> /\ x[2] \in LoadsTaken(n)
        BY <1>2, <1>6, <3>2
      <4>2. MemProducer(x) \in Id
        BY <2>3, <4>1, MemProducerFacts
      <4>3. \E i \in LoadsTaken(n) : MemProducer(<<n, i>>) = MemProducer(x)
        BY <4>1
      <4>. QED BY <1>1, <4>1, <4>2, <4>3
    <3>. QED BY <1>2, <3>1, <3>2
  <2>. QED BY <1>3, <2>1, <2>2, <2>3 DEF DependentsKnown
<1>11. ProducerWaits'
  <2>1. \A k \in DOMAIN sq : Address(sq[k].op, "store")' = Address(sq[k].op, "store")
    BY <1>1, <1>5 DEF Address
  <2>2. ASSUME NEW x \in DOMAIN lq', NEW k \in DOMAIN sq', lq'[x] # 0, sq'[k].op[1] = lq'[x],
               Address(sq[k].op, "store")' = Address(x, "load")'
        PROVE  ~sq'[k].executed
    <3>1. CASE k \in DOMAIN sq
      <4>1. Address(sq[k].op, "store") = Address(x, "load") /\ sq'[k] = sq[k]
        BY <1>3, <1>5, <2>1, <2>2, <3>1
      <4>2. CASE x \in DOMAIN lq
        BY <1>2, <2>2, <3>1, <4>1, <4>2 DEF LoadQueueInv, ProducerWaits
      <4>3. CASE x \in {n} \X K
        <5>1. ~ForwardedAtOnce(x) /\ sq[k].op[1] = MemProducer(x)
          BY <1>2, <1>6, <2>2, <4>1, <4>3
        <5>. QED BY <3>1, <4>1, <5>1 DEF ForwardedAtOnce
      <4>. QED BY <1>2, <4>2, <4>3
    <3>2. CASE k \notin DOMAIN sq
      BY <1>5, <3>2
    <3>. QED BY <3>1, <3>2
  <2>. QED BY <2>2 DEF ProducerWaits
<1>. QED BY <1>7, <1>10, <1>11 DEF LoadQueueInv

\* What is open after ScheduleMemory: the forwarded loads are over.
LEMMA OpenAfterScheduling ==
  ASSUME CoreTypes, RegisterInv, StoreQueueInv, LoadQueueInv, NEW n \in Id, ScheduleMemory(n),
         NEW F, F = ForwardedLoads(n)
  PROVE  /\ OpenLoads(n) = OpenLoads(n)' \cup F /\ OpenLoads(n)' \cap F = {}
         /\ \A m \in Id : m # n => OpenLoads(m)' = OpenLoads(m)
         /\ \A m \in Id : OpenStores(m)' = OpenStores(m)
<1>k. PICK K : K = KeptLoads(n)
  OBVIOUS
<1>1. trace' = trace /\ n \in Rob
  BY DEF ScheduleMemory, control
<1>2. \A m : Loads(m)' = Loads(m) /\ Stores(m)' = Stores(m)
  BY <1>1, SameTrace
<1>3. DOMAIN lq' = DOMAIN lq \cup ({n} \X K)
  BY <1>k, EnteredLoads
<1>4. /\ LoadsTaken(n) = K \cup F /\ K \cap F = {} /\ LoadsTaken(n) \subseteq Loads(n)
      /\ \A i \in LoadsTaken(n) : <<"load", i>> \notin added[n] /\ <<n, i>> \notin DOMAIN lq
  BY <1>k, TakenLoads
<1>5. /\ \A m \in Id : m # n => added'[m] = added[m]
      /\ \A i : <<"load", i>> \in added'[n] <=> <<"load", i>> \in added[n] \/ i \in LoadsTaken(n)
  <2>1. /\ \A m \in Id : m # n => added'[m] = added[m]
        /\ added'[n] = added[n] \cup ({"load"} \X LoadsTaken(n)) \cup ({"store"} \X StoresTaken(n))
    BY MemorySchedulingFacts
  <2>2. \A i : <<"load", i>> \notin {"store"} \X StoresTaken(n)
    OBVIOUS
  <2>3. \A i : <<"load", i>> \in {"load"} \X LoadsTaken(n) <=> i \in LoadsTaken(n)
    OBVIOUS
  <2>. QED BY <2>1, <2>2, <2>3
<1>6. ASSUME NEW m \in Id, NEW i
      PROVE  <<m, i>> \in DOMAIN lq' <=> <<m, i>> \in DOMAIN lq \/ (m = n /\ i \in K)
  BY <1>3
<1>7. ASSUME NEW m \in Id, m # n PROVE OpenLoads(m)' = OpenLoads(m)
  <2>1. \A i : i \in OpenLoads(m)' <=> i \in Loads(m) /\ (<<"load", i>> \in added[m] => <<m, i>> \in DOMAIN lq)
    BY <1>2, <1>5, <1>6, <1>7 DEF OpenLoads
  <2>2. \A i : i \in OpenLoads(m) <=> i \in Loads(m) /\ (<<"load", i>> \in added[m] => <<m, i>> \in DOMAIN lq)
    BY DEF OpenLoads
  <2>. QED BY <2>1, <2>2
<1>8. ASSUME NEW i PROVE i \in OpenLoads(n)' <=> i \in OpenLoads(n) /\ i \notin F
  <2>1. i \in OpenLoads(n)' <=> i \in Loads(n) /\ (<<"load", i>> \in added'[n] => <<n, i>> \in DOMAIN lq')
    BY <1>2 DEF OpenLoads
  <2>2. i \in OpenLoads(n) <=> i \in Loads(n) /\ (<<"load", i>> \in added[n] => <<n, i>> \in DOMAIN lq)
    BY DEF OpenLoads
  <2>. QED BY <1>4, <1>5, <1>6, <2>1, <2>2
<1>9. \A i \in F : i \in OpenLoads(n)
  BY <1>4 DEF OpenLoads
<1>10. ASSUME NEW m \in Id PROVE OpenStores(m)' = OpenStores(m)
  <2>1. /\ \A k \in DOMAIN sq : k \in DOMAIN sq' /\ sq'[k] = sq[k]
        /\ \A k \in DOMAIN sq' \ DOMAIN sq : ~sq'[k].executed
    BY <1>1, EnteredEntries
  <2>2. \A i : (\E k \in DOMAIN sq' : sq'[k].op = <<m, i>> /\ sq'[k].executed)
                 <=> (\E k \in DOMAIN sq : sq[k].op = <<m, i>> /\ sq[k].executed)
    BY <2>1
  <2>. QED BY <1>2, <2>2 DEF OpenStores
<1>. QED BY <1>7, <1>8, <1>9, <1>10

\* a load that is forwarded at once is finished at once,
LEMMA MemorySchedulingKeepsCounters ==
  ASSUME CoreTypes, RegisterInv, StoreQueueInv, MemoryInv, NEW n \in Id, ScheduleMemory(n)
  PROVE  CountersInv'
<1>. USE DEF MemoryInv
<1>f. PICK F : F = ForwardedLoads(n)
  OBVIOUS
<1>1. /\ trace' = trace /\ read' = read /\ retired' = retired /\ dispatched' = dispatched /\ n \in Rob
      /\ num_mem_ops' = [num_mem_ops EXCEPT ![n] = num_mem_ops[n] - Cardinality(F)]
      /\ inflight_mem_executions' = inflight_mem_executions
           + (IF F # {} /\ num_mem_ops[n] - Cardinality(F) = 0 THEN 1 ELSE 0)
      /\ DOMAIN seen' = DOMAIN seen
  BY <1>f DEF ScheduleMemory, control, frontEnd, ForwardedLoads
<1>2. Rob' = Rob /\ Rob \subseteq Id /\ IsFiniteSet(Rob)
  BY <1>1, RobFacts DEF Rob
<1>3. Id' = Id /\ (\A m : IsMemory(m)' <=> IsMemory(m)) /\ LoadOps' = LoadOps
  BY <1>1, SameTrace DEF LoadOps
<1>4. /\ IsMemory(n) /\ executed[n] = "no" /\ executed'[n] # "completed"
      /\ \A k \in Id : k # n => executed'[k] = executed[k]
  BY MemorySchedulingFacts
<1>5. /\ OpenLoads(n) = OpenLoads(n)' \cup F /\ OpenLoads(n)' \cap F = {}
      /\ \A m \in Id : m # n => OpenLoads(m)' = OpenLoads(m)
      /\ \A m \in Id : OpenStores(m)' = OpenStores(m)
  BY <1>f, OpenAfterScheduling
<1>6. /\ num_mem_ops[n] \in Nat /\ num_mem_ops[n] = Cardinality(OpenLoads(n)) + Cardinality(OpenStores(n))
      /\ num_mem_ops[n] = 0 <=> OpenLoads(n) = {} /\ OpenStores(n) = {}
  BY <1>1, CountOfEntry
<1>7. IsFiniteSet(OpenLoads(n)) /\ Cardinality(OpenStores(n)) \in Nat
  BY OpenFacts DEF CoreTypes
<1>8. /\ Cardinality(OpenLoads(n)) = Cardinality(OpenLoads(n)') + Cardinality(F)
      /\ IsFiniteSet(F) /\ Cardinality(F) \in Nat /\ Cardinality(OpenLoads(n)') \in Nat
  <2>. DEFINE O == OpenLoads(n)'
  <2>. HIDE DEF O
  <2>. QED BY <1>5, <1>7, CutInTwo DEF O
<1>9. \A m \in Id : num_mem_ops'[m] = IF m = n THEN num_mem_ops[n] - Cardinality(F) ELSE num_mem_ops[m]
  BY <1>1 DEF CountersInv
<1>10. num_mem_ops' \in [Id -> Int]
  <2>1. num_mem_ops[n] - Cardinality(F) \in Int
    BY <1>6, <1>8
  <2>. QED BY <1>1, <2>1 DEF CountersInv
<1>11. num_mem_ops'[n] = Cardinality(OpenLoads(n)') + Cardinality(OpenStores(n)')
  <2>1. Cardinality(OpenStores(n)') = Cardinality(OpenStores(n))
    BY <1>5
  <2>2. num_mem_ops'[n] = num_mem_ops[n] - Cardinality(F)
    BY <1>9
  <2>. QED BY <1>6, <1>7, <1>8, <2>1, <2>2
<1>12. OpsCounted'
  <2>1. ASSUME NEW m \in 1 .. read
        PROVE  num_mem_ops'[m] = IF m <= retired THEN 0
                                 ELSE Cardinality(OpenLoads(m)') + Cardinality(OpenStores(m)')
    <3>1. m \in Id /\ m \in Int
      BY TraceFacts DEF CoreTypes
    <3>2. CASE m = n
      <4>1. ~(m <= retired)
        BY <1>1, <3>1, <3>2, RobFacts DEF CoreTypes
      <4>. QED BY <1>11, <3>2, <4>1
    <3>3. CASE m # n
      BY <1>5, <1>9, <3>1, <3>3 DEF CountersInv, OpsCounted
    <3>. QED BY <3>2, <3>3
  <2>2. \A m \in Rob : executed'[m] = "completed" => num_mem_ops'[m] = 0
    <3>1. \A m \in Rob : m \in Id
      BY <1>2
    <3>. QED BY <1>4, <1>9, <3>1 DEF CountersInv, OpsCounted
  <2>. QED BY <1>1, <1>2, <2>1, <2>2 DEF OpsCounted
<1>13. /\ \A m : m \in Unfinished' <=> m \in Rob /\ IsMemory(m) /\ num_mem_ops'[m] = 0 /\ executed'[m] # "completed"
       /\ \A m : m \in Unfinished <=> m \in Rob /\ IsMemory(m) /\ num_mem_ops[m] = 0 /\ executed[m] # "completed"
  BY <1>2, <1>3 DEF Unfinished
<1>14. \A m : m # n => (m \in Unfinished' <=> m \in Unfinished)
  BY <1>2, <1>4, <1>9, <1>13
<1>15. (n \in Unfinished' <=> num_mem_ops[n] - Cardinality(F) = 0) /\ (n \in Unfinished <=> num_mem_ops[n] = 0)
  BY <1>1, <1>4, <1>9, <1>13
<1>16. IsFiniteSet(Unfinished)
  <2>1. Unfinished \in SUBSET Rob
    BY DEF Unfinished
  <2>. QED BY <1>2, <2>1, FS_Subset
<1>17. inflight_mem_executions' \in Int /\ inflight_mem_executions' = Cardinality(Unfinished')
  <2>1. CASE F # {} /\ num_mem_ops[n] - Cardinality(F) = 0
    <3>1. n \notin Unfinished
      BY <1>5, <1>6, <1>15, <2>1
    <3>2. Unfinished' = Unfinished \cup {n}
      BY <1>14, <1>15, <2>1
    <3>3. Cardinality(Unfinished \cup {n}) = Cardinality(Unfinished) + 1
      BY <1>16, <3>1, FS_AddElement
    <3>. QED BY <1>1, <2>1, <3>2, <3>3 DEF CountersInv
  <2>2. CASE ~(F # {} /\ num_mem_ops[n] - Cardinality(F) = 0)
    <3>1. n \in Unfinished' <=> n \in Unfinished
      <4>1. F = {} => Cardinality(F) = 0
        BY FS_EmptySet
      <4>2. F # {} => num_mem_ops[n] # 0
        BY <1>5, <1>6
      <4>. QED BY <1>6, <1>8, <1>15, <2>2, <4>1, <4>2
    <3>2. Unfinished' = Unfinished
      BY <1>14, <3>1
    <3>3. inflight_mem_executions' = inflight_mem_executions
      BY <1>1, <2>2 DEF CountersInv
    <3>. QED BY <3>2, <3>3 DEF CountersInv
  <2>. QED BY <2>1, <2>2
<1>. QED BY <1>1, <1>3, <1>10, <1>12, <1>17 DEF CountersInv

\* and the others have one access pending when they wait for no store;
LEMMA MemorySchedulingKeepsAccesses ==
  ASSUME CoreTypes, RegisterInv, StoreQueueInv, MemoryInv, NEW n \in Id, ScheduleMemory(n)
  PROVE  AccessInv'
<1>. USE DEF MemoryInv
<1>k. PICK K : K = KeptLoads(n)
  OBVIOUS
<1>s. PICK S : S = StoresTaken(n)
  OBVIOUS
<1>i. PICK I : I = {i \in K : MemProducer(<<n, i>>) = 0}
  OBVIOUS
<1>1. /\ trace' = trace /\ n \in Rob /\ dtlb' = dtlb /\ l1d' = l1d /\ RTL1' = RTL1 /\ RTS1' = RTS1
      /\ RTS0' = RTS0 \o InSequence(n, S)
  BY <1>s DEF ScheduleMemory, control, caches
<1>2. RTL0' = RTL0 \o InSequence(n, I)
  <2>1. LoadsTaken(n) \ {i \in LoadsTaken(n) : ForwardedAtOnce(<<n, i>>)} = K
    BY <1>k DEF KeptLoads
  <2>. QED BY <1>i, <2>1 DEF ScheduleMemory
<1>3. /\ DOMAIN lq' = DOMAIN lq \cup ({n} \X K) /\ DOMAIN lq \cap ({n} \X K) = {}
      /\ \A x \in DOMAIN lq : lq'[x] = lq[x]
      /\ \A x \in {n} \X K : lq'[x] = MemProducer(x)
  BY <1>k, EnteredLoads
<1>4. /\ IsFiniteSet(K) /\ \A i \in K : i \in Loads(n) /\ i \in Int
  BY <1>k, TakenLoads DEF KeptLoads
<1>5. I \subseteq Int /\ IsFiniteSet(I) /\ I \subseteq Loads(n) /\ I \subseteq K
  <2>1. I \in SUBSET K
    BY <1>i
  <2>. QED BY <1>4, <2>1, FS_Subset
<1>6. IsFiniteSet(S) /\ S \subseteq Int /\ S \subseteq Stores(n) /\ \A i \in S : <<"store", i>> \notin added[n]
  <2>1. \A i \in StoresTaken(n) : <<"store", i>> \notin added[n]
    BY DEF StoresTaken
  <2>. QED BY <1>1, <1>s, <2>1, TakenStores
<1>7. /\ InSequence(n, I) \in Seq({n} \X I)
      /\ \A x : Count(x, InSequence(n, I)) = IF x \in {n} \X I THEN 1 ELSE 0
  BY <1>5, Sequence
<1>8. /\ InSequence(n, S) \in Seq({n} \X S)
      /\ \A x : Count(x, InSequence(n, S)) = IF x \in {n} \X S THEN 1 ELSE 0
  BY <1>6, Sequence
<1>9. {n} \X I \subseteq LoadOps /\ {n} \X S \subseteq StoreOps
  BY <1>5, <1>6, OpFacts
<1>10. InSequence(n, I) \in Seq(LoadOps) /\ InSequence(n, S) \in Seq(StoreOps)
  BY <1>7, <1>8, <1>9
<1>11. /\ RTL0' \in Seq(LoadOps)
       /\ \A x : Count(x, RTL0') = Count(x, RTL0) + IF x \in {n} \X I THEN 1 ELSE 0
  <2>1. RTL0 \in Seq(LoadOps)
    BY DEF AccessInv, AccessTypes
  <2>2. \A x : Count(x, RTL0 \o InSequence(n, I)) = Count(x, RTL0) + Count(x, InSequence(n, I))
    BY <1>10, <2>1, CountConcat
  <2>3. RTL0 \o InSequence(n, I) \in Seq(LoadOps)
    BY <1>10, <2>1, Concatenated
  <2>. QED BY <1>2, <1>7, <2>2, <2>3
<1>12. /\ RTS0' \in Seq(StoreOps)
       /\ \A x : Count(x, RTS0') = Count(x, RTS0) + IF x \in {n} \X S THEN 1 ELSE 0
  <2>1. RTS0 \in Seq(StoreOps)
    BY DEF AccessInv, AccessTypes
  <2>2. \A x : Count(x, RTS0 \o InSequence(n, S)) = Count(x, RTS0) + Count(x, InSequence(n, S))
    BY <1>10, <2>1, CountConcat
  <2>3. RTS0 \o InSequence(n, S) \in Seq(StoreOps)
    BY <1>10, <2>1, Concatenated
  <2>. QED BY <1>1, <1>8, <2>2, <2>3
<1>13. LoadOps' = LoadOps /\ StoreOps' = StoreOps /\ DtlbLoads' = DtlbLoads /\ DtlbStores' = DtlbStores
  BY <1>1, SameTrace DEF LoadOps, StoreOps, DtlbLoads, DtlbStores
<1>14. AccessTypes'
  BY <1>1, <1>11, <1>12, <1>13 DEF AccessTypes, AccessInv
<1>15. LoadsPend'
  <2>1. ASSUME NEW x \in LoadOps
        PROVE  Bit(x \in DOMAIN lq' /\ lq'[x] = 0)
                 = Bit(x \in DOMAIN lq /\ lq[x] = 0) + IF x \in {n} \X I THEN 1 ELSE 0
    <3>1. CASE x \in {n} \X K
      <4>1. x \notin DOMAIN lq /\ x \in DOMAIN lq' /\ lq'[x] = MemProducer(x) /\ x = <<n, x[2]>> /\ x[2] \in K
        BY <1>3, <3>1
      <4>2. x \in {n} \X I <=> MemProducer(x) = 0
        BY <1>i, <4>1
      <4>. QED BY <4>1, <4>2 DEF Bit
    <3>2. CASE x \notin {n} \X K
      <4>1. x \notin {n} \X I
        BY <1>5, <3>2
      <4>2. (x \in DOMAIN lq' /\ lq'[x] = 0) <=> (x \in DOMAIN lq /\ lq[x] = 0)
        BY <1>3, <3>2
      <4>. QED BY <4>1, <4>2 DEF Bit
    <3>. QED BY <3>1, <3>2
  <2>2. ASSUME NEW x \in LoadOps
        PROVE  Count(x, RTL0') + Count(x, RTL1) + Bit(x \in DtlbLoads) + Bit(x \in l1d)
                 = Bit(x \in DOMAIN lq' /\ lq'[x] = 0)
    <3>. DEFINE a == Count(x, RTL0)
                b == Count(x, RTL1)
                c == Bit(x \in DtlbLoads)
                d == Bit(x \in l1d)
                e == Bit(x \in DOMAIN lq /\ lq[x] = 0)
                i == IF x \in {n} \X I THEN 1 ELSE 0
    <3>1. a + b + c + d = e /\ a \in Nat /\ b \in Nat /\ c \in Nat /\ d \in Nat /\ i \in Nat
      BY AccessFacts DEF AccessInv, LoadsPend
    <3>2. Count(x, RTL0') = a + i /\ Bit(x \in DOMAIN lq' /\ lq'[x] = 0) = e + i
      BY <1>11, <2>1
    <3>. HIDE DEF a, b, c, d, e, i
    <3>3. (a + i) + b + c + d = e + i
      BY <3>1
    <3>. QED BY <3>2, <3>3 DEF a, b, c, d, e
  <2>3. \A x : Count(x, RTL0)' = Count(x, RTL0') /\ Count(x, RTL1)' = Count(x, RTL1)
    BY <1>1 DEF Count
  <2>. QED BY <1>1, <1>13, <2>2, <2>3 DEF LoadsPend, Bit
<1>16. ASSUME NEW x \in StoreOps
       PROVE  Count(x, RTS0') + Count(x, RTS1) + Bit(x \in DtlbStores)
                = Bit(\E k \in DOMAIN sq' : sq'[k].op = x /\ ~sq'[k].executed)
  <2>. DEFINE old == \E k \in DOMAIN sq : sq[k].op = x /\ ~sq[k].executed
              new == \E k \in DOMAIN sq' : sq'[k].op = x /\ ~sq'[k].executed
  <2>1. /\ \A k \in DOMAIN sq : k \in DOMAIN sq' /\ sq'[k] = sq[k]
        /\ \A k \in DOMAIN sq' \ DOMAIN sq : /\ ~sq'[k].executed /\ sq'[k].op[1] = n /\ sq'[k].op[2] \in S
                                             /\ sq'[k].op = <<n, sq'[k].op[2]>>
        /\ \A i \in S : \E k \in DOMAIN sq' \ DOMAIN sq : sq'[k].op = <<n, i>>
    BY <1>1, <1>s, EnteredEntries
  <2>2. x \in {n} \X S => ~old
    <3>1. ASSUME x \in {n} \X S, NEW k \in DOMAIN sq, sq[k].op = x PROVE FALSE
      <4>1. <<"store", sq[k].op[2]>> \in added[sq[k].op[1]]
        BY SqFacts DEF StoreQueueInv
      <4>2. x[1] = n /\ x[2] \in S
        BY <3>1
      <4>. QED BY <1>6, <3>1, <4>1, <4>2
    <3>. QED BY <3>1
  <2>3. new <=> old \/ x \in {n} \X S
    <3>1. ASSUME x \in {n} \X S PROVE new
      <4>1. x[2] \in S /\ x = <<n, x[2]>>
        BY <3>1
      <4>. QED BY <2>1, <4>1
    <3>2. old => new
      BY <2>1
    <3>3. ASSUME NEW k \in DOMAIN sq', sq'[k].op = x, ~sq'[k].executed PROVE old \/ x \in {n} \X S
      <4>1. CASE k \in DOMAIN sq
        BY <2>1, <3>3, <4>1
      <4>2. CASE k \notin DOMAIN sq
        <5>1. x = <<n, sq'[k].op[2]>> /\ sq'[k].op[2] \in S
          BY <2>1, <3>3, <4>2
        <5>2. x \in {n} \X S
          BY <5>1
        <5>. QED BY <5>2
      <4>. QED BY <4>1, <4>2
    <3>. QED BY <3>1, <3>2, <3>3
  <2>. DEFINE a == Count(x, RTS0)
              b == Count(x, RTS1)
              c == Bit(x \in DtlbStores)
              i == IF x \in {n} \X S THEN 1 ELSE 0
  <2>4. a + b + c = Bit(old) /\ a \in Nat /\ b \in Nat /\ c \in Nat /\ i \in Nat
    BY AccessFacts DEF AccessInv, StoresPend
  <2>5. Count(x, RTS0') = a + i
    BY <1>12
  <2>. HIDE DEF old, new
  <2>6. Bit(new) = Bit(old) + i
    BY <2>2, <2>3 DEF Bit
  <2>. HIDE DEF a, b, c, i
  <2>7. (a + i) + b + c = Bit(old) + i
    BY <2>4
  <2>. QED BY <2>5, <2>6, <2>7 DEF a, b, c, new
<1>17. StoresPend'
  <2>1. \A y : Count(y, RTS0)' = Count(y, RTS0') /\ Count(y, RTS1)' = Count(y, RTS1)
    BY <1>1 DEF Count
  <2>2. \A y : /\ Bit(y \in DtlbStores)' = Bit(y \in DtlbStores)
               /\ Bit(\E k \in DOMAIN sq : sq[k].op = y /\ ~sq[k].executed)'
                    = Bit(\E k \in DOMAIN sq' : sq'[k].op = y /\ ~sq'[k].executed)
    BY <1>13 DEF Bit
  <2>3. ASSUME NEW y \in StoreOps
        PROVE  (Count(y, RTS0) + Count(y, RTS1) + Bit(y \in DtlbStores))'
                  = Bit(\E k \in DOMAIN sq : sq[k].op = y /\ ~sq[k].executed)'
    <3>1. Count(y, RTS0') + Count(y, RTS1) + Bit(y \in DtlbStores)
            = Bit(\E k \in DOMAIN sq' : sq'[k].op = y /\ ~sq'[k].executed)
      BY <1>16
    <3>2. /\ Bit(y \in DtlbStores)' = Bit(y \in DtlbStores)
          /\ Bit(\E k \in DOMAIN sq : sq[k].op = y /\ ~sq[k].executed)'
                = Bit(\E k \in DOMAIN sq' : sq'[k].op = y /\ ~sq'[k].executed)
      BY <2>2
    <3>. QED BY <2>1, <3>1, <3>2
  <2>. QED BY <1>13, <2>3 DEF StoresPend
<1>. QED BY <1>14, <1>15, <1>17 DEF AccessInv

\* so that it keeps the part about memory operations.
LEMMA MemorySchedulingKeepsMemory ==
  ASSUME CoreTypes, RegisterInv, StoreQueueInv, MemoryInv, NEW n \in Id, ScheduleMemory(n)
  PROVE  MemoryInv'
<1>1. SlotsInv'
  BY KeptLoadsFit DEF MemoryInv
<1>2. CountersInv'
  BY MemorySchedulingKeepsCounters
<1>3. LoadQueueInv'
  BY MemorySchedulingKeepsLoads DEF MemoryInv
<1>4. AccessInv'
  BY MemorySchedulingKeepsAccesses
<1>. QED BY <1>1, <1>2, <1>3, <1>4 DEF MemoryInv

\* The youngest of what is left when the oldest goes.
LEMMA YoungestWithout ==
  ASSUME NEW S, NEW b \in Nat, S \subseteq 1 .. b, NEW n \in Nat, \A k \in S : n <= k
  PROVE  Youngest(S \ {n}) = IF Youngest(S) = n THEN 0 ELSE Youngest(S)
<1>. DEFINE y == Youngest(S)
            z == Youngest(S \ {n})
<1>1. y \in S \cup {0} /\ (\A k \in S : k <= y) /\ (y = 0 <=> S = {})
  BY YoungestIs
<1>2. z \in (S \ {n}) \cup {0} /\ (\A k \in S \ {n} : k <= z) /\ (z = 0 <=> S \ {n} = {})
  <2>1. S \ {n} \subseteq 1 .. b
    OBVIOUS
  <2>. QED BY <2>1, YoungestIs
<1>3. \A k \in S : k \in Nat /\ 1 <= k
  OBVIOUS
<1>. HIDE DEF y, z
<1>4. CASE y = n
  <2>1. \A k \in S : k = n
    BY <1>1, <1>3, <1>4
  <2>. QED BY <1>2, <1>4, <2>1 DEF y, z
<1>5. CASE y # n
  <2>1. CASE S = {}
    BY <1>1, <1>2, <1>5, <2>1 DEF y, z
  <2>2. CASE S # {}
    <3>1. y \in S \ {n}
      BY <1>1, <1>5, <2>2
    <3>2. z \in S
      BY <1>2, <3>1
    <3>3. y <= z /\ z <= y
      BY <1>1, <1>2, <3>1, <3>2
    <3>4. y = z
      BY <1>3, <3>1, <3>2, <3>3
    <3>. QED BY <1>5, <3>4 DEF y, z
  <2>. QED BY <2>1, <2>2
<1>. QED BY <1>4, <1>5

\* The producer of a load after the head of the ROB has retired.
LEMMA ProducerAfterRetirement ==
  ASSUME CoreTypes, RetireRob, NEW x \in LoadOps
  PROVE  MemProducer(x)' = IF MemProducer(x) = retired + 1 THEN 0 ELSE MemProducer(x)
<1>. DEFINE M(O) == {m \in O : \E i \in Stores(m) : trace[m].store[i] = Address(x, "load")}
            S == M(Older(x[1]))
<1>n. PICK n : n = retired + 1
  OBVIOUS
<1>1. trace' = trace /\ retired' = n /\ retired \in Nat /\ n \in Nat /\ n \in Rob
  BY <1>n, RetirementFacts DEF CoreTypes
<1>2. x[1] \in Id
  BY OpFacts
<1>3. Older(x[1]) \subseteq Id /\ Id = 1 .. Len(trace) /\ Len(trace) \in Nat
      /\ \A m \in Older(x[1]) : n <= m
  <2>1. Older(x[1]) \subseteq Id /\ \A m \in Older(x[1]) : m \in Int /\ retired < m
    BY <1>2, RobFacts
  <2>. QED BY <1>n, <1>1, <2>1, TraceFacts DEF CoreTypes
<1>4. Older(x[1])' = Older(x[1]) \ {n}
  <2>1. x[1] \in Int
    BY <1>2, RobFacts
  <2>. QED BY <1>n, <1>1, <2>1 DEF Older
<1>5. {m \in Older(x[1]) : \E i \in Stores(m) : trace[m].store[i] = Address(x, "load")}' = S \ {n}
  <2>1. (\A m : Stores(m)' = Stores(m)) /\ Address(x, "load")' = Address(x, "load")
    BY <1>1, SameTrace
  <2>. QED BY <1>1, <1>4, <2>1
<1>6. S \subseteq 1 .. Len(trace) /\ \A k \in S : n <= k
  BY <1>3
<1>7. Youngest(S \ {n}) = IF Youngest(S) = n THEN 0 ELSE Youngest(S)
  <2>. HIDE DEF S
  <2>. QED BY <1>1, <1>3, <1>6, YoungestWithout
<1>8. MemProducer(x) = Youngest(S)
  BY DEF MemProducer
<1>9. MemProducer(x)' = Youngest(S \ {n})
  BY <1>5 DEF MemProducer, Youngest
<1>. QED BY <1>n, <1>7, <1>8, <1>9

\* When the head of the ROB retires, all of its operations are over, and no
\* load waits for one of its stores.
LEMMA RetiredIsOver ==
  ASSUME CoreTypes, RegisterInv, StoreQueueInv, MemoryInv, RetireRob, NEW n, n = retired + 1
  PROVE  /\ n \in Rob /\ n \in Id /\ n \in Nat /\ executed[n] = "completed" /\ num_mem_ops[n] = 0
         /\ OpenLoads(n) = {} /\ OpenStores(n) = {}
         /\ \A k \in DOMAIN sq : sq[k].op[1] = n => sq[k].executed
         /\ \A x \in DOMAIN lq : x[1] # n /\ lq[x] # n
<1>. USE DEF MemoryInv
<1>1. n \in Rob /\ n \in Id /\ n \in Nat /\ executed[n] = "completed"
  <2>1. n \in Rob /\ executed[n] = "completed"
    BY RetirementFacts
  <2>2. n \in Nat
    BY DEF CoreTypes
  <2>. QED BY <2>1, <2>2, RobFacts
<1>2. num_mem_ops[n] = 0 /\ OpenLoads(n) = {} /\ OpenStores(n) = {}
  BY <1>1, CountOfEntry
<1>3. \A i \in Stores(n) : \E k \in DOMAIN sq : sq[k].op = <<n, i>> /\ sq[k].executed
  BY <1>2 DEF OpenStores
<1>4. ASSUME NEW k \in DOMAIN sq, sq[k].op[1] = n PROVE sq[k].executed
  <2>1. sq[k].op = <<n, sq[k].op[2]>> /\ sq[k].op[2] \in Stores(n)
    BY <1>4, SqFacts DEF StoreQueueInv
  <2>2. PICK j \in DOMAIN sq : sq[j].op = sq[k].op /\ sq[j].executed
    BY <1>3, <2>1
  <2>3. j = k
    BY <2>2 DEF StoreQueueInv, InStoreQueue
  <2>. QED BY <2>2, <2>3
<1>5. ASSUME NEW x \in DOMAIN lq PROVE x[1] # n /\ lq[x] # n
  <2>1. x[2] \in OpenLoads(x[1]) /\ x \in LoadOps /\ lq[x] = MemProducer(x)
    BY WaitingLoads
  <2>2. x[1] # n
    BY <1>2, <2>1
  <2>3. ASSUME lq[x] = n PROVE FALSE
    <3>1. n # 0
      BY <1>1, RobFacts
    <3>2. \E i \in Stores(n) : Address(<<n, i>>, "store") = Address(x, "load")
      BY <2>1, <2>3, <3>1, MemProducerFacts
    <3>3. PICK i \in Stores(n) : Address(<<n, i>>, "store") = Address(x, "load")
      BY <3>2
    <3>4. PICK k \in DOMAIN sq : sq[k].op = <<n, i>> /\ sq[k].executed
      BY <1>3
    <3>5. sq[k].op[1] = lq[x] /\ Address(sq[k].op, "store") = Address(x, "load") /\ lq[x] # 0
      BY <2>3, <3>1, <3>3, <3>4
    <3>. QED BY <3>4, <3>5 DEF LoadQueueInv, ProducerWaits
  <2>. QED BY <2>2, <2>3
<1>. QED BY <1>1, <1>2, <1>4, <1>5

\* The store queue without the entries of the head.
LEMMA QueueAfterRetirement ==
  ASSUME CoreTypes, RegisterInv, StoreQueueInv, RetireRob, NEW n, n = retired + 1
  PROVE  /\ \A k \in DOMAIN sq' : \E j \in DOMAIN sq : sq'[k] = sq[j] /\ sq[j].op[1] # n
         /\ \A j \in DOMAIN sq : sq[j].op[1] # n => \E k \in DOMAIN sq' : sq'[k] = sq[j]
<1>. DEFINE c == Cardinality(Stores(retired + 1))
<1>1. /\ \A k \in DOMAIN sq' : sq'[k] = sq[c + k] /\ c + k \in DOMAIN sq /\ sq'[k].op[1] # n
      /\ \A k \in DOMAIN sq : sq[k].op[1] # n => k - c \in DOMAIN sq' /\ sq'[k - c] = sq[k]
  BY HeadEntries
<1>. HIDE DEF c
<1>. QED BY <1>1

\* A retired instruction has no load in the queue, and no load in the queue waits for it;
LEMMA RetirementKeepsLoads ==
  ASSUME CoreTypes, RegisterInv, StoreQueueInv, MemoryInv, RetireRob
  PROVE  LoadQueueInv'
<1>. USE DEF MemoryInv
<1>n. PICK n : n = retired + 1
  OBVIOUS
<1>1. /\ trace' = trace /\ retired' = n /\ dispatched' = dispatched /\ lq' = lq
      /\ memory_instrs_depend_on_me' = [memory_instrs_depend_on_me EXCEPT ![n] = {}]
  BY <1>n DEF RetireRob
<1>2. /\ n \in Rob /\ n \in Id /\ n \in Nat
      /\ \A x \in DOMAIN lq : x[1] # n /\ lq[x] # n
  BY <1>n, RetiredIsOver
<1>3. Rob' = Rob \ {n} /\ Id' = Id /\ Rob \subseteq Id
      /\ (\A k \in Id : k # n => added'[k] = added[k])
  BY <1>n, RetirementFacts
<1>4. /\ LoadOps' = LoadOps /\ (\A m : Loads(m)' = Loads(m))
      /\ \A y : Address(y, "load")' = Address(y, "load") /\ Address(y, "store")' = Address(y, "store")
  BY <1>1, SameTrace DEF LoadOps
<1>5. \A x \in LoadOps : MemProducer(x)' = IF MemProducer(x) = n THEN 0 ELSE MemProducer(x)
  BY <1>n, ProducerAfterRetirement
<1>6. \A m \in Id : memory_instrs_depend_on_me'[m] = IF m = n THEN {} ELSE memory_instrs_depend_on_me[m]
  BY <1>1, <1>2 DEF LoadQueueInv, DependentsKnown
<1>7. \A x \in DOMAIN lq : /\ x \in LoadOps /\ x[1] \in Id /\ <<"load", x[2]>> \in added[x[1]]
                           /\ lq[x] = MemProducer(x) /\ lq[x] \in Nat
  BY WaitingLoads
<1>8. InLoadQueue'
  BY <1>1, <1>2, <1>3, <1>4, <1>5, <1>7 DEF InLoadQueue
<1>9. DependentsKnown'
  <2>1. memory_instrs_depend_on_me' \in [Id -> SUBSET Id]
    BY <1>1 DEF LoadQueueInv, DependentsKnown
  <2>2. ASSUME NEW m \in Id, NEW d \in Id, d \in memory_instrs_depend_on_me'[m]
        PROVE  /\ m < d /\ m \in Rob \ {n} /\ d \in Rob \ {n}
               /\ \E i \in Loads(d) : <<"load", i>> \in added'[d] /\ MemProducer(<<d, i>>)' = m
    <3>1. m # n /\ d \in memory_instrs_depend_on_me[m]
      BY <1>6, <2>2
    <3>2. m < d /\ m \in Rob /\ d \in Rob
      BY <3>1 DEF LoadQueueInv, DependentsKnown
    <3>3. d # n
      <4>1. retired < m /\ m \in Int /\ d \in Int /\ retired \in Int
        BY <3>2, RobFacts DEF CoreTypes
      <4>. QED BY <1>n, <3>2, <4>1
    <3>4. PICK i \in Loads(d) : <<"load", i>> \in added[d] /\ MemProducer(<<d, i>>) = m
      BY <3>1 DEF LoadQueueInv, DependentsKnown
    <3>x. PICK x : x = <<d, i>>
      OBVIOUS
    <3>5. x \in LoadOps /\ MemProducer(x) = m
      BY <3>4, <3>x, OpFacts
    <3>6. MemProducer(x)' = m
      BY <1>5, <3>1, <3>5
    <3>. QED BY <1>3, <3>1, <3>2, <3>3, <3>4, <3>6, <3>x
  <2>3. ASSUME NEW x \in DOMAIN lq, lq[x] # 0 PROVE x[1] \in memory_instrs_depend_on_me'[lq[x]]
    <3>1. lq[x] # n /\ lq[x] \in Id
      <4>1. lq[x] = MemProducer(x) /\ x \in LoadOps
        BY <1>7
      <4>. QED BY <1>2, <2>3, <4>1, MemProducerFacts
    <3>2. x[1] \in memory_instrs_depend_on_me[lq[x]]
      BY <2>3 DEF LoadQueueInv, DependentsKnown
    <3>. QED BY <1>6, <3>1, <3>2
  <2>. QED BY <1>1, <1>3, <1>4, <2>1, <2>2, <2>3 DEF DependentsKnown
<1>10. ProducerWaits'
  <2>1. \A k \in DOMAIN sq' : \E j \in DOMAIN sq : sq'[k] = sq[j] /\ sq[j].op[1] # n
    BY <1>n, QueueAfterRetirement
  <2>2. ASSUME NEW x \in DOMAIN lq, NEW k \in DOMAIN sq', lq[x] # 0, sq'[k].op[1] = lq[x],
               Address(sq[k].op, "store")' = Address(x, "load")
        PROVE  ~sq'[k].executed
    <3>1. PICK j \in DOMAIN sq : sq'[k] = sq[j]
      BY <2>1
    <3>2. Address(sq[k].op, "store")' = Address(sq[j].op, "store")
      BY <1>1, <3>1 DEF Address
    <3>. QED BY <2>2, <3>1, <3>2 DEF LoadQueueInv, ProducerWaits
  <2>. QED BY <1>1, <1>4, <2>2 DEF ProducerWaits
<1>. QED BY <1>8, <1>9, <1>10 DEF LoadQueueInv

\* its operations are over, so that the counters forget it,
LEMMA RetirementKeepsCounters ==
  ASSUME CoreTypes, RegisterInv, StoreQueueInv, MemoryInv, RetireRob
  PROVE  CountersInv'
<1>. USE DEF MemoryInv
<1>n. PICK n : n = retired + 1
  OBVIOUS
<1>1. /\ trace' = trace /\ retired' = n /\ dispatched' = dispatched /\ lq' = lq /\ read' = read
      /\ num_mem_ops' = num_mem_ops /\ inflight_mem_executions' = inflight_mem_executions
      /\ seen' = seen
  BY <1>n DEF RetireRob, frontEnd, inflight
<1>2. /\ n \in Rob /\ n \in Id /\ n \in Nat /\ executed[n] = "completed" /\ num_mem_ops[n] = 0
  BY <1>n, RetiredIsOver
<1>3. Rob' = Rob \ {n} /\ Id' = Id /\ Rob \subseteq Id
      /\ (\A k \in Id : k # n => added'[k] = added[k] /\ executed'[k] = executed[k])
  BY <1>n, RetirementFacts
<1>4. LoadOps' = LoadOps /\ (\A m : Loads(m)' = Loads(m) /\ Stores(m)' = Stores(m))
      /\ (\A m : IsMemory(m)' <=> IsMemory(m))
  BY <1>1, SameTrace DEF LoadOps
<1>5. /\ \A k \in DOMAIN sq' : \E j \in DOMAIN sq : sq'[k] = sq[j] /\ sq[j].op[1] # n
      /\ \A j \in DOMAIN sq : sq[j].op[1] # n => \E k \in DOMAIN sq' : sq'[k] = sq[j]
  BY <1>n, QueueAfterRetirement
<1>6. ASSUME NEW m \in Id, m # n
      PROVE  OpenLoads(m)' = OpenLoads(m) /\ OpenStores(m)' = OpenStores(m)
  <2>1. OpenLoads(m)' = OpenLoads(m)
    BY <1>1, <1>3, <1>4, <1>6 DEF OpenLoads
  <2>2. ASSUME NEW i
        PROVE  (\E k \in DOMAIN sq' : sq'[k].op = <<m, i>> /\ sq'[k].executed)
                 <=> (\E k \in DOMAIN sq : sq[k].op = <<m, i>> /\ sq[k].executed)
    <3>1. <<m, i>>[1] # n
      BY <1>6
    <3>. QED BY <1>5, <3>1
  <2>3. OpenStores(m)' = OpenStores(m)
    BY <1>4, <2>2 DEF OpenStores
  <2>. QED BY <2>1, <2>3
<1>7. OpsCounted'
  <2>1. ASSUME NEW m \in 1 .. read
        PROVE  num_mem_ops[m] = IF m <= n THEN 0
                                ELSE Cardinality(OpenLoads(m)') + Cardinality(OpenStores(m)')
    <3>0. m \in Id /\ m \in Int /\ retired \in Int
      BY TraceFacts DEF CoreTypes
    <3>1. num_mem_ops[m] = IF m <= retired THEN 0
                           ELSE Cardinality(OpenLoads(m)) + Cardinality(OpenStores(m))
      BY DEF CountersInv, OpsCounted
    <3>2. CASE m = n
      BY <1>2, <3>2
    <3>3. CASE m # n
      <4>1. m <= n <=> m <= retired
        BY <1>n, <3>0, <3>3
      <4>. QED BY <1>6, <3>0, <3>1, <3>3, <4>1
    <3>. QED BY <3>2, <3>3
  <2>2. \A m \in Rob \ {n} : executed'[m] = "completed" => num_mem_ops[m] = 0
    BY <1>3 DEF CountersInv, OpsCounted
  <2>. QED BY <1>1, <1>3, <2>1, <2>2 DEF OpsCounted
<1>8. Unfinished' = Unfinished
  <2>1. \A m : m \in Unfinished' <=> m \in Rob' /\ IsMemory(m) /\ num_mem_ops[m] = 0 /\ executed'[m] # "completed"
    BY <1>1, <1>4 DEF Unfinished
  <2>2. \A m : m \in Unfinished <=> m \in Rob /\ IsMemory(m) /\ num_mem_ops[m] = 0 /\ executed[m] # "completed"
    BY DEF Unfinished
  <2>. QED BY <1>2, <1>3, <2>1, <2>2
<1>. QED BY <1>1, <1>3, <1>4, <1>7, <1>8 DEF CountersInv

\* its stores have no access pending,
LEMMA RetirementKeepsAccesses ==
  ASSUME CoreTypes, RegisterInv, StoreQueueInv, MemoryInv, RetireRob
  PROVE  AccessInv'
<1>. USE DEF MemoryInv
<1>n. PICK n : n = retired + 1
  OBVIOUS
<1>1. /\ trace' = trace /\ lq' = lq /\ dtlb' = dtlb /\ l1d' = l1d
      /\ RTL0' = RTL0 /\ RTL1' = RTL1 /\ RTS0' = RTS0 /\ RTS1' = RTS1
  BY DEF RetireRob, rings
<1>2. \A k \in DOMAIN sq : sq[k].op[1] = n => sq[k].executed
  BY <1>n, RetiredIsOver
<1>3. /\ \A k \in DOMAIN sq' : \E j \in DOMAIN sq : sq'[k] = sq[j] /\ sq[j].op[1] # n
      /\ \A j \in DOMAIN sq : sq[j].op[1] # n => \E k \in DOMAIN sq' : sq'[k] = sq[j]
  BY <1>n, QueueAfterRetirement
<1>4. LoadOps' = LoadOps /\ StoreOps' = StoreOps /\ DtlbLoads' = DtlbLoads /\ DtlbStores' = DtlbStores
  BY <1>1, SameTrace DEF LoadOps, StoreOps, DtlbLoads, DtlbStores
<1>5. AccessTypes'
  BY <1>1, <1>4 DEF AccessTypes, AccessInv
<1>6. \A y : /\ Count(y, RTL0)' = Count(y, RTL0) /\ Count(y, RTL1)' = Count(y, RTL1)
             /\ Count(y, RTS0)' = Count(y, RTS0) /\ Count(y, RTS1)' = Count(y, RTS1)
  BY <1>1 DEF Count
<1>7. LoadsPend'
  BY <1>1, <1>4, <1>6 DEF LoadsPend, AccessInv, Bit
<1>8. ASSUME NEW y \in StoreOps
      PROVE  (Count(y, RTS0) + Count(y, RTS1) + Bit(y \in DtlbStores))'
               = Bit(\E k \in DOMAIN sq : sq[k].op = y /\ ~sq[k].executed)'
  <2>1. (\E k \in DOMAIN sq' : sq'[k].op = y /\ ~sq'[k].executed)
          <=> (\E k \in DOMAIN sq : sq[k].op = y /\ ~sq[k].executed)
    BY <1>2, <1>3
  <2>2. Bit(\E k \in DOMAIN sq : sq[k].op = y /\ ~sq[k].executed)'
          = Bit(\E k \in DOMAIN sq : sq[k].op = y /\ ~sq[k].executed)
    BY <2>1 DEF Bit
  <2>3. Bit(y \in DtlbStores)' = Bit(y \in DtlbStores)
    BY <1>4 DEF Bit
  <2>4. Count(y, RTS0) + Count(y, RTS1) + Bit(y \in DtlbStores)
          = Bit(\E k \in DOMAIN sq : sq[k].op = y /\ ~sq[k].executed)
    BY DEF AccessInv, StoresPend
  <2>. QED BY <1>6, <2>2, <2>3, <2>4
<1>9. StoresPend'
  BY <1>4, <1>8 DEF StoresPend
<1>. QED BY <1>5, <1>7, <1>9 DEF AccessInv

\* What an instruction writes takes no more slots than it has stores.
LEMMA WrittenFits ==
  ASSUME trace \in Traces, NEW n \in Id
  PROVE  LET written == {trace[n].store[i] : i \in Stores(n)} IN
         /\ IsFiniteSet(written) /\ Cardinality(written) <= Cardinality(Stores(n))
         /\ Stores(n) = {} => written = {}
<1>. DEFINE written == {trace[n].store[i] : i \in Stores(n)}
            f == [i \in Stores(n) |-> trace[n].store[i]]
            S == Stores(n)
<1>1. IsFiniteSet(S)
  BY InstructionFacts
<1>2. f \in Surjection(S, written)
  <2>1. f \in [S -> written]
    OBVIOUS
  <2>2. \A y \in written : \E i \in S : f[i] = y
    OBVIOUS
  <2>. HIDE DEF f, S, written
  <2>. QED BY <2>1, <2>2 DEF Surjection
<1>3. S = {} => written = {}
  OBVIOUS
<1>. HIDE DEF f, S, written
<1>4. IsFiniteSet(written) /\ Cardinality(written) <= Cardinality(S)
  BY <1>1, <1>2, FS_Surjection
<1>. QED BY <1>3, <1>4 DEF S, written

\* and its stores fit in the write queue,
LEMMA RetirementKeepsSlots ==
  ASSUME CoreTypes, SlotsInv, RetireRob
  PROVE  SlotsInv'
<1>n. PICK n : n = retired + 1
  OBVIOUS
<1>. DEFINE written == {trace[n].store[i] : i \in Stores(n)}
            c == Cardinality(Stores(n))
            w == Cardinality(written)
            q == Cardinality(wq)
<1>1. /\ n \in Id /\ lq' = lq /\ wq' = wq \cup written
      /\ Stores(n) = {} \/ q + c <= L1D_WQ_SIZE
  BY <1>n, RetirementFacts DEF RetireRob, RoomToRetire
<1>2. IsFiniteSet(written) /\ w <= c /\ (Stores(n) = {} => written = {})
  BY <1>1, WrittenFits DEF CoreTypes
<1>3. c \in Nat
  BY <1>1, InstructionFacts DEF CoreTypes
<1>4. IsFiniteSet(wq) /\ q <= L1D_WQ_SIZE
  BY DEF SlotsInv
<1>. HIDE DEF written
<1>5. w \in Nat /\ q \in Nat /\ Cardinality(wq \cap written) \in Nat
      /\ IsFiniteSet(wq \cup written)
      /\ Cardinality(wq \cup written) = q + w - Cardinality(wq \cap written)
  <2>1. IsFiniteSet(wq \cap written)
    BY <1>4, FS_Subset
  <2>. QED BY <1>2, <1>4, <2>1, FS_Union, FS_CardinalityType
<1>6. L1D_WQ_SIZE \in Nat
  BY CoreAssumption
<1>7. Cardinality(wq \cup written) <= L1D_WQ_SIZE
  <2>1. CASE Stores(n) = {}
    <3>1. wq \cup written = wq
      BY <1>2, <2>1
    <3>. QED BY <1>4, <3>1
  <2>2. CASE q + c <= L1D_WQ_SIZE
    <3>. DEFINE x == Cardinality(wq \cap written)
                y == Cardinality(wq \cup written)
    <3>1. y = q + w - x /\ x \in Nat
      BY <1>5
    <3>. HIDE DEF x, y, q, w, c
    <3>2. y <= L1D_WQ_SIZE
      BY <1>2, <1>3, <1>5, <1>6, <2>2, <3>1
    <3>. QED BY <3>2 DEF y
  <2>. QED BY <1>1, <2>1, <2>2
<1>. QED BY <1>1, <1>5, <1>7 DEF SlotsInv

\* so that retire_rob keeps the part about memory operations.
LEMMA RetirementKeepsMemory ==
  ASSUME CoreTypes, RegisterInv, StoreQueueInv, MemoryInv, RetireRob
  PROVE  MemoryInv'
BY RetirementKeepsLoads, RetirementKeepsCounters, RetirementKeepsAccesses, RetirementKeepsSlots
   DEF MemoryInv

\* The part about memory operations holds at the start.
LEMMA InitMemoryInv == Init => MemoryInv
<1>. SUFFICES ASSUME Init PROVE MemoryInv
  OBVIOUS
<1>0. CoreTypes /\ retired = 0 /\ dispatched = 0 /\ read = 0
  BY InitCoreTypes DEF Init
<1>1. Rob = {}
  BY <1>0, RobFacts DEF CoreTypes
<1>2. /\ lq = <<>> /\ sq = <<>> /\ DOMAIN sq = {} /\ DOMAIN lq = {}
      /\ RTL0 = <<>> /\ RTL1 = <<>> /\ RTS0 = <<>> /\ RTS1 = <<>> /\ dtlb = {} /\ l1d = {} /\ wq = {}
      /\ inflight_mem_executions = 0 /\ num_mem_ops = [n \in Id |-> 0]
      /\ memory_instrs_depend_on_me = [n \in Id |-> {}]
      /\ seen = [x \in UNION {{n} \X Loads(n) : n \in Id} |-> -1]
  BY DEF Init
<1>3. CountersInv
  <2>1. Unfinished = {}
    BY <1>1 DEF Unfinished
  <2>2. inflight_mem_executions = Cardinality(Unfinished)
    BY <1>2, <2>1, FS_EmptySet
  <2>3. 1 .. read = {}
    BY <1>0
  <2>4. OpsCounted
    BY <1>1, <2>3 DEF OpsCounted
  <2>5. DOMAIN seen = LoadOps
    BY <1>2 DEF LoadOps
  <2>. QED BY <1>2, <2>2, <2>4, <2>5 DEF CountersInv
<1>4. LoadQueueInv
  BY <1>2 DEF LoadQueueInv, InLoadQueue, DependentsKnown, ProducerWaits
<1>5. AccessInv
  <2>1. AccessTypes
    BY <1>2 DEF AccessTypes
  <2>2. DtlbLoads = {} /\ DtlbStores = {}
    BY <1>2 DEF DtlbLoads, DtlbStores
  <2>3. \A x : Count(x, <<>>) = 0
    BY FS_EmptySet DEF Count
  <2>4. LoadsPend
    BY <1>2, <2>2, <2>3 DEF LoadsPend, Bit
  <2>5. StoresPend
    BY <1>2, <2>2, <2>3 DEF StoresPend, Bit
  <2>. QED BY <2>1, <2>4, <2>5 DEF AccessInv
<1>6. SlotsInv
  BY <1>2, FS_EmptySet, CoreAssumption DEF SlotsInv
<1>. QED BY <1>3, <1>4, <1>5, <1>6 DEF MemoryInv

\* The parts that a step leaves alone.
LEMMA SlotsFrame == ASSUME SlotsInv, lq' = lq, wq' = wq PROVE SlotsInv'
BY DEF SlotsInv

\* The front end, the scheduler and the units that execute only registers.
LEMMA RestKeepsMemory ==
  ASSUME MemoryInv, CountersInv', Rob \subseteq Rob',
         UNCHANGED <<trace, retired, added, sq, lq, memory_instrs_depend_on_me,
                     RTL0, RTL1, RTS0, RTS1, dtlb, l1d, wq>>
  PROVE  MemoryInv'
BY LoadQueueFrame, AccessFrame, SlotsFrame DEF MemoryInv

\* The steps before the ROB keep it,
LEMMA FrontEndKeepsMemory ==
  ASSUME CoreTypes, RegisterInv, StoreQueueInv, MemoryInv,
         \/ \E mispredicted \in BOOLEAN : ReadFromTrace(mispredicted)
         \/ ResumeFetch \/ SendToDecode \/ DecodeAndDispatch
         \/ \E n \in Id : FetchLine(n) \/ DoScheduling(n)
         \/ \E x \in CodeLine, k \in 1 .. Len(trace) : L1iAnswer(x, k)
         \/ UNCHANGED vars
  PROVE  MemoryInv'
<1>. USE DEF MemoryInv
<1>1. CASE \E mispredicted \in BOOLEAN : ReadFromTrace(mispredicted)
  <2>1. CountersInv'
    BY <1>1, ReadingKeepsCounters
  <2>2. /\ dispatched' = dispatched
        /\ UNCHANGED <<trace, retired, added, sq, lq, memory_instrs_depend_on_me,
                     RTL0, RTL1, RTS0, RTS1, dtlb, l1d, wq>>
    BY <1>1 DEF ReadFromTrace, rings, caches
  <2>3. Rob' = Rob
    BY <2>2 DEF Rob
  <2>. QED BY <2>1, <2>2, <2>3, RestKeepsMemory
<1>2. CASE DecodeAndDispatch
  <2>1. CountersInv'
    BY <1>2, DispatchKeepsCounters
  <2>2. /\ dispatched' = dispatched + 1
        /\ UNCHANGED <<trace, retired, added, sq, lq, memory_instrs_depend_on_me,
                     RTL0, RTL1, RTS0, RTS1, dtlb, l1d, wq>>
    BY <1>2 DEF DecodeAndDispatch, lsq, rings, caches
  <2>3. Rob \subseteq Rob'
    BY <2>2 DEF Rob, CoreTypes
  <2>. QED BY <2>1, <2>2, <2>3, RestKeepsMemory
<1>3. ASSUME ~DecodeAndDispatch, ~ \E mispredicted \in BOOLEAN : ReadFromTrace(mispredicted)
      PROVE  MemoryInv'
  <2>1. /\ dispatched' = dispatched /\ read' = read /\ executed' = executed
        /\ num_mem_ops' = num_mem_ops /\ inflight_mem_executions' = inflight_mem_executions
        /\ seen' = seen
        /\ UNCHANGED <<trace, retired, added, sq, lq, memory_instrs_depend_on_me,
                     RTL0, RTL1, RTS0, RTS1, dtlb, l1d, wq>>
    BY <1>3 DEF ResumeFetch, SendToDecode, FetchLine, DoScheduling, L1iAnswer, vars,
       control, frontEnd, lsq, rings, caches, inflight, history
  <2>2. Rob' = Rob
    BY <2>1 DEF Rob
  <2>3. CountersInv'
    BY <2>1, <2>2, CountersFrame
  <2>. QED BY <2>1, <2>2, <2>3, RestKeepsMemory
<1>. QED BY <1>1, <1>2, <1>3

\* so do the execution and completion of instructions,
LEMMA ExecutionKeepsMemory ==
  ASSUME CoreTypes, RegisterInv, StoreQueueInv, MemoryInv,
         ExecuteInstruction \/ \E n \in Id : CompleteExecution(n)
  PROVE  MemoryInv'
<1>. USE DEF MemoryInv
<1>1. CountersInv'
  BY ExecutionKeepsCounters, CompletionKeepsCounters
<1>2. /\ dispatched' = dispatched
      /\ UNCHANGED <<trace, retired, added, sq, lq, memory_instrs_depend_on_me,
                     RTL0, RTL1, RTS0, RTS1, dtlb, l1d, wq>>
  BY DEF ExecuteInstruction, DoExecution, CompleteExecution, control, lsq, caches
<1>3. Rob' = Rob
  BY <1>2 DEF Rob
<1>. QED BY <1>1, <1>2, <1>3, RestKeepsMemory

\* The accesses on their way.
LEMMA AccessesKeepMemory ==
  ASSUME CoreTypes, RegisterInv, StoreQueueInv, MemoryInv,
         \/ TranslateStore \/ TranslateLoad \/ ExecuteLoad \/ \E p \in dtlb : DtlbAnswer(p)
         \/ \E a \in Addr : L1dWrite(a)
  PROVE  MemoryInv'
<1>. USE DEF MemoryInv
<1>1. /\ UNCHANGED <<trace, retired, added, sq, lq, memory_instrs_depend_on_me>>
      /\ dispatched' = dispatched /\ read' = read /\ executed' = executed
      /\ num_mem_ops' = num_mem_ops /\ inflight_mem_executions' = inflight_mem_executions
      /\ DOMAIN seen' = DOMAIN seen
  <2>1. CASE ExecuteLoad
    BY <2>1 DEF ExecuteLoad, control, frontEnd, lsq, inflight
  <2>2. CASE ~ExecuteLoad
    BY <2>2 DEF TranslateStore, TranslateLoad, DtlbAnswer, L1dWrite, control, frontEnd, lsq,
       inflight, history
  <2>. QED BY <2>1, <2>2
<1>2. Rob' = Rob
  BY <1>1 DEF Rob
<1>3. CountersInv'
  BY <1>1, <1>2, CountersFrame
<1>4. LoadQueueInv'
  BY <1>1, <1>2, LoadQueueFrame
<1>5. SlotsInv'
  <2>1. ASSUME NEW a \in Addr, L1dWrite(a) PROVE SlotsInv'
    <3>1. wq' = wq \ {a} /\ lq' = lq
      BY <2>1 DEF L1dWrite, lsq
    <3>2. IsFiniteSet(wq \ {a}) /\ Cardinality(wq \ {a}) <= Cardinality(wq)
      BY FS_Subset DEF SlotsInv
    <3>3. Cardinality(wq \ {a}) \in Nat /\ Cardinality(wq) \in Nat /\ L1D_WQ_SIZE \in Nat
      BY <3>2, FS_CardinalityType, CoreAssumption DEF SlotsInv
    <3>4. Cardinality(wq \ {a}) <= L1D_WQ_SIZE
      BY <3>2, <3>3 DEF SlotsInv
    <3>. QED BY <3>1, <3>2, <3>4 DEF SlotsInv
  <2>2. CASE ~ \E a \in Addr : L1dWrite(a)
    <3>1. wq' = wq /\ lq' = lq
      BY <1>1, <2>2 DEF TranslateStore, TranslateLoad, ExecuteLoad, DtlbAnswer
    <3>. QED BY <3>1, SlotsFrame
  <2>. QED BY <2>1, <2>2
<1>6. AccessInv'
  <2>1. CASE TranslateStore
    BY <2>1, TranslatingStore
  <2>2. CASE TranslateLoad
    BY <2>2, TranslatingLoad
  <2>3. CASE ExecuteLoad
    BY <2>3, ExecutingLoad
  <2>4. ASSUME NEW p \in dtlb, DtlbAnswer(p) PROVE AccessInv'
    BY <2>4, DtlbAnswers
  <2>5. ASSUME NEW a \in Addr, L1dWrite(a) PROVE AccessInv'
    <3>1. UNCHANGED <<trace, sq, lq, RTL0, RTL1, RTS0, RTS1, dtlb, l1d>>
      BY <2>5 DEF L1dWrite, control, lsq, rings
    <3>. QED BY <3>1, AccessFrame
  <2>. QED BY <2>1, <2>2, <2>3, <2>4, <2>5
<1>. QED BY <1>3, <1>4, <1>5, <1>6

\* and so does every other step.
LEMMA NextMemoryInv ==
  ASSUME CoreTypes, RegisterInv, StoreQueueInv, MemoryInv, [Next]_vars
  PROVE  MemoryInv'
<1>1. CASE RetireRob
  BY <1>1, RetirementKeepsMemory
<1>2. CASE ExecuteStore
  BY <1>2, ExecutingStoreKeepsMemory
<1>3. CASE \E x \in l1d : L1dAnswer(x)
  BY <1>3, L1dAnswersLoads
<1>4. CASE \E n \in Id : ScheduleMemory(n)
  BY <1>4, MemorySchedulingKeepsMemory
<1>5. CASE ExecuteInstruction \/ \E n \in Id : CompleteExecution(n)
  BY <1>5, ExecutionKeepsMemory
<1>6. CASE \/ TranslateStore \/ TranslateLoad \/ ExecuteLoad \/ \E p \in dtlb : DtlbAnswer(p)
           \/ \E a \in Addr : L1dWrite(a)
  BY <1>6, AccessesKeepMemory
<1>7. CASE \/ \E mispredicted \in BOOLEAN : ReadFromTrace(mispredicted)
           \/ ResumeFetch \/ SendToDecode \/ DecodeAndDispatch
           \/ \E n \in Id : FetchLine(n) \/ DoScheduling(n)
           \/ \E x \in CodeLine, k \in 1 .. Len(trace) : L1iAnswer(x, k)
           \/ UNCHANGED vars
  BY <1>7, FrontEndKeepsMemory
<1>. QED BY <1>1, <1>2, <1>3, <1>4, <1>5, <1>6, <1>7 DEF Next

MemoryPart == CoreTypes /\ Sizes /\ RegisterInv /\ StoreQueueInv /\ MemoryInv

\* The types, sizes, registers, stores and memory operations are invariant.
LEMMA MemoryPartInvariant == Spec => []MemoryPart
<1>1. Init => MemoryInv
  BY InitMemoryInv
<1>2. QueuePart /\ MemoryInv /\ [Next]_vars => MemoryInv'
  BY NextMemoryInv DEF QueuePart
<1>3. QueuePart /\ MemoryInv => MemoryPart
  BY DEF QueuePart, MemoryPart
<1>. QED BY <1>1, <1>2, <1>3, QueuePartInvariant, PTL DEF Spec

-----------------------------------------------------------------------------
(* Types and counters.                                                     *)

\* What has not been read has no operation.
UnreadIsZero == \A n \in Id : n > read => num_mem_ops[n] = 0

\* An instruction that is not read yet has no operation pending.
LEMMA NextUnreadIsZero ==
  ASSUME MemoryPart, UnreadIsZero, [Next]_vars
  PROVE  UnreadIsZero'
<1>. USE DEF MemoryPart, MemoryInv
<1>0. Id' = Id /\ num_mem_ops \in [Id -> Int] /\ read \in Nat /\ dispatched <= read /\ dispatched \in Nat
      /\ \A n \in Id : n \in Int
  <2>1. Id' = Id
    BY TraceKept, SameTrace
  <2>. QED BY <2>1, RobFacts DEF CountersInv, CoreTypes
<1>1. \A n \in Rob : n \in Id /\ ~(n > read)
  BY <1>0, RobFacts
<1>2. ASSUME NEW ops, NEW loads, Finish(ops, loads), read' = read, \A x \in ops : x[1] \in Rob
      PROVE  UnreadIsZero'
  <2>1. ASSUME NEW n \in Id, n > read PROVE num_mem_ops'[n] = 0
    <3>1. {x \in ops : x[1] = n} = {}
      BY <1>1, <1>2, <2>1
    <3>2. num_mem_ops'[n] = num_mem_ops[n] - Cardinality({x \in ops : x[1] = n})
      BY <1>2 DEF Finish
    <3>. QED BY <2>1, <3>1, <3>2, FS_EmptySet DEF UnreadIsZero
  <2>. QED BY <1>0, <1>2, <2>1 DEF UnreadIsZero
<1>3. CASE \E mispredicted \in BOOLEAN : ReadFromTrace(mispredicted)
  <2>1. PICK c : num_mem_ops' = [num_mem_ops EXCEPT ![read + 1] = c]
    BY <1>3 DEF ReadFromTrace
  <2>2. read' = read + 1
    BY <1>3 DEF ReadFromTrace
  <2>3. \A n \in Id : n > read + 1 => num_mem_ops'[n] = num_mem_ops[n] /\ n > read
    BY <1>0, <2>1
  <2>. QED BY <1>0, <2>2, <2>3 DEF UnreadIsZero
<1>4. ASSUME NEW n \in Id, ScheduleMemory(n) PROVE UnreadIsZero'
  <2>1. n \in Rob /\ read' = read
    BY <1>4 DEF ScheduleMemory, frontEnd
  <2>2. PICK c : num_mem_ops' = [num_mem_ops EXCEPT ![n] = c]
    BY <1>4 DEF ScheduleMemory
  <2>3. \A m \in Id : m > read => num_mem_ops'[m] = num_mem_ops[m]
    BY <1>0, <1>1, <2>1, <2>2
  <2>. QED BY <1>0, <2>1, <2>3 DEF UnreadIsZero
<1>5. CASE ExecuteStore
  <2>. DEFINE x == Head(RTS1)
              served == Dependents(x) \cap DOMAIN lq
  <2>1. RTS1 # <<>> /\ Finish({x} \cup served, served) /\ read' = read
    BY <1>5 DEF ExecuteStore, frontEnd
  <2>2. x[1] \in Rob
    BY <2>1, ServedLoads
  <2>3. \A y \in served : y[1] \in Rob
    BY WaitingLoads
  <2>. HIDE DEF x, served
  <2>. QED BY <1>2, <2>1, <2>2, <2>3
<1>6. ASSUME NEW x \in l1d, L1dAnswer(x) PROVE UnreadIsZero'
  <2>1. Finish({x}, {x}) /\ read' = read
    BY <1>6 DEF L1dAnswer, frontEnd
  <2>2. x \in LoadOps
    BY DEF AccessInv, AccessTypes
  <2>3. x[1] \in Rob
    BY <2>2, PendingLoad, WaitingLoads
  <2>. QED BY <1>2, <2>1, <2>3
<1>7. ASSUME ~ \E mispredicted \in BOOLEAN : ReadFromTrace(mispredicted),
             ~ \E n \in Id : ScheduleMemory(n), ~ExecuteStore, ~ \E x \in l1d : L1dAnswer(x)
      PROVE  UnreadIsZero'
  <2>1. read' = read /\ num_mem_ops' = num_mem_ops
    BY <1>7 DEF Next, ResumeFetch, SendToDecode, DecodeAndDispatch, FetchLine, L1iAnswer,
      DoScheduling, ExecuteInstruction, DoExecution, CompleteExecution, TranslateStore,
      TranslateLoad, ExecuteLoad, DtlbAnswer, RetireRob, L1dWrite, vars, control, frontEnd, lsq
  <2>. QED BY <1>0, <2>1 DEF UnreadIsZero
<1>. QED BY <1>3, <1>4, <1>5, <1>6, <1>7

\* The invariant gives the types that the runs check,
LEMMA MemoryPartGivesTypes == MemoryPart /\ UnreadIsZero => TypeOK
<1>. SUFFICES ASSUME MemoryPart, UnreadIsZero PROVE TypeOK
  OBVIOUS
<1>. USE DEF MemoryPart, MemoryInv
<1>1. /\ trace \in Traces
      /\ retired <= dispatched /\ dispatched <= sent /\ sent <= read /\ read <= Len(trace)
      /\ fetched \in [Id -> Progress]
      /\ scheduled \in [Id -> Progress] /\ executed \in [Id -> Progress]
      /\ \A n \in Id : added[n] \subseteq Op
      /\ read \in Nat /\ sent \in Nat /\ dispatched \in Nat /\ retired \in Nat
  BY DEF CoreTypes
<1>2. \A a, b \in Nat : a <= b => Cardinality(a + 1 .. b) = b - a
  <2>1. ASSUME NEW a \in Nat, NEW b \in Nat, a <= b PROVE Cardinality(a + 1 .. b) = b - a
    <3>1. Cardinality(a + 1 .. b) = IF a + 1 > b THEN 0 ELSE b - (a + 1) + 1
      BY FS_Interval
    <3>. QED BY <2>1, <3>1
  <2>. QED BY <2>1
<1>3. /\ Cardinality(IFetchBuffer) <= IFETCH_SIZE /\ Cardinality(DecodeBuffer) <= DECODE_SIZE
      /\ Cardinality(Rob) <= ROB_SIZE
  BY <1>1, <1>2 DEF IFetchBuffer, DecodeBuffer, Rob, Sizes
<1>4. /\ Cardinality(DOMAIN lq) <= LQ_SIZE /\ Len(sq) <= SQ_SIZE /\ Cardinality(wq) <= L1D_WQ_SIZE
  BY DEF SlotsInv, StoreQueueInv
<1>5. num_mem_ops \in [Id -> Nat]
  <2>1. ASSUME NEW n \in Id PROVE num_mem_ops[n] \in Nat
    <3>1. n \in Int /\ 1 <= n
      BY RobFacts
    <3>2. CASE n > read
      BY <3>2 DEF UnreadIsZero
    <3>3. CASE n \in 1 .. read
      <4>1. num_mem_ops[n] = IF n <= retired THEN 0
                             ELSE Cardinality(OpenLoads(n)) + Cardinality(OpenStores(n))
        BY <3>3 DEF CountersInv, OpsCounted
      <4>2. Cardinality(OpenLoads(n)) \in Nat /\ Cardinality(OpenStores(n)) \in Nat
        BY <1>1, OpenFacts
      <4>. QED BY <4>1, <4>2
    <3>. QED BY <1>1, <3>1, <3>2, <3>3
  <2>. QED BY <2>1 DEF CountersInv
<1>6. num_reg_dependent \in [Id -> Nat]
  <2>1. ASSUME NEW d \in Id PROVE num_reg_dependent[d] \in Nat
    <3>1. IsFiniteSet(Waiting(d))
      BY CoreAssumption, FS_Subset DEF Waiting
    <3>2. Cardinality(Waiting(d)) \in Nat
      BY <3>1, FS_CardinalityType
    <3>. QED BY <3>2 DEF RegisterInv, DependenceCounted
  <2>. QED BY <2>1 DEF CoreTypes
<1>7. IsFiniteSet(Rob)
  BY RobFacts
<1>8. inflight_reg_executions \in Nat
  <2>1. IsFiniteSet({n \in Rob : ~IsMemory(n) /\ executed[n] = "inflight"})
    BY <1>7, FS_Subset
  <2>. QED BY <2>1, FS_CardinalityType DEF RegisterInv, RegInFlight
<1>9. inflight_mem_executions \in Nat
  <2>1. IsFiniteSet(Unfinished)
    BY <1>7, FS_Subset DEF Unfinished
  <2>. QED BY <2>1, FS_CardinalityType DEF CountersInv
<1>. QED BY <1>1, <1>3, <1>4, <1>5, <1>6, <1>8, <1>9 DEF TypeOK

\* For every trace: the buffers and queues hold no more than they have room
\* for, and no counter of operations or dependences falls below zero.
THEOREM TypeTheorem == Spec => []TypeOK
<1>1. Init => UnreadIsZero
  BY DEF Init, UnreadIsZero
<1>2. MemoryPart /\ UnreadIsZero /\ [Next]_vars => UnreadIsZero'
  BY NextUnreadIsZero
<1>. QED BY <1>1, <1>2, MemoryPartInvariant, MemoryPartGivesTypes, PTL DEF Spec

\* the agreement of the counters with what they count,
LEMMA MemoryPartCounts == MemoryPart => CountersAgree
<1>. SUFFICES ASSUME MemoryPart PROVE CountersAgree
  OBVIOUS
<1>. USE DEF MemoryPart, MemoryInv
<1>1. ASSUME NEW n \in 1 .. read
      PROVE  num_mem_ops[n] =
         Cardinality({i \in Loads(n) : n > retired /\ (<<"load", i>> \in added[n] =>
                                                         <<n, i>> \in DOMAIN lq)})
         + Cardinality({i \in Stores(n) : n > retired /\
              ~ \E k \in DOMAIN sq : sq[k].op = <<n, i>> /\ sq[k].executed})
  <2>. DEFINE L == {i \in Loads(n) : n > retired /\ (<<"load", i>> \in added[n] =>
                                                         <<n, i>> \in DOMAIN lq)}
              S == {i \in Stores(n) : n > retired /\
                      ~ \E k \in DOMAIN sq : sq[k].op = <<n, i>> /\ sq[k].executed}
  <2>1. num_mem_ops[n] = IF n <= retired THEN 0
                         ELSE Cardinality(OpenLoads(n)) + Cardinality(OpenStores(n))
    BY DEF CountersInv, OpsCounted
  <2>2. retired \in Int /\ n \in Int
    BY DEF CoreTypes
  <2>3. CASE n <= retired
    <3>1. ~(n > retired)
      BY <2>2, <2>3
    <3>2. L = {} /\ S = {}
      BY <3>1
    <3>. HIDE DEF L, S
    <3>3. Cardinality(L) = 0 /\ Cardinality(S) = 0
      BY <3>2, FS_EmptySet
    <3>4. num_mem_ops[n] = Cardinality(L) + Cardinality(S)
      BY <2>1, <2>3, <3>3
    <3>. QED BY <3>4 DEF L, S
  <2>4. CASE ~(n <= retired)
    <3>1. n > retired
      BY <2>2, <2>4
    <3>2. L = OpenLoads(n) /\ S = OpenStores(n)
      BY <3>1 DEF OpenLoads, OpenStores
    <3>. HIDE DEF L, S
    <3>3. num_mem_ops[n] = Cardinality(L) + Cardinality(S)
      BY <2>1, <2>4, <3>2
    <3>. QED BY <3>3 DEF L, S
  <2>. QED BY <2>3, <2>4
<1>2. inflight_mem_executions =
       Cardinality({n \in Rob : IsMemory(n) /\ num_mem_ops[n] = 0 /\ executed[n] # "completed"})
  BY DEF CountersInv, Unfinished
<1>. QED BY <1>1, <1>2 DEF CountersAgree, RegisterInv, RegInFlight

\* For every trace: the counters by which update_rob finds what has ended agree
\* with the queues, so that no entry of the ROB is passed over.
THEOREM CountersTheorem == Spec => []CountersAgree
BY MemoryPartInvariant, MemoryPartCounts, PTL

\* and a pending access or a store to wait for, of every operation that is not over.
LEMMA NothingForgotten == MemoryPart => NothingIsForgotten
<1>. SUFFICES ASSUME MemoryPart PROVE NothingIsForgotten
  OBVIOUS
<1>. USE DEF MemoryPart, MemoryInv
<1>0. /\ \A x, p : x \in p => Cardinality({x} \cap p) = 1
      /\ \A x, p : x \notin p => Cardinality({x} \cap p) = 0
  <2>1. ASSUME NEW x, NEW p, x \in p PROVE Cardinality({x} \cap p) = 1
    <3>1. {x} \cap p = {x}
      BY <2>1
    <3>. QED BY <3>1, FS_Singleton
  <2>2. ASSUME NEW x, NEW p, x \notin p PROVE Cardinality({x} \cap p) = 0
    <3>1. {x} \cap p = {}
      BY <2>2
    <3>. QED BY <3>1, FS_EmptySet
  <2>. QED BY <2>1, <2>2
<1>1. ASSUME NEW n \in Id
      PROVE  Pending(n, {}, RTE0, RTE1) =
               IF n \in Rob /\ ~IsMemory(n) /\ RegReady(n) /\ executed[n] = "no" THEN 1 ELSE 0
  <2>1. RTE0 \in Seq(Id) /\ RTE1 \in Seq(Id)
        /\ Count(n, RTE0) + Count(n, RTE1) =
             IF n \in Rob /\ ~IsMemory(n) /\ RegReady(n) /\ executed[n] = "no" THEN 1 ELSE 0
    BY DEF RegisterInv, QueuedOnce
  <2>2. Cardinality({n} \cap {}) = 0
    BY <1>0
  <2>. QED BY <2>1, <2>2 DEF Pending
<1>2. ASSUME NEW x \in DOMAIN seen
      PROVE  Pending(x, DtlbLoads \cup l1d, RTL0, RTL1) = IF x \in DOMAIN lq /\ lq[x] = 0 THEN 1 ELSE 0
  <2>. DEFINE a == Count(x, RTL0)
              b == Count(x, RTL1)
              c == Bit(x \in DtlbLoads)
              d == Bit(x \in l1d)
              e == Bit(x \in DOMAIN lq /\ lq[x] = 0)
              u == Cardinality({x} \cap (DtlbLoads \cup l1d))
  <2>1. x \in LoadOps
    BY DEF CountersInv
  <2>2. a \in Nat /\ b \in Nat /\ c \in Nat /\ d \in Nat /\ a + b + c + d <= 1
    BY <2>1, AccessFacts
  <2>3. a + b + c + d = e
    BY <2>1 DEF AccessInv, LoadsPend
  <2>4. c \in {0, 1} /\ d \in {0, 1} /\ (c = 1 <=> x \in DtlbLoads) /\ (d = 1 <=> x \in l1d)
    BY DEF Bit
  <2>5. (u = 1 /\ (c = 1 \/ d = 1)) \/ (u = 0 /\ c = 0 /\ d = 0)
    <3>1. CASE x \in DtlbLoads \cup l1d
      <4>1. u = 1
        BY <1>0, <3>1
      <4>2. c = 1 \/ d = 1
        BY <2>4, <3>1
      <4>. QED BY <4>1, <4>2
    <3>2. CASE x \notin DtlbLoads \cup l1d
      <4>1. u = 0
        BY <1>0, <3>2
      <4>2. c = 0 /\ d = 0
        BY <2>4, <3>2
      <4>. QED BY <4>1, <4>2
    <3>. QED BY <3>1, <3>2
  <2>6. Pending(x, DtlbLoads \cup l1d, RTL0, RTL1) = a + b + u
    BY DEF Pending
  <2>7. e = IF x \in DOMAIN lq /\ lq[x] = 0 THEN 1 ELSE 0
    BY DEF Bit
  <2>. HIDE DEF a, b, c, d, e, u
  <2>8. a + b + u = e
    BY <2>2, <2>3, <2>4, <2>5
  <2>. QED BY <2>6, <2>7, <2>8
<1>3. ASSUME NEW k \in DOMAIN sq
      PROVE  Pending(sq[k].op, DtlbStores, RTS0, RTS1) = IF sq[k].executed THEN 0 ELSE 1
  <2>x. PICK x : x = sq[k].op
    OBVIOUS
  <2>. DEFINE a == Count(x, RTS0)
              b == Count(x, RTS1)
              c == Bit(x \in DtlbStores)
              e == Bit(\E j \in DOMAIN sq : sq[j].op = x /\ ~sq[j].executed)
              u == Cardinality({x} \cap DtlbStores)
  <2>1. x \in StoreOps /\ sq[k].executed \in BOOLEAN
    BY <2>x, SqFacts DEF StoreQueueInv
  <2>2. a + b + c = e
    BY <2>1 DEF AccessInv, StoresPend
  <2>3. (\E j \in DOMAIN sq : sq[j].op = x /\ ~sq[j].executed) <=> ~sq[k].executed
    <3>1. \A j \in DOMAIN sq : sq[j].op = x => j = k
      BY <2>x DEF StoreQueueInv, InStoreQueue
    <3>. QED BY <2>x, <3>1
  <2>4. e = IF sq[k].executed THEN 0 ELSE 1
    BY <2>3 DEF Bit
  <2>5. u = c
    BY <1>0 DEF Bit
  <2>6. Pending(x, DtlbStores, RTS0, RTS1) = a + b + u
    BY DEF Pending
  <2>. HIDE DEF a, b, c, e, u
  <2>7. Pending(x, DtlbStores, RTS0, RTS1) = e
    BY <2>2, <2>5, <2>6
  <2>. QED BY <2>x, <2>4, <2>7
<1>. QED BY <1>1, <1>2, <1>3 DEF NothingIsForgotten, DtlbLoads, DtlbStores

\* For every trace: an operation that is ready is in one of its queues, once.
THEOREM ForgottenTheorem == Spec => []NothingIsForgotten
BY MemoryPartInvariant, NothingForgotten, PTL

-----------------------------------------------------------------------------
(* Instructions with one store.                                            *)

\* The store that a load waits for names the load's producer.
LEMMA OneProducer ==
  ASSUME OneStore, CoreTypes, RegisterInv, StoreQueueInv, MemoryInv, NEW x \in StoreOps, NEW y \in Dependents(x)
  PROVE  /\ y \in LoadOps /\ y[1] \in Rob /\ <<"load", y[2]>> \in added[y[1]]
         /\ MemProducer(y) = x[1] /\ x[1] # 0
         /\ \A k \in DOMAIN sq : sq[k].op[1] = x[1] => sq[k].op = x
<1>. USE DEF MemoryInv
<1>1. y \in LoadOps /\ y[1] \in memory_instrs_depend_on_me[x[1]] /\ Address(y, "load") = Address(x, "store")
      /\ <<"load", y[2]>> \in added[y[1]]
  BY DEF Dependents, CountersInv
<1>2. x[1] \in Id /\ x[2] \in Stores(x[1]) /\ x = <<x[1], x[2]>> /\ y[1] \in Id /\ y = <<y[1], y[2]>>
  BY <1>1, OpFacts
<1>3. \A n \in Id : \A i, j \in Stores(n) : i = j
  <2>1. ASSUME NEW n \in Id PROVE \A i, j \in Stores(n) : i = j
    <3>1. Len(trace[n].store) <= 1 /\ Len(trace[n].store) \in Nat /\ Stores(n) = 1 .. Len(trace[n].store)
      BY InstructionFacts DEF OneStore, CoreTypes, Id
    <3>. QED BY <3>1
  <2>. QED BY <2>1
<1>4. y[1] \in Rob /\ x[1] \in Rob /\ x[1] # 0
  <2>1. x[1] # 0
    BY <1>2, RobFacts
  <2>. QED BY <1>1, <1>2, <2>1 DEF LoadQueueInv, DependentsKnown
<1>5. PICK i \in Loads(y[1]) : MemProducer(<<y[1], i>>) = x[1]
  BY <1>1, <1>2 DEF LoadQueueInv, DependentsKnown
<1>z. PICK z : z = <<y[1], i>>
  OBVIOUS
<1>6. z \in LoadOps /\ z[1] = y[1] /\ MemProducer(z) = x[1]
  BY <1>2, <1>5, <1>z, OpFacts
<1>7. PICK j \in Stores(x[1]) : Address(<<x[1], j>>, "store") = Address(z, "load")
  BY <1>4, <1>6, MemProducerFacts
<1>8. Address(z, "load") = Address(y, "load")
  <2>1. j = x[2]
    BY <1>2, <1>3, <1>7
  <2>. QED BY <1>1, <1>2, <1>7, <2>1
<1>9. MemProducer(y) = MemProducer(z)
  BY <1>6, <1>8 DEF MemProducer
<1>10. ASSUME NEW k \in DOMAIN sq, sq[k].op[1] = x[1] PROVE sq[k].op = x
  <2>1. sq[k].op[2] \in Stores(x[1]) /\ sq[k].op = <<x[1], sq[k].op[2]>>
    BY <1>10, SqFacts DEF StoreQueueInv
  <2>. QED BY <1>2, <1>3, <2>1
<1>. QED BY <1>1, <1>4, <1>6, <1>9, <1>10

\* A load whose store has been executed has been answered; one whose store has
\* not waits in the load queue.
LEMMA NextAnsweredByStore ==
  ASSUME OneStore, MemoryPart, AnsweredByStore, [Next]_vars
  PROVE  AnsweredByStore'
<1>. USE DEF MemoryPart, MemoryInv
<1>0. trace' = trace /\ Id' = Id /\ LoadOps' = LoadOps
      /\ \A y : Address(y, "load")' = Address(y, "load") /\ Address(y, "store")' = Address(y, "store")
  BY TraceKept, SameTrace DEF LoadOps
<1>1. \A y \in LoadOps : y[1] \in Id
  BY OpFacts
<1>2. ASSUME NEW n \in Id, ScheduleMemory(n) PROVE AnsweredByStore'
  <2>1. /\ retired' = retired /\ dispatched' = dispatched /\ n \in Rob
    BY <1>2 DEF ScheduleMemory, control
  <2>2. Rob' = Rob /\ \A y : MemProducer(y)' = MemProducer(y)
    BY <1>0, <2>1, MemProducerKept DEF Rob
  <2>k. PICK K : K = KeptLoads(n)
    OBVIOUS
  <2>3. DOMAIN lq' = DOMAIN lq \cup ({n} \X K)
    BY <1>2, <2>k, EnteredLoads
  <2>4. \A k \in DOMAIN sq : k \in DOMAIN sq' /\ sq'[k] = sq[k]
    BY <1>2, <2>1, EnteredEntries
  <2>5. /\ \A m \in Id : m # n => added'[m] = added[m]
        /\ added'[n] = added[n] \cup ({"load"} \X LoadsTaken(n)) \cup ({"store"} \X StoresTaken(n))
    BY <1>2, MemorySchedulingFacts
  <2>6. ASSUME NEW y \in LoadOps, y[1] \in Rob, <<"load", y[2]>> \in added'[y[1]], MemProducer(y) # 0,
               \A k \in DOMAIN sq' : /\ sq'[k].op[1] = MemProducer(y)
                                     /\ Address(sq[k].op, "store")' = Address(y, "load")
                                     => ~sq'[k].executed
        PROVE  y \in DOMAIN lq'
    <3>1. \A k \in DOMAIN sq : Address(sq[k].op, "store")' = Address(sq[k].op, "store")
      BY <1>0, <2>4 DEF Address
    <3>2. \A k \in DOMAIN sq : /\ sq[k].op[1] = MemProducer(y)
                               /\ Address(sq[k].op, "store") = Address(y, "load")
                               => ~sq[k].executed
      BY <2>4, <2>6, <3>1
    <3>3. CASE <<"load", y[2]>> \in added[y[1]]
      BY <2>3, <2>6, <3>2, <3>3 DEF AnsweredByStore
    <3>4. CASE <<"load", y[2]>> \notin added[y[1]]
      <4>1. y[1] = n /\ y[2] \in LoadsTaken(n) /\ y = <<n, y[2]>>
        BY <2>5, <2>6, <3>4, OpFacts
      <4>2. ~ForwardedAtOnce(y)
        BY <3>2 DEF ForwardedAtOnce
      <4>3. y[2] \in K
        BY <2>k, <4>1, <4>2 DEF KeptLoads
      <4>. QED BY <2>3, <4>1, <4>3
    <3>. QED BY <3>3, <3>4
  <2>. QED BY <1>0, <2>2, <2>6 DEF AnsweredByStore
<1>3. CASE ExecuteStore
  <2>x. PICK x : x = Head(RTS1)
    OBVIOUS
  <2>1. /\ retired' = retired /\ dispatched' = dispatched /\ added' = added /\ RTS1 # <<>>
        /\ DOMAIN lq' = DOMAIN lq \ (Dependents(x) \cap DOMAIN lq)
    BY <1>3, <2>x DEF ExecuteStore, Finish, control
  <2>2. Rob' = Rob /\ \A y : MemProducer(y)' = MemProducer(y)
    BY <1>0, <2>1, MemProducerKept DEF Rob
  <2>3. /\ DOMAIN sq' = DOMAIN sq
        /\ \A k \in DOMAIN sq : /\ sq'[k].op = sq[k].op
                                /\ sq'[k].executed <=> sq[k].executed \/ sq[k].op = x
    BY <1>3, <2>x, ExecutedEntries DEF StoreQueueInv
  <2>4. \A k \in DOMAIN sq : Address(sq[k].op, "store")' = Address(sq[k].op, "store")
    BY <1>0, <2>3 DEF Address
  <2>5. x \in StoreOps
    BY <2>1, <2>x, ServedLoads
  <2>6. PICK k \in DOMAIN sq : sq[k].op = x
    <3>1. Count(x, RTS0) + Count(x, RTS1) + Bit(x \in DtlbStores) = 1
      BY <2>1, <2>x, ServedLoads
    <3>2. (\E k \in DOMAIN sq : sq[k].op = x /\ ~sq[k].executed)
      <4>1. Bit(\E k \in DOMAIN sq : sq[k].op = x /\ ~sq[k].executed) = 1
        BY <2>5, <3>1 DEF AccessInv, StoresPend
      <4>. QED BY <4>1 DEF Bit
    <3>. QED BY <3>2
  <2>7. ASSUME NEW y \in LoadOps, y[1] \in Rob, <<"load", y[2]>> \in added[y[1]], MemProducer(y) # 0,
               \A j \in DOMAIN sq : /\ sq[j].op[1] = MemProducer(y)
                                    /\ Address(sq[j].op, "store") = Address(y, "load")
                                    => ~sq'[j].executed
        PROVE  y \in DOMAIN lq'
    <3>1. y \in DOMAIN lq
      BY <2>3, <2>7 DEF AnsweredByStore
    <3>2. ASSUME y \in Dependents(x) PROVE FALSE
      <4>1. MemProducer(y) = x[1]
        BY <2>5, <3>2, OneProducer
      <4>2. Address(y, "load") = Address(x, "store")
        BY <3>2 DEF Dependents
      <4>. QED BY <2>3, <2>6, <2>7, <4>1, <4>2
    <3>. QED BY <2>1, <3>1, <3>2
  <2>. QED BY <1>0, <2>1, <2>2, <2>3, <2>4, <2>7 DEF AnsweredByStore
<1>4. ASSUME NEW x \in l1d, L1dAnswer(x) PROVE AnsweredByStore'
  <2>1. /\ retired' = retired /\ dispatched' = dispatched /\ added' = added /\ sq' = sq
        /\ DOMAIN lq' = DOMAIN lq \ {x}
    BY <1>4 DEF L1dAnswer, Finish, control
  <2>2. Rob' = Rob /\ \A y : MemProducer(y)' = MemProducer(y)
    BY <1>0, <2>1, MemProducerKept DEF Rob
  <2>3. x \in LoadOps /\ x \in DOMAIN lq /\ lq[x] = 0
    BY PendingLoad DEF AccessInv, AccessTypes
  <2>4. MemProducer(x) = 0
    BY <2>3, WaitingLoads
  <2>5. \A y : Address(sq[y].op, "store")' = Address(sq[y].op, "store")
    BY <1>0, <2>1 DEF Address
  <2>. QED BY <1>0, <2>1, <2>2, <2>4, <2>5 DEF AnsweredByStore
<1>5. CASE RetireRob
  <2>n. PICK n : n = retired + 1
    OBVIOUS
  <2>1. /\ Rob' = Rob \ {n} /\ lq' = lq
        /\ \A k \in Id : k # n => added'[k] = added[k]
    BY <1>5, <2>n, RetirementFacts DEF RetireRob
  <2>2. \A j \in DOMAIN sq : sq[j].op[1] # n => \E k \in DOMAIN sq' : sq'[k] = sq[j]
    BY <1>5, <2>n, QueueAfterRetirement
  <2>3. \A y \in LoadOps : MemProducer(y)' = IF MemProducer(y) = n THEN 0 ELSE MemProducer(y)
    BY <1>5, <2>n, ProducerAfterRetirement
  <2>4. ASSUME NEW y \in LoadOps, y[1] \in Rob', <<"load", y[2]>> \in added'[y[1]],
               MemProducer(y)' # 0,
               \A k \in DOMAIN sq' : /\ sq'[k].op[1] = MemProducer(y)'
                                     /\ Address(sq[k].op, "store")' = Address(y, "load")
                                     => ~sq'[k].executed
        PROVE  y \in DOMAIN lq
    <3>1. y[1] \in Rob /\ <<"load", y[2]>> \in added[y[1]] /\ MemProducer(y) # 0 /\ MemProducer(y) # n
          /\ MemProducer(y)' = MemProducer(y)
      BY <1>1, <2>1, <2>3, <2>4
    <3>2. ASSUME NEW j \in DOMAIN sq, sq[j].op[1] = MemProducer(y),
                 Address(sq[j].op, "store") = Address(y, "load")
          PROVE  ~sq[j].executed
      <4>1. PICK k \in DOMAIN sq' : sq'[k] = sq[j]
        BY <2>2, <3>1, <3>2
      <4>2. Address(sq[k].op, "store")' = Address(sq[j].op, "store")
        BY <1>0, <4>1 DEF Address
      <4>. QED BY <2>4, <3>1, <3>2, <4>1, <4>2
    <3>. QED BY <3>1, <3>2 DEF AnsweredByStore
  <2>. QED BY <1>0, <2>1, <2>4 DEF AnsweredByStore
<1>6. CASE DecodeAndDispatch
  <2>1. /\ dispatched' = dispatched + 1 /\ retired' = retired /\ added' = added /\ sq' = sq /\ lq' = lq
        /\ dispatched < sent
    BY <1>6 DEF DecodeAndDispatch, lsq
  <2>2. \A y : MemProducer(y)' = MemProducer(y)
    BY <1>0, <2>1, MemProducerKept
  <2>3. \A m \in Id : added[m] # {} => m \in Rob
    BY QueueFacts
  <2>4. \A y : Address(sq[y].op, "store")' = Address(sq[y].op, "store")
    BY <1>0, <2>1 DEF Address
  <2>5. \A y \in LoadOps : <<"load", y[2]>> \in added[y[1]] => y[1] \in Rob
    BY <1>1, <2>3
  <2>. QED BY <1>0, <2>1, <2>2, <2>4, <2>5 DEF AnsweredByStore
<1>7. ASSUME ~RetireRob, ~ \E n \in Id : ScheduleMemory(n), ~ExecuteStore,
             ~ \E x \in l1d : L1dAnswer(x), ~DecodeAndDispatch
      PROVE  AnsweredByStore'
  <2>1. retired' = retired /\ dispatched' = dispatched /\ added' = added /\ sq' = sq /\ lq' = lq
    BY <1>7 DEF Next, ReadFromTrace, ResumeFetch, SendToDecode, FetchLine, L1iAnswer,
      DoScheduling, ExecuteInstruction, DoExecution, CompleteExecution, TranslateStore,
      TranslateLoad, ExecuteLoad, DtlbAnswer, L1dWrite, vars, control, lsq
  <2>2. Rob' = Rob /\ \A y : MemProducer(y)' = MemProducer(y)
    BY <1>0, <2>1, MemProducerKept DEF Rob
  <2>3. \A y : Address(sq[y].op, "store")' = Address(sq[y].op, "store")
    BY <1>0, <2>1 DEF Address
  <2>. QED BY <1>0, <2>1, <2>2, <2>3 DEF AnsweredByStore
<1>. QED BY <1>2, <1>3, <1>4, <1>5, <1>6, <1>7

\* With one store an instruction, the invariant says that forwarding agrees with program order.
LEMMA AnsweredGivesForwarding == OneStore /\ MemoryPart /\ AnsweredByStore => ForwardingAgrees
<1>. SUFFICES ASSUME OneStore, MemoryPart, AnsweredByStore,
                     NEW k \in DOMAIN sq, ~sq[k].executed, NEW y \in Dependents(sq[k].op)
              PROVE  y \in DOMAIN lq /\ lq[y] = sq[k].op[1]
  BY DEF ForwardingAgrees
<1>. USE DEF MemoryPart, MemoryInv
<1>x. PICK x : x = sq[k].op
  OBVIOUS
<1>1. x \in StoreOps
  BY <1>x, SqFacts DEF StoreQueueInv
<1>2. /\ y \in LoadOps /\ y[1] \in Rob /\ <<"load", y[2]>> \in added[y[1]]
      /\ MemProducer(y) = x[1] /\ x[1] # 0
      /\ \A j \in DOMAIN sq : sq[j].op[1] = x[1] => sq[j].op = x
  BY <1>x, <1>1, OneProducer
<1>3. \A j \in DOMAIN sq : sq[j].op[1] = x[1] => ~sq[j].executed
  BY <1>x, <1>2 DEF StoreQueueInv, InStoreQueue
<1>4. y \in DOMAIN lq
  BY <1>2, <1>3 DEF AnsweredByStore
<1>. QED BY <1>x, <1>2, <1>4, WaitingLoads

\* For every trace of instructions with one store at most: the assertion of
\* execute_store holds.  With two stores the run of CoreTwoStores.cfg breaks it.
THEOREM ForwardingTheorem == ASSUME OneStore PROVE Spec => []ForwardingAgrees
<1>1. Init => AnsweredByStore
  BY OpFacts DEF Init, AnsweredByStore
<1>2. MemoryPart /\ AnsweredByStore /\ [Next]_vars => AnsweredByStore'
  BY NextAnsweredByStore
<1>3. MemoryPart /\ AnsweredByStore => ForwardingAgrees
  BY AnsweredGivesForwarding
<1>. QED BY <1>1, <1>2, <1>3, MemoryPartInvariant, PTL DEF Spec

-----------------------------------------------------------------------------
(* What loads saw.                                                         *)

\* Steps that leave the history and the load queue alone.
LEMMA HistoryFrame ==
  ASSUME HistoryInv, trace' = trace, retired' = retired, Rob' = Rob, added' = added, lq' = lq, l1d' = l1d,
         memory' = memory, seen' = seen
  PROVE  HistoryInv'
<1>1. LoadOps' = LoadOps /\ \A y : Address(y, "load")' = Address(y, "load")
  BY SameTrace DEF LoadOps
<1>2. \A y : MemProducer(y)' = MemProducer(y)
  BY MemProducerKept
<1>. QED BY <1>1, <1>2 DEF HistoryInv

\* A step that changes what a load of the ROB saw changes nothing else of it.
LEMMA SchedulingKeepsHistory ==
  ASSUME MemoryPart, HistoryInv, NEW n \in Id, ScheduleMemory(n)
  PROVE  HistoryInv'
<1>. USE DEF MemoryPart, MemoryInv
<1>f. PICK F : F = ForwardedLoads(n)
  OBVIOUS
<1>k. PICK K : K = KeptLoads(n)
  OBVIOUS
<1>1. /\ trace' = trace /\ retired' = retired /\ dispatched' = dispatched /\ n \in Rob
      /\ memory' = memory /\ l1d' = l1d
      /\ seen' = [x \in DOMAIN seen |-> IF x[1] = n /\ x[2] \in F THEN MemProducer(x) ELSE seen[x]]
  BY <1>f DEF ScheduleMemory, control, caches, ForwardedLoads
<1>2. LoadOps' = LoadOps /\ Rob' = Rob /\ (\A y : MemProducer(y)' = MemProducer(y))
      /\ \A y : Address(y, "load")' = Address(y, "load")
  BY <1>1, SameTrace, MemProducerKept DEF Rob
<1>3. DOMAIN seen' = LoadOps
      /\ \A y \in LoadOps : seen'[y] = IF y[1] = n /\ y[2] \in F THEN MemProducer(y) ELSE seen[y]
  BY <1>1 DEF HistoryInv
<1>4. DOMAIN lq' = DOMAIN lq \cup ({n} \X K)
  BY <1>k, EnteredLoads
<1>5. /\ LoadsTaken(n) = K \cup F /\ \A i \in LoadsTaken(n) : <<"load", i>> \notin added[n]
  BY <1>k, <1>f, TakenLoads
<1>6. /\ \A m \in Id : m # n => added'[m] = added[m]
      /\ added'[n] = added[n] \cup ({"load"} \X LoadsTaken(n)) \cup ({"store"} \X StoresTaken(n))
  BY MemorySchedulingFacts
<1>7. ASSUME NEW y \in LoadOps, y[1] \in Rob, <<"load", y[2]>> \in added'[y[1]], y \notin DOMAIN lq'
      PROVE  seen'[y] = IF MemProducer(y) # 0 THEN MemProducer(y) ELSE memory[Address(y, "load")]
  <2>1. y[1] \in Id /\ y = <<y[1], y[2]>>
    BY OpFacts
  <2>2. CASE <<"load", y[2]>> \in added[y[1]]
    <3>1. ~(y[1] = n /\ y[2] \in F)
      BY <1>5, <2>2
    <3>2. y \notin DOMAIN lq
      BY <1>4, <1>7
    <3>. QED BY <1>3, <1>7, <2>2, <3>1, <3>2 DEF HistoryInv
  <2>3. CASE <<"load", y[2]>> \notin added[y[1]]
    <3>1. y[1] = n /\ y[2] \in LoadsTaken(n)
      BY <1>6, <1>7, <2>1, <2>3
    <3>2. y[2] \in F
      BY <1>4, <1>5, <1>7, <2>1, <3>1
    <3>3. ForwardedAtOnce(y)
      BY <1>f, <2>1, <3>1, <3>2 DEF ForwardedLoads
    <3>4. PICK k \in DOMAIN sq : sq[k].op[1] = MemProducer(y)
      BY <3>3 DEF ForwardedAtOnce
    <3>5. sq[k].op[1] \in Id
      BY SqFacts DEF StoreQueueInv
    <3>6. MemProducer(y) # 0
      BY <3>4, <3>5, RobFacts
    <3>. QED BY <1>3, <3>1, <3>2, <3>6
  <2>. QED BY <2>2, <2>3
<1>8. ASSUME NEW y \in l1d PROVE seen'[y] = memory[Address(y, "load")]
  <2>1. y \in LoadOps
    BY DEF AccessInv, AccessTypes
  <2>2. y \in DOMAIN lq
    BY <2>1, PendingLoad
  <2>3. <<"load", y[2]>> \in added[y[1]]
    BY <2>2, WaitingLoads
  <2>4. ~(y[1] = n /\ y[2] \in F)
    BY <1>5, <2>3
  <2>. QED BY <1>3, <2>1, <2>4 DEF HistoryInv
<1>. QED BY <1>1, <1>2, <1>3, <1>7, <1>8 DEF HistoryInv

\* A store that executes answers with its own value the loads that it produces for,
LEMMA ExecutingStoreKeepsHistory ==
  ASSUME OneStore, MemoryPart, HistoryInv, ExecuteStore
  PROVE  HistoryInv'
<1>. USE DEF MemoryPart, MemoryInv
<1>x. PICK x : x = Head(RTS1)
  OBVIOUS
<1>s. PICK served : served = Dependents(x) \cap DOMAIN lq
  OBVIOUS
<1>1. /\ trace' = trace /\ retired' = retired /\ dispatched' = dispatched /\ RTS1 # <<>>
      /\ added' = added /\ memory' = memory /\ l1d' = l1d
      /\ DOMAIN lq' = DOMAIN lq \ served
      /\ seen' = [y \in DOMAIN seen |-> IF y \in served THEN x[1] ELSE seen[y]]
  BY <1>x, <1>s DEF ExecuteStore, Finish, control, caches
<1>2. LoadOps' = LoadOps /\ Rob' = Rob /\ (\A y : MemProducer(y)' = MemProducer(y))
      /\ \A y : Address(y, "load")' = Address(y, "load")
  BY <1>1, SameTrace, MemProducerKept DEF Rob
<1>3. DOMAIN seen' = LoadOps /\ \A y \in LoadOps : seen'[y] = IF y \in served THEN x[1] ELSE seen[y]
  BY <1>1 DEF HistoryInv
<1>4. x \in StoreOps
  BY <1>1, <1>x, ServedLoads
<1>5. \A y \in served : MemProducer(y) = x[1] /\ x[1] # 0 /\ lq[y] = MemProducer(y)
  BY <1>s, <1>4, OneProducer, WaitingLoads
<1>6. ASSUME NEW y \in LoadOps, y[1] \in Rob, <<"load", y[2]>> \in added[y[1]], y \notin DOMAIN lq'
      PROVE  seen'[y] = IF MemProducer(y) # 0 THEN MemProducer(y) ELSE memory[Address(y, "load")]
  <2>1. CASE y \in served
    BY <1>3, <1>5, <2>1
  <2>2. CASE y \notin served
    <3>1. y \notin DOMAIN lq
      BY <1>1, <1>6, <2>2
    <3>. QED BY <1>3, <1>6, <2>2, <3>1 DEF HistoryInv
  <2>. QED BY <2>1, <2>2
<1>7. ASSUME NEW y \in l1d PROVE seen'[y] = memory[Address(y, "load")]
  <2>1. y \in LoadOps
    BY DEF AccessInv, AccessTypes
  <2>2. lq[y] = 0
    BY <2>1, PendingLoad
  <2>3. y \notin served
    BY <1>5, <2>2
  <2>. QED BY <1>3, <2>1, <2>3 DEF HistoryInv
<1>. QED BY <1>1, <1>2, <1>3, <1>6, <1>7 DEF HistoryInv

\* the L1D answers with the memory, which no older store is going to change for this load,
LEMMA L1dKeepsHistory ==
  ASSUME MemoryPart, HistoryInv, ExecuteLoad \/ \E x \in l1d : L1dAnswer(x)
  PROVE  HistoryInv'
<1>. USE DEF MemoryPart, MemoryInv
<1>1. /\ trace' = trace /\ retired' = retired /\ dispatched' = dispatched
      /\ added' = added /\ memory' = memory
  BY DEF ExecuteLoad, L1dAnswer, control, lsq, history
<1>2. LoadOps' = LoadOps /\ Rob' = Rob /\ (\A y : MemProducer(y)' = MemProducer(y))
      /\ \A y : Address(y, "load")' = Address(y, "load")
  BY <1>1, SameTrace, MemProducerKept DEF Rob
<1>3. CASE ExecuteLoad
  <2>x. PICK x : x = Head(RTL1)
    OBVIOUS
  <2>1. /\ RTL1 # <<>> /\ l1d' = l1d \cup {x} /\ lq' = lq
        /\ seen' = [seen EXCEPT ![x] = memory[Address(x, "load")]]
    BY <1>3, <2>x DEF ExecuteLoad, lsq
  <2>2. x \in LoadOps /\ Count(x, RTL1) # 0
    <3>1. RTL1 \in Seq(LoadOps)
      BY DEF AccessInv, AccessTypes
    <3>2. Tail(RTL1) \in Seq(LoadOps) /\ x \in LoadOps /\ Count(x, RTL1) = Count(x, Tail(RTL1)) + 1
      BY <2>1, <2>x, <3>1, CountTail
    <3>3. Count(x, Tail(RTL1)) \in Nat
      BY <3>2, CountType
    <3>. QED BY <3>2, <3>3
  <2>3. x \in DOMAIN lq
    BY <2>2, PendingLoad
  <2>4. DOMAIN seen' = LoadOps
        /\ \A y \in LoadOps : seen'[y] = IF y = x THEN memory[Address(x, "load")] ELSE seen[y]
    BY <2>1 DEF HistoryInv
  <2>5. l1d \subseteq LoadOps
    BY DEF AccessInv, AccessTypes
  <2>6. \A y \in l1d' : seen'[y] = memory[Address(y, "load")]
    BY <2>1, <2>2, <2>4, <2>5 DEF HistoryInv
  <2>7. \A y \in LoadOps : y \notin DOMAIN lq => seen'[y] = seen[y]
    BY <2>3, <2>4
  <2>. QED BY <1>1, <1>2, <2>1, <2>4, <2>6, <2>7 DEF HistoryInv
<1>4. ASSUME NEW x \in l1d, L1dAnswer(x) PROVE HistoryInv'
  <2>1. l1d' = l1d \ {x} /\ DOMAIN lq' = DOMAIN lq \ {x} /\ seen' = seen
    BY <1>4 DEF L1dAnswer, Finish, history
  <2>2. x \in LoadOps /\ x \in DOMAIN lq /\ lq[x] = 0
    BY PendingLoad DEF AccessInv, AccessTypes
  <2>3. MemProducer(x) = 0 /\ seen[x] = memory[Address(x, "load")]
    BY <2>2, WaitingLoads DEF HistoryInv
  <2>. QED BY <1>1, <1>2, <2>1, <2>3 DEF HistoryInv
<1>. QED BY <1>3, <1>4

\* and retire_rob changes the memory under no load that has read it.
LEMMA RetirementKeepsHistory ==
  ASSUME MemoryPart, HistoryInv, RetireRob
  PROVE  HistoryInv'
<1>. USE DEF MemoryPart, MemoryInv
<1>n. PICK n : n = retired + 1
  OBVIOUS
<1>w. PICK written : written = {trace[n].store[i] : i \in Stores(n)}
  OBVIOUS
<1>1. /\ trace' = trace /\ lq' = lq /\ l1d' = l1d /\ seen' = seen
      /\ memory' = [a \in Addr |-> IF a \in written THEN n ELSE memory[a]]
  BY <1>n, <1>w DEF RetireRob
<1>2. /\ Rob' = Rob \ {n} /\ n \in Rob /\ n \in Id
      /\ \A k \in Id : k # n => added'[k] = added[k]
  BY <1>n, RetirementFacts, RobFacts
<1>3. LoadOps' = LoadOps /\ \A y : Address(y, "load")' = Address(y, "load")
  BY <1>1, SameTrace DEF LoadOps
<1>4. \A y \in LoadOps : MemProducer(y)' = IF MemProducer(y) = n THEN 0 ELSE MemProducer(y)
  BY <1>n, ProducerAfterRetirement
<1>5. \A y \in LoadOps : y[1] \in Id /\ Address(y, "load") \in Addr
  <2>1. \A y \in LoadOps : y[1] \in Id /\ y[2] \in Loads(y[1])
    BY OpFacts
  <2>. QED BY <2>1, InstructionFacts DEF Address, CoreTypes
<1>6. n # 0 /\ retired \in Int
  BY <1>2, RobFacts DEF CoreTypes
<1>7. ASSUME NEW y \in LoadOps, MemProducer(y) = n
      PROVE  Address(y, "load") \in written
  <2>1. PICK i \in Stores(n) : Address(<<n, i>>, "store") = Address(y, "load")
    BY <1>6, <1>7, MemProducerFacts
  <2>. QED BY <1>w, <2>1 DEF Address
<1>8. ASSUME NEW y \in LoadOps, y[1] \in Rob, y[1] # n, Address(y, "load") \in written
      PROVE  MemProducer(y) # 0
  <2>1. PICK i \in Stores(n) : trace[n].store[i] = Address(y, "load")
    BY <1>8, <1>w
  <2>2. Address(<<n, i>>, "store") = Address(y, "load")
    BY <2>1 DEF Address
  <2>3. n \in Older(y[1])
    <3>1. retired < y[1] /\ y[1] \in Int /\ retired < n /\ n \in Int
      BY <1>2, <1>8, RobFacts
    <3>2. n < y[1]
      BY <1>n, <1>6, <1>8, <3>1
    <3>. QED BY <1>8, <3>1, <3>2, RobFacts
  <2>. QED BY <2>2, <2>3, MemProducerFacts
<1>9. ASSUME NEW y \in LoadOps, y[1] \in Rob', <<"load", y[2]>> \in added'[y[1]], y \notin DOMAIN lq
      PROVE  seen[y] = IF MemProducer(y)' # 0 THEN MemProducer(y)' ELSE memory'[Address(y, "load")]
  <2>1. y[1] \in Rob /\ y[1] # n /\ <<"load", y[2]>> \in added[y[1]]
    BY <1>2, <1>5, <1>9
  <2>2. seen[y] = IF MemProducer(y) # 0 THEN MemProducer(y) ELSE memory[Address(y, "load")]
    BY <1>9, <2>1 DEF HistoryInv
  <2>3. CASE MemProducer(y) = n
    <3>1. MemProducer(y)' = 0 /\ memory'[Address(y, "load")] = n
      BY <1>1, <1>4, <1>5, <1>7, <2>3
    <3>. QED BY <1>6, <2>2, <2>3, <3>1
  <2>4. CASE MemProducer(y) # n /\ MemProducer(y) # 0
    BY <1>4, <2>2, <2>4
  <2>5. CASE MemProducer(y) = 0
    <3>1. Address(y, "load") \notin written
      BY <1>8, <2>1, <2>5
    <3>2. MemProducer(y)' = 0 /\ memory'[Address(y, "load")] = memory[Address(y, "load")]
      BY <1>1, <1>4, <1>5, <1>6, <2>5, <3>1
    <3>. QED BY <2>2, <2>5, <3>2
  <2>. QED BY <2>3, <2>4, <2>5
<1>10. ASSUME NEW y \in l1d PROVE seen[y] = memory'[Address(y, "load")]
  <2>1. y \in LoadOps
    BY DEF AccessInv, AccessTypes
  <2>2. y \in DOMAIN lq /\ lq[y] = 0
    BY <2>1, PendingLoad
  <2>3. y[1] \in Rob /\ MemProducer(y) = 0
    BY <2>2, WaitingLoads
  <2>4. y[1] # n
    BY <1>n, <2>2, RetiredIsOver
  <2>5. Address(y, "load") \notin written
    BY <1>8, <2>1, <2>3, <2>4
  <2>. QED BY <1>1, <1>5, <2>1, <2>5 DEF HistoryInv
<1>. QED BY <1>1, <1>3, <1>9, <1>10 DEF HistoryInv

\* Every step keeps what the loads have seen right.
LEMMA NextHistoryInv ==
  ASSUME OneStore, MemoryPart, HistoryInv, [Next]_vars
  PROVE  HistoryInv'
<1>. USE DEF MemoryPart, MemoryInv
<1>1. CASE \E n \in Id : ScheduleMemory(n)
  BY <1>1, SchedulingKeepsHistory
<1>2. CASE ExecuteStore
  BY <1>2, ExecutingStoreKeepsHistory
<1>3. CASE ExecuteLoad \/ \E x \in l1d : L1dAnswer(x)
  BY <1>3, L1dKeepsHistory
<1>4. CASE RetireRob
  BY <1>4, RetirementKeepsHistory
<1>5. CASE DecodeAndDispatch
  <2>1. /\ trace' = trace /\ retired' = retired /\ added' = added /\ lq' = lq /\ l1d' = l1d
        /\ memory' = memory /\ seen' = seen
    BY <1>5 DEF DecodeAndDispatch, lsq, caches, history
  <2>2. LoadOps' = LoadOps /\ \A y : Address(y, "load")' = Address(y, "load")
    BY <2>1, SameTrace DEF LoadOps
  <2>3. \A y : MemProducer(y)' = MemProducer(y)
    BY <2>1, MemProducerKept
  <2>4. \A y \in LoadOps : <<"load", y[2]>> \in added[y[1]] => y[1] \in Rob
    BY OpFacts, QueueFacts
  <2>. QED BY <2>1, <2>2, <2>3, <2>4 DEF HistoryInv
<1>6. ASSUME ~RetireRob, ~ \E n \in Id : ScheduleMemory(n), ~ExecuteStore, ~ExecuteLoad,
             ~ \E x \in l1d : L1dAnswer(x), ~DecodeAndDispatch
      PROVE  HistoryInv'
  <2>1. /\ trace' = trace /\ retired' = retired /\ dispatched' = dispatched /\ added' = added
        /\ lq' = lq /\ l1d' = l1d /\ memory' = memory /\ seen' = seen
    BY <1>6 DEF Next, ReadFromTrace, ResumeFetch, SendToDecode, FetchLine, L1iAnswer,
      DoScheduling, ExecuteInstruction, DoExecution, CompleteExecution, TranslateStore,
      TranslateLoad, DtlbAnswer, L1dWrite, vars, control, lsq, caches, history
  <2>2. Rob' = Rob
    BY <2>1 DEF Rob
  <2>. QED BY <2>1, <2>2, HistoryFrame
<1>. QED BY <1>1, <1>2, <1>3, <1>4, <1>5, <1>6

-----------------------------------------------------------------------------
(* Refinement.                                                             *)

\* Append of a function on 1 .. c, pointwise.
LEMMA AppendAt ==
  ASSUME NEW E, NEW c \in Nat, NEW f \in [1 .. c -> E], NEW v \in E
  PROVE  Append(f, v) = [k \in 1 .. c + 1 |-> IF k = c + 1 THEN v ELSE f[k]]
<1>1. f \in Seq(E) /\ Len(f) = c
  OBVIOUS
<1>q. PICK q : q = Append(f, v)
  OBVIOUS
<1>2. q \in Seq(E) /\ Len(q) = c + 1 /\ \A k \in 1 .. c + 1 : q[k] = IF k = c + 1 THEN v ELSE f[k]
  BY <1>1, <1>q
<1>3. q = [k \in 1 .. c + 1 |-> q[k]]
  BY <1>2
<1>. QED BY <1>2, <1>3, <1>q

\* result of ProgramOrder.
Results == [n \in 1 .. retired |-> [i \in Loads(n) |-> seen[<<n, i>>]]]

\* retire_rob is the step of the program-order machine: it appends the instruction's results.
LEMMA RetirementRefines ==
  ASSUME MemoryPart, HistoryInv, RetireRob
  PROVE  InOrder!Retire
<1>. USE DEF MemoryPart, MemoryInv
<1>n. PICK n : n = retired + 1
  OBVIOUS
<1>1. /\ trace' = trace /\ retired' = n /\ seen' = seen
      /\ memory' = [a \in Addr |-> IF a \in {trace[n].store[i] : i \in Stores(n)} THEN n ELSE memory[a]]
  BY <1>n DEF RetireRob
<1>2. n \in Rob /\ n \in Id /\ executed[n] = "completed" /\ OpenLoads(n) = {} /\ n \in Nat
      /\ \A x \in DOMAIN lq : x[1] # n
  BY <1>n, RetiredIsOver
<1>3. retired \in Nat /\ retired < Len(trace)
  BY <1>n, <1>2, RobFacts DEF CoreTypes
<1>4. ASSUME NEW i \in Loads(n) PROVE seen[<<n, i>>] = memory[trace[n].load[i]]
  <2>x. PICK x : x = <<n, i>>
    OBVIOUS
  <2>1. x \in LoadOps /\ x[1] = n /\ x[2] = i
    BY <1>2, <2>x, OpFacts
  <2>2. <<"load", i>> \in added[n]
    BY <1>2 DEF OpenLoads
  <2>3. x \notin DOMAIN lq
    BY <1>2, <2>1
  <2>4. MemProducer(x) = 0
    <3>1. Older(n) = {}
      BY <1>n, <1>3 DEF Older
    <3>. QED BY <2>1, <3>1, MemProducerFacts
  <2>5. seen[x] = memory[Address(x, "load")]
    BY <1>2, <2>1, <2>2, <2>3, <2>4 DEF HistoryInv
  <2>. QED BY <2>1, <2>5, <2>x DEF Address
<1>. DEFINE R(m) == [i \in Loads(m) |-> seen[<<m, i>>]]
            e == [i \in Loads(n) |-> memory[trace[n].load[i]]]
            T == {R(m) : m \in 1 .. retired} \cup {e}
            s == [m \in 1 .. retired |-> R(m)]
<1>5. R(n) = e
  BY <1>4
<1>6. s \in [1 .. retired -> T] /\ e \in T
  OBVIOUS
<1>7. \A m : Loads(m)' = Loads(m)
  BY <1>1, SameTrace
<1>8. Results' = [m \in 1 .. n |-> R(m)]
  BY <1>1, <1>7 DEF Results
<1>9. Results' = Append(Results, e)
  <2>1. Results = s
    BY DEF Results
  <2>. HIDE DEF T, s, e, R
  <2>2. Append(s, e) = [k \in 1 .. retired + 1 |-> IF k = retired + 1 THEN e ELSE s[k]]
    <3>1. retired \in Nat
      BY <1>3
    <3>. QED BY <1>6, <3>1, AppendAt
  <2>3. \A k \in 1 .. retired : k # n /\ s[k] = R(k)
    BY <1>n, <1>3 DEF s
  <2>4. \A k \in 1 .. n : (IF k = n THEN e ELSE s[k]) = R(k)
    <3>1. \A k \in 1 .. n : k = n \/ k \in 1 .. retired
      BY <1>n, <1>3
    <3>. QED BY <1>5, <2>3, <3>1
  <2>. QED BY <1>n, <1>8, <2>1, <2>2, <2>4
<1>10. \A a : InOrder!Writes(n, a) <=> a \in {trace[n].store[i] : i \in Stores(n)}
  BY DEF InOrder!Writes, Stores
<1>11. memory' = [a \in Addr |-> IF InOrder!Writes(n, a) THEN n ELSE memory[a]]
  BY <1>1, <1>10
<1>12. Results' = Append(Results, [i \in DOMAIN trace[n].load |-> memory[trace[n].load[i]]])
  BY <1>9 DEF Loads
<1>. QED BY <1>n, <1>1, <1>3, <1>11, <1>12 DEF InOrder!Retire, Results

\* Every other step is a stutter: what changes are loads of the ROB.
LEMMA OtherStepsStutter ==
  ASSUME MemoryPart, [Next]_vars, ~RetireRob
  PROVE  trace' = trace /\ retired' = retired /\ memory' = memory /\ Results' = Results
<1>. USE DEF MemoryPart, MemoryInv
<1>1. trace' = trace
  BY TraceKept
<1>2. retired' = retired /\ memory' = memory
  BY DEF Next, ReadFromTrace, ResumeFetch, SendToDecode, FetchLine, L1iAnswer, DecodeAndDispatch,
      DoScheduling, ExecuteInstruction, DoExecution, CompleteExecution, ScheduleMemory, TranslateStore,
      TranslateLoad, ExecuteStore, ExecuteLoad, DtlbAnswer, L1dAnswer, L1dWrite, vars, control, history
<1>3. \A m \in 1 .. retired : m \in Id /\ m \notin Rob /\ \A i \in Loads(m) : <<m, i>> \in LoadOps
  <2>1. \A m \in 1 .. retired : m \in Id /\ m \notin Rob
    BY RobFacts, TraceFacts DEF CoreTypes
  <2>. QED BY <2>1, OpFacts
<1>4. ASSUME NEW x \in LoadOps, x[1] \notin Rob PROVE seen'[x] = seen[x]
  <2>0. x \in DOMAIN seen
    BY DEF CountersInv
  <2>1. ASSUME NEW n \in Id, ScheduleMemory(n) PROVE seen'[x] = seen[x]
    <3>1. x[1] # n
      BY <1>4, <2>1 DEF ScheduleMemory
    <3>. QED BY <2>0, <2>1, <3>1 DEF ScheduleMemory
  <2>2. CASE ExecuteStore
    <3>. DEFINE served == Dependents(Head(RTS1)) \cap DOMAIN lq
    <3>1. x \notin served
      BY <1>4, WaitingLoads
    <3>2. seen' = [y \in DOMAIN seen |-> IF y \in served THEN Head(RTS1)[1] ELSE seen[y]]
      BY <2>2 DEF ExecuteStore
    <3>. HIDE DEF served
    <3>. QED BY <2>0, <3>1, <3>2
  <2>3. CASE ExecuteLoad
    <3>1. RTL1 # <<>> /\ RTL1 \in Seq(LoadOps)
      BY <2>3 DEF ExecuteLoad, AccessInv, AccessTypes
    <3>y. PICK y : y = Head(RTL1)
      OBVIOUS
    <3>2. y \in LoadOps /\ Count(y, RTL1) # 0
      <4>1. Tail(RTL1) \in Seq(LoadOps) /\ y \in LoadOps /\ Count(y, RTL1) = Count(y, Tail(RTL1)) + 1
        BY <3>1, <3>y, CountTail
      <4>2. Count(y, Tail(RTL1)) \in Nat
        BY <4>1, CountType
      <4>. QED BY <4>1, <4>2
    <3>3. y[1] \in Rob
      BY <3>2, PendingLoad, WaitingLoads
    <3>4. seen' = [seen EXCEPT ![y] = memory[Address(y, "load")]]
      BY <2>3, <3>y DEF ExecuteLoad
    <3>. QED BY <1>4, <2>0, <3>3, <3>4
  <2>4. ASSUME ~ \E n \in Id : ScheduleMemory(n), ~ExecuteStore, ~ExecuteLoad PROVE seen'[x] = seen[x]
    BY <2>4 DEF Next, ReadFromTrace, ResumeFetch, SendToDecode, FetchLine, L1iAnswer, DecodeAndDispatch,
      DoScheduling, ExecuteInstruction, DoExecution, CompleteExecution, TranslateStore,
      TranslateLoad, DtlbAnswer, L1dAnswer, L1dWrite, vars, history
  <2>. QED BY <2>1, <2>2, <2>3, <2>4
<1>5. \A m : Loads(m)' = Loads(m)
  BY <1>1, SameTrace
<1>6. ASSUME NEW m \in 1 .. retired
      PROVE  [i \in Loads(m) |-> seen'[<<m, i>>]] = [i \in Loads(m) |-> seen[<<m, i>>]]
  <2>1. ASSUME NEW i \in Loads(m) PROVE seen'[<<m, i>>] = seen[<<m, i>>]
    <3>x. PICK x : x = <<m, i>>
      OBVIOUS
    <3>1. x \in LoadOps /\ x[1] \notin Rob
      BY <1>3, <3>x
    <3>. QED BY <1>4, <3>1, <3>x
  <2>. QED BY <2>1
<1>. QED BY <1>1, <1>2, <1>5, <1>6 DEF Results

\* For every trace of instructions with one store at most, whatever the core
\* reorders: it retires the instructions in the order of the trace, and every
\* load has seen the youngest older store to its address.
THEOREM ProgramOrderTheorem == ASSUME OneStore PROVE Spec => KeepsProgramOrder
<1>1. Init => HistoryInv
  <2>1. Init => DOMAIN seen = LoadOps /\ l1d = {} /\ \A y \in LoadOps : added[y[1]] = {}
    BY OpFacts DEF Init, LoadOps
  <2>. QED BY <2>1 DEF HistoryInv
<1>2. MemoryPart /\ HistoryInv /\ [Next]_vars => HistoryInv'
  BY NextHistoryInv
<1>3. Init => InOrder!Init
  <2>1. Init => retired = 0 /\ 1 .. retired = {}
    BY DEF Init
  <2>2. Init => Results = <<>>
    BY <2>1 DEF Results
  <2>. QED BY <2>1, <2>2 DEF Init, InOrder!Init, Results
<1>4. MemoryPart /\ HistoryInv /\ [Next]_vars => [InOrder!Retire]_(InOrder!vars)
  <2>. SUFFICES ASSUME MemoryPart, HistoryInv, [Next]_vars PROVE [InOrder!Retire]_(InOrder!vars)
    OBVIOUS
  <2>1. CASE RetireRob
    BY <2>1, RetirementRefines
  <2>2. CASE ~RetireRob
    BY <2>2, OtherStepsStutter DEF InOrder!vars, Results
  <2>. QED BY <2>1, <2>2
<1>. QED BY <1>1, <1>2, <1>3, <1>4, MemoryPartInvariant, PTL
     DEF Spec, KeepsProgramOrder, InOrder!Spec
=============================================================================
