----------------------------- MODULE NucaSearch -----------------------------
(***************************************************************************)
(* CACTI's search for a cache of many banks (cacti-master/nuca.cc): for    *)
(* every number of banks, wire type and router the grid of banks that is   *)
(* nearest to the controller, and of these the cheapest.  Of the five      *)
(* measures of an organisation, all treated alike, delay and energy are    *)
(* kept.  Sizes are in KB, times in cycles of the router.                  *)
(***************************************************************************)
EXTENDS Integers, FiniteSets, SequencesExt

CONSTANTS
  NucaInputs,    \* [cache_sz, assoc, nuca_bank_count, cores, cache_level, force_wiretype,
                 \*  low_swing, ed, delay_dev, dynamic_dev]
  MIN_BANKSIZE,
  Low_swing,     \* the last wire type; the first is 0
  ROUTER_TYPES,
  Network,       \* external: Network[banks][wire][router], what solve, Wire and Router find
  cont_stats,    \* contention.dat as it lies in memory, a row after the other, and one more
  NoOrg
Wires == 0 .. Low_swing
Routers == 0 .. ROUTER_TYPES - 1
\* A bank has a KB at least, and sizes are ints.
ASSUME NucaAssumption ==
  /\ {MIN_BANKSIZE, Low_swing, ROUTER_TYPES} \subseteq Nat \ {0}
  /\ \A i \in NucaInputs :
       /\ i.cache_sz \in Nat \ {0} /\ i.cache_sz \div 2 ^ 30 <= 1
       /\ i.nuca_bank_count \in 0 .. i.cache_sz
       /\ {i.assoc, i.delay_dev, i.dynamic_dev} \subseteq Nat
\* A bank is accessed in a cycle at least.
ASSUME NetworkAssumption ==
  /\ \A i \in NucaInputs : 1 .. i.cache_sz \subseteq DOMAIN Network
  /\ \A n \in DOMAIN Network : \A wr \in Wires, ro \in Routers :
       LET net == Network[n][wr][ro]
       IN /\ net.access \in Nat \ {0}
          /\ {net.dynamic, net.ver, net.hor, net.router, net.hop, net.hhop, net.vhop}
               \subseteq Nat
  /\ \A row \in 0 .. 70 * ROUTER_TYPES, even \in 0 .. 7 : cont_stats[row][even] \in Nat
OrgRecords ==
  [org : [it : Nat, wr : Nat, ro : Nat], bank_count : Nat, rows : Nat, columns : Nat,
   delay : Int, dynamic : Int]
ASSUME NoOrgAssumption == NoOrg \notin OrgRecords
\* A fact of arithmetic, for the proofs.
ASSUME PowerAssumption ==
  /\ 2 ^ 0 = 1
  /\ \A k \in 0 .. 29 : 2 ^ k \in Nat /\ 2 ^ (k + 1) = 2 * 2 ^ k

VARIABLES
  nuca_ip,
  nuca_stage,   \* "bounds", "explore", "choose", "done", "exit" or "crashed"
  bank_start, iterations,
  explored,     \* organisations explored, in the order of the loops
  nuca_list, minval, nuca_iter,
  res, nuca_min_cost,
  bank_sz       \* g_ip->cache_sz, which the search leaves to the rest of CACTI
nucaVars == <<nuca_ip, nuca_stage, bank_start, iterations, explored, nuca_list, minval, nuca_iter,
              res, nuca_min_cost, bank_sz>>

-----------------------------------------------------------------------------
(* The bounds of the search.                                               *)

FloorLog(n) == CHOOSE k \in 0 .. 30 : n \div 2 ^ k = 1
SmallestBank == IF nuca_ip.assoc > 2 THEN MIN_BANKSIZE * (nuca_ip.assoc \div 2) ELSE MIN_BANKSIZE
OneBankCount == nuca_ip.nuca_bank_count # 0

\* logtwo asserts that there is one bank at least, given their number or not.
BoundSearch ==
  /\ nuca_stage = "bounds"
  /\ IF nuca_ip.cores > 16 THEN nuca_stage' = "exit" /\ UNCHANGED <<bank_start, iterations>>
     ELSE IF nuca_ip.cache_sz < SmallestBank
     THEN nuca_stage' = "crashed" /\ UNCHANGED <<bank_start, iterations>>
     ELSE /\ nuca_stage' = "explore"
          /\ bank_start' = IF OneBankCount THEN FloorLog(nuca_ip.nuca_bank_count) ELSE 0
          /\ iterations' = IF OneBankCount THEN bank_start' + 1
                           ELSE FloorLog(nuca_ip.cache_sz \div SmallestBank)
  /\ UNCHANGED <<nuca_ip, explored, nuca_list, minval, nuca_iter, res, nuca_min_cost, bank_sz>>

WireTypes == IF ~nuca_ip.force_wiretype THEN Wires
         ELSE IF nuca_ip.low_swing THEN {Low_swing} ELSE 0 .. Low_swing - 1
PerBankCount == Cardinality(WireTypes) * ROUTER_TYPES
NumOrgs == (iterations - bank_start) * PerBankCount

\* The k-th organisation, from 0: the router changes first, the banks last.
OrgAt(k) ==
  [it |-> bank_start + (k \div PerBankCount),
   wr |-> Min(WireTypes) + ((k % PerBankCount) \div ROUTER_TYPES),
   ro |-> k % ROUTER_TYPES]
SizeOfBank(it) == nuca_ip.cache_sz \div
                    (IF OneBankCount THEN nuca_ip.nuca_bank_count ELSE 2 ^ it)
BankCount(it) == nuca_ip.cache_sz \div SizeOfBank(it)

-----------------------------------------------------------------------------
(* One organisation.  Averages over the banks are times MostBanks.         *)

MostBanks == BankCount(iterations - 1)
Average(n, sum) == sum * (MostBanks \div n)

\* Hops to all the banks of a grid, each added up over its rows and columns.
SumBelow(n) == (n * (n - 1)) \div 2
HorHops(r, c) == r * SumBelow(c)
VerHops(r, c) == c * SumBelow(r) + r * c
AllHops(r, c) == HorHops(r, c) + VerHops(r, c)

\* The way to each bank and back, over wires and through routers; the wire of
\* the first hop is no part of it.
Latency(net, r, c) ==
  2 * ((VerHops(r, c) - r * c) * net.ver + HorHops(r, c) * net.hor)
    + 2 * net.router * AllHops(r, c)
HopEnergy(net, r, c) ==
  AllHops(r, c) * net.hop + HorHops(r, c) * net.hhop + VerHops(r, c) * net.vhop

\* The first of the grids of least latency, by its columns.
NearestColumns(net, n) ==
  LET grids == {c \in 1 .. n : n % c = 0}
      latency == [c \in grids |-> Latency(net, n \div c, c)]
  IN CHOOSE c \in grids : \A d \in grids :
       latency[c] < latency[d] \/ (latency[c] = latency[d] /\ c <= d)

\* Seven rows for each router, by the logarithm of the banks; with more banks
\* row seven is read, which is the first of whatever follows.
L2Row(ip) == IF ip.cache_level = 0 THEN 1 ELSE 0
CoreRow(ip) == IF ip.cores <= 4 THEN 2 ELSE IF ip.cores <= 8 THEN 3 ELSE 4
ContentionOf(o, cycles) ==
  LET row == IF o.it < 7 THEN o.it ELSE 7
      even == Min({16, cycles + (cycles % 2)})
  IN cont_stats[((L2Row(nuca_ip) * 5 + CoreRow(nuca_ip)) * ROUTER_TYPES + o.ro) * 7 + row]
               [even \div 2 - 1]

Organised(o) ==
  LET n == BankCount(o.it)
      net == Network[n][o.wr][o.ro]
      c == NearestColumns(net, n)
      r == n \div c
  IN [org |-> o, bank_count |-> n, rows |-> r, columns |-> c,
      delay |-> Average(n, Latency(net, r, c))
                  + MostBanks * (net.access + ContentionOf(o, net.access)),
      dynamic |-> Average(n, HopEnergy(net, r, c)) + MostBanks * net.dynamic]

\* update_min_values
Lesser(a, b) == IF a > b THEN b ELSE a
UpdateMin(m) ==
  IF minval = NoOrg THEN [delay |-> m.delay, dynamic |-> m.dynamic]
  ELSE [delay |-> Lesser(minval.delay, m.delay), dynamic |-> Lesser(minval.dynamic, m.dynamic)]

ExploreOrg ==
  LET m == Organised(OrgAt(explored))
  IN /\ nuca_stage = "explore" /\ explored < NumOrgs
     /\ nuca_list' = Append(nuca_list, m)
     /\ minval' = UpdateMin(m)
     /\ explored' = explored + 1
     /\ UNCHANGED <<nuca_ip, nuca_stage, bank_start, iterations, nuca_iter, res, nuca_min_cost,
                    bank_sz>>
EndExplore ==
  /\ nuca_stage = "explore" /\ explored = NumOrgs
  /\ nuca_stage' = "choose" /\ nuca_iter' = 1
  /\ UNCHANGED <<nuca_ip, bank_start, iterations, explored, nuca_list, minval, res,
                 nuca_min_cost, bank_sz>>

-----------------------------------------------------------------------------
(* find_optimal_nuca                                                       *)

HasEd == nuca_ip.ed \in {1, 2}
\* check_nuca_org
MeetsNuca(m) ==
  \/ HasEd
  \/ /\ (m.delay - minval.delay) * 100 <= nuca_ip.delay_dev * minval.delay
     /\ (m.dynamic - minval.dynamic) * 100 <= nuca_ip.dynamic_dev * minval.dynamic
\* Weights of one, times the product of the two minima.
NucaCost(m) ==
  CASE nuca_ip.ed = 1 -> m.delay * m.dynamic
    [] nuca_ip.ed = 2 -> m.delay * m.delay * m.dynamic
    [] OTHER -> m.delay * minval.dynamic + m.dynamic * minval.delay

\* After an erased one the iterator is set back, unless the first was erased,
\* and then stepped.
EraseNoStepBack == nuca_list' = RemoveAt(nuca_list, nuca_iter) /\ nuca_iter' = nuca_iter + 1
EraseNuca ==
  /\ nuca_list' = RemoveAt(nuca_list, nuca_iter)
  /\ nuca_iter' = IF nuca_iter > 1 THEN nuca_iter ELSE 2

ConsiderNuca ==
  LET m == nuca_list[nuca_iter]
      cheaper == res = NoOrg \/ nuca_min_cost > NucaCost(m)
  IN /\ nuca_stage = "choose" /\ nuca_iter <= Len(nuca_list)
     /\ IF MeetsNuca(m)
        THEN /\ nuca_iter' = nuca_iter + 1 /\ UNCHANGED nuca_list
             /\ IF cheaper THEN res' = m /\ nuca_min_cost' = NucaCost(m)
                           ELSE UNCHANGED <<res, nuca_min_cost>>
        ELSE EraseNuca /\ UNCHANGED <<res, nuca_min_cost>>
     /\ UNCHANGED <<nuca_ip, nuca_stage, bank_start, iterations, explored, minval, bank_sz>>

\* Without a result its statistics cannot be printed.
TakeBank ==
  /\ nuca_stage = "choose" /\ nuca_iter > Len(nuca_list)
  /\ IF res = NoOrg THEN nuca_stage' = "crashed" /\ UNCHANGED bank_sz
     ELSE nuca_stage' = "done" /\ bank_sz' = nuca_ip.cache_sz \div res.bank_count
  /\ UNCHANGED <<nuca_ip, bank_start, iterations, explored, nuca_list, minval, nuca_iter, res,
                 nuca_min_cost>>

NucaInit ==
  /\ nuca_ip \in NucaInputs /\ nuca_stage = "bounds"
  /\ bank_start = 0 /\ iterations = 0 /\ explored = 0 /\ nuca_list = <<>> /\ nuca_iter = 1
  /\ minval = NoOrg /\ res = NoOrg /\ nuca_min_cost = 0 /\ bank_sz = nuca_ip.cache_sz
NucaNext == BoundSearch \/ ExploreOrg \/ EndExplore \/ ConsiderNuca \/ TakeBank
NucaSpec == NucaInit /\ [][NucaNext]_nucaVars

-----------------------------------------------------------------------------
\* The organisation that is picked costs least of all there are, for every
\* number of banks, wire and router, in the grid of least latency; only when
\* the first explored misses the deviations is the second never looked at.  It
\* crashes if and only if none is left, and what goes on is a bank of its size.
PicksLeastNuca ==
  LET all == [k \in 0 .. NumOrgs - 1 |-> Organised(OrgAt(k))]
      meet == {k \in DOMAIN all : MeetsNuca(all[k])}
      seen == IF 0 \in meet THEN meet ELSE meet \ {1}
  IN nuca_stage \in {"done", "crashed"} =>
     /\ nuca_stage = "crashed" => nuca_ip.cache_sz < SmallestBank \/ seen = {}
     /\ nuca_stage = "done" =>
          /\ \E k \in seen : res = all[k]
          /\ \A k \in seen : NucaCost(res) <= NucaCost(all[k])
          /\ LET net == Network[res.bank_count][res.org.wr][res.org.ro]
             IN \A r, c \in 1 .. res.bank_count : r * c = res.bank_count =>
                  Latency(net, res.rows, res.columns) <= Latency(net, r, c)
          /\ res.rows * res.columns * bank_sz <= nuca_ip.cache_sz
=============================================================================
