------------------------------- MODULE MemCad -------------------------------
(***************************************************************************)
(* The search for a main memory that follows CACTI's (cacti-master/        *)
(* memcad.cc): all channels that can be populated with DIMMs, the boards   *)
(* that can be made of channels, the memories that can be made of boards;  *)
(* channels and boards are sorted and pruned to one of each capacity.      *)
(***************************************************************************)
EXTENDS Integers, Sequences, FiniteSets, SequencesExt

CONSTANTS
  DIMM_size,       \* the capacities of a DIMM, index 0 for none
  cost,            \* cost[type][index], INF when there is no such DIMM; type is
                   \* UDIMM, RDIMM or LRDIMM
  bandwidth_load,  \* bandwidth_load[0 .. 3]
  io_energy,       \* io_energy[type][DIMMs][bandwidth's index], of one GB
  INF,
  Input            \* [capacity, num_bobs, num_channels_per_bob, metrics, types, mirror]
ASSUME MemCadAssumption ==
  /\ DOMAIN DIMM_size \subseteq Nat /\ DIMM_size[0] = 0
  /\ \A i \in Input : {i.metrics[k] : k \in 1 .. 3} = {"cost", "bandwidth", "energy"}

VARIABLES
  memcad_params,
  stage,                \* what is sought next
  all_channels,         \* before pruning
  channels, bobs,       \* after it, one of a capacity
  memories              \* sorted
memcadVars == <<memcad_params, stage, all_channels, channels, bobs, memories>>

-----------------------------------------------------------------------------
Index == DOMAIN DIMM_size
DimmTriple == {d \in Index \X Index \X Index : d[1] <= d[2] /\ d[2] <= d[3]}
Slot3 == 1 .. 3
OverSlots(f(_), d) == f(d[1]) + f(d[2]) + f(d[3])
Populated(d) == Cardinality({k \in Slot3 : d[k] # 0})

\* channel_conf and calc_power.
Channel(d, type, bw) ==
  LET size(i) == DIMM_size[i]
      price(i) == IF i = 0 THEN 0 ELSE cost[type][i]
  IN [capacity |-> OverSlots(size, d), cost |-> OverSlots(price, d),
      bandwidth |-> bandwidth_load[bw],
      energy |-> IF Populated(d) = 0 THEN 0
                 ELSE OverSlots(size, d) * io_energy[type][Populated(d)][bw]]

\* For no DIMM at all, which only LRDIMM channels may have, the code reads
\* bandwidth_load past its end: any speed may be the highest.
Offered(p, past) ==
  UNION {{Channel(d, type, bw) : bw \in 0 .. IF Populated(d) = 0 THEN past ELSE 4 - Populated(d)} :
           <<d, type>> \in {x \in DimmTriple \X p.types :
             /\ Channel(x[1], x[2], 0).cost < INF
             /\ Populated(x[1]) = 0 => x[2] = "LRDIMM"
             /\ Channel(x[1], x[2], 0).capacity <= p.capacity}}

\* compare_channels, compare_bobs and compare_memories, for one capacity.
Rank(c, m) == IF m = "bandwidth" THEN - c.bandwidth ELSE c[m]
Better(a, b) ==
  LET by(k) == memcad_params.metrics[k]
  IN \E k \in 1 .. 3 : /\ Rank(a, by(k)) < Rank(b, by(k))
                       /\ \A j \in 1 .. k - 1 : Rank(a, by(j)) = Rank(b, by(j))

\* The one of S that sorting puts first: equals differ in no measure.
Best(S) == CHOOSE c \in S : \A d \in S : ~Better(d, c)
OfCapacity(S, n) == {c \in S : c.capacity = n}

\* Mutant: of one capacity, only the cost is looked at.
PrunedByCost(S) ==
  {CHOOSE c \in OfCapacity(S, n) : \A d \in OfCapacity(S, n) : c.cost <= d.cost :
     n \in {c.capacity : c \in S}}
Pruned(S) == {Best(OfCapacity(S, n)) : n \in {c.capacity : c \in S}}

\* bob_conf and memory_conf: everything adds up.
Nothing == [capacity |-> 0, cost |-> 0, bandwidth |-> 0, energy |-> 0]
Plus(a, b) == [m \in DOMAIN Nothing |-> a[m] + b[m]]
Total(s) == FoldLeft(Plus, Nothing, s)
Times(n, c) == Total([k \in 1 .. n |-> c])

-----------------------------------------------------------------------------
FindAllChannels(past) ==
  LET offered == Offered(memcad_params, past)
  IN /\ stage = "channels" /\ stage' = "bobs"
     /\ all_channels' = offered
     /\ channels' = Pruned(offered)
     /\ UNCHANGED <<memcad_params, bobs, memories>>

\* Boards of equal channels, or of channels of the same bandwidth.
FindAllBobs ==
  LET n == memcad_params.num_channels_per_bob
      mirrored == {Times(n, c) : c \in channels}
      mixed == {Total(s) : s \in {s \in [1 .. n -> channels] :
                                    \A k \in 1 .. n : s[k].bandwidth = s[1].bandwidth}}
  IN /\ stage = "bobs" /\ stage' = "memories"
     /\ bobs' = Pruned(IF memcad_params.mirror THEN mirrored ELSE mixed)
     /\ UNCHANGED <<memcad_params, all_channels, channels, memories>>

\* The boards of a memory have exactly its capacity; the three best are shown.
FindAllMemories ==
  /\ stage = "memories" /\ stage' = "clean"
  /\ memories' = OfCapacity({Total(s) : s \in [1 .. memcad_params.num_bobs -> bobs]},
                            memcad_params.capacity)
  /\ UNCHANGED <<memcad_params, all_channels, channels, bobs>>

CleanResults ==
  /\ stage = "clean" /\ stage' = "done"
  /\ all_channels' = {} /\ channels' = {} /\ bobs' = {} /\ memories' = {}
  /\ UNCHANGED memcad_params

MInit == /\ memcad_params \in Input /\ stage = "channels"
         /\ all_channels = {} /\ channels = {} /\ bobs = {} /\ memories = {}
MNext == (\E past \in 0 .. 3 : FindAllChannels(past)) \/ FindAllBobs \/ FindAllMemories
         \/ CleanResults
MSpec == MInit /\ [][MNext]_memcadVars

-----------------------------------------------------------------------------
\* Pruning twice loses nothing when boards are of equal channels: the memory
\* shown first is as good, by the metrics in the order asked for, as any that
\* the channels before pruning allow; and if there is one, one is found.
MirroredMemoryIsBest ==
  stage = "clean" /\ memcad_params.mirror =>
    LET board(c) == Times(memcad_params.num_channels_per_bob, c)
        possible == OfCapacity({Total(s) : s \in [1 .. memcad_params.num_bobs ->
                                                    {board(c) : c \in all_channels}]},
                               memcad_params.capacity)
    IN /\ possible # {} => memories # {}
       /\ \A m \in possible : ~Better(m, Best(memories))
=============================================================================
