------------------------------- MODULE MCTools -------------------------------
(* The programs that run once and end, each on its own: the simulator with  *)
(* its arguments, CACTI's configuration, its cuts of an array and its three  *)
(* searches, and the two programs that write traces.  tool is the one run.   *)
EXTENDS MCSearch, MemCad, CvpConverter, PinTracer, MCPartition, Simulation,
        NucaSearch

MCSize == [i \in 0 .. 3 |-> IF i = 0 THEN 0 ELSE 2 ^ (i + 1)]
MCCost == [UDIMM |-> <<26, 46, 900>>, RDIMM |-> <<33, 60, 126>>,
           LRDIMM |-> <<900, 900, 110>>]
MCBandwidth == [b \in 0 .. 3 |-> 8 + b]
MCOver == [UDIMM |-> 0, RDIMM |-> 1, LRDIMM |-> 5]
MCEnergy ==
  [t \in DOMAIN MCOver |-> [n \in 1 .. 3 |-> [b \in 0 .. 3 |-> n + 2 * b + MCOver[t]]]]
MCOrders == {<<"cost", "bandwidth", "energy">>, <<"bandwidth", "energy", "cost">>,
             <<"energy", "cost", "bandwidth">>}
MCInput ==
  [capacity : {16, 32}, num_bobs : {2}, num_channels_per_bob : {1, 2},
   metrics : MCOrders, types : {{"UDIMM"}, {"LRDIMM"}, DOMAIN MCOver},
   mirror : BOOLEAN]

Rec(type, PC, EA, taken, in, out) ==
  [type |-> type, PC |-> PC, EA |-> EA, taken |-> taken,
   input_reg_names |-> in, output_reg_names |-> out]
MCDataRecords ==
  {Rec("load", pc, ea, FALSE, <<26>>, <<0>>) : pc \in {1, 3}, ea \in 1 .. 3}
  \cup {Rec("store", 1, 3, FALSE, <<6, 0>>, <<>>)}
MCBranches ==
  {Rec("condBranch", 1, 0, taken, <<64>>, <<>>) : taken \in BOOLEAN}
  \cup {Rec("uncondDirectBranch", 1, 0, TRUE, <<>>, out) : out \in {<<>>, <<30>>}}
  \cup {Rec("uncondIndirectBranch", 1, 0, TRUE, in, out) :
          in \in {<<1>>, <<30>>}, out \in {<<>>, <<30>>}}
MCOthers == {Rec("alu", 2, 0, FALSE, <<25, 26, 6>>, <<x>>) : x \in {6, 25, 26, 30}}
MCCvpTraces == [1 .. 3 -> MCDataRecords] \cup [1 .. 2 -> MCBranches \cup MCOthers]

\* More operands than there is room for, twice the same, one lost in a byte.
Op(branch, reads, writes, loads, stores) ==
  [branch |-> branch, reads |-> reads, writes |-> writes, loads |-> loads,
   stores |-> stores]
MCOps ==
  {Op("none", <<1, 2, 1, 3, 4, 5>>, <<7, 256, 7, 8, 9>>, <<>>, <<>>),
   Op("none", <<1, 257>>, <<>>, <<11, 12, 11>>, <<13, 14, 15>>),
   Op("taken", <<26>>, <<26>>, <<>>, <<>>), Op("not", <<26>>, <<26>>, <<>>, <<>>),
   Op("none", <<>>, <<1>>, <<>>, <<>>)}
MCPrograms == UNION {[1 .. n -> MCOps] : n \in 0 .. 4}

MCTraceLists == UNION {[1 .. n -> {"xz", "plain"}] : n \in 0 .. 3} \cup {<<"gz">>}

\* Bounds of the sizes (KB), of the banks, and of the cycles and energies of a
\* network in which the fast wire and router cost most.
NucaOf(sizes, assocs, counts, cores, levels, eds, devs) ==
  {i \in [cache_sz : sizes, assoc : assocs, nuca_bank_count : counts, cores : cores,
          cache_level : levels, force_wiretype : BOOLEAN, low_swing : BOOLEAN, ed : eds,
          delay_dev : devs, dynamic_dev : devs] :
     (i.low_swing => i.force_wiretype) /\ i.nuca_bank_count <= i.cache_sz}
MCNucaInputs ==
  NucaOf({32, 64, 256, 1024}, {2, 8}, {0, 4}, {8}, {0}, 0 .. 2, {5, 50})
  \cup NucaOf({1024}, {2}, {0, 2, 128}, {4, 16, 17}, {0, 1}, {0}, {20, 900})
MCNetwork ==
  [n \in 1 .. 1024 |-> [wr \in 0 .. 2 |-> [ro \in 0 .. 1 |->
     [access |-> 2 + 24 \div n, dynamic |-> 5 + 80 \div n, ver |-> 1 + 3 * wr, hor |-> 2 + wr,
      router |-> 3 - 2 * ro, hop |-> 1 + 4 * ro, hhop |-> 6 - 2 * wr, vhop |-> 5 - 2 * wr]]]]
MCContStats == [row \in 0 .. 140 |-> [even \in 0 .. 7 |-> ((row * 5) % 9) + even]]

VARIABLE tool
SomeOf(S) == CHOOSE x \in S : TRUE
\* What the tools that do not run have for inputs.
Unused ==
  [evaluation |-> SomeOf(Evaluation), config |-> SomeOf(Config), memory |-> SomeOf(Input),
   trace |-> SomeOf(CvpTraces), program |-> SomeOf(Programs), input |-> SomeOf(Inputs),
   cut |-> SomeOf(Cuts), traces |-> SomeOf(TraceLists), nuca |-> SomeOf(NucaInputs)]
For(t, S, one) == IF tool = t THEN S ELSE {one}
MCInit ==
  /\ tool \in {"cacti", "memcad", "cvp", "pin", "config", "partition", "simulation", "nuca"}
  /\ evaluation \in For("cacti", Evaluation, Unused.evaluation)
  /\ config \in For("cacti", Config, Unused.config) /\ Init
  /\ memcad_params \in For("memcad", Input, Unused.memory) /\ MInit
  /\ trace \in For("cvp", CvpTraces, Unused.trace) /\ CInit
  /\ program \in For("pin", Programs, Unused.program) /\ PInit
  /\ g_ip \in For("config", {AfterBase(base) : base \in BaseFiles}, NewInput) \cup {NewInput}
  /\ ConfigInit
  /\ input \in For("partition", Inputs, Unused.input)
  /\ cut \in For("partition", Cuts, Unused.cut) /\ PartitionInit
  /\ traces \in For("simulation", TraceLists, Unused.traces) /\ SimInit
  /\ nuca_ip \in For("nuca", NucaInputs, Unused.nuca) /\ NucaInit
Others(t) ==
  /\ tool = t
  /\ t # "cacti" => UNCHANGED searchVars
  /\ t # "memcad" => UNCHANGED memcadVars
  /\ t # "cvp" => UNCHANGED converterVars
  /\ t # "pin" => UNCHANGED tracerVars
  /\ t # "config" => UNCHANGED configVars
  /\ t # "partition" => UNCHANGED partitionVars
  /\ t # "simulation" => UNCHANGED simulationVars
  /\ t # "nuca" => UNCHANGED nucaVars
MCNext ==
  /\ UNCHANGED tool
  /\ \/ Others("cacti") /\ Next
     \/ Others("memcad") /\ MNext
     \/ Others("cvp") /\ CNext
     \/ Others("pin") /\ PNext
     \/ Others("config") /\ ConfigNext
     \/ Others("partition") /\ PartitionNext
     \/ Others("simulation") /\ SimNext
     \/ Others("nuca") /\ NucaNext
MCSpec ==
  MCInit /\ [][MCNext]_<<searchVars, memcadVars, converterVars, tracerVars, configVars,
                        partitionVars, simulationVars, nucaVars, tool>>
=============================================================================
