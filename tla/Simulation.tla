----------------------------- MODULE Simulation -----------------------------
(* The program of src/ChampSim/src/main.cc: the traces named on its command  *)
(* line, and then the loop that runs every core once per cycle, and DRAM and *)
(* the LLC after them.  The statistics that the program is run for are those *)
(* of the region of interest, which starts when the last core has warmed up  *)
(* in the middle of a cycle and ends for each core when it has retired its   *)
(* instructions.  What the stages of a core do is left to OutOfOrderCore.    *)
EXTENDS Naturals, FiniteSets, Sequences

CONSTANTS NUM_CPUS, warmup_instructions, simulation_instructions, RETIRE_WIDTH,
          PageWalkLatency,  \* PAGE_TABLE_LATENCY once the warm-up is over
          TraceLists,       \* the lists of arguments after -traces
          MaxCycle          \* bound: no cycle is started past it

ASSUME SimulationAssumption ==
  /\ {NUM_CPUS, simulation_instructions, RETIRE_WIDTH} \subseteq Nat \ {0}
  /\ {warmup_instructions, PageWalkLatency, MaxCycle} \subseteq Nat

VARIABLES
  traces,               \* arguments that are still to be read
  count_traces,
  progress,             \* "arguments", "running", "ended" or "failed"
  turn,                 \* the core whose turn it is, or NUM_CPUS: DRAM and LLC
  current_core_cycle, stall_cycle, num_retired,
  warmup_complete, all_warmup_complete,
  latencies,            \* "none" or, after the warm-up, "actual"
  begin_sim,            \* begin_sim_instr and begin_sim_cycle
  simulation_complete,
  finish_sim,           \* finish_sim_instr and finish_sim_cycle
  sim_access,           \* per cache and core, cleared after the warm-up
  roi_access,           \* what record_roi_stats kept of it
  window                \* history: the accesses that sim_access ought to count

coreVars == <<current_core_cycle, stall_cycle, num_retired, warmup_complete,
              all_warmup_complete, latencies, begin_sim, simulation_complete,
              finish_sim, sim_access, roi_access, window>>
simulationVars == <<traces, count_traces, progress, turn, coreVars>>

Cores == 0 .. NUM_CPUS - 1
\* L1D stands for the three caches that a core has to itself.
Caches == {"L1D", "LLC"}
none == [c \in Caches |-> [i \in Cores |-> 0]]

SimInit ==
  /\ traces \in TraceLists /\ count_traces = 0
  /\ progress = "arguments" /\ turn = 0
  /\ current_core_cycle = [i \in Cores |-> 0]
  /\ stall_cycle = [i \in Cores |-> 0]
  /\ num_retired = [i \in Cores |-> 0]
  /\ warmup_complete = [i \in Cores |-> FALSE]
  /\ all_warmup_complete = 0
  /\ latencies = "none"
  /\ begin_sim = [i \in Cores |-> [instr |-> warmup_instructions, cycle |-> 0]]
  /\ simulation_complete = [i \in Cores |-> FALSE]
  /\ finish_sim = [i \in Cores |-> [instr |-> 0, cycle |-> 0]]
  /\ sim_access = none /\ roi_access = none /\ window = none

(* ------------------------------ The arguments ---------------------------- *)

\* A trace is opened for core count_traces before the number is looked at: one
\* too many is written past the last core, and then the program fails.
OpenTrace ==
  /\ progress = "arguments" /\ traces # <<>>
  /\ traces' = Tail(traces)
  /\ IF Head(traces) \in {"gz", "xz"}
     THEN /\ count_traces' = count_traces + 1
          /\ progress' = IF count_traces' > NUM_CPUS THEN "failed" ELSE progress
     ELSE /\ progress' = "failed"
          /\ UNCHANGED count_traces
  /\ UNCHANGED <<turn, coreVars>>

Start ==
  /\ progress = "arguments" /\ traces = <<>>
  /\ progress' = IF count_traces # NUM_CPUS THEN "failed" ELSE "running"
  /\ UNCHANGED <<traces, count_traces, turn, coreVars>>

(* -------------------------------- One core ------------------------------- *)

\* What the stages of a core can do in one cycle: retire instructions, access
\* its caches, and stall on the walk for a page that is new to it.  Bound: one
\* access in a cycle, or one walk and nothing else.
Idle == [retired |-> 0, accesses |-> 0, walk |-> FALSE]
Steps(i, cycle) ==
  IF stall_cycle[i] <= cycle
  THEN [retired : 0 .. RETIRE_WIDTH, accesses : 0 .. 1, walk : {FALSE}]
       \cup {[Idle EXCEPT !.walk = TRUE]}
  ELSE {Idle}

CountedTwice(i, retired) == retired > warmup_instructions
Warms(i, retired) == ~warmup_complete[i] /\ retired > warmup_instructions

\* What is put to zero by finish_warmup, which calls reset_cache_stats for the
\* caches of every core and, core by core, for the LLC.
ClearedOfCore0(counts) == [counts EXCEPT !["L1D"] = none["L1D"], !["LLC"][0] = 0]
Cleared(counts) == none

\* finish_warmup is called in the turn of the last core to warm up: the cores
\* after it have not had their turn in this cycle.
BeginSim(cycles, retired) ==
  [i \in Cores |-> [instr |-> retired[i], cycle |-> cycles[i]]]

\* Only the turn in which the last core warms up finds all_warmup_complete at
\* NUM_CPUS, and it leaves it one above.
IsLast(count) == count = NUM_CPUS

Enough(i, count, retired, begin) ==
  /\ count > NUM_CPUS /\ ~simulation_complete[i]
  /\ retired >= begin.instr + simulation_instructions

AllWarm == \A i \in Cores : num_retired[i] > warmup_instructions

\* The history: the accesses of i from when all are warm until i is complete.
Observe(cache, i, accesses) ==
  window' = IF AllWarm /\ ~simulation_complete[i]
            THEN [window EXCEPT ![cache][i] = @ + accesses] ELSE window

\* A core's part of a cycle, in which its stages make a step.
TurnWith(i, step) ==
  LET cycles == [current_core_cycle EXCEPT ![i] = @ + 1]
      retired == [num_retired EXCEPT ![i] = @ + step.retired]
      accesses == [sim_access EXCEPT !["L1D"][i] = @ + step.accesses]
      warms == Warms(i, retired[i])
      count == all_warmup_complete + IF warms THEN 1 ELSE 0
      last == IsLast(count)
      begin == IF last THEN BeginSim(cycles, retired) ELSE begin_sim
      counts == IF last THEN Cleared(accesses) ELSE accesses
      complete == Enough(i, IF last THEN count + 1 ELSE count, retired[i], begin[i])
  IN /\ turn' = i + 1
     /\ current_core_cycle' = cycles
     /\ stall_cycle' =
          IF step.walk
          THEN [stall_cycle EXCEPT ![i] =
                  cycles[i] + IF latencies = "actual" THEN PageWalkLatency ELSE 0]
          ELSE stall_cycle
     /\ num_retired' = retired
     /\ warmup_complete' = [warmup_complete EXCEPT ![i] = @ \/ warms]
     /\ all_warmup_complete' = IF last THEN count + 1 ELSE count
     /\ latencies' = IF last THEN "actual" ELSE latencies
     /\ begin_sim' = begin
     /\ sim_access' = counts
     /\ simulation_complete' = [simulation_complete EXCEPT ![i] = @ \/ complete]
     /\ IF complete
        THEN /\ finish_sim' = [finish_sim EXCEPT ![i] =
                  [instr |-> retired[i] - begin[i].instr,
                   cycle |-> cycles[i] - begin[i].cycle]]
             /\ roi_access' = [c \in Caches |-> [roi_access[c] EXCEPT ![i] = counts[c][i]]]
        ELSE UNCHANGED <<finish_sim, roi_access>>
     /\ Observe("L1D", i, step.accesses)
     /\ UNCHANGED <<traces, count_traces, progress>>
Turn(i) ==
  /\ progress = "running" /\ turn = i
  /\ \E step \in Steps(i, current_core_cycle[i] + 1) : TurnWith(i, step)

(* ----------------------------- The shared part --------------------------- *)

\* DRAM.operate and LLC.operate end the cycle, and the loop once every core is
\* complete: a core that is complete keeps running until then.
Shared ==
  /\ progress = "running" /\ turn = NUM_CPUS
  /\ \E i \in Cores, accesses \in 0 .. 1 :
       /\ sim_access' = [sim_access EXCEPT !["LLC"][i] = @ + accesses]
       /\ Observe("LLC", i, accesses)
  /\ IF \A i \in Cores : simulation_complete[i]
     THEN progress' = "ended" /\ UNCHANGED turn
     ELSE /\ \A i \in Cores : current_core_cycle[i] < MaxCycle
          /\ turn' = 0 /\ UNCHANGED progress
  /\ UNCHANGED <<traces, count_traces, current_core_cycle, stall_cycle, num_retired,
                 warmup_complete, all_warmup_complete, latencies, begin_sim,
                 simulation_complete, finish_sim, roi_access>>

SimNext == OpenTrace \/ Start \/ (\E i \in Cores : Turn(i)) \/ Shared

SimSpec == SimInit /\ [][SimNext]_simulationVars

(* ------------------------------- Properties ------------------------------ *)

\* What is reported of a core is its region of interest: as many instructions
\* as were asked for, and fewer than it retires in a cycle more, in no fewer
\* cycles than that takes, and exactly the accesses that it made to each cache
\* after the last core had warmed up and before its own last turn had ended.
RoiIsTheWindow ==
  \A i \in Cores : simulation_complete[i] =>
    LET finish == finish_sim[i]
    IN /\ finish.instr \in simulation_instructions
                             .. simulation_instructions + RETIRE_WIDTH - 1
       /\ finish.instr <= RETIRE_WIDTH * finish.cycle
       /\ \A c \in Caches : roi_access[c][i] = window[c][i]

\* The controller of DRAM asks whether all_warmup_complete is below NUM_CPUS,
\* the main loop whether it is above, and the latencies are changed by
\* finish_warmup: the three agree at the end of every turn, and say that every
\* core has retired what it was to warm up with.
PhasesAgree ==
  /\ all_warmup_complete > NUM_CPUS <=> AllWarm
  /\ all_warmup_complete < NUM_CPUS <=> ~AllWarm
  /\ latencies = "actual" <=> AllWarm
=============================================================================
