-------------------------- MODULE SimulationProofs --------------------------
(***************************************************************************)
(* For any number of cores, the phases of the simulation agree, and what   *)
(* is reported of a core is its region of interest.                        *)
(***************************************************************************)
EXTENDS Simulation, Integers, FiniteSetTheorems, TLAPS

SimTypes ==
  /\ num_retired \in [Cores -> Nat]
  /\ current_core_cycle \in [Cores -> Nat]
  /\ warmup_complete \in [Cores -> BOOLEAN]
  /\ simulation_complete \in [Cores -> BOOLEAN]
  /\ begin_sim \in [Cores -> [instr : Nat, cycle : Nat]]
  /\ finish_sim \in [Cores -> [instr : Int, cycle : Int]]
  /\ sim_access \in [Caches -> [Cores -> Nat]]
  /\ roi_access \in [Caches -> [Cores -> Nat]]
  /\ window \in [Caches -> [Cores -> Nat]]

\* The flags of the cores and the two that stand for all of them.
Warm == {i \in Cores : warmup_complete[i]}
PhasesInv ==
  /\ \A i \in Cores : warmup_complete[i] <=> num_retired[i] > warmup_instructions
  /\ all_warmup_complete = Cardinality(Warm) + IF Warm = Cores THEN 1 ELSE 0
  /\ (latencies = "actual") <=> Warm = Cores

\* A turn in which core i retires s instructions and makes x accesses, told by
\* the next state; n is the count of the cores that are warm.  First what it
\* means for the warm-up, and then what is reported.
TurnWarms(i, s, n) ==
  /\ n = all_warmup_complete + IF Warms(i, num_retired[i] + s) THEN 1 ELSE 0
  /\ num_retired' = [num_retired EXCEPT ![i] = @ + s]
  /\ warmup_complete' = [warmup_complete EXCEPT ![i] = @ \/ Warms(i, num_retired[i] + s)]
  /\ all_warmup_complete' = IF n = NUM_CPUS THEN n + 1 ELSE n
  /\ latencies' = IF n = NUM_CPUS THEN "actual" ELSE latencies
TurnCounts(i, s, x, n) ==
  /\ current_core_cycle' = [current_core_cycle EXCEPT ![i] = @ + 1]
  /\ begin_sim' = IF n = NUM_CPUS THEN BeginSim(current_core_cycle', num_retired')
                                  ELSE begin_sim
  /\ sim_access' = IF n = NUM_CPUS THEN none
                                   ELSE [sim_access EXCEPT !["L1D"][i] = @ + x]
  /\ Observe("L1D", i, x)
Reported(i) ==
  /\ finish_sim' = [finish_sim EXCEPT ![i] =
       [instr |-> num_retired'[i] - begin_sim'[i].instr,
        cycle |-> current_core_cycle'[i] - begin_sim'[i].cycle]]
  /\ roi_access' = [c \in Caches |-> [roi_access[c] EXCEPT ![i] = sim_access'[c][i]]]
TurnReports(i, done) ==
  /\ done = Enough(i, all_warmup_complete', num_retired'[i], begin_sim'[i])
  /\ simulation_complete' = [simulation_complete EXCEPT ![i] = @ \/ done]
  /\ IF done THEN Reported(i) ELSE UNCHANGED <<finish_sim, roi_access>>

LEMMA TurnIs ==
  ASSUME SimTypes, NEW i \in Cores, Turn(i)
  PROVE  \E s \in 0 .. RETIRE_WIDTH, x \in 0 .. 1 :
           \E n, done : TurnWarms(i, s, n) /\ TurnCounts(i, s, x, n) /\ TurnReports(i, done)
  <1>1. PICK step \in Steps(i, current_core_cycle[i] + 1) : TurnWith(i, step)
    BY DEF Turn
  <1> DEFINE s == step.retired
             x == step.accesses
             cycles == [current_core_cycle EXCEPT ![i] = @ + 1]
             retired == [num_retired EXCEPT ![i] = @ + step.retired]
             accesses == [sim_access EXCEPT !["L1D"][i] = @ + step.accesses]
             n == all_warmup_complete + IF Warms(i, retired[i]) THEN 1 ELSE 0
             last == IsLast(n)
             begin == IF last THEN BeginSim(cycles, retired) ELSE begin_sim
             counts == IF last THEN Cleared(accesses) ELSE accesses
             done == Enough(i, IF last THEN n + 1 ELSE n, retired[i], begin[i])
  <1>2. s \in 0 .. RETIRE_WIDTH /\ x \in 0 .. 1
    <2>1. RETIRE_WIDTH \in Nat
      BY SimulationAssumption
    <2>2. CASE step \in [retired : 0 .. RETIRE_WIDTH, accesses : 0 .. 1, walk : {FALSE}]
      BY <2>2
    <2>3. CASE step \in {Idle, [Idle EXCEPT !.walk = TRUE]}
      <3>1. step.retired = 0 /\ step.accesses = 0
        BY <2>3 DEF Idle
      <3> QED BY <2>1, <3>1
    <2> QED BY <1>1, <2>2, <2>3 DEF Steps
  <1>3. retired[i] = num_retired[i] + s
    BY DEF SimTypes
  <1>4. /\ current_core_cycle' = cycles /\ num_retired' = retired
        /\ warmup_complete' = [warmup_complete EXCEPT ![i] = @ \/ Warms(i, retired[i])]
        /\ all_warmup_complete' = IF last THEN n + 1 ELSE n
        /\ latencies' = IF last THEN "actual" ELSE latencies
        /\ begin_sim' = begin /\ sim_access' = counts
        /\ simulation_complete' = [simulation_complete EXCEPT ![i] = @ \/ done]
        /\ Observe("L1D", i, x)
    BY <1>1 DEF TurnWith
  <1>5. IF done
        THEN /\ finish_sim' = [finish_sim EXCEPT ![i] =
                  [instr |-> retired[i] - begin[i].instr,
                   cycle |-> cycles[i] - begin[i].cycle]]
             /\ roi_access' = [c \in Caches |-> [roi_access[c] EXCEPT ![i] = counts[c][i]]]
        ELSE UNCHANGED <<finish_sim, roi_access>>
    BY <1>1 DEF TurnWith
  <1>6. TurnWarms(i, s, n)
    <2>1. n = all_warmup_complete + IF Warms(i, num_retired[i] + s) THEN 1 ELSE 0
      BY <1>3
    <2>2. warmup_complete' = [warmup_complete EXCEPT ![i] = @ \/ Warms(i, num_retired[i] + s)]
      BY <1>3, <1>4
    <2>3. last <=> n = NUM_CPUS
      BY DEF IsLast
    <2> HIDE DEF n, last
    <2> QED BY <1>4, <2>1, <2>2, <2>3 DEF TurnWarms
  <1>7. TurnCounts(i, s, x, n)
    <2>1. (last <=> n = NUM_CPUS) /\ Cleared(accesses) = none
      BY DEF IsLast, Cleared
    <2> HIDE DEF n, last
    <2> QED BY <1>4, <2>1 DEF TurnCounts
  <1>8. TurnReports(i, done)
    <2>1. done = Enough(i, all_warmup_complete', num_retired'[i], begin_sim'[i])
      BY <1>4
    <2>2. done => Reported(i)
      BY <1>4, <1>5 DEF Reported
    <2>3. ~done => UNCHANGED <<finish_sim, roi_access>>
      BY <1>5
    <2> HIDE DEF done
    <2> QED BY <1>4, <2>1, <2>2, <2>3 DEF TurnReports
  <1> QED BY <1>2, <1>6, <1>7, <1>8

(* ------------------------------- The phases ------------------------------ *)

LEMMA CoresAre == IsFiniteSet(Cores) /\ Cardinality(Cores) = NUM_CPUS
  <1>1. NUM_CPUS \in Nat \ {0}
    BY SimulationAssumption
  <1>2. 0 \in Int /\ NUM_CPUS - 1 \in Int /\ ~(0 > NUM_CPUS - 1)
    BY <1>1
  <1>3. IsFiniteSet(0 .. NUM_CPUS - 1) /\ Cardinality(0 .. NUM_CPUS - 1) = (NUM_CPUS - 1) - 0 + 1
    BY <1>2, FS_Interval
  <1> QED BY <1>1, <1>3 DEF Cores

\* A set of cores is all of them when it has as many.
LEMMA AllOfThem ==
  ASSUME NEW S \in SUBSET Cores
  PROVE  /\ IsFiniteSet(S) /\ Cardinality(S) \in Nat
         /\ S = Cores <=> Cardinality(S) = NUM_CPUS
  BY CoresAre, FS_Subset, FS_CardinalityType

LEMMA PhasesStep ==
  ASSUME SimTypes, PhasesInv, NEW i \in Cores, NEW s \in Nat, NEW n, TurnWarms(i, s, n)
  PROVE  PhasesInv'
  <1>1. /\ num_retired \in [Cores -> Nat] /\ warmup_complete \in [Cores -> BOOLEAN]
        /\ NUM_CPUS \in Nat /\ warmup_instructions \in Nat
    BY SimulationAssumption DEF SimTypes
  <1>2. /\ num_retired'[i] = num_retired[i] + s
        /\ warmup_complete'[i] <=> warmup_complete[i] \/ Warms(i, num_retired[i] + s)
        /\ \A j \in Cores \ {i} : /\ num_retired'[j] = num_retired[j]
                                  /\ warmup_complete'[j] = warmup_complete[j]
    BY <1>1 DEF TurnWarms
  <1>3. \A j \in Cores : warmup_complete'[j] <=> num_retired'[j] > warmup_instructions
    <2> TAKE j \in Cores
    <2>1. CASE j # i
      BY <1>2, <2>1 DEF PhasesInv
    <2>2. CASE j = i
      BY <1>1, <1>2, <2>2 DEF PhasesInv, Warms
    <2> QED BY <2>1, <2>2
  <1>4. /\ Warm \in SUBSET Cores /\ Warm' \in SUBSET Cores
        /\ i \in Warm <=> warmup_complete[i]
    BY DEF Warm
  <1>5. n = all_warmup_complete + IF Warms(i, num_retired[i] + s) THEN 1 ELSE 0
    BY DEF TurnWarms
  <1>6. /\ all_warmup_complete' = IF n = NUM_CPUS THEN n + 1 ELSE n
        /\ latencies' = IF n = NUM_CPUS THEN "actual" ELSE latencies
    BY DEF TurnWarms
  <1>7. /\ all_warmup_complete = Cardinality(Warm) + IF Warm = Cores THEN 1 ELSE 0
        /\ (latencies = "actual") <=> Warm = Cores
    BY DEF PhasesInv
  <1>8. /\ Cardinality(Warm) \in Nat /\ IsFiniteSet(Warm)
        /\ Warm = Cores <=> Cardinality(Warm) = NUM_CPUS
        /\ Cardinality(Warm') \in Nat
        /\ Warm' = Cores <=> Cardinality(Warm') = NUM_CPUS
    BY <1>4, AllOfThem
  <1>9. /\ all_warmup_complete' = Cardinality(Warm') + IF Warm' = Cores THEN 1 ELSE 0
        /\ (latencies' = "actual") <=> Warm' = Cores
    <2>1. CASE Warms(i, num_retired[i] + s)
      <3>1. i \notin Warm /\ Warm' = Warm \cup {i}
        BY <1>2, <1>4, <2>1 DEF Warms, Warm
      <3>2. Cardinality(Warm') = Cardinality(Warm) + 1
        BY <1>8, <3>1, FS_AddElement
      <3>3. Warm # Cores /\ n = Cardinality(Warm')
        BY <1>5, <1>7, <1>8, <2>1, <3>1, <3>2
      <3> QED BY <1>6, <1>7, <1>8, <3>3
    <2>2. CASE ~Warms(i, num_retired[i] + s)
      <3>1. Warm' = Warm
        BY <1>2, <2>2 DEF Warm
      <3>2. n = all_warmup_complete /\ n # NUM_CPUS
        BY <1>1, <1>5, <1>7, <1>8, <2>2
      <3> QED BY <1>6, <1>7, <3>1, <3>2
    <2> QED BY <2>1, <2>2
  <1> QED BY <1>3, <1>9 DEF PhasesInv

LEMMA PhasesMean ==
  ASSUME SimTypes, PhasesInv
  PROVE  /\ PhasesAgree
         /\ AllWarm <=> Warm = Cores
         /\ all_warmup_complete \in Nat
  <1>1. Warm \in SUBSET Cores /\ NUM_CPUS \in Nat
    BY SimulationAssumption DEF Warm
  <1>2. /\ Cardinality(Warm) \in Nat /\ Cardinality(Warm) <= NUM_CPUS
        /\ Warm = Cores <=> Cardinality(Warm) = NUM_CPUS
    BY <1>1, AllOfThem, CoresAre, FS_Subset
  <1>3. AllWarm <=> Warm = Cores
    BY DEF AllWarm, PhasesInv, Warm
  <1>4. /\ all_warmup_complete = Cardinality(Warm) + IF Warm = Cores THEN 1 ELSE 0
        /\ (latencies = "actual") <=> Warm = Cores
    BY DEF PhasesInv
  <1>5. /\ all_warmup_complete > NUM_CPUS <=> Warm = Cores
        /\ all_warmup_complete < NUM_CPUS <=> Warm # Cores
        /\ all_warmup_complete \in Nat
    BY <1>1, <1>2, <1>4
  <1> QED BY <1>3, <1>4, <1>5 DEF PhasesAgree

(* -------------------------------- The types ------------------------------ *)

\* What it is to add x to one of the counts that are kept per cache and core.
LEMMA Added ==
  ASSUME NEW w \in [Caches -> [Cores -> Nat]], NEW c \in Caches, NEW i \in Cores,
         NEW x \in Nat, NEW v, v = [w EXCEPT ![c][i] = @ + x]
  PROVE  /\ v \in [Caches -> [Cores -> Nat]]
         /\ v[c][i] = w[c][i] + x
         /\ \A d \in Caches, j \in Cores : d # c \/ j # i => v[d][j] = w[d][j]
  OBVIOUS

LEMMA Observed ==
  ASSUME SimTypes, NEW c \in Caches, NEW i \in Cores, NEW x \in Nat, Observe(c, i, x)
  PROVE  /\ window' \in [Caches -> [Cores -> Nat]]
         /\ AllWarm /\ ~simulation_complete[i] => window'[c][i] = window[c][i] + x
         /\ ~AllWarm \/ simulation_complete[i] => window' = window
         /\ \A d \in Caches, j \in Cores : d # c \/ j # i => window'[d][j] = window[d][j]
  <1>1. CASE AllWarm /\ ~simulation_complete[i]
    <2>1. window' = [window EXCEPT ![c][i] = @ + x]
      BY <1>1 DEF Observe
    <2> QED BY <1>1, <2>1, Added DEF SimTypes
  <1>2. CASE ~AllWarm \/ simulation_complete[i]
    BY <1>2 DEF Observe, SimTypes
  <1> QED BY <1>1, <1>2

LEMMA TurnTypes ==
  ASSUME SimTypes, NEW i \in Cores, NEW s \in Nat, NEW x \in Nat, NEW n, NEW done,
         TurnWarms(i, s, n), TurnCounts(i, s, x, n), TurnReports(i, done)
  PROVE  SimTypes'
  <1>1. num_retired' \in [Cores -> Nat] /\ current_core_cycle' \in [Cores -> Nat]
    BY DEF SimTypes, TurnWarms, TurnCounts
  <1>2. warmup_complete' \in [Cores -> BOOLEAN] /\ simulation_complete' \in [Cores -> BOOLEAN]
    BY DEF SimTypes, TurnWarms, TurnReports
  <1>3. begin_sim' \in [Cores -> [instr : Nat, cycle : Nat]]
    BY <1>1 DEF SimTypes, TurnCounts, BeginSim
  <1>4. sim_access' \in [Caches -> [Cores -> Nat]]
    <2>1. "L1D" \in Caches
      BY DEF Caches
    <2>2. [sim_access EXCEPT !["L1D"][i] = @ + x] \in [Caches -> [Cores -> Nat]]
      BY <2>1, Added DEF SimTypes
    <2>3. none \in [Caches -> [Cores -> Nat]]
      BY DEF none
    <2> QED BY <2>2, <2>3 DEF TurnCounts
  <1>5. window' \in [Caches -> [Cores -> Nat]]
    BY Observed DEF TurnCounts, Caches
  <1>6. finish_sim' \in [Cores -> [instr : Int, cycle : Int]]
    <2>1. num_retired'[i] \in Int /\ begin_sim'[i].instr \in Int
          /\ current_core_cycle'[i] \in Int /\ begin_sim'[i].cycle \in Int
      BY <1>1, <1>3
    <2>2. ASSUME NEW a \in Int, NEW b \in Int PROVE a - b \in Int
      OBVIOUS
    <2>3. num_retired'[i] - begin_sim'[i].instr \in Int
          /\ current_core_cycle'[i] - begin_sim'[i].cycle \in Int
      BY <2>1, <2>2
    <2>4. CASE done
      <3>1. [instr |-> num_retired'[i] - begin_sim'[i].instr,
             cycle |-> current_core_cycle'[i] - begin_sim'[i].cycle]
              \in [instr : Int, cycle : Int]
        BY <2>3
      <3> QED BY <2>4, <3>1 DEF SimTypes, TurnReports, Reported
    <2>5. CASE ~done
      BY <2>5 DEF SimTypes, TurnReports
    <2> QED BY <2>4, <2>5
  <1>7. roi_access' \in [Caches -> [Cores -> Nat]]
    BY <1>4 DEF SimTypes, TurnReports, Reported
  <1> QED BY <1>1, <1>2, <1>3, <1>4, <1>5, <1>6, <1>7 DEF SimTypes

(* -------------------------- The region of interest ----------------------- *)

\* Until all are warm nothing is counted and nobody is complete.
Quiet == ~AllWarm => window = none /\ \A i \in Cores : ~simulation_complete[i]
\* A core whose region has begun and not ended.
Measured(i) ==
  /\ \A c \in Caches : sim_access[c][i] = window[c][i]
  /\ begin_sim[i].instr <= num_retired[i]
  /\ num_retired[i] < begin_sim[i].instr + simulation_instructions
  /\ begin_sim[i].cycle <= current_core_cycle[i]
  /\ num_retired[i] - begin_sim[i].instr
       <= RETIRE_WIDTH * (current_core_cycle[i] - begin_sim[i].cycle)
\* A core whose region has ended.
Reports(i) ==
  /\ finish_sim[i].instr \in simulation_instructions
                               .. simulation_instructions + RETIRE_WIDTH - 1
  /\ finish_sim[i].instr <= RETIRE_WIDTH * finish_sim[i].cycle
  /\ \A c \in Caches : roi_access[c][i] = window[c][i]
RoiInv ==
  /\ Quiet
  /\ \A i \in Cores : AllWarm /\ ~simulation_complete[i] => Measured(i)
  /\ \A i \in Cores : simulation_complete[i] => Reports(i)

LEMMA Constants ==
  /\ NUM_CPUS \in Nat \ {0} /\ simulation_instructions \in Nat \ {0}
  /\ RETIRE_WIDTH \in Nat \ {0} /\ warmup_instructions \in Nat
  BY SimulationAssumption

\* The turn in which the last core warms up is the one with n at NUM_CPUS.
LEMMA LastTurn ==
  ASSUME SimTypes, SimTypes', PhasesInv, PhasesInv',
         NEW i \in Cores, NEW s \in Nat, NEW n, TurnWarms(i, s, n)
  PROVE  /\ AllWarm => AllWarm'
         /\ n = NUM_CPUS <=> ~AllWarm /\ AllWarm'
         /\ AllWarm' <=> all_warmup_complete' > NUM_CPUS
  <1>1. /\ AllWarm <=> all_warmup_complete > NUM_CPUS
        /\ ~AllWarm <=> all_warmup_complete < NUM_CPUS
        /\ all_warmup_complete \in Nat
    BY PhasesMean DEF PhasesAgree
  <1>2. /\ AllWarm' <=> all_warmup_complete' > NUM_CPUS
        /\ ~AllWarm' <=> all_warmup_complete' < NUM_CPUS
        /\ all_warmup_complete' \in Nat
    <2>1. PhasesAgree' /\ (all_warmup_complete \in Nat)'
      BY PhasesMean, PTL
    <2> QED BY <2>1 DEF PhasesAgree
  <1>3. /\ n = all_warmup_complete + IF Warms(i, num_retired[i] + s) THEN 1 ELSE 0
        /\ all_warmup_complete' = IF n = NUM_CPUS THEN n + 1 ELSE n
    BY DEF TurnWarms
  <1> QED BY <1>1, <1>2, <1>3, Constants

\* One cycle more, in which at most width instructions retire.
LEMMA RateKept ==
  ASSUME NEW width \in Nat, NEW instr \in Int, NEW cycle \in Int,
         NEW s \in 0 .. width, instr <= width * cycle
  PROVE  instr + s <= width * (cycle + 1)
  <1>1. width * (cycle + 1) = width * cycle + width
    OBVIOUS
  <1>2. ASSUME NEW p \in Int, NEW q \in Int, instr <= p, q = p + width
        PROVE  instr + s <= q
    BY <1>2
  <1> QED BY <1>1, <1>2

\* One turn more of a core whose region has begun at b and bk.
LEMMA GoesOn ==
  ASSUME NEW r \in Nat, NEW b \in Nat, NEW k \in Nat, NEW bk \in Nat,
         NEW s \in 0 .. RETIRE_WIDTH,
         b <= r, r < b + simulation_instructions, bk <= k, r - b <= RETIRE_WIDTH * (k - bk)
  PROVE  /\ b <= r + s /\ bk <= k + 1
         /\ r + s - b <= RETIRE_WIDTH * (k + 1 - bk)
         /\ r + s >= b + simulation_instructions =>
              r + s - b \in simulation_instructions
                              .. simulation_instructions + RETIRE_WIDTH - 1
  <1>1. RETIRE_WIDTH \in Nat /\ r - b \in Int /\ k - bk \in Int
    BY Constants
  <1>2. r - b + s <= RETIRE_WIDTH * (k - bk + 1)
    BY <1>1, RateKept
  <1>3. r - b + s = r + s - b /\ k - bk + 1 = k + 1 - bk
    BY <1>1
  <1>4. r + s - b <= RETIRE_WIDTH * (k + 1 - bk)
    BY <1>2, <1>3
  <1> QED BY <1>4, Constants

LEMMA RoiTurn ==
  ASSUME SimTypes, SimTypes', PhasesInv, PhasesInv', RoiInv,
         NEW i \in Cores, NEW s \in 0 .. RETIRE_WIDTH, NEW x \in 0 .. 1, NEW n, NEW done,
         TurnWarms(i, s, n), TurnCounts(i, s, x, n), TurnReports(i, done)
  PROVE  RoiInv'
  <1>1. s \in Nat /\ x \in Nat /\ "L1D" \in Caches
    BY Constants DEF Caches
  <1>2. /\ AllWarm => AllWarm'
        /\ n = NUM_CPUS <=> ~AllWarm /\ AllWarm'
        /\ AllWarm' <=> all_warmup_complete' > NUM_CPUS
    BY <1>1, LastTurn
  <1>3. /\ num_retired'[i] = num_retired[i] + s
        /\ current_core_cycle'[i] = current_core_cycle[i] + 1
        /\ simulation_complete'[i] <=> simulation_complete[i] \/ done
        /\ \A j \in Cores \ {i} :
             /\ num_retired'[j] = num_retired[j]
             /\ current_core_cycle'[j] = current_core_cycle[j]
             /\ simulation_complete'[j] <=> simulation_complete[j]
    BY DEF SimTypes, TurnWarms, TurnCounts, TurnReports
  <1>4. done <=> /\ all_warmup_complete' > NUM_CPUS /\ ~simulation_complete[i]
                 /\ num_retired'[i] >= begin_sim'[i].instr + simulation_instructions
    BY DEF TurnReports, Enough
  <1>5. /\ AllWarm /\ ~simulation_complete[i] => window'["L1D"][i] = window["L1D"][i] + x
        /\ ~AllWarm \/ simulation_complete[i] => window' = window
        /\ \A c \in Caches, j \in Cores : c # "L1D" \/ j # i => window'[c][j] = window[c][j]
    BY <1>1, Observed DEF TurnCounts
  <1>6. CASE ~AllWarm'
    <2>1. ~AllWarm /\ ~done
      BY <1>2, <1>4, <1>6
    <2>2. window' = none /\ \A j \in Cores : ~simulation_complete'[j]
      BY <1>3, <1>5, <2>1 DEF RoiInv, Quiet
    <2> QED BY <1>6, <2>2 DEF RoiInv, Quiet
  <1>7. CASE ~AllWarm /\ AllWarm'
    <2>1. n = NUM_CPUS /\ window' = none
      BY <1>2, <1>5, <1>7 DEF RoiInv, Quiet
    <2>2. /\ \A j \in Cores : /\ begin_sim'[j].instr = num_retired'[j]
                              /\ begin_sim'[j].cycle = current_core_cycle'[j]
          /\ sim_access' = none
      BY <2>1 DEF TurnCounts, BeginSim
    <2>3. ASSUME NEW r \in Nat PROVE ~(r >= r + simulation_instructions) /\ r - r = 0
                                     /\ r < r + simulation_instructions
                                     /\ r <= r /\ RETIRE_WIDTH * 0 = 0
      BY Constants
    <2>4. \A j \in Cores : num_retired'[j] \in Nat /\ current_core_cycle'[j] \in Nat
      BY DEF SimTypes
    <2>5. ~done
      BY <1>4, <2>2, <2>3, <2>4
    <2>6. \A j \in Cores : ~simulation_complete'[j]
      BY <1>3, <1>7, <2>5 DEF RoiInv, Quiet
    <2>7. \A j \in Cores : Measured(j)'
      <3> SUFFICES ASSUME NEW j \in Cores PROVE Measured(j)'
        OBVIOUS
      <3>1. /\ \A c \in Caches : sim_access'[c][j] = window'[c][j]
            /\ num_retired'[j] - begin_sim'[j].instr = 0
            /\ current_core_cycle'[j] - begin_sim'[j].cycle = 0
        BY <2>1, <2>2, <2>3, <2>4
      <3>2. /\ begin_sim'[j].instr <= num_retired'[j]
            /\ num_retired'[j] < begin_sim'[j].instr + simulation_instructions
            /\ begin_sim'[j].cycle <= current_core_cycle'[j]
        BY <2>2, <2>3, <2>4
      <3>3. 0 <= RETIRE_WIDTH * 0
        BY Constants
      <3> QED BY <3>1, <3>2, <3>3 DEF Measured
    <2> QED BY <1>7, <2>6, <2>7 DEF RoiInv, Quiet
  <1>8. CASE AllWarm
    <2>1. AllWarm' /\ n # NUM_CPUS
      BY <1>2, <1>8
    <2>2. begin_sim' = begin_sim /\ sim_access' = [sim_access EXCEPT !["L1D"][i] = @ + x]
      BY <2>1 DEF TurnCounts
    <2>3. /\ sim_access'["L1D"][i] = sim_access["L1D"][i] + x
          /\ \A c \in Caches, j \in Cores :
               c # "L1D" \/ j # i => sim_access'[c][j] = sim_access[c][j]
      BY <1>1, <2>2, Added DEF SimTypes
    <2>4. ASSUME NEW j \in Cores \ {i}
          PROVE  /\ ~simulation_complete'[j] => Measured(j)'
                 /\ simulation_complete'[j] => Reports(j)'
      <3>1. \A c \in Caches : /\ sim_access'[c][j] = sim_access[c][j]
                              /\ window'[c][j] = window[c][j]
        BY <1>5, <2>3
      <3>2. CASE ~simulation_complete'[j]
        <4>1. Measured(j)
          BY <1>3, <1>8, <3>2 DEF RoiInv
        <4>2. Measured(j)'
          BY <1>3, <2>2, <3>1, <4>1 DEF Measured
        <4> QED BY <3>2, <4>2
      <3>3. CASE simulation_complete'[j]
        <4>1. Reports(j)
          BY <1>3, <3>3 DEF RoiInv
        <4>2. finish_sim'[j] = finish_sim[j]
              /\ \A c \in Caches : roi_access'[c][j] = roi_access[c][j]
          BY DEF TurnReports, Reported, SimTypes
        <4>3. Reports(j)'
          BY <3>1, <4>1, <4>2 DEF Reports
        <4> QED BY <3>3, <4>3
      <3> QED BY <3>2, <3>3
    <2>5. CASE simulation_complete[i]
      <3>1. Reports(i) /\ ~done
        BY <1>4, <2>5 DEF RoiInv
      <3>2. finish_sim' = finish_sim /\ roi_access' = roi_access /\ window' = window
        BY <1>5, <2>5, <3>1 DEF TurnReports
      <3> QED BY <1>3, <2>1, <2>4, <2>5, <3>1, <3>2 DEF RoiInv, Quiet, Reports
    <2>6. CASE ~simulation_complete[i]
      <3>1. Measured(i)
        BY <1>8, <2>6 DEF RoiInv
      <3>2. \A c \in Caches : sim_access'[c][i] = window'[c][i]
        BY <1>5, <1>8, <2>3, <2>6, <3>1 DEF Measured
      <3> DEFINE r == num_retired[i]
                 k == current_core_cycle[i]
                 b == begin_sim[i].instr
                 bk == begin_sim[i].cycle
      <3>3. r \in Nat /\ k \in Nat /\ b \in Nat /\ bk \in Nat
        BY DEF SimTypes
      <3>4. /\ b <= r /\ r < b + simulation_instructions /\ bk <= k
            /\ r - b <= RETIRE_WIDTH * (k - bk)
        BY <3>1 DEF Measured
      <3>5. /\ num_retired'[i] = r + s /\ current_core_cycle'[i] = k + 1
            /\ begin_sim'[i].instr = b /\ begin_sim'[i].cycle = bk
        BY <1>3, <2>2
      <3>6. done <=> r + s >= b + simulation_instructions
        BY <1>2, <1>4, <2>1, <2>6, <3>5
      <3> HIDE DEF r, k, b, bk
      <3>7. /\ b <= r + s /\ bk <= k + 1 /\ r + s - b <= RETIRE_WIDTH * (k + 1 - bk)
            /\ r + s >= b + simulation_instructions =>
                 r + s - b \in simulation_instructions
                                 .. simulation_instructions + RETIRE_WIDTH - 1
        BY <3>3, <3>4, GoesOn
      <3>8. ~done => Measured(i)'
        <4> SUFFICES ASSUME ~done PROVE Measured(i)'
          OBVIOUS
        <4>1. r + s < b + simulation_instructions
          BY <3>3, <3>6, <1>1, Constants
        <4>2. /\ begin_sim'[i].instr <= num_retired'[i]
              /\ num_retired'[i] < begin_sim'[i].instr + simulation_instructions
              /\ begin_sim'[i].cycle <= current_core_cycle'[i]
          BY <3>5, <3>7, <4>1
        <4>3. num_retired'[i] - begin_sim'[i].instr
                <= RETIRE_WIDTH * (current_core_cycle'[i] - begin_sim'[i].cycle)
          <5>1. /\ num_retired'[i] - begin_sim'[i].instr = r + s - b
                /\ current_core_cycle'[i] - begin_sim'[i].cycle = k + 1 - bk
            BY <1>1, <3>3, <3>5
          <5> QED BY <3>7, <5>1
        <4> QED BY <3>2, <4>2, <4>3 DEF Measured
      <3>9. done => Reports(i)'
        <4> SUFFICES ASSUME done PROVE Reports(i)'
          OBVIOUS
        <4>1. Reported(i)
          BY DEF TurnReports
        <4>2. \A c \in Caches : roi_access'[c][i] = sim_access'[c][i]
          BY <4>1 DEF Reported, SimTypes
        <4>3. finish_sim'[i] = [instr |-> num_retired'[i] - begin_sim'[i].instr,
                                cycle |-> current_core_cycle'[i] - begin_sim'[i].cycle]
          BY <4>1 DEF Reported, SimTypes
        <4>4. /\ finish_sim'[i].instr = r + s - b
              /\ finish_sim'[i].cycle = k + 1 - bk
          BY <1>1, <3>3, <3>5, <4>3
        <4> QED BY <3>2, <3>6, <3>7, <4>2, <4>4 DEF Reports
      <3> QED BY <1>3, <2>1, <2>4, <2>6, <3>8, <3>9 DEF RoiInv, Quiet
    <2> QED BY <2>5, <2>6
  <1> QED BY <1>6, <1>7, <1>8

LEMMA RoiShared ==
  ASSUME SimTypes, PhasesInv, RoiInv, Shared
  PROVE  SimTypes' /\ PhasesInv' /\ RoiInv'
  <1>1. PICK i \in Cores, x \in 0 .. 1 :
          /\ sim_access' = [sim_access EXCEPT !["LLC"][i] = @ + x]
          /\ Observe("LLC", i, x)
    BY DEF Shared
  <1>2. UNCHANGED <<current_core_cycle, num_retired, warmup_complete, all_warmup_complete,
                    latencies, begin_sim, simulation_complete, finish_sim, roi_access>>
    BY DEF Shared
  <1>3. x \in Nat /\ "LLC" \in Caches
    BY DEF Caches
  <1>4. /\ sim_access' \in [Caches -> [Cores -> Nat]]
        /\ sim_access'["LLC"][i] = sim_access["LLC"][i] + x
        /\ \A c \in Caches, j \in Cores :
             c # "LLC" \/ j # i => sim_access'[c][j] = sim_access[c][j]
    BY <1>1, <1>3, Added DEF SimTypes
  <1>5. /\ window' \in [Caches -> [Cores -> Nat]]
        /\ AllWarm /\ ~simulation_complete[i] => window'["LLC"][i] = window["LLC"][i] + x
        /\ ~AllWarm \/ simulation_complete[i] => window' = window
        /\ \A c \in Caches, j \in Cores : c # "LLC" \/ j # i => window'[c][j] = window[c][j]
    BY <1>1, <1>3, Observed
  <1>6. SimTypes'
    BY <1>2, <1>4, <1>5 DEF SimTypes
  <1>7. PhasesInv'
    BY <1>2 DEF PhasesInv, Warm
  <1>8. AllWarm' <=> AllWarm
    BY <1>2 DEF AllWarm
  <1>9. Quiet'
    BY <1>2, <1>5, <1>8 DEF RoiInv, Quiet
  <1>10. ASSUME NEW j \in Cores, AllWarm, ~simulation_complete[j] PROVE Measured(j)'
    <2>1. Measured(j)
      BY <1>10 DEF RoiInv
    <2>2. \A c \in Caches : sim_access'[c][j] = window'[c][j]
      BY <1>4, <1>5, <1>10, <2>1 DEF Measured
    <2> QED BY <1>2, <2>1, <2>2 DEF Measured
  <1>11. ASSUME NEW j \in Cores, simulation_complete[j] PROVE Reports(j)'
    <2>1. Reports(j) /\ \A c \in Caches : window'[c][j] = window[c][j]
      BY <1>5, <1>11 DEF RoiInv
    <2> QED BY <1>2, <2>1 DEF Reports
  <1>12. RoiInv'
    BY <1>2, <1>8, <1>9, <1>10, <1>11 DEF RoiInv
  <1> QED BY <1>6, <1>7, <1>12

(* ------------------------------ The theorems ----------------------------- *)

LEMMA SimInitInv == SimInit => SimTypes /\ PhasesInv /\ RoiInv
  <1> SUFFICES ASSUME SimInit PROVE SimTypes /\ PhasesInv /\ RoiInv
    OBVIOUS
  <1>1. SimTypes
    BY Constants DEF SimInit, SimTypes, none
  <1>2. Cores # {}
    BY CoresAre, Constants, FS_EmptySet
  <1>3. Warm = {} /\ Warm # Cores /\ Cardinality(Warm) = 0
    BY <1>2, FS_EmptySet DEF Warm, SimInit
  <1>4. \A i \in Cores : ~(num_retired[i] > warmup_instructions)
    BY Constants DEF SimInit
  <1>5. PhasesInv
    BY <1>3, <1>4 DEF PhasesInv, SimInit
  <1>6. ~AllWarm
    BY <1>2, <1>4 DEF AllWarm
  <1>7. RoiInv
    BY <1>6 DEF RoiInv, Quiet, SimInit
  <1> QED BY <1>1, <1>5, <1>7

LEMMA SimStepInv ==
  SimTypes /\ PhasesInv /\ RoiInv /\ [SimNext]_simulationVars => (SimTypes /\ PhasesInv /\ RoiInv)'
  <1> SUFFICES ASSUME SimTypes, PhasesInv, RoiInv, [SimNext]_simulationVars
               PROVE  SimTypes' /\ PhasesInv' /\ RoiInv'
    OBVIOUS
  <1>1. CASE UNCHANGED coreVars
    BY <1>1 DEF coreVars, SimTypes, PhasesInv, RoiInv, Warm, AllWarm, Quiet, Measured, Reports
  <1>2. CASE OpenTrace \/ Start \/ UNCHANGED simulationVars
    BY <1>1, <1>2 DEF OpenTrace, Start, simulationVars
  <1>3. ASSUME NEW i \in Cores, Turn(i) PROVE SimTypes' /\ PhasesInv' /\ RoiInv'
    <2>1. PICK s \in 0 .. RETIRE_WIDTH, x \in 0 .. 1 : \E n, done :
            TurnWarms(i, s, n) /\ TurnCounts(i, s, x, n) /\ TurnReports(i, done)
      BY <1>3, TurnIs
    <2>2. PICK n, done :
            TurnWarms(i, s, n) /\ TurnCounts(i, s, x, n) /\ TurnReports(i, done)
      BY <2>1
    <2>3. s \in Nat /\ x \in Nat
      BY Constants
    <2>4. SimTypes'
      BY <2>2, <2>3, TurnTypes
    <2>5. PhasesInv'
      BY <2>2, <2>3, PhasesStep
    <2> QED BY <2>2, <2>4, <2>5, RoiTurn
  <1>4. CASE Shared
    BY <1>4, RoiShared
  <1> QED BY <1>2, <1>3, <1>4 DEF SimNext

\* For every number of cores and every warm-up, the three places that ask
\* whether the warm-up is over agree, and it is over when every core has
\* retired its instructions (main.cc:810-868, finish_warmup).
THEOREM PhasesTheorem == SimSpec => []PhasesAgree
  BY SimInitInv, SimStepInv, PhasesMean, PTL DEF SimSpec

\* For every number of cores, what is reported of a core is its region of
\* interest: its instructions, no more of them than RETIRE_WIDTH a cycle, and
\* just the accesses made in the region (main.cc:845-868, record_roi_stats).
THEOREM RoiTheorem == SimSpec => []RoiIsTheWindow
  <1>1. RoiInv => RoiIsTheWindow
    BY DEF RoiInv, RoiIsTheWindow, Reports
  <1> QED BY <1>1, SimInitInv, SimStepInv, PTL DEF SimSpec
=============================================================================
