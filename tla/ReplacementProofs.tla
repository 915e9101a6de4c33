------------------------- MODULE ReplacementProofs -------------------------
(***************************************************************************)
(* Proofs about the policies that replace a line, for every associativity: *)
(* LRU keeps the lines in their order of use, the re-reference policies    *)
(* predict within their range, SHiP's sampler has one entry for a line.    *)
(***************************************************************************)
EXTENDS MCDevices, WellFoundedInduction, FiniteSetTheorems, TLAPS

\* Every set of natural numbers up to a bound has a greatest element, and a least one.
LEMMA LeastOf ==
  ASSUME NEW S, S \subseteq Nat, S # {}
  PROVE  \E x \in S : \A y \in S : x <= y
<1>1. IsWellFoundedOn(OpToRel(<, Nat), Nat)
  BY NatLessThanWellFounded
<1>2. \E x \in S : \A y \in S : ~ (<<y, x>> \in OpToRel(<, Nat))
  BY ONLY <1>1, S \subseteq Nat, S # {}, WFMin
<1>3. PICK x \in S : \A y \in S : ~ (<<y, x>> \in OpToRel(<, Nat))
  BY <1>2
<1>4. ASSUME NEW y \in S PROVE x <= y
  <2>1. y \in Nat /\ x \in Nat
    OBVIOUS
  <2>2. ~ (y < x)
    BY <1>3, <2>1 DEF OpToRel
  <2>. QED BY <2>1, <2>2
<1>. QED BY <1>4

LEMMA GreatestOf ==
  ASSUME NEW n \in Nat, NEW S, S \subseteq 0 .. n, S # {}
  PROVE  \E x \in S : \A y \in S : y <= x
<1>. DEFINE T == {m \in Nat : n - m \in S}
<1>1. PICK z \in S : TRUE
  OBVIOUS
<1>2. \A y \in S : y \in Nat /\ n - y \in Nat /\ n - (n - y) = y
  OBVIOUS
<1>3. \A y \in S : n - y \in T
  BY <1>2
<1>4. T \subseteq Nat /\ T # {}
  BY <1>1, <1>3
<1>5. PICK t \in T : \A u \in T : t <= u
  BY <1>4, LeastOf
<1>6. n - t \in S /\ t \in Nat
  OBVIOUS
<1>7. ASSUME NEW y \in S PROVE y <= n - t
  <2>1. t <= n - y
    BY <1>3, <1>5
  <2>. QED BY <1>2, <1>6, <2>1
<1>. QED BY <1>6, <1>7

-----------------------------------------------------------------------------
(* LRU.                                                                    *)

\* TypeOK and RanksTaken together are inductive; VictimExists and the
\* refinement follow from them.
IInv == TypeOK /\ RanksTaken

LEMMA WayIsRange ==
  /\ NUM_WAY \in Nat /\ NUM_WAY > 0
  /\ \A n : n \in Way <=> n \in Int /\ 0 <= n /\ n < NUM_WAY
BY NumWayAssumption DEF Way

\* Two ranks differ by the order of the integers.
LEMMA LruIsInt == ASSUME TypeOK, NEW v \in Way
                  PROVE  lru[v] \in Int /\ 0 <= lru[v] /\ lru[v] < NUM_WAY
<1>1. lru[v] \in Way BY DEF TypeOK
<1>. QED BY <1>1, WayIsRange

\* lru_update, way by way.
LEMMA LruUpdateAt ==
  ASSUME TypeOK, NEW w \in Way, NEW v \in Way
  PROVE  /\ LruUpdate(w)[w] = 0
         /\ v # w /\ lru[v] < lru[w] => LruUpdate(w)[v] = lru[v] + 1
         /\ v # w /\ ~(lru[v] < lru[w]) => LruUpdate(w)[v] = lru[v]
BY DEF LruUpdate

\* lru_update keeps the counters within the ranks and every rank taken.
LEMMA LruUpdateKeepsRanks ==
  ASSUME IInv, NEW w \in Way
  PROVE  /\ LruUpdate(w) \in [Way -> Way]
         /\ \A r \in Way : \E v \in Way : LruUpdate(w)[v] = r
<1>. USE DEF IInv
<1>1. ASSUME NEW v \in Way PROVE LruUpdate(w)[v] \in Way
  <2>1. LruUpdate(w)[v] \in Int /\ 0 <= LruUpdate(w)[v] /\ LruUpdate(w)[v] < NUM_WAY
    BY LruUpdateAt, LruIsInt, WayIsRange
  <2>. QED BY <2>1, WayIsRange
<1>2. LruUpdate(w) \in [Way -> Way]
  BY <1>1 DEF LruUpdate
<1>3. ASSUME NEW r \in Way
      PROVE  \E v \in Way : LruUpdate(w)[v] = r
  <2>0. r \in Int /\ 0 <= r /\ r < NUM_WAY
    BY WayIsRange
  <2>1. CASE r = 0
    BY <2>1, LruUpdateAt
  <2>2. CASE r > 0 /\ r <= lru[w]
    <3>0. r - 1 \in Way
      BY <2>0, <2>2, WayIsRange
    <3>1. PICK v \in Way : lru[v] = r - 1
      BY <3>0 DEF RanksTaken
    <3>2. v # w /\ lru[v] < lru[w]
      BY <2>0, <2>2, <3>1, LruIsInt
    <3>. QED BY <2>0, <3>1, <3>2, LruUpdateAt
  <2>3. CASE r > lru[w]
    <3>1. PICK v \in Way : lru[v] = r
      BY DEF RanksTaken
    <3>2. v # w /\ ~(lru[v] < lru[w])
      BY <2>0, <2>3, <3>1, LruIsInt
    <3>. QED BY <3>1, <3>2, LruUpdateAt
  <2>. QED BY <2>0, <2>1, <2>2, <2>3, LruIsInt
<1>. QED BY <1>2, <1>3

LEMMA InitIInv == Init => IInv
<1>. SUFFICES ASSUME Init PROVE IInv
  OBVIOUS
<1>1. lru = [w \in Way |-> w] /\ valid = [w \in Way |-> FALSE]
  BY DEF Init
<1>. QED BY <1>1 DEF IInv, TypeOK, RanksTaken

\* Whatever the access, the counters stay a ranking.
LEMMA UpdateKeepsIInv ==
  ASSUME IInv, NEW w \in Way, NEW type, NEW hit,
         UpdateReplacementState(w, type, hit)
  PROVE  lru' \in [Way -> Way] /\ RanksTaken'
<1>1. CASE type = "WRITEBACK" /\ hit
  BY <1>1 DEF UpdateReplacementState, IInv, TypeOK, RanksTaken
<1>2. CASE ~(type = "WRITEBACK" /\ hit)
  <2>1. lru' = LruUpdate(w)
    BY <1>2 DEF UpdateReplacementState
  <2>. QED BY <2>1, LruUpdateKeepsRanks DEF RanksTaken
<1>. QED BY <1>1, <1>2

LEMMA NextIInv == IInv /\ [Next]_vars => IInv'
<1>. SUFFICES ASSUME IInv, [Next]_vars PROVE IInv'
  OBVIOUS
<1>. USE DEF IInv, TypeOK
<1>1. ASSUME NEW w \in Way, NEW type \in AccessType, Hit(w, type)
      PROVE  IInv'
  BY <1>1, UpdateKeepsIInv DEF Hit
<1>2. ASSUME NEW w \in Way, NEW type \in AccessType, Fill(w, type)
      PROVE  IInv'
  BY <1>2, UpdateKeepsIInv DEF Fill
<1>3. ASSUME NEW w \in Way, Invalidate(w)
      PROVE  IInv'
  BY <1>3 DEF Invalidate, RanksTaken
<1>4. CASE UNCHANGED vars
  BY <1>4 DEF vars, RanksTaken
<1>. QED BY <1>1, <1>2, <1>3, <1>4 DEF Next

\* The counters of every set stay ranks, and every rank is taken.
THEOREM RanksTheorem == Spec => [](TypeOK /\ RanksTaken)
<1>1. Init => IInv BY InitIInv
<1>2. IInv /\ [Next]_vars => IInv' BY NextIInv
<1>3. IInv <=> TypeOK /\ RanksTaken BY DEF IInv
<1>. QED BY <1>1, <1>2, <1>3, PTL DEF Spec

\* Every nonempty set of ways has a first one.
LEMMA FirstWay ==
  ASSUME NEW S, S \subseteq Way, S # {}
  PROVE  \E w \in S : \A v \in S : w <= v
<1>1. Way \subseteq Nat
  BY WayIsRange
<1>2. IsWellFoundedOn(OpToRel(<, Nat), Nat)
  BY NatLessThanWellFounded
<1>3. PICK w \in S : \A v \in S : ~ (<<v, w>> \in OpToRel(<, Nat))
  BY <1>1, <1>2, WFMin
<1>4. ASSUME NEW v \in S PROVE w <= v
  <2>1. v \in Nat /\ w \in Nat
    BY <1>1
  <2>2. ~ (v < w)
    BY <1>3, <2>1 DEF OpToRel
  <2>. QED BY <2>1, <2>2
<1>. QED BY <1>4

LEMMA RanksGiveVictim == IInv => VictimExists
<1>. SUFFICES ASSUME IInv PROVE LruVictims # {}
  BY DEF VictimExists
<1>. DEFINE free == {w \in Way : ~valid[w]}
            old  == {w \in Way : lru[w] = NUM_WAY - 1}
            from == IF free # {} THEN free ELSE old
<1>1. NUM_WAY - 1 \in Way
  BY WayIsRange
<1>2. old # {}
  BY <1>1 DEF IInv, RanksTaken
<1>3. from \subseteq Way /\ from # {}
  BY <1>2
<1>4. PICK w \in from : \A v \in from : w <= v
  BY <1>3, FirstWay
<1>5. w \in LruVictims
  BY <1>4 DEF LruVictims
<1>. QED BY <1>5

\* lru_victim finds a way in every reachable state: the assertion "no
\* victim!" never fails, for every associativity.
THEOREM VictimTheorem == Spec => []VictimExists
<1>1. IInv <=> TypeOK /\ RanksTaken BY DEF IInv
<1>. QED BY <1>1, RanksTheorem, RanksGiveVictim, PTL

-----------------------------------------------------------------------------
(* The refinement of RecencyOrder.                                         *)

\* As many ranks as ways: no two ways share one.
LEMMA RanksDiffer ==
  ASSUME IInv, NEW v \in Way, NEW w \in Way, v # w
  PROVE  lru[v] # lru[w]
<1>1. lru \in Surjection(Way, Way)
  BY DEF IInv, TypeOK, RanksTaken, Surjection
<1>2. IsFiniteSet(Way)
  <2>1. 0 \in Int /\ NUM_WAY - 1 \in Int
    BY WayIsRange
  <2>. QED BY <2>1, FS_Interval DEF Way
<1>3. lru \in Injection(Way, Way)
  BY <1>1, <1>2, FS_SurjSameCardinalityImpliesInj
<1>. QED BY <1>3 DEF Injection, IsInjective

\* lru_update makes w newer than every other way and changes nothing else in
\* the order of use.
LEMMA LruUpdateUses ==
  ASSUME IInv, NEW w \in Way, lru' = LruUpdate(w)
  PROVE  Newer' = [v \in Way |-> IF v = w THEN {} ELSE Newer[v] \cup {w}]
<1>. USE DEF IInv
<1>1. ASSUME NEW v \in Way, NEW u \in Way
      PROVE  lru'[u] < lru'[v] <=> v # w /\ (lru[u] < lru[v] \/ u = w)
  <2>1. /\ lru[v] \in Int /\ lru[v] >= 0
        /\ lru[u] \in Int /\ lru[u] >= 0
        /\ lru[w] \in Int /\ lru[w] >= 0
    BY LruIsInt
  <2>2. CASE v = w
    <3>1. lru'[v] = 0 /\ lru'[u] \in Int /\ lru'[u] >= 0
      BY <2>1, <2>2, LruUpdateAt
    <3>. QED BY <3>1, <2>2
  <2>3. CASE v # w /\ u = w
    <3>1. lru[v] # lru[w]
      BY <2>3, RanksDiffer
    <3>2. lru'[w] = 0 /\ lru'[v] > 0
      BY <2>1, <2>3, <3>1, LruUpdateAt
    <3>. QED BY <2>3, <3>2
  <2>4. CASE v # w /\ u # w
    <3>1. /\ lru'[v] = IF lru[v] < lru[w] THEN lru[v] + 1 ELSE lru[v]
          /\ lru'[u] = IF lru[u] < lru[w] THEN lru[u] + 1 ELSE lru[u]
      BY <2>4, LruUpdateAt
    <3>2. lru[u] # lru[w] /\ lru[v] # lru[w]
      BY <2>4, RanksDiffer
    <3>. QED BY <2>1, <2>4, <3>1, <3>2
  <2>. QED BY <2>2, <2>3, <2>4
<1>2. \A v \in Way : {u \in Way : lru'[u] < lru'[v]}
                    = IF v = w THEN {} ELSE {u \in Way : lru[u] < lru[v]} \cup {w}
  BY <1>1
<1>. QED BY <1>2 DEF Newer

\* The way with the greatest rank is the one used before all the others.
LEMMA OldestRank ==
  ASSUME IInv, NEW w \in Way, lru[w] = NUM_WAY - 1
  PROVE  Newer[w] = Way \ {w}
<1>1. ASSUME NEW v \in Way PROVE lru[v] < lru[w] <=> v # w
  <2>1. v # w => lru[v] # lru[w]
    BY RanksDiffer
  <2>2. lru[v] \in Int /\ lru[v] < NUM_WAY /\ lru[w] \in Int /\ NUM_WAY \in Int
    BY LruIsInt, WayIsRange DEF IInv
  <2>. QED BY <2>1, <2>2
<1>. QED BY <1>1 DEF Newer

LEMMA InitRefines == Init => Order!Init
<1>. SUFFICES ASSUME Init PROVE Order!Init
  OBVIOUS
<1>1. ASSUME NEW w \in Way PROVE {v \in Way : v < w} = 0 .. w - 1
  BY NumWayAssumption DEF Way
<1>2. Newer = [w \in Way |-> 0 .. w - 1]
  BY <1>1 DEF Newer, Init
<1>. QED BY <1>2 DEF Init, Order!Init, Order!Way, Way

\* An access that is not a writeback hit is a use of its way.
LEMMA UpdateUses ==
  ASSUME IInv, NEW w \in Way, NEW type, NEW hit,
         UpdateReplacementState(w, type, hit)
  PROVE  \/ type = "WRITEBACK" /\ hit /\ Newer' = Newer
         \/ Order!Used(w)
<1>1. CASE type = "WRITEBACK" /\ hit
  BY <1>1 DEF UpdateReplacementState, Newer
<1>2. CASE ~(type = "WRITEBACK" /\ hit)
  <2>1. lru' = LruUpdate(w)
    BY <1>2 DEF UpdateReplacementState
  <2>. QED BY <2>1, LruUpdateUses DEF Order!Used, Order!Way, Way
<1>. QED BY <1>1, <1>2

LEMMA StepRefines == IInv /\ [Next]_vars => [Order!Next]_(Order!vars)
<1>. SUFFICES ASSUME IInv, [Next]_vars PROVE [Order!Next]_(Order!vars)
  OBVIOUS
<1>. USE DEF Order!vars
<1>0. Order!Way = Way
  BY DEF Order!Way, Way
<1>1. ASSUME NEW w \in Way, NEW type \in AccessType, Hit(w, type)
      PROVE  [Order!Next]_(Order!vars)
  BY <1>0, <1>1, UpdateUses DEF Hit, Order!Next, Order!Use
<1>2. ASSUME NEW w \in Way, NEW type \in AccessType, Fill(w, type)
      PROVE  [Order!Next]_(Order!vars)
  <2>1. Order!Used(w)
    BY <1>2, UpdateUses DEF Fill
  <2>2. \/ ~valid[w]
        \/ (\A v \in Way : valid[v]) /\ lru[w] = NUM_WAY - 1
    BY <1>2 DEF Fill, LruVictims
  <2>3. Order!Replace(w)
    BY <1>0, <1>2, <2>1, <2>2, OldestRank DEF Fill, Order!Replace
  <2>. QED BY <1>0, <2>3 DEF Order!Next
<1>3. ASSUME NEW w \in Way, Invalidate(w)
      PROVE  [Order!Next]_(Order!vars)
  <2>1. Order!Invalidate(w)
    BY <1>3 DEF Invalidate, Order!Invalidate, Newer
  <2>. QED BY <1>0, <2>1 DEF Order!Next
<1>4. CASE UNCHANGED vars
  BY <1>4 DEF vars, Newer
<1>. QED BY <1>1, <1>2, <1>3, <1>4 DEF Next

\* The counters implement the order of use: for every associativity, the
\* victim is an invalid way or, in a full set, the least recently used one.
THEOREM RefinementTheorem == Spec => KeepsOrderOfUse
<1>1. IInv <=> TypeOK /\ RanksTaken BY DEF IInv
<1>2. Spec => []IInv
  BY <1>1, RanksTheorem, PTL
<1>. QED BY <1>2, InitRefines, StepRefines, PTL DEF Spec, KeepsOrderOfUse, Order!Spec

-----------------------------------------------------------------------------
(* SRRIP and DRRIP.                                                        *)

\* The ages and the history are in their sets.
AgesInv ==
  /\ policy \in {"SRRIP", "DRRIP"}
  /\ AgesAndCountersBounded
  /\ idle \in [LLC_SET -> [RWay -> SUBSET RWay]]

LEMMA RWayIs == 0 \in RWay /\ RWay \subseteq Nat /\ maxRRPV \in Nat /\ maxRRPV > 0
BY RripAssumption DEF RWay

\* The search for a victim finds the greatest age, so the set ages to the end of its range.
LEMMA FarthestIs ==
  ASSUME AgesInv, NEW s \in LLC_SET
  PROVE  /\ Farthest(s) \in 0 .. maxRRPV
         /\ \E w \in RWay : rrpv[s][w] = Farthest(s)
         /\ \A w \in RWay : rrpv[s][w] <= Farthest(s)
<1>. DEFINE S == {rrpv[s][w] : w \in RWay}
<1>1. rrpv[s] \in [RWay -> 0 .. maxRRPV]
  BY DEF AgesInv, AgesAndCountersBounded
<1>2. S \subseteq 0 .. maxRRPV /\ S # {}
  BY <1>1, RWayIs
<1>3. PICK x \in S : \A y \in S : y <= x
  BY <1>2, GreatestOf, RWayIs
<1>4. \E d \in 0 .. maxRRPV : /\ \E w \in RWay : rrpv[s][w] = d
                              /\ \A w \in RWay : rrpv[s][w] <= d
  BY <1>2, <1>3
<1>. QED BY <1>4 DEF Farthest

LEMMA AgedIs ==
  ASSUME AgesInv, NEW s \in LLC_SET
  PROVE  /\ Aged(s) \in [RWay -> 0 .. maxRRPV]
         /\ \A v, w \in RWay : rrpv[s][w] <= rrpv[s][v] => Aged(s)[w] <= Aged(s)[v]
<1>1. rrpv[s] \in [RWay -> 0 .. maxRRPV]
  BY DEF AgesInv, AgesAndCountersBounded
<1>2. \A w \in RWay : rrpv[s][w] \in 0 .. maxRRPV /\ Aged(s)[w] = rrpv[s][w] + maxRRPV - Farthest(s)
  BY <1>1 DEF Aged
<1>3. ASSUME NEW w \in RWay PROVE Aged(s)[w] \in 0 .. maxRRPV
  BY <1>2, FarthestIs, RWayIs
<1>4. ASSUME NEW v \in RWay, NEW w \in RWay, rrpv[s][w] <= rrpv[s][v]
      PROVE  Aged(s)[w] <= Aged(s)[v]
  BY <1>2, <1>4, FarthestIs, RWayIs
<1>. QED BY <1>3, <1>4 DEF Aged

LEMMA RVictimIs ==
  ASSUME AgesInv, NEW s \in LLC_SET
  PROVE  RVictim(s) \in RWay
<1>. DEFINE S == {w \in RWay : rrpv[s][w] = Farthest(s)}
<1>1. S # {} /\ S \subseteq Nat
  BY FarthestIs, RWayIs
<1>2. PICK w \in S : \A v \in S : w <= v
  BY <1>1, LeastOf
<1>3. \E x \in RWay : /\ rrpv[s][x] = Farthest(s)
                      /\ \A v \in RWay : rrpv[s][v] = Farthest(s) => x <= v
  BY <1>2
<1>. QED BY <1>3 DEF RVictim

\* What an update does to a set: one way gets an age, the others those of a row.
LEMMA FillPredicts ==
  ASSUME AgesInv, NEW s \in LLC_SET, NEW w \in RWay, NEW type, UpdateOnFill(s, w, type)
  PROVE  /\ \E d \in 0 .. maxRRPV : Predict(s, Aged(s), w, d)
         /\ PSEL' \in 0 .. PSEL_MAX /\ bip_counter' \in 0 .. BIP_MAX - 1
<1>1. /\ maxRRPV \in 0 .. maxRRPV /\ maxRRPV - 1 \in 0 .. maxRRPV
      /\ BIP_MAX \in Nat \ {0} /\ PSEL_MAX \in Nat
      /\ PSEL \in 0 .. PSEL_MAX /\ bip_counter \in 0 .. BIP_MAX - 1
  BY RripAssumption DEF AgesInv, AgesAndCountersBounded
<1>2. Insert(s, Aged(s), w) => /\ \E d \in 0 .. maxRRPV : Predict(s, Aged(s), w, d)
                               /\ bip_counter' \in 0 .. BIP_MAX - 1
  BY <1>1 DEF Insert
<1>3. ASSUME Bimodal(s, Aged(s), w)
      PROVE  /\ \E d \in 0 .. maxRRPV : Predict(s, Aged(s), w, d)
             /\ bip_counter' \in 0 .. BIP_MAX - 1
  <2>1. bip_counter' = (bip_counter + 1) % BIP_MAX
    BY <1>3 DEF Bimodal
  <2>2. Predict(s, Aged(s), w, maxRRPV - 1) \/ Predict(s, Aged(s), w, maxRRPV)
    BY <1>3 DEF Bimodal
  <2>3. bip_counter' \in 0 .. BIP_MAX - 1
    BY <1>1, <2>1
  <2>. QED BY <1>1, <2>2, <2>3
<1>4. CASE policy = "SRRIP" \/ type = "WRITEBACK"
  BY <1>1, <1>2, <1>4 DEF UpdateOnFill
<1>5. CASE ~(policy = "SRRIP" \/ type = "WRITEBACK")
  <2>1. Duel(s, Aged(s), w)
    BY <1>5 DEF UpdateOnFill
  <2>2. Insert(s, Aged(s), w) \/ Bimodal(s, Aged(s), w)
    BY <2>1 DEF Duel
  <2>3. PSEL' \in {PSEL, IF PSEL > 0 THEN PSEL - 1 ELSE 0, IF PSEL < PSEL_MAX THEN PSEL + 1 ELSE PSEL_MAX}
    BY <2>1 DEF Duel
  <2>4. PSEL' \in 0 .. PSEL_MAX
    BY <1>1, <2>3
  <2>. QED BY <1>2, <1>3, <2>2, <2>4
<1>. QED BY <1>4, <1>5

\* The set s after an access to way w: the others keep their order, w is nearest if it was promoted.
LEMMA AccessKeeps ==
  ASSUME AgesInv, HitLineStaysNearer, NEW s \in LLC_SET, NEW w \in RWay,
         NEW row \in [RWay -> 0 .. maxRRPV], NEW d \in 0 .. maxRRPV,
         \A u, v \in RWay : rrpv[s][u] <= rrpv[s][v] => row[u] <= row[v],
         Predict(s, row, w, d), NEW hit \in BOOLEAN, hit => d = 0, Touch(s, w, hit),
         policy' = policy, PSEL' \in 0 .. PSEL_MAX, bip_counter' \in 0 .. BIP_MAX - 1
  PROVE  AgesInv' /\ HitLineStaysNearer'
<1>1. /\ rrpv \in [LLC_SET -> [RWay -> 0 .. maxRRPV]]
      /\ idle \in [LLC_SET -> [RWay -> SUBSET RWay]]
  BY DEF AgesInv, AgesAndCountersBounded
<1>2. /\ rrpv' = [rrpv EXCEPT ![s] = [row EXCEPT ![w] = d]]
      /\ idle' = [idle EXCEPT ![s] = [v \in RWay |-> IF v # w THEN idle[s][v] \ {w}
                                                     ELSE IF hit THEN RWay \ {w} ELSE {}]]
  BY DEF Predict, Touch
<1>3. [row EXCEPT ![w] = d] \in [RWay -> 0 .. maxRRPV]
  OBVIOUS
<1>4. rrpv' \in [LLC_SET -> [RWay -> 0 .. maxRRPV]]
  BY <1>1, <1>2, <1>3
<1>5. idle' \in [LLC_SET -> [RWay -> SUBSET RWay]]
  BY <1>1, <1>2
<1>6. ASSUME NEW r \in LLC_SET, NEW u \in RWay, NEW v \in idle'[r][u]
      PROVE  rrpv'[r][u] <= rrpv'[r][v]
  <2>1. CASE r # s
    BY <1>1, <1>2, <2>1 DEF HitLineStaysNearer
  <2>2. CASE r = s /\ u # w
    <3>1. v \in idle[s][u] /\ v # w /\ v \in RWay
      BY <1>1, <1>2, <2>2
    <3>2. row[u] <= row[v]
      BY <3>1 DEF HitLineStaysNearer
    <3>3. rrpv'[s][u] = row[u] /\ rrpv'[s][v] = row[v]
      BY <1>1, <1>2, <2>2, <3>1
    <3>. QED BY <2>2, <3>2, <3>3
  <2>3. CASE r = s /\ u = w
    <3>1. hit /\ v \in RWay
      BY <1>1, <1>2, <2>3
    <3>2. rrpv'[s][u] = 0 /\ rrpv'[s][v] \in 0 .. maxRRPV
      BY <1>1, <1>2, <1>4, <2>3, <3>1
    <3>. QED BY <2>3, <3>2
  <2>. QED BY <2>1, <2>2, <2>3
<1>. QED BY <1>4, <1>5, <1>6 DEF AgesInv, AgesAndCountersBounded, HitLineStaysNearer

LEMMA RInitInv == RInit => AgesInv /\ HitLineStaysNearer
BY RripAssumption, RWayIs DEF RInit, AgesInv, AgesAndCountersBounded, HitLineStaysNearer

LEMMA RStepInv == AgesInv /\ HitLineStaysNearer /\ [RNext]_rripVars => AgesInv' /\ HitLineStaysNearer'
<1>. SUFFICES ASSUME AgesInv, HitLineStaysNearer, [RNext]_rripVars
              PROVE  AgesInv' /\ HitLineStaysNearer'
  OBVIOUS
<1>1. /\ rrpv \in [LLC_SET -> [RWay -> 0 .. maxRRPV]]
      /\ PSEL \in 0 .. PSEL_MAX /\ bip_counter \in 0 .. BIP_MAX - 1
      /\ 0 \in 0 .. maxRRPV /\ maxRRPV - 1 \in 0 .. maxRRPV
  BY RWayIs DEF AgesInv, AgesAndCountersBounded
<1>2. ASSUME NEW s \in LLC_SET, NEW w \in RWay, NEW type \in RType, RHit(s, w, type)
      PROVE  AgesInv' /\ HitLineStaysNearer'
  <2>1. rrpv[s] \in [RWay -> 0 .. maxRRPV]
    BY <1>1
  <2>2. /\ Touch(s, w, Promotes(type)) /\ policy' = policy /\ PSEL' = PSEL
        /\ bip_counter' = bip_counter /\ Promotes(type) \in BOOLEAN
    BY <1>2 DEF RHit, UpdateOnHit, Promotes
  <2>3. CASE Promotes(type)
    <3>1. Predict(s, rrpv[s], w, 0)
      BY <1>2, <2>3 DEF RHit, UpdateOnHit, Promoted
    <3>. QED BY <1>1, <2>1, <2>2, <2>3, <3>1, AccessKeeps
  <2>4. CASE ~Promotes(type)
    <3>1. Predict(s, rrpv[s], w, maxRRPV - 1)
      BY <1>2, <2>4 DEF RHit, UpdateOnHit
    <3>. QED BY <1>1, <2>1, <2>2, <2>4, <3>1, AccessKeeps
  <2>. QED BY <2>3, <2>4
<1>3. ASSUME NEW s \in LLC_SET, NEW type \in RType, RFill(s, type)
      PROVE  AgesInv' /\ HitLineStaysNearer'
  <2>. DEFINE w == RVictim(s)
  <2>1. /\ UpdateOnFill(s, w, type) /\ Touch(s, w, FALSE) /\ policy' = policy /\ w \in RWay
    BY <1>3, RVictimIs DEF RFill
  <2>. HIDE DEF w
  <2>2. PICK d \in 0 .. maxRRPV : Predict(s, Aged(s), w, d)
    BY <2>1, FillPredicts
  <2>3. PSEL' \in 0 .. PSEL_MAX /\ bip_counter' \in 0 .. BIP_MAX - 1
    BY <2>1, FillPredicts
  <2>. QED BY <2>1, <2>2, <2>3, AgedIs, AccessKeeps
<1>4. ASSUME NEW s \in LLC_SET, RStall(s)
      PROVE  AgesInv' /\ HitLineStaysNearer'
  <2>1. /\ rrpv' = [rrpv EXCEPT ![s] = Aged(s)] /\ idle' = idle
        /\ policy' = policy /\ PSEL' = PSEL /\ bip_counter' = bip_counter
    BY <1>4 DEF RStall
  <2>2. AgesInv'
    BY <1>1, <2>1, AgedIs DEF AgesInv, AgesAndCountersBounded
  <2>3. ASSUME NEW r \in LLC_SET, NEW u \in RWay, NEW v \in idle[r][u]
        PROVE  rrpv'[r][u] <= rrpv'[r][v]
    <3>1. v \in RWay /\ rrpv[r][u] <= rrpv[r][v]
      BY DEF AgesInv, HitLineStaysNearer
    <3>. QED BY <1>1, <2>1, <3>1, AgedIs
  <2>. QED BY <2>1, <2>2, <2>3 DEF HitLineStaysNearer
<1>5. CASE UNCHANGED rripVars
  BY <1>5 DEF rripVars, AgesInv, AgesAndCountersBounded, HitLineStaysNearer
<1>. QED BY <1>2, <1>3, <1>4, <1>5 DEF RNext

-----------------------------------------------------------------------------
(* SHiP.                                                                   *)

\* The ranks of the entries are those of the ways, each taken once, and no tag has
\* two entries.
SamplerEntry ==
  [valid : BOOLEAN, tag : Tag \cup {NoTag}, ip : Signature \cup {NoTag}, used : BOOLEAN, lru : SWay]
SamplerInv ==
  /\ line \in [SWay -> Tag \cup {NoTag}]
  /\ sampler \in [SWay -> SamplerEntry]
  /\ \A w, v \in SWay : sampler[w].lru = sampler[v].lru => w = v
  /\ \A r \in SWay : \E w \in SWay : sampler[w].lru = r
  /\ \A w, v \in SWay :
       (sampler[w].valid /\ sampler[v].valid /\ sampler[w].tag = sampler[v].tag)
         => w = v

LEMMA SWayIs ==
  /\ \A n : n \in SWay <=> n \in Int /\ 0 <= n /\ n < SAMPLER_WAY
  /\ SAMPLER_WAY \in Nat /\ SAMPLER_WAY > 0 /\ SWay \subseteq Nat
BY ShipAssumption DEF SWay

LEMMA FirstExists ==
  ASSUME NEW W, W \subseteq SWay, W # {}
  PROVE  FirstOf(W) # {} /\ FirstOf(W) \subseteq W
<1>1. PICK x \in W : \A y \in W : x <= y
  BY LeastOf, SWayIs
<1>. QED BY <1>1 DEF FirstOf

\* There is an entry for every tag: if all are in use, the one of the last rank.
LEMMA MatchExists ==
  ASSUME SamplerInv, NEW tag
  PROVE  /\ Match(tag) # {} /\ Match(tag) \subseteq SWay
         /\ SamplerHits(tag) # {} => Match(tag) \subseteq SamplerHits(tag)
<1>. DEFINE hits == SamplerHits(tag)
            free == {w \in SWay : ~sampler[w].valid}
            old  == {w \in SWay : sampler[w].lru = SAMPLER_WAY - 1}
<1>1. hits \subseteq SWay /\ free \subseteq SWay /\ old \subseteq SWay
  BY DEF SamplerHits
<1>2. old # {}
  <2>1. SAMPLER_WAY - 1 \in SWay
    BY SWayIs
  <2>2. PICK w \in SWay : sampler[w].lru = SAMPLER_WAY - 1
    BY <2>1 DEF SamplerInv
  <2>. QED BY <2>2
<1>3. Match(tag) = FirstOf(IF hits # {} THEN hits ELSE IF free # {} THEN free ELSE old)
  BY DEF Match
<1>. HIDE DEF hits, free, old
<1>4. CASE hits # {}
  BY <1>1, <1>3, <1>4, FirstExists DEF hits
<1>5. CASE hits = {} /\ free # {}
  BY <1>1, <1>3, <1>5, FirstExists DEF hits
<1>6. CASE hits = {} /\ free = {}
  BY <1>1, <1>2, <1>3, <1>6, FirstExists DEF hits
<1>. QED BY <1>4, <1>5, <1>6

\* An access moves its entry to the front; those that were before it go one back.
LEMMA UpdateKeepsSampler ==
  ASSUME SamplerInv, NEW tag \in Tag \cup {NoTag}, NEW sig \in Signature, UpdateSampler(tag, sig),
         line' \in [SWay -> Tag \cup {NoTag}]
  PROVE  SamplerInv'
<1>. DEFINE hit == SamplerHits(tag) # {}
<1>1. PICK m \in Match(tag) :
        sampler' = [w \in SWay |->
           [sampler[w] EXCEPT
              !.valid = @ \/ w = m,
              !.tag = IF w = m THEN tag ELSE @,
              !.ip = IF w = m /\ ~hit THEN sig ELSE @,
              !.used = IF w = m THEN hit ELSE @,
              !.lru = SampledOrder(m, w)]]
  BY DEF UpdateSampler
<1>2. m \in SWay /\ (hit => m \in SamplerHits(tag))
  BY MatchExists
<1>3. \A w \in SWay :
        /\ sampler[w] \in SamplerEntry /\ sampler[w].lru \in Int
        /\ 0 <= sampler[w].lru /\ sampler[w].lru < SAMPLER_WAY
  BY SWayIs DEF SamplerInv, SamplerEntry
<1>4. ASSUME NEW w \in SWay
      PROVE  SampledOrder(m, w) = IF w = m THEN 0
                                  ELSE IF sampler[w].lru < sampler[m].lru THEN sampler[w].lru + 1
                                  ELSE sampler[w].lru
  BY <1>2, <1>3 DEF SampledOrder
<1>5. ASSUME NEW w \in SWay PROVE SampledOrder(m, w) \in SWay
  BY <1>2, <1>3, <1>4, SWayIs
<1>6. ASSUME NEW w \in SWay
      PROVE  /\ sampler'[w] \in SamplerEntry
             /\ sampler'[w].lru = SampledOrder(m, w)
             /\ sampler'[w].valid = (sampler[w].valid \/ w = m)
             /\ sampler'[w].tag = IF w = m THEN tag ELSE sampler[w].tag
  <2>. DEFINE e == [sampler[w] EXCEPT
              !.valid = @ \/ w = m,
              !.tag = IF w = m THEN tag ELSE @,
              !.ip = IF w = m /\ ~hit THEN sig ELSE @,
              !.used = IF w = m THEN hit ELSE @,
              !.lru = SampledOrder(m, w)]
  <2>. HIDE DEF hit
  <2>1. sampler'[w] = e
    BY <1>1
  <2>2. hit \in BOOLEAN
    BY DEF hit
  <2>3. sampler[w] \in SamplerEntry
    BY <1>3
  <2>4. /\ e.lru = SampledOrder(m, w)
        /\ e.valid = (sampler[w].valid \/ w = m)
        /\ e.tag = IF w = m THEN tag ELSE sampler[w].tag
    BY <2>3 DEF SamplerEntry
  <2>5. e \in SamplerEntry
    BY <1>5, <2>2, <2>3 DEF SamplerEntry
  <2>. QED BY <2>1, <2>4, <2>5
<1>7. sampler' \in [SWay -> SamplerEntry]
  BY <1>1, <1>6
<1>8. ASSUME NEW w \in SWay, NEW v \in SWay, sampler'[w].lru = sampler'[v].lru
      PROVE  w = v
  <2>1. SampledOrder(m, w) = SampledOrder(m, v)
    BY <1>6, <1>8
  <2>2. sampler[w].lru = sampler[v].lru => w = v
    BY DEF SamplerInv
  <2>3. /\ sampler[w].lru = sampler[m].lru => w = m
        /\ sampler[v].lru = sampler[m].lru => v = m
    BY <1>2 DEF SamplerInv
  <2>. DEFINE a == sampler[w].lru
              b == sampler[v].lru
              c == sampler[m].lru
  <2>4. a \in Int /\ b \in Int /\ c \in Int
    BY <1>2, <1>3
  <2>5. /\ (IF w = m THEN 0 ELSE IF a < c THEN a + 1 ELSE a)
             = (IF v = m THEN 0 ELSE IF b < c THEN b + 1 ELSE b)
        /\ a >= 0 /\ b >= 0 /\ c >= 0
    BY <1>2, <1>3, <1>4, <2>1
  <2>. HIDE DEF a, b, c
  <2>6. (a = b => w = v) /\ (a = c => w = m) /\ (b = c => v = m)
    BY <2>2, <2>3 DEF a, b, c
  <2>7. CASE w = m
    BY <2>4, <2>5, <2>6, <2>7
  <2>8. CASE v = m /\ w # m
    BY <2>4, <2>5, <2>6, <2>8
  <2>9. CASE w # m /\ v # m
    BY <2>4, <2>5, <2>6, <2>9
  <2>. QED BY <2>7, <2>8, <2>9
<1>9. ASSUME NEW r \in SWay
      PROVE  \E w \in SWay : sampler'[w].lru = r
  <2>1. r \in Int /\ 0 <= r /\ r < SAMPLER_WAY
    BY SWayIs
  <2>2. sampler[m].lru \in Int
    BY <1>2, <1>3
  <2>3. CASE r = 0
    BY <1>2, <1>4, <1>6, <2>3
  <2>4. CASE r > 0 /\ r <= sampler[m].lru
    <3>1. r - 1 \in SWay
      BY <2>1, <2>4, SWayIs
    <3>2. PICK w \in SWay : sampler[w].lru = r - 1
      BY <3>1 DEF SamplerInv
    <3>3. w # m /\ sampler[w].lru < sampler[m].lru
      BY <2>1, <2>2, <2>4, <3>2
    <3>4. SampledOrder(m, w) = sampler[w].lru + 1
      BY <1>4, <3>3
    <3>5. SampledOrder(m, w) = r
      BY <2>1, <3>2, <3>4
    <3>. QED BY <1>6, <3>5
  <2>5. CASE r > sampler[m].lru
    <3>1. PICK w \in SWay : sampler[w].lru = r
      BY DEF SamplerInv
    <3>2. w # m /\ ~(sampler[w].lru < sampler[m].lru)
      BY <2>1, <2>2, <2>5, <3>1
    <3>3. SampledOrder(m, w) = r
      BY <1>4, <3>1, <3>2
    <3>. QED BY <1>6, <3>3
  <2>. QED BY <2>1, <2>2, <2>3, <2>4, <2>5
<1>10. ASSUME NEW w \in SWay, NEW v \in SWay, sampler'[w].valid, sampler'[v].valid,
              sampler'[w].tag = sampler'[v].tag
       PROVE  w = v
  <2>1. ASSUME NEW u \in SWay, u # m, sampler'[u].valid, sampler'[u].tag = tag
        PROVE  FALSE
    <3>1. sampler[u].valid /\ sampler[u].tag = tag
      BY <1>6, <2>1
    <3>2. u \in SamplerHits(tag)
      BY <3>1 DEF SamplerHits
    <3>3. m \in SamplerHits(tag)
      BY <1>2, <3>2
    <3>4. sampler[m].valid /\ sampler[m].tag = tag
      BY <3>3 DEF SamplerHits
    <3>. QED BY <1>2, <2>1, <3>1, <3>4 DEF SamplerInv
  <2>2. CASE w = m \/ v = m
    BY <1>2, <1>6, <1>10, <2>1, <2>2
  <2>3. CASE w # m /\ v # m
    BY <1>6, <1>10, <2>3 DEF SamplerInv
  <2>. QED BY <2>2, <2>3
<1>. QED BY <1>7, <1>8, <1>9, <1>10 DEF SamplerInv

LEMMA SInitInv == SInit => SamplerInv
<1>. SUFFICES ASSUME SInit PROVE SamplerInv
  OBVIOUS
<1>1. \A w \in SWay : /\ sampler[w] = [valid |-> FALSE, tag |-> NoTag, ip |-> NoTag,
                                       used |-> FALSE, lru |-> w]
                      /\ sampler[w].lru = w /\ ~sampler[w].valid
                      /\ sampler[w] \in SamplerEntry
  BY DEF SInit, SamplerEntry
<1>. QED BY <1>1 DEF SInit, SamplerInv

LEMMA SStepInv == SamplerInv /\ [SNext]_shipVars => SamplerInv'
<1>. SUFFICES ASSUME SamplerInv, [SNext]_shipVars PROVE SamplerInv'
  OBVIOUS
<1>1. line \in [SWay -> Tag \cup {NoTag}]
  BY DEF SamplerInv
<1>2. ASSUME NEW w \in SWay, NEW sig \in Signature, SHit(w, sig) PROVE SamplerInv'
  BY <1>1, <1>2, UpdateKeepsSampler DEF SHit
<1>3. ASSUME NEW tag \in Tag, NEW sig \in Signature, SFill(tag, sig) PROVE SamplerInv'
  <2>1. line' \in [SWay -> Tag \cup {NoTag}]
    BY <1>1, <1>3 DEF SFill
  <2>. QED BY <1>3, <2>1, UpdateKeepsSampler DEF SFill
<1>4. ASSUME NEW tag \in Tag, SWriteback(tag) PROVE SamplerInv'
  <2>1. line' \in [SWay -> Tag \cup {NoTag}] /\ sampler' = sampler
    BY <1>1, <1>4 DEF SWriteback
  <2>. QED BY <2>1 DEF SamplerInv
<1>5. CASE UNCHANGED shipVars
  BY <1>5 DEF shipVars, SamplerInv
<1>. QED BY <1>2, <1>3, <1>4, <1>5 DEF SNext

LEMMA SamplerIsSound == SamplerInv => SamplerFindsEntry
BY MatchExists DEF SamplerInv, SamplerFindsEntry

\* PoliciesAreSound: whichever device runs, the ages and the counters of the
\* re-reference policies stay in their range, a line that was hit is never held farther
\* than one that was not touched since, and SHiP's sampler finds one entry for each line.
THEOREM PoliciesTheorem == MCSpec => []PoliciesAreSound
<1>. DEFINE Inv == AgesInv /\ HitLineStaysNearer /\ SamplerInv
<1>1. MCInit => Inv
  BY RInitInv, SInitInv DEF MCInit
<1>2. ASSUME Inv, [MCNext]_<<replacementVars, prefetcherVars, pageVars, set, device>>
      PROVE  Inv'
  <2>1. [RNext]_rripVars /\ [SNext]_shipVars
    BY <1>2 DEF MCNext, MCReplacement, MCPrefetchers, replacementVars
  <2>. QED BY <1>2, <2>1, RStepInv, SStepInv
<1>3. Inv => PoliciesAreSound
  BY SamplerIsSound DEF PoliciesAreSound, PredictionsAreSound, AgesInv
<1>. QED BY <1>1, <1>2, <1>3, PTL DEF MCSpec
=============================================================================
