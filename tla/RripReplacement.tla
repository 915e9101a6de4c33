--------------------------- MODULE RripReplacement ---------------------------
(***************************************************************************)
(* The re-reference policies of the LLC: SRRIP (replacement/               *)
(* srrip.llc_repl) and DRRIP (replacement/drrip.llc_repl), which duels it  *)
(* with a bimodal policy in leader sets.  The build takes one of them.     *)
(* The policy looks at no valid bit: a line that is invalidated is one     *)
(* that is not hit again.                                                  *)
(***************************************************************************)
EXTENDS Integers, FiniteSets

CONSTANTS
  LLC_SET,   \* the sets of the LLC
  LLC_WAY,   \* ways of a set
  LeaderOf,  \* is_it_leader: 0 (BIP), 1 (SRRIP) or -1 (follower) of every set
  maxRRPV, BIP_MAX, PSEL_MAX
ASSUME RripAssumption ==
  /\ LLC_WAY \in Nat \ {0} /\ maxRRPV \in Nat \ {0}
  /\ BIP_MAX \in Nat \ {0} /\ PSEL_MAX \in Nat
  /\ LeaderOf \in [LLC_SET -> {-1, 0, 1}]

VARIABLES
  policy,       \* the policy of this build
  filled,       \* filled[s]: the ways of set s a line was put in
  rrpv,         \* rrpv[s][w]: predicted distance of the next use
  PSEL,         \* the duel's counter
  bip_counter,
  idle          \* history: idle[s][w] are the ways not touched since w was hit

rripVars == <<policy, filled, rrpv, PSEL, bip_counter, idle>>

RWay == 0 .. LLC_WAY - 1
RType == {"LOAD", "WRITEBACK"}

\* llc_find_victim: all ways age until one is at maxRRPV, the first such is it.
Farthest(s) == CHOOSE d \in 0 .. maxRRPV :
                 /\ \E w \in RWay : rrpv[s][w] = d
                 /\ \A w \in RWay : rrpv[s][w] <= d
Aged(s) == [w \in RWay |-> rrpv[s][w] + maxRRPV - Farthest(s)]
RVictim(s) == CHOOSE w \in RWay :
                /\ rrpv[s][w] = Farthest(s)
                /\ \A v \in RWay : rrpv[s][v] = Farthest(s) => w <= v

\* Set s gets the ages of row, way w the age d.
Predict(s, row, w, d) ==
  rrpv' = [rrpv EXCEPT ![s] = [row EXCEPT ![w] = d]]

\* The bimodal insertion: distant, but for one in BIP_MAX.
Bimodal(s, row, w) ==
  /\ bip_counter' = (bip_counter + 1) % BIP_MAX
  /\ Predict(s, row, w, IF bip_counter' = 0 THEN maxRRPV - 1 ELSE maxRRPV)

Insert(s, row, w) == Predict(s, row, w, maxRRPV - 1) /\ UNCHANGED bip_counter

\* A miss in a leader set votes against its policy; followers take the winner.
Duel(s, row, w) ==
  \/ LeaderOf[s] = -1
     /\ UNCHANGED PSEL
     /\ IF PSEL > PSEL_MAX \div 2 THEN Bimodal(s, row, w) ELSE Insert(s, row, w)
  \/ LeaderOf[s] = 0
     /\ Bimodal(s, row, w)
     /\ PSEL' = IF PSEL > 0 THEN PSEL - 1 ELSE 0
  \/ LeaderOf[s] = 1
     /\ Insert(s, row, w)
     /\ PSEL' = IF PSEL < PSEL_MAX THEN PSEL + 1 ELSE PSEL_MAX

\* A hit promotes the line; under DRRIP a writeback's hit demotes it.
Promotes(type) == policy = "SRRIP" \/ type # "WRITEBACK"
PromoteOneStep(s, w) == IF rrpv[s][w] = 0 THEN 0 ELSE rrpv[s][w] - 1
Promoted(s, w) == 0

\* llc_update_replacement_state, for a hit and for a fill of victim w.
UpdateOnHit(s, w, type) ==
  /\ IF Promotes(type) THEN Predict(s, rrpv[s], w, Promoted(s, w))
                       ELSE Predict(s, rrpv[s], w, maxRRPV - 1)
  /\ UNCHANGED <<PSEL, bip_counter>>
UpdateOnFill(s, w, type) ==
  IF policy = "SRRIP" \/ type = "WRITEBACK"
  THEN Insert(s, Aged(s), w) /\ UNCHANGED PSEL
  ELSE Duel(s, Aged(s), w)

\* Way w is touched; by a promotion or not.
Touch(s, w, hit) ==
  idle' = [idle EXCEPT ![s] = [v \in RWay |-> IF v # w THEN idle[s][v] \ {w}
                                              ELSE IF hit THEN RWay \ {w} ELSE {}]]

-----------------------------------------------------------------------------
RHit(s, w, type) ==
  /\ w \in filled[s]
  /\ UpdateOnHit(s, w, type)
  /\ Touch(s, w, Promotes(type))
  /\ UNCHANGED <<policy, filled>>

\* handle_fill, or a writeback that misses, finds a victim and fills it.
RFill(s, type) ==
  LET w == RVictim(s) IN
    /\ UpdateOnFill(s, w, type)
    /\ Touch(s, w, FALSE)
    /\ filled' = [filled EXCEPT ![s] = @ \cup {w}]
    /\ UNCHANGED policy

\* The victim is dirty and the queue below is full: the ages have moved on.
RStall(s) ==
  /\ RVictim(s) \in filled[s]
  /\ rrpv' = [rrpv EXCEPT ![s] = Aged(s)]
  /\ UNCHANGED <<policy, filled, PSEL, bip_counter, idle>>

RInit ==
  /\ policy \in {"SRRIP", "DRRIP"}
  /\ filled = [s \in LLC_SET |-> {}]
  /\ rrpv = [s \in LLC_SET |-> [w \in RWay |-> maxRRPV]]
  /\ PSEL = 0 /\ bip_counter = 0
  /\ idle = [s \in LLC_SET |-> [w \in RWay |-> {}]]

RNext ==
  \E s \in LLC_SET :
    \/ \E w \in RWay, type \in RType : RHit(s, w, type)
    \/ \E type \in RType : RFill(s, type)
    \/ RStall(s)

RSpec == RInit /\ [][RNext]_rripVars

-----------------------------------------------------------------------------
\* No age passes maxRRPV, which the search for a victim compares with ==
\* (drrip.llc_repl:112-128): it would not end.  The duel's unsigned counters
\* stay within their range (drrip.llc_repl:84-107).
AgesAndCountersBounded ==
  /\ rrpv \in [LLC_SET -> [RWay -> 0 .. maxRRPV]]
  /\ PSEL \in 0 .. PSEL_MAX
  /\ bip_counter \in 0 .. BIP_MAX - 1

\* A line that was hit is never held farther than a line nobody touched since:
\* ageing a set, again and again by a stalled fill, keeps the order of its ways.
HitLineStaysNearer ==
  \A s \in LLC_SET, w \in RWay : \A v \in idle[s][w] : rrpv[s][w] <= rrpv[s][v]

\* Ages, counters and the duel of LLC_replacement_state stay within their bits,
\* and what was hit outlives what was not: the two say that a victim is a way
\* whose reuse is predicted to be farthest.
PredictionsAreSound == AgesAndCountersBounded /\ HitLineStaysNearer
=============================================================================
