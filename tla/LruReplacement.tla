--------------------------- MODULE LruReplacement ---------------------------
(***************************************************************************)
(* The LRU policy of ChampSim (replacement/base_replacement.cc, used by    *)
(* every cache, and by the LLC through lru.llc_repl), for one set: the lru *)
(* counters of its blocks, as handle_fill, handle_writeback, the hit paths *)
(* and invalidate_entry drive them.                                        *)
(***************************************************************************)
EXTENDS Integers

CONSTANT NUM_WAY
ASSUME NumWayAssumption == NUM_WAY \in Nat \ {0}

VARIABLES
  lru,   \* lru[w]: block[set][w].lru
  valid  \* valid[w]: block[set][w].valid

vars == <<lru, valid>>

Way == 0 .. NUM_WAY - 1

\* The type of an access; only writebacks are told apart.
AccessType == {"LOAD", "WRITEBACK"}

\* lru_update: the ways more recent than w age by one, w becomes the newest.
LruUpdateAgesAll(w) ==
  [i \in Way |-> IF i = w THEN 0
                 ELSE IF lru[i] < NUM_WAY - 1 THEN lru[i] + 1 ELSE lru[i]]
LruUpdate(w) ==
  [i \in Way |-> IF i = w THEN 0
                 ELSE IF lru[i] < lru[w] THEN lru[i] + 1 ELSE lru[i]]

\* update_replacement_state: a hit by a writeback is not a use.
UpdateReplacementState(w, type, hit) ==
  lru' = IF type = "WRITEBACK" /\ hit THEN lru ELSE LruUpdate(w)

\* lru_victim: the first invalid way, else the first way that is the oldest.
\* No victim is an assertion failure.
LruVictims ==
  LET free == {w \in Way : ~valid[w]}
      old  == {w \in Way : lru[w] = NUM_WAY - 1}
      from == IF free # {} THEN free ELSE old
  IN {w \in from : \A v \in from : w <= v}

-----------------------------------------------------------------------------
Hit(w, type) == /\ valid[w]
                /\ UpdateReplacementState(w, type, TRUE)
                /\ UNCHANGED valid

\* A fill, or the fill of a writeback that missed.
Fill(w, type) == /\ w \in LruVictims
                 /\ UpdateReplacementState(w, type, FALSE)
                 /\ valid' = [valid EXCEPT ![w] = TRUE]

Invalidate(w) == /\ valid[w]
                 /\ valid' = [valid EXCEPT ![w] = FALSE]
                 /\ UNCHANGED lru

Init == /\ lru = [w \in Way |-> w]
        /\ valid = [w \in Way |-> FALSE]

Next == \E w \in Way :
          \/ \E type \in AccessType : Hit(w, type) \/ Fill(w, type)
          \/ Invalidate(w)

Spec == Init /\ [][Next]_vars

-----------------------------------------------------------------------------
\* Every counter is the rank of its way: within the set of ranks.
TypeOK == lru \in [Way -> Way] /\ valid \in [Way -> BOOLEAN]

\* Every rank is taken by some way.  (There are as many ways as ranks, so no
\* two ways share one.)
RanksTaken == \A r \in Way : \E w \in Way : lru[w] = r

\* lru_victim always finds a way: its "no victim!" assertion
\* (base_replacement.cc:52-54) cannot fail, whatever mix of hits, fills and
\* invalidations came before.
VictimExists == LruVictims # {}

\* The counters keep the order of use: the policy evicts the least recently
\* used way and fills invalid ways first.
Newer == [w \in Way |-> {v \in Way : lru[v] < lru[w]}]
Order == INSTANCE RecencyOrder WITH newer <- Newer
KeepsOrderOfUse == Order!Spec
=============================================================================
