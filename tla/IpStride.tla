------------------------------ MODULE IpStride ------------------------------
(***************************************************************************)
(* The machine of rtl/ip_stride.sv: a table of trackers, one for each      *)
(* instruction that accesses memory, with the line and the stride of its   *)
(* last access.  Three lines ahead are prefetched when a stride repeats.   *)
(* Addresses are line numbers; one step is one clock.                      *)
(***************************************************************************)
EXTENDS Integers

CONSTANTS
  IP_TRACKER_COUNT,
  Ip,        \* instructions; 0, the value of a reset tracker, may be one
  MaxCla,    \* bound: the highest line accessed
  PageLines  \* lines of a page
ASSUME TrackerAssumption == IP_TRACKER_COUNT \in Nat \ {0, 1} /\ Ip \subseteq Nat

VARIABLES ip, last_cla, last_stride, lru_bit, pref_valid,
          found_zero  \* a static of set_mru: initialised once, not at each call
strideVars == <<ip, last_cla, last_stride, lru_bit, pref_valid, found_zero>>

Tracker == 0 .. IP_TRACKER_COUNT - 1
NoTracker == -1
Cla == 0 .. MaxCla

\* The last tracker that holds the instruction.
Matching(i) == {t \in Tracker : ip[t] = i}
IpMatch(i) == IF Matching(i) = {} THEN NoTracker
              ELSE CHOOSE t \in Matching(i) : \A u \in Matching(i) : u <= t

\* The first tracker whose bit is clear.
Clear == {t \in Tracker : ~lru_bit[t]}
LruIdx == IF Clear = {} THEN NoTracker
          ELSE CHOOSE t \in Clear : \A u \in Clear : t <= u

\* A write outside the table is lost.
Written(table, t, x) == [u \in Tracker |-> IF u = t THEN x ELSE table[u]]

\* Mutant: the test of found_zero is the other way round.
SetMruClearsFound(t) ==
  LET bits == Written(lru_bit, t, TRUE)
      found == found_zero \/ \E u \in Tracker : ~bits[u]
  IN /\ found_zero' = found
     /\ lru_bit' = IF found THEN [u \in Tracker |-> u = t] ELSE bits
\* The other bits are cleared when all are set and no call has found a clear one.
SetMru(t) ==
  LET bits == Written(lru_bit, t, TRUE)
      found == found_zero \/ \E u \in Tracker : ~bits[u]
  IN /\ found_zero' = found
     /\ lru_bit' = IF found THEN bits ELSE [u \in Tracker |-> u = t]

AllocateNewTracker(i, cla) ==
  /\ IpMatch(i) = NoTracker
  /\ ip' = Written(ip, LruIdx, i)
  /\ last_cla' = Written(last_cla, LruIdx, cla)
  /\ last_stride' = Written(last_stride, LruIdx, 0)
  /\ SetMru(LruIdx)
  /\ UNCHANGED pref_valid

\* The line k strides ahead wraps at the width of an address, far from here.
Ahead(cla, stride, k) == cla + k * stride
SamePage(a, b) == a >= 0 /\ a \div PageLines = b \div PageLines

UpdateTracker(i, cla) ==
  LET t == IpMatch(i)
      stride == cla - last_cla[t]
  IN /\ t # NoTracker
     /\ stride # 0
     /\ pref_valid' = [k \in 1 .. 3 |-> /\ stride = last_stride[t]
                                        /\ SamePage(Ahead(cla, stride, k), cla)]
     /\ last_cla' = Written(last_cla, t, cla)
     /\ last_stride' = Written(last_stride, t, stride)
     /\ SetMru(t)
     /\ UNCHANGED ip

IInit == /\ ip = [t \in Tracker |-> 0]
         /\ last_cla = [t \in Tracker |-> 0]
         /\ last_stride = [t \in Tracker |-> 0]
         /\ lru_bit = [t \in Tracker |-> FALSE]
         /\ pref_valid = [k \in 1 .. 3 |-> FALSE]
         /\ found_zero = FALSE

Reset == /\ ip' = [t \in Tracker |-> 0]
         /\ last_cla' = [t \in Tracker |-> 0]
         /\ last_stride' = [t \in Tracker |-> 0]
         /\ lru_bit' = [t \in Tracker |-> FALSE]
         /\ pref_valid' = [k \in 1 .. 3 |-> FALSE]
         /\ UNCHANGED found_zero

\* An access whose stride is zero changes nothing, pref_valid neither.
INext == \/ \E i \in Ip, cla \in Cla : AllocateNewTracker(i, cla)
                                       \/ UpdateTracker(i, cla)
         \/ Reset
ISpec == IInit /\ [][INext]_strideVars

-----------------------------------------------------------------------------
\* What one bit for each tracker comes to, whatever the accesses and resets.
\* From the first access on no call of set_mru clears a bit, since one has found
\* a clear one: a table whose trackers are all used takes no new instruction
\* until a reset.  A tracker that is taken has followed nothing since the reset,
\* so that an instruction keeps what was learnt of it, and no two trackers in use
\* follow one instruction, 0 included.
TrackersAreKept ==
  /\ found_zero \/ Clear = Tracker
  /\ \A t \in Clear : ip[t] = 0 /\ last_cla[t] = 0 /\ last_stride[t] = 0
  /\ \A t, u \in Tracker \ Clear : ip[t] = ip[u] => t = u
=============================================================================
