------------------------- MODULE NextLinePrefetcher -------------------------
(***************************************************************************)
(* The machine of rtl/next_line_prefetcher.sv: after a demand of the       *)
(* load/store queue it reads the lines that follow, one at a time, while   *)
(* the memory is idle.  Addresses are line numbers; one step is one clock. *)
(***************************************************************************)
EXTENDS Integers

CONSTANTS
  limit,  \* lines read ahead of a demand
  Line    \* lines the program asks for
ASSUME LimitAssumption == limit \in Nat /\ Line \subseteq Nat

VARIABLES
  state,    \* idle, prefetch, inc_addr
  demanded, \* the flag valid: a demand was seen
  counter,  \* lines read since the last demand the machine took
  address,  \* pref_pmem_address_cla
  base      \* history: that demand
nextLineVars == <<state, demanded, counter, address, base>>

NoDemand == -1

\* The ports: a demand of the load/store queue, one of the fetch unit, the
\* memory's answer, an idle arbiter.
Port == [demand : Line \cup {NoDemand}, fetch : BOOLEAN,
         resp : BOOLEAN, arbiter_idle : BOOLEAN]
Demand(in) == in.demand # NoDemand

NextState(in) ==
  CASE state = "idle" -> IF demanded /\ in.arbiter_idle /\ ~Demand(in) /\ ~in.fetch
                            /\ counter < limit
                         THEN "prefetch" ELSE "idle"
    [] state = "prefetch" -> IF in.resp THEN "inc_addr" ELSE "prefetch"
    [] state = "inc_addr" -> "idle"

\* The machine takes a demand only when idle.
Takes(in) == state = "idle" /\ Demand(in)

NextAddress(in) == IF Takes(in) THEN in.demand + 1
                   ELSE IF state = "inc_addr" THEN address + 1 ELSE address
NextCounter(in) == IF Takes(in) THEN 0
                   ELSE IF state = "inc_addr" THEN counter + 1 ELSE counter

Clock(in) ==
  /\ state' = NextState(in)
  /\ demanded' = (demanded \/ Demand(in))
  /\ counter' = NextCounter(in)
  /\ address' = NextAddress(in)
  /\ base' = IF Takes(in) THEN in.demand ELSE base

\* The counter's two updates are outside the branch of the reset.
ResetClock(in) ==
  /\ state' = "idle" /\ demanded' = FALSE /\ address' = 0
  /\ counter' = IF state = "inc_addr" THEN counter + 1 ELSE 0
  /\ UNCHANGED base

NInit == /\ state = "idle" /\ demanded = FALSE /\ counter = 0 /\ address = 0
         /\ base = 0
NNext == \E in \in Port : Clock(in) \/ ResetClock(in)
NSpec == NInit /\ [][NNext]_nextLineVars

-----------------------------------------------------------------------------
\* The line being read is at most limit lines past the demand taken last,
\* whatever demands, answers and resets came in between.
ReadsCloseAhead ==
  /\ demanded => address = base + 1 + counter /\ counter \in 0 .. limit
  /\ state = "prefetch" => demanded /\ address \in base + 1 .. base + limit
=============================================================================
