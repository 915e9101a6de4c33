------------------------------ MODULE MCDevices ------------------------------
(* The small machines, each on its own: the policies that replace lines, the *)
(* page tables, the circuits that prefetch, the set of waiters.  device is   *)
(* the one that runs.                                                        *)
EXTENDS LruReplacement, RripReplacement, ShipReplacement, PageTable,
        CircularQueue, NextLinePrefetcher, IpStride, BestOffsetLearning, FastSet

VARIABLE device
replacementVars == <<vars, rripVars, shipVars>>
prefetcherVars == <<queueVars, nextLineVars, strideVars, learnVars>>

MCSet == {"bip", "srrip", "follower"}
MCLeader == [s \in MCSet |-> CASE s = "bip" -> 0 [] s = "srrip" -> 1
                               [] OTHER -> -1]
MCOffset == [p \in 0 .. 2 |-> CASE p = 0 -> -4 [] p = 1 -> 4 [] p = 2 -> 1]

MCInit ==
  /\ device \in {"lru", "rrip", "ship", "pages", "queue", "next_line", "stride", "best_offset", "set"}
  /\ Init /\ RInit /\ SInit /\ PageInit
  /\ QInit /\ NInit /\ IInit /\ LInit /\ FInit
  /\ device # "rrip" => policy = "SRRIP"
  /\ device # "queue" => out = CHOOSE x \in Data : TRUE

MCReplacement ==
  /\ UNCHANGED prefetcherVars
  /\ \/ device = "lru" /\ Next /\ UNCHANGED <<rripVars, shipVars>>
     \/ device = "rrip" /\ RNext /\ UNCHANGED <<vars, shipVars>>
     \/ device = "ship" /\ SNext /\ UNCHANGED <<vars, rripVars>>
MCPrefetchers ==
  /\ UNCHANGED replacementVars
  /\ \/ device = "queue" /\ QNext /\ UNCHANGED <<nextLineVars, strideVars, learnVars>>
     \/ device = "next_line" /\ NNext /\ UNCHANGED <<queueVars, strideVars, learnVars>>
     \/ device = "stride" /\ INext /\ UNCHANGED <<queueVars, nextLineVars, learnVars>>
     \/ device = "best_offset" /\ LNext
        /\ UNCHANGED <<queueVars, nextLineVars, strideVars>>
MCNext ==
  /\ UNCHANGED device
  /\ \/ (MCReplacement \/ MCPrefetchers) /\ UNCHANGED <<pageVars, set>>
     \/ device = "pages" /\ PageNext
        /\ UNCHANGED <<replacementVars, prefetcherVars, set>>
     \/ device = "set" /\ FNext
        /\ UNCHANGED <<replacementVars, prefetcherVars, pageVars>>
MCSpec == MCInit /\ [][MCNext]_<<replacementVars, prefetcherVars, pageVars, set, device>>

\* A victim is a way whose reuse is predicted to be farthest, and the sampler
\* that SHiP learns from finds one entry for every line (the llc_repl files).
PoliciesAreSound == PredictionsAreSound /\ SamplerFindsEntry

\* What the prefetchers of src/rtl have learnt is fit for use: the next line is
\* one that was read close ahead, no stride in use is given up or kept twice, and
\* the best offset is the one of the highest score.
PrefetchersAreSound == ReadsCloseAhead /\ TrackersAreKept /\ MaximumIsOfScores
=============================================================================
