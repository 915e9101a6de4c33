------------------------- MODULE BestOffsetLearning -------------------------
(***************************************************************************)
(* The learning of rtl/best_offset_prefetcher.sv: every miss tests one     *)
(* offset against the recent requests, and after a number of rounds the    *)
(* offset with the most hits becomes the one to prefetch at.  The tables   *)
(* of recent requests are the input: a test hits or it does not.           *)
(***************************************************************************)
EXTENDS Integers

CONSTANTS
  OFFSET,     \* OFFSET[p], for p in 0 .. NOFFSETS - 1
  NOFFSETS,
  SCORE_MAX,  \* one less than a power of two, the width of a score
  ROUND_MAX, BAD_SCORE,
  OffsetHalf  \* prefetch_offset holds -OffsetHalf .. OffsetHalf - 1
ASSUME LearnAssumption ==
  /\ NOFFSETS \in Nat \ {0} /\ SCORE_MAX \in Nat \ {0, 1}
  /\ ROUND_MAX \in Nat \ {0} /\ BAD_SCORE \in Nat
  /\ OffsetHalf \in Nat \ {0} /\ OFFSET \in [0 .. NOFFSETS - 1 -> Int]

VARIABLES score, curr_max_score, best_offset_idx, curr_round, curr_offset_idx,
          prefetch_offset
learnVars == <<score, curr_max_score, best_offset_idx, curr_round,
               curr_offset_idx, prefetch_offset>>

OffsetIdx == 0 .. NOFFSETS - 1
Narrow(s) == s % (SCORE_MAX + 1)
NarrowOffset(o) == ((o + OffsetHalf) % (2 * OffsetHalf)) - OffsetHalf

\* The maximum and its offset if the current test hits; a tie goes to it.
Tested == score[curr_offset_idx] + 1
NextMaxScore == Narrow(IF Tested >= curr_max_score THEN Tested ELSE curr_max_score)
NextBestIdx == IF Tested >= curr_max_score THEN curr_offset_idx ELSE best_offset_idx

LastOffset == curr_offset_idx = NOFFSETS - 1
RoundsEnd == LastOffset /\ (NextMaxScore = SCORE_MAX \/ curr_round + 1 = ROUND_MAX)

\* The choice counts the last test as a hit, be it one or not.
Chosen ==
  IF NextMaxScore <= BAD_SCORE THEN 0
  ELSE NarrowOffset(IF OFFSET[NextBestIdx] # 0 THEN OFFSET[NextBestIdx] ELSE 1)

LearnReset ==
  /\ score' = [i \in OffsetIdx |-> 0]
  /\ curr_max_score' = 0 /\ best_offset_idx' = 0
  /\ curr_round' = 0 /\ curr_offset_idx' = 0

EndRounds(rr_hit) == RoundsEnd /\ LearnReset /\ prefetch_offset' = Chosen

Test(rr_hit) ==
  /\ ~RoundsEnd
  /\ score' = IF rr_hit THEN [score EXCEPT ![curr_offset_idx] = Narrow(@ + 1)]
                        ELSE score
  /\ curr_max_score' = IF rr_hit THEN NextMaxScore ELSE curr_max_score
  /\ best_offset_idx' = IF rr_hit THEN NextBestIdx ELSE best_offset_idx
  /\ curr_round' = IF LastOffset THEN curr_round + 1 ELSE curr_round
  /\ curr_offset_idx' = IF LastOffset THEN 0 ELSE curr_offset_idx + 1
  /\ UNCHANGED prefetch_offset

LInit == /\ score = [i \in OffsetIdx |-> 0]
         /\ curr_max_score = 0 /\ best_offset_idx = 0
         /\ curr_round = 0 /\ curr_offset_idx = 0
         /\ prefetch_offset = 0
LNext == \/ \E rr_hit \in BOOLEAN : EndRounds(rr_hit) \/ Test(rr_hit)
         \/ LearnReset /\ prefetch_offset' = 0
LSpec == LInit /\ [][LNext]_learnVars

-----------------------------------------------------------------------------
\* The running maximum and its offset are those of the scores, whatever round
\* the rounds end in: no score wraps at its width while the maximum stands.
MaximumIsOfScores ==
  /\ score[best_offset_idx] = curr_max_score
  /\ \A p \in OffsetIdx : score[p] <= curr_max_score
=============================================================================
