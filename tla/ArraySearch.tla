----------------------------- MODULE ArraySearch -----------------------------
(***************************************************************************)
(* CACTI's search for a cache (cacti-master/Ucache.cc, solve): threads     *)
(* evaluate the partitions of the tag and then of the data array, their    *)
(* lists are merged and filtered, and of the combinations that are left    *)
(* the cheapest is picked.  Of the five measures of an array (delay,       *)
(* energy, leakage, area, cycle time), all treated alike, two are kept.    *)
(***************************************************************************)
EXTENDS Integers, Sequences, FiniteSetsExt, SequencesExt

CONSTANTS
  nthreads,
  niter,     \* choices of Ndwl, Ndbl, Ndcm, in the order of their numbers
  Nspd,      \* choices of Nspd
  Wire,      \* choices of the wire type
  Evaluation,  \* external: what calculate_time may find, for tag and data
  Invalid,     \* what it finds when there is no such partition
  NoTag,
  BIGNUM,      \* above every cost
  delay_wt, dynamic_power_wt, delay_dev, dynamic_power_dev,
  Config       \* the inputs: [ram, forced : BOOLEAN, access, ed]
ASSUME SearchAssumption ==
  /\ nthreads \in Nat \ {0} /\ niter \in Nat \ {0}
  /\ {delay_wt, dynamic_power_wt, delay_dev, dynamic_power_dev} \subseteq Nat

Thread == 0 .. nthreads - 1
Org == [nspd : Nspd, wr : Wire, iter : 0 .. niter - 1]
Measure == {"access_time", "dynamic"}
Unset == [f \in Measure |-> BIGNUM]

\* The choices can be ordered, and an array takes time and energy.
ASSUME ArrayAssumption ==
  /\ Nspd \subseteq Int /\ IsFiniteSet(Nspd) /\ Nspd # {}
  /\ Wire \subseteq Int /\ IsFiniteSet(Wire) /\ Wire # {}
  /\ \A e \in Evaluation, o \in Org :
       /\ e.tag[o] # Invalid => \A f \in Measure : e.tag[o][f] \in Nat
       /\ e.data[o] # Invalid => \A f \in Measure \cup {"mux", "before", "after"} :
                                 e.data[o][f] \in Nat

Larger(a, b) == IF a > b THEN a ELSE b
\* find_delay, for the three ways of access.
FastDelay(tag, data) == Larger(tag.access_time, data.access_time)
SequentialDelay(tag, data) == tag.access_time + data.access_time
NormalDelay(tag, data) == Larger(tag.access_time + data.mux, data.before) + data.after

\* No cost reaches BIGNUM, neither a product nor a weighted sum.
Affordable(time, energy) ==
  {time * energy, time * time * energy, (delay_wt + dynamic_power_wt) * time * energy}
    \subseteq 0 .. BIGNUM - 1
ASSUME BignumAssumption ==
  /\ BIGNUM \in Nat
  /\ \A e \in Evaluation, o, p \in Org :
       /\ e.data[o] # Invalid => Affordable(e.data[o].access_time, e.data[o].dynamic)
       /\ e.data[o] # Invalid /\ e.tag[p] # Invalid =>
            \A time \in {FastDelay(e.tag[p], e.data[o]), SequentialDelay(e.tag[p], e.data[o]),
                         NormalDelay(e.tag[p], e.data[o])} :
              Affordable(time, e.data[o].dynamic + e.tag[p].dynamic)
ASSUME InputAssumption ==
  \A c \in Config : c.ram \in BOOLEAN /\ c.access \in {"fast", "sequential", "normal"}

VARIABLES
  evaluation,  \* evaluation[kind][org]: Invalid, or the array's measures
  config,
  phase,       \* tag, data, filter, choose; then done or the error reported
  pos,         \* how far each thread is through its organisations
  found, low,  \* what each has found, and the least of each measure
  arr, min,    \* the same of all threads, and of the combinations
  sol_list, cursor, best, min_cost
searchVars == <<evaluation, config, phase, pos, found, low, arr, min,
                sol_list, cursor, best, min_cost>>

Lower(a, b) == [f \in Measure |-> IF a[f] > b[f] THEN b[f] ELSE a[f]]
Lowest(S) == [f \in Measure |-> Min({a[f] : a \in S} \cup {BIGNUM})]

\* The loops of a thread: Nspd, the wire type, every nthreads-th partition.
LoopOrder(a, b) ==
  \/ a.nspd < b.nspd
  \/ a.nspd = b.nspd /\ a.wr < b.wr
  \/ a.nspd = b.nspd /\ a.wr = b.wr /\ a.iter < b.iter
Sorted(S, Before(_, _)) ==
  LET place == [x \in S |-> 1 + Cardinality({y \in S : Before(y, x)})]
  IN [i \in 1 .. Cardinality(S) |-> CHOOSE x \in S : place[x] = i]
WorkFromOne(t) ==
  Sorted({o \in Org : o.iter % nthreads = t /\ o.iter # 0}, LoopOrder)
WorkOf == [t \in Thread |-> Sorted({o \in Org : o.iter % nthreads = t}, LoopOrder)]
Work(t) == WorkOf[t]

Finished(t) == pos[t] > Len(Work(t))
Joined == \A t \in Thread : Finished(t)

Keep(t, kind, o) ==
  LET m == evaluation[kind][o]
  IN IF m = Invalid THEN UNCHANGED <<found, low>>
     ELSE /\ found' = [found EXCEPT ![t][kind] = Append(@, [org |-> o, by |-> t])]
          /\ low' = [low EXCEPT ![t][kind] = Lower(@, m)]

SearchUnchanged == UNCHANGED <<evaluation, config, phase, arr, min, sol_list,
                               cursor, best, min_cost>>

\* A thread evaluates its next organisation.
Evaluate(t) ==
  /\ phase \in {"tag", "data"} /\ ~(phase = "data" /\ config.forced)
  /\ ~Finished(t)
  /\ Keep(t, phase, Work(t)[pos[t]])
  /\ pos' = [pos EXCEPT ![t] = @ + 1]
  /\ SearchUnchanged

\* force_cache_config: the organisation is given and ends the loops.
ForcedOrg == [nspd |-> Min(Nspd), wr |-> Max(Wire), iter |-> niter - 1]
EvaluateForced(t) ==
  /\ phase = "data" /\ config.forced
  /\ ~Finished(t)
  /\ Keep(t, "data", ForcedOrg)
  /\ pos' = [pos EXCEPT ![t] = Len(Work(t)) + 1]
  /\ SearchUnchanged

\* mem_array::lt; the wire type is no part of it.
Lt(a, b) ==
  \/ a.org.nspd < b.org.nspd
  \/ a.org.nspd = b.org.nspd /\ a.org.iter < b.org.iter
\* sort and merge are stable: equals keep the order of threads and of loops.
MergeOrder(a, b) ==
  \/ Lt(a, b)
  \/ /\ ~Lt(b, a)
     /\ a.by < b.by \/ (a.by = b.by /\ LoopOrder(a.org, b.org))
Merged(kind) ==
  Sorted(UNION {Range(found[t][kind]) : t \in Thread}, MergeOrder)

EndTags ==
  /\ phase = "tag" /\ Joined
  /\ arr' = [arr EXCEPT !.tag = Merged("tag")]
  /\ phase' = "data"
  /\ pos' = [t \in Thread |-> 1]
  /\ found' = [t \in Thread |-> [tag |-> <<>>, data |-> <<>>]]
  /\ UNCHANGED <<evaluation, config, low, min, sol_list, cursor, best, min_cost>>

LowestFound(kind) == Lowest({low[t][kind] : t \in Thread})
EndData ==
  /\ phase = "data" /\ Joined
  /\ arr' = [arr EXCEPT !.data = Merged("data")]
  /\ min' = [tag |-> LowestFound("tag"), data |-> LowestFound("data"), cache |-> Unset]
  /\ phase' = IF Merged("data") = <<>> THEN "no_data" ELSE "filter"
  /\ cursor' = 1
  /\ UNCHANGED <<evaluation, config, pos, found, low, sol_list, best, min_cost>>

DataOf(e) == evaluation.data[e.org]
TagOf(e) == evaluation.tag[e.org]

\* More than half above the least, in delay and in energy.
TooFar(m) == \A f \in Measure : 2 * (m[f] - min.data[f]) > min.data[f]

\* The element before an erased one is the next to be left behind.
CursorAfterErase == cursor
FilterData ==
  /\ phase = "filter" /\ cursor <= Len(arr.data)
  /\ IF TooFar(DataOf(arr.data[cursor]))
     THEN /\ arr' = [arr EXCEPT !.data = RemoveAt(@, cursor)]
          /\ cursor' = CursorAfterErase
     ELSE cursor' = cursor + 1 /\ UNCHANGED arr
  /\ UNCHANGED <<evaluation, config, phase, pos, found, low, min, sol_list, best,
                 min_cost>>

\* check_uca_org, check_mem_org
Within(m, least) ==
  /\ (m.access_time - least.access_time) * 100 <= delay_dev * least.access_time
  /\ (m.dynamic - least.dynamic) * 100 <= dynamic_power_dev * least.dynamic
\* The weighted sum, times the product of the two minima.
Weighted(m, least) == delay_wt * m.access_time * least.dynamic
                      + dynamic_power_wt * m.dynamic * least.access_time

\* filter_tag_arr: from the back, the first of the cheapest.
TagChoices ==
  LET ok == {i \in DOMAIN arr.tag : Within(TagOf(arr.tag[i]), min.tag)}
      weighted(i) == Weighted(TagOf(arr.tag[i]), min.tag)
      least == {i \in ok : \A j \in ok : weighted(i) <= weighted(j)}
  IN IF least = {} THEN <<>> ELSE <<arr.tag[Max(least)]>>

\* find_delay, find_energy
Delay(tag, data) ==
  CASE config.access = "fast" -> FastDelay(tag, data)
    [] config.access = "sequential" -> SequentialDelay(tag, data)
    [] config.access = "normal" -> NormalDelay(tag, data)
Combined(s) ==
  IF config.ram
  THEN [access_time |-> DataOf(s.data).access_time, dynamic |-> DataOf(s.data).dynamic]
  ELSE [access_time |-> Delay(TagOf(s.tag), DataOf(s.data)),
        dynamic |-> DataOf(s.data).dynamic + TagOf(s.tag).dynamic]

Solutions(tags, datas) ==
  [i \in DOMAIN datas |-> [tag |-> IF config.ram THEN NoTag ELSE tags[1],
                           data |-> datas[i]]]

Combine ==
  /\ phase = "filter" /\ cursor > Len(arr.data)
  /\ IF ~config.ram /\ TagChoices = <<>>
     THEN phase' = "no_tag" /\ UNCHANGED <<arr, sol_list, min>>
     ELSE /\ phase' = "choose"
          /\ arr' = [arr EXCEPT !.tag = TagChoices]
          /\ sol_list' = Solutions(TagChoices, arr.data)
          /\ min' = [min EXCEPT !.cache =
                       Lowest({Combined(sol_list'[i]) : i \in DOMAIN sol_list'})]
  /\ cursor' = 1
  /\ UNCHANGED <<evaluation, config, pos, found, low, best, min_cost>>

Cost(m) ==
  CASE config.ed = 1 -> m.access_time * m.dynamic
    [] config.ed = 2 -> m.access_time * m.access_time * m.dynamic
    [] OTHER -> Weighted(m, min.cache)
Meets(m) == config.ed \in {1, 2} \/ Within(m, min.cache)

\* find_optimal_uca: without ed, what does not meet the deviations is erased,
\* and so is what is best so far; erasing the first element skips the second.
ErasesLater == cursor > 1
EraseAndSkip ==
  sol_list' = RemoveAt(sol_list, cursor) /\ cursor' = cursor + 1
Erase ==
  /\ sol_list' = RemoveAt(sol_list, cursor)
  /\ cursor' = IF ErasesLater THEN cursor ELSE 2
Pass == cursor' = cursor + 1 /\ UNCHANGED sol_list

Cheaper(m) == Meets(m) /\ Cost(m) < min_cost
Consider ==
  LET m == Combined(sol_list[cursor])
  IN /\ phase = "choose" /\ cursor <= Len(sol_list)
     /\ IF Cheaper(m) THEN best' = sol_list[cursor] /\ min_cost' = Cost(m)
                      ELSE UNCHANGED <<best, min_cost>>
     /\ IF config.ed \notin {1, 2} /\ (Cheaper(m) \/ ~Meets(m)) THEN Erase ELSE Pass
     /\ UNCHANGED <<evaluation, config, phase, pos, found, low, arr, min>>

Finish ==
  /\ phase = "choose" /\ cursor > Len(sol_list)
  /\ phase' = IF min_cost = BIGNUM THEN "no_solution" ELSE "done"
  /\ UNCHANGED <<evaluation, config, pos, found, low, arr, min, sol_list, cursor,
                 best, min_cost>>

Init ==
  /\ evaluation \in Evaluation
  /\ config \in Config
  /\ phase = IF config.ram THEN "data" ELSE "tag"
  /\ pos = [t \in Thread |-> 1]
  /\ found = [t \in Thread |-> [tag |-> <<>>, data |-> <<>>]]
  /\ low = [t \in Thread |-> [tag |-> Unset, data |-> Unset]]
  /\ arr = [tag |-> <<>>, data |-> <<>>]
  /\ min = [tag |-> Unset, data |-> Unset, cache |-> Unset]
  /\ sol_list = <<>> /\ cursor = 1 /\ best = NoTag /\ min_cost = BIGNUM
Next == \/ \E t \in Thread : Evaluate(t) \/ EvaluateForced(t)
        \/ EndTags \/ EndData \/ FilterData \/ Combine \/ Consider \/ Finish
Spec == Init /\ [][Next]_searchVars

-----------------------------------------------------------------------------
Valid(kind) == {o \in Org : evaluation[kind][o] # Invalid}
IsEvery(list, kind) ==
  /\ {list[i].org : i \in DOMAIN list} = Valid(kind)
  /\ Len(list) = Cardinality(Valid(kind))
  /\ \A i, j \in DOMAIN list : i < j => ~Lt(list[j], list[i])
LowestOf(kind) == Lowest({evaluation[kind][o] : o \in Valid(kind)})

\* In whatever order the threads ran, the merged list holds every partition
\* there is once and in order, and the least measures are those of all.
SearchIsComplete ==
  [][/\ phase = "tag" /\ phase' # phase => IsEvery(arr'.tag, "tag")
     /\ phase = "data" /\ phase' # phase /\ ~config.forced =>
          /\ IsEvery(arr'.data, "data")
          /\ min'.data = LowestOf("data")
          /\ ~config.ram => min'.tag = LowestOf("tag")]_searchVars

\* What may be picked: the combinations that meet the deviations.
Eligible(solutions) ==
  {i \in DOMAIN solutions : Meets(Combined(solutions[i]))}
PickedAmong(S(_)) ==
  LET solutions == Solutions(arr.tag, arr.data)
      eligible == Eligible(solutions) \cap S(DOMAIN solutions)
  IN \/ phase = "no_solution" /\ eligible = {}
     \/ /\ phase = "done"
        /\ \A i \in eligible : min_cost <= Cost(Combined(solutions[i]))
        /\ min_cost = Cost(Combined(best))
Chosen == phase \in {"done", "no_solution"}

\* The pick costs least of all the combinations that meet the deviations; but
\* without an energy-delay product the second of the list is never looked at.
PicksLeastOfTheRest ==
  LET rest(D) == IF config.ed \in {1, 2} THEN D ELSE D \ {2}
  IN Chosen => PickedAmong(rest)

\* "Cache model with least cost is picked from sol_list" (the comment of solve).
PicksLeastCost == LET all(D) == D IN Chosen => PickedAmong(all)
=============================================================================
