# A verification project for ChampSim, its prefetcher circuits and CACTI

ChampSim (`src/ChampSim/`) is a trace-driven simulator of an out-of-order core and its memory
system; this repository extends it with prefetchers, with RTL implementations of them
(`src/rtl/`), and carries CACTI (`src/cacti-master/`), which finds the arrays that such caches
are built of. This directory keeps TLA+ specifications of the parts whose correctness depends on
the order of events or on a long chain of decisions, the TLC configurations that check them on
small instances, and TLAPS proofs of properties that hold for every size.

Check a run with `tlc -config X.cfg M` (the pairs are in section 5) and the proofs with
`tlapm M.tla` for each `*Proofs.tla`. Paths below are relative to `src/ChampSim/` unless they
start with `src/`.

## 1. The system

| Component | Source | State | Operations | Talks to |
|---|---|---|---|---|
| Caches and TLBs | `src/cache.cc`, `inc/cache.h`, `inc/block.h`, `src/block.cc` | read, write, prefetch queues; MSHRs; blocks; PROCESSED | `handle_fill`, `handle_writeback`, `handle_read`, `handle_prefetch` each cycle; `add_rq/wq/pq`, `return_data`, `invalidate_entry`, `prefetch_line` | the level below through `add_*`, the levels above through `return_data`, the core through PROCESSED |
| Out-of-order core | `src/ooo_cpu.cc`, `inc/ooo_cpu.h` | IFETCH, DECODE and reorder buffers, LQ, SQ, STA, the six ready rings | trace reading, fetch, decode, schedule, execute, operate_lsq, complete, retire | L1I, DTLB and L1D through their queues and PROCESSED |
| Sets of waiters | `inc/set.h` | sorted array or bits | `insert`, `expand`, `join`, `search` | the core and the caches keep dependents in them |
| Driver | `src/main.cc` | warm-up and region-of-interest counters of each core | the simulation loop, `finish_warmup`, `record_roi_stats` | everything |
| Page tables | `src/main.cc` | `page_table`, `inverse_table`, the run of adjacent pages | `va_to_pa` | STLB misses, `invalidate_entry` of every cache |
| DRAM controller | `src/dram_controller.cc` | one read and one write queue per channel, bank requests, write mode, cached wake-up indexes | `operate`: mode switch, `schedule`, `process`; `add_rq`, `add_wq` | the LLC |
| LRU replacement | `replacement/base_replacement.cc`, `lru.llc_repl` | an `lru` counter per block | `find_victim`, `update_replacement_state` | called by the cache handlers |
| RRIP and SHiP replacement | `replacement/srrip.llc_repl`, `drrip.llc_repl`, `ship.llc_repl` | re-reference counters, set-dueling counters, sampler and table of SHiP | the same | the LLC |
| Prefetchers (RTL) | `src/rtl/*.sv` | queues, tables, state machines | one clock edge | valid/ready ports |
| Prefetchers (C++) | `prefetcher/*` | best-offset, IP-stride, bingo, MLOP, next-line tables | called on every access and fill | `prefetch_line` of their cache |
| Tracers and converters | `tracer/champsim_tracer.cpp`, `cvp_tracer/cvp2champsim.cc` | one record; pages of code and data | instrumentation callbacks; two passes over a trace | `read_from_trace` of the core reads the file |
| CACTI | `src/cacti-master/` | `g_ip`, lists of arrays, lists of memories | `parse_cfg`, `error_checking`, `DynamicParameter`, `solve`, memcad | the modeller, through files |
| Branch predictors, data, scripts | `branch/`, ... | tables, files | - | - |

How they interact. `main` calls `operate` of every component once per cycle. A component changes
the state of another only by calling it: a cache calls `add_rq`, `add_wq` and `add_pq` of the
level below and `return_data` of the caches above; both take effect at once, in the middle of the
caller's handler. A request travels down through the queues, leaving an MSHR entry in every cache
that will fill; the answer marks the entry returned, and a later `handle_fill` fills the block,
answers the next cache up and frees the entry. The page walk below the STLB is a direct call of
`va_to_pa`, which may call `invalidate_entry` of every cache. The DRAM controller keeps requests
in arrays of slots and serves reads or writes, according to its mode. The core gives loads and
stores to the DTLB and then to the L1D and learns of answers by PROCESSED; a retired store goes
to the L1D's write queue. The circuits of `src/rtl` stand for themselves; CACTI, the tracers and
the converter are programs of their own that run once.

What is hard:

- *Merging.* Requests for one line meet in read, write and prefetch queues and in MSHR entries,
  in every order; each meeting joins some of the fields of the two packets and drops others, and
  the fields decide who is answered and whether the line becomes dirty.
- *Refusal.* A full queue refuses (`-2`); some callers ask for room first, some ignore the result.
- *Back pressure.* A dirty victim needs room in the write queue below before a fill may happen.
- *Overtaking.* Page swaps invalidate blocks while requests for them are on the way; writebacks
  fill lines whose reads are in flight.
- *Cached indexes.* The DRAM controller wakes up from `next_schedule_index` and
  `next_process_index`, which every operation must keep fresh, and a mode switch takes back what
  was scheduled.
- *Counters.* LRU ranks, scheduled reads and writes, the unsigned run of adjacent pages.
- *The core's bookkeeping.* One instruction is in up to three places (the reorder buffer, a queue
  slot, a ready ring), and counters of operations in flight decide whether anybody looks for it.
  Operations end in any order, by the caches or by a store that forwards.
- *Finite queues in the core.* Loads take load-queue slots in the order their registers become
  ready.
- *Phases.* The end of the warm-up is declared in the middle of a cycle, by one core, for all.
- *Decisions made in order.* CACTI reads words by prefix, in the order its tests are written, and
  checks fields that some of its entry points never set; its search is shared among threads,
  merged and filtered, and erases from a list while it walks it.
- *One record, many callbacks.* The Pin tracer fills one global record; the converter rewrites
  pages it has already written about.

What makes each part correct:

- *Caches:* every miss has a request below that will answer it, once; every answer finds its miss;
  the core's demand survives every merge; modified lines move down until they reach the DRAM;
  everything in flight drains.
- *Core:* instructions retire in program order and every load sees the youngest older store;
  operands are ready before an instruction starts; nothing ready is forgotten or done twice;
  every instruction retires.
- *Driver:* what is reported of a core is its region of interest and nothing else.
- *Page tables:* the two tables are inverse; no page is allocated twice or beyond the memory; a
  TLB holds a stale translation only if it was in flight at the swap.
- *DRAM controller:* bank requests, counters and wake-up indexes agree with the queues; every
  request is served, once.
- *Replacement:* the LRU counters are the order of use; the searches for a victim end; what was
  just used is not the next victim.
- *Circuits:* the queue is a FIFO; the machines read ahead of the program and no further; a
  tracker in use is not given to another instruction (that there is always one to give does not
  hold: section 6).
- *Tracers:* a record says what its instruction did, a branch keeps its kind, data and code do not
  share a page.
- *CACTI:* a file means what it says; what passes the check can be built; the cut of an array
  loses no bit; the searches look at every partition and network and pick the cheapest.

The hazards, each at its line and with the properties that cover it, are in `PROJECT.json`
("hazards").

## 2. Modules

| Module | What it is |
|---|---|
| `CacheHierarchy` | the caches or the TLBs with their wiring, one set of each |
| `MCCacheData`, `MCCacheTlb` | its two instances for TLC |
| `CacheHierarchyProofs` | proofs about it |
| `OutOfOrderCore` | the core, from the trace to retirement |
| `ProgramOrder` | what a core promises: the abstract specification of `OutOfOrderCore` |
| `OutOfOrderCoreProofs` | proofs about it |
| `MCCore` | its traces for TLC |
| `DramController` | one channel of the DRAM controller, in detail |
| `MemoryService` | what the LLC may expect of the memory: the abstract specification of `DramController` |
| `MCDram`, `DramControllerProofs` | its instance and its proofs |
| `PageTable`, `PageTableProofs` | `va_to_pa` and the way of translations through the TLBs |
| `LruReplacement`, `RecencyOrder` | the LRU policy on one set, what it promises |
| `RripReplacement`, `ShipReplacement` | SRRIP, DRRIP with its duel, SHiP with its sampler |
| `ReplacementProofs` | proofs about all the policies |
| `FastSet` | the core's sets of small numbers |
| `CircularQueue`, `BoundedFifo` | the queue of the RTL, what its clients may rely on |
| `NextLinePrefetcher`, `IpStride`, `BestOffsetLearning` | machines of the RTL |
| `PrefetcherProofs` | proofs about the queue and the machines |
| `MCDevices` | the small machines above, each on its own, in one run |
| `Simulation`, `SimulationProofs` | the program: traces, turns of the cores, warm-up, region of interest; proofs |
| `TraceRecord`, `CvpConverter`, `PinTracer` | a trace record and the kind of branch it tells; the two programs that write them |
| `CactiConfig`, `MCConfig` | CACTI's configuration and its check; files and calls for TLC |
| `ArrayPartition`, `MCPartition` | the cut of an array into subarrays and mats; memories and cuts for TLC |
| `ArraySearch`, `MCSearch` | the threaded search over cuts; its evaluations for TLC |
| `NucaSearch` | the search for a cache of many banks in a network |
| `ToolProofs` | proofs about the programs that write traces and CACTI's cut and searches |
| `MemCad` | the choice of DIMMs, channels and boards |
| `MCTools` | the programs that run once, each on its own, in one run |

### CacheHierarchy

The constant `Cache` chooses one of main's two trees: `L1I, L1D -> L2C -> LLC -> DRAM`, or
`ITLB, DTLB -> STLB -> WALK`. `rq`, `wq`, `pq` are the queues of a node, `mshr[c][x]` the MSHR
entry of line `x` (an entry is only ever added when `check_mshr` found none, so a function by
line says the same as the array), `block[c][w]` a way, `waiting[c]` what the core has asked
a first level for and has not seen in PROCESSED. Packets keep the fields that decide something:
type, fill level, the `fill_l1i`/`fill_l1d` flags (`dest`), and `instruction`/`is_data` (`kind`).

| Action | Code |
|---|---|
| `HandleFill(c, x)` | `handle_fill`: stall for room, eviction, bypass, fill, answer, PROCESSED |
| `ReadHit`, `ReadMiss`, `ReadMerge` | the three cases of `handle_read` |
| `WriteHit`, `RfoMiss`, `RfoMerge`, `WriteFill` | the cases of `handle_writeback`, at the L1D and below |
| `PrefetchHit`, `PrefetchMiss`, `PrefetchMerge` | the cases of `handle_prefetch` |
| `DramRead`, `DramWrite` | the DRAM serves one request (see `DramController`) |
| `CoreRead`, `CoreStore` | the core's `add_rq` and the store that retires |
| `IssuePrefetch` | `prefetch_line`, `prefetch_code_line` |
| `SwapOut`, `AfterWalk` | the invalidations that `va_to_pa` makes |
| `FinishWarmup` | the end of the warm-up |

`add_rq`, `add_pq`, `add_wq` and `return_data` are operators (`AddRq`, `AddPq`, `AddWq`,
`Immediate`, `ReturnData`) used inside the action that calls them, as in the code.

Abstractions: one core (`NUM_CPUS` is 1). Event cycles and latencies are left out; a handler may
run whenever its queue has an entry, and `HandleFill` may take any returned entry, which includes
the order of the code's cycles. One set of every cache; the lines of a page are in different
sets, so a swap invalidates one line here. A replacement policy may choose any way once all are
valid, and the LLC's any way at all. The L1D write queue compares whole addresses, so a line may
be queued twice there. A prefetcher is called inside a handler, and all it does is append to the
prefetch queue of its own cache; it is a step of its own, for any line and fill level. PROCESSED
is emptied at once. Data, statistics and `num_returned` are left out. The ITLB gets no requests
in the runs because `add_to_ifetch_buffer` (`src/ooo_cpu.cc:463-476`) translates code with a
direct call.

### OutOfOrderCore

Instructions are numbered as in the trace. IFETCH_BUFFER, DECODE_BUFFER and the ROB are rings that
are filled and emptied in trace order, so that four counters (`read`, `sent`, `dispatched`,
`retired`) say what each holds. `lq[<<n, i>>]` is the producer of a load that is in the load queue
(0: none), `sq` and `STA` the store queue and the order of stores, `RTE0` .. `RTS1` the rings of
operations that are ready, `dtlb`, `l1d`, `l1i` and `wq` what the caches have been given.
`memory` and `seen` are history: the last store retired to an address, the store a load saw.

| Action | Code |
|---|---|
| `ReadFromTrace`, `ResumeFetch` | `read_from_trace` with the branch predictor's verdict as a choice, `fetch_instruction` |
| `FetchLine`, `L1iAnswer` | the fetch of a line for all instructions on it, `complete_instr_fetch` for the L1I |
| `SendToDecode`, `DecodeAndDispatch` | the heads of the two front-end buffers |
| `DoScheduling` | `schedule_instruction`, `do_scheduling`, `reg_dependency` |
| `ExecuteInstruction` | `execute_instruction` from RTE0 and RTE1 |
| `CompleteExecution` | `update_rob`, `complete_execution`, `reg_RAW_release`, the resumed fetch |
| `ScheduleMemory` | `do_memory_scheduling`, `check_and_add_lsq`, `add_load_queue`, `add_store_queue`, `mem_RAW_dependency` |
| `TranslateLoad`, `TranslateStore`, `ExecuteLoad`, `ExecuteStore` | `operate_lsq`, `execute_load`, `execute_store` |
| `DtlbAnswer`, `L1dAnswer` | `complete_data_fetch` with `handle_merged_translation`, `handle_merged_load` |
| `RetireRob`, `L1dWrite` | `retire_rob`; the L1D takes a store |

Abstractions. Cycles are left out: an entry whose `event_cycle` is not due may be put off, so an
action may wait, and one iteration of a loop of some width is a step. An answer to merged accesses
is a step for each. The `translated` and `fetched` flags of queue entries are replaced by which
ring or cache holds the operation. The write queue is the set of its addresses. Not in the
module, because nothing calls it in this version: `handle_o3_fetch` (2040-2131), the ITLB path of
`complete_instr_fetch` (1893-1940; line fetches are translated by a direct call, 463-476),
`check_rob`, `execute_memory_instruction`. The first record of a trace, which is issued twice
(215-224), and the repetition of a trace that ends are left out: traces are finite here.

### DramController

`queue[q][i]` is slot `i` of the read or write queue, `bank[b]` a `bank_request`, `scheduled` the
counters, `schedule_due` and `next_process_index` the cached indexes. `AddRq`, `AddWq` are the
LLC's calls after the warm-up; `SwitchToWrite` and `SwitchToRead` are the mode switches of
`operate` with `reset_remain_requests`; `Schedule(q)` and `Process(q)` the two steps of a queue.
The switch comes first in every cycle, and with the low watermark not above the high one no
second switch is due after it, so the actions are guarded by "no switch is due" (`Serves`).
Whether a row stays open when a bank is freed is a matter of cycles, so any subset may. The
mapping of addresses to banks and rows is a constant.

### PageTable

`page_table` and `inverse_table` as functions on the mapped pages, the unsigned counter modulo
`MODULUS`, and four sets of translations: answered walks in STLB entries, STLB blocks, DTLB
entries, DTLB blocks. `VaToPa` is the whole of `va_to_pa`: hit, allocation (the next page of the
run, or a draw; taken pages are redrawn) or swap (the first page of the table, since
`recent_page` is never filled). It is called by `Walk` and `TranslateCode`; `FillStlb`, `HitStlb`
and `FillDtlb` move translations up. `overtaken` is a history variable. `page_queue` is written
and never read, and left out.

### LruReplacement

`lru` and `valid` of one set. `Hit`, `Fill`, `Invalidate` are what the cache handlers do with
them, `LruUpdate` and `LruVictims` the functions of `base_replacement.cc`.

### RripReplacement, ShipReplacement

`RFill` and `RHit` are `llc_find_victim`'s ageing search followed by
`llc_update_replacement_state`, for SRRIP and DRRIP (`policy` is the build's choice); PSEL and the
BIP counter duel over leader sets, which are constants. `RStall` is a victim search whose fill is
then put off: ages have changed by then. SHiP adds the sampler of one sampled set and the table
of counters; its sets are drawn at random in the code and a constant here. Statistics are left
out.

### FastSet

Both representations: `values` while there are fewer than SMALL_SIZE elements, `bits` afterwards.
The two share memory in the code, which is why `join` reads words of the other set as bits; the
module keeps that by word. `BehavesAsSet` asks in every reachable state what each `insert(x)` and each
`join(o)` would make of each set: its members and x, or its members and those of o (`InsertAdds`,
`JoinAdds`). A call that should change something and does not is seen that way too.

### The circuits

A step is a clock edge; registers are variables, combinational signals operators.
`CircularQueue` has enqueue, dequeue, both and reset, with the remainder of signed integers that
its `full` relies on. `NextLinePrefetcher` has its three states, with the ports (a demand, a
fetch, the memory's answer, an idle arbiter) as inputs. `IpStride` has the tables of trackers and
one bit each for the order of use. `found_zero` is a variable of the module: `set_mru` is not an
automatic function, so that its local is static and is initialised once, before the first reset
(`src/rtl/ip_stride.sv:105-106`); `reset` does not touch it. A write to the tracker -1 is lost
(`Written`), but `set_mru` runs then too. `BestOffsetLearning` has scores, rounds and the choice of an
offset, truncated to the width of `prefetch_offset`; whether a test hits the table of recent
requests is an input. What reading them showed besides: the offset is zero-extended where a
request is issued (235-238), so that a negative one goes forward, and the tables are read at the
end of the rounds as well (221-223), where nothing is tested.

### Simulation

`OpenTrace` reads the arguments, `Turn(i)` is a core's part of a cycle: its stages (`Steps`, whose
bound is one access a turn, or one page walk and nothing else), the warm-up, which `finish_warmup`
may end for all cores in the middle of the loop, and the end of its region of interest. `Shared`
is the part of DRAM and LLC. Left out: knobs, the heartbeat and the deadlock check (ten swaps of
100 000 cycles in a row could reach its limit without a deadlock). A trace beyond the last core
is written past the arrays (605) before the assertion (673) refuses it.

### TraceRecord, CvpConverter, PinTracer

`TraceRecord` is a record and what `read_from_trace` deduces from it. `CvpConverter` has the two
passes with their sets of pages and the registers written for each kind of branch. X26 is renamed
to 64, which is the flags' number in a CVP trace; an instruction without outputs is recorded as
writing the register of X0; `branch_taken` of what is no branch is not initialised, and so a
choice. `PinTracer` has the callbacks that `Instruction` inserts, one by one, for a program of
one thread.

### CACTI

`CactiConfig` is `parse_cfg` line by line (the tables list every option with its field and its
tests), three `cacti_interface` functions that copy arguments instead, and `error_checking`. Words
are compared by `strncmp` with the length of the test (`IsPrefixOf`), in the order of the code,
in a buffer (`temp_var`) that keeps the word before. The module also has what an unlucky input
does: `exit`, a division by zero, a field nobody has set (`Missing`).

`ArrayPartition` is `DynamicParameter`: the four forms it has (a CAM, a fully associative cache,
the tag or the data of a set-associative one), the rows and columns of a subarray, the mats and
how many an access activates, the widths in and out, the address bits, and the conditions under
which a cut is dropped. PAGE_MODE is 0 in this build. The voltage check of a DRAM bitline is a
bound on rows (`SensedRows`). Timing, area and power are real arithmetic and left out. For
hundreds of cuts of every form the operators give the numbers that the compiled program gives.

`ArraySearch` is `calc_time_mt_wrapper` on its threads, the merge and filters of `solve`, and
`find_optimal_uca`, which erases from the list it walks. What `calculate_time` finds for a cut is
external: a constant. Two of the five measures are kept, all five are treated alike. A `lt` that
ignores the wire type makes equals, whose order the stable merge decides.

`NucaSearch` is `sim_nuca`: the bounds of the search, one `ExploreOrg` for every number of banks,
wire and router with the grid of least latency, and `find_optimal_nuca`, whose erasing differs
from that of `find_optimal_uca` (`EraseNuca`). What `solve`, `Wire` and `Router` find is the
constant `Network`; averages are kept times the number of banks, and the sums over a grid are in
closed form. What an unlucky input does is in the module: a cache smaller than the smallest bank
fails the assertion of `logtwo`, even when the number of banks is given; one of less than two
smallest banks explores nothing, and so does a list whose every element is erased, after which
`print_nuca` has no result to print; 128 banks read the eighth row of a table that has seven
(`src/cacti-master/nuca.cc:376-381`). A wrong number of banks only prints a line (228-232).

`MemCad` is the four steps of `memcad.cc` for boards of equal channels; without `mirror` channels
are combined freely.

## 3. Abstract specifications

`MemoryService` says: a line asked for is answered once, a line written is taken once, in any
order. `DramController` implements it with `reads <- Lines("RQ")`, `writes <- Lines("WQ")`; it is
also what `DramRead`, `DramWrite` and the `Immediate` answers of `CacheHierarchy` use of the
DRAM. `RecencyOrder` keeps, for each way, the set of ways used since; `LruReplacement` implements
it with `newer[w]` the ways of lower `lru`. `ProgramOrder` retires one instruction after the
other, each load seeing the youngest store before it; `OutOfOrderCore` implements it with
`done <- retired` and the stores its loads saw as `result`. `BoundedFifo` says of a clock what
goes in and what comes out; `CircularQueue` implements it with the cells from `front` to `rear`.
It makes plain that an element which passes through an empty queue in one clock is not announced:
in `src/rtl/best_offset_prefetcher.sv:123` the delay queue's `deq` is always one, so that its
queue never holds anything.

## 4. Fairness

`operate` of every component runs in every cycle and calls every handler, so each handler is
weakly fair (`Fairness` in `CacheHierarchy`, `DramController` and `OutOfOrderCore`). Weak fairness
is enough because a handler that can act stays able to until it does, once the requests of the
environment are used up: `MaxRequest` bounds them, and in the core the traces are finite. In the
core, the caches that take and answer accesses are fair too: that is what `EverythingDrains` shows
of them. Nothing is assumed of prefetchers, swaps or the end of the warm-up. The liveness
properties therefore say: after any finite burst of requests, everything asked for arrives. They
do not say that an endless stream of row hits cannot starve a request in the DRAM controller:
FR-FCFS scheduling (`src/dram_controller.cc:123`) allows that.

## 5. Runs

| Run | Module, cfg | Checks | States | Shows |
|---|---|---|---|---|
| prefetch | `MCCacheData`, `CachePrefetch` | TypeOK, DemandIsKept, ModifiedMovesDown | 673 754 | loads, stores and prefetches into every level, two lines fighting for one way everywhere, a bypassing LLC, a DRAM queue of one: no demand and no modified line is lost |
| drains | `MCCacheData`, `CacheDrains` | MissIsServed, ReturnFindsMiss, EverythingDrains | 53 383 | with prefetches from the L1D (into the levels below it), the L2C and the LLC, none from the L1I, and with pages swapped out, every miss has its request below, every answer its miss, and every queue and MSHR empties |
| tlb | `MCCacheTlb`, `CacheTlb` | CoreIsAnswered | 34 882 | translations arrive, with fewer MSHRs below than above and swaps by the walks |
| dram | `MCDram`, `Dram` | BanksServeQueue, CountersAgree, WakeupsAreFresh, ServesTheCache, EverythingServed | 35 285 | queues fill, modes switch in both directions and take back scheduled requests |
| core | `MCCore`, `Core` | TypeOK, OperandsAreReady, CountersAgree, NothingIsForgotten, StoresStayInOrder, ForwardingAgrees, NothingPastMispredict, KeepsProgramOrder, RetiresWhenLoadsFit | 189 774 | all traces of three instructions of five kinds, and longer ones with two loads in an instruction and two branches, through buffers of one to three entries |
| devices | `MCDevices`, `Devices` | TablesInverse, StaleIsOvertaken, PoliciesAreSound, PrefetchersAreSound, KeepsOrderOfUse, KeepsFifoOrder, BehavesAsSet | 299 665 | nine small machines through all their states: four ways of LRU, three kinds of RRIP set, page tables with more pages than memory, a queue of four, sets that grow into bits |
| tools | `MCTools`, `Tools` | RoiIsTheWindow, PhasesAgree, MeansWhatItSays, CheckIsSound, CutIsSound, PicksLeastOfTheRest, MirroredMemoryIsBest, KindIsDeduced, DataAvoidsCode, TraceIsTheWindow, PicksLeastNuca, SearchIsComplete | 756 857 | the programs that run once, from every input of a set chosen so that each branch is taken |
| lost_fill | `MCCacheData`, `CacheLostFill` | MissIsServed violated | | section 6 |
| lost_store | `MCCacheData`, `CacheLostStore` | StoreIsKept violated | | section 6 |
| core_full_queue | `MCCore`, `CoreFullQueue` | EverythingRetires violated | | section 6 |
| search_least | `MCSearch`, `SearchLeast` | PicksLeastCost violated | | section 6 |
| core_two_stores | `MCCore`, `CoreTwoStores` | ForwardingAgrees violated | | section 6 |

`devices` and `tools` run several machines that share nothing: a first step chooses one (`device`,
`tool`), and the others keep still. Properties of one idea are joined there (`PoliciesAreSound`,
`PrefetchersAreSound`, `CheckIsSound`, `CutIsSound`); their parts have names of their own.

Why the bounds are enough.

- *Caches.* Two lines in a set of one way make every fill an eviction and every third access a
  miss below; two MSHRs let two misses overlap, the third waits. Three or four requests are what
  it takes for a miss, a second request that merges with it, and a third that evicts or overtakes:
  every merge in the code involves two packets. The DRAM read queue has one slot for two LLC MSHRs
  so that the LLC meets a full queue, and write queues of one make every writeback wait for room.
  `handle_read` ignores a refusal by the queue below; in the code that queue holds all that the
  caches above may have in flight (the L2C's read queue has 32 entries for 8 + 16 MSHRs, the
  STLB's 32 for 8 + 8), and in the runs it holds every line that can be in flight, so that, as in
  the code, it never refuses. `MaxRequest` is an explicit bound in every action of the environment.
- *DRAM.* Five requests to two banks, one with a shared row and one with two rows, let a queue
  fill while the other drains, pass both watermarks and switch the mode with requests scheduled.
- *Core.* Three instructions through a ROB of three make every dependence there is between two of
  them, with a third between; four and five make the rings wrap and the buffers fill. Two
  addresses and two registers let two chains cross. The L1D's write queue of one makes retirement
  wait.
- *Devices.* The counters' limits are two or three instead of powers of two, so that they are
  reached from every side. Page tables have four pages of address space on three of memory, and draws
  that meet a taken page. A run of adjacent pages that meets a taken one takes a fourth page of
  memory: that case is left to `InverseTheorem` and `RunTheorem`, which cover every size.
- *Tools.* Two threads share three partitions of two row lengths on two wires, with every
  evaluation in which each partition is fast, frugal, poor or impossible. Files have a complete
  base and two more lines, out of one for each option and each word: enough for any line to follow
  any other. Memories are caches of every access mode and odd sizes, CAMs, RAMs, main memories and
  stacked ones, cut in all the ways the code's limits leave useful. Networks have one to eight
  banks, or 128, two routers and three wires, with deviations that leave all, some or none. Traces of two or three
  records, programs of up to four instructions with a window of two, two cores with a region of
  two instructions.

Deadlock checking is off where the environment's budget, the trace or the program ends.

Every property of a passing run is shown to depend on the code: the `mutants` in `PROJECT.json`
replace one definition by a plausible bug (`NewMissNoRoom`, `RegProducerWaiting`,
`EdTestsShortFirst`, ...), and TLC finds the property violated. The mutated definitions stand
beside the ones they replace, under a comment that begins with "Mutant".

## 6. Where the code and its comments disagree

- **lost_fill.** A demand that meets the MSHR entry of a prefetch overwrites it with its own
  packet (`src/cache.cc:755-763`) after the flags were joined, so the first level that prefetched
  is never answered. It takes a code prefetch and a load of one line, which `prefetch` and
  `drains` do not have.
- **lost_store.** A store that merges into the entry of a load leaves the line clean
  (`src/cache.cc:339-363`). `ModifiedMovesDown` is about lines that have become modified.
- **core_full_queue.** Loads take slots of the load queue as their registers become ready
  (`src/ooo_cpu.cc:1157`). When the queue is full of loads that wait for a store, and the store
  for an older load that finds no slot, the core stops. `RetiresWhenLoadsFit`, which holds, says
  that with a load queue for all loads of a ROB it does not.
- **search_least.** `find_optimal_uca` erases from the list it walks and steps over the second
  element when it has erased the first (`src/cacti-master/Ucache.cc:715-728`).
  `PicksLeastOfTheRest`, which holds, says that nothing else is passed over.
- **core_two_stores.** A producer keeps its dependents by instruction, and a store finds the load
  it serves by the address alone (`src/ooo_cpu.cc:1633-1640`). When an instruction has two stores
  and a younger store overwrites one of them, the first store meets a load that waits for the
  younger one, and the assertion at 1647-1651 fails. The CVP converter writes at most one store to
  an instruction (`cvp_tracer/cvp2champsim.cc:558`); the Pin tracer writes as many as the
  instruction has. The `core` run has one store to an instruction, and there the assertion holds.

Noticed on the way, without a run of their own: the stride prefetcher of `src/rtl` runs out of
trackers. `set_mru` is to clear the other bits when all are set and asks `found_zero` whether they
are; that is static, and true from the first call on (`src/rtl/ip_stride.sv:105-120`). Once every
tracker has been used, `lru_idx` stays -1, and where the comment says "Assign the LRU tracker to the
current IP" (125) there is none until the next reset. `PrefetchersAreSound` states it as the code has
it: no bit is cleared, and the instructions in a full table keep their trackers
(`TrackersAreKept`). Also: a writeback fills a line whose read is in flight
(`src/cache.cc:390`), so that a swap may invalidate one of two copies, and the dirty bit of an
invalidated way decides at its next fill (81); a translation in flight when its page is swapped
out is filled afterwards, and `StaleIsOvertaken` says that this is the only way; `recent_page` is
never filled, so the page to swap out is always the first of the table (`src/main.cc:345`);
`draw_rand` may return 0 (`inc/champsim.h:107`). In CACTI: `parse_cfg` looks
for "-dram type" where the shipped files say "-dram_type" (`src/cacti-master/io.cc:704`,
`cache.cfg:189`), so that the type of the memory stays unset; so it is with `-iostate`, `-dram_ecc`,
`-rtt_value`, `-ron_value`, `-tflight_value` and the `-Wire signalling` of `dram.cfg:70`: lines that
no test matches are passed over in silence. `-single ended read ports` matches, but its format
takes "ended" for the name and finds no number in "read ports" (136-139). A fully associative cache
with a bank
smaller than a block divides by zero; a configuration that starts with an empty line loops for
ever; the comment over `num_clk` allows 0 (`cache.cfg:243`) and the code exits; the function with
the NUCA parameters computes `wt` and `is_nuca` and overwrites them; for 128 and 512 subarrays a
CAM loses some, because the square of mats is made of whole numbers (`InMats`); `Ndcm` is read
where results are reported and never set (`Ucache.cc:1046`); an LRDIMM of no DIMMs is looked up
out of bounds in memcad.

## 7. Proofs

Every theorem below is proved for all values of the constants that satisfy the module's
assumptions (which TLC evaluates in the runs).

- **`CacheHierarchyProofs!TypeTheorem`**: `Spec => []TypeOK`, with the bounds on queues and MSHRs.
  TypeOK is inductive by itself: `AddWq` appends only under `CanFill` or `CoreStore`'s guard,
  MSHR entries are added only under `NewMiss`'s and `PrefetchMiss`'s occupancy test, and the
  answers (`ReturnDataType`) never add one. One lemma per action, on lemmas about queues, MSHR
  files (`OneMoreBusy`, `FewerBusy`) and ways.
- **`CacheHierarchyProofs!DemandTheorem`**: `Spec => []DemandIsKept`. The inductive invariant adds
  that a first level's read queue holds demands only (`DemandsQueued`), since a prefetch there
  could take a demand's place, and that the core waits at first levels only.
- **`CacheHierarchyProofs!ReturnTheorem`**, **`ServedTheorem`**: `Spec => []ReturnFindsMiss` and `Spec
  => []MissIsServed`. The inductive invariant `Answers` says of each cache and line (`Once`) that at
  most one of three owes it an answer, a read queued below, a prefetch queued below or an
  entry of the MSHRs below, and that then the cache has a miss that waits; under `Ample` the
  converse too. It needs to know the packets in the queues (`QueuedPackets`): no line is
  twice in a queue, a first level has its own flag only, a read fills every level above. `JoinTargets`
  says that the join of two requests asks for what either asks for; only the demand that takes a
  prefetch's entry over may drop an answer, never add one. `ReturnTheorem` assumes `PrefetchesBelow`, that a prefetcher
  fills its own level or a lower one: so do all those plugged into the L2C and the LLC
  (`prefetcher/ip_stride.l2c_pref:182`, `next_line.llc_pref:11`). Otherwise the answer would
  be for a cache that never asked. `ServedTheorem` also assumes `Ample`. Its half `RoomForMisses` is that
  a read queue has an entry for each MSHR above, true of `inc/cache.h`: 8 + 16 in 32 at the L2C, 32 in 32
  at the LLC, 8 + 8 in 32 at the STLB (lines 24-75); since each queued read belongs to one
  MSHR entry above (`RoomBelow`), `add_rq` then never refuses, which `handle_read` would not
  notice. The other half, `NoneFillsFirst`, is that the first levels
  run without prefetchers that fill them, as with `no.l1d_pref` and `no.l1i_pref`: with them,
  the takeover loses a flag, and `lost_fill` shows the miss that waits for ever.
  The run `drains` has room in the L2C's read queue for its two lines, not for all four MSHRs above:
  there the queue can be full, and no miss is lost because requests for one line share an entry.
- **`CacheHierarchyProofs!ModifiedTheorem`**: `Spec => ModifiedMovesDown`, from `TypeOK` alone. A step's
  three parts are what happens to dirty ways (`DirtyKept`), write queues (`WritesKept`) and RFO
  entries (`FetchesKept`); `FillMoves` covers the two fills, where the line of one part turns up in another. It assumes
  `~Swap`: when physical memory is full, a page that is swapped out takes its dirty lines with it.
- **`DramControllerProofs`**: `BanksTheorem`, `CountersTheorem`, `WakeupsTheorem`, `TypeTheorem`.
  They hold together: serving needs a fresh index to know that the entry at hand is scheduled,
  freeing a bank needs that it serves that entry and no other, and the counters come out right
  after a switch because banks and scheduled entries correspond one to one (`FreedBanks`). The
  inductive invariant is their conjunction with `LinesDiffer` (no line twice in a queue), which
  `RefinementTheorem`, `Spec => ServesTheCache`, needs to know that serving an entry removes its
  line.
- **`PageTableProofs`**: `TypeTheorem`, `InverseTheorem` (inductive with the types),
  `RunTheorem` (the run counter is counted down only where it is above zero or set anew),
  `CountTheorem` (needs the inverse tables: a mapped page is a taken page), `StaleTheorem`.
- **`ReplacementProofs`**, LRU: `RanksTheorem` (the counters are a permutation of the ranks),
  `VictimTheorem` and `RefinementTheorem`, `Spec => KeepsOrderOfUse`. `RanksTaken` says each rank
  is taken; that no two ways share a rank follows by counting (`RanksDiffer`).
- **`ReplacementProofs!PoliciesTheorem`**: `MCSpec => []PoliciesAreSound`, of SRRIP, DRRIP and SHiP.
  For the first two the ages have to be in their range (`AgesInv`); the victim's search then stops at
  the end of that range (`FarthestIs`), whatever the associativity. For SHiP's sampler,
  `SamplerInv` says that the ranks of its entries are a permutation and that no tag is in it twice:
  when a line has no entry and none is free, the last rank names one to replace (`MatchExists`).
- **`PrefetcherProofs!RefinementTheorem`**: `QSpec => KeepsFifoOrder`, for every size from three
  on, with `TypeTheorem`. What waits is the segment of the array from `front` to `rear`; the lemmas
  `OneMore`, `OneLess` and `BothOn` say what a step does to a segment of a ring, and `FullIsSize`
  that the comparison of the circuit, with its remainder of a signed difference, is true exactly
  when all cells are taken. The size of two is left out because there the comparison is always true.
- **`PrefetcherProofs!PrefetchersTheorem`**: `MCSpec => []PrefetchersAreSound`. Each machine has an
  invariant: while the next-line machine is not idle its counter is still below the limit
  (`AheadInv`), or the increment that follows a read would go past it; where a stride tracker's bit is
  set, `found_zero` is true, so that no bit is cleared but by a reset, a tracker whose bit is clear is as
  the reset left it, and of those that hold instruction 0 only the last can be in use (`TrackersInv`;
  it needs two trackers, for the first call of `set_mru` to find a clear bit);
  no score from the offset of the next test on has reached SCORE_MAX (`ScoresInv`), since that ends the
  rounds, so that the increment of a score never wraps around.
- **`ToolProofs!DataTheorem`**: `CSpec => []DataAvoidsCode`, for every CVP trace. New pages are of
  neither code nor data and lie below where the next is sought, so no two pages get the same
  (`PagesInv`), and in the second pass all pages of code and data are known (`ReadInv`). `NewPageIs` says
  that the search for one ends.
- **`ToolProofs!KindTheorem`**: `CSpec => []KindIsDeduced`. Each record written is that of its
  instruction (`WrittenInv`); `BranchIsDeduced` and `PlainIsDeduced` go through the kinds. Both theorems
  take of a trace what the reader asserts, that an unconditional branch is taken (`CvpAssumption`;
  cvp2champsim.cc:165-166): `KindIsDeduced` needs it.
- **`ToolProofs!TraceTheorem`**: `PSpec => []TraceIsTheWindow`, for every program and both knobs.
  Between two calls of an instruction in the window the record is what the calls so far make of an
  empty one (`RecordSoFar`), although the calls of an instruction before the window have written to it
  too: `BeginInstruction` resets it. The lists are described without their history (`KeptOf`: the first
  occurrences, in order, cut at the length of the list), and `ListedIsKept` says that one call adds
  what that list adds. `InstrumentedIs` says which call is the n-th. `Counted` and `InWindow` tie
  `instrCount` and `tracing_on` to the instructions executed.
- **`ToolProofs!SearchTheorem`**: `Spec => SearchIsComplete` of `ArraySearch`, for any number of threads,
  of partitions, row lengths and wire types. The loops of a thread are a list of its share of the
  organisations, each once and in order (`WorkIs`), because what sorting by the number of lesser ones
  gives is a list in order (`SortedIs`: over a finite strict total order these numbers are all
  different). Until its turn is over a thread has found the valid organisations it has passed and
  holds the least of each measure among them (`SoFar`, `SearchInv`). When the threads have joined, the
  shares are all there is (`AllFoundIsValid`), and the least of the threads' least is that of all
  (`LowestOfParts`). `mem_array::lt` is no total order, two wire types are equal to it; the merge is one
  with the threads and the loops to decide (`MergeOrders`), and refines it.
- **`ToolProofs!PicksTheorem`**: `Spec => []PicksLeastOfTheRest`. `PickList` says that while
  `find_optimal_uca` erases behind and under its iterator, what is still to be looked at is the end of
  the list of combinations, so that the iterator and what was erased tell which were looked at; one is
  skipped only if the first was erased. `PickCosts` says that none of those that meet the deviations
  costs less than the pick. "No solution" is told by a cost of BIGNUM, so both need that no
  combination costs as much (`BignumAssumption`; `const.h:103`, 1e30): for the weighted sum this follows
  because no measure of a combination is below the least (`WeightedIsBelow`). Measures are taken to be
  nonnegative (`ArrayAssumption`).
- **`ToolProofs!NucaTheorem`**: `NucaSpec => []PicksLeastNuca` of `NucaSearch`, for all sizes, networks,
  deviations and weights. `SizesInv` says that every bank has a size, because 2 to the
  last number of banks is at most the quotient `logtwo` was asked for; so the grids of a number
  of banks divide it, and one of them is nearest (`NearestIs`, from `OrganisedIs`). While exploring,
  the list is the organisations in the order of the loops (`ExploreInv`). `WalkInv` is what `PickList`
  is for the other search: the rest of the list is the end of all organisations,
  and the second is passed over only when the first was erased. `CheapestInv` says that the pick is
  one of those that meet the deviations and costs no more than any of them that was looked at; here "no
  result" is a null pointer, so no cost has to be below a bound. `NucaAssumption` takes a
  cache of a KB at least, a size that is an `int`, and no more banks than KB;
  `NetworkAssumption` that times and energies of a network are nonnegative. That 2^(k+1) is twice 2^k
  is the assumption `PowerAssumption`, because `^` means nothing to the provers; TLC evaluates it.
- **`ToolProofs!BankTheorem`**: `PartitionSpec => []HoldsTheBank` of `ArrayPartition`, the first half of
  `CutIsSound`, for every memory and every cut. Of the forms CAMs have a lemma (`CamHolds`), fully associative
  caches another (`FullHolds`), tags, data and stacked memories a third (`SetsHold`). Each is an inequality between products: what was rounded up, times what it
  was divided by, is no less than what was divided (`WordsFit`, `TagsFit`), and what was rounded
  down loses less than one unit (`LinesFit`, `HalfOfStack`). `RootIs` says what a square of mats is.
  `PartitionAssumption` takes of the inputs what `error_checking` leaves: nothing is zero, sizes are
  `int`s, what is stacked is not searched and a CAM is no cache (a file sets these by one word,
  `io.cc:175-210`; the function with parameters for stacked memories could set both), and a
  stacked bank has a row for every subarray, without which `_log2` exits; of the cuts that Ndwl and
  Ndbl are powers of two up to MAXDATAN.
- **`SimulationProofs!PhasesTheorem`**, **`RoiTheorem`**: `SimSpec => []PhasesAgree` and `SimSpec =>
  []RoiIsTheWindow`, for every number of cores, width and length. `PhasesInv` counts: while not all
  cores are warm `all_warmup_complete` is the size of the set of warm ones, and one more than
  that afterwards, which is why `IsLast` is true in one turn only (`LastTurn`). `RoiInv` adds that
  until then nothing is counted (`Quiet`), that a core in its region has counted what the history
  saw and is short of its instructions (`Measured`), and that a core past it keeps what it
  reported (`Reports`). `TurnIs` first turns the nested definitions of a turn into the next state.

- **`OutOfOrderCoreProofs`** proves every safety property of the core, for every set of traces and
  all sizes. The inductive invariant is made of parts, each inductive given the ones before it:
  - `CoreTypes` and `Sizes`; the step to `TypeOK` also needs `MemoryInv` (queues and counters are
    nonnegative because they count something) and `UnreadIsZero`.
  - `RegisterInv`, for `OperandsTheorem`. That an instruction waits for its last writer is not
    inductive by itself: `num_reg_dependent` has to be the number of registers it waits for
    (`DependenceCounted`), each in the list of one unfinished writer (`WaitsForOne`,
    `LastWriterKnown`), or a completion could release it too early. `QueuedOnce` says it is in
    RTE0 or RTE1 exactly when it is ready, and outside the ROB all is clear.
  - `BranchInv`, for `MispredictTheorem`: a mispredicted branch is the last instruction read.
  - `StoreQueueInv`, for `StoreOrderTheorem`: SQ and then STA hold the stores in program order,
    and `StaCounts` says how many of each instruction are in STA, so that its head is the one
    `check_and_add_lsq` asks for.
  - `MemoryInv`, for `CountersTheorem` and `ForgottenTheorem`: `CountersInv` (the counters are
    sizes of sets), `LoadQueueInv` (a load names the youngest older store to its address, which
    knows it as a dependent and has not been executed), `AccessInv` (each load that waits for no
    store and each store not executed is in one place once) and `SlotsInv`. It holds with any number of
    stores.
  - `AnsweredByStore`, for `ForwardingTheorem`, and `HistoryInv`, for `ProgramOrderTheorem`: a load
    that is over saw its producer's value, or else the memory's, which no older store can change any more.
    Both theorems assume `OneStore`, that no instruction has two stores: the load queue knows the
    producing instruction and not which of its stores, and `core_two_stores` shows what then
    happens (section 6).
  In `ProgramOrderTheorem`, `Spec => KeepsProgramOrder`, `RetireRob` is the step `Retire` of
  `ProgramOrder` (`RetirementRefines`) and every other step leaves what is retired and its results alone
  (`OtherStepsStutter`). Sizes of sets are compared by bijections (`SameSize`, `CutInTwo`), and
  the youngest of a set of instructions exists because the set is bounded (`Greatest`).

Only model-checked:

- the liveness properties (`EverythingDrains`, `CoreIsAnswered`, `EverythingServed`,
  `RetiresWhenLoadsFit`), because fairness and ENABLED are beyond the provers;
- `BehavesAsSet` of FastSet, `MirroredMemoryIsBest` of MemCad, `MeansWhatItSays` and `CheckIsSound` of
  CACTI's configuration, whose models are made of folds and recursive functions over sequences:
  what those compute is an induction over data, which the provers cannot instantiate;
- `EachBitHasAnAddress`, the second half of `CutIsSound` of ArrayPartition: the addresses are powers of a
  sum of rounded logarithms, and that they neither miss nor double a bit needs every quotient on the way to be exact, which the widths
  of the inputs of the run are chosen for and the code does not check.

## 8. Not modelled

- *CACTI's arithmetic*: delay, area and power of decoders, mats, wires, I/O and technology
  (`mat.cc`, `decoder.cc`, `wire.cc`, `basic_circuit.cc`, `component.cc`, `extio*.cc`,
  `technology.cc`, `TSV.cc`, ...). It is a chain of formulas on real numbers without state or
  order; its results are the constant `Evaluation` of `ArraySearch`. The search over wires
  and what is printed (`io.cc` from `output_UCA` on) are left out too.
- *The C++ prefetchers*: tables that choose lines to prefetch. `CacheHierarchy` lets a prefetcher
  ask for any line at any level, which covers all of them.
- *RTL*: best-offset's tables of recent requests and its memory banks, bingo.
- *Branch predictors* change timing only: the core's model takes any verdict.
- *Experiment data, synthesis libraries, scripts.*
- More than one core on shared caches and DRAM; `Simulation` has several cores, but not their
  contents. Latencies and statistics are abstracted from all modules but `Simulation`, which is
  about them.
- In the caches: the capacity of PROCESSED (`src/cache.cc:182-200` drops an answer when it is
  full), and addresses of zero, which the queues take for empty entries.
- In the Pin tracer: traced programs of several threads, which share the one record.

## 9. Plan

Done: cache hierarchy, replacement policies, DRAM controller, page tables, the queue of the RTL, the
driver, the out-of-order core and the trace writers, each with its proofs; then the other circuits
with proofs of what they have learnt, the sets of waiters and CACTI's decisions, model-checked, and
its cut and both of its searches proved. Next:

1. The recent-requests tables of best-offset against `best_offset.l2c_pref`; bingo.
