--------------------------- MODULE OutOfOrderCore ---------------------------
(***************************************************************************)
(* O3_CPU (src/ChampSim/src/ooo_cpu.cc): a trace is read into IFETCH_BUFFER,*)
(* fetched line by line from the L1I, sent through DECODE_BUFFER into the  *)
(* reorder buffer, scheduled in order, executed out of order, and retired  *)
(* in order.  Loads and stores go through the load and store queues, DTLB  *)
(* and L1D; a store hands its data to the younger loads that wait for it.  *)
(*                                                                         *)
(* Instructions are numbered as in the trace; all buffers are rings filled *)
(* and emptied in that order, so that four counters say what each holds:   *)
(* retired < ROB <= dispatched < DECODE_BUFFER <= sent < IFETCH_BUFFER <=  *)
(* read.  Cycles are abstracted: an entry whose event_cycle is not due may *)
(* be put off, a cache may refuse or answer at any time.  One iteration of *)
(* a loop of width FETCH_WIDTH, EXEC_WIDTH, ... is a step.                 *)
(***************************************************************************)
EXTENDS Integers, Sequences, FiniteSets

CONSTANTS
  Traces,         \* the traces, all finite: [line, src, dst, load, store, branch]
  CodeLine,       \* cache lines of instructions
  Addr, Reg,
  IFETCH_SIZE,    \* IFETCH_BUFFER_SIZE
  DECODE_SIZE,    \* DECODE_BUFFER_SIZE
  ROB_SIZE, LQ_SIZE, SQ_SIZE,
  SCHEDULER_SIZE,
  L1D_WQ_SIZE

Instruction == [line : CodeLine, src : SUBSET Reg, dst : SUBSET Reg,
                load : Seq(Addr), store : Seq(Addr), branch : BOOLEAN]
ASSUME CoreAssumption ==
  /\ Traces \subseteq Seq(Instruction)
  /\ IsFiniteSet(Reg)
  /\ {IFETCH_SIZE, DECODE_SIZE, ROB_SIZE, LQ_SIZE, SQ_SIZE, SCHEDULER_SIZE,
      L1D_WQ_SIZE} \subseteq Nat \ {0}

Progress == {"no", "inflight", "completed"}   \* 0, INFLIGHT, COMPLETED

VARIABLES
  trace,                              \* chosen once
  read, sent, dispatched, retired,    \* the ends of the buffers, see above
  fetch_stall, fetch_resume,          \* fetch_resume: fetch_resume_cycle # 0
  branch_mispredicted,                \* the instructions with this flag
  fetched,                            \* fetched[n]: of the entry in IFETCH_BUFFER
  l1i,                                \* l1i[x]: fetches of line x not yet answered
  scheduled, executed,                \* of the entry in the ROB
  num_mem_ops, num_reg_dependent,
  registers_instrs_depend_on_me,      \* [n]: the pairs <<instruction, source register>>
  memory_instrs_depend_on_me,         \* [n]: instructions
  added,                              \* source_added, destination_added
  STA,                                \* stores not yet in the store queue
  lq,                                 \* lq[x]: producer_id of the load x, 0 for none
  sq,                                 \* the store queue from head to tail
  RTE0, RTE1, RTL0, RTL1, RTS0, RTS1, \* the ready rings
  dtlb, l1d,                          \* accesses not yet answered
  wq,                                 \* addresses in the L1D's write queue
  inflight_reg_executions, inflight_mem_executions,
  memory, seen                        \* history: what memory holds, what loads saw

frontEnd == <<read, sent, fetch_stall, fetched, l1i>>
registers == <<num_reg_dependent, registers_instrs_depend_on_me>>
lsq == <<num_mem_ops, memory_instrs_depend_on_me, added, STA, lq, sq>>
rings == <<RTE0, RTE1, RTL0, RTL1, RTS0, RTS1>>
caches == <<dtlb, l1d, wq>>
inflight == <<inflight_reg_executions, inflight_mem_executions>>
history == <<memory, seen>>
control == <<trace, dispatched, retired, fetch_resume, branch_mispredicted>>
vars == <<control, frontEnd, scheduled, executed, registers, lsq, rings, caches,
          inflight, history>>

-----------------------------------------------------------------------------
(* What the buffers hold.                                                  *)

Id == DOMAIN trace
IFetchBuffer == sent + 1 .. read
DecodeBuffer == dispatched + 1 .. sent
Rob == retired + 1 .. dispatched
RobIndex(n) == (n - 1) % ROB_SIZE
Older(n) == retired + 1 .. n - 1                    \* in the ROB, before n
Youngest(S) == CHOOSE m \in S \cup {0} : \A k \in S : k <= m

\* The finite set S in the order of key: the element at k has k - 1 before it.
Sorted(S, key) == [k \in 1 .. Cardinality(S) |->
  CHOOSE x \in S : Cardinality({y \in S : key[y] < key[x]}) = k - 1]

Loads(n) == DOMAIN trace[n].load
Stores(n) == DOMAIN trace[n].store
Address(x, kind) == trace[x[1]][kind][x[2]]         \* of x = <<instruction, index>>
IsMemory(n) == Loads(n) \cup Stores(n) # {}
RegReady(n) == scheduled[n] # "no" /\ num_reg_dependent[n] = 0

-----------------------------------------------------------------------------
(* Front end.                                                              *)

\* A branch may be mispredicted; nothing is read until it has been executed.
Predict(n, mispredicted) ==
  /\ mispredicted => trace[n].branch
  /\ fetch_stall' = mispredicted
  /\ branch_mispredicted' = branch_mispredicted \cup {m \in {n} : mispredicted}

ReadFromTrace(mispredicted) ==
  LET n == read + 1 IN
  /\ read < Len(trace) /\ read - sent < IFETCH_SIZE
  /\ ~fetch_stall
  /\ Predict(n, mispredicted)
  /\ read' = n
  /\ STA' = STA \o [i \in Stores(n) |-> n]
  /\ num_mem_ops' = [num_mem_ops EXCEPT ![n] = Cardinality(Loads(n)) + Cardinality(Stores(n))]
  /\ UNCHANGED <<trace, sent, dispatched, retired, fetch_resume, fetched, l1i, scheduled,
                 executed, registers, memory_instrs_depend_on_me, added, lq, sq, rings,
                 caches, inflight, history>>

\* fetch_instruction, first part: the mispredicted branch has been executed.
ResumeFetch ==
  /\ fetch_stall /\ fetch_resume
  /\ fetch_stall' = FALSE /\ fetch_resume' = FALSE
  /\ UNCHANGED <<trace, dispatched, retired, branch_mispredicted, read, sent, fetched, l1i,
                 scheduled, executed, registers, lsq, rings, caches, inflight, history>>

OfLine(x) == {m \in IFetchBuffer : trace[m].line = x}
Mark(S, f) == fetched' = [m \in Id |-> IF m \in S THEN f ELSE fetched[m]]

\* Second part: the L1I takes a fetch for entry n, and for all of its line.
FetchLine(n) ==
  /\ n \in IFetchBuffer /\ fetched[n] = "no"
  /\ l1i' = [l1i EXCEPT ![trace[n].line] = @ + 1]
  /\ Mark(OfLine(trace[n].line), "inflight")
  /\ UNCHANGED <<control, read, sent, fetch_stall, scheduled, executed, registers, lsq,
                 rings, caches, inflight, history>>

\* Third part: the first entry, when it has been fetched.
SendToDecode ==
  /\ sent < read /\ fetched[sent + 1] = "completed"
  /\ sent - dispatched < DECODE_SIZE
  /\ sent' = sent + 1
  /\ Mark({sent + 1}, "no")
  /\ UNCHANGED <<control, read, fetch_stall, l1i, scheduled, executed, registers, lsq,
                 rings, caches, inflight, history>>

\* complete_instr_fetch: an answer of the L1I to k fetches it has merged.
L1iAnswer(x, k) ==
  /\ k <= l1i[x]
  /\ l1i' = [l1i EXCEPT ![x] = @ - k]
  /\ Mark(OfLine(x), "completed")
  /\ UNCHANGED <<control, read, sent, fetch_stall, scheduled, executed, registers, lsq,
                 rings, caches, inflight, history>>

DecodeAndDispatch ==
  /\ dispatched < sent /\ dispatched - retired < ROB_SIZE
  /\ dispatched' = dispatched + 1
  /\ UNCHANGED <<trace, retired, fetch_resume, branch_mispredicted, frontEnd, scheduled,
                 executed, registers, lsq, rings, caches, inflight, history>>

-----------------------------------------------------------------------------
(* Scheduling and execution.                                               *)

\* Mutant: an instruction that is executing counts as done.
RegProducerWaiting(n, r) == Youngest({m \in Older(n) : executed[m] = "no" /\ r \in trace[m].dst})

\* reg_dependency: the youngest unexecuted older writer of register r, or 0.
RegProducer(n, r) ==
  Youngest({m \in Older(n) : executed[m] # "completed" /\ r \in trace[m].dst})

\* schedule_instruction.  next_fetch[1] is never set: the search goes from
\* the head to the end of the array and not round it.
DoScheduling(n) ==
  LET waits == {r \in trace[n].src : RegProducer(n, r) # 0} IN
  /\ n \in Rob /\ scheduled[n] = "no"
  /\ \A m \in Older(n) : scheduled[m] # "no"
  /\ RobIndex(retired + 1) <= RobIndex(n) /\ n - retired <= SCHEDULER_SIZE
  /\ scheduled' = [scheduled EXCEPT ![n] = IF IsMemory(n) THEN "inflight" ELSE "completed"]
  /\ num_reg_dependent' = [num_reg_dependent EXCEPT ![n] = Cardinality(waits)]
  /\ registers_instrs_depend_on_me' =
       [m \in Id |-> registers_instrs_depend_on_me[m]
                       \cup {<<n, r>> : r \in {r \in waits : RegProducer(n, r) = m}}]
  /\ RTE1' = IF ~IsMemory(n) /\ waits = {} THEN Append(RTE1, n) ELSE RTE1
  /\ UNCHANGED <<control, frontEnd, executed, lsq, RTE0, RTL0, RTL1, RTS0, RTS1, caches,
                 inflight, history>>

DoExecution(n) ==
  /\ executed' = [executed EXCEPT ![n] = "inflight"]
  /\ inflight_reg_executions' = inflight_reg_executions + 1
  /\ UNCHANGED <<control, frontEnd, scheduled, registers, lsq, RTL0, RTL1, RTS0, RTS1,
                 caches, inflight_mem_executions, history>>

ExecuteInstruction ==
  \/ RTE0 # <<>> /\ DoExecution(Head(RTE0)) /\ RTE0' = Tail(RTE0) /\ UNCHANGED RTE1
  \/ RTE1 # <<>> /\ DoExecution(Head(RTE1)) /\ RTE1' = Tail(RTE1) /\ UNCHANGED RTE0

\* The source registers of d that wait for n.
WaitsFor(d, n) == {r \in Reg : <<d, r>> \in registers_instrs_depend_on_me[n]}

\* Mutants: the first producer releases; any completion ends the stall; update_rob
\* looks for entries to complete only when registers are in flight.
ReadyEarly(n) == {d \in Id : WaitsFor(d, n) # {}}
ResumesAlways(n) == branch_mispredicted # {}
RegistersInFlight == inflight_reg_executions > 0

Ready(n) ==   \* the instructions that wait for n only
  {d \in Id : WaitsFor(d, n) # {} /\ num_reg_dependent[d] = Cardinality(WaitsFor(d, n))}
Resumes(n) == n \in branch_mispredicted
SomeInFlight == inflight_reg_executions + inflight_mem_executions > 0

\* update_rob and complete_execution, with reg_RAW_release.
CompleteExecution(n) ==
  LET ready == Ready(n)
      toExecute == Sorted({d \in ready : ~IsMemory(d)}, [d \in Id |-> RobIndex(d)])
  IN
  /\ SomeInFlight
  /\ n \in Rob /\ executed[n] = "inflight"
  /\ IsMemory(n) => num_mem_ops[n] = 0
  /\ executed' = [executed EXCEPT ![n] = "completed"]
  /\ IF IsMemory(n)
       THEN /\ inflight_mem_executions' = inflight_mem_executions - 1
            /\ UNCHANGED inflight_reg_executions
       ELSE /\ inflight_reg_executions' = inflight_reg_executions - 1
            /\ UNCHANGED inflight_mem_executions
  /\ num_reg_dependent' =
       [d \in Id |-> num_reg_dependent[d] - Cardinality(WaitsFor(d, n))]
  /\ scheduled' = [d \in Id |-> IF d \notin ready THEN scheduled[d]
                                ELSE IF IsMemory(d) THEN "inflight" ELSE "completed"]
  /\ RTE0' = RTE0 \o toExecute
  /\ fetch_resume' = (fetch_resume \/ Resumes(n))
  /\ UNCHANGED <<trace, dispatched, retired, branch_mispredicted, frontEnd,
                 registers_instrs_depend_on_me, lsq, RTE1, RTL0, RTL1, RTS0, RTS1, caches,
                 history>>

-----------------------------------------------------------------------------
(* Loads and stores.                                                       *)

\* Mutant: the oldest one.
MemProducerOldest(x) ==
  LET stores == {m \in Older(x[1]) :
                   \E i \in Stores(m) : trace[m].store[i] = Address(x, "load")}
  IN CHOOSE m \in stores \cup {0} : stores # {} => m \in stores /\ \A k \in stores : m <= k

\* mem_RAW_dependency: the youngest older instruction in the ROB that stores
\* to the address of the load x, or 0.
MemProducer(x) ==
  Youngest({m \in Older(x[1]) : \E i \in Stores(m) : trace[m].store[i] = Address(x, "load")})

\* Mutant: the store is in the queue, be it executed or not.
ForwardedUnexecuted(x) ==
  \E k \in DOMAIN sq : /\ sq[k].op[1] = MemProducer(x)
                       /\ Address(sq[k].op, "store") = Address(x, "load")

\* Its store has been executed: the load is answered when it is added.
ForwardedAtOnce(x) ==
  \E k \in DOMAIN sq : /\ sq[k].op[1] = MemProducer(x) /\ sq[k].executed
                       /\ Address(sq[k].op, "store") = Address(x, "load")

\* check_and_add_lsq: what of instruction n enters the queues now.  A load
\* answered at once needs a free slot, but gives it back.
LoadsTaken(n) ==
  LET rest == {i \in Loads(n) : <<"load", i>> \notin added[n]}
      kept(i) == {j \in rest : j < i /\ ~ForwardedAtOnce(<<n, j>>)}
  IN {i \in rest : Cardinality(kept(i)) < LQ_SIZE - Cardinality(DOMAIN lq)}

\* Mutant: stores enter whenever there is room.
StoresTakenUnordered(n) ==
  {i \in Stores(n) : /\ <<"store", i>> \notin added[n]
                     /\ Cardinality({j \in Stores(n) : <<"store", j>> \notin added[n] /\ j < i})
                          < SQ_SIZE - Len(sq)}

StoresTaken(n) ==
  LET rest == {i \in Stores(n) : <<"store", i>> \notin added[n]}
  IN {i \in rest : /\ STA # <<>> /\ Head(STA) = n
                   /\ Cardinality({j \in rest : j < i}) < SQ_SIZE - Len(sq)}

CanBeScheduled(n) == /\ IsMemory(n) /\ RegReady(n) /\ scheduled[n] = "inflight"
CanBeAdded(n) == LoadsTaken(n) \cup StoresTaken(n) # {}
InSequence(n, I) == [k \in 1 .. Cardinality(I) |-> <<n, Sorted(I, [i \in I |-> i])[k]>>]

\* schedule_memory_instruction and do_memory_scheduling, for the first
\* instruction that finds room.
ScheduleMemory(n) ==
  LET loads == LoadsTaken(n)
      stores == StoresTaken(n)
      forwarded == {i \in loads : ForwardedAtOnce(<<n, i>>)}
      kept == loads \ forwarded
      all == added[n] \cup ({"load"} \X loads) \cup ({"store"} \X stores)
      complete == all = ({"load"} \X Loads(n)) \cup ({"store"} \X Stores(n))
      left == num_mem_ops[n] - Cardinality(forwarded)
  IN
  /\ n \in Rob /\ CanBeScheduled(n) /\ CanBeAdded(n)
  /\ \A m \in Older(n) : CanBeScheduled(m) => ~CanBeAdded(m)
  /\ Cardinality({m \in Older(n) : CanBeScheduled(m)}) < SCHEDULER_SIZE
  /\ added' = [added EXCEPT ![n] = all]
  /\ scheduled' = [scheduled EXCEPT ![n] = IF complete THEN "completed" ELSE @]
  /\ executed' = [executed EXCEPT ![n] = IF complete THEN "inflight" ELSE @]
  /\ num_mem_ops' = [num_mem_ops EXCEPT ![n] = left]
  /\ inflight_mem_executions' =
       inflight_mem_executions + (IF forwarded # {} /\ left = 0 THEN 1 ELSE 0)
  /\ memory_instrs_depend_on_me' =
       [m \in Id |-> memory_instrs_depend_on_me[m]
                       \cup {d \in {n} : \E i \in loads : MemProducer(<<n, i>>) = m}]
  /\ lq' = [x \in DOMAIN lq \cup ({n} \X kept) |->
              IF x[1] = n /\ x[2] \in kept THEN MemProducer(x) ELSE lq[x]]
  /\ RTL0' = RTL0 \o InSequence(n, {i \in kept : MemProducer(<<n, i>>) = 0})
  /\ sq' = sq \o [k \in 1 .. Cardinality(stores) |->
                    [op |-> InSequence(n, stores)[k], executed |-> FALSE]]
  /\ STA' = SubSeq(STA, Cardinality(stores) + 1, Len(STA))
  /\ RTS0' = RTS0 \o InSequence(n, stores)
  /\ seen' = [x \in DOMAIN seen |->
                IF x[1] = n /\ x[2] \in forwarded THEN MemProducer(x) ELSE seen[x]]
  /\ UNCHANGED <<control, frontEnd, registers, RTE0, RTE1, RTL1, RTS1, caches,
                 inflight_reg_executions, memory>>

\* operate_lsq: the four rings.  The DTLB takes a store's or a load's access.
TranslateStore ==
  /\ RTS0 # <<>>
  /\ dtlb' = dtlb \cup {[type |-> "RFO", op |-> Head(RTS0)]} /\ RTS0' = Tail(RTS0)
  /\ UNCHANGED <<control, frontEnd, scheduled, executed, registers, lsq, RTE0, RTE1, RTL0,
                 RTL1, RTS1, l1d, wq, inflight, history>>
TranslateLoad ==
  /\ RTL0 # <<>>
  /\ dtlb' = dtlb \cup {[type |-> "LOAD", op |-> Head(RTL0)]} /\ RTL0' = Tail(RTL0)
  /\ UNCHANGED <<control, frontEnd, scheduled, executed, registers, lsq, RTE0, RTE1, RTL1,
                 RTS0, RTS1, l1d, wq, inflight, history>>

\* Mutant: every operation that ends counts as the last of its instruction.
FinishEach(ops, loads) ==
  /\ num_mem_ops' = [m \in Id |-> num_mem_ops[m] - Cardinality({x \in ops : x[1] = m})]
  /\ inflight_mem_executions' = inflight_mem_executions + Cardinality(ops)
  /\ lq' = [x \in DOMAIN lq \ loads |-> lq[x]]

\* Operations of instructions end: num_mem_ops, inflight_mem_executions,
\* and release_load_queue for the loads among them.
Finish(ops, loads) ==
  LET left == [m \in Id |-> num_mem_ops[m] - Cardinality({x \in ops : x[1] = m})]
      ended == {m \in Id : left[m] = 0 /\ num_mem_ops[m] # 0}
  IN /\ num_mem_ops' = left
     /\ inflight_mem_executions' = inflight_mem_executions + Cardinality(ended)
     /\ lq' = [x \in DOMAIN lq \ loads |-> lq[x]]

\* The added loads that wait for the store x.
Dependents(x) ==
  {y \in DOMAIN seen : /\ y[1] \in memory_instrs_depend_on_me[x[1]]
                       /\ <<"load", y[2]>> \in added[y[1]]
                       /\ Address(y, "load") = Address(x, "store")}

ExecuteStore ==
  LET x == Head(RTS1) IN
  /\ RTS1 # <<>> /\ RTS1' = Tail(RTS1)
  /\ sq' = [k \in DOMAIN sq |-> IF sq[k].op = x THEN [sq[k] EXCEPT !.executed = TRUE]
                                ELSE sq[k]]
  /\ LET served == Dependents(x) \cap DOMAIN lq
     IN /\ Finish({x} \cup served, served)
        /\ seen' = [y \in DOMAIN seen |-> IF y \in served THEN x[1] ELSE seen[y]]
  /\ UNCHANGED <<control, frontEnd, scheduled, executed, registers,
                 memory_instrs_depend_on_me, added, STA, RTE0, RTE1, RTL0, RTL1, RTS0,
                 caches, inflight_reg_executions, memory>>

\* The L1D takes the load; its data is what has been retired so far.
ExecuteLoad ==
  LET x == Head(RTL1) IN
  /\ RTL1 # <<>> /\ RTL1' = Tail(RTL1)
  /\ l1d' = l1d \cup {x}
  /\ seen' = [seen EXCEPT ![x] = memory[Address(x, "load")]]
  /\ UNCHANGED <<control, frontEnd, scheduled, executed, registers, lsq, RTE0, RTE1, RTL0,
                 RTS0, RTS1, dtlb, wq, inflight, memory>>

\* complete_data_fetch with handle_merged_translation and handle_merged_load:
\* an answer to merged accesses is one such step for each.
DtlbAnswer(p) ==
  /\ p \in dtlb /\ dtlb' = dtlb \ {p}
  /\ IF p.type = "RFO" THEN RTS1' = Append(RTS1, p.op) /\ UNCHANGED RTL1
                       ELSE RTL1' = Append(RTL1, p.op) /\ UNCHANGED RTS1
  /\ UNCHANGED <<control, frontEnd, scheduled, executed, registers, lsq, RTE0, RTE1, RTL0,
                 RTS0, l1d, wq, inflight, history>>
L1dAnswer(x) ==
  /\ x \in l1d /\ l1d' = l1d \ {x}
  /\ Finish({x}, {x})
  /\ UNCHANGED <<control, frontEnd, scheduled, executed, registers,
                 memory_instrs_depend_on_me, added, STA, sq, rings, dtlb, wq,
                 inflight_reg_executions, history>>

-----------------------------------------------------------------------------
(* Retirement.                                                             *)

\* Mutant: room for one store is taken for room for all.
RoomForOne(n) == Cardinality(wq) <= L1D_WQ_SIZE
RoomToRetire(n) == Stores(n) = {} \/ Cardinality(wq) + Cardinality(Stores(n)) <= L1D_WQ_SIZE

RetireRob ==
  LET n == retired + 1
      written == {trace[n].store[i] : i \in Stores(n)}
  IN
  /\ n \in Rob /\ executed[n] = "completed"
  /\ RoomToRetire(n)
  /\ retired' = n
  /\ wq' = wq \cup written
  /\ memory' = [a \in Addr |-> IF a \in written THEN n ELSE memory[a]]
  /\ sq' = SubSeq(sq, Cardinality(Stores(n)) + 1, Len(sq))
  \* the entry is cleared
  /\ scheduled' = [scheduled EXCEPT ![n] = "no"]
  /\ executed' = [executed EXCEPT ![n] = "no"]
  /\ added' = [added EXCEPT ![n] = {}]
  /\ registers_instrs_depend_on_me' = [registers_instrs_depend_on_me EXCEPT ![n] = {}]
  /\ memory_instrs_depend_on_me' = [memory_instrs_depend_on_me EXCEPT ![n] = {}]
  /\ branch_mispredicted' = branch_mispredicted \ {n}
  /\ UNCHANGED <<trace, dispatched, fetch_resume, frontEnd, num_reg_dependent, num_mem_ops,
                 STA, lq, rings, dtlb, l1d, inflight, seen>>

\* The L1D takes a store out of its write queue.
L1dWrite(a) ==
  /\ a \in wq /\ wq' = wq \ {a}
  /\ UNCHANGED <<control, frontEnd, scheduled, executed, registers, lsq, rings, dtlb, l1d,
                 inflight, history>>

-----------------------------------------------------------------------------
Init ==
  /\ trace \in Traces
  /\ read = 0 /\ sent = 0 /\ dispatched = 0 /\ retired = 0
  /\ fetch_stall = FALSE /\ fetch_resume = FALSE /\ branch_mispredicted = {}
  /\ fetched = [n \in Id |-> "no"] /\ l1i = [x \in CodeLine |-> 0]
  /\ scheduled = [n \in Id |-> "no"] /\ executed = [n \in Id |-> "no"]
  /\ num_mem_ops = [n \in Id |-> 0] /\ num_reg_dependent = [n \in Id |-> 0]
  /\ registers_instrs_depend_on_me = [n \in Id |-> {}]
  /\ memory_instrs_depend_on_me = [n \in Id |-> {}]
  /\ added = [n \in Id |-> {}] /\ STA = <<>> /\ lq = <<>> /\ sq = <<>>
  /\ RTE0 = <<>> /\ RTE1 = <<>> /\ RTL0 = <<>> /\ RTL1 = <<>> /\ RTS0 = <<>> /\ RTS1 = <<>>
  /\ dtlb = {} /\ l1d = {} /\ wq = {}
  /\ inflight_reg_executions = 0 /\ inflight_mem_executions = 0
  /\ memory = [a \in Addr |-> 0]
  /\ seen = [x \in UNION {{n} \X Loads(n) : n \in Id} |-> -1]

Next ==
  \/ \E mispredicted \in BOOLEAN : ReadFromTrace(mispredicted)
  \/ ResumeFetch \/ SendToDecode \/ DecodeAndDispatch
  \/ \E n \in Id : FetchLine(n) \/ DoScheduling(n) \/ CompleteExecution(n) \/ ScheduleMemory(n)
  \/ \E x \in CodeLine, k \in 1 .. Len(trace) : L1iAnswer(x, k)
  \/ ExecuteInstruction
  \/ TranslateStore \/ TranslateLoad \/ ExecuteStore \/ ExecuteLoad
  \/ \E p \in dtlb : DtlbAnswer(p)
  \/ \E x \in l1d : L1dAnswer(x)
  \/ RetireRob
  \/ \E a \in Addr : L1dWrite(a)

\* main calls every stage in every cycle; latencies are finite, and the caches
\* take and answer every access in the end.
Fairness ==
  /\ WF_vars(ReadFromTrace(FALSE) \/ ReadFromTrace(TRUE))
  /\ WF_vars(ResumeFetch) /\ WF_vars(SendToDecode) /\ WF_vars(DecodeAndDispatch)
  /\ WF_vars(\E n \in Id : FetchLine(n)) /\ WF_vars(\E n \in Id : DoScheduling(n))
  /\ WF_vars(\E n \in Id : CompleteExecution(n)) /\ WF_vars(\E n \in Id : ScheduleMemory(n))
  /\ \A x \in CodeLine : WF_vars(\E k \in 1 .. Len(trace) : L1iAnswer(x, k))
  /\ WF_vars(RTE0 # <<>> /\ ExecuteInstruction) /\ WF_vars(RTE1 # <<>> /\ ExecuteInstruction)
  /\ WF_vars(TranslateStore) /\ WF_vars(TranslateLoad)
  /\ WF_vars(ExecuteStore) /\ WF_vars(ExecuteLoad)
  /\ WF_vars(\E p \in dtlb : DtlbAnswer(p)) /\ WF_vars(\E x \in l1d : L1dAnswer(x))
  /\ WF_vars(RetireRob) /\ WF_vars(\E a \in Addr : L1dWrite(a))

Spec == Init /\ [][Next]_vars
FairSpec == Spec /\ Fairness

-----------------------------------------------------------------------------
(* Properties.                                                             *)

Op == {"load", "store"} \X (Nat \ {0})
TypeOK ==
  /\ trace \in Traces
  /\ retired <= dispatched /\ dispatched <= sent /\ sent <= read /\ read <= Len(trace)
  /\ Cardinality(IFetchBuffer) <= IFETCH_SIZE /\ Cardinality(DecodeBuffer) <= DECODE_SIZE
  /\ Cardinality(Rob) <= ROB_SIZE
  /\ Cardinality(DOMAIN lq) <= LQ_SIZE /\ Len(sq) <= SQ_SIZE
  /\ Cardinality(wq) <= L1D_WQ_SIZE
  /\ fetched \in [Id -> Progress]
  /\ scheduled \in [Id -> Progress] /\ executed \in [Id -> Progress]
  /\ num_mem_ops \in [Id -> Nat] /\ num_reg_dependent \in [Id -> Nat]
  /\ \A n \in Id : added[n] \subseteq Op
  /\ inflight_reg_executions \in Nat /\ inflight_mem_executions \in Nat

\* Whatever runs out of order, overtakes or is forwarded, instructions retire
\* in the order of the trace and every load saw the youngest older store.
InOrder == INSTANCE ProgramOrder WITH
  done <- retired,
  result <- [n \in 1 .. retired |-> [i \in Loads(n) |-> seen[<<n, i>>]]]
KeepsProgramOrder == InOrder!Spec

\* An instruction starts only when the last writers of its sources are done.
OperandsAreReady ==
  \A n \in Rob : executed[n] # "no" \/ added[n] # {} =>
    \A r \in trace[n].src :
      LET writer == Youngest({m \in Older(n) : r \in trace[m].dst})
      IN writer # 0 => executed[writer] = "completed"

\* num_mem_ops counts the operations that are not over, and the two in-flight
\* counters the entries that update_rob has to complete: at zero it would not
\* look for them.
CountersAgree ==
  /\ \A n \in 1 .. read :
       num_mem_ops[n] =
         Cardinality({i \in Loads(n) : n > retired /\ (<<"load", i>> \in added[n] =>
                                                         <<n, i>> \in DOMAIN lq)})
         + Cardinality({i \in Stores(n) : n > retired /\
              ~ \E k \in DOMAIN sq : sq[k].op = <<n, i>> /\ sq[k].executed})
  /\ inflight_reg_executions =
       Cardinality({n \in Rob : ~IsMemory(n) /\ executed[n] = "inflight"})
  /\ inflight_mem_executions =
       Cardinality({n \in Rob : IsMemory(n) /\ num_mem_ops[n] = 0 /\ executed[n] # "completed"})

\* What is ready waits in one place, once: nothing is forgotten and nothing
\* executes twice (the assertions on RTE0 and RTE1 rest on it).
Count(x, s) == Cardinality({k \in DOMAIN s : s[k] = x})
Pending(x, p, r0, r1) == Count(x, r0) + Count(x, r1) + Cardinality({x} \cap p)
NothingIsForgotten ==
  /\ \A n \in Id : Pending(n, {}, RTE0, RTE1) =
       IF n \in Rob /\ ~IsMemory(n) /\ RegReady(n) /\ executed[n] = "no" THEN 1 ELSE 0
  /\ \A x \in DOMAIN seen :
       Pending(x, {p.op : p \in {p \in dtlb : p.type = "LOAD"}} \cup l1d, RTL0, RTL1) =
         IF x \in DOMAIN lq /\ lq[x] = 0 THEN 1 ELSE 0
  /\ \A k \in DOMAIN sq :
       Pending(sq[k].op, {p.op : p \in {p \in dtlb : p.type = "RFO"}}, RTS0, RTS1) =
         IF sq[k].executed THEN 0 ELSE 1

\* The store queue and STA together are the stores of the trace that have not
\* retired, in program order: SQ.head always names a store of the ROB's head.
StoresStayInOrder ==
  LET stores == [k \in DOMAIN sq |-> sq[k].op[1]] \o STA
  IN /\ \A j, k \in DOMAIN stores : j <= k => stores[j] <= stores[k]
     /\ \A n \in Id : Count(n, stores) =
          IF n \in retired + 1 .. read THEN Cardinality(Stores(n)) ELSE 0

\* The assertion of execute_store: a load that the store serves is in the load
\* queue and names the store's instruction as its producer.
ForwardingAgrees ==
  \A k \in DOMAIN sq : ~sq[k].executed =>
    \A y \in Dependents(sq[k].op) : y \in DOMAIN lq /\ lq[y] = sq[k].op[1]

\* Nothing is read past a mispredicted branch before it has been executed.
NothingPastMispredict ==
  \A b \in branch_mispredicted :
    executed[b] # "completed" => read = b /\ fetch_stall /\ ~fetch_resume

\* Every instruction of the trace retires.
EverythingRetires == <>(retired = Len(trace))

\* So it does when the load queue holds all loads the ROB may hold.
LoadsFit ==
  \A n \in Id : Cardinality({x \in DOMAIN seen : x[1] \in n .. n + ROB_SIZE - 1}) <= LQ_SIZE
RetiresWhenLoadsFit == LoadsFit => EverythingRetires
=============================================================================
