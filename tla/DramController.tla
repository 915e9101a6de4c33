--------------------------- MODULE DramController ---------------------------
(***************************************************************************)
(* One channel of MEMORY_CONTROLLER (src/ChampSim/src/dram_controller.cc)  *)
(* after the warm-up: the read and write queues as arrays of slots, the    *)
(* bank_request of every bank, the write mode, and the cached indexes      *)
(* next_schedule_index and next_process_index that wake operate up.        *)
(*                                                                         *)
(* Cycles are abstracted: where the code takes the entry with the least    *)
(* event cycle any entry may be it, and a due step may be put off.  The    *)
(* steps of operate are actions of their own.  A switch of mode comes      *)
(* first in every cycle, and with the low watermark below the high one no  *)
(* second switch is due after it: so the other steps run when none is due. *)
(***************************************************************************)
EXTENDS Integers, FiniteSets

CONSTANTS
  Line,       \* line addresses of this channel
  Bank, Row,  \* banks (of all ranks) and rows
  BankOf,     \* BankOf[x], RowOf[x]: dram_get_rank/bank, dram_get_row
  RowOf,
  SIZE,       \* SIZE[q]: DRAM_RQ_SIZE, DRAM_WQ_SIZE
  HIGH_WM,    \* DRAM_WRITE_HIGH_WM
  LOW_WM,     \* DRAM_WRITE_LOW_WM
  MaxRequest, \* bound: requests the LLC makes
  None        \* an empty slot (address 0), a closed row

Queue == {"RQ", "WQ"}
Slot(q) == 0 .. SIZE[q] - 1

ASSUME DramAssumption ==
  /\ IsFiniteSet(Line)
  /\ BankOf \in [Line -> Bank] /\ RowOf \in [Line -> Row]
  /\ SIZE \in [Queue -> Nat]
  /\ HIGH_WM \in Nat /\ LOW_WM \in Nat /\ LOW_WM <= HIGH_WM
  /\ MaxRequest \in Nat

Entry == [line : Line, scheduled : BOOLEAN]
ASSUME NoneAssumption == None \notin Entry \cup Row

VARIABLES
  queue,               \* queue[q][i]: slot i of the queue, or None
  bank,                \* bank_request[b]
  write_mode,
  scheduled,           \* scheduled[q]: scheduled_reads, scheduled_writes
  schedule_due,        \* [q]: next_schedule_index names an entry to wake up for
  next_process_index,  \* [q]: the scheduled entry served next, or SIZE[q]
  issued               \* requests so far, at most MaxRequest

vars == <<queue, bank, write_mode, scheduled, schedule_due,
          next_process_index, issued>>

BankRequest == [working : BOOLEAN, request_index : Nat \cup {-1},
                is_read : BOOLEAN, is_write : BOOLEAN, open_row : Row \cup {None}]
IdleBank(row) == [working |-> FALSE, request_index |-> -1, is_read |-> FALSE,
                  is_write |-> FALSE, open_row |-> row]

-----------------------------------------------------------------------------
(* Queues s of slots: their entries, the entries to schedule and to serve. *)

Entries(q, s)   == {i \in Slot(q) : s[i] # None}
Waiting(q, s)   == {i \in Entries(q, s) : ~s[i].scheduled}
Scheduled(q, s) == {i \in Entries(q, s) : s[i].scheduled}
Occupancy(q) == Cardinality(Entries(q, queue[q]))
Lines(q) == {queue[q][i].line : i \in Entries(q, queue[q])}
BankAt(q, i) == BankOf[queue[q][i].line]

\* update_schedule_cycle and update_process_cycle on the slots s: the entry
\* with the least event cycle, or SIZE when there is none.
UpdateScheduleCycle(q, s) == Waiting(q, s) # {}
UpdateProcessCycle(q, s) ==
  IF Scheduled(q, s) = {} THEN {SIZE[q]} ELSE Scheduled(q, s)

-----------------------------------------------------------------------------
(* Requests of the LLC, which asks for room before it makes one.           *)

NewRequest(q) ==
  /\ issued < MaxRequest /\ issued' = issued + 1
  /\ Occupancy(q) < SIZE[q]
  /\ UNCHANGED <<bank, write_mode, scheduled, next_process_index>>

\* The request takes the first empty slot.
Put(q, x) ==
  \E slot \in Slot(q) \ Entries(q, queue[q]) :
    /\ \A i \in Slot(q) \ Entries(q, queue[q]) : slot <= i
    /\ queue' = [queue EXCEPT ![q][slot] = [line |-> x, scheduled |-> FALSE]]

\* Mutant: a new request does not wake the scheduler.
EnqueueAsleep(q, x) == NewRequest(q) /\ Put(q, x) /\ UNCHANGED schedule_due

Enqueue(q, x) ==
  /\ NewRequest(q)
  /\ Put(q, x)
  /\ schedule_due' = [schedule_due EXCEPT ![q] = UpdateScheduleCycle(q, queue'[q])]

\* Mutant: reads do not look at the write queue.
AddRqNoForward(x) == x \notin Lines("RQ") /\ Enqueue("RQ", x)

\* A read of a line in the write queue is answered at once; a line already in
\* the queue is merged: neither changes the queues.
AddRq(x) == x \notin Lines("RQ") \cup Lines("WQ") /\ Enqueue("RQ", x)
AddWq(x) == x \notin Lines("WQ") /\ Enqueue("WQ", x)

-----------------------------------------------------------------------------
(* The write mode.                                                         *)

\* Mutant: writes are served only from a full enough queue.
ToWriteWhenFull == ~write_mode /\ Occupancy("WQ") >= HIGH_WM

\* Idle cycles are used for writes; a full enough write queue is drained.
ToWrite == /\ ~write_mode
           /\ \/ Occupancy("WQ") >= HIGH_WM
              \/ Occupancy("RQ") = 0 /\ Occupancy("WQ") > 0
ToRead == /\ write_mode
          /\ \/ Occupancy("WQ") = 0
             \/ Occupancy("RQ") > 0 /\ Occupancy("WQ") < LOW_WM

\* Of the banks B that are freed, those whose request counts as a write and
\* those whose request counts as a read.
NoBank(B) == {} \* mutant: freed banks with a read are not counted
WriteBanks(B) == {b \in B : bank[b].is_write}
ReadBanks(B) == {b \in B : ~bank[b].is_write /\ bank[b].is_read}

\* reset_remain_requests: what was scheduled in q is unscheduled and its
\* banks are freed; whether the row stays open is a matter of cycles.
ResetRemainRequests(q) ==
  LET S == Scheduled(q, queue[q])
      freed == {BankAt(q, i) : i \in S}
      RowAt(b) == RowOf[queue[q][CHOOSE i \in S : BankAt(q, i) = b].line]
  IN /\ queue' = [queue EXCEPT ![q] =
          [i \in Slot(q) |-> IF i \in S THEN [@[i] EXCEPT !.scheduled = FALSE] ELSE @[i]]]
     /\ \E open \in SUBSET freed :
          bank' = [b \in Bank |->
                     IF b \notin freed THEN bank[b]
                     ELSE IdleBank(IF b \in open THEN RowAt(b) ELSE None)]
     /\ scheduled' = [scheduled EXCEPT !["WQ"] = @ - Cardinality(WriteBanks(freed)),
                                       !["RQ"] = @ - Cardinality(ReadBanks(freed))]
     /\ schedule_due' = [p \in Queue |-> UpdateScheduleCycle(p, queue'[p])]
     /\ \E i \in UpdateProcessCycle("RQ", queue'["RQ"]),
           j \in UpdateProcessCycle("WQ", queue'["WQ"]) :
          next_process_index' = [p \in Queue |-> IF p = "RQ" THEN i ELSE j]

SwitchToWrite == /\ ToWrite
                 /\ write_mode' = TRUE
                 /\ ResetRemainRequests("RQ")
                 /\ UNCHANGED issued

SwitchToRead == /\ ToRead
                /\ write_mode' = FALSE
                /\ ResetRemainRequests("WQ")
                /\ UNCHANGED issued

\* The queue that operate serves in this cycle.
Serves(q) == ~ToWrite /\ ~ToRead /\ write_mode = (q = "WQ")

-----------------------------------------------------------------------------
(* schedule: the oldest row hit, else the oldest request, of a free bank.  *)

AnyWaiting(q) == Waiting(q, queue[q]) \* mutant: the bank may be working
FreeBank(q) == {i \in Waiting(q, queue[q]) : ~bank[BankAt(q, i)].working}
RowHits(q) ==
  {i \in FreeBank(q) : bank[BankAt(q, i)].open_row = RowOf[queue[q][i].line]}
Candidates(q) == IF RowHits(q) # {} THEN RowHits(q) ELSE FreeBank(q)

Schedule(q) ==
  /\ Serves(q)
  /\ schedule_due[q]
  /\ \E i \in Candidates(q) :
       /\ queue' = [queue EXCEPT ![q][i].scheduled = TRUE]
       /\ bank' = [bank EXCEPT ![BankAt(q, i)] =
                     [working |-> TRUE, request_index |-> i,
                      is_read |-> q = "RQ", is_write |-> q = "WQ",
                      open_row |-> RowOf[queue[q][i].line]]]
  /\ scheduled' = [scheduled EXCEPT ![q] = @ + 1]
  /\ schedule_due' = [schedule_due EXCEPT ![q] = UpdateScheduleCycle(q, queue'[q])]
  /\ \E j \in UpdateProcessCycle(q, queue'[q]) :
       next_process_index' = [next_process_index EXCEPT ![q] = j]
  /\ UNCHANGED <<write_mode, issued>>

\* process: the data of a read goes up, the bank is ready for another
\* request, and the entry leaves the queue.  (While the bank or the data bus
\* is busy, process only moves cycles.)
Process(q) ==
  /\ Serves(q)
  /\ next_process_index[q] < SIZE[q]
  /\ LET i == next_process_index[q]
         b == BankAt(q, i)
     IN /\ bank' = [bank EXCEPT ![b] = IdleBank(@.open_row)]
        /\ queue' = [queue EXCEPT ![q][i] = None]
  /\ scheduled' = [scheduled EXCEPT ![q] = @ - 1]
  /\ \E j \in UpdateProcessCycle(q, queue'[q]) :
       next_process_index' = [next_process_index EXCEPT ![q] = j]
  /\ UNCHANGED <<write_mode, schedule_due, issued>>

-----------------------------------------------------------------------------
Init ==
  /\ queue = [q \in Queue |-> [i \in Slot(q) |-> None]]
  /\ bank = [b \in Bank |-> IdleBank(None)]
  /\ write_mode = FALSE
  /\ scheduled = [q \in Queue |-> 0]
  /\ schedule_due = [q \in Queue |-> FALSE]
  /\ next_process_index = SIZE
  /\ issued = 0

Next ==
  \/ \E x \in Line : AddRq(x) \/ AddWq(x)
  \/ SwitchToWrite \/ SwitchToRead
  \/ \E q \in Queue : Schedule(q) \/ Process(q)

\* operate runs in every cycle, and time passes.
Fairness ==
  /\ WF_vars(SwitchToWrite) /\ WF_vars(SwitchToRead)
  /\ \A q \in Queue : WF_vars(Schedule(q)) /\ WF_vars(Process(q))

Spec == Init /\ [][Next]_vars
FairSpec == Spec /\ Fairness

-----------------------------------------------------------------------------
TypeOK ==
  /\ queue = [q \in Queue |-> queue[q]]
  /\ \A q \in Queue : queue[q] \in [Slot(q) -> Entry \cup {None}]
  /\ bank \in [Bank -> BankRequest]
  /\ write_mode \in BOOLEAN
  /\ scheduled \in [Queue -> Nat]
  /\ schedule_due \in [Queue -> BOOLEAN]
  /\ next_process_index \in [Queue -> Nat]
  /\ issued \in 0 .. MaxRequest

\* The bank requests and the queues agree: a working bank serves one scheduled
\* entry, of the queue of the current mode, and every scheduled entry has its
\* bank.  So process never finds another entry's request at the bank
\* (assertion at dram_controller.cc:294), whatever mode switches came between.
BanksServeQueue ==
  LET active == IF write_mode THEN "WQ" ELSE "RQ"
  IN /\ \A q \in Queue \ {active} : Scheduled(q, queue[q]) = {}
     /\ \A i \in Scheduled(active, queue[active]) :
          /\ bank[BankAt(active, i)].working
          /\ bank[BankAt(active, i)].request_index = i
     /\ \A b \in Bank :
          bank[b].working =>
            /\ bank[b].request_index \in Scheduled(active, queue[active])
            /\ BankAt(active, bank[b].request_index) = b
            /\ bank[b].is_write = write_mode /\ bank[b].is_read = ~write_mode

\* scheduled_reads and scheduled_writes count the scheduled entries, so that
\* they are zero after a reset (assertions at dram_controller.cc:58-65).
CountersAgree ==
  \A q \in Queue : scheduled[q] = Cardinality(Scheduled(q, queue[q]))

\* No wake-up is lost: the cached indexes name an entry exactly as long as
\* there is one to schedule or to serve.
WakeupsAreFresh ==
  \A q \in Queue :
    /\ schedule_due[q] = (Waiting(q, queue[q]) # {})
    /\ next_process_index[q] \in UpdateProcessCycle(q, queue[q])

\* The controller is the memory the LLC expects: no request is lost, answered
\* twice or made up.
Memory == INSTANCE MemoryService WITH reads <- Lines("RQ"), writes <- Lines("WQ")
ServesTheCache == Memory!Spec

\* Every read and every write is served, though row hits overtake and a switch
\* of mode takes back what was scheduled.
EverythingServed ==
  \A q \in Queue, x \in Line : x \in Lines(q) ~> x \notin Lines(q)
=============================================================================
