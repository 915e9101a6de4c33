------------------------ MODULE DramControllerProofs ------------------------
(***************************************************************************)
(* Proofs about the DRAM controller, for every number of banks, rows and   *)
(* queue slots and every pair of watermarks: the bank requests, counters   *)
(* and wake-ups agree with the queues, and the controller implements the   *)
(* memory that the LLC expects.                                            *)
(***************************************************************************)
EXTENDS DramController, FiniteSetTheorems, FunctionTheorems, TLAPS

\* add_rq and add_wq merge: no line is twice in a queue.
LinesDiffer ==
  \A q \in Queue : \A i, j \in Entries(q, queue[q]) :
    queue[q][i].line = queue[q][j].line => i = j

Inv == /\ TypeOK /\ LinesDiffer
       /\ BanksServeQueue /\ CountersAgree /\ WakeupsAreFresh

Slots(q) == [Slot(q) -> Entry \cup {None}]

-----------------------------------------------------------------------------
(* One slot changes.                                                       *)

LEMMA EntryFacts ==
  ASSUME NEW q \in Queue, NEW s \in Slots(q)
  PROVE  /\ \A i \in Entries(q, s) : i \in Slot(q) /\ s[i] \in Entry
         /\ Waiting(q, s) \subseteq Entries(q, s)
         /\ Scheduled(q, s) \subseteq Entries(q, s)
         /\ \A i \in Entries(q, s) : i \in Waiting(q, s) <=> i \notin Scheduled(q, s)
  BY DEF Slots, Entries, Waiting, Scheduled

\* An empty slot takes a request that is not scheduled.
LEMMA PutSets ==
  ASSUME NEW q \in Queue, NEW s \in Slots(q), NEW i \in Slot(q) \ Entries(q, s),
         NEW e \in Entry, ~e.scheduled, NEW t, t = [s EXCEPT ![i] = e]
  PROVE  /\ t \in Slots(q)
         /\ Entries(q, t) = Entries(q, s) \cup {i}
         /\ Waiting(q, t) = Waiting(q, s) \cup {i}
         /\ Scheduled(q, t) = Scheduled(q, s)
  BY NoneAssumption DEF Slots, Entries, Waiting, Scheduled

\* A waiting request is scheduled.
LEMMA MarkSets ==
  ASSUME NEW q \in Queue, NEW s \in Slots(q), NEW i \in Waiting(q, s),
         NEW e \in Entry, e.scheduled, NEW t, t = [s EXCEPT ![i] = e]
  PROVE  /\ t \in Slots(q)
         /\ Entries(q, t) = Entries(q, s)
         /\ Waiting(q, t) = Waiting(q, s) \ {i}
         /\ Scheduled(q, t) = Scheduled(q, s) \cup {i}
<1>1. i \in Slot(q) /\ s[i] \in Entry  BY EntryFacts
<1> QED  BY <1>1, NoneAssumption DEF Slots, Entries, Waiting, Scheduled

\* A request leaves.
LEMMA DropSets ==
  ASSUME NEW q \in Queue, NEW s \in Slots(q), NEW i \in Slot(q),
         NEW t, t = [s EXCEPT ![i] = None]
  PROVE  /\ t \in Slots(q)
         /\ Entries(q, t) = Entries(q, s) \ {i}
         /\ Waiting(q, t) = Waiting(q, s) \ {i}
         /\ Scheduled(q, t) = Scheduled(q, s) \ {i}
  BY DEF Slots, Entries, Waiting, Scheduled

\* Every scheduled request is taken back.
LEMMA ResetSets ==
  ASSUME NEW q \in Queue, NEW s \in Slots(q), NEW t,
         t = [i \in Slot(q) |-> IF i \in Scheduled(q, s)
                                THEN [s[i] EXCEPT !.scheduled = FALSE] ELSE s[i]]
  PROVE  /\ t \in Slots(q)
         /\ Entries(q, t) = Entries(q, s)
         /\ Waiting(q, t) = Entries(q, s)
         /\ Scheduled(q, t) = {}
         /\ \A i \in Entries(q, s) : t[i].line = s[i].line
<1>1. ASSUME NEW i \in Scheduled(q, s)
      PROVE  /\ t[i] \in Entry /\ ~t[i].scheduled /\ t[i].line = s[i].line
             /\ i \in Slot(q)
  <2>1. i \in Slot(q) /\ s[i] \in Entry  BY EntryFacts
  <2>2. t[i] = [s[i] EXCEPT !.scheduled = FALSE]  BY <2>1
  <2> QED  BY <2>1, <2>2 DEF Entry
<1>2. \A i \in Slot(q) \ Scheduled(q, s) : t[i] = s[i]  OBVIOUS
<1>3. DOMAIN t = Slot(q) /\ t = [i \in Slot(q) |-> t[i]]  OBVIOUS
<1>4. t \in Slots(q)
  <2>1. \A i \in Slot(q) : t[i] \in Entry \cup {None}
    BY <1>1, <1>2 DEF Slots
  <2> QED  BY <1>3, <2>1 DEF Slots
<1>5. Entries(q, t) = Entries(q, s)
  BY <1>1, <1>2, NoneAssumption, EntryFacts DEF Entries
<1> QED  BY <1>1, <1>2, <1>4, <1>5, EntryFacts DEF Waiting, Scheduled

\* The change of a slot of one queue, seen from all queues.
LEMMA OneQueue ==
  ASSUME TypeOK, NEW q \in Queue, NEW s,
         queue' = [queue EXCEPT ![q] = s]
  PROVE  /\ queue' = [p \in Queue |-> queue'[p]]
         /\ queue'[q] = s
         /\ \A p \in Queue \ {q} : queue'[p] = queue[p]
  BY DEF TypeOK

\* Scheduled and waiting entries can be counted.
LEMMA FiniteSlots ==
  ASSUME NEW q \in Queue, NEW s
  PROVE  /\ IsFiniteSet(Scheduled(q, s)) /\ Cardinality(Scheduled(q, s)) \in Nat
         /\ Slot(q) \subseteq Nat /\ SIZE[q] \in Nat
<1>1. SIZE[q] \in Nat  BY DramAssumption
<1>2. IsFiniteSet(Slot(q))  BY <1>1, FS_Interval DEF Slot
<1>3. Scheduled(q, s) \in SUBSET Slot(q)  BY DEF Scheduled, Entries
<1>4. IsFiniteSet(Scheduled(q, s))  BY <1>2, <1>3, FS_Subset
<1> QED  BY <1>1, <1>4, FS_CardinalityType DEF Slot

-----------------------------------------------------------------------------
(* BanksServeQueue, for the queue of the mode.                             *)

BanksOf(q, s, B) ==
  /\ \A i \in Scheduled(q, s) :
       B[BankOf[s[i].line]].working /\ B[BankOf[s[i].line]].request_index = i
  /\ \A b \in Bank : B[b].working =>
       /\ B[b].request_index \in Scheduled(q, s)
       /\ BankOf[s[B[b].request_index].line] = b
       /\ B[b].is_write = (q = "WQ") /\ B[b].is_read = (q = "RQ")

LEMMA BanksNow ==
  ASSUME NEW q \in Queue, write_mode = (q = "WQ"), BanksServeQueue
  PROVE  /\ BanksOf(q, queue[q], bank)
         /\ \A p \in Queue \ {q} : Scheduled(p, queue[p]) = {}
<1>1. q = IF write_mode THEN "WQ" ELSE "RQ"  BY DEF Queue
<1>2. write_mode = (q = "WQ") /\ ~write_mode = (q = "RQ")  BY DEF Queue
<1> QED  BY <1>1, <1>2 DEF BanksServeQueue, BanksOf, BankAt

LEMMA BanksNext ==
  ASSUME NEW q \in Queue, write_mode' = (q = "WQ"),
         BanksOf(q, queue'[q], bank'),
         \A p \in Queue \ {q} : Scheduled(p, queue'[p]) = {}
  PROVE  BanksServeQueue'
<1>1. q = IF write_mode' THEN "WQ" ELSE "RQ"  BY DEF Queue
<1>2. write_mode' = (q = "WQ") /\ ~write_mode' = (q = "RQ")  BY DEF Queue
<1> QED  BY <1>1, <1>2 DEF BanksServeQueue, BanksOf, BankAt

\* Every mode has its queue.
LEMMA ModeQueue ==
  ASSUME TypeOK
  PROVE  \E q \in Queue : write_mode = (q = "WQ")
<1>1. CASE write_mode
  <2>1. "WQ" \in Queue /\ write_mode = ("WQ" = "WQ")  BY <1>1 DEF Queue, TypeOK
  <2> QED  BY <2>1
<1>2. CASE ~write_mode
  <2>1. "RQ" \in Queue /\ write_mode = ("RQ" = "WQ")  BY <1>2 DEF Queue, TypeOK
  <2> QED  BY <2>1
<1> QED  BY <1>1, <1>2

-----------------------------------------------------------------------------
(* A request of the LLC.                                                   *)

LEMMA EnqueueInv ==
  ASSUME Inv, NEW q \in Queue, NEW x \in Line \ Lines(q), Enqueue(q, x)
  PROVE  Inv' /\ Lines(q)' = Lines(q) \cup {x}
         /\ \A p \in Queue \ {q} : Lines(p)' = Lines(p)
<1> DEFINE e == [line |-> x, scheduled |-> FALSE]
           s == queue[q]
<1>1. PICK slot \in Slot(q) \ Entries(q, s) :
        queue' = [queue EXCEPT ![q] = [s EXCEPT ![slot] = e]]
  BY DEF Enqueue, Put
<1>2. e \in Entry /\ ~e.scheduled /\ e.line = x  BY DEF Entry
<1>3. s \in Slots(q)  BY DEF Inv, TypeOK, Slots
<1> HIDE DEF e
<1> DEFINE t == [s EXCEPT ![slot] = e]
<1>4. /\ t \in Slots(q)
      /\ Entries(q, t) = Entries(q, s) \cup {slot}
      /\ Waiting(q, t) = Waiting(q, s) \cup {slot}
      /\ Scheduled(q, t) = Scheduled(q, s)
  BY <1>1, <1>2, <1>3, PutSets
<1>5. /\ t[slot] = e
      /\ \A i \in Entries(q, s) : t[i] = s[i] /\ i # slot
  BY <1>1, <1>3, EntryFacts DEF Slots
<1> HIDE DEF t
<1>6. /\ queue' = [p \in Queue |-> queue'[p]]
      /\ queue'[q] = t
      /\ \A p \in Queue \ {q} : queue'[p] = queue[p]
  BY <1>1, OneQueue DEF Inv, t
<1>7. UNCHANGED <<bank, write_mode, scheduled, next_process_index>>
      /\ schedule_due' = [schedule_due EXCEPT ![q] = UpdateScheduleCycle(q, t)]
      /\ issued' = issued + 1 /\ issued < MaxRequest
  BY <1>6 DEF Enqueue, NewRequest
<1>8. TypeOK'
  BY <1>3, <1>4, <1>6, <1>7, DramAssumption DEF Inv, TypeOK, Slots, UpdateScheduleCycle
<1>9. LinesDiffer'
  <2>1. \A i \in Entries(q, s) : t[i].line # x  BY <1>5 DEF Lines
  <2>2. \A i, j \in Entries(q, t) : t[i].line = t[j].line => i = j
    BY <1>2, <1>4, <1>5, <2>1 DEF Inv, LinesDiffer
  <2> QED  BY <1>6, <2>2 DEF Inv, LinesDiffer
<1>10. \A p \in Queue : Scheduled(p, queue'[p]) = Scheduled(p, queue[p])
  BY <1>4, <1>6
<1>11. BanksServeQueue'
  <2>1. PICK p \in Queue : write_mode = (p = "WQ")  BY ModeQueue DEF Inv
  <2>2. BanksOf(p, queue[p], bank)
        /\ \A r \in Queue \ {p} : Scheduled(r, queue[r]) = {}
    BY <2>1, BanksNow DEF Inv
  <2>3. \A i \in Scheduled(p, queue[p]) : queue'[p][i] = queue[p][i]
    BY <1>3, <1>5, <1>6, EntryFacts
  <2>4. BanksOf(p, queue'[p], bank)  BY <1>10, <2>2, <2>3 DEF BanksOf
  <2> QED  BY <1>7, <1>10, <2>1, <2>2, <2>4, BanksNext
<1>12. CountersAgree'  BY <1>7, <1>10 DEF Inv, CountersAgree
<1>13. WakeupsAreFresh'
  <2>1. \A p \in Queue : next_process_index'[p] \in UpdateProcessCycle(p, queue'[p])
    BY <1>7, <1>10 DEF Inv, WakeupsAreFresh, UpdateProcessCycle
  <2>2. \A p \in Queue : schedule_due'[p] = (Waiting(p, queue'[p]) # {})
    BY <1>6, <1>7 DEF Inv, WakeupsAreFresh, TypeOK, UpdateScheduleCycle
  <2> QED  BY <2>1, <2>2 DEF WakeupsAreFresh
<1>14. Lines(q)' = Lines(q) \cup {x}
  BY <1>2, <1>4, <1>5, <1>6 DEF Lines
<1>15. \A p \in Queue \ {q} : Lines(p)' = Lines(p)
  BY <1>6 DEF Lines
<1> QED  BY <1>8, <1>9, <1>11, <1>12, <1>13, <1>14, <1>15 DEF Inv

-----------------------------------------------------------------------------
(* schedule.                                                               *)

LEMMA ScheduleInv ==
  ASSUME Inv, NEW q \in Queue, Schedule(q)
  PROVE  Inv' /\ \A p \in Queue : Lines(p)' = Lines(p)
<1> DEFINE s == queue[q]
<1>1. PICK i \in Candidates(q) :
        /\ queue' = [queue EXCEPT ![q] = [s EXCEPT ![i] = [@ EXCEPT !.scheduled = TRUE]]]
        /\ bank' = [bank EXCEPT ![BankAt(q, i)] =
                     [working |-> TRUE, request_index |-> i,
                      is_read |-> q = "RQ", is_write |-> q = "WQ",
                      open_row |-> RowOf[s[i].line]]]
  BY DEF Schedule
<1> DEFINE e == [s[i] EXCEPT !.scheduled = TRUE]
           b == BankOf[s[i].line]
           row == RowOf[s[i].line]
<1>2. i \in Waiting(q, s) /\ ~bank[b].working
  BY <1>1 DEF Candidates, RowHits, FreeBank, BankAt
<1>3. s \in Slots(q)  BY DEF Inv, TypeOK, Slots
<1>4. i \in Slot(q) /\ i \in Entries(q, s) /\ i \notin Scheduled(q, s) /\ s[i] \in Entry
  BY <1>2, <1>3, EntryFacts
<1>5. e \in Entry /\ e.scheduled /\ e.line = s[i].line  BY <1>4 DEF Entry
<1>6. b \in Bank /\ row \in Row  BY <1>4, DramAssumption DEF Entry
<1>7. queue' = [queue EXCEPT ![q] = [s EXCEPT ![i] = e]]
  BY <1>1, <1>3, <1>4 DEF Slots
<1>8. bank'[b] = [working |-> TRUE, request_index |-> i, is_read |-> q = "RQ",
                  is_write |-> q = "WQ", open_row |-> row]
      /\ \A c \in Bank \ {b} : bank'[c] = bank[c]
  BY <1>1, <1>6 DEF BankAt, Inv, TypeOK
<1>dom. bank' = [c \in Bank |-> bank'[c]]
  BY <1>1 DEF Inv, TypeOK
<1> HIDE DEF e, b, row
<1> DEFINE t == [s EXCEPT ![i] = e]
<1>9. /\ t \in Slots(q)
      /\ Entries(q, t) = Entries(q, s)
      /\ Waiting(q, t) = Waiting(q, s) \ {i}
      /\ Scheduled(q, t) = Scheduled(q, s) \cup {i}
  BY <1>2, <1>3, <1>5, MarkSets
<1>10. \A j \in Entries(q, s) : t[j].line = s[j].line
  BY <1>3, <1>4, <1>5, EntryFacts DEF Slots
<1> HIDE DEF t
<1>11. /\ queue' = [p \in Queue |-> queue'[p]]
       /\ queue'[q] = t
       /\ \A p \in Queue \ {q} : queue'[p] = queue[p]
  BY <1>7, OneQueue DEF Inv, t
<1>12. /\ UNCHANGED <<write_mode, issued>>
       /\ write_mode = (q = "WQ")
       /\ scheduled' = [scheduled EXCEPT ![q] = @ + 1]
       /\ schedule_due' = [schedule_due EXCEPT ![q] = UpdateScheduleCycle(q, t)]
       /\ \E j \in UpdateProcessCycle(q, t) :
            next_process_index' = [next_process_index EXCEPT ![q] = j]
  BY <1>11 DEF Schedule, Serves
<1>13. PICK k \in Scheduled(q, t) :
         next_process_index' = [next_process_index EXCEPT ![q] = k]
  BY <1>9, <1>12 DEF UpdateProcessCycle
<1>14. k \in Nat /\ i \in Nat  BY <1>4, <1>9, EntryFacts, FiniteSlots, <1>13
<1>15. TypeOK'
  <2>1. bank' \in [Bank -> BankRequest]
    <3>1. bank'[b] \in BankRequest  BY <1>6, <1>8, <1>14 DEF BankRequest
    <3>2. \A c \in Bank \ {b} : bank'[c] \in BankRequest
      BY <1>8 DEF Inv, TypeOK
    <3>3. \A c \in Bank : bank'[c] \in BankRequest  BY <3>1, <3>2
    <3> QED  BY <1>dom, <3>3
  <2>2. \A p \in Queue : queue'[p] \in [Slot(p) -> Entry \cup {None}]
    BY <1>9, <1>11 DEF Inv, TypeOK, Slots
  <2>3. /\ scheduled' \in [Queue -> Nat] /\ next_process_index' \in [Queue -> Nat]
        /\ schedule_due' \in [Queue -> BOOLEAN]
    BY <1>12, <1>13, <1>14 DEF Inv, TypeOK, UpdateScheduleCycle
  <2> QED  BY <1>11, <1>12, <2>1, <2>2, <2>3 DEF Inv, TypeOK
<1>16. LinesDiffer'
  <2>1. \A j, l \in Entries(q, t) : t[j].line = t[l].line => j = l
    BY <1>9, <1>10 DEF Inv, LinesDiffer
  <2> QED  BY <1>11, <2>1 DEF Inv, LinesDiffer
<1>17. BanksServeQueue'
  <2>1. BanksOf(q, s, bank) /\ \A p \in Queue \ {q} : Scheduled(p, queue[p]) = {}
    BY <1>12, BanksNow DEF Inv
  <2>2. \A j \in Scheduled(q, s) : j \in Entries(q, s) /\ t[j].line = s[j].line
                                 /\ BankOf[s[j].line] \in Bank \ {b}
    <3> TAKE j \in Scheduled(q, s)
    <3>1. j \in Entries(q, s) /\ s[j] \in Entry  BY <1>3, EntryFacts
    <3>2. BankOf[s[j].line] \in Bank  BY <3>1, DramAssumption DEF Entry
    <3>3. bank[BankOf[s[j].line]].working  BY <2>1 DEF BanksOf
    <3> QED  BY <1>2, <1>10, <3>1, <3>2, <3>3 DEF b
  <2>3. t[i].line = s[i].line /\ BankOf[t[i].line] = b  BY <1>4, <1>10 DEF b
  <2>4. \A j \in Scheduled(q, t) : bank'[BankOf[t[j].line]].working
                                /\ bank'[BankOf[t[j].line]].request_index = j
    BY <1>8, <1>9, <2>1, <2>2, <2>3 DEF BanksOf
  <2>5. ASSUME NEW c \in Bank, bank'[c].working
        PROVE  /\ bank'[c].request_index \in Scheduled(q, t)
               /\ BankOf[t[bank'[c].request_index].line] = c
               /\ bank'[c].is_write = (q = "WQ") /\ bank'[c].is_read = (q = "RQ")
    <3>1. CASE c = b  BY <1>8, <1>9, <2>3, <3>1
    <3>2. CASE c # b  BY <1>8, <1>9, <2>1, <2>2, <2>5, <3>2 DEF BanksOf
    <3> QED  BY <3>1, <3>2
  <2>6. BanksOf(q, t, bank')  BY <2>4, <2>5 DEF BanksOf
  <2> QED  BY <1>11, <1>12, <2>1, <2>6, BanksNext
<1>18. CountersAgree'
  <2>1. Cardinality(Scheduled(q, t)) = Cardinality(Scheduled(q, s)) + 1
    BY <1>4, <1>9, FiniteSlots, FS_AddElement
  <2> QED  BY <1>11, <1>12, <2>1 DEF Inv, TypeOK, CountersAgree
<1>19. WakeupsAreFresh'
  BY <1>11, <1>12, <1>13 DEF Inv, WakeupsAreFresh, TypeOK, UpdateScheduleCycle, UpdateProcessCycle
<1>20. \A p \in Queue : Lines(p)' = Lines(p)
  BY <1>9, <1>10, <1>11 DEF Lines
<1> QED  BY <1>15, <1>16, <1>17, <1>18, <1>19, <1>20 DEF Inv

-----------------------------------------------------------------------------
(* process.                                                                *)

LEMMA ProcessInv ==
  ASSUME Inv, NEW q \in Queue, Process(q)
  PROVE  /\ Inv'
         /\ \E x \in Lines(q) : Lines(q)' = Lines(q) \ {x}
         /\ \A p \in Queue \ {q} : Lines(p)' = Lines(p)
<1> DEFINE s == queue[q]
           i == next_process_index[q]
           b == BankOf[s[i].line]
<1>1. i \in Scheduled(q, s)
  <2>1. i \in UpdateProcessCycle(q, s)  BY DEF Inv, WakeupsAreFresh
  <2>2. i < SIZE[q] /\ SIZE[q] \in Nat  BY FiniteSlots DEF Process
  <2> QED  BY <2>1, <2>2 DEF UpdateProcessCycle
<1>2. s \in Slots(q)  BY DEF Inv, TypeOK, Slots
<1>3. i \in Slot(q) /\ i \in Entries(q, s) /\ i \notin Waiting(q, s) /\ s[i] \in Entry
  BY <1>1, <1>2, EntryFacts
<1>4. b \in Bank  BY <1>3, DramAssumption DEF Entry
<1>5. /\ queue' = [queue EXCEPT ![q] = [s EXCEPT ![i] = None]]
      /\ bank' = [bank EXCEPT ![b] = IdleBank(@.open_row)]
      /\ UNCHANGED <<write_mode, schedule_due, issued>>
      /\ write_mode = (q = "WQ")
      /\ scheduled' = [scheduled EXCEPT ![q] = @ - 1]
  BY DEF Process, Serves, BankAt
<1>6. /\ bank'[b] = IdleBank(bank[b].open_row)
      /\ \A c \in Bank \ {b} : bank'[c] = bank[c]
      /\ bank' = [c \in Bank |-> bank'[c]]
  BY <1>4, <1>5 DEF Inv, TypeOK
<1> DEFINE t == [s EXCEPT ![i] = None]
<1>7. /\ t \in Slots(q)
      /\ Entries(q, t) = Entries(q, s) \ {i}
      /\ Waiting(q, t) = Waiting(q, s)
      /\ Scheduled(q, t) = Scheduled(q, s) \ {i}
  <2>1. Waiting(q, t) = Waiting(q, s) \ {i}  BY <1>2, <1>3, DropSets
  <2> QED  BY <1>2, <1>3, <2>1, DropSets
<1>8. \A j \in Entries(q, s) \ {i} : t[j] = s[j]
  BY <1>2, <1>3, EntryFacts DEF Slots
<1>9. /\ queue' = [p \in Queue |-> queue'[p]]
      /\ queue'[q] = t
      /\ \A p \in Queue \ {q} : queue'[p] = queue[p]
  BY <1>5, OneQueue DEF Inv
<1>10. \E j \in UpdateProcessCycle(q, t) :
         next_process_index' = [next_process_index EXCEPT ![q] = j]
  BY <1>9 DEF Process
<1> HIDE DEF b, t, i
<1>11. PICK k \in UpdateProcessCycle(q, t) :
         next_process_index' = [next_process_index EXCEPT ![q] = k]
  BY <1>10
<1>12. k \in Nat
  BY <1>7, <1>11, EntryFacts, FiniteSlots DEF UpdateProcessCycle
<1>13. Cardinality(Scheduled(q, t)) = Cardinality(Scheduled(q, s)) - 1
       /\ Cardinality(Scheduled(q, t)) \in Nat
  BY <1>1, <1>7, FiniteSlots, FS_RemoveElement
<1>14. TypeOK'
  <2>1. bank' \in [Bank -> BankRequest]
    <3>1. bank[b].open_row \in Row \cup {None}
      BY <1>4 DEF Inv, TypeOK, BankRequest
    <3>2. bank'[b] \in BankRequest  BY <1>6, <3>1 DEF BankRequest, IdleBank
    <3>3. \A c \in Bank \ {b} : bank'[c] \in BankRequest
      BY <1>6 DEF Inv, TypeOK
    <3>4. \A c \in Bank : bank'[c] \in BankRequest  BY <3>2, <3>3
    <3> QED  BY <1>6, <3>4
  <2>2. \A p \in Queue : queue'[p] \in [Slot(p) -> Entry \cup {None}]
    BY <1>7, <1>9 DEF Inv, TypeOK, Slots
  <2>3. /\ scheduled' \in [Queue -> Nat] /\ next_process_index' \in [Queue -> Nat]
    BY <1>5, <1>11, <1>12, <1>13 DEF Inv, TypeOK, CountersAgree
  <2> QED  BY <1>5, <1>9, <2>1, <2>2, <2>3 DEF Inv, TypeOK
<1>15. LinesDiffer'
  <2>1. \A j, l \in Entries(q, t) : t[j].line = t[l].line => j = l
    BY <1>7, <1>8 DEF Inv, LinesDiffer
  <2> QED  BY <1>9, <2>1 DEF Inv, LinesDiffer
<1>16. BanksServeQueue'
  <2>1. BanksOf(q, s, bank) /\ \A p \in Queue \ {q} : Scheduled(p, queue[p]) = {}
    BY <1>5, BanksNow DEF Inv
  <2>2. bank[b].request_index = i  BY <1>1, <2>1 DEF BanksOf, b
  <2>3. \A j \in Scheduled(q, s) \ {i} :
          t[j] = s[j] /\ BankOf[s[j].line] \in Bank \ {b}
    <3> TAKE j \in Scheduled(q, s) \ {i}
    <3>1. j \in Entries(q, s) /\ s[j] \in Entry  BY <1>2, EntryFacts
    <3>2. BankOf[s[j].line] \in Bank  BY <3>1, DramAssumption DEF Entry
    <3>3. bank[BankOf[s[j].line]].request_index = j  BY <2>1 DEF BanksOf
    <3> QED  BY <1>8, <2>2, <3>1, <3>2, <3>3
  <2>4. \A j \in Scheduled(q, t) : bank'[BankOf[t[j].line]].working
                                /\ bank'[BankOf[t[j].line]].request_index = j
    BY <1>6, <1>7, <2>1, <2>3 DEF BanksOf
  <2>5. ASSUME NEW c \in Bank, bank'[c].working
        PROVE  /\ bank'[c].request_index \in Scheduled(q, t)
               /\ BankOf[t[bank'[c].request_index].line] = c
               /\ bank'[c].is_write = (q = "WQ") /\ bank'[c].is_read = (q = "RQ")
    <3>1. c # b /\ bank'[c] = bank[c]  BY <1>6, <2>5 DEF IdleBank
    <3> DEFINE j == bank[c].request_index
    <3>2. /\ j \in Scheduled(q, s) /\ BankOf[s[j].line] = c
          /\ bank[c].is_write = (q = "WQ") /\ bank[c].is_read = (q = "RQ")
      BY <2>1, <2>5, <3>1 DEF BanksOf
    <3>3. j # i  BY <3>1, <3>2 DEF b
    <3> QED  BY <1>7, <2>3, <3>1, <3>2, <3>3
  <2>6. BanksOf(q, t, bank')  BY <2>4, <2>5 DEF BanksOf
  <2> QED  BY <1>5, <1>9, <2>1, <2>6, BanksNext
<1>17. CountersAgree'
  BY <1>5, <1>9, <1>13 DEF Inv, TypeOK, CountersAgree
<1>18. WakeupsAreFresh'
  BY <1>5, <1>7, <1>9, <1>11 DEF Inv, WakeupsAreFresh, TypeOK, UpdateProcessCycle
<1>19. s[i].line \in Lines(q)  BY <1>3 DEF Lines
<1>20. Lines(q)' = Lines(q) \ {s[i].line}
  <2>1. \A j \in Entries(q, s) \ {i} : s[j].line # s[i].line
    BY <1>3 DEF Inv, LinesDiffer
  <2> QED  BY <1>7, <1>8, <1>9, <2>1 DEF Lines
<1>21. \A p \in Queue \ {q} : Lines(p)' = Lines(p)  BY <1>9 DEF Lines
<1> QED
  BY <1>14, <1>15, <1>16, <1>17, <1>18, <1>19, <1>20, <1>21 DEF Inv

-----------------------------------------------------------------------------
(* A switch of mode.                                                       *)

\* The scheduled requests of the queue that is left are at as many banks.
LEMMA FreedBanks ==
  ASSUME Inv, NEW q \in Queue, write_mode = (q = "WQ"),
         NEW S, S = Scheduled(q, queue[q]),
         NEW freed, freed = {BankAt(q, i) : i \in S}
  PROVE  /\ freed \subseteq Bank
         /\ Cardinality(freed) = Cardinality(S)
         /\ \A b \in freed : /\ bank[b].is_write = (q = "WQ")
                            /\ bank[b].is_read = (q = "RQ")
         /\ \A b \in Bank \ freed : ~bank[b].working
<1> DEFINE f == [i \in S |-> BankOf[queue[q][i].line]]
<1>1. freed = {f[i] : i \in S}  BY DEF BankAt
<1>2. queue[q] \in Slots(q)  BY DEF Inv, TypeOK, Slots
<1>3. BanksOf(q, queue[q], bank)  BY BanksNow DEF Inv
<1>4. \A i \in S : f[i] \in Bank /\ bank[f[i]].working /\ bank[f[i]].request_index = i
  <2> TAKE i \in S
  <2>1. queue[q][i] \in Entry  BY <1>2, EntryFacts
  <2>2. BankOf[queue[q][i].line] \in Bank  BY <2>1, DramAssumption DEF Entry
  <2> QED  BY <1>3, <2>2 DEF BanksOf
<1>5. \A b \in Bank : bank[b].working =>
        /\ bank[b].request_index \in S /\ f[bank[b].request_index] = b
        /\ bank[b].is_write = (q = "WQ") /\ bank[b].is_read = (q = "RQ")
  BY <1>3 DEF BanksOf
<1>6. f \in Surjection(S, freed) /\ f \in Injection(S, freed)
  <2>1. f \in [S -> freed]  BY <1>1
  <2>2. \A i, j \in S : f[i] = f[j] => i = j  BY <1>4
  <2> HIDE DEF f
  <2>3. \A b \in freed : \E i \in S : f[i] = b  BY <1>1
  <2> QED  BY <2>1, <2>2, <2>3, Fun_IsInj, Fun_IsSurj
<1>7. Cardinality(freed) = Cardinality(S)
  BY <1>6, FiniteSlots, FS_Surjection
<1> HIDE DEF f
<1>7a. \A b \in freed : \E i \in S : b = f[i]  BY <1>1
<1>8. freed \subseteq Bank  BY <1>4, <1>7a
<1>9. \A b \in freed : bank[b].is_write = (q = "WQ") /\ bank[b].is_read = (q = "RQ")
  <2> TAKE b \in freed
  <2>1. b \in Bank /\ bank[b].working  BY <1>4, <1>7a
  <2> QED  BY <1>5, <2>1
<1>10. \A b \in Bank \ freed : ~bank[b].working
  BY <1>1, <1>5
<1> QED  BY <1>7, <1>8, <1>9, <1>10

LEMMA ResetInv ==
  ASSUME Inv, NEW q \in Queue, write_mode = (q = "WQ"),
         write_mode' = (q # "WQ"),
         ResetRemainRequests(q), UNCHANGED issued
  PROVE  Inv' /\ \A p \in Queue : Lines(p)' = Lines(p)
<1> DEFINE s == queue[q]
           S == Scheduled(q, s)
           freed == {BankAt(q, i) : i \in S}
           t == [i \in Slot(q) |-> IF i \in S THEN [s[i] EXCEPT !.scheduled = FALSE]
                                  ELSE s[i]]
           RowAt(b) == RowOf[queue[q][CHOOSE i \in S : BankAt(q, i) = b].line]
<1>1. s \in Slots(q)  BY DEF Inv, TypeOK, Slots
<1>2. queue' = [queue EXCEPT ![q] = t]
  BY <1>1 DEF ResetRemainRequests, Slots
<1>3. /\ t \in Slots(q)
      /\ Entries(q, t) = Entries(q, s)
      /\ Waiting(q, t) = Entries(q, s)
      /\ Scheduled(q, t) = {}
      /\ \A i \in Entries(q, s) : t[i].line = s[i].line
  BY <1>1, ResetSets
<1>4. /\ freed \subseteq Bank
      /\ Cardinality(freed) = Cardinality(S)
      /\ \A b \in freed : /\ bank[b].is_write = (q = "WQ")
                         /\ bank[b].is_read = (q = "RQ")
      /\ \A b \in Bank \ freed : ~bank[b].working
  BY FreedBanks
<1>5. PICK open \in SUBSET freed :
        bank' = [b \in Bank |->
                   IF b \notin freed THEN bank[b]
                   ELSE IdleBank(IF b \in open THEN RowAt(b) ELSE None)]
  BY DEF ResetRemainRequests
<1>6. \A b \in freed : RowAt(b) \in Row
  <2> TAKE b \in freed
  <2> DEFINE i == CHOOSE j \in S : BankAt(q, j) = b
  <2>1. i \in S  OBVIOUS
  <2>2. s[i] \in Entry  BY <1>1, <2>1, EntryFacts
  <2> QED  BY <2>2, DramAssumption DEF Entry
<1>7. scheduled' = [scheduled EXCEPT !["WQ"] = @ - Cardinality(WriteBanks(freed)),
                                     !["RQ"] = @ - Cardinality(ReadBanks(freed))]
  BY DEF ResetRemainRequests
<1>8. /\ schedule_due' = [p \in Queue |-> UpdateScheduleCycle(p, queue'[p])]
      /\ \E i \in UpdateProcessCycle("RQ", queue'["RQ"]),
            j \in UpdateProcessCycle("WQ", queue'["WQ"]) :
          next_process_index' = [p \in Queue |-> IF p = "RQ" THEN i ELSE j]
  BY DEF ResetRemainRequests
<1> HIDE DEF t, RowAt, freed
<1>9. /\ queue' = [p \in Queue |-> queue'[p]]
      /\ queue'[q] = t
      /\ \A p \in Queue \ {q} : queue'[p] = queue[p]
  BY <1>2, OneQueue DEF Inv
<1>10. \A p \in Queue : Scheduled(p, queue'[p]) = {}
  <2>1. \A p \in Queue \ {q} : Scheduled(p, queue[p]) = {}
    BY BanksNow DEF Inv
  <2> QED  BY <1>3, <1>9, <2>1
<1>11. \A p \in Queue : next_process_index'[p] = SIZE[p] /\ SIZE[p] \in Nat
       /\ next_process_index' = [r \in Queue |-> next_process_index'[r]]
  BY <1>8, <1>10, DramAssumption DEF UpdateProcessCycle, Queue
<1>12. scheduled' = [p \in Queue |-> 0]
  <2>0. /\ scheduled' = [p \in Queue |-> scheduled'[p]]
        /\ scheduled'["WQ"] = scheduled["WQ"] - Cardinality(WriteBanks(freed))
        /\ scheduled'["RQ"] = scheduled["RQ"] - Cardinality(ReadBanks(freed))
    BY <1>7 DEF Inv, TypeOK, Queue
  <2>1. scheduled[q] = Cardinality(S) /\ Cardinality(S) \in Nat
    BY FiniteSlots DEF Inv, CountersAgree
  <2>2. \A p \in Queue \ {q} : scheduled[p] = 0
    BY BanksNow, FS_EmptySet DEF Inv, CountersAgree
  <2>3. ASSUME q = "RQ" PROVE \A p \in Queue : scheduled'[p] = 0
    <3>1. WriteBanks(freed) = {} /\ ReadBanks(freed) = freed
      BY <1>4, <2>3 DEF WriteBanks, ReadBanks
    <3> QED  BY <1>4, <2>0, <2>1, <2>2, <2>3, <3>1, FS_EmptySet DEF Queue
  <2>4. ASSUME q = "WQ" PROVE \A p \in Queue : scheduled'[p] = 0
    <3>1. WriteBanks(freed) = freed /\ ReadBanks(freed) = {}
      BY <1>4, <2>4 DEF WriteBanks, ReadBanks
    <3> QED  BY <1>4, <2>0, <2>1, <2>2, <2>4, <3>1, FS_EmptySet DEF Queue
  <2>5. \A p \in Queue : scheduled'[p] = 0  BY <2>3, <2>4 DEF Queue
  <2> QED  BY <2>0, <2>5
<1>13. TypeOK'
  <2>1. bank' \in [Bank -> BankRequest]
    <3>1. \A b \in Bank : bank'[b] \in BankRequest
      BY <1>4, <1>5, <1>6 DEF Inv, TypeOK, BankRequest, IdleBank
    <3> QED  BY <1>5, <3>1
  <2>2. \A p \in Queue : queue'[p] \in [Slot(p) -> Entry \cup {None}]
    BY <1>3, <1>9 DEF Inv, TypeOK, Slots
  <2> QED
    BY <1>8, <1>9, <1>11, <1>12, <2>1, <2>2 DEF Inv, TypeOK, UpdateScheduleCycle
<1>14. LinesDiffer'
  <2>1. \A j, l \in Entries(q, t) : t[j].line = t[l].line => j = l
    BY <1>3 DEF Inv, LinesDiffer
  <2> QED  BY <1>9, <2>1 DEF Inv, LinesDiffer
<1>15. BanksServeQueue'
  <2>1. \A b \in Bank : ~bank'[b].working  BY <1>4, <1>5 DEF IdleBank
  <2>2. PICK p \in Queue \ {q} : write_mode' = (p = "WQ")  BY DEF Queue
  <2>3. BanksOf(p, queue'[p], bank')  BY <1>10, <2>1 DEF BanksOf
  <2> QED  BY <1>10, <2>2, <2>3, BanksNext
<1>16. CountersAgree'  BY <1>10, <1>12, FS_EmptySet DEF CountersAgree
<1>17. WakeupsAreFresh'
  BY <1>8, <1>10, <1>11 DEF WakeupsAreFresh, UpdateScheduleCycle, UpdateProcessCycle
<1>18. \A p \in Queue : Lines(p)' = Lines(p)
  BY <1>3, <1>9 DEF Lines
<1> QED  BY <1>13, <1>14, <1>15, <1>16, <1>17, <1>18 DEF Inv

-----------------------------------------------------------------------------
(* The theorems.                                                           *)

LEMMA InitInv == Init => Inv
<1> SUFFICES ASSUME Init PROVE Inv  OBVIOUS
<1>1. \A q \in Queue : /\ queue[q] \in [Slot(q) -> Entry \cup {None}]
                      /\ Entries(q, queue[q]) = {}
                      /\ Waiting(q, queue[q]) = {} /\ Scheduled(q, queue[q]) = {}
  BY DEF Init, Entries, Waiting, Scheduled
<1>2. \A b \in Bank : bank[b] \in BankRequest /\ ~bank[b].working
  BY DEF Init, IdleBank, BankRequest
<1>3. TypeOK
  <2>1. bank \in [Bank -> BankRequest]  BY <1>2 DEF Init
  <2>2. next_process_index \in [Queue -> Nat] /\ 0 \in 0 .. MaxRequest
    BY DramAssumption DEF Init
  <2>3. queue = [q \in Queue |-> queue[q]]  BY DEF Init
  <2> QED  BY <1>1, <2>1, <2>2, <2>3 DEF Init, TypeOK
<1>4. LinesDiffer  BY <1>1 DEF LinesDiffer
<1>5. BanksServeQueue  BY <1>1, <1>2 DEF BanksServeQueue, Queue
<1>6. CountersAgree  BY <1>1, FS_EmptySet DEF Init, CountersAgree
<1>7. WakeupsAreFresh  BY <1>1 DEF Init, WakeupsAreFresh, UpdateProcessCycle
<1> QED  BY <1>3, <1>4, <1>5, <1>6, <1>7 DEF Inv

\* Every step keeps the invariant and is a step of the memory or none.
LEMMA StepInv == Inv /\ [Next]_vars => Inv' /\ [Memory!Next]_(Memory!vars)
<1> SUFFICES ASSUME Inv, [Next]_vars PROVE Inv' /\ [Memory!Next]_(Memory!vars)
  OBVIOUS
<1> USE DEF Memory!vars
<1>1. ASSUME NEW x \in Line, AddRq(x) PROVE Inv' /\ Memory!Ask(x)
  <2>1. "RQ" \in Queue /\ Enqueue("RQ", x) /\ x \in Line \ Lines("RQ")
        /\ "WQ" \in Queue \ {"RQ"}
    BY <1>1 DEF AddRq, Queue
  <2> QED  BY <1>1, <2>1, EnqueueInv DEF AddRq, Memory!Ask
<1>2. ASSUME NEW x \in Line, AddWq(x) PROVE Inv' /\ Memory!Write(x)
  <2>1. "WQ" \in Queue /\ Enqueue("WQ", x) /\ x \in Line \ Lines("WQ")
        /\ "RQ" \in Queue \ {"WQ"}
    BY <1>2 DEF AddWq, Queue
  <2> QED  BY <1>2, <2>1, EnqueueInv DEF AddWq, Memory!Write
<1>3. CASE SwitchToWrite
  <2>1. "RQ" \in Queue /\ write_mode = ("RQ" = "WQ") /\ write_mode' = ("RQ" # "WQ")
    BY <1>3 DEF Queue, SwitchToWrite, ToWrite, Inv, TypeOK
  <2> QED  BY <1>3, <2>1, ResetInv DEF SwitchToWrite, Queue
<1>4. CASE SwitchToRead
  <2>1. "WQ" \in Queue /\ write_mode = ("WQ" = "WQ") /\ write_mode' = ("WQ" # "WQ")
    BY <1>4 DEF Queue, SwitchToRead, ToRead, Inv, TypeOK
  <2> QED  BY <1>4, <2>1, ResetInv DEF SwitchToRead, Queue
<1>5. ASSUME NEW q \in Queue, Schedule(q) PROVE Inv' /\ UNCHANGED Memory!vars
  BY <1>5, ScheduleInv DEF Queue
<1>6. ASSUME NEW q \in Queue, Process(q)
      PROVE  Inv' /\ \E x \in Line : Memory!Answer(x) \/ Memory!Commit(x)
  <2>1. PICK x \in Lines(q) : Lines(q)' = Lines(q) \ {x}
    BY <1>6, ProcessInv
  <2>2. Inv' /\ \A p \in Queue \ {q} : Lines(p)' = Lines(p)
    BY <1>6, ProcessInv
  <2>3. x \in Line
    BY <2>1, EntryFacts DEF Lines, Inv, TypeOK, Slots, Entry
  <2>4. CASE q = "RQ"
    <3>1. Memory!Answer(x)  BY <2>1, <2>2, <2>4 DEF Memory!Answer, Queue
    <3> QED  BY <2>2, <2>3, <3>1
  <2>5. CASE q = "WQ"
    <3>1. Memory!Commit(x)  BY <2>1, <2>2, <2>5 DEF Memory!Commit, Queue
    <3> QED  BY <2>2, <2>3, <3>1
  <2> QED  BY <2>4, <2>5 DEF Queue
<1>7. CASE UNCHANGED vars
  <2>1. TypeOK'  BY <1>7 DEF vars, Inv, TypeOK
  <2>2. LinesDiffer'  BY <1>7 DEF vars, Inv, LinesDiffer
  <2>3. BanksServeQueue'  BY <1>7 DEF vars, Inv, BanksServeQueue, BankAt
  <2>4. CountersAgree'  BY <1>7 DEF vars, Inv, CountersAgree
  <2>5. WakeupsAreFresh'  BY <1>7 DEF vars, Inv, WakeupsAreFresh
  <2> QED  BY <1>7, <2>1, <2>2, <2>3, <2>4, <2>5 DEF vars, Inv, Lines
<1>8. CASE Next
  BY <1>1, <1>2, <1>3, <1>4, <1>5, <1>6, <1>8 DEF Next, Memory!Next
<1> QED  BY <1>7, <1>8

LEMMA InvTheorem == Spec => []Inv
BY InitInv, StepInv, PTL DEF Spec

\* Queues, banks, counters and wake-up indexes keep their types, for every
\* number of banks and every queue size.
THEOREM TypeTheorem == Spec => []TypeOK
BY InvTheorem, PTL DEF Inv

\* process never finds another entry's request at its bank: the assertion at
\* dram_controller.cc:294 holds whatever mode switches came between.
THEOREM BanksTheorem == Spec => []BanksServeQueue
BY InvTheorem, PTL DEF Inv

\* scheduled_reads and scheduled_writes count the scheduled entries: the
\* assertions of reset_remain_requests hold.
THEOREM CountersTheorem == Spec => []CountersAgree
BY InvTheorem, PTL DEF Inv

\* operate never sleeps on a queue that has something to schedule or serve.
THEOREM WakeupsTheorem == Spec => []WakeupsAreFresh
BY InvTheorem, PTL DEF Inv

\* The controller implements the memory the LLC expects: every read and write
\* it takes leaves its queue once, and nothing else does.
THEOREM RefinementTheorem == Spec => ServesTheCache
<1>1. Init => Memory!Init
  BY DEF Init, Memory!Init, Lines, Entries, Queue
<1> QED
  BY <1>1, InitInv, StepInv, PTL DEF Spec, ServesTheCache, Memory!Spec
=============================================================================
