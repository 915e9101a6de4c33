---------------------------- MODULE CircularQueue ----------------------------
(***************************************************************************)
(* The queue of rtl/circular_queue.sv: an array, the indices of its first  *)
(* and last element, and a registered output.  One step is one clock.      *)
(***************************************************************************)
EXTENDS Integers

CONSTANTS
  size,  \* entries; at two, the remainder by size - 1 makes one entry "full"
  Data,
  Void   \* what a vacated or a reset entry holds
ASSUME SizeAssumption == size \in Nat \ 0 .. 2

VARIABLES front, rear, arr, ready, out
queueVars == <<front, rear, arr, ready, out>>

Slot == 0 .. size - 1

\* The remainder of signed integers: it takes the sign of its left operand.
SignedMod(a, b) == IF a < 0 THEN - ((- a) % b) ELSE a % b
FullByRemainder == rear = SignedMod(front - 1, size - 1)
Full == (front = 0 /\ rear = size - 1) \/ FullByRemainder

EnqFirst(x) ==
  /\ front = -1
  /\ front' = 0 /\ rear' = 0
  /\ arr' = [arr EXCEPT ![0] = x]
EnqNext(x) ==
  /\ front # -1 /\ ~Full
  /\ rear' = (rear + 1) % size
  /\ arr' = [arr EXCEPT ![(rear + 1) % size] = x]
  /\ UNCHANGED front
Enqueue(x) ==
  /\ ready' = FALSE
  /\ UNCHANGED out
  /\ EnqFirst(x) \/ EnqNext(x) \/ (Full /\ UNCHANGED <<front, rear, arr>>)

Deliver == out' = arr[front] /\ ready' = TRUE

DeqEmpty == front = -1 /\ ready' = FALSE /\ UNCHANGED <<front, rear, arr, out>>
DeqLast ==
  /\ front # -1 /\ front = rear
  /\ Deliver
  /\ front' = -1 /\ rear' = -1
  /\ arr' = [arr EXCEPT ![front] = Void]
DeqNext ==
  /\ front # rear
  /\ Deliver
  /\ front' = (front + 1) % size
  /\ arr' = [arr EXCEPT ![front] = Void]
  /\ UNCHANGED rear
Dequeue == DeqEmpty \/ DeqLast \/ DeqNext

\* The entry is vacated first: in a full queue the new element takes it.
Rotated(x) == [arr EXCEPT ![front] = Void, ![(rear + 1) % size] = x]
EndeqEmpty(x) ==
  front = -1 /\ out' = x /\ ready' = FALSE /\ UNCHANGED <<front, rear, arr>>
EndeqNext(x) ==
  /\ front # -1
  /\ Deliver
  /\ front' = (front + 1) % size
  /\ rear' = (rear + 1) % size
  /\ arr' = Rotated(x)
Endequeue(x) == EndeqEmpty(x) \/ EndeqNext(x)

QInit == /\ front = -1 /\ rear = -1 /\ ready = FALSE
         /\ arr = [i \in Slot |-> Void]
         /\ out \in Data
QReset == /\ front' = -1 /\ rear' = -1 /\ ready' = FALSE
          /\ arr' = [i \in Slot |-> Void]
          /\ UNCHANGED out

\* A clock with neither enq nor deq keeps everything, ready too.
QNext == QReset \/ Dequeue \/ \E x \in Data : Enqueue(x) \/ Endequeue(x)
QSpec == QInit /\ [][QNext]_queueVars

-----------------------------------------------------------------------------
\* The elements in the array, oldest first.
Count == IF front = -1 THEN 0 ELSE ((rear - front) % size) + 1
Contents == [i \in 1 .. Count |-> arr[(front + i - 1) % size]]

\* The indices wrap, meet and separate again without losing, doubling or
\* reordering an element, and full is exactly size elements.
Fifo == INSTANCE BoundedFifo WITH queue <- Contents
KeepsFifoOrder == Fifo!Spec
=============================================================================
