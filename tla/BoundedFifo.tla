----------------------------- MODULE BoundedFifo -----------------------------
(***************************************************************************)
(* What a client of the delay queue can rely on, one clock at a time:      *)
(* elements leave in the order they came in, at most size of them wait.    *)
(***************************************************************************)
EXTENDS Integers, Sequences

CONSTANTS size, Data
VARIABLES queue, ready, out
fifoVars == <<queue, ready, out>>

\* An element that meets a full queue is dropped.
Put(x) ==
  /\ queue' = IF Len(queue) < size THEN Append(queue, x) ELSE queue
  /\ ready' = FALSE
  /\ UNCHANGED out

\* out is announced by ready; an empty queue announces nothing.
Get ==
  \/ queue = << >> /\ ready' = FALSE /\ UNCHANGED <<queue, out>>
  \/ queue # << >> /\ ready' = TRUE /\ out' = Head(queue) /\ queue' = Tail(queue)

\* Both on one clock: through an empty queue the element passes unannounced.
PutAndGet(x) ==
  \/ queue = << >> /\ ready' = FALSE /\ out' = x /\ UNCHANGED queue
  \/ /\ queue # << >> /\ ready' = TRUE /\ out' = Head(queue)
     /\ queue' = Append(Tail(queue), x)

Empty == queue = << >> /\ ready = FALSE
Reset == Empty' /\ UNCHANGED out
Next == Get \/ Reset \/ \E x \in Data : Put(x) \/ PutAndGet(x)
Spec == Empty /\ [][Next]_fifoVars
=============================================================================
