-------------------------- MODULE PrefetcherProofs --------------------------
(***************************************************************************)
(* Proofs about the machines of src/rtl that prefetch, for every size of   *)
(* their tables.  The circular queue is a FIFO: its array is seen as a     *)
(* segment, c elements from the slot f on, around the end; its operations  *)
(* are lemmas, each action is then a few of them.  What the next-line, the *)
(* stride and the best-offset prefetcher have learnt is fit for use.       *)
(***************************************************************************)
EXTENDS MCDevices, Sequences, WellFoundedInduction, TLAPS

\* Every set of natural numbers that is not empty has a least element.
LEMMA LeastOf ==
  ASSUME NEW S, S \subseteq Nat, S # {}
  PROVE  \E x \in S : \A y \in S : x <= y
<1>1. IsWellFoundedOn(OpToRel(<, Nat), Nat)
  BY NatLessThanWellFounded
<1>2. \E x \in S : \A y \in S : ~ (<<y, x>> \in OpToRel(<, Nat))
  BY ONLY <1>1, S \subseteq Nat, S # {}, WFMin
<1>3. PICK x \in S : \A y \in S : ~ (<<y, x>> \in OpToRel(<, Nat))
  BY <1>2
<1>4. ASSUME NEW y \in S PROVE x <= y
  <2>1. y \in Nat /\ x \in Nat
    OBVIOUS
  <2>2. ~ (y < x)
    BY <1>3, <2>1 DEF OpToRel
  <2>. QED BY <2>1, <2>2
<1>. QED BY <1>4

-----------------------------------------------------------------------------
(* The circular queue.                                                     *)

Held == Data \cup {Void}
\* The slot n places after slot f.
Place(f, n) == (f + n) % size
Segment(a, f, c) == [i \in 1 .. c |-> a[Place(f, i - 1)]]

\* The indices are both in the array or both unset, and the array has its size.
QTypeOK ==
  /\ arr \in [Slot -> Held]
  /\ \/ front = -1 /\ rear = -1
     \/ front \in Slot /\ rear \in Slot

-----------------------------------------------------------------------------
(* Arithmetic around the end of the array.                                 *)

LEMMA ModSmall == ASSUME NEW n \in Nat \ {0}, NEW x \in 0 .. n - 1 PROVE x % n = x
  BY SMT
LEMMA ModOnce == ASSUME NEW n \in Nat \ {0}, NEW x \in n .. 2 * n - 1 PROVE x % n = x - n
  BY SMT
LEMMA ModBelow == ASSUME NEW n \in Nat \ {0}, NEW x \in - n .. -1 PROVE x % n = x + n
  BY SMT

LEMMA SizeType == size \in Nat \ {0} /\ size > 2
  BY SizeAssumption

LEMMA PlaceOf ==
  ASSUME NEW f \in Slot, NEW n \in 0 .. size
  PROVE  /\ Place(f, n) \in Slot
         /\ Place(f, n) = IF f + n < size THEN f + n ELSE f + n - size
  <1>1. CASE f + n < size
    <2>1. f + n \in 0 .. size - 1
      BY <1>1, SizeType DEF Slot
    <2>2. (f + n) % size = f + n
      BY <2>1, SizeType, ModSmall
    <2> QED BY <1>1, <2>1, <2>2 DEF Slot, Place
  <1>2. CASE ~(f + n < size)
    <2>1. f + n \in size .. 2 * size - 1 /\ f + n - size \in Slot
      BY <1>2, SizeType DEF Slot
    <2>2. (f + n) % size = f + n - size
      BY <2>1, SizeType, ModOnce DEF Slot
    <2> QED BY <1>2, <2>1, <2>2 DEF Place
  <1> QED BY <1>1, <1>2

LEMMA NextSlot == ASSUME NEW f \in Slot PROVE Place(f, 1) \in Slot /\ Place(f, 1) # -1
  <1>1. 1 \in 0 .. size
    BY SizeType
  <1>2. Place(f, 1) \in Slot
    BY <1>1, PlaceOf
  <1> QED BY <1>2, SizeType DEF Slot

\* Elements are counted from front to rear.
Between(f, r) == ((r - f) % size) + 1

LEMMA BetweenIs ==
  ASSUME NEW f \in Slot, NEW r \in Slot
  PROVE  /\ Between(f, r) = IF r < f THEN r - f + size + 1 ELSE r - f + 1
         /\ Between(f, r) \in 1 .. size
         /\ r = Place(f, Between(f, r) - 1)
  <1>1. Between(f, r) = IF r < f THEN r - f + size + 1 ELSE r - f + 1
    <2>1. CASE r < f
      <3>1. r - f \in - size .. -1
        BY <2>1, SizeType DEF Slot
      <3> QED BY <2>1, <3>1, SizeType, ModBelow DEF Between
    <2>2. CASE ~(r < f)
      <3>1. r - f \in 0 .. size - 1
        BY <2>2, SizeType DEF Slot
      <3> QED BY <2>2, <3>1, SizeType, ModSmall DEF Between
    <2> QED BY <2>1, <2>2
  <1> DEFINE n == Between(f, r) - 1
  <1>2. n \in 0 .. size - 1 /\ n \in 0 .. size /\ Between(f, r) \in 1 .. size
    BY <1>1, SizeType DEF Slot
  <1>3. Place(f, n) = IF f + n < size THEN f + n ELSE f + n - size
    BY <1>2, PlaceOf
  <1>4. r = IF f + n < size THEN f + n ELSE f + n - size
    BY <1>1, SizeType DEF Slot
  <1> QED BY <1>1, <1>2, <1>3, <1>4

\* The last index goes on by one slot, the first does, or both do.
LEMMA OneMore ==
  ASSUME NEW f \in Slot, NEW r \in Slot, Between(f, r) # size
  PROVE  /\ Place(r, 1) = Place(f, Between(f, r))
         /\ Between(f, Place(r, 1)) = Between(f, r) + 1
  <1> DEFINE c == Between(f, r)
  <1>1. c \in 1 .. size - 1 /\ c = IF r < f THEN r - f + size + 1 ELSE r - f + 1
    BY BetweenIs, SizeType
  <1>2. Place(r, 1) \in Slot /\ Place(r, 1) = IF r + 1 < size THEN r + 1 ELSE r + 1 - size
    BY PlaceOf, SizeType
  <1>3. Place(f, c) = IF f + c < size THEN f + c ELSE f + c - size
    BY <1>1, PlaceOf, SizeType
  <1>4. Place(r, 1) = Place(f, c)
    BY <1>1, <1>2, <1>3, SizeType DEF Slot
  <1> DEFINE p == Place(r, 1)
  <1>5. Between(f, p) = IF p < f THEN p - f + size + 1 ELSE p - f + 1
    BY <1>2, BetweenIs
  <1>6. Between(f, p) = c + 1
    BY <1>1, <1>2, <1>5, SizeType DEF Slot
  <1> QED BY <1>4, <1>6

LEMMA OneLess ==
  ASSUME NEW f \in Slot, NEW r \in Slot, f # r
  PROVE  Between(Place(f, 1), r) = Between(f, r) - 1
  <1> DEFINE p == Place(f, 1)
  <1>1. Between(f, r) = IF r < f THEN r - f + size + 1 ELSE r - f + 1
    BY BetweenIs
  <1>2. p \in Slot /\ p = IF f + 1 < size THEN f + 1 ELSE f + 1 - size
    BY PlaceOf, SizeType
  <1>3. Between(p, r) = IF r < p THEN r - p + size + 1 ELSE r - p + 1
    BY <1>2, BetweenIs
  <1> QED BY <1>1, <1>2, <1>3, SizeType DEF Slot

LEMMA BothOn ==
  ASSUME NEW f \in Slot, NEW r \in Slot
  PROVE  /\ Between(Place(f, 1), Place(r, 1)) = Between(f, r)
         /\ Place(r, 1) = Place(Place(f, 1), Between(f, r) - 1)
  <1> DEFINE p == Place(f, 1)
             q == Place(r, 1)
  <1>1. Between(f, r) = IF r < f THEN r - f + size + 1 ELSE r - f + 1
    BY BetweenIs
  <1>2. p \in Slot /\ p = IF f + 1 < size THEN f + 1 ELSE f + 1 - size
    BY PlaceOf, SizeType
  <1>3. q \in Slot /\ q = IF r + 1 < size THEN r + 1 ELSE r + 1 - size
    BY PlaceOf, SizeType
  <1>4. Between(p, q) = IF q < p THEN q - p + size + 1 ELSE q - p + 1
    BY <1>2, <1>3, BetweenIs
  <1>5. Between(p, q) = Between(f, r)
    BY <1>1, <1>2, <1>3, <1>4, SizeType DEF Slot
  <1>6. q = Place(p, Between(p, q) - 1)
    BY <1>2, <1>3, BetweenIs
  <1> QED BY <1>5, <1>6

LEMMA CountOf ==
  ASSUME QTypeOK, front # -1
  PROVE  /\ front \in Slot /\ rear \in Slot
         /\ Count = Between(front, rear)
         /\ Count = IF rear < front THEN rear - front + size + 1 ELSE rear - front + 1
  <1>1. front \in Slot /\ rear \in Slot
    BY DEF QTypeOK
  <1> QED BY <1>1, BetweenIs DEF Count, Between

\* The remainder in full is never one that an element short of it could have.
LEMMA FullIsSize ==
  ASSUME QTypeOK
  PROVE  Full <=> (front # -1 /\ Count = size)
  <1>1. CASE front = -1
    <2>1. rear = -1
      BY <1>1, SizeType DEF QTypeOK, Slot
    <2>2. SignedMod(front - 1, size - 1) # -1
      <3>1. CASE size = 3
        BY <1>1, <3>1, SMT DEF SignedMod
      <3>2. CASE size # 3
        <4>1. 2 % (size - 1) = 2
          BY <3>2, SizeType, ModSmall
        <4> QED BY <1>1, <4>1 DEF SignedMod
      <3> QED BY <3>1, <3>2
    <2> QED BY <1>1, <2>1, <2>2 DEF Full, FullByRemainder
  <1>2. CASE front = 0
    <2>1. 1 % (size - 1) = 1
      BY SizeType, ModSmall
    <2>2. SignedMod(front - 1, size - 1) = -1
      BY <1>2, <2>1 DEF SignedMod
    <2> QED BY <1>2, <2>2, CountOf, SizeType DEF Full, FullByRemainder, Slot
  <1>3. CASE front \in Slot \ {0}
    <2>1. (front - 1) % (size - 1) = front - 1
      BY <1>3, SizeType, ModSmall DEF Slot
    <2>2. SignedMod(front - 1, size - 1) = front - 1
      BY <1>3, <2>1, SizeType DEF SignedMod, Slot
    <2> QED BY <1>3, <2>2, CountOf, SizeType DEF Full, FullByRemainder, Slot
  <1> QED BY <1>1, <1>2, <1>3 DEF QTypeOK

-----------------------------------------------------------------------------
(* Segments as sequences.                                                  *)

LEMMA SegmentIsSeq ==
  ASSUME NEW a \in [Slot -> Held], NEW f \in Slot, NEW c \in 0 .. size
  PROVE  /\ Segment(a, f, c) \in Seq(Held)
         /\ Len(Segment(a, f, c)) = c
         /\ \A i \in 1 .. c : Segment(a, f, c)[i] = a[Place(f, i - 1)]
  <1>1. \A i \in 1 .. c : Place(f, i - 1) \in Slot
    <2> TAKE i \in 1 .. c
    <2>1. i - 1 \in 0 .. size
      BY SizeType
    <2> QED BY <2>1, PlaceOf
  <1>2. \A i \in 1 .. c : a[Place(f, i - 1)] \in Held
    BY <1>1
  <1> QED BY <1>2, SizeType DEF Segment

LEMMA SegmentAppend ==
  ASSUME NEW a \in [Slot -> Held], NEW f \in Slot, NEW c \in 0 .. size - 1, NEW x \in Held,
         NEW b \in [Slot -> Held], b[Place(f, c)] = x,
         \A s \in Slot : s # Place(f, c) => b[s] = a[s]
  PROVE  Segment(b, f, c + 1) = Append(Segment(a, f, c), x)
  <1> DEFINE s == Segment(a, f, c)
             t == Segment(b, f, c + 1)
  <1>0. c \in 0 .. size /\ c + 1 \in 0 .. size /\ c \in Nat
    BY SizeType
  <1>1. Place(f, c) \in Slot /\ Place(f, c) = IF f + c < size THEN f + c ELSE f + c - size
    BY <1>0, PlaceOf
  <1>2. s \in Seq(Held) /\ Len(s) = c /\ \A i \in 1 .. c : s[i] = a[Place(f, i - 1)]
    BY <1>0, SegmentIsSeq
  <1>3. t \in Seq(Held) /\ Len(t) = c + 1
        /\ \A i \in 1 .. c + 1 : t[i] = b[Place(f, i - 1)]
    BY <1>0, SegmentIsSeq
  <1> HIDE DEF s, t
  <1>4. t[c + 1] = x
    <2>1. (c + 1) - 1 = c /\ c + 1 \in 1 .. c + 1
      BY <1>0
    <2>2. t[c + 1] = b[Place(f, c)]
      BY <1>3, <2>1
    <2>3. b[Place(f, c)] = x
      BY <1>1
    <2> QED BY <2>2, <2>3
  <1>5. \A i \in 1 .. c : t[i] = s[i]
    <2> TAKE i \in 1 .. c
    <2> DEFINE q == Place(f, i - 1)
    <2>1. i - 1 \in 0 .. size /\ i \in 1 .. c + 1
      BY <1>0, SizeType
    <2>2. q \in Slot /\ q = IF f + (i - 1) < size THEN f + (i - 1) ELSE f + (i - 1) - size
      BY <2>1, PlaceOf
    <2>3. q # Place(f, c)
      BY <1>1, <2>2, SizeType DEF Slot
    <2>4. t[i] = b[q] /\ s[i] = a[q]
      BY <1>2, <1>3, <2>1
    <2> HIDE DEF q
    <2>5. b[q] = a[q]
      BY <2>2, <2>3
    <2> QED BY <2>4, <2>5
  <1>6. t = Append(s, x)
    BY <1>0, <1>2, <1>3, <1>4, <1>5
  <1> QED BY <1>6 DEF s, t

LEMMA SegmentTail ==
  ASSUME NEW a \in [Slot -> Held], NEW f \in Slot, NEW c \in 1 .. size,
         NEW b \in [Slot -> Held], \A s \in Slot : s # f => b[s] = a[s]
  PROVE  /\ Segment(a, f, c) # << >>
         /\ Head(Segment(a, f, c)) = a[f]
         /\ Segment(b, Place(f, 1), c - 1) = Tail(Segment(a, f, c))
  <1> DEFINE g == Place(f, 1)
             s == Segment(a, f, c)
             t == Segment(b, g, c - 1)
  <1>0. c \in 0 .. size /\ c - 1 \in 0 .. size /\ c \in Nat \ {0}
    BY SizeType
  <1>1. g \in Slot /\ g = IF f + 1 < size THEN f + 1 ELSE 0
    <2>1. 1 \in 0 .. size /\ (~(f + 1 < size) => f + 1 - size = 0)
      BY SizeType DEF Slot
    <2> QED BY <2>1, PlaceOf
  <1>2. s \in Seq(Held) /\ Len(s) = c /\ \A i \in 1 .. c : s[i] = a[Place(f, i - 1)]
    BY <1>0, SegmentIsSeq
  <1>3. t \in Seq(Held) /\ Len(t) = c - 1
        /\ \A i \in 1 .. c - 1 : t[i] = b[Place(g, i - 1)]
    BY <1>0, <1>1, SegmentIsSeq
  <1> HIDE DEF s, t, g
  <1>4. s[1] = a[f]
    <2>1. Place(f, 0) = f
      BY PlaceOf, SizeType DEF Slot
    <2>2. s[1] = a[Place(f, 1 - 1)]
      BY <1>0, <1>2
    <2> QED BY <2>1, <2>2
  <1>5. \A i \in 1 .. c - 1 : t[i] = s[i + 1]
    <2> TAKE i \in 1 .. c - 1
    <2> DEFINE q == Place(f, i)
    <2>0. i \in 0 .. size /\ i - 1 \in 0 .. size /\ i + 1 \in 1 .. c /\ (i + 1) - 1 = i
      BY <1>0, SizeType
    <2>1. q \in Slot /\ q = IF f + i < size THEN f + i ELSE f + i - size
      BY <2>0, PlaceOf
    <2>2. Place(g, i - 1) = q
      <3>1. Place(g, i - 1)
              = IF g + (i - 1) < size THEN g + (i - 1) ELSE g + (i - 1) - size
        BY <1>1, <2>0, PlaceOf
      <3> QED BY <1>1, <2>0, <2>1, <3>1, SizeType DEF Slot
    <2>3. q # f
      BY <2>1, SizeType DEF Slot
    <2>4. t[i] = b[q] /\ s[i + 1] = a[q]
      BY <1>2, <1>3, <2>0, <2>2
    <2> HIDE DEF q
    <2>5. b[q] = a[q]
      BY <2>1, <2>3
    <2> QED BY <2>4, <2>5
  <1>6. s # << >> /\ Head(s) = a[f] /\ t = Tail(s)
    BY <1>0, <1>2, <1>3, <1>4, <1>5
  <1> QED BY <1>6 DEF s, t, g

-----------------------------------------------------------------------------
(* The actions.                                                            *)

LEMMA IsSegment ==
  ASSUME NEW a, NEW f \in Slot, NEW c \in Nat
  PROVE  [i \in 1 .. c |-> a[(f + i - 1) % size]] = Segment(a, f, c)
  <1>1. \A i \in 1 .. c : f + i - 1 = f + (i - 1)
    BY SizeType DEF Slot
  <1> QED BY <1>1 DEF Segment, Place

LEMMA ContentsIs == ASSUME QTypeOK PROVE Contents = Segment(arr, front, Count)
  <1>1. CASE front = -1
    BY <1>1 DEF Contents, Segment, Count
  <1>2. CASE front # -1
    <2>1. Count \in Nat /\ front \in Slot
      BY <1>2, CountOf, SizeType DEF Slot
    <2> QED BY <2>1, IsSegment DEF Contents
  <1> QED BY <1>1, <1>2

\* The same of the next state.
LEMMA NextContents ==
  ASSUME QTypeOK', front' # -1
  PROVE  /\ Count' = Between(front', rear')
         /\ Contents' = Segment(arr', front', Between(front', rear'))
  <1>1. front' \in Slot /\ rear' \in Slot
    BY DEF QTypeOK
  <1>2. Between(front', rear') \in Nat
    BY <1>1, BetweenIs, SizeType
  <1>3. Count' = Between(front', rear')
    BY DEF Count, Between
  <1>4. Contents' = [i \in 1 .. Between(front', rear') |-> arr'[(front' + i - 1) % size]]
    BY <1>3 DEF Contents
  <1> QED BY <1>1, <1>2, <1>3, <1>4, IsSegment

LEMMA EmptyOrNot ==
  ASSUME QTypeOK
  PROVE  /\ front = -1 => Contents = << >>
         /\ front # -1 => /\ Count \in 1 .. size
                         /\ Contents # << >> /\ Len(Contents) = Count
                         /\ rear = Place(front, Count - 1)
  <1>1. CASE front = -1
    BY <1>1 DEF Contents, Count
  <1>2. CASE front # -1
    <2>1. front \in Slot /\ rear \in Slot /\ Count = Between(front, rear)
      BY <1>2, CountOf
    <2>2. Count \in 1 .. size /\ rear = Place(front, Count - 1)
      BY <2>1, BetweenIs
    <2>3. arr \in [Slot -> Held] /\ Count \in 0 .. size
      BY <2>2, SizeType DEF QTypeOK
    <2>4. Contents \in Seq(Held) /\ Len(Contents) = Count
      BY <2>1, <2>3, ContentsIs, SegmentIsSeq
    <2>5. Len(Contents) # 0
      BY <2>2, <2>4
    <2> QED BY <1>2, <2>2, <2>4, <2>5
  <1> QED BY <1>1, <1>2

LEMMA QInitType == QInit => QTypeOK
  BY DEF QInit, QTypeOK, Held

LEMMA QStepType == QTypeOK /\ [QNext]_queueVars => QTypeOK'
  <1> SUFFICES ASSUME QTypeOK, [QNext]_queueVars PROVE QTypeOK'
    OBVIOUS
  <1> USE DEF QTypeOK
  <1>0. Data \subseteq Held /\ Void \in Held /\ 0 \in Slot
    BY SizeType DEF Held, Slot
  <1>1. \A s \in Slot : (s + 1) % size \in Slot
    BY PlaceOf, SizeType DEF Place
  <1>2. CASE QReset
    BY <1>0, <1>2 DEF QReset
  <1>3. CASE Dequeue
    BY <1>0, <1>1, <1>3, SizeType DEF Dequeue, DeqEmpty, DeqLast, DeqNext, Slot
  <1>4. ASSUME NEW x \in Data, Enqueue(x) PROVE QTypeOK'
    BY <1>0, <1>1, <1>4 DEF Enqueue, EnqFirst, EnqNext
  <1>5. ASSUME NEW x \in Data, Endequeue(x) PROVE QTypeOK'
    BY <1>0, <1>1, <1>5 DEF Endequeue, EndeqEmpty, EndeqNext, Rotated
  <1>6. CASE UNCHANGED queueVars
    BY <1>6 DEF queueVars
  <1> QED BY <1>2, <1>3, <1>4, <1>5, <1>6 DEF QNext

\* Each action does to the segment what the abstract queue does.
LEMMA EnqueueStep ==
  ASSUME QTypeOK, QTypeOK', NEW x \in Data, Enqueue(x)
  PROVE  Fifo!Put(x)
  <1>0. x \in Held /\ arr \in [Slot -> Held] /\ arr' \in [Slot -> Held] /\ 0 \in Slot
    BY SizeType DEF QTypeOK, Held, Slot
  <1>1. CASE EnqFirst(x)
    <2>1. Contents = << >> /\ Len(Contents) = 0
      BY <1>1, EmptyOrNot DEF EnqFirst
    <2>2. front' = 0 /\ rear' = 0 /\ arr' = [arr EXCEPT ![0] = x]
      BY <1>1 DEF EnqFirst
    <2>3. Count' = 1
      BY <2>2, SizeType, ModSmall DEF Count
    <2>4. Contents' = [i \in 1 .. 1 |-> arr'[(0 + i - 1) % size]]
      BY <2>2, <2>3 DEF Contents
    <2>5. arr'[(0 + 1 - 1) % size] = x
      BY <1>0, <2>2, SizeType, ModSmall
    <2>6. Contents' = << x >>
      BY <2>4, <2>5
    <2> QED BY <2>1, <2>6, SizeType DEF Fifo!Put, Enqueue
  <1>2. CASE EnqNext(x)
    <2>1. front # -1 /\ front' = front /\ front' # -1
      BY <1>2 DEF EnqNext
    <2>2. Count \in 0 .. size - 1 /\ front \in Slot /\ rear \in Slot
          /\ Count = Between(front, rear) /\ Count # size
      <3>1. Count # size
        BY <1>2, <2>1, FullIsSize DEF EnqNext
      <3>2. Count \in 1 .. size
        BY <2>1, EmptyOrNot
      <3> QED BY <2>1, <3>1, <3>2, CountOf, SizeType
    <2>3. rear' = Place(rear, 1) /\ arr' = [arr EXCEPT ![Place(rear, 1)] = x]
      BY <1>2 DEF EnqNext, Place
    <2>4. Place(rear, 1) = Place(front, Count) /\ Between(front', rear') = Count + 1
      BY <2>1, <2>2, <2>3, OneMore
    <2>5. Contents' = Segment(arr', front, Count + 1)
      BY <2>1, <2>4, NextContents
    <2>6. Contents' = Append(Segment(arr, front, Count), x)
      <3>1. /\ arr'[Place(front, Count)] = x
            /\ \A s \in Slot : s # Place(front, Count) => arr'[s] = arr[s]
        BY <1>0, <2>2, <2>3, <2>4, NextSlot
      <3>2. Segment(arr', front, Count + 1) = Append(Segment(arr, front, Count), x)
        BY <1>0, <2>2, <3>1, SegmentAppend
      <3> QED BY <2>5, <3>2
    <2>7. Contents' = Append(Contents, x)
      BY <2>6, ContentsIs
    <2>8. Len(Contents) < size
      BY <2>1, <2>2, EmptyOrNot, SizeType
    <2> QED BY <2>7, <2>8 DEF Fifo!Put, Enqueue
  <1>3. CASE Full /\ UNCHANGED <<front, rear, arr>>
    <2>1. Contents' = Contents
      BY <1>3 DEF Contents, Count
    <2>2. Len(Contents) = size
      BY <1>3, FullIsSize, EmptyOrNot
    <2> QED BY <2>1, <2>2, SizeType DEF Fifo!Put, Enqueue
  <1> QED BY <1>1, <1>2, <1>3 DEF Enqueue

LEMMA DequeueStep ==
  ASSUME QTypeOK, QTypeOK', Dequeue
  PROVE  Fifo!Get
  <1>0. arr \in [Slot -> Held] /\ arr' \in [Slot -> Held]
    BY DEF QTypeOK
  <1>1. CASE DeqEmpty
    <2>1. Contents = << >> /\ Contents' = Contents
      BY <1>1, EmptyOrNot DEF DeqEmpty, Contents, Count
    <2> QED BY <1>1, <2>1 DEF Fifo!Get, DeqEmpty
  <1>2. ASSUME front # -1, Deliver, arr' = [arr EXCEPT ![front] = Void]
        PROVE  /\ Contents # << >> /\ ready' = TRUE /\ out' = Head(Contents)
               /\ front \in Slot /\ rear \in Slot
               /\ Segment(arr', Place(front, 1), Between(front, rear) - 1) = Tail(Contents)
    <2>1. /\ front \in Slot /\ rear \in Slot /\ Count = Between(front, rear)
          /\ Count \in 1 .. size
      BY <1>2, CountOf, EmptyOrNot
    <2>2. /\ Head(Segment(arr, front, Count)) = arr[front]
          /\ Segment(arr', Place(front, 1), Count - 1) = Tail(Segment(arr, front, Count))
      <3>1. \A s \in Slot : s # front => arr'[s] = arr[s]
        BY <1>0, <1>2
      <3> QED BY <1>0, <2>1, <3>1, SegmentTail
    <2> QED BY <1>2, <2>1, <2>2, ContentsIs, EmptyOrNot DEF Deliver
  <1>3. CASE DeqLast
    <2>1. /\ Contents # << >> /\ ready' = TRUE /\ out' = Head(Contents)
          /\ front \in Slot /\ rear \in Slot
          /\ Segment(arr', Place(front, 1), Between(front, rear) - 1) = Tail(Contents)
      BY <1>2, <1>3 DEF DeqLast
    <2>2. Between(front, rear) - 1 = 0
      BY <1>3, <2>1, BetweenIs, SizeType DEF DeqLast, Slot
    <2>3. Tail(Contents) = << >>
      BY <2>1, <2>2 DEF Segment
    <2>4. Contents' = << >>
      BY <1>3 DEF DeqLast, Contents, Count
    <2> QED BY <2>1, <2>3, <2>4 DEF Fifo!Get
  <1>4. CASE DeqNext
    <2>1. front # -1
      BY <1>4, SizeType DEF DeqNext, QTypeOK, Slot
    <2>2. /\ Contents # << >> /\ ready' = TRUE /\ out' = Head(Contents)
          /\ front \in Slot /\ rear \in Slot
          /\ Segment(arr', Place(front, 1), Between(front, rear) - 1) = Tail(Contents)
      BY <1>2, <1>4, <2>1 DEF DeqNext
    <2>3. front' = Place(front, 1) /\ rear' = rear /\ front # rear
      BY <1>4 DEF DeqNext, Place
    <2>4. front' # -1
      BY <2>2, <2>3, PlaceOf, SizeType DEF Slot
    <2>5. Between(front', rear') = Between(front, rear) - 1
      BY <2>2, <2>3, OneLess
    <2>6. Contents' = Tail(Contents)
      BY <2>2, <2>3, <2>4, <2>5, NextContents
    <2> QED BY <2>2, <2>6 DEF Fifo!Get
  <1> QED BY <1>1, <1>3, <1>4 DEF Dequeue

LEMMA EndequeueStep ==
  ASSUME QTypeOK, QTypeOK', NEW x \in Data, Endequeue(x)
  PROVE  Fifo!PutAndGet(x)
  <1>0. x \in Held /\ Void \in Held /\ arr \in [Slot -> Held] /\ arr' \in [Slot -> Held]
    BY DEF QTypeOK, Held
  <1>1. CASE EndeqEmpty(x)
    <2>1. Contents = << >> /\ Contents' = Contents
      BY <1>1, EmptyOrNot DEF EndeqEmpty, Contents, Count
    <2> QED BY <1>1, <2>1 DEF Fifo!PutAndGet, EndeqEmpty
  <1>2. CASE EndeqNext(x)
    <2> DEFINE mid == [arr EXCEPT ![front] = Void]
               c == Between(front, rear)
               p == Place(front, 1)
    <2>1. /\ front # -1 /\ front \in Slot /\ rear \in Slot /\ Count = c
          /\ c \in 1 .. size /\ Contents # << >>
      BY <1>2, CountOf, EmptyOrNot DEF EndeqNext
    <2>2. mid \in [Slot -> Held] /\ p \in Slot /\ p # -1
      BY <1>0, <2>1, NextSlot
    <2>3. /\ Head(Segment(arr, front, c)) = arr[front]
          /\ Segment(mid, p, c - 1) = Tail(Segment(arr, front, c))
      <3>1. \A s \in Slot : s # front => mid[s] = arr[s]
        BY <1>0, <2>1
      <3> QED BY <1>0, <2>1, <2>2, <3>1, SegmentTail
    <2>4. front' = p /\ rear' = Place(rear, 1) /\ out' = arr[front] /\ ready' = TRUE
          /\ arr' = [mid EXCEPT ![Place(rear, 1)] = x]
      BY <1>2 DEF EndeqNext, Deliver, Rotated, Place
    <2>5. Between(front', rear') = c /\ Place(rear, 1) = Place(p, c - 1)
      BY <2>1, <2>4, BothOn
    <2> HIDE DEF mid, p, c
    <2>6. Segment(arr', p, c) = Append(Segment(mid, p, c - 1), x)
      <3>1. arr' = [mid EXCEPT ![Place(p, c - 1)] = x]
        BY <2>4, <2>5
      <3>2. c - 1 \in 0 .. size - 1 /\ (c - 1) + 1 = c
        BY <2>1, SizeType
      <3>3. Segment(arr', p, (c - 1) + 1) = Append(Segment(mid, p, c - 1), x)
        <4>1. /\ arr'[Place(p, c - 1)] = x
              /\ \A s \in Slot : s # Place(p, c - 1) => arr'[s] = mid[s]
          BY <2>1, <2>2, <3>1, <2>5, NextSlot
        <4> QED BY <1>0, <2>2, <3>2, <4>1, SegmentAppend
      <3> QED BY <3>2, <3>3
    <2>7. Contents' = Segment(arr', p, c)
      BY <2>2, <2>4, <2>5, NextContents
    <2>8. Contents = Segment(arr, front, c)
      BY <2>1, ContentsIs
    <2>9. Contents' = Append(Tail(Contents), x)
      BY <2>3, <2>6, <2>7, <2>8
    <2> QED BY <2>1, <2>3, <2>4, <2>8, <2>9 DEF Fifo!PutAndGet
  <1> QED BY <1>1, <1>2 DEF Endequeue

-----------------------------------------------------------------------------
\* The indices stay in the array or unset together (the reset, and the four
\* branches on enq and deq of circular_queue.sv).
THEOREM TypeTheorem == QSpec => []QTypeOK
  BY QInitType, QStepType, PTL DEF QSpec

\* For every size from three on, whatever is put in comes out in order, an
\* element is dropped exactly when size of them wait, and ready announces what
\* leaves a queue that was not empty (circular_queue.sv:16-80).
THEOREM RefinementTheorem == QSpec => KeepsFifoOrder
  <1>1. QInit => Fifo!Empty
    BY DEF QInit, Fifo!Empty, Contents, Count
  <1>2. QTypeOK /\ QTypeOK' /\ [QNext]_queueVars => [Fifo!Next]_(Fifo!fifoVars)
    <2> SUFFICES ASSUME QTypeOK, QTypeOK', [QNext]_queueVars
                 PROVE  [Fifo!Next]_(Fifo!fifoVars)
      OBVIOUS
    <2>1. CASE QReset
      BY <2>1 DEF QReset, Fifo!Next, Fifo!Reset, Fifo!Empty, Contents, Count
    <2>2. CASE Dequeue
      BY <2>2, DequeueStep DEF Fifo!Next
    <2>3. ASSUME NEW x \in Data, Enqueue(x) PROVE Fifo!Next
      BY <2>3, EnqueueStep DEF Fifo!Next
    <2>4. ASSUME NEW x \in Data, Endequeue(x) PROVE Fifo!Next
      BY <2>4, EndequeueStep DEF Fifo!Next
    <2>5. CASE UNCHANGED queueVars
      BY <2>5 DEF queueVars, Fifo!fifoVars, Contents, Count
    <2> QED BY <2>1, <2>2, <2>3, <2>4, <2>5 DEF QNext
  <1> QED BY <1>1, <1>2, TypeTheorem, PTL DEF QSpec, KeepsFifoOrder, Fifo!Spec

-----------------------------------------------------------------------------
(* The next-line prefetcher.                                               *)

\* A read starts only when the counter is below the limit, so that the increment that
\* follows it keeps the counter within: not idle, the counter is still below.
AheadInv ==
  /\ state \in {"idle", "prefetch", "inc_addr"} /\ demanded \in BOOLEAN
  /\ counter \in Nat /\ address \in Int /\ base \in Int
  /\ state # "idle" => demanded /\ counter < limit
  /\ demanded => address = base + 1 + counter /\ counter <= limit

LEMMA NInitInv == NInit => AheadInv
<1>. SUFFICES ASSUME NInit PROVE AheadInv
  OBVIOUS
<1>1. state = "idle" /\ demanded = FALSE /\ counter = 0 /\ address = 0 /\ base = 0
  BY DEF NInit
<1>2. ~demanded /\ demanded \in BOOLEAN
  BY ONLY <1>1
<1>. QED BY <1>1, <1>2 DEF AheadInv

LEMMA ClockKeepsAhead ==
  ASSUME AheadInv, NEW in \in Port, Clock(in)
  PROVE  AheadInv'
<1>1. in.demand \in Line \cup {NoDemand} /\ limit \in Nat
  BY LimitAssumption DEF Port
<1>2. Demand(in) => in.demand \in Nat
  BY <1>1, LimitAssumption DEF Demand
<1>3. CASE state = "idle" /\ Demand(in)
  <2>1. /\ state' = "idle" /\ demanded' = TRUE /\ counter' = 0
        /\ address' = in.demand + 1 /\ base' = in.demand
    BY <1>3 DEF Clock, NextState, NextCounter, NextAddress, Takes
  <2>. QED BY <1>1, <1>2, <1>3, <2>1 DEF AheadInv
<1>4. CASE state = "idle" /\ ~Demand(in)
  <2>1. /\ state' \in {"idle", "prefetch"} /\ demanded' = demanded /\ counter' = counter
        /\ address' = address /\ base' = base
        /\ state' = "prefetch" => demanded /\ counter < limit
    BY <1>4 DEF Clock, NextState, NextCounter, NextAddress, Takes, AheadInv
  <2>. QED BY <1>1, <2>1 DEF AheadInv
<1>5. CASE state = "prefetch"
  <2>1. /\ state' \in {"prefetch", "inc_addr"} /\ demanded' = (demanded \/ Demand(in))
        /\ counter' = counter /\ address' = address /\ base' = base
    BY <1>5 DEF Clock, NextState, NextCounter, NextAddress, Takes
  <2>. QED BY <1>1, <1>5, <2>1 DEF AheadInv
<1>6. CASE state = "inc_addr"
  <2>1. /\ state' = "idle" /\ demanded' = (demanded \/ Demand(in))
        /\ counter' = counter + 1 /\ address' = address + 1 /\ base' = base
    BY <1>6 DEF Clock, NextState, NextCounter, NextAddress, Takes
  <2>. QED BY <1>1, <1>6, <2>1 DEF AheadInv
<1>. QED BY <1>3, <1>4, <1>5, <1>6 DEF AheadInv

LEMMA NStepInv == AheadInv /\ [NNext]_nextLineVars => AheadInv'
<1>1. ASSUME AheadInv, NEW in \in Port, ResetClock(in) PROVE AheadInv'
  <2>1. state' = "idle" /\ address' \in Int /\ base' \in Int /\ counter' \in Nat
    BY <1>1 DEF AheadInv, ResetClock
  <2>2. demanded' = FALSE
    BY <1>1 DEF ResetClock
  <2>3. ~demanded' /\ demanded' \in BOOLEAN
    BY ONLY <2>2
  <2>. QED BY <2>1, <2>3 DEF AheadInv
<1>2. ASSUME AheadInv, UNCHANGED nextLineVars PROVE AheadInv'
  BY <1>2 DEF AheadInv, nextLineVars
<1>. QED BY <1>1, <1>2, ClockKeepsAhead DEF NNext

LEMMA AheadIsClose == AheadInv => ReadsCloseAhead
BY LimitAssumption DEF AheadInv, ReadsCloseAhead

-----------------------------------------------------------------------------
(* The stride prefetcher.                                                  *)

\* Bits are never cleared but by a reset: where a bit is set, a call of set_mru has
\* found a clear one.  A tracker whose bit is clear is as the reset left it; among
\* those that hold instruction 0, only the last can have been used.
TrackersInv ==
  /\ ip \in [Tracker -> Nat] /\ lru_bit \in [Tracker -> BOOLEAN] /\ found_zero \in BOOLEAN
  /\ \A t \in Tracker : lru_bit[t] => found_zero
  /\ \A t \in Clear : ip[t] = 0 /\ last_cla[t] = 0 /\ last_stride[t] = 0
  /\ \A t, u \in Tracker \ Clear : ip[t] = ip[u] => t = u
  /\ \A t \in Tracker \ Clear, u \in Clear : ip[t] = 0 => u < t

LEMMA TrackerIs ==
  /\ \A t : t \in Tracker <=> t \in Int /\ 0 <= t /\ t < IP_TRACKER_COUNT
  /\ IP_TRACKER_COUNT \in Nat /\ IP_TRACKER_COUNT > 1 /\ Tracker \subseteq Nat
  /\ NoTracker \notin Tracker
BY TrackerAssumption DEF Tracker, NoTracker

LEMMA LruIdxIs == IF Clear = {} THEN LruIdx = NoTracker ELSE LruIdx \in Clear
<1>1. CASE Clear # {}
  <2>1. Clear \subseteq Nat
    BY TrackerIs DEF Clear
  <2>2. \E t \in Clear : \A u \in Clear : t <= u
    BY <1>1, <2>1, LeastOf
  <2>. QED BY <1>1, <2>2 DEF LruIdx
<1>. QED BY <1>1 DEF LruIdx

LEMMA GreatestTracker ==
  ASSUME NEW S, S \subseteq Tracker, S # {}
  PROVE  \E x \in S : \A y \in S : y <= x
<1>. DEFINE T == {m \in Nat : IP_TRACKER_COUNT - m \in S}
<1>1. PICK z \in S : TRUE
  OBVIOUS
<1>2. \A y \in S : IP_TRACKER_COUNT - y \in T /\ y \in Nat
  BY TrackerIs
<1>3. T \subseteq Nat /\ T # {}
  BY <1>1, <1>2
<1>4. PICK t \in T : \A u \in T : t <= u
  BY <1>3, LeastOf
<1>5. IP_TRACKER_COUNT - t \in S /\ t \in Nat
  OBVIOUS
<1>6. ASSUME NEW y \in S PROVE y <= IP_TRACKER_COUNT - t
  <2>1. t <= IP_TRACKER_COUNT - y
    BY <1>2, <1>4
  <2>. QED BY <1>2, <1>5, <2>1, TrackerIs
<1>. QED BY <1>5, <1>6

LEMMA IpMatchIs ==
  ASSUME NEW i
  PROVE  IF Matching(i) = {} THEN IpMatch(i) = NoTracker
         ELSE /\ IpMatch(i) \in Matching(i) /\ IpMatch(i) # NoTracker
              /\ \A u \in Matching(i) : u <= IpMatch(i)
<1>1. CASE Matching(i) = {}
  BY <1>1 DEF IpMatch
<1>2. CASE Matching(i) # {}
  <2>1. Matching(i) \subseteq Tracker
    BY DEF Matching
  <2>2. \E t \in Matching(i) : \A u \in Matching(i) : u <= t
    BY <1>2, <2>1, GreatestTracker
  <2>. QED BY <1>2, <2>1, <2>2, TrackerIs DEF IpMatch
<1>. QED BY <1>1, <1>2

\* The call finds a clear bit, or one has: there are two trackers, and where none has
\* been found all bits are clear.  So it sets the bit and clears none.
LEMMA SetMruIs ==
  ASSUME TrackersInv, NEW t \in Tracker \cup {NoTracker}, t = NoTracker => Clear = {}, SetMru(t)
  PROVE  found_zero' = TRUE /\ lru_bit' = Written(lru_bit, t, TRUE)
<1>. DEFINE bits == Written(lru_bit, t, TRUE)
<1>1. /\ found_zero' = (found_zero \/ \E u \in Tracker : ~bits[u])
      /\ found_zero \/ (\E u \in Tracker : ~bits[u]) => lru_bit' = bits
  BY DEF SetMru
<1>2. found_zero \/ \E u \in Tracker : ~bits[u]
  <2>1. PICK u \in Tracker : u # t
    <3>1. 0 \in Tracker /\ 1 \in Tracker
      BY TrackerIs
    <3>. QED BY <3>1
  <2>2. bits[u] = lru_bit[u]
    BY <2>1 DEF Written
  <2>. QED BY <2>2 DEF TrackersInv
<1>. HIDE DEF bits
<1>3. found_zero' = TRUE
  BY <1>1, <1>2, Zenon
<1>. QED BY <1>1, <1>2, <1>3 DEF bits

LEMMA IInitInv == IInit => TrackersInv
<1>. SUFFICES ASSUME IInit PROVE TrackersInv
  OBVIOUS
<1>1. Tracker \ Clear = {}
  BY DEF IInit, Clear
<1>. QED BY <1>1 DEF IInit, TrackersInv, Clear

\* The tracker taken is clear, so it held 0: what is written there is another
\* instruction, or 0 would have had a match.
LEMMA AllocateKeepsTrackers ==
  ASSUME TrackersInv, NEW i \in Ip, NEW cla \in Cla, AllocateNewTracker(i, cla)
  PROVE  TrackersInv'
<1>. DEFINE l == LruIdx
<1>1. /\ l \in Tracker \cup {NoTracker} /\ i \in Nat
      /\ l = NoTracker => Clear = {}
      /\ l # NoTracker => l \in Clear
  BY LruIdxIs, TrackerIs, TrackerAssumption DEF Clear
<1>2. /\ ip' = Written(ip, l, i) /\ last_cla' = Written(last_cla, l, cla)
      /\ last_stride' = Written(last_stride, l, 0)
      /\ SetMru(l) /\ IpMatch(i) = NoTracker
  BY DEF AllocateNewTracker
<1>. HIDE DEF l
<1>3. found_zero' = TRUE /\ lru_bit' = Written(lru_bit, l, TRUE)
  BY <1>1, <1>2, SetMruIs
<1>4. \A t \in Tracker : ip[t] # i
  BY <1>2, IpMatchIs DEF Matching
<1>5. \A u \in Tracker :
        /\ ip'[u] = IF u = l THEN i ELSE ip[u]
        /\ lru_bit'[u] = IF u = l THEN TRUE ELSE lru_bit[u]
        /\ u # l => last_cla'[u] = last_cla[u] /\ last_stride'[u] = last_stride[u]
  BY <1>2, <1>3 DEF Written
<1>6. Clear' = Clear \ {l}
  BY <1>5 DEF Clear
<1>7. ip' \in [Tracker -> Nat] /\ lru_bit' \in [Tracker -> BOOLEAN]
  BY <1>1, <1>2, <1>3 DEF Written, TrackersInv
<1>8. l \in Tracker => i # 0
  BY <1>1, <1>4, TrackerIs DEF TrackersInv, Clear
<1>9. \A t \in Clear' : ip'[t] = 0 /\ last_cla'[t] = 0 /\ last_stride'[t] = 0
  BY <1>5, <1>6 DEF TrackersInv, Clear
<1>10. ASSUME NEW t \in (Tracker \ Clear)', NEW u \in (Tracker \ Clear)', ip'[t] = ip'[u]
       PROVE  t = u
  BY <1>4, <1>5, <1>6, <1>10 DEF TrackersInv
<1>11. ASSUME NEW t \in (Tracker \ Clear)', NEW u \in Clear', ip'[t] = 0 PROVE u < t
  BY <1>5, <1>6, <1>8, <1>11 DEF TrackersInv
<1>. QED BY <1>3, <1>7, <1>9, <1>10, <1>11 DEF TrackersInv

\* The match is the last: where it holds 0, the clear ones are before it, and no
\* other tracker that has been used holds 0.
LEMMA UpdateKeepsTrackers ==
  ASSUME TrackersInv, NEW i \in Ip, NEW cla \in Cla, UpdateTracker(i, cla)
  PROVE  TrackersInv'
<1>. DEFINE t == IpMatch(i)
<1>1. /\ t # NoTracker /\ SetMru(t) /\ ip' = ip
      /\ last_cla' = Written(last_cla, t, cla)
      /\ last_stride' = Written(last_stride, t, cla - last_cla[t])
  BY DEF UpdateTracker
<1>2. t \in Tracker /\ ip[t] = i /\ \A u \in Tracker : ip[u] = i => u <= t
  BY <1>1, IpMatchIs DEF Matching
<1>. HIDE DEF t
<1>3. found_zero' = TRUE /\ lru_bit' = Written(lru_bit, t, TRUE)
  BY <1>1, <1>2, SetMruIs
<1>4. \A u \in Tracker :
        /\ lru_bit'[u] = IF u = t THEN TRUE ELSE lru_bit[u]
        /\ u # t => last_cla'[u] = last_cla[u] /\ last_stride'[u] = last_stride[u]
  BY <1>1, <1>3 DEF Written
<1>5. Clear' = Clear \ {t}
  BY <1>4 DEF Clear
<1>6. lru_bit' \in [Tracker -> BOOLEAN]
  BY <1>3 DEF Written, TrackersInv
<1>7. \A u \in Clear' : ip'[u] = 0 /\ last_cla'[u] = 0 /\ last_stride'[u] = 0
  BY <1>1, <1>4, <1>5 DEF TrackersInv, Clear
<1>8. ASSUME NEW u \in Tracker \ Clear, ip[u] = ip[t] PROVE u = t
  <2>1. CASE t \in Clear
    <3>1. ip[u] = 0 /\ t < u
      BY <1>8, <2>1 DEF TrackersInv
    <3>2. u <= t
      BY <1>2, <1>8
    <3>. QED BY <1>2, <3>1, <3>2, TrackerIs
  <2>2. CASE t \notin Clear
    BY <1>2, <1>8, <2>2 DEF TrackersInv
  <2>. QED BY <2>1, <2>2
<1>9. ASSUME NEW u \in (Tracker \ Clear)', NEW v \in (Tracker \ Clear)', ip'[u] = ip'[v]
      PROVE  u = v
  BY <1>1, <1>5, <1>8, <1>9 DEF TrackersInv
<1>10. ASSUME NEW u \in (Tracker \ Clear)', NEW v \in Clear', ip'[u] = 0 PROVE v < u
  <2>1. v \in Clear /\ v \in Tracker /\ v # t /\ ip[v] = 0
    BY <1>5 DEF Clear, TrackersInv
  <2>2. CASE u = t
    <3>1. v <= t
      BY <1>1, <1>2, <1>10, <2>1, <2>2
    <3>. QED BY <1>2, <2>1, <2>2, <3>1, TrackerIs
  <2>3. CASE u # t
    BY <1>1, <1>5, <1>10, <2>1, <2>3 DEF TrackersInv
  <2>. QED BY <2>2, <2>3
<1>. QED BY <1>1, <1>3, <1>6, <1>7, <1>9, <1>10 DEF TrackersInv

LEMMA IStepInv == TrackersInv /\ [INext]_strideVars => TrackersInv'
<1>1. ASSUME TrackersInv, Reset PROVE TrackersInv'
  <2>1. (Tracker \ Clear)' = {}
    BY <1>1 DEF Reset, Clear
  <2>. QED BY <1>1, <2>1 DEF Reset, TrackersInv, Clear
<1>2. ASSUME TrackersInv, UNCHANGED strideVars PROVE TrackersInv'
  BY <1>2 DEF TrackersInv, strideVars, Clear
<1>. QED BY <1>1, <1>2, AllocateKeepsTrackers, UpdateKeepsTrackers DEF INext

LEMMA TrackersAreSound == TrackersInv => TrackersAreKept
BY DEF TrackersInv, TrackersAreKept, Clear

-----------------------------------------------------------------------------
(* The best-offset prefetcher.                                             *)

\* No score from the offset of the next test on is at the width: it would have
\* ended the rounds, at the latest at the end of the round it got there.
ScoresInv ==
  /\ score \in [OffsetIdx -> 0 .. SCORE_MAX]
  /\ curr_max_score \in 0 .. SCORE_MAX
  /\ best_offset_idx \in OffsetIdx /\ curr_offset_idx \in OffsetIdx
  /\ score[best_offset_idx] = curr_max_score
  /\ \A p \in OffsetIdx : score[p] <= curr_max_score
  /\ \A p \in OffsetIdx : p >= curr_offset_idx => score[p] < SCORE_MAX

LEMMA OffsetIdxIs ==
  /\ \A p : p \in OffsetIdx <=> p \in Int /\ 0 <= p /\ p < NOFFSETS
  /\ NOFFSETS \in Nat /\ NOFFSETS > 0 /\ SCORE_MAX \in Nat /\ SCORE_MAX > 1
BY LearnAssumption DEF OffsetIdx

LEMMA NarrowKeeps == ASSUME NEW s \in 0 .. SCORE_MAX PROVE Narrow(s) = s
<1>1. SCORE_MAX \in Nat
  BY OffsetIdxIs
<1>2. \A n \in Nat \ {0} : \A x \in 0 .. n - 1 : x % n = x
  OBVIOUS
<1>3. SCORE_MAX + 1 \in Nat \ {0} /\ s \in 0 .. (SCORE_MAX + 1) - 1
  BY <1>1
<1>. QED BY <1>2, <1>3 DEF Narrow

LEMMA ResetScores == LearnReset => ScoresInv'
<1>. SUFFICES ASSUME LearnReset PROVE ScoresInv'
  OBVIOUS
<1>1. 0 \in OffsetIdx /\ 0 \in 0 .. SCORE_MAX /\ 0 < SCORE_MAX
  BY OffsetIdxIs
<1>. QED BY <1>1 DEF LearnReset, ScoresInv

LEMMA LInitInv == LInit => ScoresInv
<1>. SUFFICES ASSUME LInit PROVE ScoresInv
  OBVIOUS
<1>1. 0 \in OffsetIdx /\ 0 \in 0 .. SCORE_MAX /\ 0 < SCORE_MAX
  BY OffsetIdxIs
<1>. QED BY <1>1 DEF LInit, ScoresInv

LEMMA TestKeepsScores ==
  ASSUME ScoresInv, NEW rr_hit \in BOOLEAN, Test(rr_hit)
  PROVE  ScoresInv'
<1>. DEFINE c == curr_offset_idx
            top == IF score[c] + 1 >= curr_max_score THEN score[c] + 1 ELSE curr_max_score
<1>1. /\ c \in OffsetIdx /\ score[c] \in Int /\ 0 <= score[c] /\ score[c] < SCORE_MAX
      /\ curr_max_score \in Int /\ 0 <= curr_max_score /\ curr_max_score <= SCORE_MAX
      /\ SCORE_MAX \in Nat /\ SCORE_MAX > 1 /\ NOFFSETS \in Nat
  BY OffsetIdxIs DEF ScoresInv
<1>2. top \in 0 .. SCORE_MAX /\ score[c] + 1 \in 0 .. SCORE_MAX /\ score[c] + 1 <= top
      /\ curr_max_score <= top
  BY <1>1
<1>3. NextMaxScore = top /\ Narrow(score[c] + 1) = score[c] + 1
  BY <1>2, NarrowKeeps DEF NextMaxScore, Tested
<1>4. NextBestIdx = IF score[c] + 1 >= curr_max_score THEN c ELSE best_offset_idx
  BY DEF NextBestIdx, Tested
\* The next offset; in a new round no score is at the width.
<1>5. /\ curr_offset_idx' \in OffsetIdx
      /\ \A p \in OffsetIdx : p >= curr_offset_idx' => p > c \/ top < SCORE_MAX
      /\ \A p \in OffsetIdx : p >= curr_offset_idx' => p >= c \/ top < SCORE_MAX
  <2>1. CASE LastOffset
    <3>1. curr_offset_idx' = 0 /\ top # SCORE_MAX
      BY <1>3, <2>1 DEF Test, RoundsEnd
    <3>. QED BY <1>1, <1>2, <3>1, OffsetIdxIs
  <2>2. CASE ~LastOffset
    <3>1. curr_offset_idx' = c + 1 /\ c # NOFFSETS - 1
      BY <2>2 DEF Test, LastOffset
    <3>. QED BY <1>1, <3>1, OffsetIdxIs
  <2>. QED BY <2>1, <2>2
<1>. HIDE DEF top, c
<1>6. CASE ~rr_hit
  <2>1. score' = score /\ curr_max_score' = curr_max_score /\ best_offset_idx' = best_offset_idx
    BY <1>6 DEF Test
  <2>2. ASSUME NEW p \in OffsetIdx, p >= curr_offset_idx' PROVE score[p] < SCORE_MAX
    <3>1. /\ score[p] \in Int /\ score[p] <= curr_max_score
          /\ p >= c => score[p] < SCORE_MAX
      BY OffsetIdxIs DEF ScoresInv, c
    <3>. QED BY <1>1, <1>2, <1>5, <2>2, <3>1
  <2>. QED BY <1>5, <2>1, <2>2 DEF ScoresInv
<1>7. CASE rr_hit
  <2>1. /\ score' = [score EXCEPT ![c] = score[c] + 1] /\ curr_max_score' = top
        /\ best_offset_idx' = IF score[c] + 1 >= curr_max_score THEN c ELSE best_offset_idx
    BY <1>3, <1>4, <1>7 DEF Test, c
  <2>2. ASSUME NEW p \in OffsetIdx
        PROVE  /\ score'[p] = IF p = c THEN score[c] + 1 ELSE score[p]
               /\ score[p] \in 0 .. SCORE_MAX /\ score[p] <= curr_max_score
               /\ p >= c => score[p] < SCORE_MAX
    BY <2>1 DEF ScoresInv, c
  <2>3. score' \in [OffsetIdx -> 0 .. SCORE_MAX] /\ top \in 0 .. SCORE_MAX
    BY <1>2, <2>1 DEF ScoresInv
  <2>4. best_offset_idx' \in OffsetIdx /\ score'[best_offset_idx'] = top
    <3>1. best_offset_idx \in OffsetIdx /\ score[best_offset_idx] = curr_max_score
      BY DEF ScoresInv
    <3>2. CASE score[c] + 1 >= curr_max_score
      BY <1>1, <2>1, <2>2, <3>2 DEF top
    <3>3. CASE ~(score[c] + 1 >= curr_max_score)
      <4>1. best_offset_idx # c
        BY <1>1, <3>1, <3>3
      <4>. QED BY <2>1, <2>2, <3>1, <3>3, <4>1 DEF top
    <3>. QED BY <3>2, <3>3
  <2>5. ASSUME NEW p \in OffsetIdx PROVE score'[p] <= top
    <3>1. score[p] \in Int /\ top \in Int
      BY <1>2, <2>2, OffsetIdxIs
    <3>. QED BY <1>1, <1>2, <2>2, <3>1
  <2>6. ASSUME NEW p \in OffsetIdx, p >= curr_offset_idx' PROVE score'[p] < SCORE_MAX
    <3>1. score[p] \in Int /\ top \in Int /\ score'[p] \in Int /\ p \in Int
      BY <1>2, <2>2, <2>3, OffsetIdxIs
    <3>2. CASE top < SCORE_MAX
      BY <1>1, <2>5, <3>1, <3>2
    <3>3. CASE p > c
      <4>1. p # c /\ p >= c
        BY <1>1, <3>1, <3>3, OffsetIdxIs
      <4>. QED BY <2>2, <4>1
    <3>. QED BY <1>5, <2>6, <3>2, <3>3
  <2>. QED BY <1>5, <2>1, <2>3, <2>4, <2>5, <2>6 DEF ScoresInv
<1>. QED BY <1>6, <1>7

LEMMA LStepInv == ScoresInv /\ [LNext]_learnVars => ScoresInv'
<1>1. ASSUME ScoresInv, UNCHANGED learnVars PROVE ScoresInv'
  BY <1>1 DEF ScoresInv, learnVars
<1>. QED BY <1>1, TestKeepsScores, ResetScores DEF LNext, EndRounds

\* PrefetchersAreSound: whichever device runs, the next-line prefetcher reads at most limit
\* lines past the demand it took last, the stride prefetcher takes no tracker that has been
\* used since the reset and follows no instruction twice, and the best offset's score is the
\* greatest.
THEOREM PrefetchersTheorem == MCSpec => []PrefetchersAreSound
<1>. DEFINE Inv == AheadInv /\ TrackersInv /\ ScoresInv
<1>1. MCInit => Inv
  BY NInitInv, IInitInv, LInitInv DEF MCInit
<1>2. ASSUME Inv, [MCNext]_<<replacementVars, prefetcherVars, pageVars, set, device>>
      PROVE  Inv'
  <2>1. [NNext]_nextLineVars /\ [INext]_strideVars /\ [LNext]_learnVars
    BY <1>2 DEF MCNext, MCReplacement, MCPrefetchers, prefetcherVars
  <2>. QED BY <1>2, <2>1, NStepInv, IStepInv, LStepInv
<1>3. Inv => PrefetchersAreSound
  BY AheadIsClose, TrackersAreSound DEF PrefetchersAreSound, ScoresInv, MaximumIsOfScores
<1>. QED BY <1>1, <1>2, <1>3, PTL DEF MCSpec
=============================================================================
