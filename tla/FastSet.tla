------------------------------- MODULE FastSet -------------------------------
(***************************************************************************)
(* class fastset of src/ChampSim/inc/set.h, in which the core and the      *)
(* caches keep who waits for whom: a sorted array while the set is small,  *)
(* and from SMALL_SIZE elements on a bit array in the same memory.  Once it *)
(* is a bit array it stays one, and card no longer counts.                 *)
(***************************************************************************)
EXTENDS Integers, Sequences, FiniteSets, SequencesExt

CONSTANTS
  SMALL_SIZE,    \* elements at which the array becomes bits
  SMALLER_SIZE,  \* elements from which the array is searched by halves
  WordBits,      \* 64
  Limit          \* the n of join and expand: the elements are below it
ASSUME FastSetAssumption ==
  /\ {SMALL_SIZE, SMALLER_SIZE, WordBits, Limit} \subseteq Nat \ {0}

VARIABLE set  \* set[k]: [card, values (of a small set), bits (of the other, by word)]
Name == {"this", "other"}
Element == 0 .. Limit - 1
Word == 0 .. Limit \div WordBits        \* the words that join reads
NoBits == [w \in Word |-> {}]

SetBit(bits, x) == [bits EXCEPT ![x \div WordBits] = @ \cup {x % WordBits}]
GetBit(bits, x) == x % WordBits \in bits[x \div WordBits]
IsSmall(s) == s.card < SMALL_SIZE

SmallToBit(s) ==
  [s EXCEPT !.values = <<>>,
            !.bits = [w \in Word |-> {x % WordBits : x \in {x \in ToSet(s.values) : x \div WordBits = w}}]]

InsertSmall(s, x) ==
  LET i == Cardinality({k \in DOMAIN s.values : s.values[k] < x})
  IN IF i < s.card /\ s.values[i + 1] = x
       THEN s
       ELSE [s EXCEPT !.values = InsertAt(s.values, i + 1, x), !.card = @ + 1]

InsertInto(s, x) ==
  IF s.card = 0 THEN [s EXCEPT !.values = <<x>>, !.card = 1]
  ELSE IF ~IsSmall(s) THEN [s EXCEPT !.bits = SetBit(s.bits, x)]
  ELSE LET t == InsertSmall(s, x)
       IN IF IsSmall(t) THEN t ELSE SmallToBit(t)

\* Mutant: the last word is left out.
JoinIntoWholeWords(s, o) ==
  IF IsSmall(o) THEN FoldLeft(InsertInto, s, o.values)
  ELSE LET t == IF IsSmall(s) THEN [SmallToBit(s) EXCEPT !.card = SMALL_SIZE] ELSE s
           lim == Limit \div WordBits
       IN [t EXCEPT !.bits = [w \in Word |-> IF w < lim THEN t.bits[w] \cup o.bits[w]
                                             ELSE t.bits[w]]]

\* The words up to the one that holds bit n.
JoinInto(s, o) ==
  IF IsSmall(o) THEN FoldLeft(InsertInto, s, o.values)
  ELSE LET t == IF IsSmall(s) THEN [SmallToBit(s) EXCEPT !.card = SMALL_SIZE] ELSE s
       IN [t EXCEPT !.bits = [w \in Word |-> t.bits[w] \cup o.bits[w]]]

\* Positions count from zero, as in the code.
SearchLinear(s, x) ==
  \E i \in 0 .. s.card - 1 : /\ s.values[i + 1] = x
                             /\ \A j \in 0 .. i : s.values[j + 1] <= x

Halves(s, x) ==
  LET find[begin \in 0 .. s.card, end \in -1 .. s.card - 1] ==
        LET middle == (begin + end) \div 2
            y == s.values[middle + 1]
        IN CASE end < begin -> FALSE
             [] end >= begin /\ x < y -> find[begin, middle - 1]
             [] end >= begin /\ x > y -> find[middle + 1, end]
             [] OTHER -> TRUE
  IN find[0, s.card - 1]

Search(s, x) ==
  IF s.card = 0 THEN FALSE
  ELSE IF ~IsSmall(s) THEN GetBit(s.bits, x)
  ELSE IF s.card < SMALLER_SIZE THEN SearchLinear(s, x) ELSE Halves(s, x)

Expand(s) ==
  IF IsSmall(s) THEN s.values
  ELSE SelectSeq([k \in 1 .. Limit |-> k - 1], LAMBDA x : GetBit(s.bits, x))

InsertElement(k, x) == set' = [set EXCEPT ![k] = InsertInto(@, x)]
Join(k, o) == set' = [set EXCEPT ![k] = JoinInto(@, set[o])]
FInit == set = [k \in Name |-> [card |-> 0, values |-> <<>>, bits |-> NoBits]]
FNext == \E k \in Name : (\E x \in Element : InsertElement(k, x)) \/ (\E o \in Name : Join(k, o))
FSpec == FInit /\ [][FNext]_set

-----------------------------------------------------------------------------
\* However the two sets grew and were joined, each is what a mathematical set
\* would be: whatever the form it is in, an insert adds its element and nothing
\* else, a join adds what search finds in the other set and nothing else, and
\* expand lists what search finds, once and in order.
Members(s) == {x \in Element : Search(s, x)}
IsAscending(q) == \A i, j \in DOMAIN q : i < j => q[i] < q[j]
ExpandAgrees ==
  \A k \in Name : IsAscending(Expand(set[k])) /\ ToSet(Expand(set[k])) = Members(set[k])

InsertAdds ==
  \A k \in Name, x \in Element : Members(InsertInto(set[k], x)) = Members(set[k]) \cup {x}
JoinAdds ==
  \A k, o \in Name : Members(JoinInto(set[k], set[o])) = Members(set[k]) \cup Members(set[o])
BehavesAsSet == ExpandAgrees /\ InsertAdds /\ JoinAdds
=============================================================================
