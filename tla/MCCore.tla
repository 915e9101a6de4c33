------------------------------- MODULE MCCore -------------------------------
(* Traces for OutOfOrderCore: all short ones over a few kinds of           *)
(* instructions, and longer ones in which a buffer is full or wraps.       *)
EXTENDS OutOfOrderCore

I(line, src, dst, load, store) == [line |-> line, src |-> src, dst |-> dst, load |-> load,
                                   store |-> store, branch |-> FALSE]
LoadA   == I("x", {}, {"r"}, <<"a">>, <<>>)
ChaseB  == I("x", {"r"}, {"s"}, <<"b">>, <<>>)
StoreA  == I("x", {"s"}, {}, <<>>, <<"a">>)
Compute == I("y", {"r"}, {"r"}, <<>>, <<>>)
Add     == I("y", {"r", "s"}, {"r"}, <<>>, <<>>)
Modify  == I("y", {"r"}, {}, <<"a">>, <<"a">>)
StoreB  == I("y", {}, {}, <<>>, <<"b">>)
LoadPair == I("x", {}, {"r", "s"}, <<"a", "b">>, <<>>)
Branch  == [I("y", {"r"}, {}, <<>>, <<>>) EXCEPT !.branch = TRUE]

Kinds == {LoadA, ChaseB, StoreA, Compute, Modify}
ShortTraces == [1 .. 3 -> Kinds]
LongTraces == {<<Compute, ChaseB, StoreA, LoadA>>, <<Compute, Branch, StoreA, LoadA>>,
               <<StoreA, Modify, StoreA, LoadA>>, <<StoreA, StoreB, LoadPair, StoreA>>,
               <<LoadA, ChaseB, Add, Branch, StoreA>>, <<LoadA, Branch, Branch, Modify>>}
MCTraces == ShortTraces \cup LongTraces

\* An instruction with two stores, a younger store to one of their addresses,
\* and an instruction that loads both.
StorePair == I("x", {}, {}, <<>>, <<"a", "b">>)
PairTrace == {<<StorePair, StoreA, LoadPair>>}

\* The load waits for the store, the store for the second instruction, and
\* this one for the only slot of the load queue.
FullQueueTrace == {<<Compute, ChaseB, StoreA, LoadA>>}
=============================================================================
