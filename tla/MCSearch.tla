------------------------------ MODULE MCSearch ------------------------------
(* Three partitions, two lengths of a row, two wire types, two threads.     *)
EXTENDS ArraySearch

Array(delay, energy) ==
  [access_time |-> delay, dynamic |-> energy, mux |-> 1, before |-> delay - 1,
   after |-> 2]
\* Fast, frugal, and costly in both: one is far off when the others are there.
Arrays == {Array(2, 6), Array(3, 2), Array(6, 9)}
MCDataOf == [0 .. niter - 1 -> Arrays \cup {Invalid}]
\* The second wire type is slower and takes less, a longer row takes more.
OnWires(a, o) ==
  IF a = Invalid THEN a ELSE [a EXCEPT !.access_time = @ + o.wr - 1,
                                       !.dynamic = @ + o.nspd - o.wr]
MCData == {[o \in Org |-> OnWires(f[o.iter], o)] : f \in MCDataOf}
MCTag == [o \in Org |-> IF o.iter = 1 THEN Invalid ELSE Array(1 + o.iter, 4 - o.wr)]
NoTags == [o \in Org |-> Invalid]
MCEvaluation ==
  [data : MCData, tag : {MCTag}]
  \cup {[data |-> [o \in Org |-> OnWires(Array(2, 6), o)], tag |-> NoTags]}
MCConfig ==
  [ram : {FALSE}, forced : {FALSE}, access : {"fast", "sequential", "normal"},
   ed : {0, 2}]
  \cup [ram : {TRUE}, forced : BOOLEAN, access : {"fast"}, ed : {0, 1}]
MCConfigNoEd == {c \in MCConfig : c.ed = 0}
=============================================================================
