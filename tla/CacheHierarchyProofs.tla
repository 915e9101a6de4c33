------------------------ MODULE CacheHierarchyProofs ------------------------
(* Proofs about CacheHierarchy, for every tree, every size and every set   *)
(* of lines: its type invariant, with the bounds of the queues and of the  *)
(* MSHRs; no request is lost and no answer is invented.  The core's        *)
(* requests survive every merge in the first levels (DemandIsKept); every  *)
(* answer of a level below meets one miss that waits for it                *)
(* (ReturnFindsMiss), and every miss that waits is answered by one request *)
(* below (MissIsServed); modified data moves down and is never dropped     *)
(* (ModifiedMovesDown).                                                    *)
EXTENDS CacheHierarchy, SequenceTheorems, FiniteSetTheorems,
        WellFoundedInduction, TLAPS

-----------------------------------------------------------------------------
(* Constants.                                                              *)

LEMMA TreeFacts ==
  ASSUME NEW c \in Cache
  PROVE  /\ Level(c) \in {1, 2, 4} /\ c \in Node /\ Lower(c) \in Node
BY CacheAssumption DEF Level, Lower, Node, Memory

LEMMA SizeFacts ==
  /\ \A n \in Node : RqSize[n] \in Nat /\ WqSize[n] \in Nat /\ PqSize[n] \in Nat
  /\ \A c \in Cache : NumWay[c] \in Nat /\ MshrSize[c] \in Nat
BY SizeAssumption

\* The MSHR file and the ways of a cache, as types.
MshrFile == [Line -> Entry \cup {None}]

-----------------------------------------------------------------------------
(* Packets.                                                                *)

LEMMA CorePackets ==
  /\ \A x \in Line : Fetch(x) \in Packet /\ CodePrefetch(x) \in Packet
  /\ \A x \in Line, t \in ReqType : Data(x, t) \in Packet
  /\ \A x \in Line, f \in {1, 2, 4} : LinePrefetch(x, f) \in Packet
<1>1. \A x \in Line : Fetch(x) \in Packet
  BY DEF Fetch, Packet, ReqType, Side
<1>2. \A x \in Line : CodePrefetch(x) \in Packet
  BY DEF CodePrefetch, Fetch, Packet, ReqType, Side
<1>3. \A x \in Line, t \in ReqType : Data(x, t) \in Packet
  BY DEF Data, Packet, Side
<1>4. \A x \in Line, f \in {1, 2, 4} : LinePrefetch(x, f) \in Packet
  BY DEF LinePrefetch, Packet, ReqType, Side
<1>. QED BY <1>1, <1>2, <1>3, <1>4

LEMMA WritebackType ==
  ASSUME NEW c \in Cache, NEW x \in Line
  PROVE  Writeback(c, x) \in Packet
<1>1. 2 * Level(c) \in {2, 4, 8}
  BY TreeFacts
<1>. QED BY <1>1 DEF Writeback, Packet, ReqType, Side

LEMMA NewEntryType == \A p \in Packet : NewEntry(p) \in Entry
BY DEF NewEntry, Packet, Entry

LEMMA JoinType ==
  ASSUME NEW e \in Entry, NEW p \in Packet
  PROVE  ReadJoin(e, p) \in Entry /\ RfoJoin(e, p) \in Entry
<1>1. TakeOver(e, p) \in Entry
  BY NewEntryType DEF TakeOver, Entry
<1>2. Min2(e.fill, p.fill) \in {1, 2, 4, 8}
  BY DEF Min2, Entry, Packet
<1>3. e.dest \cup p.dest \in SUBSET Side
  BY DEF Entry, Packet
<1>4. [e EXCEPT !.fill = Min2(@, p.fill), !.dest = @ \cup p.dest] \in Entry
  BY <1>2, <1>3 DEF Entry
<1>5. ASSUME NEW k \in SUBSET Side
      PROVE  [e EXCEPT !.fill = Min2(@, p.fill), !.dest = @ \cup p.dest,
                       !.kind = k] \in Entry
  BY <1>2, <1>3, <1>5 DEF Entry
<1>6. /\ e.kind \in SUBSET Side /\ e.kind \cup {"I"} \in SUBSET Side
      /\ e.kind \cup {"D"} \in SUBSET Side
  BY DEF Entry, Side
<1>7. ReadJoin(e, p) \in Entry
  BY <1>1, <1>5, <1>6 DEF ReadJoin
<1>8. RfoJoin(e, p) \in Entry
  BY <1>1, <1>4 DEF RfoJoin
<1>. QED BY <1>7, <1>8

LEMMA MergeRqType ==
  ASSUME NEW n, NEW e \in Packet, NEW p \in Packet
  PROVE  MergeRq(n, e, p) \in Packet
BY DEF MergeRq, Packet, Side

LEMMA MergePqType ==
  ASSUME NEW e \in Packet, NEW p \in Packet
  PROVE  MergePq(e, p) \in Packet
<1>1. Min2(e.fill, p.fill) \in {1, 2, 4, 8}
  BY DEF Min2, Packet
<1>. QED BY <1>1 DEF MergePq, Packet

-----------------------------------------------------------------------------
(* Queues.                                                                 *)

LEMMA HeadTail ==
  ASSUME NEW q \in Seq(Packet), q # << >>
  PROVE  /\ Head(q) \in Packet /\ Tail(q) \in Seq(Packet)
         /\ Len(Tail(q)) = Len(q) - 1 /\ Len(q) \in Nat
BY HeadTailProperties, LenProperties, EmptySeq

\* The result of add_rq and add_pq, whatever their merge does to an entry.
LEMMA MergedSeq ==
  ASSUME NEW q \in Seq(Packet), NEW x, NEW f \in [Packet -> Packet]
  PROVE  LET r == [i \in DOMAIN q |-> IF q[i].line = x THEN f[q[i]] ELSE q[i]]
         IN  r \in Seq(Packet) /\ Len(r) = Len(q)
<1>. DEFINE r == [i \in DOMAIN q |-> IF q[i].line = x THEN f[q[i]] ELSE q[i]]
<1>1. \A i \in 1 .. Len(q) : q[i] \in Packet
  BY ElementOfSeq
<1>2. r \in [1 .. Len(q) -> Packet] /\ Len(q) \in Nat
  BY <1>1, LenProperties
<1>3. r \in Seq(Packet)
  BY <1>2, SeqDef
<1>4. DOMAIN r = 1 .. Len(q)
  BY <1>2
<1>5. Len(r) = Len(q)
  BY <1>2, <1>3, <1>4, LenProperties
<1>. QED BY <1>3, <1>5

LEMMA AppendSeq ==
  ASSUME NEW q \in Seq(Packet), NEW p \in Packet
  PROVE  Append(q, p) \in Seq(Packet) /\ Len(Append(q, p)) = Len(q) + 1
BY AppendProperties

LEMMA AddRqType ==
  ASSUME QueuesOK(rq, RqSize), NEW n \in Node, NEW p \in Packet
  PROVE  AddRq(n, p) \in Seq(Packet) /\ Len(AddRq(n, p)) <= RqSize[n]
<1>. DEFINE f == [e \in Packet |-> MergeRq(n, e, p)]
            r == [i \in DOMAIN rq[n] |->
                    IF rq[n][i].line = p.line THEN f[rq[n][i]] ELSE rq[n][i]]
<1>1. rq[n] \in Seq(Packet) /\ Len(rq[n]) <= RqSize[n]
  BY DEF QueuesOK
<1>2. Len(rq[n]) \in Nat /\ RqSize[n] \in Nat
  BY <1>1, LenProperties, SizeFacts
<1>3. f \in [Packet -> Packet]
  BY MergeRqType
<1>4. r \in Seq(Packet) /\ Len(r) = Len(rq[n])
  <2>. HIDE DEF f
  <2>. QED BY <1>1, <1>3, MergedSeq
<1>5. r = [i \in DOMAIN rq[n] |->
             IF rq[n][i].line = p.line THEN MergeRq(n, rq[n][i], p) ELSE rq[n][i]]
  BY <1>1, ElementOfSeq, LenProperties
<1>6. Len(rq[n]) < RqSize[n]
        => /\ Append(rq[n], p) \in Seq(Packet)
           /\ Len(Append(rq[n], p)) <= RqSize[n]
  BY <1>1, <1>2, AppendSeq
<1>. QED BY <1>1, <1>2, <1>4, <1>5, <1>6 DEF AddRq, Enqueue

LEMMA AddPqType ==
  ASSUME QueuesOK(pq, PqSize), NEW n \in Node, NEW p \in Packet
  PROVE  AddPq(n, p) \in Seq(Packet) /\ Len(AddPq(n, p)) <= PqSize[n]
<1>. DEFINE f == [e \in Packet |-> MergePq(e, p)]
            r == [i \in DOMAIN pq[n] |->
                    IF pq[n][i].line = p.line THEN f[pq[n][i]] ELSE pq[n][i]]
<1>1. pq[n] \in Seq(Packet) /\ Len(pq[n]) <= PqSize[n]
  BY DEF QueuesOK
<1>2. Len(pq[n]) \in Nat /\ PqSize[n] \in Nat
  BY <1>1, LenProperties, SizeFacts
<1>3. f \in [Packet -> Packet]
  BY MergePqType
<1>4. r \in Seq(Packet) /\ Len(r) = Len(pq[n])
  <2>. HIDE DEF f
  <2>. QED BY <1>1, <1>3, MergedSeq
<1>5. r = [i \in DOMAIN pq[n] |->
             IF pq[n][i].line = p.line THEN MergePq(pq[n][i], p) ELSE pq[n][i]]
  BY <1>1, ElementOfSeq, LenProperties
<1>6. Len(pq[n]) < PqSize[n]
        => /\ Append(pq[n], p) \in Seq(Packet)
           /\ Len(Append(pq[n], p)) <= PqSize[n]
  BY <1>1, <1>2, AppendSeq
<1>. QED BY <1>1, <1>2, <1>4, <1>5, <1>6 DEF AddPq, Enqueue

\* The queues after one of them is replaced.
LEMMA ReplaceQueue ==
  ASSUME NEW q, NEW size, QueuesOK(q, size), NEW n \in Node,
         NEW s \in Seq(Packet), Len(s) <= size[n]
  PROVE  QueuesOK([q EXCEPT ![n] = s], size)
<1>. DEFINE r == [q EXCEPT ![n] = s]
<1>1. r \in [Node -> Seq(Packet)]
  BY DEF QueuesOK
<1>2. \A m \in Node : r[m] = IF m = n THEN s ELSE q[m]
  BY DEF QueuesOK
<1>3. \A m \in Node : Len(r[m]) <= size[m]
  BY <1>2 DEF QueuesOK
<1>. QED BY <1>1, <1>3 DEF QueuesOK

LEMMA PopType ==
  ASSUME NEW q, NEW size, QueuesOK(q, size), NEW c \in Cache, q[c] # << >>,
         size[c] \in Nat
  PROVE  /\ Head(q[c]) \in Packet
         /\ QueuesOK(Pop(q, c), size)
         /\ \A n \in Node : Len(Pop(q, c)[n]) <= Len(q[n])
<1>1. c \in Node
  BY TreeFacts
<1>2. q[c] \in Seq(Packet) /\ Len(q[c]) <= size[c]
  BY <1>1 DEF QueuesOK
<1>3. /\ Head(q[c]) \in Packet /\ Tail(q[c]) \in Seq(Packet)
      /\ Len(Tail(q[c])) = Len(q[c]) - 1 /\ Len(q[c]) \in Nat
  BY <1>2, HeadTail
<1>4. Len(Tail(q[c])) <= size[c]
  BY <1>2, <1>3
<1>5. QueuesOK(Pop(q, c), size)
  BY <1>1, <1>3, <1>4, ReplaceQueue DEF Pop
<1>6. \A n \in Node : Len(q[n]) \in Nat
  BY LenProperties DEF QueuesOK
<1>7. \A n \in Node : Pop(q, c)[n] = IF n = c THEN Tail(q[c]) ELSE q[n]
  BY DEF Pop, QueuesOK
<1>8. ASSUME NEW n \in Node PROVE Len(Pop(q, c)[n]) <= Len(q[n])
  <2>1. CASE n = c
    <3>1. Len(Tail(q[c])) <= Len(q[c])
      BY <1>3
    <3>. QED BY <1>7, <2>1, <3>1
  <2>2. CASE n # c
    BY <1>6, <1>7, <2>2
  <2>. QED BY <2>1, <2>2
<1>. QED BY <1>3, <1>5, <1>8

\* add_wq on a queue with room.
LEMMA AddWqType ==
  ASSUME NEW q, QueuesOK(q, WqSize), NEW n \in Node, NEW p \in Packet,
         Len(q[n]) < WqSize[n]
  PROVE  QueuesOK(AddWq(q, n, p), WqSize)
<1>1. q[n] \in Seq(Packet) /\ Len(q[n]) \in Nat /\ WqSize[n] \in Nat
  BY LenProperties, SizeFacts DEF QueuesOK
<1>2. Append(q[n], p) \in Seq(Packet) /\ Len(Append(q[n], p)) <= WqSize[n]
  BY <1>1, AppendSeq
<1>3. QueuesOK([q EXCEPT ![n] = Append(q[n], p)], WqSize)
  BY <1>2, ReplaceQueue
<1>. QED BY <1>3 DEF AddWq

\* An entry of a queue leaves it: the DRAM serves it.
LEMMA WithoutType ==
  ASSUME NEW q \in Seq(Packet), NEW i \in DOMAIN q
  PROVE  Without(q, i) \in Seq(Packet) /\ Len(Without(q, i)) <= Len(q)
<1>1. Len(q) \in Nat /\ i \in 1 .. Len(q)
  BY LenProperties
<1>2. i - 1 \in Int /\ i + 1 \in Int /\ 1 <= i /\ i <= Len(q)
  BY <1>1
<1>. DEFINE a == SubSeq(q, 1, i - 1)
            b == SubSeq(q, i + 1, Len(q))
<1>3. a \in Seq(Packet) /\ Len(a) = i - 1
  BY <1>1, <1>2, SubSeqProperties
<1>4. b \in Seq(Packet) /\ Len(b) = Len(q) - i
  BY <1>1, <1>2, SubSeqProperties
<1>5. a \o b \in Seq(Packet) /\ Len(a \o b) = Len(a) + Len(b)
  BY <1>3, <1>4, ConcatProperties
<1>. QED BY <1>1, <1>2, <1>3, <1>4, <1>5 DEF Without

-----------------------------------------------------------------------------
(* MSHRs.                                                                  *)

\* A change that makes no line busy keeps the MSHRs within their size.
LEMMA FewerBusy ==
  ASSUME MshrOK(mshr), NEW m \in [Cache -> MshrFile],
         \A c \in Cache, x \in Line : m[c][x] # None => mshr[c][x] # None
  PROVE  MshrOK(m)
<1>1. ASSUME NEW c \in Cache
      PROVE  Cardinality({x \in Line : m[c][x] # None}) <= MshrSize[c]
  <2>. DEFINE S == {x \in Line : mshr[c][x] # None}
              T == {x \in Line : m[c][x] # None}
  <2>1. IsFiniteSet(S) /\ T \subseteq S
    BY LineAssumption, FS_Subset
  <2>2. IsFiniteSet(T) /\ Cardinality(T) <= Cardinality(S)
        /\ Cardinality(T) \in Nat /\ Cardinality(S) \in Nat
    BY <2>1, FS_Subset, FS_CardinalityType
  <2>3. Cardinality(S) <= MshrSize[c] /\ MshrSize[c] \in Nat
    BY SizeFacts DEF MshrOK
  <2>. QED BY <2>2, <2>3
<1>. QED BY <1>1 DEF MshrOK, MshrFile

\* So does one more busy line in a file with a free entry.
LEMMA OneMoreBusy ==
  ASSUME MshrOK(mshr), NEW c \in Cache, NEW y \in Line,
         Occupancy(c) < MshrSize[c], NEW m \in [Cache -> MshrFile],
         \A d \in Cache, x \in Line :
           m[d][x] # None => mshr[d][x] # None \/ (d = c /\ x = y)
  PROVE  MshrOK(m)
<1>1. ASSUME NEW d \in Cache
      PROVE  Cardinality({x \in Line : m[d][x] # None}) <= MshrSize[d]
  <2>. DEFINE S == {x \in Line : mshr[d][x] # None}
              T == {x \in Line : m[d][x] # None}
  <2>1. IsFiniteSet(S) /\ Cardinality(S) \in Nat /\ MshrSize[d] \in Nat
    BY LineAssumption, FS_Subset, FS_CardinalityType, SizeFacts
  <2>2. Cardinality(S) <= MshrSize[d]
    BY DEF MshrOK
  <2>3. CASE d # c
    <3>1. T \subseteq S
      BY <2>3
    <3>2. Cardinality(T) <= Cardinality(S) /\ Cardinality(T) \in Nat
      BY <2>1, <3>1, FS_Subset, FS_CardinalityType
    <3>. QED BY <2>1, <2>2, <3>2
  <2>4. CASE d = c
    <3>1. T \subseteq S \cup {y}
      BY <2>4
    <3>2. /\ IsFiniteSet(S \cup {y})
          /\ Cardinality(S \cup {y}) <= Cardinality(S) + 1
          /\ Cardinality(S \cup {y}) \in Nat
      <4>. HIDE DEF S
      <4>1. /\ IsFiniteSet(S \cup {y})
            /\ \/ Cardinality(S \cup {y}) = Cardinality(S)
               \/ Cardinality(S \cup {y}) = Cardinality(S) + 1
        BY <2>1, FS_AddElement
      <4>. QED BY <2>1, <4>1
    <3>3. Cardinality(T) <= Cardinality(S \cup {y}) /\ Cardinality(T) \in Nat
      BY <3>1, <3>2, FS_Subset, FS_CardinalityType
    <3>4. Cardinality(S) < MshrSize[d]
      BY <2>4 DEF Occupancy, Busy
    <3>. QED BY <2>1, <3>2, <3>3, <3>4
  <2>. QED BY <2>3, <2>4
<1>. QED BY <1>1 DEF MshrOK, MshrFile

\* return_data marks entries and makes none.
LEMMA ReturnDataType ==
  ASSUME NEW m \in [Cache -> MshrFile], NEW targets, NEW x \in Line
  PROVE  /\ ReturnData(m, targets, x) \in [Cache -> MshrFile]
         /\ \A c \in Cache, y \in Line :
              ReturnData(m, targets, x)[c][y] # None => m[c][y] # None
<1>. DEFINE r == ReturnData(m, targets, x)
<1>1. ASSUME NEW c \in Cache
      PROVE  /\ r[c] \in MshrFile
             /\ \A y \in Line : r[c][y] # None => m[c][y] # None
  <2>1. m[c] \in [Line -> Entry \cup {None}]
    BY DEF MshrFile
  <2>2. CASE ~(c \in targets /\ m[c][x] # None)
    BY <2>1, <2>2 DEF ReturnData, MshrFile
  <2>3. CASE c \in targets /\ m[c][x] # None
    <3>1. m[c][x] \in Entry
      BY <2>1, <2>3
    <3>2. [m[c][x] EXCEPT !.returned = TRUE] \in Entry
      BY <3>1 DEF Entry
    <3>3. r[c] = [m[c] EXCEPT ![x] = [m[c][x] EXCEPT !.returned = TRUE]]
      BY <2>3 DEF ReturnData
    <3>. QED BY <2>1, <2>3, <3>2, <3>3 DEF MshrFile
  <2>. QED BY <2>2, <2>3
<1>2. r \in [Cache -> MshrFile]
  BY <1>1 DEF ReturnData
<1>. QED BY <1>1, <1>2

LEMMA ForwardedType ==
  ASSUME NEW m \in [Cache -> MshrFile], NEW c \in Cache, NEW p \in Packet
  PROVE  /\ Forwarded(m, c, p) \in [Cache -> MshrFile]
         /\ \A d \in Cache, y \in Line :
              Forwarded(m, c, p)[d][y] # None => m[d][y] # None
<1>1. p.line \in Line
  BY DEF Packet
<1>. QED BY <1>1, ReturnDataType DEF Forwarded

-----------------------------------------------------------------------------
(* Ways.                                                                   *)

LEMMA LowestWay ==
  ASSUME NEW c \in Cache, NEW S, S \subseteq Ways(c), S # {}
  PROVE  Lowest(S) \in S
<1>1. Ways(c) \subseteq Nat
  BY SizeFacts DEF Ways
<1>2. IsWellFoundedOn(OpToRel(<, Nat), Nat)
  BY NatLessThanWellFounded
<1>3. PICK w \in S : \A v \in S : ~ (<<v, w>> \in OpToRel(<, Nat))
  BY <1>1, <1>2, WFMin
<1>4. ASSUME NEW v \in S PROVE w <= v
  <2>1. v \in Nat /\ w \in Nat
    BY <1>1
  <2>2. ~ (v < w)
    BY <1>3, <2>1 DEF OpToRel
  <2>. QED BY <2>1, <2>2
<1>5. \E u \in S : \A v \in S : u <= v
  BY <1>4
<1>. QED BY <1>5 DEF Lowest

LEMMA VictimsAreWays == \A c \in Cache : Victims(c) \subseteq Ways(c)
<1>1. \A c \in Cache : Invalid(c) \subseteq Ways(c)
  BY DEF Invalid
<1>. QED BY <1>1, LowestWay DEF Victims

LEMMA ReplaceWays ==
  ASSUME BlocksOK(block), NEW c \in Cache,
         NEW f \in [Ways(c) -> Block \cup {None}]
  PROVE  BlocksOK([block EXCEPT ![c] = f])
<1>. DEFINE r == [block EXCEPT ![c] = f]
<1>1. r = [d \in Cache |-> IF d = c THEN f ELSE block[d]]
  BY DEF BlocksOK
<1>2. r = [d \in Cache |-> r[d]]
  BY <1>1
<1>3. \A d \in Cache : r[d] \in [Ways(d) -> Block \cup {None}]
  BY <1>1 DEF BlocksOK
<1>. QED BY <1>2, <1>3 DEF BlocksOK

LEMMA ReplaceWay ==
  ASSUME BlocksOK(block), NEW c \in Cache, NEW w \in Ways(c), NEW b \in Block
  PROVE  BlocksOK([block EXCEPT ![c][w] = b])
<1>1. [block[c] EXCEPT ![w] = b] \in [Ways(c) -> Block \cup {None}]
  BY DEF BlocksOK
<1>2. [block EXCEPT ![c][w] = b] = [block EXCEPT ![c] = [block[c] EXCEPT ![w] = b]]
  OBVIOUS
<1>. QED BY <1>1, <1>2, ReplaceWays

LEMMA FilledType ==
  ASSUME BlocksOK(block), NEW c \in Cache, NEW w \in Ways(c),
         NEW x \in Line, NEW dirty \in BOOLEAN
  PROVE  BlocksOK(Filled(c, w, x, dirty))
<1>1. [line |-> x, valid |-> TRUE, dirty |-> dirty] \in Block
  BY DEF Block
<1>. QED BY <1>1, ReplaceWay DEF Filled

LEMMA HitBlock ==
  ASSUME BlocksOK(block), NEW c \in Cache, NEW x \in Line, Hit(c, x)
  PROVE  LET w == Lowest(HitWays(c, x)) IN w \in Ways(c) /\ block[c][w] \in Block
<1>. DEFINE w == Lowest(HitWays(c, x))
<1>1. HitWays(c, x) \subseteq Ways(c) /\ HitWays(c, x) # {}
  BY DEF HitWays, Hit
<1>2. w \in HitWays(c, x)
  BY <1>1, LowestWay
<1>. QED BY <1>2 DEF HitWays, Holds, BlocksOK

LEMMA DirtiedType ==
  ASSUME BlocksOK(block), NEW c \in Cache, NEW x \in Line, Hit(c, x)
  PROVE  BlocksOK(Dirtied(c, x))
<1>. DEFINE w == Lowest(HitWays(c, x))
<1>1. w \in Ways(c) /\ block[c][w] \in Block
  BY HitBlock
<1>2. [block[c][w] EXCEPT !.dirty = TRUE] \in Block
  BY <1>1 DEF Block
<1>3. BlocksOK([block EXCEPT ![c][w] = [block[c][w] EXCEPT !.dirty = TRUE]])
  BY <1>1, <1>2, ReplaceWay
<1>4. Dirtied(c, x) = [block EXCEPT ![c][w] = [block[c][w] EXCEPT !.dirty = TRUE]]
  BY DEF Dirtied
<1>. QED BY <1>3, <1>4

LEMMA InvalidatedType ==
  ASSUME BlocksOK(block), NEW x \in Line
  PROVE  BlocksOK(Invalidated(x))
<1>1. ASSUME NEW c \in Cache
      PROVE  Invalidated(x)[c] \in [Ways(c) -> Block \cup {None}]
  <2>1. block[c] \in [Ways(c) -> Block \cup {None}]
    BY DEF BlocksOK
  <2>2. CASE Hit(c, x)
    <3>. DEFINE w == Lowest(HitWays(c, x))
    <3>1. w \in Ways(c) /\ block[c][w] \in Block
      BY <2>2, HitBlock
    <3>2. [block[c][w] EXCEPT !.valid = FALSE] \in Block
      BY <3>1 DEF Block
    <3>3. Invalidated(x)[c]
            = [block[c] EXCEPT ![w] = [block[c][w] EXCEPT !.valid = FALSE]]
      BY <2>2 DEF Invalidated
    <3>. HIDE DEF w
    <3>. QED BY <2>1, <3>1, <3>2, <3>3
  <2>3. CASE ~Hit(c, x)
    BY <2>1, <2>3 DEF Invalidated
  <2>. QED BY <2>2, <2>3
<1>2. Invalidated(x) = [c \in Cache |-> Invalidated(x)[c]]
  BY DEF Invalidated
<1>. QED BY <1>1, <1>2 DEF BlocksOK

\* A dirty victim goes to a write queue below that has room for it.
LEMMA EvictType ==
  ASSUME BlocksOK(block), NEW q, QueuesOK(q, WqSize), NEW c \in Cache,
         NEW w \in Ways(c), CanFill(c, w),
         Len(q[Lower(c)]) <= Len(wq[Lower(c)]), QueuesOK(wq, WqSize)
  PROVE  QueuesOK(Evict(q, c, w), WqSize)
<1>1. CASE MustEvict(c, w)
  <2>1. block[c][w] \in Block
    BY <1>1 DEF MustEvict, BlocksOK
  <2>2. Writeback(c, block[c][w].line) \in Packet
    BY <2>1, WritebackType DEF Block
  <2>3. Lower(c) \in Node
    BY TreeFacts
  <2>4. /\ Len(q[Lower(c)]) \in Nat /\ Len(wq[Lower(c)]) \in Nat
        /\ WqSize[Lower(c)] \in Nat
    BY <2>3, LenProperties, SizeFacts DEF QueuesOK
  <2>5. Len(q[Lower(c)]) < WqSize[Lower(c)]
    BY <1>1, <2>4 DEF CanFill
  <2>. QED BY <1>1, <2>2, <2>3, <2>5, AddWqType DEF Evict
<1>2. CASE ~MustEvict(c, w)
  BY <1>2 DEF Evict
<1>. QED BY <1>1, <1>2

-----------------------------------------------------------------------------
(* The handlers preserve TypeOK.                                           *)

LEMMA ProcessedType ==
  ASSUME waiting \in [Cache -> SUBSET Line], NEW c \in Cache, NEW x, NEW q,
         Processed(c, x, q)
  PROVE  waiting' \in [Cache -> SUBSET Line]
BY DEF Processed

\* The parts of TypeOK that most of the actions leave alone or answer through
\* return_data only.
LEMMA AnswerType ==
  ASSUME MshrOK(mshr), NEW targets, NEW x \in Line
  PROVE  MshrOK(ReturnData(mshr, targets, x))
<1>1. mshr \in [Cache -> MshrFile]
  BY DEF MshrOK, MshrFile
<1>. QED BY <1>1, ReturnDataType, FewerBusy

LEMMA HandleFillType ==
  ASSUME TypeOK, NEW c \in Cache, NEW x \in Line, HandleFill(c, x)
  PROVE  TypeOK'
<1>. DEFINE e == mshr[c][x]
            m == [mshr EXCEPT ![c][x] = None]
<1>1. e \in Entry
  BY DEF TypeOK, MshrOK, HandleFill, Busy
<1>2. /\ m \in [Cache -> MshrFile]
      /\ \A d \in Cache, y \in Line : m[d][y] # None => mshr[d][y] # None
  BY DEF TypeOK, MshrOK, MshrFile
<1>3. mshr' = ReturnData(m, Targets(c, e), x)
  BY DEF HandleFill
<1>4. MshrOK(mshr')
  <2>. HIDE DEF m, e
  <2>1. /\ ReturnData(m, Targets(c, e), x) \in [Cache -> MshrFile]
        /\ \A d \in Cache, y \in Line :
             ReturnData(m, Targets(c, e), x)[d][y] # None => m[d][y] # None
    BY <1>2, ReturnDataType
  <2>. QED BY <1>2, <1>3, <2>1, FewerBusy DEF TypeOK
<1>5. QueuesOK(wq', WqSize) /\ BlocksOK(block')
  <2>1. CASE \E w \in Victims(c) :
                /\ CanFill(c, w)
                /\ wq' = Evict(wq, c, w)
                /\ block' = Filled(c, w, x, c = "L1D" /\ e.type = "RFO")
    <3>1. PICK w \in Victims(c) :
                /\ CanFill(c, w)
                /\ wq' = Evict(wq, c, w)
                /\ block' = Filled(c, w, x, c = "L1D" /\ e.type = "RFO")
      BY <2>1
    <3>2. w \in Ways(c)
      BY VictimsAreWays
    <3>3. Len(wq[Lower(c)]) <= Len(wq[Lower(c)])
      BY TreeFacts, LenProperties DEF TypeOK, QueuesOK
    <3>4. QueuesOK(wq', WqSize)
      BY <3>1, <3>2, <3>3, EvictType DEF TypeOK
    <3>5. BlocksOK(block')
      BY <3>1, <3>2, FilledType DEF TypeOK
    <3>. QED BY <3>4, <3>5
  <2>2. CASE UNCHANGED <<wq, block>>
    BY <2>2 DEF TypeOK
  <2>. QED BY <2>1, <2>2 DEF HandleFill
<1>6. waiting' \in [Cache -> SUBSET Line]
  BY ProcessedType DEF HandleFill, TypeOK
<1>. QED BY <1>4, <1>5, <1>6 DEF TypeOK, HandleFill

LEMMA ReadHitType ==
  ASSUME TypeOK, NEW c \in Cache, ReadHit(c)
  PROVE  TypeOK'
<1>. DEFINE p == Head(rq[c])
<1>1. p \in Packet /\ QueuesOK(Pop(rq, c), RqSize)
  BY PopType, SizeFacts, TreeFacts DEF ReadHit, TypeOK
<1>2. p.line \in Line
  BY <1>1 DEF Packet
<1>3. MshrOK(mshr')
  BY <1>2, AnswerType DEF ReadHit, TypeOK
<1>4. waiting' \in [Cache -> SUBSET Line]
  BY ProcessedType DEF ReadHit, TypeOK
<1>. QED BY <1>1, <1>3, <1>4 DEF TypeOK, ReadHit

LEMMA NewMissType ==
  ASSUME TypeOK, NEW c \in Cache, NEW p \in Packet, NewMiss(c, p)
  PROVE  MshrOK(mshr')
<1>. DEFINE m == [mshr EXCEPT ![c][p.line] = NewEntry(p)]
<1>1. p.line \in Line /\ NewEntry(p) \in Entry
  BY NewEntryType DEF Packet
<1>2. /\ m \in [Cache -> MshrFile]
      /\ \A d \in Cache, y \in Line :
           m[d][y] # None => mshr[d][y] # None \/ (d = c /\ y = p.line)
  BY <1>1 DEF TypeOK, MshrOK, MshrFile
<1>3. mshr' = Forwarded(m, c, p) /\ Occupancy(c) < MshrSize[c]
  BY DEF NewMiss
<1>. HIDE DEF m
<1>4. /\ mshr' \in [Cache -> MshrFile]
      /\ \A d \in Cache, y \in Line :
           mshr'[d][y] # None => mshr[d][y] # None \/ (d = c /\ y = p.line)
  BY <1>2, <1>3, ForwardedType
<1>. QED BY <1>1, <1>3, <1>4, OneMoreBusy DEF TypeOK

\* A request taken from one queue and passed down to another.
LEMMA PassDownType ==
  ASSUME QueuesOK(rq, RqSize), NEW q, QueuesOK(q, RqSize), NEW n \in Node,
         NEW p \in Packet
  PROVE  QueuesOK([q EXCEPT ![n] = AddRq(n, p)], RqSize)
BY AddRqType, ReplaceQueue

LEMMA ReadMissType ==
  ASSUME TypeOK, NEW c \in Cache, ReadMiss(c)
  PROVE  TypeOK'
<1>. DEFINE p == Head(rq[c])
<1>1. p \in Packet /\ QueuesOK(Pop(rq, c), RqSize)
  BY PopType, SizeFacts, TreeFacts DEF ReadMiss, TypeOK
<1>2. MshrOK(mshr')
  BY <1>1, NewMissType DEF ReadMiss
<1>3. QueuesOK(rq', RqSize)
  BY <1>1, TreeFacts, PassDownType DEF ReadMiss, TypeOK
<1>4. BlocksOK(block')
  BY InvalidatedType DEF ReadMiss, AfterWalk, TypeOK
<1>. QED BY <1>2, <1>3, <1>4 DEF TypeOK, ReadMiss

\* An entry is joined with a request: no new busy line.
LEMMA JoinedMshr ==
  ASSUME MshrOK(mshr), NEW c \in Cache, NEW x \in Line, NEW e \in Entry,
         mshr[c][x] # None
  PROVE  MshrOK([mshr EXCEPT ![c][x] = e])
<1>. DEFINE m == [mshr EXCEPT ![c][x] = e]
<1>1. /\ m \in [Cache -> MshrFile]
      /\ \A d \in Cache, y \in Line : m[d][y] # None => mshr[d][y] # None
  BY DEF MshrOK, MshrFile
<1>. HIDE DEF m
<1>2. MshrOK(m)
  BY <1>1, FewerBusy
<1>. QED BY <1>2 DEF m

LEMMA ReadMergeType ==
  ASSUME TypeOK, NEW c \in Cache, ReadMerge(c)
  PROVE  TypeOK'
<1>. DEFINE p == Head(rq[c])
<1>1. p \in Packet /\ QueuesOK(Pop(rq, c), RqSize)
  BY PopType, SizeFacts, TreeFacts DEF ReadMerge, TypeOK
<1>2. p.line \in Line /\ mshr[c][p.line] # None
  BY <1>1 DEF Packet, ReadMerge, Busy
<1>3. mshr[c][p.line] \in Entry
  BY <1>2 DEF TypeOK, MshrOK
<1>4. ReadJoin(mshr[c][p.line], p) \in Entry
  BY <1>1, <1>3, JoinType
<1>5. mshr' = [mshr EXCEPT ![c][p.line] = ReadJoin(mshr[c][p.line], p)]
  BY DEF ReadMerge
<1>6. MshrOK(mshr')
  BY <1>2, <1>4, <1>5, JoinedMshr DEF TypeOK
<1>. QED BY <1>1, <1>6 DEF TypeOK, ReadMerge

LEMMA WriteHitType ==
  ASSUME TypeOK, NEW c \in Cache, WriteHit(c)
  PROVE  TypeOK'
<1>. DEFINE p == Head(wq[c])
<1>1. p \in Packet /\ QueuesOK(Pop(wq, c), WqSize)
  BY PopType, SizeFacts, TreeFacts DEF WriteHit, TypeOK
<1>2. p.line \in Line
  BY <1>1 DEF Packet
<1>3. MshrOK(mshr')
  BY <1>2, AnswerType DEF WriteHit, TypeOK
<1>4. BlocksOK(block')
  BY <1>2, DirtiedType DEF WriteHit, TypeOK
<1>. QED BY <1>1, <1>3, <1>4 DEF TypeOK, WriteHit

LEMMA WriteFillType ==
  ASSUME TypeOK, NEW c \in Cache, WriteFill(c)
  PROVE  TypeOK'
<1>. DEFINE p == Head(wq[c])
<1>1. /\ p \in Packet /\ QueuesOK(Pop(wq, c), WqSize)
      /\ \A n \in Node : Len(Pop(wq, c)[n]) <= Len(wq[n])
  BY PopType, SizeFacts, TreeFacts DEF WriteFill, TypeOK
<1>2. p.line \in Line
  BY <1>1 DEF Packet
<1>3. MshrOK(mshr')
  BY <1>2, AnswerType DEF WriteFill, TypeOK
<1>4. PICK w \in Victims(c) : /\ CanFill(c, w)
                              /\ wq' = Evict(Pop(wq, c), c, w)
                              /\ block' = Filled(c, w, p.line, TRUE)
  BY DEF WriteFill
<1>5. w \in Ways(c)
  BY VictimsAreWays
<1>6. QueuesOK(wq', WqSize)
  BY <1>1, <1>4, <1>5, TreeFacts, EvictType DEF TypeOK
<1>7. BlocksOK(block')
  BY <1>2, <1>4, <1>5, FilledType DEF TypeOK
<1>. QED BY <1>3, <1>6, <1>7 DEF TypeOK, WriteFill

LEMMA RfoMissType ==
  ASSUME TypeOK, RfoMiss
  PROVE  TypeOK'
<1>. DEFINE p == Head(wq["L1D"])
<1>0. "L1D" \in Cache /\ "L2C" \in Node
  BY TreeFacts DEF RfoMiss, Lower
<1>1. p \in Packet /\ QueuesOK(Pop(wq, "L1D"), WqSize)
  BY <1>0, PopType, SizeFacts, TreeFacts DEF RfoMiss, TypeOK
<1>2. MshrOK(mshr')
  BY <1>0, <1>1, NewMissType DEF RfoMiss
<1>3. QueuesOK(rq', RqSize)
  BY <1>0, <1>1, PassDownType DEF RfoMiss, TypeOK
<1>. QED BY <1>1, <1>2, <1>3 DEF TypeOK, RfoMiss

LEMMA RfoMergeType ==
  ASSUME TypeOK, RfoMerge
  PROVE  TypeOK'
<1>. DEFINE p == Head(wq["L1D"])
<1>0. "L1D" \in Cache
  BY DEF RfoMerge
<1>1. p \in Packet /\ QueuesOK(Pop(wq, "L1D"), WqSize)
  BY <1>0, PopType, SizeFacts, TreeFacts DEF RfoMerge, TypeOK
<1>2. p.line \in Line /\ mshr["L1D"][p.line] # None
  BY <1>1 DEF Packet, RfoMerge, Busy
<1>3. mshr["L1D"][p.line] \in Entry
  BY <1>0, <1>2 DEF TypeOK, MshrOK
<1>4. RfoJoin(mshr["L1D"][p.line], p) \in Entry
  BY <1>1, <1>3, JoinType
<1>5. mshr' = [mshr EXCEPT !["L1D"][p.line] = RfoJoin(mshr["L1D"][p.line], p)]
  BY DEF RfoMerge
<1>6. MshrOK(mshr')
  BY <1>0, <1>2, <1>4, <1>5, JoinedMshr DEF TypeOK
<1>. QED BY <1>1, <1>6 DEF TypeOK, RfoMerge

LEMMA PrefetchHitType ==
  ASSUME TypeOK, NEW c \in Cache, PrefetchHit(c)
  PROVE  TypeOK'
<1>. DEFINE p == Head(pq[c])
<1>1. p \in Packet /\ QueuesOK(Pop(pq, c), PqSize)
  BY PopType, SizeFacts, TreeFacts DEF PrefetchHit, TypeOK
<1>2. p.line \in Line
  BY <1>1 DEF Packet
<1>3. MshrOK(mshr')
  BY <1>2, AnswerType DEF PrefetchHit, TypeOK
<1>. QED BY <1>1, <1>3 DEF TypeOK, PrefetchHit

LEMMA PrefetchMissType ==
  ASSUME TypeOK, NEW c \in Cache, PrefetchMiss(c)
  PROVE  TypeOK'
<1>. DEFINE p == Head(pq[c])
            n == Lower(c)
            m == IF p.fill <= Level(c)
                 THEN [mshr EXCEPT ![c][p.line] = NewEntry(p)] ELSE mshr
<1>0. n \in Node
  BY TreeFacts
<1>1. p \in Packet /\ QueuesOK(Pop(pq, c), PqSize)
  BY PopType, SizeFacts, TreeFacts DEF PrefetchMiss, TypeOK
<1>2. p.line \in Line /\ NewEntry(p) \in Entry
  BY <1>1, NewEntryType DEF Packet
<1>3. /\ m \in [Cache -> MshrFile]
      /\ \A d \in Cache, y \in Line :
           m[d][y] # None => mshr[d][y] # None \/ (d = c /\ y = p.line)
  BY <1>2 DEF TypeOK, MshrOK, MshrFile
<1>4. mshr' = Forwarded(m, c, p) /\ Occupancy(c) < MshrSize[c]
  BY DEF PrefetchMiss
<1>5. MshrOK(mshr')
  <2>. HIDE DEF m, p
  <2>1. /\ mshr' \in [Cache -> MshrFile]
        /\ \A d \in Cache, y \in Line :
             mshr'[d][y] # None => mshr[d][y] # None \/ (d = c /\ y = p.line)
    BY <1>1, <1>3, <1>4, ForwardedType
  <2>. QED BY <1>2, <1>4, <2>1, OneMoreBusy DEF TypeOK
<1>6. CASE c = "LLC"
  <2>1. rq' = [rq EXCEPT ![n] = AddRq(n, p)] /\ pq' = Pop(pq, c)
    BY <1>6 DEF PrefetchMiss
  <2>2. QueuesOK(rq', RqSize)
    BY <1>0, <1>1, <2>1, PassDownType DEF TypeOK
  <2>. QED BY <1>1, <1>5, <2>1, <2>2 DEF TypeOK, PrefetchMiss
<1>7. CASE c # "LLC"
  <2>1. rq' = rq /\ pq' = [Pop(pq, c) EXCEPT ![n] = AddPq(n, p)]
    BY <1>7 DEF PrefetchMiss
  <2>2. QueuesOK(pq', PqSize)
    BY <1>0, <1>1, <2>1, AddPqType, ReplaceQueue DEF TypeOK
  <2>. QED BY <1>5, <2>1, <2>2 DEF TypeOK, PrefetchMiss
<1>. QED BY <1>6, <1>7

LEMMA PrefetchMergeType ==
  ASSUME TypeOK, NEW c \in Cache, PrefetchMerge(c)
  PROVE  TypeOK'
<1>. DEFINE p == Head(pq[c])
            e == mshr[c][p.line]
            j == [e EXCEPT !.fill = Min2(@, p.fill), !.dest = @ \cup p.dest]
<1>1. p \in Packet /\ QueuesOK(Pop(pq, c), PqSize)
  BY PopType, SizeFacts, TreeFacts DEF PrefetchMerge, TypeOK
<1>2. p.line \in Line /\ mshr[c][p.line] # None
  BY <1>1 DEF Packet, PrefetchMerge, Busy
<1>3. e \in Entry
  BY <1>2 DEF TypeOK, MshrOK
<1>4. j \in Entry
  <2>1. Min2(e.fill, p.fill) \in {1, 2, 4, 8}
    BY <1>1, <1>3 DEF Min2, Entry, Packet
  <2>2. e.dest \cup p.dest \in SUBSET Side
    BY <1>1, <1>3 DEF Entry, Packet
  <2>. QED BY <1>3, <2>1, <2>2 DEF Entry
<1>5. mshr' = [mshr EXCEPT ![c][p.line] = j]
  BY <1>2 DEF PrefetchMerge, TypeOK, MshrOK
<1>6. MshrOK(mshr')
  BY <1>2, <1>4, <1>5, JoinedMshr DEF TypeOK
<1>. QED BY <1>1, <1>6 DEF TypeOK, PrefetchMerge

-----------------------------------------------------------------------------
(* The memory, the core and the prefetchers preserve TypeOK.               *)

\* An entry of the DRAM's queue q leaves it.
LEMMA ServedType ==
  ASSUME NEW q, NEW size, QueuesOK(q, size), \A n \in Node : size[n] \in Nat,
         NEW i \in DOMAIN q["DRAM"]
  PROVE  QueuesOK([q EXCEPT !["DRAM"] = Without(q["DRAM"], i)], size)
<1>1. "DRAM" \in Node
  BY DEF Node, Memory
<1>2. q["DRAM"] \in Seq(Packet) /\ Len(q["DRAM"]) <= size["DRAM"]
  BY <1>1 DEF QueuesOK
<1>3. /\ Without(q["DRAM"], i) \in Seq(Packet)
      /\ Len(Without(q["DRAM"], i)) <= Len(q["DRAM"])
  BY <1>2, WithoutType
<1>4. Len(Without(q["DRAM"], i)) \in Nat /\ Len(q["DRAM"]) \in Nat
      /\ size["DRAM"] \in Nat
  BY <1>1, <1>2, <1>3, LenProperties
<1>5. Len(Without(q["DRAM"], i)) <= size["DRAM"]
  BY <1>2, <1>3, <1>4
<1>. QED BY <1>1, <1>3, <1>5, ReplaceQueue

LEMMA DramType ==
  ASSUME TypeOK, NEW x \in Line, DramRead(x) \/ DramWrite(x)
  PROVE  TypeOK'
<1>1. CASE DramRead(x)
  <2>1. PICK i \in DOMAIN rq["DRAM"] :
          /\ rq' = [rq EXCEPT !["DRAM"] = Without(rq["DRAM"], i)]
          /\ mshr' = ReturnData(mshr, {"LLC"}, x)
    BY <1>1 DEF DramRead
  <2>2. QueuesOK(rq', RqSize)
    BY <2>1, ServedType, SizeFacts DEF TypeOK
  <2>3. MshrOK(mshr')
    BY <2>1, AnswerType DEF TypeOK
  <2>. QED BY <1>1, <2>2, <2>3 DEF TypeOK, DramRead
<1>2. CASE DramWrite(x)
  <2>1. PICK i \in DOMAIN wq["DRAM"] :
          wq' = [wq EXCEPT !["DRAM"] = Without(wq["DRAM"], i)]
    BY <1>2 DEF DramWrite
  <2>2. QueuesOK(wq', WqSize)
    BY <2>1, ServedType, SizeFacts DEF TypeOK
  <2>. QED BY <1>2, <2>2 DEF TypeOK, DramWrite
<1>. QED BY <1>1, <1>2

LEMMA IssueType ==
  ASSUME TypeOK, Issue
  PROVE  issued' \in 0 .. MaxRequest
BY SizeAssumption DEF TypeOK, Issue

\* A packet appended to a queue with room.
LEMMA AppendedType ==
  ASSUME NEW q, NEW size, QueuesOK(q, size), NEW n \in Node, size[n] \in Nat,
         NEW p \in Packet, Len(q[n]) < size[n]
  PROVE  QueuesOK([q EXCEPT ![n] = Append(q[n], p)], size)
<1>1. q[n] \in Seq(Packet) /\ Len(q[n]) \in Nat
  BY LenProperties DEF QueuesOK
<1>2. Append(q[n], p) \in Seq(Packet) /\ Len(Append(q[n], p)) <= size[n]
  BY <1>1, AppendSeq
<1>. QED BY <1>2, ReplaceQueue

LEMMA RequestType ==
  ASSUME TypeOK, NEW c, NEW p \in Packet, Request(c, p)
  PROVE  TypeOK'
<1>1. c \in Cache /\ c \in Node /\ RqSize[c] \in Nat
  BY TreeFacts, SizeFacts DEF Request
<1>2. QueuesOK(rq', RqSize)
  <2>1. CASE Queued(rq[c], p.line)
    <3>1. rq' = [rq EXCEPT ![c] = rq[c]]
      BY <2>1 DEF Request
    <3>2. rq' = rq
      BY <3>1 DEF TypeOK, QueuesOK
    <3>. QED BY <3>2 DEF TypeOK
  <2>2. CASE ~Queued(rq[c], p.line)
    <3>1. Len(rq[c]) < RqSize[c] /\ rq' = [rq EXCEPT ![c] = Append(rq[c], p)]
      BY <2>2 DEF Request
    <3>. QED BY <1>1, <3>1, AppendedType DEF TypeOK
  <2>. QED BY <2>1, <2>2
<1>3. waiting' \in [Cache -> SUBSET Line]
  BY <1>1 DEF Request, TypeOK, Packet
<1>4. issued' \in 0 .. MaxRequest
  BY IssueType DEF Request
<1>. QED BY <1>2, <1>3, <1>4 DEF TypeOK, Request

LEMMA CoreReadType == TypeOK /\ CoreRead => TypeOK'
<1>. SUFFICES ASSUME TypeOK, CoreRead PROVE TypeOK'
  OBVIOUS
<1>1. \A x \in CodeLine : Fetch(x) \in Packet
  BY CorePackets, LineAssumption
<1>2. \A x \in DataLine, t \in {"LOAD", "RFO"} : Data(x, t) \in Packet
  BY CorePackets, LineAssumption DEF ReqType
<1>. QED BY <1>1, <1>2, RequestType DEF CoreRead

LEMMA CoreStoreType == TypeOK /\ CoreStore => TypeOK'
<1>. SUFFICES ASSUME TypeOK, CoreStore PROVE TypeOK'
  OBVIOUS
<1>1. "L1D" \in Node /\ WqSize["L1D"] \in Nat
  BY TreeFacts, SizeFacts DEF CoreStore
<1>2. PICK x \in DataLine : wq' = [wq EXCEPT !["L1D"] = Append(wq["L1D"], Data(x, "RFO"))]
  BY DEF CoreStore
<1>3. Data(x, "RFO") \in Packet
  BY CorePackets, LineAssumption DEF ReqType
<1>4. QueuesOK(wq', WqSize)
  BY <1>1, <1>2, <1>3, AppendedType DEF CoreStore, TypeOK
<1>5. issued' \in 0 .. MaxRequest
  BY IssueType DEF CoreStore
<1>. QED BY <1>4, <1>5 DEF TypeOK, CoreStore

LEMMA IssuePrefetchType ==
  ASSUME TypeOK, NEW c \in Cache, IssuePrefetch(c)
  PROVE  TypeOK'
<1>1. PICK p \in Prefetches(c) : pq' = [pq EXCEPT ![c] = AddPq(c, p)]
  BY DEF IssuePrefetch
<1>2. PfFill[c] \subseteq {1, 2, 4}
  BY SizeAssumption
<1>3. p \in Packet
  <2>1. CASE c = "L1I"
    BY <2>1, CorePackets, LineAssumption DEF Prefetches
  <2>2. CASE c # "L1I"
    BY <1>2, <2>2, CorePackets, LineAssumption DEF Prefetches
  <2>. QED BY <2>1, <2>2
<1>4. QueuesOK(pq', PqSize)
  <2>1. c \in Node /\ QueuesOK(pq, PqSize)
    BY TreeFacts DEF TypeOK
  <2>2. AddPq(c, p) \in Seq(Packet) /\ Len(AddPq(c, p)) <= PqSize[c]
    BY <1>3, <2>1, AddPqType
  <2>. QED BY <1>1, <2>1, <2>2, ReplaceQueue
<1>5. issued' \in 0 .. MaxRequest
  BY IssueType DEF IssuePrefetch
<1>. QED BY <1>4, <1>5 DEF TypeOK, IssuePrefetch

LEMMA SwapOutType ==
  ASSUME TypeOK, NEW x \in Line, SwapOut(x)
  PROVE  TypeOK'
<1>1. BlocksOK(block')
  BY InvalidatedType DEF SwapOut, TypeOK
<1>2. issued' \in 0 .. MaxRequest
  BY IssueType DEF SwapOut
<1>. QED BY <1>1, <1>2 DEF TypeOK, SwapOut

-----------------------------------------------------------------------------
LEMMA InitType == Init => TypeOK
<1>. SUFFICES ASSUME Init PROVE TypeOK
  OBVIOUS
<1>1. QueuesOK(rq, RqSize) /\ QueuesOK(wq, WqSize) /\ QueuesOK(pq, PqSize)
  <2>1. << >> \in Seq(Packet) /\ Len(<< >>) = 0
    BY EmptySeq
  <2>2. /\ rq = [n \in Node |-> << >>] /\ wq = [n \in Node |-> << >>]
        /\ pq = [n \in Node |-> << >>]
    BY DEF Init
  <2>3. \A n \in Node : 0 <= RqSize[n] /\ 0 <= WqSize[n] /\ 0 <= PqSize[n]
    BY SizeFacts
  <2>. QED BY <2>1, <2>2, <2>3 DEF QueuesOK
<1>2. MshrOK(mshr)
  <2>1. \A c \in Cache : {x \in Line : mshr[c][x] # None} = {}
    BY DEF Init
  <2>2. \A c \in Cache :
          Cardinality({x \in Line : mshr[c][x] # None}) <= MshrSize[c]
    <3>1. Cardinality({}) = 0 /\ \A c \in Cache : 0 <= MshrSize[c]
      BY FS_EmptySet, SizeFacts
    <3>. QED BY <2>1, <3>1
  <2>3. mshr \in [Cache -> [Line -> Entry \cup {None}]]
    BY DEF Init
  <2>. QED BY <2>2, <2>3 DEF MshrOK
<1>3. BlocksOK(block)
  BY DEF Init, BlocksOK
<1>4. waiting \in [Cache -> SUBSET Line] /\ warmup \in BOOLEAN
  BY DEF Init
<1>5. issued \in 0 .. MaxRequest
  BY SizeAssumption DEF Init
<1>. QED BY <1>1, <1>2, <1>3, <1>4, <1>5 DEF TypeOK

LEMMA NextType == TypeOK /\ [Next]_vars => TypeOK'
<1>. SUFFICES ASSUME TypeOK, [Next]_vars PROVE TypeOK'
  OBVIOUS
<1>1. ASSUME NEW c \in Cache, NEW x \in Line, HandleFill(c, x) PROVE TypeOK'
  BY <1>1, HandleFillType
<1>2. ASSUME NEW c \in Cache, HandleRead(c) PROVE TypeOK'
  BY <1>2, ReadHitType, ReadMissType, ReadMergeType DEF HandleRead
<1>3. ASSUME NEW c \in Cache, HandleWriteback(c) PROVE TypeOK'
  BY <1>3, WriteHitType, WriteFillType, RfoMissType, RfoMergeType
     DEF HandleWriteback
<1>4. ASSUME NEW c \in Cache, HandlePrefetch(c) PROVE TypeOK'
  BY <1>4, PrefetchHitType, PrefetchMissType, PrefetchMergeType
     DEF HandlePrefetch
<1>5. ASSUME NEW x \in Line, DramRead(x) \/ DramWrite(x) \/ SwapOut(x)
      PROVE  TypeOK'
  BY <1>5, DramType, SwapOutType
<1>6. ASSUME NEW c \in Cache, IssuePrefetch(c) PROVE TypeOK'
  BY <1>6, IssuePrefetchType
<1>7. CASE CoreRead \/ CoreStore
  BY <1>7, CoreReadType, CoreStoreType
<1>8. CASE FinishWarmup \/ UNCHANGED vars
  BY <1>8 DEF FinishWarmup, vars, TypeOK
<1>. QED BY <1>1, <1>2, <1>3, <1>4, <1>5, <1>6, <1>7, <1>8 DEF Next

\* For both trees, every size of every queue, MSHR file and set, and every
\* finite set of lines: no queue is ever written beyond its size (the
\* assertion in add_wq among them), the MSHRs in use never exceed the file,
\* and every variable keeps its type.
THEOREM TypeTheorem == Spec => []TypeOK
<1>. QED BY InitType, NextType, PTL DEF Spec

-----------------------------------------------------------------------------
(* Demands.                                                                *)

FirstLevel == {c \in Cache : Level(c) = 1}

\* What DemandIsKept rests on: only the core asks a first level to read, so
\* its read queue holds demands, and the core waits nowhere else.
DemandsQueued ==
  \A c \in FirstLevel : \A i \in DOMAIN rq[c] : rq[c][i].type # "PREFETCH"
WaitsAtFirstLevel == \A c \in Cache : waiting[c] # {} => c \in FirstLevel

\* With TypeOK, the inductive invariant.
Demands == DemandsQueued /\ WaitsAtFirstLevel /\ DemandIsKept

-----------------------------------------------------------------------------
(* What the operators keep.                                                *)

\* No cache and no memory above which there is one is a first level.
LEMMA LowerIsNotFirst ==
  ASSUME NEW c \in Cache
  PROVE  Lower(c) \notin FirstLevel /\ "DRAM" \notin FirstLevel
BY CacheAssumption DEF Lower, FirstLevel, Level

\* The lines still queued after the head left.
LEMMA QueuedTail ==
  ASSUME NEW q \in Seq(Packet), q # << >>, NEW x, Queued(q, x),
         x # Head(q).line
  PROVE  Queued(Tail(q), x)
<1>1. PICK i \in DOMAIN q : q[i].line = x
  BY DEF Queued
<1>2. Len(q) \in Nat /\ DOMAIN q = 1 .. Len(q)
  BY LenProperties
<1>3. i \in Int /\ 1 <= i /\ i <= Len(q)
  BY <1>1, <1>2
<1>4. i # 1
  BY <1>1, <1>2
<1>5. Len(Tail(q)) = Len(q) - 1 /\ Tail(q) \in Seq(Packet)
      /\ \A j \in 1 .. Len(Tail(q)) : Tail(q)[j] = q[j + 1]
  BY HeadTailProperties
<1>6. i - 1 \in 1 .. Len(Tail(q))
  BY <1>2, <1>3, <1>4, <1>5
<1>7. i - 1 \in DOMAIN Tail(q)
  BY <1>5, <1>6, LenProperties
<1>8. (i - 1) + 1 = i
  BY <1>3
<1>9. Tail(q)[i - 1] = q[i]
  BY <1>5, <1>6, <1>8
<1>. QED BY <1>1, <1>7, <1>9 DEF Queued

\* Every entry of the tail was an entry.
LEMMA TailEntries ==
  ASSUME NEW q \in Seq(Packet), q # << >>, NEW i \in DOMAIN Tail(q)
  PROVE  \E j \in DOMAIN q : Tail(q)[i] = q[j]
<1>1. Len(q) \in Nat /\ DOMAIN q = 1 .. Len(q)
  BY LenProperties
<1>2. Len(Tail(q)) = Len(q) - 1 /\ Tail(q) \in Seq(Packet)
      /\ \A j \in 1 .. Len(Tail(q)) : Tail(q)[j] = q[j + 1]
  BY HeadTailProperties
<1>3. i \in 1 .. Len(Tail(q))
  BY <1>2, LenProperties
<1>4. i + 1 \in 1 .. Len(q)
  BY <1>1, <1>2, <1>3
<1>. QED BY <1>1, <1>2, <1>3, <1>4

\* return_data keeps every entry and its type.
LEMMA ReturnDataKeeps ==
  ASSUME NEW m \in [Cache -> MshrFile], NEW targets, NEW y \in Line,
         NEW c \in Cache, NEW x \in Line, m[c][x] # None
  PROVE  /\ ReturnData(m, targets, y)[c][x] # None
         /\ ReturnData(m, targets, y)[c][x].type = m[c][x].type
<1>1. m[c] \in [Line -> Entry \cup {None}] /\ m[c][x] \in Entry
  BY DEF MshrFile
<1>2. CASE ~(c \in targets /\ m[c][y] # None /\ x = y)
  <2>1. ReturnData(m, targets, y)[c][x] = m[c][x]
    BY <1>1, <1>2 DEF ReturnData
  <2>. QED BY <2>1
<1>3. CASE c \in targets /\ m[c][y] # None /\ x = y
  <2>1. ReturnData(m, targets, y)[c][x] = [m[c][x] EXCEPT !.returned = TRUE]
    BY <1>1, <1>3 DEF ReturnData
  <2>2. [m[c][x] EXCEPT !.returned = TRUE] \in Entry
        /\ [m[c][x] EXCEPT !.returned = TRUE].type = m[c][x].type
    BY <1>1 DEF Entry
  <2>. QED BY <2>1, <2>2, NoneAssumption
<1>. QED BY <1>2, <1>3

\* Nor does the step down.
LEMMA ForwardedKeeps ==
  ASSUME NEW m \in [Cache -> MshrFile], NEW d \in Cache, NEW p \in Packet,
         NEW c \in Cache, NEW x \in Line, m[c][x] # None
  PROVE  /\ Forwarded(m, d, p)[c][x] # None
         /\ Forwarded(m, d, p)[c][x].type = m[c][x].type
<1>1. p.line \in Line
  BY DEF Packet
<1>. QED BY <1>1, ReturnDataKeeps DEF Forwarded

\* A joined entry is an entry of the demand's or of its own type.
LEMMA JoinKeeps ==
  ASSUME NEW e \in Entry, NEW p \in Packet
  PROVE  /\ ReadJoin(e, p) # None /\ RfoJoin(e, p) # None
         /\ ReadJoin(e, p).type = IF e.type = "PREFETCH" THEN p.type ELSE e.type
         /\ e.type # "PREFETCH" => RfoJoin(e, p).type = e.type
<1>1. ReadJoin(e, p) \in Entry /\ RfoJoin(e, p) \in Entry
  BY JoinType
<1>2. TakeOver(e, p).type = p.type
  BY DEF TakeOver, NewEntry
<1>. QED BY <1>1, <1>2, NoneAssumption DEF ReadJoin, RfoJoin, Entry

-----------------------------------------------------------------------------
(* What the handlers keep.                                                 *)

\* A demand for x is at c.
Demanded(c, x) ==
  \/ Queued(rq[c], x)
  \/ Busy(c, x) /\ (c = "L1D" => mshr[c][x].type # "PREFETCH")

\* The entry of x in the MSHRs of c stays, and a demand stays a demand.
EntryStays(c, x) ==
  Busy(c, x) => /\ Busy(c, x)'
                /\ mshr[c][x].type # "PREFETCH" => mshr'[c][x].type # "PREFETCH"

\* Whoever waits is at a first level, and its demand is there,
LEMMA Waiters ==
  ASSUME TypeOK, Demands, NEW c \in Cache, NEW x \in waiting[c]
  PROVE  c \in FirstLevel /\ x \in Line /\ Demanded(c, x)
BY DEF TypeOK, Demands, WaitsAtFirstLevel, DemandIsKept, Demanded

\* and that is all the invariant needs of the next state.
LEMMA DemandsFromWaiters ==
  ASSUME \A c \in Cache : waiting'[c] # {} => c \in FirstLevel,
         \A c \in FirstLevel : \A x \in waiting'[c] : Demanded(c, x)',
         DemandsQueued'
  PROVE  Demands'
BY DEF Demands, WaitsAtFirstLevel, DemandIsKept, Demanded

\* A step that leaves the first-level read queues and the core alone.
LEMMA QuietStep ==
  ASSUME TypeOK, Demands, UNCHANGED waiting,
         \A c \in FirstLevel : rq'[c] = rq[c],
         \A c \in FirstLevel, x \in Line : EntryStays(c, x)
  PROVE  Demands'
<1>1. DemandsQueued'
  BY DEF Demands, DemandsQueued
<1>2. ASSUME NEW c \in FirstLevel, NEW x \in waiting'[c]
      PROVE  Demanded(c, x)'
  <2>1. x \in Line /\ Demanded(c, x)
    BY Waiters DEF FirstLevel
  <2>2. EntryStays(c, x)
    BY <2>1
  <2>. QED BY <2>1, <2>2 DEF Demanded, EntryStays
<1>3. \A c \in Cache : waiting'[c] # {} => c \in FirstLevel
  BY DEF Demands, WaitsAtFirstLevel
<1>. QED BY <1>1, <1>2, <1>3, DemandsFromWaiters

\* A step of handle_read at d: the head of its read queue leaves, and if the
\* core still waits for its line there, a demand for it is left.
LEMMA ReadStep ==
  ASSUME TypeOK, Demands, NEW d \in Cache, rq[d] # << >>,
         NEW y, y = Head(rq[d]).line,
         \A c \in Cache : waiting'[c] \subseteq waiting[c],
         \A c \in FirstLevel : rq'[c] = IF c = d THEN Tail(rq[d]) ELSE rq[c],
         \A c \in FirstLevel, x \in Line :
           (c = d /\ x = y) \/ EntryStays(c, x),
         d \in FirstLevel /\ y \in waiting'[d] => Demanded(d, y)'
  PROVE  Demands'
<1>1. rq[d] \in Seq(Packet)
  BY TreeFacts DEF TypeOK, QueuesOK
<1>2. DemandsQueued'
  <2>1. ASSUME NEW c \in FirstLevel, NEW i \in DOMAIN rq'[c]
        PROVE  rq'[c][i].type # "PREFETCH"
    <3>1. CASE c = d
      <4>1. PICK j \in DOMAIN rq[d] : Tail(rq[d])[i] = rq[d][j]
        BY <1>1, <3>1, TailEntries
      <4>. QED BY <3>1, <4>1 DEF Demands, DemandsQueued
    <3>2. CASE c # d
      BY <3>2 DEF Demands, DemandsQueued
    <3>. QED BY <3>1, <3>2
  <2>. QED BY <2>1 DEF DemandsQueued
<1>3. ASSUME NEW c \in FirstLevel, NEW x \in waiting'[c]
      PROVE  Demanded(c, x)'
  <2>1. c \in Cache /\ x \in waiting[c]
    BY DEF FirstLevel
  <2>2. x \in Line /\ Demanded(c, x)
    BY <2>1, Waiters
  <2>3. CASE c = d /\ x = y
    BY <2>3
  <2>4. CASE ~(c = d /\ x = y)
    <3>1. EntryStays(c, x)
      BY <2>2, <2>4
    <3>2. Queued(rq[c], x) => Queued(rq'[c], x)
      BY <1>1, <2>4, QueuedTail
    <3>. QED BY <2>2, <3>1, <3>2 DEF Demanded, EntryStays
  <2>. QED BY <2>3, <2>4
<1>4. \A c \in Cache : waiting'[c] # {} => c \in FirstLevel
  BY DEF Demands, WaitsAtFirstLevel
<1>. QED BY <1>2, <1>3, <1>4, DemandsFromWaiters

-----------------------------------------------------------------------------
(* The handlers.                                                           *)

\* The MSHRs are files of entries.
LEMMA MshrIsFile == TypeOK => mshr \in [Cache -> MshrFile]
BY DEF TypeOK, MshrOK, MshrFile

\* handle_fill: the core is told of the line, unless it asked again.
LEMMA HandleFillDemands ==
  ASSUME TypeOK, Demands, NEW d \in Cache, NEW y \in Line, HandleFill(d, y)
  PROVE  Demands'
<1>. DEFINE e == mshr[d][y]
            m == [mshr EXCEPT ![d][y] = None]
<1>1. m \in [Cache -> MshrFile]
      /\ \A c \in Cache, x \in Line : ~(c = d /\ x = y) => m[c][x] = mshr[c][x]
  BY MshrIsFile DEF MshrFile
<1>2. mshr' = ReturnData(m, Targets(d, e), y) /\ rq' = rq
  BY DEF HandleFill
<1>3. \A c \in Cache, x \in Line : ~(c = d /\ x = y) => EntryStays(c, x)
  <2>. HIDE DEF m, e
  <2>. QED BY <1>1, <1>2, ReturnDataKeeps DEF EntryStays, Busy
<1>4. waiting \in [Cache -> SUBSET Line]
  BY DEF TypeOK
<1>5. \/ UNCHANGED waiting /\ ~Wakes(d, e)
      \/ waiting' = [waiting EXCEPT ![d] = IF Queued(rq[d], y) THEN @ ELSE @ \ {y}]
  BY DEF HandleFill, Processed
<1>6. \A c \in Cache : waiting'[c] \subseteq waiting[c]
  BY <1>4, <1>5
<1>7. ASSUME NEW c \in FirstLevel, NEW x \in waiting'[c]
      PROVE  Demanded(c, x)'
  <2>1. c \in Cache /\ x \in waiting[c]
    BY <1>6 DEF FirstLevel
  <2>2. x \in Line /\ Demanded(c, x)
    BY <2>1, Waiters
  <2>3. CASE ~(c = d /\ x = y)
    BY <1>2, <1>3, <2>1, <2>2, <2>3 DEF Demanded, EntryStays
  <2>4. CASE c = d /\ x = y
    <3>1. Queued(rq[d], y)
      <4>1. CASE UNCHANGED waiting /\ ~Wakes(d, e)
        BY <2>2, <2>4, <4>1 DEF Wakes, Demanded, FirstLevel
      <4>2. CASE waiting' = [waiting EXCEPT ![d] = IF Queued(rq[d], y) THEN @ ELSE @ \ {y}]
        BY <1>4, <2>4, <4>2
      <4>. QED BY <1>5, <4>1, <4>2
    <3>. QED BY <1>2, <2>4, <3>1 DEF Demanded
  <2>. QED BY <2>3, <2>4
<1>8. \A c \in Cache : waiting'[c] # {} => c \in FirstLevel
  BY <1>6 DEF Demands, WaitsAtFirstLevel
<1>9. DemandsQueued'
  BY <1>2 DEF Demands, DemandsQueued
<1>. QED BY <1>7, <1>8, <1>9, DemandsFromWaiters

\* handle_read, hit: the core is told of the line, unless it asked again.
LEMMA ReadHitDemands ==
  ASSUME TypeOK, Demands, NEW d \in Cache, ReadHit(d)
  PROVE  Demands'
<1>1. PICK p \in Packet, y \in Line : p = Head(rq[d]) /\ y = p.line
  BY PopType, SizeFacts, TreeFacts DEF ReadHit, TypeOK, Packet
<1>2. /\ mshr' = ReturnData(mshr, Targets(d, p), y) /\ rq' = Pop(rq, d)
      /\ rq[d] # << >>
  BY <1>1 DEF ReadHit
<1>3. \A c \in Cache, x \in Line : EntryStays(c, x)
  BY <1>1, <1>2, ReturnDataKeeps, MshrIsFile DEF EntryStays, Busy
<1>4. waiting \in [Cache -> SUBSET Line] /\ rq \in [Node -> Seq(Packet)]
  BY DEF TypeOK, QueuesOK
<1>5. \A c \in FirstLevel : rq'[c] = IF c = d THEN Tail(rq[d]) ELSE rq[c]
  BY <1>2, <1>4, TreeFacts DEF Pop, FirstLevel
<1>6. IF d \in FirstLevel
      THEN waiting' = [waiting EXCEPT ![d] = IF Queued(Tail(rq[d]), y) THEN @ ELSE @ \ {y}]
      ELSE UNCHANGED waiting
  BY <1>1 DEF ReadHit, Processed, FirstLevel
<1>7. \A c \in Cache : waiting'[c] \subseteq waiting[c]
  BY <1>4, <1>6
<1>8. d \in FirstLevel /\ y \in waiting'[d] => Queued(rq'[d], y)
  BY <1>4, <1>5, <1>6
<1>9. d \in FirstLevel /\ y \in waiting'[d] => Demanded(d, y)'
  BY <1>8 DEF Demanded
<1>. QED BY <1>1, <1>2, <1>3, <1>5, <1>7, <1>9, ReadStep DEF FirstLevel

\* The demand at the head of a first-level read queue.
LEMMA HeadIsDemand ==
  ASSUME TypeOK, Demands, NEW d \in FirstLevel, rq[d] # << >>
  PROVE  Head(rq[d]).type # "PREFETCH"
<1>1. d \in Node /\ rq[d] \in Seq(Packet)
  BY TreeFacts DEF TypeOK, QueuesOK, FirstLevel
<1>2. Len(rq[d]) \in Nat /\ Len(rq[d]) # 0 /\ DOMAIN rq[d] = 1 .. Len(rq[d])
  BY <1>1, LenProperties, EmptySeq
<1>3. 1 \in DOMAIN rq[d] /\ Head(rq[d]) = rq[d][1]
  BY <1>1, <1>2
<1>. QED BY <1>3 DEF Demands, DemandsQueued

\* handle_read, new miss: the demand moves into an MSHR entry.
LEMMA ReadMissDemands ==
  ASSUME TypeOK, Demands, NEW d \in Cache, ReadMiss(d)
  PROVE  Demands'
<1>1. PICK p \in Packet, y \in Line : p = Head(rq[d]) /\ y = p.line
  BY PopType, SizeFacts, TreeFacts DEF ReadMiss, TypeOK, Packet
<1>2. /\ rq[d] # << >> /\ NewMiss(d, p)
      /\ rq' = [Pop(rq, d) EXCEPT ![Lower(d)] = AddRq(Lower(d), p)]
      /\ UNCHANGED waiting
  BY <1>1 DEF ReadMiss
<1>3. rq \in [Node -> Seq(Packet)]
  BY DEF TypeOK, QueuesOK
<1>4. \A c \in FirstLevel : rq'[c] = IF c = d THEN Tail(rq[d]) ELSE rq[c]
  BY <1>2, <1>3, LowerIsNotFirst, TreeFacts DEF Pop, FirstLevel
<1>. DEFINE m == [mshr EXCEPT ![d][y] = NewEntry(p)]
<1>5. NewEntry(p) \in Entry /\ NewEntry(p).type = p.type
  BY NewEntryType DEF NewEntry
<1>6. /\ m \in [Cache -> MshrFile]
      /\ m[d][y] = NewEntry(p)
      /\ \A c \in Cache, x \in Line : ~(c = d /\ x = y) => m[c][x] = mshr[c][x]
  BY <1>5, MshrIsFile DEF MshrFile
<1>7. mshr' = Forwarded(m, d, p)
  BY <1>1, <1>2 DEF NewMiss
<1>. HIDE DEF m
<1>8. \A c \in Cache, x \in Line : (c = d /\ x = y) \/ EntryStays(c, x)
  BY <1>6, <1>7, ForwardedKeeps DEF EntryStays, Busy
<1>9. d \in FirstLevel => p.type # "PREFETCH"
  BY <1>1, <1>2, HeadIsDemand
<1>10. m[d][y] # None
  BY <1>5, <1>6, NoneAssumption
<1>11. d \in FirstLevel => Demanded(d, y)'
  BY <1>5, <1>6, <1>7, <1>9, <1>10, ForwardedKeeps DEF Demanded, Busy
<1>. QED BY <1>1, <1>2, <1>4, <1>8, <1>11, ReadStep DEF FirstLevel

\* handle_read, merge: the entry of a prefetch becomes the demand's.
LEMMA ReadMergeDemands ==
  ASSUME TypeOK, Demands, NEW d \in Cache, ReadMerge(d)
  PROVE  Demands'
<1>1. PICK p \in Packet, y \in Line : p = Head(rq[d]) /\ y = p.line
  BY PopType, SizeFacts, TreeFacts DEF ReadMerge, TypeOK, Packet
<1>2. /\ rq[d] # << >> /\ Busy(d, y)
      /\ mshr' = [mshr EXCEPT ![d][y] = ReadJoin(mshr[d][y], p)]
      /\ rq' = Pop(rq, d)
      /\ UNCHANGED waiting
  BY <1>1 DEF ReadMerge
<1>3. rq \in [Node -> Seq(Packet)]
  BY DEF TypeOK, QueuesOK
<1>4. \A c \in FirstLevel : rq'[c] = IF c = d THEN Tail(rq[d]) ELSE rq[c]
  BY <1>2, <1>3, TreeFacts DEF Pop, FirstLevel
<1>5. mshr[d][y] \in Entry
  BY <1>2 DEF TypeOK, MshrOK, Busy
<1>6. /\ mshr'[d][y] = ReadJoin(mshr[d][y], p)
      /\ \A c \in Cache, x \in Line : ~(c = d /\ x = y) => mshr'[c][x] = mshr[c][x]
  BY <1>2, MshrIsFile DEF MshrFile
<1>7. \A c \in Cache, x \in Line : (c = d /\ x = y) \/ EntryStays(c, x)
  BY <1>6 DEF EntryStays, Busy
<1>8. d \in FirstLevel => p.type # "PREFETCH"
  BY <1>1, <1>2, HeadIsDemand
<1>9. d \in FirstLevel => Demanded(d, y)'
  BY <1>5, <1>6, <1>8, JoinKeeps DEF Demanded, Busy
<1>. QED BY <1>1, <1>2, <1>4, <1>7, <1>9, ReadStep DEF FirstLevel

\* A step that answers caches above and leaves the read queues alone.
LEMMA AnswerDemands ==
  ASSUME TypeOK, Demands, NEW targets, NEW y \in Line,
         mshr' = ReturnData(mshr, targets, y), UNCHANGED waiting,
         \A c \in FirstLevel : rq'[c] = rq[c]
  PROVE  Demands'
<1>1. \A c \in FirstLevel, x \in Line : EntryStays(c, x)
  BY ReturnDataKeeps, MshrIsFile DEF EntryStays, Busy, FirstLevel
<1>. QED BY <1>1, QuietStep

\* handle_writeback, hit or fill.
LEMMA WriteDemands ==
  ASSUME TypeOK, Demands, NEW d \in Cache, WriteHit(d) \/ WriteFill(d)
  PROVE  Demands'
<1>1. Head(wq[d]) \in Packet
  BY PopType, SizeFacts, TreeFacts DEF WriteHit, WriteFill, TypeOK
<1>2. Head(wq[d]).line \in Line
  BY <1>1 DEF Packet
<1>3. CASE WriteHit(d)
  BY <1>2, <1>3, AnswerDemands DEF WriteHit
<1>4. CASE WriteFill(d)
  BY <1>2, <1>4, AnswerDemands DEF WriteFill
<1>. QED BY <1>3, <1>4

\* A step that gives a free line y of the MSHRs of d an entry and passes p down.
LEMMA NewEntryStays ==
  ASSUME TypeOK, NEW d \in Cache, NEW p \in Packet, ~Busy(d, p.line),
         NEW e \in Entry,
         mshr' = Forwarded([mshr EXCEPT ![d][p.line] = e], d, p)
  PROVE  \A c \in Cache, x \in Line : EntryStays(c, x)
<1>. DEFINE m == [mshr EXCEPT ![d][p.line] = e]
<1>1. p.line \in Line
  BY DEF Packet
<1>2. /\ m \in [Cache -> MshrFile]
      /\ \A c \in Cache, x \in Line :
           ~(c = d /\ x = p.line) => m[c][x] = mshr[c][x]
  BY <1>1, MshrIsFile DEF MshrFile
<1>3. mshr' = Forwarded(m, d, p)
  OBVIOUS
<1>. HIDE DEF m
<1>. QED BY <1>2, <1>3, ForwardedKeeps DEF EntryStays, Busy

\* handle_writeback of a store that misses.
LEMMA RfoDemands ==
  ASSUME TypeOK, Demands, RfoMiss \/ RfoMerge
  PROVE  Demands'
<1>1. "L1D" \in Cache /\ wq["L1D"] # << >>
  BY DEF RfoMiss, RfoMerge
<1>2. PICK p \in Packet, y \in Line : p = Head(wq["L1D"]) /\ y = p.line
  BY <1>1, PopType, SizeFacts, TreeFacts DEF TypeOK, Packet
<1>3. CASE RfoMiss
  <2>1. /\ ~Busy("L1D", p.line)
        /\ mshr' = Forwarded([mshr EXCEPT !["L1D"][p.line] = NewEntry(p)], "L1D", p)
    BY <1>2, <1>3 DEF RfoMiss, NewMiss
  <2>2. \A c \in Cache, x \in Line : EntryStays(c, x)
    BY <1>1, <2>1, NewEntryStays, NewEntryType
  <2>3. \A c \in FirstLevel : rq'[c] = rq[c]
    <3>1. rq' = [rq EXCEPT !["L2C"] = AddRq("L2C", p)] /\ "L2C" \notin FirstLevel
      BY <1>2, <1>3 DEF RfoMiss, FirstLevel, Level
    <3>. QED BY <3>1
  <2>4. UNCHANGED waiting
    BY <1>3 DEF RfoMiss
  <2>. QED BY <2>2, <2>3, <2>4, QuietStep DEF FirstLevel
<1>4. CASE RfoMerge
  <2>1. /\ Busy("L1D", y)
        /\ mshr' = [mshr EXCEPT !["L1D"][y] = RfoJoin(mshr["L1D"][y], p)]
        /\ UNCHANGED <<rq, waiting>>
    BY <1>2, <1>4 DEF RfoMerge
  <2>2. mshr["L1D"][y] \in Entry
    BY <1>1, <2>1 DEF TypeOK, MshrOK, Busy
  <2>3. /\ mshr'["L1D"][y] = RfoJoin(mshr["L1D"][y], p)
        /\ \A c \in Cache, x \in Line :
             ~(c = "L1D" /\ x = y) => mshr'[c][x] = mshr[c][x]
    BY <1>1, <2>1, MshrIsFile DEF MshrFile
  <2>4. \A c \in Cache, x \in Line : EntryStays(c, x)
    BY <2>2, <2>3, JoinKeeps DEF EntryStays, Busy
  <2>. QED BY <2>1, <2>4, QuietStep DEF FirstLevel
<1>. QED BY <1>3, <1>4

\* handle_prefetch: a prefetch joins an entry without taking it over.
LEMMA PrefetchDemands ==
  ASSUME TypeOK, Demands, NEW d \in Cache, HandlePrefetch(d)
  PROVE  Demands'
<1>1. pq[d] # << >>
  BY DEF HandlePrefetch, PrefetchHit, PrefetchMiss, PrefetchMerge
<1>2. PICK p \in Packet, y \in Line : p = Head(pq[d]) /\ y = p.line
  BY <1>1, PopType, SizeFacts, TreeFacts DEF TypeOK, Packet
<1>3. CASE PrefetchHit(d)
  <2>1. /\ mshr' = ReturnData(mshr, Targets(d, p), y)
        /\ UNCHANGED <<rq, waiting>>
    BY <1>2, <1>3 DEF PrefetchHit
  <2>. QED BY <2>1, AnswerDemands
<1>4. CASE PrefetchMiss(d)
  <2>1. ~Busy(d, p.line) /\ UNCHANGED waiting
    BY <1>2, <1>4 DEF PrefetchMiss
  <2>2. \A c \in Cache, x \in Line : EntryStays(c, x)
    <3>1. CASE p.fill <= Level(d)
      <4>1. mshr' = Forwarded([mshr EXCEPT ![d][p.line] = NewEntry(p)], d, p)
        BY <1>2, <1>4, <3>1 DEF PrefetchMiss
      <4>. QED BY <2>1, <4>1, NewEntryStays, NewEntryType
    <3>2. CASE ~(p.fill <= Level(d))
      <4>1. mshr' = Forwarded(mshr, d, p)
        BY <1>2, <1>4, <3>2 DEF PrefetchMiss
      <4>. QED BY <4>1, ForwardedKeeps, MshrIsFile DEF EntryStays, Busy
    <3>. QED BY <3>1, <3>2
  <2>3. \A c \in FirstLevel : rq'[c] = rq[c]
    <3>1. Lower(d) \notin FirstLevel
      BY LowerIsNotFirst
    <3>2. rq' = rq \/ rq' = [rq EXCEPT ![Lower(d)] = AddRq(Lower(d), p)]
      BY <1>2, <1>4 DEF PrefetchMiss
    <3>. QED BY <3>1, <3>2, TreeFacts DEF TypeOK, QueuesOK, FirstLevel
  <2>. QED BY <2>1, <2>2, <2>3, QuietStep DEF FirstLevel
<1>5. CASE PrefetchMerge(d)
  <2>1. /\ Busy(d, y) /\ UNCHANGED <<rq, waiting>>
        /\ mshr' = [mshr EXCEPT ![d][y].fill = Min2(@, p.fill),
                                ![d][y].dest = @ \cup p.dest]
    BY <1>2, <1>5 DEF PrefetchMerge
  <2>. DEFINE e == mshr[d][y]
              j == [e EXCEPT !.fill = Min2(@, p.fill), !.dest = @ \cup p.dest]
  <2>2. e \in Entry
    BY <2>1 DEF TypeOK, MshrOK, Busy
  <2>3. mshr' = [mshr EXCEPT ![d][y] = j]
    BY <2>1, MshrIsFile DEF MshrFile
  <2>4. j.type = e.type /\ j # None
    <3>1. Min2(e.fill, p.fill) \in {1, 2, 4, 8}
      BY <2>2 DEF Min2, Entry, Packet
    <3>2. e.dest \cup p.dest \in SUBSET Side
      BY <2>2 DEF Entry, Packet
    <3>3. j \in Entry /\ j.type = e.type
      BY <2>2, <3>1, <3>2 DEF Entry
    <3>. QED BY <3>3, NoneAssumption
  <2>. HIDE DEF j
  <2>5. /\ mshr'[d][y] = j
        /\ \A c \in Cache, x \in Line : ~(c = d /\ x = y) => mshr'[c][x] = mshr[c][x]
    BY <2>3, MshrIsFile DEF MshrFile
  <2>6. \A c \in Cache, x \in Line : EntryStays(c, x)
    BY <2>4, <2>5 DEF EntryStays, Busy
  <2>. QED BY <2>1, <2>6, QuietStep DEF FirstLevel
<1>. QED BY <1>3, <1>4, <1>5 DEF HandlePrefetch

\* The DRAM controller answers the LLC.
LEMMA DramDemands ==
  ASSUME TypeOK, Demands, NEW x \in Line, DramRead(x) \/ DramWrite(x)
  PROVE  Demands'
<1>1. "DRAM" \notin FirstLevel
  BY LowerIsNotFirst, CacheAssumption DEF FirstLevel
<1>2. CASE DramRead(x)
  <2>1. PICK s : rq' = [rq EXCEPT !["DRAM"] = s]
    BY <1>2 DEF DramRead
  <2>2. \A c \in FirstLevel : rq'[c] = rq[c]
    BY <1>1, <2>1
  <2>3. mshr' = ReturnData(mshr, {"LLC"}, x) /\ UNCHANGED waiting
    BY <1>2 DEF DramRead
  <2>. QED BY <2>2, <2>3, AnswerDemands
<1>3. CASE DramWrite(x)
  <2>1. UNCHANGED <<rq, mshr, waiting>>
    BY <1>3 DEF DramWrite
  <2>2. \A c \in Cache, y \in Line : EntryStays(c, y)
    BY <2>1 DEF EntryStays, Busy
  <2>. QED BY <2>1, <2>2, QuietStep DEF FirstLevel
<1>. QED BY <1>2, <1>3

\* A new request of the core is queued at the first level.
LEMMA RequestDemands ==
  ASSUME TypeOK, Demands, NEW d \in FirstLevel, NEW p \in Packet,
         p.type # "PREFETCH", Request(d, p)
  PROVE  Demands'
<1>1. PICK y \in Line : y = p.line
  BY DEF Packet
<1>2. d \in Cache /\ d \in Node
  BY TreeFacts DEF FirstLevel
<1>3. /\ rq' = [rq EXCEPT ![d] = IF Queued(@, y) THEN @ ELSE Append(@, p)]
      /\ waiting' = [waiting EXCEPT ![d] = @ \cup {y}] /\ mshr' = mshr
  BY <1>1 DEF Request
<1>4. waiting \in [Cache -> SUBSET Line] /\ rq \in [Node -> Seq(Packet)]
  BY DEF TypeOK, QueuesOK
<1>. DEFINE q == rq[d]
<1>5. q \in Seq(Packet) /\ Len(q) \in Nat /\ DOMAIN q = 1 .. Len(q)
  BY <1>2, <1>4, LenProperties
<1>6. /\ Append(q, p) \in Seq(Packet)
      /\ DOMAIN Append(q, p) = 1 .. Len(q) + 1
      /\ \A i \in 1 .. Len(q) : Append(q, p)[i] = q[i]
      /\ Append(q, p)[Len(q) + 1] = p
  BY <1>5, AppendProperties, LenProperties
<1>7. rq'[d] = IF Queued(q, y) THEN q ELSE Append(q, p)
  BY <1>2, <1>3, <1>4
<1>8. Queued(Append(q, p), y)
  <2>1. Len(q) + 1 \in 1 .. Len(q) + 1
    BY <1>5
  <2>. QED BY <1>1, <1>6, <2>1 DEF Queued
<1>9. \A x : Queued(q, x) => Queued(Append(q, p), x)
  <2>1. ASSUME NEW x, Queued(q, x) PROVE Queued(Append(q, p), x)
    <3>1. PICK i \in 1 .. Len(q) : q[i].line = x
      BY <1>5, <2>1 DEF Queued
    <3>2. i \in 1 .. Len(q) + 1
      BY <1>5
    <3>. QED BY <1>6, <3>1, <3>2 DEF Queued
  <2>. QED BY <2>1
<1>10. DemandsQueued'
  <2>1. ASSUME NEW c \in FirstLevel, NEW i \in DOMAIN rq'[c]
        PROVE  rq'[c][i].type # "PREFETCH"
    <3>1. c \in Node
      BY TreeFacts DEF FirstLevel
    <3>2. CASE rq'[c] = rq[c]
      BY <3>2 DEF Demands, DemandsQueued
    <3>3. CASE c = d /\ rq'[d] = Append(q, p)
      <4>1. i \in 1 .. Len(q) + 1
        BY <1>6, <3>3
      <4>2. i \in 1 .. Len(q) \/ i = Len(q) + 1
        BY <1>5, <4>1
      <4>3. \A j \in 1 .. Len(q) : q[j].type # "PREFETCH"
        BY <1>5 DEF Demands, DemandsQueued
      <4>. QED BY <1>6, <3>3, <4>2, <4>3
    <3>. QED BY <1>3, <1>4, <1>7, <3>1, <3>2, <3>3
  <2>. QED BY <2>1 DEF DemandsQueued
<1>11. ASSUME NEW c \in FirstLevel, NEW x \in waiting'[c]
       PROVE  Demanded(c, x)'
  <2>1. c \in Cache /\ c \in Node
    BY TreeFacts DEF FirstLevel
  <2>2. CASE c = d /\ x = y
    BY <1>7, <1>8, <2>2 DEF Demanded
  <2>3. CASE ~(c = d /\ x = y)
    <3>1. x \in waiting[c]
      BY <1>3, <1>4, <2>1, <2>3
    <3>2. Demanded(c, x)
      BY <2>1, <3>1, Waiters
    <3>3. Queued(rq[c], x) => Queued(rq'[c], x)
      BY <1>3, <1>4, <1>7, <1>9, <2>1
    <3>. QED BY <1>3, <3>2, <3>3 DEF Demanded, Busy
  <2>. QED BY <2>2, <2>3
<1>12. \A c \in Cache : waiting'[c] # {} => c \in FirstLevel
  BY <1>3, <1>4 DEF Demands, WaitsAtFirstLevel
<1>. QED BY <1>10, <1>11, <1>12, DemandsFromWaiters

\* The core asks the first levels only, and asks with demands.
LEMMA CoreReadDemands ==
  ASSUME TypeOK, Demands, CoreRead
  PROVE  Demands'
<1>1. \A c \in {"L1I", "L1D", "ITLB", "DTLB"} : c \in Cache => c \in FirstLevel
  BY DEF FirstLevel, Level
<1>2. \A x \in CodeLine : Fetch(x) \in Packet /\ Fetch(x).type # "PREFETCH"
  BY CorePackets, LineAssumption DEF Fetch
<1>3. \A x \in DataLine, t \in {"LOAD", "RFO"} :
        Data(x, t) \in Packet /\ Data(x, t).type # "PREFETCH"
  BY CorePackets, LineAssumption DEF Data, ReqType
<1>4. \A c, p : Request(c, p) => c \in Cache
  BY DEF Request
<1>5. CASE \E x \in CodeLine : \E c \in {"L1I", "ITLB"} : Request(c, Fetch(x))
  BY <1>1, <1>2, <1>4, <1>5, RequestDemands
<1>6. CASE \E x \in DataLine : Request("L1D", Data(x, "LOAD"))
  BY <1>1, <1>3, <1>4, <1>6, RequestDemands
<1>7. CASE \E x \in DataLine, t \in {"LOAD", "RFO"} : Request("DTLB", Data(x, t))
  BY <1>1, <1>3, <1>4, <1>7, RequestDemands
<1>. QED BY <1>5, <1>6, <1>7 DEF CoreRead

-----------------------------------------------------------------------------
\* The invariant holds at first,
LEMMA InitDemands == Init => Demands
BY DEF Init, Demands, DemandsQueued, WaitsAtFirstLevel, DemandIsKept, FirstLevel,
       Node

\* and every step keeps it.
LEMMA NextDemands == TypeOK /\ Demands /\ [Next]_vars => Demands'
<1>. SUFFICES ASSUME TypeOK, Demands, [Next]_vars PROVE Demands'
  OBVIOUS
<1>1. ASSUME NEW c \in Cache, NEW x \in Line, HandleFill(c, x) PROVE Demands'
  BY <1>1, HandleFillDemands
<1>2. ASSUME NEW c \in Cache, HandleRead(c) PROVE Demands'
  BY <1>2, ReadHitDemands, ReadMissDemands, ReadMergeDemands DEF HandleRead
<1>3. ASSUME NEW c \in Cache, HandleWriteback(c) PROVE Demands'
  BY <1>3, WriteDemands, RfoDemands DEF HandleWriteback
<1>4. ASSUME NEW c \in Cache, HandlePrefetch(c) PROVE Demands'
  BY <1>4, PrefetchDemands
<1>5. ASSUME NEW x \in Line, DramRead(x) \/ DramWrite(x) PROVE Demands'
  BY <1>5, DramDemands
<1>6. CASE CoreRead
  BY <1>6, CoreReadDemands
<1>7. CASE UNCHANGED <<rq, mshr, waiting>>
  <2>1. \A c \in FirstLevel, x \in Line : EntryStays(c, x)
    BY <1>7 DEF EntryStays, Busy
  <2>. QED BY <1>7, <2>1, QuietStep
<1>8. ASSUME \/ CoreStore \/ FinishWarmup \/ UNCHANGED vars
             \/ \E c \in Cache : IssuePrefetch(c)
             \/ \E x \in Line : SwapOut(x)
      PROVE  Demands'
  BY <1>7, <1>8 DEF CoreStore, FinishWarmup, vars, IssuePrefetch, SwapOut
<1>. QED BY <1>1, <1>2, <1>3, <1>4, <1>5, <1>6, <1>8 DEF Next

\* The core's request survives every merge, in both trees, for every size of
\* the queues, MSHRs and sets, every set of lines and every prefetcher: while
\* the core waits for a line, a demand for it is in the read queue or the
\* MSHRs of the first level.
THEOREM DemandTheorem == Spec => []DemandIsKept
<1>1. Init => TypeOK /\ Demands
  BY InitType, InitDemands
<1>2. TypeOK /\ Demands /\ [Next]_vars => (TypeOK /\ Demands)'
  BY NextType, NextDemands
<1>3. TypeOK /\ Demands => DemandIsKept
  BY DEF Demands
<1>. QED BY <1>1, <1>2, <1>3, PTL DEF Spec

-----------------------------------------------------------------------------
(* Answers.                                                                *)

\* No prefetcher fills a level above its own, and the ITLB has none.
PrefetchesBelow ==
  \A c \in Cache : (c = "ITLB" => PfFill[c] = {}) /\ \A f \in PfFill[c] : Level(c) <= f

\* No prefetcher fills a first level, and the L1I has none: no prefetch carries a
\* fill_l1 flag, which the demand that overwrites its entry would drop.
NoneFillsFirst == \A c \in Cache : 1 \notin PfFill[c] /\ (c = "L1I" => PfFill[c] = {})
\* A read queue holds a request for every MSHR above, so that add_rq never refuses.
RoomForMisses ==
  \A n \in Cache :
    /\ Level(n) = 2 => MshrSize[Upper(n, "I")] + MshrSize[Upper(n, "D")] <= RqSize[n]
    /\ Level(n) = 4 => MshrSize[Upper(n, "D")] <= RqSize[n]
Ample == NoneFillsFirst /\ RoomForMisses

\* What is to answer line x to the cache c: a request in the queue q below it (Asks)
\* or an entry of the MSHRs below it (Held); and whether c waits for x (Pend).
Asks(q, c, x) == \E i \in DOMAIN q : q[i].line = x /\ c \in Targets(Lower(c), q[i])
Held(m, c, x) == LET n == Lower(c) IN n \in Cache /\ m[n][x] # None /\ c \in Targets(n, m[n][x])
Pend(m, c, x) == m[c][x] # None /\ ~m[c][x].returned
\* A read r, a prefetch p or an entry m will answer, one of them, if and (in ample
\* queues) only if there is a miss k that waits.
Once(r, p, m, k) ==
  (r \/ p \/ m => k) /\ (Ample => (k => r \/ p \/ m)) /\ ~(r /\ p) /\ ~(r /\ m) /\ ~(p /\ m)
OwedAt(r, p, m, c, x) ==
  Once(Asks(r[Lower(c)], c, x), Asks(p[Lower(c)], c, x), Held(m, c, x), Pend(m, c, x))
OwedOnce(r, p, m) == \A c \in Cache, x \in Line : OwedAt(r, p, m, c, x)

\* Plain packets carry a flag of the levels that fill from them; the first level has
\* its own flag only (Sent), a read fills every level above (Asked), and the write
\* queues ask for no answer (Written).
Own(c) == IF c \in {"L1I", "ITLB"} THEN "I" ELSE "D"
Plain(e) == /\ e.fill \in {1, 2, 4} /\ e.kind # {} /\ (e.fill = 1 <=> e.dest # {})
            /\ Ample /\ e.type = "PREFETCH" => e.fill # 1
Sent(n) == {e \in Packet : Plain(e) /\ (Level(n) = 1 => e.dest \subseteq {Own(n)})}
Asked(n) == {e \in Sent(n) : n \in Cache => e.fill = 1}
Spare(n) == {e \in Sent(n) : Ample => e.fill # 1}
Written(n) == {e \in Packet : Targets(n, e) = {} /\ (n = "L1D" => e \in Asked(n))}
Distinct(q) == \A i, j \in DOMAIN q : q[i].line = q[j].line => i = j
QueuedPackets(r, w, p) ==
  /\ \A n \in Node : /\ r[n] \in Seq(Asked(n)) /\ Distinct(r[n])
                     /\ p[n] \in Seq(Spare(n)) /\ Distinct(p[n])
  /\ \A n \in Cache : w[n] \in Seq(Written(n))
  /\ p["DRAM"] = << >>

\* With TypeOK, the inductive invariant.
MissEntries(m) == \A n \in Cache, x \in Line : m[n][x] # None => Plain(m[n][x])
Answers == QueuedPackets(rq, wq, pq) /\ MissEntries(mshr) /\ OwedOnce(rq, pq, mshr)

-----------------------------------------------------------------------------
(* Whom a packet asks to answer.                                           *)

\* The cache c is answered by the packet or entry e of the level below.
Answered(c, e) == IF Level(c) = 1 THEN e.fill = 1 /\ Own(c) \in e.dest
                  ELSE c = "L2C" => e.fill # 4

\* Where the caches are.
LEMMA TreeCases ==
  ASSUME NEW c \in Cache
  PROVE  \/ c \in {"L1I", "L1D", "ITLB", "DTLB"} /\ Level(c) = 1 /\ Level(Lower(c)) = 2
            /\ Lower(c) \in {"L2C", "STLB"}
            /\ \A s \in Side : Upper(Lower(c), s) = c <=> s = Own(c)
         \/ c = "L2C" /\ Level(c) = 2 /\ Lower(c) = "LLC" /\ Level("LLC") = 4
            /\ \A s : Upper("LLC", s) = c
         \/ c = "LLC" /\ Level(c) = 4 /\ Lower(c) = "DRAM" /\ Level("DRAM") = 16
            /\ \A s : Upper("DRAM", s) = c
         \/ c = "STLB" /\ Level(c) = 2 /\ Lower(c) = "WALK" /\ Level("WALK") = 16
            /\ \A s : Upper("WALK", s) = c
<1>1. CASE c \in {"L1I", "L1D", "ITLB", "DTLB"}
  BY <1>1 DEF Level, Lower, Upper, Own, Side
<1>2. CASE c = "L2C"
  BY <1>2 DEF Level, Lower, Upper
<1>3. CASE c = "LLC"
  BY <1>3 DEF Level, Lower, Upper
<1>4. CASE c = "STLB"
  BY <1>4 DEF Level, Lower, Upper
<1>. QED BY <1>1, <1>2, <1>3, <1>4, CacheAssumption

\* A packet or an entry asks for the answers of its flags.
LEMMA TargetOf ==
  ASSUME NEW c \in Cache, NEW e \in Packet \cup Entry, Plain(e)
  PROVE  c \in Targets(Lower(c), e) <=> Answered(c, e)
<1>1. e.dest \subseteq Side /\ e.kind \subseteq Side
  BY DEF Packet, Entry
<1>2. CASE Level(c) = 1
  BY <1>1, <1>2, TreeCases DEF Targets, Flags, Answered, Plain
<1>3. CASE c = "L2C"
  BY <1>1, <1>3, TreeCases DEF Targets, Flags, Answered, Plain
<1>4. CASE c = "LLC" \/ c = "STLB"
  BY <1>1, <1>4, TreeCases DEF Targets, Flags, Answered, Plain
<1>. QED BY <1>2, <1>3, <1>4, TreeCases

\* Only caches right above are answered.
LEMMA TargetsAreUpper ==
  ASSUME NEW n \in Node, NEW e \in Packet \cup Entry, NEW c \in Cache, c \in Targets(n, e)
  PROVE  n = Lower(c) /\ Level(n) # 1
<1>1. e.dest \subseteq Side /\ e.kind \subseteq Side /\ e.fill \in {1, 2, 4, 8}
  BY DEF Packet, Entry
<1>2. PICK s \in Side : c = Upper(n, s) /\ e.fill < Level(n)
  BY <1>1 DEF Targets, Flags
<1>3. Level(n) # 1
  BY <1>1, <1>2
<1>4. n \in {"L2C", "LLC", "STLB", "DRAM", "WALK"}
  BY <1>3, CacheAssumption DEF Node, Memory, Level
<1>. QED BY <1>2, <1>3, <1>4 DEF Upper, Lower, Side

\* A packet of d asks nobody else below, and not even d if it is to fill another
\* level (but the walk, which answers at once).
LEMMA AsksForItself ==
  ASSUME NEW d \in Cache, NEW p \in Sent(d), NEW c \in Cache, c \in Targets(Lower(d), p)
  PROVE  c = d /\ (d = "STLB" \/ p.fill <= Level(d))
<1>1. p \in Packet /\ Plain(p) /\ p.dest \subseteq Side
  BY DEF Sent, Packet
<1>2. Lower(c) = Lower(d)
  BY <1>1, TargetsAreUpper, TreeFacts
<1>3. Answered(c, p)
  BY <1>1, <1>2, TargetOf
<1>4. CASE Level(d) = 1
  <2>1. Level(c) = 1 /\ Own(c) \in p.dest /\ p.fill = 1 /\ p.dest \subseteq {Own(d)}
    <3>1. Level(c) = 1
      BY <1>2, <1>4, TreeCases
    <3>. QED BY <1>3, <1>4, <3>1 DEF Answered, Sent
  <2>2. Own(c) = Own(d) /\ Own(c) \in Side
    BY <2>1 DEF Own, Side
  <2>3. Upper(Lower(c), Own(c)) = c /\ Upper(Lower(d), Own(d)) = d
    BY <1>4, <2>1, <2>2, TreeCases
  <2>. QED BY <1>2, <1>4, <2>1, <2>2, <2>3
<1>5. CASE Level(d) # 1
  <2>1. c = d
    BY <1>2, <1>5, TreeCases
  <2>2. p.fill \in {1, 2, 4} /\ (c = "L2C" => p.fill # 4)
    BY <1>1, <1>3, <1>5, <2>1, TreeCases DEF Plain, Answered
  <2>3. d = "STLB" \/ p.fill <= Level(d)
    BY <1>5, <2>1, <2>2, TreeCases
  <2>. QED BY <2>1, <2>3
<1>. QED BY <1>4, <1>5

\* What goes down is what the level below expects.
LEMMA PassedDown ==
  ASSUME NEW d \in Cache
  PROVE  /\ Lower(d) \in Node /\ Level(Lower(d)) # 1 /\ Lower(d) # d
         /\ Asked(d) \subseteq Asked(Lower(d)) /\ Sent(d) \subseteq Sent(Lower(d))
         /\ Spare(d) \subseteq Spare(Lower(d))
         /\ d = "LLC" => Sent(d) \subseteq Asked(Lower(d))
<1>1. Lower(d) \in Node /\ Level(Lower(d)) # 1 /\ Lower(d) # d
  BY TreeCases, TreeFacts
<1>2. d = "LLC" => Lower(d) \notin Cache
  BY CacheAssumption DEF Lower
<1>. QED BY <1>1, <1>2 DEF Asked, Sent, Spare

\* The fill level of a join is the lower one.
LEMMA MinFill ==
  ASSUME NEW a \in {1, 2, 4, 8}, NEW b \in {1, 2, 4, 8}
  PROVE  /\ Min2(a, b) \in {1, 2, 4, 8} /\ (a # 8 => Min2(a, b) # 8)
         /\ (Min2(a, b) = 1 <=> a = 1 \/ b = 1)
         /\ (a # 8 /\ b # 8 => (Min2(a, b) = 4 <=> a = 4 /\ b = 4))
BY DEF Min2

\* The join of two requests asks for what either asks for.
LEMMA JoinTargets ==
  ASSUME NEW e \in Packet \cup Entry, NEW p \in Packet \cup Entry, NEW g \in Packet \cup Entry,
         Plain(e), Plain(p), g.kind # {}, Ample /\ g.type = "PREFETCH" => g.fill # 1,
         g.fill = Min2(e.fill, p.fill), g.dest = e.dest \cup p.dest
  PROVE  /\ Plain(g)
         /\ \A c \in Cache : c \in Targets(Lower(c), g)
                               <=> c \in Targets(Lower(c), e) \/ c \in Targets(Lower(c), p)
<1>1. e.fill \in {1, 2, 4} /\ p.fill \in {1, 2, 4}
      /\ (e.fill = 1 <=> e.dest # {}) /\ (p.fill = 1 <=> p.dest # {})
  BY DEF Plain
<1>2. /\ g.fill \in {1, 2, 4} /\ (g.fill = 1 <=> e.fill = 1 \/ p.fill = 1)
      /\ (g.fill = 4 <=> e.fill = 4 /\ p.fill = 4)
  BY <1>1, MinFill
<1>3. Plain(g)
  BY <1>1, <1>2 DEF Plain
<1>4. ASSUME NEW c \in Cache PROVE Answered(c, g) <=> Answered(c, e) \/ Answered(c, p)
  <2>1. CASE Level(c) = 1
    BY <1>1, <1>2, <2>1 DEF Answered
  <2>2. CASE Level(c) # 1
    BY <1>1, <1>2, <2>2 DEF Answered
  <2>. QED BY <2>1, <2>2
<1>. QED BY <1>3, <1>4, TargetOf

\* Requests for one line are merged in the read queue,
LEMMA MergeRqAsks ==
  ASSUME NEW n \in Node, n # "WALK", Level(n) # 1, NEW e \in Asked(n), NEW p \in Asked(n)
  PROVE  /\ MergeRq(n, e, p) \in Asked(n) /\ MergeRq(n, e, p).line = e.line
         /\ \A c \in Cache : Lower(c) = n =>
              (c \in Targets(n, MergeRq(n, e, p)) <=> c \in Targets(n, e) \/ c \in Targets(n, p))
<1>. DEFINE g == MergeRq(n, e, p)
<1>1. /\ e \in Packet /\ Plain(e) /\ p \in Packet /\ Plain(p) /\ g \in Packet
      /\ g.line = e.line /\ g.fill = e.fill /\ g.type = e.type
  BY MergeRqType DEF Asked, Sent, MergeRq, Packet
<1>2. CASE n = "DRAM"
  <2>1. g = e
    BY <1>2 DEF MergeRq
  <2>2. \A c \in Cache : Lower(c) = n => c \in Targets(n, e) /\ c \in Targets(n, p)
    BY <1>1, <1>2, TargetOf, TreeCases DEF Answered
  <2>. QED BY <2>1, <2>2
<1>3. CASE n \in Cache
  <2>1. e.fill = 1 /\ p.fill = 1 /\ g.fill = Min2(e.fill, p.fill)
    BY <1>1, <1>3 DEF Asked, Min2
  <2>2. g.dest = e.dest \cup p.dest /\ g.kind # {}
    <3>1. n # "DRAM"
      BY <1>3, CacheAssumption
    <3>. QED BY <1>1, <3>1 DEF MergeRq, Packet
  <2>3. Plain(g) /\ \A c \in Cache : c \in Targets(Lower(c), g)
                               <=> c \in Targets(Lower(c), e) \/ c \in Targets(Lower(c), p)
    <3>. HIDE DEF g
    <3>1. Ample /\ g.type = "PREFETCH" => g.fill # 1
      BY <1>1 DEF Plain
    <3>. QED BY <1>1, <2>1, <2>2, <3>1, JoinTargets
  <2>4. g \in Asked(n)
    BY <1>1, <1>3, <2>1, <2>3 DEF Asked, Sent
  <2>. QED BY <1>1, <2>3, <2>4
<1>. QED BY <1>2, <1>3 DEF Node, Memory

\* and in the prefetch queue,
LEMMA MergePqAsks ==
  ASSUME NEW n \in Node, NEW e \in Spare(n), NEW p \in Spare(n)
  PROVE  /\ MergePq(e, p) \in Spare(n) /\ MergePq(e, p).line = e.line
         /\ \A c \in Cache : Lower(c) = n =>
              (c \in Targets(n, MergePq(e, p)) <=> c \in Targets(n, e) \/ c \in Targets(n, p))
<1>. DEFINE g == MergePq(e, p)
<1>1. e \in Packet /\ Plain(e) /\ p \in Packet /\ Plain(p) /\ g \in Packet
  BY MergePqType DEF Sent, Spare
<1>2. /\ g.line = e.line /\ g.fill = Min2(e.fill, p.fill) /\ g.dest = e.dest \cup p.dest
      /\ g.kind # {} /\ (Ample => g.fill # 1)
  BY <1>1 DEF MergePq, Packet, Plain, Spare, Min2
<1>3. Plain(g) /\ \A c \in Cache : c \in Targets(Lower(c), g)
                             <=> c \in Targets(Lower(c), e) \/ c \in Targets(Lower(c), p)
  <2>. HIDE DEF g
  <2>. QED BY <1>1, <1>2, JoinTargets
<1>4. g \in Spare(n)
  <2>1. Level(n) = 1 => g.dest \subseteq {Own(n)}
    BY <1>2 DEF Sent, Spare
  <2>. HIDE DEF g
  <2>. QED BY <1>1, <1>2, <1>3, <2>1 DEF Sent, Spare
<1>. QED BY <1>2, <1>3, <1>4

\* and with the entry of a miss; only a prefetch that is taken over may lose
\* what it asked for.
LEMMA EntryAsks ==
  ASSUME NEW p \in Packet, Plain(p)
  PROVE  /\ Plain(NewEntry(p)) /\ \A n : Targets(n, NewEntry(p)) = Targets(n, p)
         /\ \A e : Plain(TakeOver(e, p)) /\ \A n : Targets(n, TakeOver(e, p)) = Targets(n, p)
<1>1. /\ NewEntry(p).fill = p.fill /\ NewEntry(p).dest = p.dest /\ NewEntry(p).kind = p.kind
      /\ NewEntry(p).returned = FALSE /\ NewEntry(p).type = p.type
  BY DEF NewEntry
<1>2. \A e : /\ TakeOver(e, p).fill = p.fill /\ TakeOver(e, p).dest = p.dest
             /\ TakeOver(e, p).kind = p.kind /\ TakeOver(e, p).type = p.type
  BY DEF TakeOver, NewEntry
<1>. QED BY <1>1, <1>2 DEF Plain, Targets, Flags

\* A read or a store that joins an entry keeps whom the entry asks for.
LEMMA JoinAsks ==
  ASSUME NEW e \in Entry, NEW p \in Packet, Plain(e), Plain(p),
         NEW g \in {ReadJoin(e, p), RfoJoin(e, p)}
  PROVE  /\ g \in Entry /\ Plain(g) /\ g.returned = e.returned
         /\ \A c \in Cache :
              /\ c \in Targets(Lower(c), g)
                   => c \in Targets(Lower(c), e) \/ c \in Targets(Lower(c), p)
              /\ c \in Targets(Lower(c), p) => c \in Targets(Lower(c), g)
              /\ c \in Targets(Lower(c), e) /\ e.type # "PREFETCH" => c \in Targets(Lower(c), g)
              /\ c \in Targets(Lower(c), e) /\ Ample /\ p.fill = 1 => c \in Targets(Lower(c), g)
<1>1. g \in Entry
  BY JoinType
<1>2. CASE e.type = "PREFETCH"
  <2>1. g = TakeOver(e, p)
    BY <1>2 DEF ReadJoin, RfoJoin
  <2>2. g.returned = e.returned
    BY <2>1 DEF TakeOver, NewEntry
  <2>3. ASSUME NEW c \in Cache, c \in Targets(Lower(c), e), Ample, p.fill = 1
        PROVE  c \in Targets(Lower(c), p)
    <3>1. Answered(c, e) /\ e.fill # 1
      BY <1>2, <2>3, TargetOf DEF Plain
    <3>2. Answered(c, p)
      BY <2>3, <3>1 DEF Answered
    <3>. QED BY <3>2, TargetOf
  <2>. QED BY <1>1, <1>2, <2>1, <2>2, <2>3, EntryAsks
<1>3. CASE e.type # "PREFETCH"
  <2>1. g.fill = Min2(e.fill, p.fill) /\ g.dest = e.dest \cup p.dest /\ g.kind # {}
        /\ g.returned = e.returned /\ g.type = e.type
    <3>1. CASE g = ReadJoin(e, p)
      <4>1. PICK k \in {e.kind, e.kind \cup {"I"}, e.kind \cup {"D"}} :
              g = [e EXCEPT !.fill = Min2(e.fill, p.fill), !.dest = e.dest \cup p.dest, !.kind = k]
        BY <1>3, <3>1 DEF ReadJoin
      <4>. QED BY <4>1 DEF Entry, Plain
    <3>2. CASE g = RfoJoin(e, p)
      <4>1. g = [e EXCEPT !.fill = Min2(e.fill, p.fill), !.dest = e.dest \cup p.dest]
        BY <1>3, <3>2 DEF RfoJoin
      <4>. QED BY <4>1 DEF Entry, Plain
    <3>. QED BY <3>1, <3>2
  <2>. QED BY <1>1, <1>3, <2>1, JoinTargets
<1>. QED BY <1>2, <1>3

\* The join g of a demand p with an entry e owes what either owes, if nothing is lost, and no more.
JoinOwes(e, p, g) ==
  /\ g \in Entry /\ Plain(g) /\ g.returned = e.returned
  /\ \A c \in Cache :
       /\ c \in Targets(Lower(c), g) => c \in Targets(Lower(c), e) \/ c \in Targets(Lower(c), p)
       /\ Ample /\ (c \in Targets(Lower(c), e) \/ c \in Targets(Lower(c), p))
            => c \in Targets(Lower(c), g)

LEMMA DemandJoins ==
  ASSUME NEW e \in Entry, NEW p \in Packet, Plain(e), Plain(p), p.fill = 1,
         NEW g, g = ReadJoin(e, p) \/ g = RfoJoin(e, p)
  PROVE  JoinOwes(e, p, g)
<1>1. g \in {ReadJoin(e, p), RfoJoin(e, p)}
  OBVIOUS
<1>. QED BY <1>1, JoinAsks DEF JoinOwes

\* A prefetch that joins an entry.
PrefetchJoin(e, p) == [e EXCEPT !.fill = Min2(@, p.fill), !.dest = @ \cup p.dest]
\* So does a prefetch.
LEMMA PrefetchJoinAsks ==
  ASSUME NEW e \in Entry, NEW p \in Packet, Plain(e), Plain(p), Ample => p.fill # 1, NEW g,
         g = PrefetchJoin(e, p)
  PROVE  /\ g \in Entry /\ Plain(g) /\ g.returned = e.returned /\ g.type = e.type
         /\ g.fill = Min2(e.fill, p.fill)
         /\ \A c \in Cache : c \in Targets(Lower(c), g)
                               <=> c \in Targets(Lower(c), e) \/ c \in Targets(Lower(c), p)
<1>1. Min2(e.fill, p.fill) \in {1, 2, 4, 8} /\ e.dest \cup p.dest \in SUBSET Side
  BY MinFill DEF Entry, Packet
<1>2. /\ g \in Entry /\ g.fill = Min2(e.fill, p.fill) /\ g.dest = e.dest \cup p.dest
      /\ g.kind = e.kind /\ g.returned = e.returned /\ g.type = e.type
  BY <1>1 DEF Entry, PrefetchJoin
<1>3. g.kind # {} /\ (Ample /\ g.type = "PREFETCH" => g.fill # 1)
  BY <1>2 DEF Plain, Min2
<1>4. ASSUME NEW h \in Entry, h.kind # {}, h.fill = Min2(e.fill, p.fill),
             h.dest = e.dest \cup p.dest, Ample /\ h.type = "PREFETCH" => h.fill # 1
      PROVE  Plain(h) /\ \A c \in Cache : c \in Targets(Lower(c), h)
                             <=> c \in Targets(Lower(c), e) \/ c \in Targets(Lower(c), p)
  BY <1>4, JoinTargets
<1>. QED BY <1>2, <1>3, <1>4

\* The head of a queue leaves, and what it asks for with it.
LEMMA HeadAsks ==
  ASSUME NEW S, NEW q \in Seq(S), Distinct(q), q # << >>
  PROVE  /\ Head(q) \in S /\ Tail(q) \in Seq(S) /\ Distinct(Tail(q))
         /\ \A c, x : Asks(Tail(q), c, x) <=> Asks(q, c, x) /\ x # Head(q).line
         /\ \A c : Asks(q, c, Head(q).line) <=> c \in Targets(Lower(c), Head(q))
<1>. DEFINE t == Tail(q)
            k == Len(q)
<1>1. k \in Nat /\ k # 0 /\ DOMAIN q = 1 .. k /\ Head(q) = q[1] /\ Head(q) \in S
  BY LenProperties, EmptySeq, HeadTailProperties
<1>2. t \in Seq(S) /\ Len(t) = k - 1 /\ \A i \in 1 .. Len(t) : t[i] = q[i + 1]
  BY HeadTailProperties
<1>3. DOMAIN t = 1 .. k - 1
  BY <1>2, LenProperties
<1>. HIDE DEF t, k
<1>4. \A i \in DOMAIN t : i + 1 \in DOMAIN q /\ i + 1 # 1 /\ t[i] = q[i + 1]
  BY <1>1, <1>2, <1>3
<1>5. \A i \in DOMAIN q : i # 1 => i - 1 \in DOMAIN t /\ (i - 1) + 1 = i
  BY <1>1, <1>3
<1>6. Distinct(t)
  <2>1. ASSUME NEW i \in DOMAIN t, NEW j \in DOMAIN t, t[i].line = t[j].line PROVE i = j
    <3>1. i + 1 = j + 1
      BY <1>4, <2>1 DEF Distinct
    <3>. QED BY <1>1, <1>3, <3>1
  <2>. QED BY <2>1 DEF Distinct
<1>7. ASSUME NEW c, NEW x PROVE Asks(t, c, x) <=> Asks(q, c, x) /\ x # q[1].line
  <2>1. ASSUME Asks(t, c, x) PROVE Asks(q, c, x) /\ x # q[1].line
    <3>1. PICK i \in DOMAIN t : t[i].line = x /\ c \in Targets(Lower(c), t[i])
      BY <2>1 DEF Asks
    <3>2. i + 1 \in DOMAIN q /\ i + 1 # 1 /\ t[i] = q[i + 1] /\ 1 \in DOMAIN q
      BY <1>1, <1>4
    <3>. QED BY <3>1, <3>2 DEF Asks, Distinct
  <2>2. ASSUME Asks(q, c, x), x # q[1].line PROVE Asks(t, c, x)
    <3>1. PICK i \in DOMAIN q : q[i].line = x /\ c \in Targets(Lower(c), q[i])
      BY <2>2 DEF Asks
    <3>2. i - 1 \in DOMAIN t /\ (i - 1) + 1 = i
      BY <1>5, <2>2, <3>1
    <3>3. t[i - 1] = q[i]
      BY <1>4, <3>2
    <3>. QED BY <3>1, <3>2, <3>3 DEF Asks
  <2>. QED BY <2>1, <2>2
<1>8. ASSUME NEW c PROVE Asks(q, c, q[1].line) <=> c \in Targets(Lower(c), q[1])
  <2>1. 1 \in DOMAIN q
    BY <1>1
  <2>. QED BY <2>1 DEF Asks, Distinct
<1>. QED BY <1>1, <1>2, <1>6, <1>7, <1>8 DEF t

\* A request is appended.
LEMMA AppendAsks ==
  ASSUME NEW S, NEW q \in Seq(S), Distinct(q), NEW p \in S, ~Queued(q, p.line)
  PROVE  /\ Append(q, p) \in Seq(S) /\ Distinct(Append(q, p)) /\ Len(Append(q, p)) = Len(q) + 1
         /\ \A c, x : Asks(Append(q, p), c, x)
                        <=> Asks(q, c, x) \/ (x = p.line /\ c \in Targets(Lower(c), p))
<1>. DEFINE r == Append(q, p)
            k == Len(q)
<1>1. k \in Nat /\ DOMAIN q = 1 .. k
  BY LenProperties
<1>2. r \in Seq(S) /\ Len(r) = k + 1 /\ DOMAIN r = 1 .. k + 1
      /\ (\A i \in 1 .. k : r[i] = q[i]) /\ r[k + 1] = p
  BY <1>1, AppendProperties, LenProperties
<1>. HIDE DEF r, k
<1>3. \A i : i \in DOMAIN r <=> i \in DOMAIN q \/ i = k + 1
  BY <1>1, <1>2
<1>4. \A i \in DOMAIN q : r[i] = q[i] /\ q[i].line # p.line
  BY <1>1, <1>2 DEF Queued
<1>5. Distinct(r)
  <2>1. ASSUME NEW i \in DOMAIN r, NEW j \in DOMAIN r, r[i].line = r[j].line PROVE i = j
    BY <1>2, <1>3, <1>4, <2>1 DEF Distinct
  <2>. QED BY <2>1 DEF Distinct
<1>6. \A c, x : Asks(r, c, x) <=> Asks(q, c, x) \/ (x = p.line /\ c \in Targets(Lower(c), p))
  BY <1>2, <1>3, <1>4 DEF Asks
<1>7. Len(r) = Len(q) + 1
  BY <1>2 DEF k
<1>. QED BY <1>2, <1>5, <1>6, <1>7 DEF r

\* Merging the request a changes the entries of a queue to what g says.
Joins(E, g, l, a) ==
  /\ g \in [E -> E] /\ \A e \in E : g[e].line = e.line
  /\ \A e \in E, c \in Cache : Lower(c) = l =>
       (c \in Targets(l, g[e]) <=> c \in Targets(l, e) \/ c \in Targets(l, a))
Replaced(E, t, s, g, a) ==
  /\ t \in [DOMAIN s -> E]
  /\ \A i \in DOMAIN s : t[i] = IF s[i].line = a.line THEN g[s[i]] ELSE s[i]

\* A request is merged with those in the queue.
LEMMA MergedAsks ==
  ASSUME NEW E, NEW s \in Seq(E), Distinct(s), NEW a \in E, Queued(s, a.line), NEW g, NEW l,
         Joins(E, g, l, a), NEW t, Replaced(E, t, s, g, a)
  PROVE  /\ t \in Seq(E) /\ Distinct(t) /\ Len(t) = Len(s)
         /\ \A c \in Cache : Lower(c) = l => \A x :
              Asks(t, c, x) <=> Asks(s, c, x) \/ (x = a.line /\ c \in Targets(l, a))
<1>1. Len(s) \in Nat /\ DOMAIN s = 1 .. Len(s) /\ \A i \in DOMAIN s : s[i] \in E
  BY LenProperties, ElementOfSeq
<1>2. t \in [DOMAIN s -> E] /\ DOMAIN t = DOMAIN s
      /\ \A i \in DOMAIN s : t[i] = IF s[i].line = a.line THEN g[s[i]] ELSE s[i]
  BY DEF Replaced
<1>3. \A i \in DOMAIN s : t[i] \in E /\ t[i].line = s[i].line
  BY <1>1, <1>2 DEF Joins
<1>4. t \in [1 .. Len(s) -> E]
  BY <1>1, <1>2
<1>5. t \in Seq(E)
  BY <1>1, <1>4, SeqDef
<1>6. Len(t) = Len(s)
  BY <1>1, <1>2, <1>5, LenProperties
<1>7. Distinct(t)
  BY <1>2, <1>3 DEF Distinct
<1>8. ASSUME NEW c \in Cache, Lower(c) = l, NEW x
      PROVE  Asks(t, c, x) <=> Asks(s, c, x) \/ (x = a.line /\ c \in Targets(l, a))
  <2>1. CASE x # a.line
    <3>1. \A i \in DOMAIN s : s[i].line = x => t[i] = s[i]
      BY <1>2, <2>1
    <3>. QED BY <1>2, <1>3, <2>1, <3>1 DEF Asks
  <2>2. CASE x = a.line
    <3>1. PICK j \in DOMAIN s : s[j].line = a.line
      BY DEF Queued
    <3>2. \A i \in DOMAIN s : s[i].line = x <=> i = j
      BY <2>2, <3>1 DEF Distinct
    <3>3. t[j] = g[s[j]] /\ s[j] \in E
      BY <1>1, <1>2, <3>1
    <3>4. c \in Targets(l, t[j]) <=> c \in Targets(l, s[j]) \/ c \in Targets(l, a)
      BY <1>8, <3>3 DEF Joins
    <3>. QED BY <1>2, <1>3, <1>8, <2>2, <3>1, <3>2, <3>4 DEF Asks
  <2>. QED BY <2>1, <2>2
<1>. QED BY <1>5, <1>6, <1>7, <1>8

\* An entry leaves the queue of the DRAM.
LEMMA WithoutAsks ==
  ASSUME NEW S, NEW q \in Seq(S), Distinct(q), NEW i \in DOMAIN q
  PROVE  /\ Without(q, i) \in Seq(S) /\ Distinct(Without(q, i))
         /\ \A c, x : Asks(Without(q, i), c, x) <=> Asks(q, c, x) /\ x # q[i].line
<1>. DEFINE a == SubSeq(q, 1, i - 1)
            b == SubSeq(q, i + 1, Len(q))
            k == Len(q)
            r == Without(q, i)
<1>1. k \in Nat /\ DOMAIN q = 1 .. k /\ i \in 1 .. k /\ \A j \in 1 .. k : q[j] \in S
  BY LenProperties, ElementOfSeq
<1>2. a \in Seq(S) /\ Len(a) = i - 1 /\ \A j \in 1 .. i - 1 : a[j] = q[j]
  <2>1. \A j \in 1 .. i - 1 : q[j] \in S /\ 1 + j - 1 = j
    BY <1>1
  <2>2. i - 1 \in Int /\ (i - 1) - 1 + 1 = i - 1 /\ (1 <= i - 1 \/ i - 1 = 0)
    BY <1>1
  <2>. QED BY <2>1, <2>2, SubSeqProperties
<1>3. b \in Seq(S) /\ Len(b) = k - i /\ \A j \in 1 .. k - i : b[j] = q[j + i]
  <2>1. \A j \in i + 1 .. k : q[j] \in S
    BY <1>1
  <2>2. i + 1 \in Int /\ k \in Int /\ k - (i + 1) + 1 = k - i
        /\ (IF i + 1 <= k THEN k - (i + 1) + 1 ELSE 0) = k - i
        /\ \A j \in 1 .. k - i : (i + 1) + j - 1 = j + i
    BY <1>1
  <2>3. /\ b \in Seq(S) /\ Len(b) = IF i + 1 <= k THEN k - (i + 1) + 1 ELSE 0
        /\ \A j \in 1 .. k - (i + 1) + 1 : b[j] = q[(i + 1) + j - 1]
    BY <2>1, <2>2, SubSeqProperties
  <2>. QED BY <2>2, <2>3
<1>. HIDE DEF a, b, k
<1>4. r = a \o b
  BY DEF Without, a, b, k
<1>5. /\ r \in Seq(S) /\ Len(r) = k - 1 /\ DOMAIN r = 1 .. k - 1
      /\ \A j \in 1 .. k - 1 : r[j] = IF j <= i - 1 THEN a[j] ELSE b[j - (i - 1)]
  <2>1. (i - 1) + (k - i) = k - 1
    BY <1>1
  <2>. QED BY <1>2, <1>3, <1>4, <2>1, ConcatProperties, LenProperties
<1>. HIDE DEF r
<1>6. \A j \in 1 .. k - 1 : r[j] = IF j < i THEN q[j] ELSE q[j + 1]
  <2>1. ASSUME NEW j \in 1 .. k - 1 PROVE r[j] = IF j < i THEN q[j] ELSE q[j + 1]
    <3>1. CASE j < i
      <4>1. j \in 1 .. i - 1 /\ j <= i - 1
        BY <1>1, <3>1
      <4>. QED BY <1>2, <1>5, <3>1, <4>1
    <3>2. CASE ~(j < i)
      <4>1. j - (i - 1) \in 1 .. k - i /\ ~(j <= i - 1) /\ j - (i - 1) + i = j + 1
        BY <1>1, <3>2
      <4>. QED BY <1>3, <1>5, <3>2, <4>1
    <3>. QED BY <3>1, <3>2
  <2>. QED BY <2>1
<1>. DEFINE g == [j \in 1 .. k - 1 |-> IF j < i THEN j ELSE j + 1]
<1>7. /\ \A j \in 1 .. k - 1 : g[j] \in DOMAIN q /\ g[j] # i /\ r[j] = q[g[j]]
      /\ \A j, m \in 1 .. k - 1 : g[j] = g[m] => j = m
      /\ \A m \in DOMAIN q : m # i => \E j \in 1 .. k - 1 : g[j] = m
  <2>1. ASSUME NEW m \in DOMAIN q, m # i PROVE \E j \in 1 .. k - 1 : g[j] = m
    <3>1. CASE m < i
      <4>1. m \in 1 .. k - 1
        BY <1>1, <3>1
      <4>. QED BY <3>1, <4>1
    <3>2. CASE ~(m < i)
      <4>1. m - 1 \in 1 .. k - 1 /\ ~(m - 1 < i) /\ (m - 1) + 1 = m
        BY <1>1, <2>1, <3>2
      <4>. QED BY <4>1
    <3>. QED BY <3>1, <3>2
  <2>2. \A j \in 1 .. k - 1 : g[j] \in DOMAIN q /\ g[j] # i /\ r[j] = q[g[j]]
    BY <1>1, <1>6
  <2>3. \A j, m \in 1 .. k - 1 : g[j] = g[m] => j = m
    BY <1>1
  <2>. QED BY <2>1, <2>2, <2>3
<1>. HIDE DEF g
<1>8. Distinct(r)
  <2>1. ASSUME NEW j \in 1 .. k - 1, NEW m \in 1 .. k - 1, r[j].line = r[m].line PROVE j = m
    <3>1. g[j] = g[m]
      BY <1>7, <2>1 DEF Distinct
    <3>. QED BY <1>7, <3>1
  <2>. QED BY <1>5, <2>1 DEF Distinct
<1>9. ASSUME NEW c, NEW x PROVE Asks(r, c, x) <=> Asks(q, c, x) /\ x # q[i].line
  <2>1. ASSUME Asks(r, c, x) PROVE Asks(q, c, x) /\ x # q[i].line
    <3>1. PICK j \in 1 .. k - 1 : r[j].line = x /\ c \in Targets(Lower(c), r[j])
      BY <1>5, <2>1 DEF Asks
    <3>2. g[j] \in DOMAIN q /\ g[j] # i /\ r[j] = q[g[j]]
      BY <1>7
    <3>. QED BY <3>1, <3>2 DEF Asks, Distinct
  <2>2. ASSUME Asks(q, c, x), x # q[i].line PROVE Asks(r, c, x)
    <3>1. PICK m \in DOMAIN q : q[m].line = x /\ c \in Targets(Lower(c), q[m])
      BY <2>2 DEF Asks
    <3>2. PICK j \in 1 .. k - 1 : g[j] = m
      BY <1>7, <2>2, <3>1
    <3>3. r[j] = q[m] /\ j \in DOMAIN r
      BY <1>5, <1>7, <3>2
    <3>. QED BY <3>1, <3>3 DEF Asks
  <2>. QED BY <2>1, <2>2
<1>. QED BY <1>5, <1>8, <1>9 DEF r

\* What may be in the queues are packets.
LEMMA AskedArePackets ==
  ASSUME NEW n
  PROVE  Asked(n) \subseteq Sent(n) /\ Spare(n) \subseteq Sent(n) /\ Sent(n) \subseteq Packet
BY DEF Asked, Spare, Sent

\* The queue q of n is t after it was offered p.
Added(q, t, n, p, S, size) ==
  /\ t \in Seq(S) /\ Distinct(t)
  /\ \A c \in Cache : Lower(c) = n => \A x :
       /\ Asks(q, c, x) => Asks(t, c, x)
       /\ Asks(t, c, x) =>
            Asks(q, c, x) \/ (~Immediate(n, p.line) /\ x = p.line /\ c \in Targets(n, p))
       /\ /\ ~Immediate(n, p.line) /\ x = p.line /\ c \in Targets(n, p)
          /\ Queued(q, p.line) \/ Len(q) < size
          => Asks(t, c, x)

\* add_rq of the level below: the request is queued, merged, answered or refused.
LEMMA AddRqAsks ==
  ASSUME NEW n \in Node, Level(n) # 1, rq[n] \in Seq(Asked(n)), Distinct(rq[n]),
         NEW p \in Asked(n)
  PROVE  Added(rq[n], AddRq(n, p), n, p, Asked(n), RqSize[n])
<1>. DEFINE q == rq[n]
            f == [e \in Asked(n) |-> MergeRq(n, e, p)]
<1>1. CASE Immediate(n, p.line)
  BY <1>1 DEF AddRq, Added
<1>2. CASE ~Immediate(n, p.line) /\ Queued(q, p.line)
  <2>1. AddRq(n, p) = [i \in DOMAIN q |-> IF q[i].line = p.line THEN f[q[i]] ELSE q[i]]
    <3>1. \A i \in DOMAIN q : q[i] \in Asked(n)
      BY ElementOfSeq, LenProperties
    <3>. QED BY <1>2, <3>1 DEF AddRq, Enqueue
  <2>. DEFINE T == Asked(n)
  <2>2. f \in [T -> T] /\ (\A e \in T : f[e].line = e.line)
        /\ \A e \in T, c \in Cache : Lower(c) = n =>
             (c \in Targets(n, f[e]) <=> c \in Targets(n, e) \/ c \in Targets(n, p))
    <3>1. n # "WALK"
      BY <1>2 DEF Immediate
    <3>2. \A e \in Asked(n) : /\ MergeRq(n, e, p) \in Asked(n) /\ MergeRq(n, e, p).line = e.line
         /\ \A c \in Cache : Lower(c) = n =>
              (c \in Targets(n, MergeRq(n, e, p)) <=> c \in Targets(n, e) \/ c \in Targets(n, p))
      BY <3>1, MergeRqAsks
    <3>. QED BY <3>2
  <2>. DEFINE r == AddRq(n, p)
  <2>3. /\ r \in [DOMAIN q -> T]
        /\ \A i \in DOMAIN q : r[i] = IF q[i].line = p.line THEN f[q[i]] ELSE q[i]
    <3>1. \A i \in DOMAIN q : q[i] \in T /\ f[q[i]] \in T
      BY ElementOfSeq, LenProperties, <2>2
    <3>. HIDE DEF f
    <3>. QED BY <2>1, <3>1
  <2>4. q \in Seq(T) /\ Distinct(q) /\ p \in T /\ Queued(q, p.line)
    BY <1>2
  <2>. HIDE DEF f, r, T, q
  <2>5. /\ r \in Seq(T) /\ Distinct(r)
        /\ \A c \in Cache : Lower(c) = n => \A x :
             Asks(r, c, x) <=> Asks(q, c, x) \/ (x = p.line /\ c \in Targets(n, p))
    <3>1. Joins(T, f, n, p)
      BY <2>2 DEF Joins
    <3>2. Replaced(T, r, q, f, p)
      BY <2>3 DEF Replaced
    <3>. QED BY <2>4, <3>1, <3>2, MergedAsks
  <2>. QED BY <1>2, <2>5 DEF r, T, q, Added
<1>3. CASE ~Immediate(n, p.line) /\ ~Queued(q, p.line) /\ Len(q) < RqSize[n]
  <2>1. AddRq(n, p) = Append(q, p)
    BY <1>3 DEF AddRq, Enqueue
  <2>2. /\ Append(q, p) \in Seq(Asked(n)) /\ Distinct(Append(q, p))
        /\ \A c, x : Asks(Append(q, p), c, x)
                       <=> Asks(q, c, x) \/ (x = p.line /\ c \in Targets(Lower(c), p))
    BY <1>3, AppendAsks
  <2>. QED BY <1>3, <2>1, <2>2 DEF Added
<1>4. CASE ~Immediate(n, p.line) /\ ~Queued(q, p.line) /\ ~(Len(q) < RqSize[n])
  BY <1>4 DEF AddRq, Enqueue, Added
<1>. QED BY <1>1, <1>2, <1>3, <1>4

\* So is a prefetch by add_pq.
LEMMA AddPqAsks ==
  ASSUME NEW n \in Node, pq[n] \in Seq(Spare(n)), Distinct(pq[n]), NEW p \in Spare(n)
  PROVE  Added(pq[n], AddPq(n, p), n, p, Spare(n), PqSize[n])
<1>. DEFINE q == pq[n]
            f == [e \in Spare(n) |-> MergePq(e, p)]
<1>1. CASE Immediate(n, p.line)
  BY <1>1 DEF AddPq, Added
<1>2. CASE ~Immediate(n, p.line) /\ Queued(q, p.line)
  <2>1. AddPq(n, p) = [i \in DOMAIN q |-> IF q[i].line = p.line THEN f[q[i]] ELSE q[i]]
    <3>1. \A i \in DOMAIN q : q[i] \in Spare(n)
      BY ElementOfSeq, LenProperties
    <3>. QED BY <1>2, <3>1 DEF AddPq, Enqueue
  <2>. DEFINE T == Spare(n)
  <2>2. f \in [T -> T] /\ (\A e \in T : f[e].line = e.line)
        /\ \A e \in T, c \in Cache : Lower(c) = n =>
             (c \in Targets(n, f[e]) <=> c \in Targets(n, e) \/ c \in Targets(n, p))
    <3>1. \A e \in Spare(n) : /\ MergePq(e, p) \in Spare(n) /\ MergePq(e, p).line = e.line
         /\ \A c \in Cache : Lower(c) = n =>
              (c \in Targets(n, MergePq(e, p)) <=> c \in Targets(n, e) \/ c \in Targets(n, p))
      BY MergePqAsks
    <3>. QED BY <3>1
  <2>. DEFINE r == AddPq(n, p)
  <2>3. /\ r \in [DOMAIN q -> T]
        /\ \A i \in DOMAIN q : r[i] = IF q[i].line = p.line THEN f[q[i]] ELSE q[i]
    <3>1. \A i \in DOMAIN q : q[i] \in T /\ f[q[i]] \in T
      BY ElementOfSeq, LenProperties, <2>2
    <3>. HIDE DEF f
    <3>. QED BY <2>1, <3>1
  <2>4. q \in Seq(T) /\ Distinct(q) /\ p \in T /\ Queued(q, p.line)
    BY <1>2
  <2>. HIDE DEF f, r, T, q
  <2>5. /\ r \in Seq(T) /\ Distinct(r)
        /\ \A c \in Cache : Lower(c) = n => \A x :
             Asks(r, c, x) <=> Asks(q, c, x) \/ (x = p.line /\ c \in Targets(n, p))
    <3>1. Joins(T, f, n, p)
      BY <2>2 DEF Joins
    <3>2. Replaced(T, r, q, f, p)
      BY <2>3 DEF Replaced
    <3>. QED BY <2>4, <3>1, <3>2, MergedAsks
  <2>. QED BY <1>2, <2>5 DEF r, T, q, Added
<1>3. CASE ~Immediate(n, p.line) /\ ~Queued(q, p.line) /\ Len(q) < PqSize[n]
  <2>1. AddPq(n, p) = Append(q, p)
    BY <1>3 DEF AddPq, Enqueue
  <2>2. /\ Append(q, p) \in Seq(Spare(n)) /\ Distinct(Append(q, p))
        /\ \A c, x : Asks(Append(q, p), c, x)
                       <=> Asks(q, c, x) \/ (x = p.line /\ c \in Targets(Lower(c), p))
    BY <1>3, AppendAsks
  <2>. QED BY <1>3, <2>1, <2>2 DEF Added
<1>4. CASE ~Immediate(n, p.line) /\ ~Queued(q, p.line) /\ ~(Len(q) < PqSize[n])
  BY <1>4 DEF AddPq, Enqueue, Added
<1>. QED BY <1>1, <1>2, <1>3, <1>4

\* The entries e and g differ in the returned flag only.
SameRequest(e, g) == g.type = e.type /\ g.fill = e.fill /\ g.dest = e.dest /\ g.kind = e.kind

\* return_data answers the pending misses of its targets and changes nothing else.
LEMMA ReturnDataFacts ==
  ASSUME NEW m \in [Cache -> MshrFile], NEW targets, NEW y \in Line
  PROVE  /\ ReturnData(m, targets, y) \in [Cache -> MshrFile]
         /\ \A c \in Cache, x \in Line :
              LET g == ReturnData(m, targets, y)[c][x]
              IN /\ g = None <=> m[c][x] = None
                 /\ g # None => SameRequest(m[c][x], g)
                 /\ Pend(ReturnData(m, targets, y), c, x)
                      <=> Pend(m, c, x) /\ ~(c \in targets /\ x = y)
<1>. DEFINE r == ReturnData(m, targets, y)
<1>1. r \in [Cache -> MshrFile]
  BY ReturnDataType
<1>2. ASSUME NEW c \in Cache, NEW x \in Line
      PROVE  /\ r[c][x] = None <=> m[c][x] = None
             /\ r[c][x] # None => SameRequest(m[c][x], r[c][x])
             /\ Pend(r, c, x) <=> Pend(m, c, x) /\ ~(c \in targets /\ x = y)
  <2>1. m[c] \in [Line -> Entry \cup {None}]
    BY DEF MshrFile
  <2>2. CASE ~(c \in targets /\ x = y /\ m[c][x] # None)
    <3>1. r[c][x] = m[c][x]
      BY <2>1, <2>2 DEF ReturnData
    <3>. QED BY <2>2, <3>1 DEF SameRequest, Pend
  <2>3. CASE c \in targets /\ x = y /\ m[c][x] # None
    <3>1. m[c][x] \in Entry
      BY <2>1, <2>3
    <3>2. r[c][x] = [m[c][x] EXCEPT !.returned = TRUE]
      BY <2>1, <2>3 DEF ReturnData
    <3>3. r[c][x] \in Entry /\ SameRequest(m[c][x], r[c][x]) /\ r[c][x].returned
      BY <3>1, <3>2 DEF Entry, SameRequest
    <3>. QED BY <2>3, <3>3, NoneAssumption DEF Pend
  <2>. QED BY <2>2, <2>3
<1>. QED BY <1>1, <1>2

\* Such entries ask for the same answers.
LEMMA SameTargets ==
  ASSUME NEW e, NEW g, SameRequest(e, g)
  PROVE  (\A n : Targets(n, g) = Targets(n, e)) /\ (Plain(e) <=> Plain(g))
BY DEF SameRequest, Targets, Flags, Plain

\* The MSHRs hold the same answers before and after return_data.
LEMMA HeldAfterReturn ==
  ASSUME NEW m \in [Cache -> MshrFile], NEW targets, NEW y \in Line, NEW c \in Cache, NEW x \in Line
  PROVE  Held(ReturnData(m, targets, y), c, x) <=> Held(m, c, x)
<1>. DEFINE r == ReturnData(m, targets, y)
            n == Lower(c)
<1>1. CASE n \in Cache
  <2>1. /\ r[n][x] = None <=> m[n][x] = None
        /\ r[n][x] # None => SameRequest(m[n][x], r[n][x])
    BY <1>1, ReturnDataFacts
  <2>. QED BY <1>1, <2>1, SameTargets DEF Held
<1>2. CASE n \notin Cache
  BY <1>2 DEF Held
<1>. QED BY <1>1, <1>2

\* A new miss that goes down is answered at once or not at all.
WentDown(m, r, d, p) ==
  /\ r \in [Cache -> MshrFile]
  /\ \A c \in Cache, x \in Line :
       /\ r[c][x] = None <=> m[c][x] = None
       /\ r[c][x] # None => SameRequest(m[c][x], r[c][x])
       /\ Held(r, c, x) <=> Held(m, c, x)
       /\ (c = d /\ x = p.line /\ Immediate(Lower(d), x)) \/ (Pend(r, c, x) <=> Pend(m, c, x))
       /\ c = d /\ x = p.line /\ Immediate(Lower(d), x) /\ d \in Targets(Lower(d), p)
            => ~Pend(r, c, x)

\* The step down returns at most the entry that went down.
LEMMA ForwardedFacts ==
  ASSUME NEW m \in [Cache -> MshrFile], NEW d \in Cache, NEW p \in Sent(d)
  PROVE  WentDown(m, Forwarded(m, d, p), d, p)
<1>1. p \in Packet /\ p.line \in Line
  BY AskedArePackets DEF Packet
<1>2. CASE ~Immediate(Lower(d), p.line)
  <2>1. Forwarded(m, d, p) = m
    BY <1>2 DEF Forwarded
  <2>. QED BY <1>2, <2>1 DEF SameRequest, WentDown
<1>3. CASE Immediate(Lower(d), p.line)
  <2>1. PICK targets : /\ Forwarded(m, d, p) = ReturnData(m, targets, p.line)
                       /\ targets = {d} \/ targets = Targets(Lower(d), p)
    BY <1>3 DEF Forwarded
  <2>2. \A c \in Cache : c \in targets => c = d
    BY <2>1, AsksForItself
  <2>3. d \in Targets(Lower(d), p) => d \in targets
    BY <2>1
  <2>. QED BY <1>1, <1>3, <2>1, <2>2, <2>3, ReturnDataFacts, HeldAfterReturn DEF WentDown
<1>. QED BY <1>2, <1>3

\* The head of the queue of d left q, which is t now: the answers it owes were
\* asked for there.
Popped(q, t, d, S) ==
  /\ Head(q[d]) \in S /\ t[d] \in Seq(S) /\ Distinct(t[d]) /\ t \in [Node -> Seq(Packet)]
  /\ \A n \in Node : n # d => t[n] = q[n]
  /\ \A c \in Cache : \A x :
       /\ Asks(t[Lower(c)], c, x)
            <=> Asks(q[Lower(c)], c, x) /\ ~(Lower(c) = d /\ x = Head(q[d]).line)
       /\ Lower(c) = d /\ x = Head(q[d]).line
            => (Asks(q[Lower(c)], c, x) <=> c \in Targets(d, Head(q[d])))

\* return_data(y) went to the targets of e above d: the MSHRs were m, and are r.
Returned(m, r, d, e, y) ==
  /\ r \in [Cache -> MshrFile] /\ MissEntries(r)
  /\ \A c \in Cache, x \in Line :
       /\ Held(r, c, x) <=> Held(m, c, x)
       /\ Pend(r, c, x)
            <=> Pend(m, c, x) /\ ~(Lower(c) = d /\ c \in Targets(d, e) /\ x = y)

\* The entry of y in the MSHRs of d became v.
SetTo(m, r, d, y, v) ==
  /\ r \in [Cache -> MshrFile] /\ MissEntries(r)
  /\ \A c \in Cache, x \in Line :
       /\ Held(r, c, x) <=> IF Lower(c) = d /\ x = y THEN v # None /\ c \in Targets(d, v)
                            ELSE Held(m, c, x)
       /\ Pend(r, c, x) <=> IF c = d /\ x = y THEN v # None /\ ~v.returned
                            ELSE Pend(m, c, x)

\* The head of a queue leaves it, with the answers it asked for and no other.
LEMMA PopAsks ==
  ASSUME NEW q \in [Node -> Seq(Packet)], NEW d \in Cache, NEW S,
         q[d] \in Seq(S), Distinct(q[d]), q[d] # << >>
  PROVE  Popped(q, Pop(q, d), d, S)
<1>1. d \in Node /\ \A c \in Cache : Lower(c) \in Node
  BY TreeFacts
<1>2. q[d] \in Seq(Packet)
  BY <1>1
<1>3. Tail(q[d]) \in Seq(Packet)
  BY <1>2, HeadTailProperties
<1>4. /\ Head(q[d]) \in S /\ Tail(q[d]) \in Seq(S) /\ Distinct(Tail(q[d]))
      /\ \A c, x : Asks(Tail(q[d]), c, x) <=> Asks(q[d], c, x) /\ x # Head(q[d]).line
      /\ \A c : Asks(q[d], c, Head(q[d]).line) <=> c \in Targets(Lower(c), Head(q[d]))
  BY HeadAsks
<1>5. Pop(q, d) \in [Node -> Seq(Packet)] /\ Pop(q, d)[d] = Tail(q[d])
      /\ \A n \in Node : n # d => Pop(q, d)[n] = q[n]
  BY <1>1, <1>3 DEF Pop
<1>6. ASSUME NEW c \in Cache, NEW x
      PROVE  /\ Asks(Pop(q, d)[Lower(c)], c, x)
                  <=> Asks(q[Lower(c)], c, x) /\ ~(Lower(c) = d /\ x = Head(q[d]).line)
             /\ Lower(c) = d /\ x = Head(q[d]).line
                  => (Asks(q[Lower(c)], c, x) <=> c \in Targets(d, Head(q[d])))
  <2>1. CASE Lower(c) = d
    BY <1>4, <1>5, <2>1
  <2>2. CASE Lower(c) # d
    <3>1. Pop(q, d)[Lower(c)] = q[Lower(c)]
      BY <1>1, <1>5, <2>2
    <3>. QED BY <2>2, <3>1
  <2>. QED BY <2>1, <2>2
<1>. QED BY <1>4, <1>5, <1>6 DEF Popped

\* return_data to the caches above d.
LEMMA ReturnAsks ==
  ASSUME NEW m \in [Cache -> MshrFile], MissEntries(m), NEW d \in Node,
         NEW e \in Packet \cup Entry, NEW y \in Line, NEW r, r = ReturnData(m, Targets(d, e), y)
  PROVE  Returned(m, r, d, e, y)
<1>1. /\ r \in [Cache -> MshrFile]
      /\ \A c \in Cache, x \in Line :
           /\ r[c][x] = None <=> m[c][x] = None
           /\ r[c][x] # None => SameRequest(m[c][x], r[c][x])
           /\ Pend(r, c, x) <=> Pend(m, c, x) /\ ~(c \in Targets(d, e) /\ x = y)
  BY ReturnDataFacts
<1>2. MissEntries(r)
  BY <1>1, SameTargets DEF MissEntries
<1>3. \A c \in Cache : c \in Targets(d, e) => Lower(c) = d
  BY TargetsAreUpper
<1>4. \A c \in Cache, x \in Line : Held(r, c, x) <=> Held(m, c, x)
  BY HeldAfterReturn
<1>. QED BY <1>1, <1>2, <1>3, <1>4 DEF Returned

\* One entry of an MSHR file changes.
LEMMA EntrySet ==
  ASSUME NEW m \in [Cache -> MshrFile], MissEntries(m), NEW d \in Cache, NEW y \in Line,
         NEW v \in Entry \cup {None}, v # None => Plain(v),
         NEW r, r = [m EXCEPT ![d][y] = v]
  PROVE  SetTo(m, r, d, y, v)
<1>1. \A c \in Cache : m[c] \in [Line -> Entry \cup {None}]
  BY DEF MshrFile
<1>2. r = [c \in Cache |-> IF c = d THEN [m[c] EXCEPT ![y] = v] ELSE m[c]]
  OBVIOUS
<1>3. \A c \in Cache, x \in Line : r[c][x] = IF c = d /\ x = y THEN v ELSE m[c][x]
  BY <1>1, <1>2
<1>4. \A c \in Cache : r[c] \in [Line -> Entry \cup {None}]
  BY <1>1, <1>2
<1>5. r \in [Cache -> MshrFile]
  BY <1>2, <1>4 DEF MshrFile
<1>6. MissEntries(r)
  BY <1>3 DEF MissEntries
<1>7. ASSUME NEW c \in Cache, NEW x \in Line
      PROVE  Held(r, c, x) <=> IF Lower(c) = d /\ x = y THEN v # None /\ c \in Targets(d, v)
                               ELSE Held(m, c, x)
  BY <1>3 DEF Held
<1>8. ASSUME NEW c \in Cache, NEW x \in Line
      PROVE  Pend(r, c, x) <=> IF c = d /\ x = y THEN v # None /\ ~v.returned
                               ELSE Pend(m, c, x)
  BY <1>3 DEF Pend
<1>. QED BY <1>5, <1>6, <1>7, <1>8 DEF SetTo

\* What the type invariant says of the variables at hand.
LEMMA Types ==
  ASSUME TypeOK
  PROVE  /\ rq \in [Node -> Seq(Packet)] /\ pq \in [Node -> Seq(Packet)]
         /\ wq \in [Node -> Seq(Packet)] /\ mshr \in [Cache -> MshrFile]
         /\ \A c \in Cache, x \in Line : mshr[c][x] \in Entry \cup {None}
BY MshrIsFile DEF TypeOK, QueuesOK, MshrFile

-----------------------------------------------------------------------------
(* Every handler keeps the answers in step with the misses.                *)

\* A read hit answers the caches above, and leaves the queue.
LEMMA ReadHitAnswers ==
  ASSUME TypeOK, Answers, NEW d \in Cache, ReadHit(d)
  PROVE  Answers'
<1>1. /\ QueuedPackets(rq, wq, pq) /\ MissEntries(mshr) /\ OwedOnce(rq, pq, mshr)
      /\ rq[d] \in Seq(Asked(d)) /\ Distinct(rq[d]) /\ rq[d] # << >> /\ d \in Node
  BY TreeFacts DEF Answers, QueuedPackets, ReadHit
<1>2. /\ rq' = Pop(rq, d) /\ wq' = wq /\ pq' = pq
      /\ mshr' = ReturnData(mshr, Targets(d, Head(rq[d])), Head(rq[d]).line)
  BY DEF ReadHit
<1>3. Popped(rq, rq', d, Asked(d))
  BY <1>1, <1>2, Types, PopAsks
<1>4. PICK p \in Asked(d), y \in Line : p = Head(rq[d]) /\ y = p.line
  BY <1>3, AskedArePackets DEF Popped, Packet
<1>5. Returned(mshr, mshr', d, p, y)
  <2>1. p \in Packet \cup Entry
    BY AskedArePackets
  <2>. QED BY <1>1, <1>2, <1>4, <2>1, Types, ReturnAsks
<1>6. QueuedPackets(rq', wq', pq')
  BY <1>1, <1>2, <1>3 DEF QueuedPackets, Popped
<1>7. ASSUME NEW c \in Cache, NEW x \in Line PROVE OwedAt(rq', pq', mshr', c, x)
  <2>1. OwedAt(rq, pq, mshr, c, x)
    BY <1>1 DEF OwedOnce
  <2>. QED BY <1>2, <1>3, <1>4, <1>5, <2>1 DEF OwedAt, Once, Popped, Returned
<1>. QED BY <1>5, <1>6, <1>7 DEF Answers, OwedOnce, Returned

\* So does a prefetch hit.
LEMMA PrefetchHitAnswers ==
  ASSUME TypeOK, Answers, NEW d \in Cache, PrefetchHit(d)
  PROVE  Answers'
<1>1. /\ QueuedPackets(rq, wq, pq) /\ MissEntries(mshr) /\ OwedOnce(rq, pq, mshr)
      /\ pq[d] \in Seq(Spare(d)) /\ Distinct(pq[d]) /\ pq[d] # << >> /\ d \in Node
  BY TreeFacts DEF Answers, QueuedPackets, PrefetchHit
<1>2. /\ pq' = Pop(pq, d) /\ wq' = wq /\ rq' = rq
      /\ mshr' = ReturnData(mshr, Targets(d, Head(pq[d])), Head(pq[d]).line)
  BY DEF PrefetchHit
<1>3. Popped(pq, pq', d, Spare(d))
  BY <1>1, <1>2, Types, PopAsks
<1>4. PICK p \in Spare(d), y \in Line : p = Head(pq[d]) /\ y = p.line
  BY <1>3, AskedArePackets DEF Popped, Packet
<1>5. Returned(mshr, mshr', d, p, y)
  <2>1. p \in Packet \cup Entry
    BY AskedArePackets
  <2>. QED BY <1>1, <1>2, <1>4, <2>1, Types, ReturnAsks
<1>6. QueuedPackets(rq', wq', pq')
  <2>1. pq'["DRAM"] = pq["DRAM"]
    BY <1>3, CacheAssumption DEF Popped, Node, Memory
  <2>. QED BY <1>1, <1>2, <1>3, <2>1 DEF QueuedPackets, Popped
<1>7. ASSUME NEW c \in Cache, NEW x \in Line PROVE OwedAt(rq', pq', mshr', c, x)
  <2>1. OwedAt(rq, pq, mshr, c, x)
    BY <1>1 DEF OwedOnce
  <2>. QED BY <1>2, <1>3, <1>4, <1>5, <2>1 DEF OwedAt, Once, Popped, Returned
<1>. QED BY <1>5, <1>6, <1>7 DEF Answers, OwedOnce, Returned

\* A step that asks nothing, answers nothing and only writes what may be written.
QuietFiles(m, r) ==
  MissEntries(r) /\ \A c \in Cache, x \in Line : /\ Held(r, c, x) <=> Held(m, c, x)
                                                 /\ Pend(r, c, x) <=> Pend(m, c, x)
Writes(w) == \A n \in Cache : w[n] \in Seq(Written(n))

\* A step that leaves the read and prefetch queues alone and, in the MSHRs, whom
\* the entries answer and which wait, keeps the invariant.
LEMMA QuietAnswers ==
  ASSUME Answers, rq' = rq, pq' = pq, QuietFiles(mshr, mshr'), Writes(wq')
  PROVE  Answers'
<1>1. QueuedPackets(rq, wq, pq) /\ OwedOnce(rq, pq, mshr)
  BY DEF Answers
<1>2. QueuedPackets(rq', wq', pq')
  BY <1>1 DEF QueuedPackets, Writes
<1>3. ASSUME NEW c \in Cache, NEW x \in Line PROVE OwedAt(rq', pq', mshr', c, x)
  BY <1>1 DEF OwedOnce, OwedAt, Once, QuietFiles
<1>. QED BY <1>2, <1>3 DEF Answers, OwedOnce, QuietFiles

\* The MSHRs themselves are such.
LEMMA SameFiles ==
  ASSUME Answers, mshr' = mshr
  PROVE  QuietFiles(mshr, mshr') /\ Writes(wq)
BY DEF QuietFiles, Answers, Writes, QueuedPackets

\* A writeback is for the level it is sent to: nobody asks for an answer.
LEMMA EvictWrites ==
  ASSUME TypeOK, NEW q \in [Node -> Seq(Packet)], Writes(q), NEW d \in Cache, NEW w \in Ways(d)
  PROVE  Writes(Evict(q, d, w))
<1>1. CASE ~MustEvict(d, w)
  BY <1>1 DEF Evict
<1>2. CASE MustEvict(d, w)
  <2>1. block[d][w] \in Block
    BY <1>2, NoneAssumption DEF TypeOK, BlocksOK, MustEvict
  <2>2. PICK x \in Line : x = block[d][w].line
    BY <2>1 DEF Block
  <2>. DEFINE p == Writeback(d, x)
              n == Lower(d)
  <2>3. p \in Packet /\ n \in Node
    BY WritebackType, TreeFacts
  <2>4. n \in Cache => Targets(n, p) = {} /\ n # "L1D"
    <3>1. p.fill = 2 * Level(d)
      BY DEF Writeback
    <3>2. n \in Cache => Level(n) = 2 * Level(d) /\ n # "L1D"
      BY CacheAssumption DEF Level, Lower
    <3>3. 2 * Level(d) \in Int
      BY TreeFacts
    <3>. HIDE DEF p, n
    <3>. QED BY <3>1, <3>2, <3>3 DEF Targets
  <2>5. n \in Cache => p \in Written(n)
    <3>. HIDE DEF p, n
    <3>. QED BY <2>3, <2>4 DEF Written
  <2>. HIDE DEF p, n
  <2>6. Evict(q, d, w) = AddWq(q, n, p)
    BY <1>2, <2>2 DEF Evict, p, n
  <2>7. ASSUME NEW c \in Cache PROVE AddWq(q, n, p)[c] \in Seq(Written(c))
    <3>1. c \in Node /\ q[c] \in Seq(Written(c))
      BY TreeFacts DEF Writes
    <3>2. AddWq(q, n, p)[c] = q[c] \/ (c = n /\ AddWq(q, n, p)[c] = Append(q[c], p))
      BY <2>3, <3>1 DEF AddWq
    <3>3. CASE c = n
      <4>1. p \in Written(c)
        BY <2>5, <3>3
      <4>2. Append(q[c], p) \in Seq(Written(c))
        BY <3>1, <4>1, AppendProperties
      <4>. QED BY <3>1, <3>2, <4>2
    <3>4. CASE c # n
      BY <3>1, <3>2, <3>4
    <3>. QED BY <3>3, <3>4
  <2>. QED BY <2>6, <2>7 DEF Writes
<1>. QED BY <1>1, <1>2

\* The write queue without its head.
LEMMA PopWrites ==
  ASSUME NEW q \in [Node -> Seq(Packet)], Writes(q), NEW d \in Cache, q[d] # << >>
  PROVE  /\ Pop(q, d) \in [Node -> Seq(Packet)] /\ Writes(Pop(q, d)) /\ Head(q[d]) \in Written(d)
<1>1. d \in Node /\ q[d] \in Seq(Packet) /\ q[d] \in Seq(Written(d))
  BY TreeFacts DEF Writes
<1>2. Tail(q[d]) \in Seq(Packet) /\ Tail(q[d]) \in Seq(Written(d)) /\ Head(q[d]) \in Written(d)
  BY <1>1, HeadTailProperties
<1>3. Pop(q, d) \in [Node -> Seq(Packet)]
      /\ \A c \in Cache : Pop(q, d)[c] = IF c = d THEN Tail(q[d]) ELSE q[c]
  BY <1>1, <1>2, TreeFacts DEF Pop
<1>. QED BY <1>2, <1>3 DEF Writes

\* A fill answers the caches above that its miss was joined by; nobody else is
\* owed anything for it.
LEMMA HandleFillAnswers ==
  ASSUME TypeOK, Answers, NEW d \in Cache, NEW y \in Line, HandleFill(d, y)
  PROVE  Answers'
<1>1. /\ QueuedPackets(rq, wq, pq) /\ MissEntries(mshr) /\ OwedOnce(rq, pq, mshr)
      /\ d \in Node /\ Writes(wq)
  BY TreeFacts DEF Answers, QueuedPackets, Writes
<1>2. PICK e, m : /\ e \in Entry /\ e = mshr[d][y] /\ e # None /\ e.returned
                 /\ m = [mshr EXCEPT ![d][y] = None]
  <2>1. mshr[d][y] \in Entry \cup {None}
    BY Types
  <2>2. mshr[d][y] # None /\ mshr[d][y].returned
    BY DEF HandleFill, Busy
  <2>. QED BY <2>1, <2>2
<1>3. /\ rq' = rq /\ pq' = pq /\ mshr' = ReturnData(m, Targets(d, e), y)
  BY <1>2 DEF HandleFill
<1>4. SetTo(mshr, m, d, y, None)
  BY <1>1, <1>2, Types, EntrySet
<1>5. Returned(m, mshr', d, e, y)
  <2>1. m \in [Cache -> MshrFile] /\ MissEntries(m)
    BY <1>4 DEF SetTo
  <2>. QED BY <1>1, <1>2, <1>3, <2>1, ReturnAsks
<1>6. Writes(wq')
  <2>1. wq' = wq \/ \E w \in Ways(d) : wq' = Evict(wq, d, w)
    BY VictimsAreWays DEF HandleFill
  <2>. QED BY <1>1, <2>1, Types, EvictWrites
<1>7. QueuedPackets(rq', wq', pq')
  BY <1>1, <1>3, <1>6 DEF QueuedPackets, Writes
<1>8. ASSUME NEW c \in Cache, NEW x \in Line PROVE OwedAt(rq', pq', mshr', c, x)
  <2>1. OwedAt(rq, pq, mshr, c, x)
    BY <1>1 DEF OwedOnce
  <2>2. Lower(c) = d /\ x = y => (Held(mshr, c, x) <=> c \in Targets(d, e))
    BY <1>2 DEF Held
  <2>3. c = d /\ x = y => ~Pend(mshr, c, x)
    BY <1>2 DEF Pend
  <2>4. Lower(c) # c
    BY PassedDown
  <2>5. Held(mshr', c, x) <=> Held(mshr, c, x) /\ ~(Lower(c) = d /\ x = y)
    BY <1>4, <1>5 DEF SetTo, Returned
  <2>6. Pend(mshr', c, x)
          <=> Pend(mshr, c, x) /\ ~(Lower(c) = d /\ c \in Targets(d, e) /\ x = y)
    BY <1>4, <1>5, <2>3 DEF SetTo, Returned
  <2>. QED BY <1>3, <2>1, <2>2, <2>5, <2>6 DEF OwedAt, Once
<1>. QED BY <1>5, <1>7, <1>8 DEF Answers, OwedOnce, Returned

\* Nobody asks the write queues for answers.
LEMMA WrittenAnswers ==
  ASSUME TypeOK, Answers, NEW d \in Cache, NEW p \in Written(d),
         mshr' = ReturnData(mshr, Targets(d, p), p.line)
  PROVE  QuietFiles(mshr, mshr')
<1>1. p \in Packet /\ Targets(d, p) = {} /\ p.line \in Line /\ MissEntries(mshr) /\ d \in Node
  BY TreeFacts DEF Written, Packet, Answers
<1>2. Returned(mshr, mshr', d, p, p.line)
  BY <1>1, Types, ReturnAsks
<1>. QED BY <1>1, <1>2 DEF Returned, QuietFiles

\* A writeback or a store that hits, a writeback that misses.
LEMMA WriteAnswers ==
  ASSUME TypeOK, Answers, NEW d \in Cache, WriteHit(d) \/ WriteFill(d)
  PROVE  Answers'
<1>1. wq[d] # << >> /\ rq' = rq /\ pq' = pq
      /\ mshr' = ReturnData(mshr, Targets(d, Head(wq[d])), Head(wq[d]).line)
  BY DEF WriteHit, WriteFill
<1>2. Writes(wq)
  BY DEF Answers, QueuedPackets, Writes
<1>3. Pop(wq, d) \in [Node -> Seq(Packet)] /\ Writes(Pop(wq, d)) /\ Head(wq[d]) \in Written(d)
  BY <1>1, <1>2, Types, PopWrites
<1>4. wq' = Pop(wq, d) \/ \E w \in Ways(d) : wq' = Evict(Pop(wq, d), d, w)
  BY VictimsAreWays DEF WriteHit, WriteFill
<1>5. Writes(wq')
  BY <1>3, <1>4, EvictWrites
<1>. QED BY <1>1, <1>3, <1>5, WrittenAnswers, QuietAnswers

\* A read that the DRAM has done: it was the only request for the line.
LEMMA DramReadAnswers ==
  ASSUME TypeOK, Answers, NEW y \in Line, DramRead(y)
  PROVE  Answers'
<1>1. /\ QueuedPackets(rq, wq, pq) /\ MissEntries(mshr) /\ OwedOnce(rq, pq, mshr)
      /\ "DRAM" \in Node /\ "DRAM" \notin Cache
  BY CacheAssumption DEF Answers, Node, Memory
<1>2. /\ rq["DRAM"] \in Seq(Asked("DRAM")) /\ Distinct(rq["DRAM"]) /\ pq["DRAM"] = << >>
  BY <1>1 DEF QueuedPackets
<1>3. PICK i \in DOMAIN rq["DRAM"] : rq["DRAM"][i].line = y /\ rq' = [rq EXCEPT !["DRAM"] = Without(@, i)]
  BY DEF DramRead
<1>4. wq' = wq /\ pq' = pq /\ mshr' = ReturnData(mshr, {"LLC"}, y)
  BY DEF DramRead
<1>5. /\ Without(rq["DRAM"], i) \in Seq(Asked("DRAM")) /\ Distinct(Without(rq["DRAM"], i))
      /\ \A c, x : Asks(Without(rq["DRAM"], i), c, x)
                     <=> Asks(rq["DRAM"], c, x) /\ x # rq["DRAM"][i].line
  BY <1>2, WithoutAsks
<1>6. rq'["DRAM"] = Without(rq["DRAM"], i) /\ \A n \in Node : n # "DRAM" => rq'[n] = rq[n]
  BY <1>1, <1>3, Types
<1>7. \A c \in Cache, x \in Line :
        /\ mshr'[c][x] = None <=> mshr[c][x] = None
        /\ mshr'[c][x] # None => SameRequest(mshr[c][x], mshr'[c][x])
        /\ Pend(mshr', c, x) <=> Pend(mshr, c, x) /\ ~(c \in {"LLC"} /\ x = y)
        /\ Held(mshr', c, x) <=> Held(mshr, c, x)
  <2>1. PICK t : t = {"LLC"}
    OBVIOUS
  <2>2. mshr' = ReturnData(mshr, t, y) /\ mshr \in [Cache -> MshrFile]
    BY <1>4, <2>1, Types
  <2>3. \A c \in Cache, x \in Line :
        /\ mshr'[c][x] = None <=> mshr[c][x] = None
        /\ mshr'[c][x] # None => SameRequest(mshr[c][x], mshr'[c][x])
        /\ Pend(mshr', c, x) <=> Pend(mshr, c, x) /\ ~(c \in t /\ x = y)
    BY <2>2, ReturnDataFacts
  <2>4. \A c \in Cache, x \in Line : Held(mshr', c, x) <=> Held(mshr, c, x)
    BY <2>2, HeldAfterReturn
  <2>. QED BY <2>1, <2>3, <2>4
<1>8. MissEntries(mshr')
  BY <1>1, <1>7, SameTargets DEF MissEntries
<1>9. QueuedPackets(rq', wq', pq')
  BY <1>1, <1>4, <1>5, <1>6 DEF QueuedPackets
<1>10. ASSUME NEW c \in Cache, NEW x \in Line PROVE OwedAt(rq', pq', mshr', c, x)
  <2>1. OwedAt(rq, pq, mshr, c, x) /\ Lower(c) \in Node
    BY <1>1, TreeFacts DEF OwedOnce
  <2>2. (Lower(c) = "DRAM") <=> (c = "LLC")
    BY TreeCases
  <2>3. CASE c = "LLC" /\ x = y
    <3>1. Lower(c) = "DRAM"
      BY <2>2, <2>3
    <3>2. ~Asks(rq'[Lower(c)], c, x)
      BY <1>3, <1>5, <1>6, <2>3, <3>1
    <3>3. ~Asks(pq'[Lower(c)], c, x)
      BY <1>2, <1>4, <3>1 DEF Asks
    <3>4. ~Held(mshr', c, x)
      BY <1>1, <3>1 DEF Held
    <3>5. ~Pend(mshr', c, x)
      BY <1>7, <2>3
    <3>. QED BY <3>2, <3>3, <3>4, <3>5 DEF OwedAt, Once
  <2>4. CASE ~(c = "LLC" /\ x = y)
    <3>1. Asks(rq'[Lower(c)], c, x) <=> Asks(rq[Lower(c)], c, x)
      <4>1. CASE Lower(c) = "DRAM"
        BY <1>3, <1>5, <1>6, <2>2, <2>4, <4>1
      <4>2. CASE Lower(c) # "DRAM"
        BY <1>6, <2>1, <4>2
      <4>. QED BY <4>1, <4>2
    <3>2. Pend(mshr', c, x) <=> Pend(mshr, c, x)
      BY <1>7, <2>4
    <3>3. Held(mshr', c, x) <=> Held(mshr, c, x)
      BY <1>7
    <3>. QED BY <1>4, <2>1, <3>1, <3>2, <3>3 DEF OwedAt, Once
  <2>. QED BY <2>3, <2>4
<1>. QED BY <1>8, <1>9, <1>10 DEF Answers, OwedOnce

\* A write of the DRAM, a page swapped out, the end of the warm-up.
LEMMA OtherAnswers ==
  ASSUME TypeOK, Answers,
         (\E x \in Line : DramWrite(x) \/ SwapOut(x)) \/ FinishWarmup \/ UNCHANGED vars
  PROVE  Answers'
<1>1. rq' = rq /\ pq' = pq /\ mshr' = mshr
  BY DEF DramWrite, SwapOut, FinishWarmup, vars
<1>2. wq' = wq \/ \E s : wq' = [wq EXCEPT !["DRAM"] = s]
  BY DEF DramWrite, SwapOut, FinishWarmup, vars
<1>3. QuietFiles(mshr, mshr') /\ Writes(wq)
  BY <1>1, SameFiles
<1>4. \A c \in Cache : wq'[c] = wq[c]
  <2>1. \A c \in Cache : c \in Node /\ c # "DRAM"
    BY CacheAssumption DEF Node
  <2>. QED BY <1>2, <2>1, Types
<1>5. Writes(wq')
  BY <1>3, <1>4 DEF Writes
<1>. QED BY <1>1, <1>3, <1>5, QuietAnswers

-----------------------------------------------------------------------------
(* The core and the prefetchers.                                           *)

\* Nobody is above a first level.
LEMMA FirstLevelAnswers ==
  ASSUME Answers, NEW d \in FirstLevel, mshr' = mshr, wq' = wq,
         \A n \in Node : n # d => rq'[n] = rq[n] /\ pq'[n] = pq[n],
         rq'[d] \in Seq(Asked(d)), Distinct(rq'[d]), pq'[d] \in Seq(Spare(d)), Distinct(pq'[d])
  PROVE  Answers'
<1>1. QueuedPackets(rq, wq, pq) /\ MissEntries(mshr) /\ OwedOnce(rq, pq, mshr)
  BY DEF Answers
<1>2. d \in Cache /\ "DRAM" \in Node /\ d # "DRAM"
  BY CacheAssumption DEF FirstLevel, Node, Memory
<1>3. QueuedPackets(rq', wq', pq')
  BY <1>1, <1>2 DEF QueuedPackets
<1>4. ASSUME NEW c \in Cache, NEW x \in Line PROVE OwedAt(rq', pq', mshr', c, x)
  <2>1. Lower(c) \in Node /\ Lower(c) # d
    BY LowerIsNotFirst, TreeFacts
  <2>. QED BY <1>1, <2>1 DEF OwedOnce, OwedAt
<1>. QED BY <1>1, <1>3, <1>4 DEF Answers, OwedOnce

\* What the core asks for, its own first level is to be filled with.
LEMMA CoreAsks ==
  /\ \A x \in Line, d \in {"L1I", "ITLB"} :
       /\ Fetch(x) \in Asked(d) /\ (~Ample => CodePrefetch(x) \in Asked(d))
       /\ Fetch(x).line = x /\ CodePrefetch(x).line = x
  /\ \A x \in Line, t \in {"LOAD", "RFO"}, d \in {"L1D", "DTLB"} :
       Data(x, t) \in Asked(d) /\ Data(x, t).line = x
<1>1. ASSUME NEW x \in Line, NEW d \in {"L1I", "ITLB"}
      PROVE  /\ Fetch(x) \in Asked(d) /\ (~Ample => CodePrefetch(x) \in Asked(d))
             /\ Fetch(x).line = x /\ CodePrefetch(x).line = x
  <2>1. Fetch(x) \in Packet /\ CodePrefetch(x) \in Packet /\ Own(d) = "I"
    BY CorePackets DEF Own
  <2>2. /\ Fetch(x).fill = 1 /\ Fetch(x).dest = {"I"} /\ Fetch(x).kind = {"I"}
        /\ Fetch(x).type # "PREFETCH"
        /\ CodePrefetch(x).fill = 1 /\ CodePrefetch(x).dest = {"I"}
        /\ CodePrefetch(x).kind = {"I"} /\ Fetch(x).line = x /\ CodePrefetch(x).line = x
    BY DEF Fetch, CodePrefetch
  <2>. QED BY <2>1, <2>2 DEF Asked, Sent, Plain
<1>2. ASSUME NEW x \in Line, NEW t \in {"LOAD", "RFO"}, NEW d \in {"L1D", "DTLB"}
      PROVE  Data(x, t) \in Asked(d) /\ Data(x, t).line = x
  <2>1. Data(x, t) \in Packet /\ Own(d) = "D"
    BY CorePackets DEF Own, ReqType
  <2>2. /\ Data(x, t).fill = 1 /\ Data(x, t).dest = {"D"} /\ Data(x, t).kind = {"D"}
        /\ Data(x, t).line = x /\ Data(x, t).type # "PREFETCH"
    BY DEF Data
  <2>. QED BY <2>1, <2>2 DEF Asked, Sent, Plain
<1>. QED BY <1>1, <1>2

\* A request of the core at a first level asks for no answer of a cache.
LEMMA RequestAnswers ==
  ASSUME TypeOK, Answers, NEW d \in FirstLevel, NEW p \in Asked(d), Request(d, p)
  PROVE  Answers'
<1>1. /\ rq[d] \in Seq(Asked(d)) /\ Distinct(rq[d]) /\ pq[d] \in Seq(Spare(d)) /\ Distinct(pq[d])
      /\ d \in Node
  BY TreeFacts DEF FirstLevel, Answers, QueuedPackets
<1>2. /\ rq' = [rq EXCEPT ![d] = IF Queued(rq[d], p.line) THEN rq[d] ELSE Append(rq[d], p)]
      /\ wq' = wq /\ pq' = pq /\ mshr' = mshr
  BY DEF Request
<1>3. /\ rq'[d] = IF Queued(rq[d], p.line) THEN rq[d] ELSE Append(rq[d], p)
      /\ \A n \in Node : n # d => rq'[n] = rq[n]
  BY <1>1, <1>2, Types
<1>4. ~Queued(rq[d], p.line) => Append(rq[d], p) \in Seq(Asked(d)) /\ Distinct(Append(rq[d], p))
  BY <1>1, AppendAsks
<1>5. rq'[d] \in Seq(Asked(d)) /\ Distinct(rq'[d])
  BY <1>1, <1>3, <1>4
<1>. QED BY <1>1, <1>2, <1>3, <1>5, FirstLevelAnswers

\* The requests of the core,
LEMMA CoreReadAnswers ==
  ASSUME TypeOK, Answers, CoreRead
  PROVE  Answers'
<1>1. \A c \in {"L1I", "L1D", "ITLB", "DTLB"} : c \in Cache => c \in FirstLevel
  BY DEF FirstLevel, Level
<1>2. PICK d \in FirstLevel : \E p \in Asked(d) : Request(d, p)
  <2>1. \A c, p : Request(c, p) => c \in Cache
    BY DEF Request
  <2>2. CASE \E x \in CodeLine : \E c \in {"L1I", "ITLB"} : Request(c, Fetch(x))
    BY <1>1, <2>1, <2>2, CoreAsks, LineAssumption
  <2>3. CASE \E x \in DataLine : Request("L1D", Data(x, "LOAD"))
    BY <1>1, <2>1, <2>3, CoreAsks, LineAssumption
  <2>4. CASE \E x \in DataLine, t \in {"LOAD", "RFO"} : Request("DTLB", Data(x, t))
    BY <1>1, <2>1, <2>4, CoreAsks, LineAssumption
  <2>. QED BY <2>2, <2>3, <2>4 DEF CoreRead
<1>. QED BY <1>2, RequestAnswers

\* its stores,
LEMMA CoreStoreAnswers ==
  ASSUME TypeOK, Answers, CoreStore
  PROVE  Answers'
<1>1. /\ rq' = rq /\ pq' = pq /\ mshr' = mshr /\ "L1D" \in Cache
      /\ QuietFiles(mshr, mshr') /\ Writes(wq)
  BY SameFiles DEF CoreStore
<1>2. PICK y \in DataLine : wq' = [wq EXCEPT !["L1D"] = Append(@, Data(y, "RFO"))]
  BY DEF CoreStore
<1>3. PICK p : p = Data(y, "RFO")
  OBVIOUS
<1>4. p \in Written("L1D")
  <2>1. p \in Asked("L1D")
    BY <1>3, CoreAsks, LineAssumption
  <2>2. p \in Packet /\ p.fill = 1 /\ Level("L1D") = 1
    BY <1>1, <2>1, AskedArePackets DEF Asked, Level
  <2>3. Targets("L1D", p) = {}
    BY <2>2 DEF Targets
  <2>. QED BY <2>1, <2>2, <2>3 DEF Written
<1>5. ASSUME NEW c \in Cache PROVE wq'[c] \in Seq(Written(c))
  <2>1. c \in Node /\ wq[c] \in Seq(Written(c))
    BY <1>1, TreeFacts DEF Writes
  <2>2. CASE c = "L1D"
    <3>1. wq'[c] = Append(wq[c], p)
      BY <1>2, <1>3, <2>1, <2>2, Types
    <3>. QED BY <1>4, <2>1, <2>2, <3>1, AppendProperties
  <2>3. CASE c # "L1D"
    BY <1>2, <2>1, <2>3, Types
  <2>. QED BY <2>2, <2>3
<1>. QED BY <1>1, <1>5, QuietAnswers DEF Writes

\* A prefetch asks for no answer of its own cache: it is to fill this level or
\* one below.
LEMMA PrefetchesAsk ==
  ASSUME PrefetchesBelow, NEW d \in Cache, NEW p \in Prefetches(d)
  PROVE  p \in Spare(d) /\ Targets(d, p) = {}
<1>1. CASE d = "L1I"
  <2>1. PICK x \in Line : p = CodePrefetch(x)
    BY <1>1, LineAssumption DEF Prefetches
  <2>2. ~Ample /\ p \in Asked(d)
    <3>1. ~Ample
      BY <1>1 DEF Prefetches, Ample, NoneFillsFirst
    <3>. QED BY <1>1, <2>1, <3>1, CoreAsks
  <2>3. p \in Sent(d) /\ p.fill = 1 /\ Level(d) = 1
    BY <1>1, <2>1, <2>2, AskedArePackets DEF CodePrefetch, Fetch, Level
  <2>. QED BY <2>2, <2>3 DEF Targets, Spare
<1>2. CASE d # "L1I"
  <2>1. PICK x \in Line, f \in PfFill[d] : p = LinePrefetch(x, f)
    BY <1>2, LineAssumption DEF Prefetches
  <2>2. f \in {1, 2, 4} /\ Level(d) <= f /\ d # "ITLB" /\ Level(d) \in {1, 2, 4}
    BY <2>1, SizeAssumption, TreeFacts DEF PrefetchesBelow
  <2>3. /\ p \in Packet /\ p.fill = f /\ p.dest = (IF f = 1 THEN {"D"} ELSE {})
        /\ p.kind = {"D"} /\ (Ample => f # 1)
    BY <2>1, <2>2, CorePackets DEF LinePrefetch, Ample, NoneFillsFirst
  <2>4. Targets(d, p) = {}
    BY <2>2, <2>3 DEF Targets
  <2>5. Own(d) = "D"
    BY <1>2, <2>2 DEF Own
  <2>. QED BY <2>2, <2>3, <2>4, <2>5 DEF Spare, Sent, Plain
<1>. QED BY <1>1, <1>2

\* and a prefetch, which asks for no answer above the cache it starts from.
LEMMA IssuePrefetchAnswers ==
  ASSUME TypeOK, Answers, PrefetchesBelow, NEW d \in Cache, IssuePrefetch(d)
  PROVE  Answers'
<1>1. /\ QueuedPackets(rq, wq, pq) /\ MissEntries(mshr) /\ OwedOnce(rq, pq, mshr)
      /\ d \in Node /\ d # "DRAM" /\ "DRAM" \in Node
  BY TreeFacts, CacheAssumption DEF Answers, Node, Memory
<1>2. /\ pq[d] \in Seq(Spare(d)) /\ Distinct(pq[d])
  BY <1>1 DEF QueuedPackets
<1>3. PICK p \in Prefetches(d) : pq' = [pq EXCEPT ![d] = AddPq(d, p)]
  BY DEF IssuePrefetch
<1>4. rq' = rq /\ wq' = wq /\ mshr' = mshr
  BY DEF IssuePrefetch
<1>5. p \in Spare(d) /\ Targets(d, p) = {}
  BY PrefetchesAsk
<1>6. Added(pq[d], AddPq(d, p), d, p, Spare(d), PqSize[d])
  BY <1>1, <1>2, <1>5, AddPqAsks
<1>7. pq'[d] = AddPq(d, p) /\ \A n \in Node : n # d => pq'[n] = pq[n]
  BY <1>1, <1>3, Types
<1>8. QueuedPackets(rq', wq', pq')
  BY <1>1, <1>4, <1>6, <1>7 DEF QueuedPackets, Added
<1>9. ASSUME NEW c \in Cache, NEW x \in Line PROVE OwedAt(rq', pq', mshr', c, x)
  <2>1. OwedAt(rq, pq, mshr, c, x) /\ Lower(c) \in Node
    BY <1>1, TreeFacts DEF OwedOnce
  <2>2. Asks(pq'[Lower(c)], c, x) <=> Asks(pq[Lower(c)], c, x)
    <3>1. CASE Lower(c) = d
      BY <1>5, <1>6, <1>7, <3>1 DEF Added
    <3>2. CASE Lower(c) # d
      BY <1>7, <2>1, <3>2
    <3>. QED BY <3>1, <3>2
  <2>. QED BY <1>4, <2>1, <2>2 DEF OwedAt, Once
<1>. QED BY <1>1, <1>4, <1>8, <1>9 DEF Answers, OwedOnce

\* Every packet in a read queue is a miss above.
LEMMA ReadsAreMisses ==
  ASSUME Answers, NEW n \in Cache, Level(n) # 1, NEW i \in DOMAIN rq[n]
  PROVE  \E s \in Side : /\ Upper(n, s) \in Cache /\ Lower(Upper(n, s)) = n
                        /\ rq[n][i].line \in Line /\ Busy(Upper(n, s), rq[n][i].line)
<1>1. /\ rq[n] \in Seq(Asked(n)) /\ n \in Node /\ OwedOnce(rq, pq, mshr)
  BY TreeFacts DEF Answers, QueuedPackets
<1>2. PICK e \in Asked(n) : e = rq[n][i]
  BY <1>1, ElementOfSeq, LenProperties
<1>3. e \in Packet /\ Plain(e) /\ e.fill = 1 /\ e.line \in Line
  BY <1>2 DEF Asked, Sent, Packet
<1>4. /\ e.dest # {} /\ e.kind # {} /\ e.dest \subseteq Side /\ e.kind \subseteq Side
  BY <1>3 DEF Plain, Packet
<1>5. PICK s \in Side : s \in Flags(n, e)
  BY <1>4 DEF Flags
<1>6. Upper(n, s) \in Cache /\ Lower(Upper(n, s)) = n /\ 1 < Level(n)
  BY CacheAssumption DEF Upper, Lower, Level, Side
<1>7. Upper(n, s) \in Targets(n, e)
  BY <1>3, <1>5, <1>6 DEF Targets
<1>8. Asks(rq[n], Upper(n, s), e.line)
  BY <1>2, <1>6, <1>7 DEF Asks
<1>9. OwedAt(rq, pq, mshr, Upper(n, s), e.line)
  BY <1>1, <1>3, <1>6 DEF OwedOnce
<1>10. Pend(mshr, Upper(n, s), e.line)
  BY <1>6, <1>8, <1>9 DEF OwedAt, Once
<1>. QED BY <1>2, <1>3, <1>6, <1>10 DEF Pend, Busy

\* A cache with a free MSHR finds room in the read queue below.
LEMMA RoomBelow ==
  ASSUME TypeOK, Answers, Ample, NEW d \in Cache, Lower(d) \in Cache, Occupancy(d) < MshrSize[d]
  PROVE  Len(rq[Lower(d)]) < RqSize[Lower(d)]
<1>. DEFINE n == Lower(d)
            Misses(c) == {x \in Line : Busy(c, x)}
            I == Misses(Upper(n, "I"))
            D == Misses(Upper(n, "D"))
<1>1. /\ n \in Node /\ rq[n] \in Seq(Asked(n)) /\ Distinct(rq[n]) /\ Level(n) # 1
  BY PassedDown DEF Answers, QueuedPackets
<1>2. Len(rq[n]) \in Nat /\ DOMAIN rq[n] = 1 .. Len(rq[n])
  BY <1>1, LenProperties
<1>3. ASSUME NEW S \in SUBSET Line, \A i \in DOMAIN rq[n] : rq[n][i].line \in S
      PROVE  Len(rq[n]) <= Cardinality(S)
  <2>. DEFINE f == [i \in 1 .. Len(rq[n]) |-> rq[n][i].line]
  <2>1. IsFiniteSet(S)
    BY LineAssumption, FS_Subset
  <2>2. IsFiniteSet(1 .. Len(rq[n])) /\ Cardinality(1 .. Len(rq[n])) = Len(rq[n])
    BY <1>2, FS_Interval
  <2>3. f \in [1 .. Len(rq[n]) -> S] /\ \A i, j \in 1 .. Len(rq[n]) : f[i] = f[j] => i = j
    BY <1>1, <1>2, <1>3 DEF Distinct
  <2>4. f \in Injection(1 .. Len(rq[n]), S)
    BY <2>3 DEF Injection, IsInjective
  <2>5. \E h : h \in Injection(1 .. Len(rq[n]), S)
    BY <2>4
  <2>. QED BY <2>1, <2>2, <2>5, FS_Injection
<1>4. \A c \in Cache : /\ IsFiniteSet(Misses(c)) /\ Cardinality(Misses(c)) \in Nat
                      /\ Cardinality(Misses(c)) <= MshrSize[c] /\ MshrSize[c] \in Nat
  <2>1. ASSUME NEW c \in Cache
        PROVE  /\ IsFiniteSet(Misses(c)) /\ Cardinality(Misses(c)) \in Nat
               /\ Cardinality(Misses(c)) <= MshrSize[c] /\ MshrSize[c] \in Nat
    <3>1. IsFiniteSet(Misses(c))
      BY LineAssumption, FS_Subset
    <3>2. Cardinality(Misses(c)) <= MshrSize[c]
      BY DEF TypeOK, MshrOK, Busy
    <3>. QED BY <3>1, <3>2, FS_CardinalityType, SizeFacts
  <2>. QED BY <2>1
<1>5. Cardinality(Misses(d)) < MshrSize[d] /\ RqSize[n] \in Nat
  BY <1>1, SizeFacts DEF Occupancy
<1>6. CASE Level(n) = 4
  <2>1. n = "LLC" /\ d = "L2C" /\ \A s : Upper(n, s) = d
    BY <1>6, TreeCases
  <2>2. \A i \in DOMAIN rq[n] : rq[n][i].line \in Misses(d)
    BY <1>1, <2>1, ReadsAreMisses
  <2>3. Len(rq[n]) <= Cardinality(Misses(d))
    BY <1>3, <2>2
  <2>4. MshrSize[d] <= RqSize[n]
    BY <1>6, <2>1 DEF Ample, RoomForMisses
  <2>. QED BY <1>2, <1>4, <1>5, <2>3, <2>4
<1>7. CASE Level(n) = 2
  <2>1. /\ Upper(n, "I") \in Cache /\ Upper(n, "D") \in Cache
        /\ d = Upper(n, "I") \/ d = Upper(n, "D")
    BY <1>7, CacheAssumption DEF Upper, Lower, Level
  <2>2. \A i \in DOMAIN rq[n] : rq[n][i].line \in I \cup D
    <3>1. ASSUME NEW i \in DOMAIN rq[n] PROVE rq[n][i].line \in I \cup D
      <4>1. PICK s \in Side : rq[n][i].line \in Line /\ Busy(Upper(n, s), rq[n][i].line)
        BY <1>1, ReadsAreMisses
      <4>. QED BY <4>1 DEF Side
    <3>. QED BY <3>1
  <2>3. Len(rq[n]) <= Cardinality(I \cup D)
    BY <1>3, <2>2
  <2>4. /\ IsFiniteSet(I) /\ Cardinality(I) \in Nat /\ Cardinality(I) <= MshrSize[Upper(n, "I")]
        /\ IsFiniteSet(D) /\ Cardinality(D) \in Nat /\ Cardinality(D) <= MshrSize[Upper(n, "D")]
        /\ MshrSize[Upper(n, "I")] \in Nat /\ MshrSize[Upper(n, "D")] \in Nat
    BY <1>4, <2>1
  <2>5. \/ Cardinality(I) < MshrSize[Upper(n, "I")]
        \/ Cardinality(D) < MshrSize[Upper(n, "D")]
    BY <1>5, <2>1
  <2>. HIDE DEF I, D, n
  <2>6. Cardinality(I \cup D) \in Nat /\ Cardinality(I \cup D) <= Cardinality(I) + Cardinality(D)
    <3>1. IsFiniteSet(I \cup D) /\ IsFiniteSet(I \cap D)
          /\ Cardinality(I \cup D) = Cardinality(I) + Cardinality(D) - Cardinality(I \cap D)
      BY <2>4, FS_Union, FS_Intersection
    <3>2. Cardinality(I \cup D) \in Nat /\ Cardinality(I \cap D) \in Nat
      BY <3>1, FS_CardinalityType
    <3>. QED BY <2>4, <3>1, <3>2
  <2>7. MshrSize[Upper(n, "I")] + MshrSize[Upper(n, "D")] <= RqSize[n]
    BY <1>7 DEF Ample, RoomForMisses, n
  <2>8. Len(rq[n]) < RqSize[n]
    BY <1>2, <1>5, <2>3, <2>4, <2>5, <2>6, <2>7
  <2>. QED BY <2>8 DEF n
<1>8. Level(n) \in {2, 4}
  BY <1>1, TreeFacts
<1>. QED BY <1>6, <1>7, <1>8

\* A new miss p of d took an entry and went down: the MSHRs were m, and are r.
Missed(m, r, d, p) ==
  /\ MissEntries(r)
  /\ \A c \in Cache, x \in Line :
       /\ Held(r, c, x) <=> IF Lower(c) = d /\ x = p.line THEN c \in Targets(d, p)
                            ELSE Held(m, c, x)
       /\ ~(c = d /\ x = p.line) => (Pend(r, c, x) <=> Pend(m, c, x))
  /\ Pend(r, d, p.line) <=> ~Immediate(Lower(d), p.line) /\ d \in Targets(Lower(d), p)

\* The MSHRs after a read or a store missed.
LEMMA MissFiles ==
  ASSUME NEW m \in [Cache -> MshrFile], MissEntries(m), NEW d \in Cache, NEW p \in Sent(d),
         p.fill <= Level(d), NEW k, k = [m EXCEPT ![d][p.line] = NewEntry(p)], NEW r, r = Forwarded(k, d, p)
  PROVE  Missed(m, r, d, p)
<1>1. p \in Packet /\ Plain(p) /\ p.line \in Line
  BY AskedArePackets DEF Sent, Packet
<1>2. PICK v : v = NewEntry(p)
  OBVIOUS
<1>3. v \in Entry /\ v # None /\ Plain(v) /\ ~v.returned /\ \A n : Targets(n, v) = Targets(n, p)
  BY <1>1, <1>2, NewEntryType, EntryAsks, NoneAssumption DEF NewEntry
<1>4. SetTo(m, k, d, p.line, v)
  BY <1>1, <1>2, <1>3, EntrySet
<1>5. k \in [Cache -> MshrFile] /\ MissEntries(k)
  BY <1>4 DEF SetTo
<1>6. WentDown(k, r, d, p)
  BY <1>5, ForwardedFacts
<1>7. MissEntries(r)
  BY <1>5, <1>6, SameTargets DEF MissEntries, WentDown
<1>8. ASSUME NEW c \in Cache, NEW x \in Line
      PROVE  /\ Held(r, c, x) <=> IF Lower(c) = d /\ x = p.line THEN c \in Targets(d, p)
                                  ELSE Held(m, c, x)
             /\ ~(c = d /\ x = p.line) => (Pend(r, c, x) <=> Pend(m, c, x))
  BY <1>3, <1>4, <1>6 DEF SetTo, WentDown
<1>9. d \in Targets(Lower(d), p)
  <2>1. Answered(d, p)
    <3>1. CASE Level(d) = 1
      <4>1. p.fill = 1 /\ p.dest # {} /\ p.dest \subseteq {Own(d)}
        BY <1>1, <3>1 DEF Sent, Plain
      <4>. QED BY <3>1, <4>1 DEF Answered
    <3>2. CASE Level(d) # 1
      <4>1. d = "L2C" => Level(d) = 2
        BY DEF Level
      <4>. QED BY <3>2, <4>1 DEF Answered
    <3>. QED BY <3>1, <3>2
  <2>. QED BY <1>1, <2>1, TargetOf
<1>10. Pend(r, d, p.line) <=> ~Immediate(Lower(d), p.line)
  BY <1>1, <1>3, <1>4, <1>6, <1>9 DEF SetTo, WentDown
<1>. QED BY <1>7, <1>8, <1>9, <1>10 DEF Missed

\* The queue below was q and is t after d asked there for p.
AskedBelow(q, t, d, p) ==
  /\ \A c \in Cache : Lower(c) = Lower(d) => \A x :
       IF c = d /\ x = p.line
       THEN Asks(t, c, x)
              => Asks(q, c, x) \/ (~Immediate(Lower(d), p.line) /\ d \in Targets(Lower(d), p))
       ELSE Asks(t, c, x) <=> Asks(q, c, x)
  /\ Ample /\ ~Immediate(Lower(d), p.line) /\ d \in Targets(Lower(d), p) => Asks(t, d, p.line)

\* The queue below after a miss went down, if it had room.
LEMMA AddedBelow ==
  ASSUME NEW d \in Cache, NEW p \in Sent(d), NEW q, NEW t, NEW S, NEW size,
         Added(q, t, Lower(d), p, S, size),
         Ample /\ ~Immediate(Lower(d), p.line) => Len(q) < size
  PROVE  t \in Seq(S) /\ Distinct(t) /\ AskedBelow(q, t, d, p)
<1>1. \A c \in Cache : c \in Targets(Lower(d), p) => c = d
  BY AsksForItself, AskedArePackets, PassedDown, TargetsAreUpper
<1>. QED BY <1>1 DEF Added, AskedBelow

\* Nothing is owed to a cache for a line it does not wait for.
LEMMA NothingOwed ==
  ASSUME NEW d \in Cache, NEW y \in Line, OwedOnce(rq, pq, mshr), ~Busy(d, y)
  PROVE  /\ ~Asks(rq[Lower(d)], d, y) /\ ~Asks(pq[Lower(d)], d, y) /\ ~Held(mshr, d, y)
         /\ \A c \in Cache : Lower(c) = d => ~Held(mshr, c, y)
<1>1. OwedAt(rq, pq, mshr, d, y) /\ ~Pend(mshr, d, y)
  BY DEF OwedOnce, Busy, Pend
<1>2. \A c \in Cache : Lower(c) = d => ~Held(mshr, c, y)
  BY DEF Held, Busy
<1>. QED BY <1>1, <1>2 DEF OwedAt, Once

\* The level below has room for a new miss.
LEMMA MissHasRoom ==
  ASSUME TypeOK, Answers, NEW d \in Cache, Occupancy(d) < MshrSize[d],
         d = "LLC" => Len(rq["DRAM"]) < RqSize["DRAM"], NEW x
  PROVE  Ample /\ ~Immediate(Lower(d), x) => Len(rq[Lower(d)]) < RqSize[Lower(d)]
<1>1. CASE Lower(d) \in Cache
  BY <1>1, RoomBelow
<1>2. CASE Lower(d) = "DRAM"
  BY <1>2, TreeCases
<1>3. CASE Lower(d) = "WALK"
  BY <1>3 DEF Immediate
<1>. QED BY <1>1, <1>2, <1>3, TreeFacts DEF Node, Memory

\* A read that misses: the answers asked for wait in the new entry, which asks
\* once in the level below.
LEMMA ReadMissAnswers ==
  ASSUME TypeOK, Answers, NEW d \in Cache, ReadMiss(d)
  PROVE  Answers'
<1>1. /\ QueuedPackets(rq, wq, pq) /\ MissEntries(mshr) /\ OwedOnce(rq, pq, mshr)
      /\ rq[d] \in Seq(Asked(d)) /\ Distinct(rq[d]) /\ rq[d] # << >> /\ d \in Node
  BY TreeFacts DEF Answers, QueuedPackets, ReadMiss
<1>2. PICK t, n : t = Pop(rq, d) /\ n = Lower(d)
  OBVIOUS
<1>3. Popped(rq, t, d, Asked(d))
  BY <1>1, <1>2, Types, PopAsks
<1>4. PICK p \in Asked(d), y \in Line : p = Head(rq[d]) /\ y = p.line
  BY <1>3, AskedArePackets DEF Popped, Packet
<1>5. PICK k : k = [mshr EXCEPT ![d][p.line] = NewEntry(p)]
  OBVIOUS
<1>6. /\ rq' = [t EXCEPT ![n] = AddRq(n, p)] /\ wq' = wq /\ pq' = pq
      /\ ~Busy(d, y) /\ mshr' = Forwarded(k, d, p)
  BY <1>2, <1>4, <1>5 DEF ReadMiss, NewMiss
<1>7. /\ p \in Sent(d) /\ n \in Node /\ Level(n) # 1 /\ n # d /\ p \in Asked(n)
      /\ p.fill <= Level(d)
  BY <1>2, AskedArePackets, PassedDown, TreeFacts DEF Asked
<1>8. Missed(mshr, mshr', d, p)
  BY <1>1, <1>5, <1>6, <1>7, Types, MissFiles
<1>9. rq[n] \in Seq(Asked(n)) /\ Distinct(rq[n])
  BY <1>1, <1>7 DEF QueuedPackets
<1>10. Added(rq[n], AddRq(n, p), n, p, Asked(n), RqSize[n])
  BY <1>7, <1>9, AddRqAsks
<1>11. /\ AddRq(n, p) \in Seq(Asked(n)) /\ Distinct(AddRq(n, p))
       /\ AskedBelow(rq[n], AddRq(n, p), d, p)
  <2>1. Occupancy(d) < MshrSize[d] /\ (d = "LLC" => Len(rq["DRAM"]) < RqSize["DRAM"])
    BY DEF ReadMiss, NewMiss
  <2>2. Ample /\ ~Immediate(Lower(d), p.line) => Len(rq[n]) < RqSize[n]
    BY <1>2, <2>1, MissHasRoom
  <2>. QED BY <1>2, <1>7, <1>10, <2>2, AddedBelow
<1>12. rq'[n] = AddRq(n, p) /\ \A l \in Node : l # n => rq'[l] = t[l]
  BY <1>3, <1>6, <1>7 DEF Popped
<1>13. QueuedPackets(rq', wq', pq')
  BY <1>1, <1>3, <1>6, <1>11, <1>12 DEF QueuedPackets, Popped
<1>14. ASSUME NEW c \in Cache, NEW x \in Line PROVE OwedAt(rq', pq', mshr', c, x)
  <2>1. OwedAt(rq, pq, mshr, c, x) /\ Lower(c) \in Node /\ Lower(c) # c
    BY <1>1, TreeFacts, PassedDown DEF OwedOnce
  <2>2. CASE Lower(c) = d /\ x = y
    <3>1. ~Asks(rq'[Lower(c)], c, x) /\ (Asks(rq[Lower(c)], c, x) <=> c \in Targets(d, p))
      BY <1>3, <1>4, <1>7, <1>12, <2>1, <2>2 DEF Popped
    <3>2. (Held(mshr', c, x) <=> c \in Targets(d, p)) /\ (Pend(mshr', c, x) <=> Pend(mshr, c, x))
      BY <1>4, <1>8, <2>1, <2>2 DEF Missed
    <3>3. ~Held(mshr, c, x)
      BY <1>6, <2>2 DEF Held, Busy
    <3>. QED BY <1>6, <2>1, <3>1, <3>2, <3>3 DEF OwedAt, Once
  <2>3. CASE c = d /\ x = y
    <3>1. ~Asks(rq[n], c, x) /\ ~Asks(pq[n], c, x) /\ ~Held(mshr, c, x)
      BY <1>1, <1>2, <1>6, <2>3, NothingOwed
    <3>2. Asks(rq'[n], c, x) => ~Immediate(n, y) /\ d \in Targets(n, p)
      BY <1>2, <1>4, <1>11, <1>12, <2>3, <3>1 DEF AskedBelow
    <3>3. /\ ~Held(mshr', c, x)
          /\ Pend(mshr', c, x) <=> ~Immediate(n, y) /\ d \in Targets(n, p)
          /\ Ample /\ ~Immediate(n, y) /\ d \in Targets(n, p) => Asks(rq'[n], c, x)
      BY <1>2, <1>4, <1>7, <1>8, <1>11, <1>12, <2>3, <3>1 DEF Missed, AskedBelow
    <3>. QED BY <1>2, <1>6, <2>3, <3>1, <3>2, <3>3 DEF OwedAt, Once
  <2>4. CASE ~(Lower(c) = d /\ x = y) /\ ~(c = d /\ x = y)
    <3>1. (Held(mshr', c, x) <=> Held(mshr, c, x)) /\ (Pend(mshr', c, x) <=> Pend(mshr, c, x))
      BY <1>4, <1>8, <2>4 DEF Missed
    <3>2. Asks(rq'[Lower(c)], c, x) <=> Asks(rq[Lower(c)], c, x)
      <4>1. CASE Lower(c) = n
        BY <1>2, <1>4, <1>11, <1>12, <2>4, <4>1 DEF AskedBelow
      <4>2. CASE Lower(c) # n
        BY <1>3, <1>4, <1>12, <2>1, <2>4, <4>2 DEF Popped
      <4>. QED BY <4>1, <4>2
    <3>. QED BY <1>6, <2>1, <3>1, <3>2 DEF OwedAt, Once
  <2>. QED BY <2>2, <2>3, <2>4
<1>. QED BY <1>8, <1>13, <1>14 DEF Answers, OwedOnce, Missed

\* A store that misses.
LEMMA RfoMissAnswers ==
  ASSUME TypeOK, Answers, RfoMiss
  PROVE  Answers'
<1>. DEFINE d == "L1D"
            n == "L2C"
<1>1. /\ QueuedPackets(rq, wq, pq) /\ MissEntries(mshr) /\ OwedOnce(rq, pq, mshr)
      /\ d \in Cache /\ wq[d] # << >> /\ Writes(wq) /\ Lower(d) = n
  BY DEF Answers, QueuedPackets, RfoMiss, Writes, Lower
<1>2. Writes(Pop(wq, d)) /\ Head(wq[d]) \in Written(d)
  BY <1>1, Types, PopWrites
<1>3. PICK p \in Asked(d), y \in Line : p = Head(wq[d]) /\ y = p.line /\ Targets(d, p) = {}
  BY <1>2 DEF Written, Packet
<1>4. PICK k : k = [mshr EXCEPT ![d][p.line] = NewEntry(p)]
  OBVIOUS
<1>5. /\ rq' = [rq EXCEPT ![n] = AddRq(n, p)] /\ wq' = Pop(wq, d) /\ pq' = pq
      /\ ~Busy(d, y) /\ mshr' = Forwarded(k, d, p)
  BY <1>3, <1>4 DEF RfoMiss, NewMiss
<1>6. /\ p \in Sent(d) /\ n \in Node /\ Level(n) # 1 /\ p \in Asked(n) /\ p.fill <= Level(d)
  BY <1>1, AskedArePackets, PassedDown, TreeFacts DEF Asked
<1>7. Missed(mshr, mshr', d, p)
  BY <1>1, <1>4, <1>5, <1>6, Types, MissFiles
<1>8. rq[n] \in Seq(Asked(n)) /\ Distinct(rq[n])
  BY <1>1, <1>6 DEF QueuedPackets
<1>9. Added(rq[n], AddRq(n, p), n, p, Asked(n), RqSize[n])
  BY <1>6, <1>8, AddRqAsks
<1>10. /\ AddRq(n, p) \in Seq(Asked(n)) /\ Distinct(AddRq(n, p))
       /\ AskedBelow(rq[n], AddRq(n, p), d, p)
  <2>1. Occupancy(d) < MshrSize[d]
    BY DEF RfoMiss, NewMiss
  <2>2. Ample /\ ~Immediate(Lower(d), p.line) => Len(rq[n]) < RqSize[n]
    BY <1>1, <2>1, MissHasRoom
  <2>. QED BY <1>1, <1>6, <1>9, <2>2, AddedBelow
<1>11. rq'[n] = AddRq(n, p) /\ \A l \in Node : l # n => rq'[l] = rq[l]
  BY <1>5, <1>6, Types
<1>12. QueuedPackets(rq', wq', pq')
  BY <1>1, <1>2, <1>5, <1>10, <1>11 DEF QueuedPackets, Writes
<1>13. ASSUME NEW c \in Cache, NEW x \in Line PROVE OwedAt(rq', pq', mshr', c, x)
  <2>1. OwedAt(rq, pq, mshr, c, x) /\ Lower(c) \in Node /\ Lower(c) # d
    BY <1>1, TreeFacts, PassedDown DEF OwedOnce, Level
  <2>2. CASE c = d /\ x = y
    <3>1. ~Asks(rq[n], c, x) /\ ~Asks(pq[n], c, x) /\ ~Held(mshr, c, x)
      BY <1>1, <1>5, <2>2, NothingOwed
    <3>2. Asks(rq'[n], c, x) => ~Immediate(n, y) /\ d \in Targets(n, p)
      BY <1>1, <1>3, <1>10, <1>11, <2>2, <3>1 DEF AskedBelow
    <3>3. /\ ~Held(mshr', c, x)
          /\ Pend(mshr', c, x) <=> ~Immediate(n, y) /\ d \in Targets(n, p)
          /\ Ample /\ ~Immediate(n, y) /\ d \in Targets(n, p) => Asks(rq'[n], c, x)
      BY <1>1, <1>3, <1>7, <1>10, <1>11, <2>1, <2>2, <3>1 DEF Missed, AskedBelow
    <3>. QED BY <1>1, <1>5, <2>2, <3>1, <3>2, <3>3 DEF OwedAt, Once
  <2>3. CASE ~(c = d /\ x = y)
    <3>1. (Held(mshr', c, x) <=> Held(mshr, c, x)) /\ (Pend(mshr', c, x) <=> Pend(mshr, c, x))
      BY <1>3, <1>7, <2>1, <2>3 DEF Missed
    <3>2. Asks(rq'[Lower(c)], c, x) <=> Asks(rq[Lower(c)], c, x)
      <4>1. CASE Lower(c) = n
        BY <1>1, <1>3, <1>10, <1>11, <2>3, <4>1 DEF AskedBelow
      <4>2. CASE Lower(c) # n
        BY <1>11, <2>1, <4>2
      <4>. QED BY <4>1, <4>2
    <3>. QED BY <1>5, <2>1, <3>1, <3>2 DEF OwedAt, Once
  <2>. QED BY <2>2, <2>3
<1>. QED BY <1>7, <1>12, <1>13 DEF Answers, OwedOnce, Missed

\* A prefetch for the levels below takes no entry, and asks for no answer (but
\* of the walk, which answers at once).
LEMMA PassedFiles ==
  ASSUME NEW m \in [Cache -> MshrFile], MissEntries(m), NEW d \in Cache, NEW p \in Sent(d),
         m[d][p.line] = None, ~(p.fill <= Level(d)), NEW r, r = Forwarded(m, d, p)
  PROVE  Missed(m, r, d, p)
<1>1. p \in Packet /\ Plain(p) /\ p.line \in Line
  BY AskedArePackets DEF Sent, Packet
<1>2. WentDown(m, r, d, p)
  BY ForwardedFacts
<1>3. MissEntries(r)
  BY <1>2, SameTargets DEF MissEntries, WentDown
<1>4. Targets(d, p) = {}
  <2>1. p.fill \in {1, 2, 4, 8} /\ Level(d) \in {1, 2, 4}
    BY <1>1, TreeFacts DEF Packet
  <2>. QED BY <2>1 DEF Targets
<1>5. \A c \in Cache : Lower(c) = d => ~Held(m, c, p.line)
  BY DEF Held
<1>6. ASSUME NEW c \in Cache, NEW x \in Line
      PROVE  /\ Held(r, c, x) <=> IF Lower(c) = d /\ x = p.line THEN c \in Targets(d, p)
                                  ELSE Held(m, c, x)
             /\ ~(c = d /\ x = p.line) => (Pend(r, c, x) <=> Pend(m, c, x))
  BY <1>2, <1>4, <1>5 DEF WentDown
<1>7. ~(~Immediate(Lower(d), p.line) /\ d \in Targets(Lower(d), p))
  BY AsksForItself DEF Immediate, Lower
<1>8. ~Pend(r, d, p.line)
  BY <1>1, <1>2 DEF WentDown, Pend
<1>. QED BY <1>3, <1>6, <1>7, <1>8 DEF Missed

\* What the step of a prefetch that misses does to the MSHRs.
LEMMA PrefetchMissFiles ==
  ASSUME TypeOK, MissEntries(mshr), NEW d \in Cache, NEW p \in Sent(d), ~Busy(d, p.line),
         NEW r,
         r = Forwarded(IF p.fill <= Level(d) THEN [mshr EXCEPT ![d][p.line] = NewEntry(p)]
                       ELSE mshr, d, p)
  PROVE  Missed(mshr, r, d, p)
<1>1. CASE p.fill <= Level(d)
  <2>1. PICK k : k = [mshr EXCEPT ![d][p.line] = NewEntry(p)]
    OBVIOUS
  <2>2. r = Forwarded(k, d, p)
    BY <1>1, <2>1
  <2>. QED BY <1>1, <2>1, <2>2, Types, MissFiles
<1>2. CASE ~(p.fill <= Level(d))
  <2>1. r = Forwarded(mshr, d, p) /\ mshr[d][p.line] = None
    BY <1>2 DEF Busy
  <2>. QED BY <1>2, <2>1, Types, PassedFiles
<1>. QED BY <1>1, <1>2

\* A prefetch that misses.
LEMMA PrefetchMissAnswers ==
  ASSUME TypeOK, Answers, NEW d \in Cache, PrefetchMiss(d)
  PROVE  Answers'
<1>1. /\ QueuedPackets(rq, wq, pq) /\ MissEntries(mshr) /\ OwedOnce(rq, pq, mshr)
      /\ pq[d] \in Seq(Spare(d)) /\ Distinct(pq[d]) /\ pq[d] # << >> /\ d \in Node
  BY TreeFacts DEF Answers, QueuedPackets, PrefetchMiss
<1>2. PICK t, n : t = Pop(pq, d) /\ n = Lower(d)
  OBVIOUS
<1>3. Popped(pq, t, d, Spare(d))
  BY <1>1, <1>2, Types, PopAsks
<1>4. PICK p \in Spare(d), y \in Line : p = Head(pq[d]) /\ y = p.line
  BY <1>3, AskedArePackets DEF Popped, Packet
<1>5. /\ wq' = wq /\ ~Busy(d, y)
      /\ mshr' = Forwarded(IF p.fill <= Level(d) THEN [mshr EXCEPT ![d][p.line] = NewEntry(p)]
                           ELSE mshr, d, p)
      /\ \/ d = "LLC" /\ rq' = [rq EXCEPT ![n] = AddRq(n, p)] /\ pq' = t
         \/ d # "LLC" /\ pq' = [t EXCEPT ![n] = AddPq(n, p)] /\ rq' = rq
  BY <1>2, <1>4 DEF PrefetchMiss
<1>6. n \in Node /\ Level(n) # 1 /\ n # d /\ p \in Spare(n) /\ (d = "LLC" => p \in Asked(n))
      /\ p \in Sent(d)
  BY <1>2, PassedDown, AskedArePackets
<1>7. Missed(mshr, mshr', d, p)
  BY <1>1, <1>4, <1>5, <1>6, PrefetchMissFiles
<1>8. /\ rq[n] \in Seq(Asked(n)) /\ Distinct(rq[n]) /\ pq[n] \in Seq(Spare(n)) /\ Distinct(pq[n])
  BY <1>1, <1>6 DEF QueuedPackets
<1>9. /\ \A l \in Node : l # n => rq'[l] = rq[l] /\ pq'[l] = t[l]
      /\ rq'[n] \in Seq(Asked(n)) /\ Distinct(rq'[n])
      /\ pq'[n] \in Seq(Spare(n)) /\ Distinct(pq'[n])
      /\ \/ AskedBelow(rq[n], rq'[n], d, p) /\ pq'[n] = pq[n]
         \/ AskedBelow(pq[n], pq'[n], d, p) /\ rq'[n] = rq[n]
  <2>1. CASE d = "LLC"
    <3>1. Added(rq[n], AddRq(n, p), n, p, Asked(n), RqSize[n])
      BY <1>6, <1>8, <2>1, AddRqAsks
    <3>2. /\ AddRq(n, p) \in Seq(Asked(n)) /\ Distinct(AddRq(n, p))
          /\ AskedBelow(rq[n], AddRq(n, p), d, p)
      <4>1. Len(rq[n]) < RqSize[n]
        BY <1>2, <2>1 DEF PrefetchMiss
      <4>. QED BY <1>2, <1>6, <3>1, <4>1, AddedBelow
    <3>3. rq' = [rq EXCEPT ![n] = AddRq(n, p)] /\ pq' = t
      BY <1>5, <2>1
    <3>4. rq'[n] = AddRq(n, p) /\ \A l \in Node : l # n => rq'[l] = rq[l]
      BY <1>6, <3>3, Types
    <3>5. pq'[n] = pq[n]
      BY <1>3, <1>6, <3>3 DEF Popped
    <3>. QED BY <1>8, <3>2, <3>3, <3>4, <3>5
  <2>2. CASE d # "LLC"
    <3>1. Added(pq[n], AddPq(n, p), n, p, Spare(n), PqSize[n])
      BY <1>6, <1>8, AddPqAsks
    <3>2. /\ AddPq(n, p) \in Seq(Spare(n)) /\ Distinct(AddPq(n, p))
          /\ AskedBelow(pq[n], AddPq(n, p), d, p)
      <4>1. Len(pq[n]) < PqSize[n]
        BY <1>2, <2>2 DEF PrefetchMiss
      <4>. QED BY <1>2, <1>6, <3>1, <4>1, AddedBelow
    <3>3. pq' = [t EXCEPT ![n] = AddPq(n, p)] /\ rq' = rq
      BY <1>5, <2>2
    <3>4. pq'[n] = AddPq(n, p) /\ \A l \in Node : l # n => pq'[l] = t[l]
      BY <1>3, <1>6, <3>3 DEF Popped
    <3>. QED BY <1>8, <3>2, <3>3, <3>4
  <2>. QED BY <2>1, <2>2
<1>10. QueuedPackets(rq', wq', pq')
  <2>1. pq'["DRAM"] = << >>
    <3>1. "DRAM" \in Node /\ d # "DRAM" /\ pq["DRAM"] = << >> /\ t["DRAM"] = << >>
      BY <1>1, <1>3, CacheAssumption DEF Node, Memory, QueuedPackets, Popped
    <3>2. CASE n # "DRAM"
      BY <1>9, <3>1, <3>2
    <3>3. CASE n = "DRAM"
      <4>1. d = "LLC"
        BY <1>2, <3>3, TreeCases
      <4>. QED BY <1>5, <3>1, <4>1
    <3>. QED BY <3>2, <3>3
  <2>2. ASSUME NEW l \in Node
        PROVE  /\ rq'[l] \in Seq(Asked(l)) /\ Distinct(rq'[l])
               /\ pq'[l] \in Seq(Spare(l)) /\ Distinct(pq'[l])
    BY <1>1, <1>3, <1>9 DEF QueuedPackets, Popped
  <2>. QED BY <1>1, <1>5, <2>1, <2>2 DEF QueuedPackets
<1>11. ASSUME NEW c \in Cache, NEW x \in Line PROVE OwedAt(rq', pq', mshr', c, x)
  <2>1. OwedAt(rq, pq, mshr, c, x) /\ Lower(c) \in Node /\ Lower(c) # c
    BY <1>1, TreeFacts, PassedDown DEF OwedOnce
  <2>2. CASE Lower(c) = d /\ x = y
    <3>1. /\ ~Asks(pq'[Lower(c)], c, x) /\ (Asks(pq[Lower(c)], c, x) <=> c \in Targets(d, p))
          /\ (Asks(rq'[Lower(c)], c, x) <=> Asks(rq[Lower(c)], c, x))
      BY <1>3, <1>4, <1>6, <1>9, <2>1, <2>2 DEF Popped
    <3>2. (Held(mshr', c, x) <=> c \in Targets(d, p)) /\ (Pend(mshr', c, x) <=> Pend(mshr, c, x))
      BY <1>4, <1>7, <2>1, <2>2 DEF Missed
    <3>3. ~Held(mshr, c, x)
      BY <1>5, <2>2 DEF Held, Busy
    <3>. QED BY <2>1, <3>1, <3>2, <3>3 DEF OwedAt, Once
  <2>3. CASE c = d /\ x = y
    <3>1. ~Asks(rq[n], c, x) /\ ~Asks(pq[n], c, x) /\ ~Held(mshr, c, x)
      BY <1>1, <1>2, <1>5, <2>3, NothingOwed
    <3>2. /\ Asks(rq'[n], c, x) \/ Asks(pq'[n], c, x) => ~Immediate(n, y) /\ d \in Targets(n, p)
          /\ ~Asks(rq'[n], c, x) \/ ~Asks(pq'[n], c, x)
      BY <1>2, <1>4, <1>9, <2>3, <3>1 DEF AskedBelow
    <3>3. /\ ~Held(mshr', c, x)
          /\ Pend(mshr', c, x) <=> ~Immediate(n, y) /\ d \in Targets(n, p)
          /\ Ample /\ ~Immediate(n, y) /\ d \in Targets(n, p)
               => Asks(rq'[n], c, x) \/ Asks(pq'[n], c, x)
      BY <1>2, <1>4, <1>6, <1>7, <1>9, <2>3, <3>1 DEF Missed, AskedBelow
    <3>. QED BY <1>2, <2>3, <3>1, <3>2, <3>3 DEF OwedAt, Once
  <2>4. CASE ~(Lower(c) = d /\ x = y) /\ ~(c = d /\ x = y)
    <3>1. (Held(mshr', c, x) <=> Held(mshr, c, x)) /\ (Pend(mshr', c, x) <=> Pend(mshr, c, x))
      BY <1>4, <1>7, <2>4 DEF Missed
    <3>2. /\ Asks(rq'[Lower(c)], c, x) <=> Asks(rq[Lower(c)], c, x)
          /\ Asks(pq'[Lower(c)], c, x) <=> Asks(pq[Lower(c)], c, x)
      <4>1. CASE Lower(c) = n
        BY <1>2, <1>4, <1>9, <2>4, <4>1 DEF AskedBelow
      <4>2. CASE Lower(c) # n
        BY <1>3, <1>4, <1>9, <2>1, <2>4, <4>2 DEF Popped
      <4>. QED BY <4>1, <4>2
    <3>. QED BY <2>1, <3>1, <3>2 DEF OwedAt, Once
  <2>. QED BY <2>2, <2>3, <2>4
<1>. QED BY <1>7, <1>10, <1>11 DEF Answers, OwedOnce, Missed

\* The request p joined its line's entry in d: the MSHRs were m, and are r.
Joined(m, r, d, p) ==
  /\ MissEntries(r)
  /\ \A c \in Cache, x \in Line :
       /\ Pend(r, c, x) <=> Pend(m, c, x)
       /\ IF Lower(c) = d /\ x = p.line
          THEN /\ Held(r, c, x) => Held(m, c, x) \/ c \in Targets(d, p)
               /\ Ample /\ (Held(m, c, x) \/ c \in Targets(d, p)) => Held(r, c, x)
          ELSE Held(r, c, x) <=> Held(m, c, x)

\* The MSHRs after a request joined an entry.
LEMMA JoinFiles ==
  ASSUME NEW m \in [Cache -> MshrFile], MissEntries(m), NEW d \in Cache, NEW p \in Packet,
         Plain(p), NEW e \in Entry, e = m[d][p.line], NEW g \in Entry, Plain(g),
         g.returned = e.returned,
         \A c \in Cache : c \in Targets(Lower(c), g)
                            => c \in Targets(Lower(c), e) \/ c \in Targets(Lower(c), p),
         \A c \in Cache : Ample /\ Lower(c) = d
            /\ (c \in Targets(Lower(c), e) \/ c \in Targets(Lower(c), p)) => c \in Targets(Lower(c), g),
         NEW r, r = [m EXCEPT ![d][p.line] = g]
  PROVE  Joined(m, r, d, p)
<1>1. p.line \in Line /\ e # None /\ g # None
  BY NoneAssumption DEF Packet
<1>2. SetTo(m, r, d, p.line, g)
  BY <1>1, EntrySet
<1>3. MissEntries(r)
  BY <1>2 DEF SetTo
<1>4. ASSUME NEW c \in Cache, NEW x \in Line PROVE Pend(r, c, x) <=> Pend(m, c, x)
  BY <1>1, <1>2 DEF SetTo, Pend
<1>5. ASSUME NEW c \in Cache, NEW x \in Line
      PROVE  IF Lower(c) = d /\ x = p.line
             THEN /\ Held(r, c, x) => Held(m, c, x) \/ c \in Targets(d, p)
                  /\ Ample /\ (Held(m, c, x) \/ c \in Targets(d, p)) => Held(r, c, x)
             ELSE Held(r, c, x) <=> Held(m, c, x)
  <2>1. Lower(c) = d /\ x = p.line => (Held(m, c, x) <=> c \in Targets(d, e))
    BY <1>1 DEF Held
  <2>2. Lower(c) = d /\ x = p.line => (Held(r, c, x) <=> c \in Targets(d, g))
    BY <1>1, <1>2 DEF SetTo
  <2>3. ~(Lower(c) = d /\ x = p.line) => (Held(r, c, x) <=> Held(m, c, x))
    BY <1>2 DEF SetTo
  <2>. QED BY <2>1, <2>2, <2>3
<1>. QED BY <1>3, <1>4, <1>5 DEF Joined

\* A read for a line in flight hands on what it asks for to the entry.
LEMMA ReadMergeAnswers ==
  ASSUME TypeOK, Answers, NEW d \in Cache, ReadMerge(d)
  PROVE  Answers'
<1>1. /\ QueuedPackets(rq, wq, pq) /\ MissEntries(mshr) /\ OwedOnce(rq, pq, mshr)
      /\ rq[d] \in Seq(Asked(d)) /\ Distinct(rq[d]) /\ rq[d] # << >> /\ d \in Node
  BY TreeFacts DEF Answers, QueuedPackets, ReadMerge
<1>2. rq' = Pop(rq, d) /\ wq' = wq /\ pq' = pq
  BY DEF ReadMerge
<1>3. Popped(rq, rq', d, Asked(d))
  BY <1>1, <1>2, Types, PopAsks
<1>4. PICK p \in Packet, y \in Line : p = Head(rq[d]) /\ y = p.line /\ Plain(p) /\ p.fill = 1
  BY <1>3 DEF Popped, Packet, Asked, Sent
<1>5. PICK e \in Entry : e = mshr[d][p.line] /\ Plain(e)
  <2>1. mshr[d][y] # None
    BY <1>4 DEF ReadMerge, Busy
  <2>2. mshr[d][y] \in Entry
    BY <2>1, Types
  <2>. QED BY <1>1, <1>4, <2>1, <2>2 DEF MissEntries
<1>6. PICK g : g = ReadJoin(e, p)
  OBVIOUS
<1>7. /\ g \in Entry /\ Plain(g) /\ g.returned = e.returned
      /\ \A c \in Cache : c \in Targets(Lower(c), g)
                            => c \in Targets(Lower(c), e) \/ c \in Targets(Lower(c), p)
      /\ \A c \in Cache : Ample /\ Lower(c) = d
            /\ (c \in Targets(Lower(c), e) \/ c \in Targets(Lower(c), p)) => c \in Targets(Lower(c), g)
  <2>1. g = ReadJoin(e, p) \/ g = RfoJoin(e, p)
    BY <1>6
  <2>2. Plain(p) /\ Plain(e) /\ p.fill = 1
    BY <1>4, <1>5
  <2>3. JoinOwes(e, p, g)
    BY <2>1, <2>2, DemandJoins
  <2>. QED BY <2>3 DEF JoinOwes
<1>8. mshr' = [mshr EXCEPT ![d][p.line] = g]
  BY <1>4, <1>5, <1>6 DEF ReadMerge
<1>9. Joined(mshr, mshr', d, p)
  BY <1>1, <1>4, <1>5, <1>7, <1>8, Types, JoinFiles
<1>10. QueuedPackets(rq', wq', pq')
  BY <1>1, <1>2, <1>3 DEF QueuedPackets, Popped
<1>11. ASSUME NEW c \in Cache, NEW x \in Line PROVE OwedAt(rq', pq', mshr', c, x)
  <2>1. OwedAt(rq, pq, mshr, c, x)
    BY <1>1 DEF OwedOnce
  <2>. QED BY <1>2, <1>3, <1>4, <1>9, <2>1 DEF OwedAt, Once, Popped, Joined
<1>. QED BY <1>9, <1>10, <1>11 DEF Answers, OwedOnce, Joined

\* So does a prefetch.
LEMMA PrefetchMergeAnswers ==
  ASSUME TypeOK, Answers, NEW d \in Cache, PrefetchMerge(d)
  PROVE  Answers'
<1>1. /\ QueuedPackets(rq, wq, pq) /\ MissEntries(mshr) /\ OwedOnce(rq, pq, mshr)
      /\ pq[d] \in Seq(Spare(d)) /\ Distinct(pq[d]) /\ pq[d] # << >> /\ d \in Node
  BY TreeFacts DEF Answers, QueuedPackets, PrefetchMerge
<1>2. pq' = Pop(pq, d) /\ wq' = wq /\ rq' = rq
  BY DEF PrefetchMerge
<1>3. Popped(pq, pq', d, Spare(d))
  BY <1>1, <1>2, Types, PopAsks
<1>4. PICK p \in Packet, y \in Line : p = Head(pq[d]) /\ y = p.line /\ Plain(p) /\ (Ample => p.fill # 1)
  BY <1>3 DEF Popped, Packet, Spare, Sent
<1>5. PICK e \in Entry : e = mshr[d][p.line] /\ Plain(e)
  <2>1. mshr[d][y] # None
    BY <1>4 DEF PrefetchMerge, Busy
  <2>2. mshr[d][y] \in Entry
    BY <2>1, Types
  <2>. QED BY <1>1, <1>4, <2>1, <2>2 DEF MissEntries
<1>6. PICK g : g = PrefetchJoin(e, p)
  OBVIOUS
<1>7. /\ g \in Entry /\ Plain(g) /\ g.returned = e.returned
      /\ \A c \in Cache : c \in Targets(Lower(c), g)
                            => c \in Targets(Lower(c), e) \/ c \in Targets(Lower(c), p)
      /\ \A c \in Cache : Ample /\ Lower(c) = d
            /\ (c \in Targets(Lower(c), e) \/ c \in Targets(Lower(c), p)) => c \in Targets(Lower(c), g)
  BY <1>4, <1>5, <1>6, PrefetchJoinAsks
<1>8. mshr' = [mshr EXCEPT ![d][p.line] = g]
  <2>1. mshr[d] \in [Line -> Entry \cup {None}] /\ mshr \in [Cache -> MshrFile]
    BY Types DEF MshrFile
  <2>. QED BY <1>4, <1>5, <1>6, <2>1 DEF PrefetchMerge, PrefetchJoin
<1>9. Joined(mshr, mshr', d, p)
  BY <1>1, <1>4, <1>5, <1>7, <1>8, Types, JoinFiles
<1>10. QueuedPackets(rq', wq', pq')
  <2>1. pq'["DRAM"] = pq["DRAM"]
    BY <1>3, CacheAssumption DEF Popped, Node, Memory
  <2>. QED BY <1>1, <1>2, <1>3, <2>1 DEF QueuedPackets, Popped
<1>11. ASSUME NEW c \in Cache, NEW x \in Line PROVE OwedAt(rq', pq', mshr', c, x)
  <2>1. OwedAt(rq, pq, mshr, c, x)
    BY <1>1 DEF OwedOnce
  <2>. QED BY <1>2, <1>3, <1>4, <1>9, <2>1 DEF OwedAt, Once, Popped, Joined
<1>. QED BY <1>9, <1>10, <1>11 DEF Answers, OwedOnce, Joined

\* A store for a line in flight.
LEMMA RfoMergeAnswers ==
  ASSUME TypeOK, Answers, RfoMerge
  PROVE  Answers'
<1>. DEFINE d == "L1D"
<1>1. /\ MissEntries(mshr) /\ Writes(wq) /\ d \in Cache /\ wq[d] # << >>
  BY DEF Answers, QueuedPackets, Writes, RfoMerge
<1>2. wq' = Pop(wq, d) /\ rq' = rq /\ pq' = pq
  BY DEF RfoMerge
<1>3. Writes(wq') /\ Head(wq[d]) \in Written(d)
  BY <1>1, <1>2, Types, PopWrites
<1>4. PICK p \in Packet, y \in Line :
        p = Head(wq[d]) /\ y = p.line /\ Plain(p) /\ p.fill = 1 /\ Targets(d, p) = {}
  BY <1>1, <1>3 DEF Packet, Written, Asked, Sent
<1>5. PICK e \in Entry : e = mshr[d][p.line] /\ Plain(e)
  <2>1. mshr[d][y] # None
    BY <1>4 DEF RfoMerge, Busy
  <2>2. mshr[d][y] \in Entry
    BY <1>1, <2>1, Types
  <2>. QED BY <1>1, <1>4, <2>1, <2>2 DEF MissEntries
<1>6. PICK g : g = RfoJoin(e, p)
  OBVIOUS
<1>7. /\ g \in Entry /\ Plain(g) /\ g.returned = e.returned
      /\ \A c \in Cache : c \in Targets(Lower(c), g)
                            => c \in Targets(Lower(c), e) \/ c \in Targets(Lower(c), p)
      /\ \A c \in Cache : Ample /\ Lower(c) = d
            /\ (c \in Targets(Lower(c), e) \/ c \in Targets(Lower(c), p)) => c \in Targets(Lower(c), g)
  <2>1. g = ReadJoin(e, p) \/ g = RfoJoin(e, p)
    BY <1>6
  <2>2. Plain(p) /\ Plain(e) /\ p.fill = 1
    BY <1>4, <1>5
  <2>3. JoinOwes(e, p, g)
    BY <2>1, <2>2, DemandJoins
  <2>. QED BY <2>3 DEF JoinOwes
<1>8. mshr' = [mshr EXCEPT ![d][p.line] = g]
  BY <1>4, <1>5, <1>6 DEF RfoMerge
<1>9. Joined(mshr, mshr', d, p)
  BY <1>1, <1>4, <1>5, <1>7, <1>8, Types, JoinFiles
<1>10. QuietFiles(mshr, mshr')
  <2>1. \A c \in Cache : Lower(c) # d
    BY DEF Lower
  <2>. QED BY <1>9, <2>1 DEF Joined, QuietFiles
<1>. QED BY <1>2, <1>3, <1>10, QuietAnswers

-----------------------------------------------------------------------------
\* The invariant holds at first,
LEMMA InitAnswers == Init => Answers
<1>. SUFFICES ASSUME Init PROVE Answers
  OBVIOUS
<1>1. /\ \A n \in Node : rq[n] = << >> /\ wq[n] = << >> /\ pq[n] = << >>
      /\ \A c \in Cache, x \in Line : mshr[c][x] = None
  BY DEF Init
<1>2. QueuedPackets(rq, wq, pq)
  <2>1. Distinct(<< >>)
    BY DEF Distinct
  <2>2. \A S : << >> \in Seq(S)
    BY EmptySeq
  <2>3. \A c \in Cache : c \in Node
    BY TreeFacts
  <2>4. "DRAM" \in Node
    BY DEF Node, Memory
  <2>. QED BY <1>1, <2>1, <2>2, <2>3, <2>4 DEF QueuedPackets
<1>3. MissEntries(mshr)
  BY <1>1 DEF MissEntries
<1>4. ASSUME NEW c \in Cache, NEW x \in Line PROVE OwedAt(rq, pq, mshr, c, x)
  <2>1. Lower(c) \in Node
    BY TreeFacts
  <2>2. ~Asks(rq[Lower(c)], c, x) /\ ~Asks(pq[Lower(c)], c, x)
    BY <1>1, <2>1 DEF Asks
  <2>3. ~Held(mshr, c, x) /\ ~Pend(mshr, c, x)
    BY <1>1 DEF Held, Pend
  <2>. QED BY <2>2, <2>3 DEF OwedAt, Once
<1>. QED BY <1>2, <1>3, <1>4 DEF Answers, OwedOnce

\* and every step keeps it, if no prefetcher fills a level above its own.
LEMMA NextAnswers == PrefetchesBelow /\ TypeOK /\ Answers /\ [Next]_vars => Answers'
<1>. SUFFICES ASSUME PrefetchesBelow, TypeOK, Answers, [Next]_vars PROVE Answers'
  OBVIOUS
<1>1. ASSUME NEW c \in Cache, NEW x \in Line, HandleFill(c, x) PROVE Answers'
  BY <1>1, HandleFillAnswers
<1>2. ASSUME NEW c \in Cache, HandleRead(c) PROVE Answers'
  BY <1>2, ReadHitAnswers, ReadMissAnswers, ReadMergeAnswers DEF HandleRead
<1>3. ASSUME NEW c \in Cache, HandleWriteback(c) PROVE Answers'
  BY <1>3, WriteAnswers, RfoMissAnswers, RfoMergeAnswers DEF HandleWriteback
<1>4. ASSUME NEW c \in Cache, HandlePrefetch(c) PROVE Answers'
  BY <1>4, PrefetchHitAnswers, PrefetchMissAnswers, PrefetchMergeAnswers DEF HandlePrefetch
<1>5. ASSUME NEW x \in Line, DramRead(x) \/ DramWrite(x) \/ SwapOut(x) PROVE Answers'
  BY <1>5, DramReadAnswers, OtherAnswers
<1>6. ASSUME NEW c \in Cache, IssuePrefetch(c) PROVE Answers'
  BY <1>6, IssuePrefetchAnswers
<1>7. CASE CoreRead \/ CoreStore
  BY <1>7, CoreReadAnswers, CoreStoreAnswers
<1>8. CASE FinishWarmup \/ UNCHANGED vars
  BY <1>8, OtherAnswers
<1>. QED BY <1>1, <1>2, <1>3, <1>4, <1>5, <1>6, <1>7, <1>8 DEF Next

\* What is owed is counted: at most one answer, only for a miss that waits, and
\* one for every such miss when the queues are ample.
LEMMA AnswersCounted ==
  ASSUME TypeOK, Answers
  PROVE  ReturnFindsMiss /\ (Ample => MissIsServed)
<1>1. ASSUME NEW c \in Cache, NEW x \in Line
      PROVE  /\ Owed(Lower(c), c, x) <= IF Busy(c, x) /\ ~mshr[c][x].returned THEN 1 ELSE 0
             /\ Ample /\ Busy(c, x) /\ ~mshr[c][x].returned => Owed(Lower(c), c, x) > 0
  <2>1. OwedAt(rq, pq, mshr, c, x) /\ Lower(c) \in Node
    BY TreeFacts DEF Answers, OwedOnce
  <2>. DEFINE n == Lower(c)
              R == InQueue(rq, n, c, x)
              P == InQueue(pq, n, c, x)
  <2>2. /\ (Asks(rq[n], c, x) /\ Cardinality(R) = 1) \/ (~Asks(rq[n], c, x) /\ Cardinality(R) = 0)
        /\ (Asks(pq[n], c, x) /\ Cardinality(P) = 1) \/ (~Asks(pq[n], c, x) /\ Cardinality(P) = 0)
    <3>1. Distinct(rq[n]) /\ Distinct(pq[n])
      BY <2>1 DEF Answers, QueuedPackets
    <3>2. ASSUME NEW q, Distinct(q[n])
          PROVE  \/ Asks(q[n], c, x) /\ Cardinality(InQueue(q, n, c, x)) = 1
                 \/ ~Asks(q[n], c, x) /\ Cardinality(InQueue(q, n, c, x)) = 0
      <4>1. CASE Asks(q[n], c, x)
        <5>1. PICK i \in DOMAIN q[n] : q[n][i].line = x /\ c \in Targets(n, q[n][i])
          BY <4>1 DEF Asks
        <5>2. InQueue(q, n, c, x) = {i}
          BY <3>2, <5>1 DEF InQueue, Distinct
        <5>. QED BY <4>1, <5>2, FS_Singleton
      <4>2. CASE ~Asks(q[n], c, x)
        <5>1. InQueue(q, n, c, x) = {}
          BY <4>2 DEF InQueue, Asks
        <5>. QED BY <4>2, <5>1, FS_EmptySet
      <4>. QED BY <4>1, <4>2
    <3>. QED BY <3>1, <3>2
  <2>3. Owed(n, c, x) = Cardinality(R) + Cardinality(P) + IF Held(mshr, c, x) THEN 1 ELSE 0
    BY DEF Owed, Held, Busy
  <2>4. Pend(mshr, c, x) <=> Busy(c, x) /\ ~mshr[c][x].returned
    BY DEF Pend, Busy
  <2>. HIDE DEF R, P
  <2>5. Once(Asks(rq[n], c, x), Asks(pq[n], c, x), Held(mshr, c, x), Pend(mshr, c, x))
    BY <2>1 DEF OwedAt
  <2>6. /\ Owed(n, c, x) <= IF Pend(mshr, c, x) THEN 1 ELSE 0
        /\ Ample /\ Pend(mshr, c, x) => Owed(n, c, x) > 0
    <3>. HIDE DEF n
    <3>. QED BY <2>2, <2>3, <2>5 DEF Once
  <2>. QED BY <2>4, <2>6
<1>. QED BY <1>1 DEF ReturnFindsMiss, MissIsServed

\* For both trees, every size and all prefetchers that fill no level above
\* their own: return_data always finds the miss it answers, and finds it once
\* (the assertion of return_data).
THEOREM ReturnTheorem ==
  ASSUME PrefetchesBelow
  PROVE  Spec => []ReturnFindsMiss
<1>1. TypeOK /\ Answers /\ [Next]_vars => Answers'
  BY NextAnswers
<1>. QED BY <1>1, InitAnswers, AnswersCounted, TypeTheorem, PTL DEF Spec

\* Where moreover no prefetcher fills a first level and a read queue has room for
\* the MSHRs above it, no miss is forgotten: a line a cache waits for has a
\* request in the level below that will answer this cache.
THEOREM ServedTheorem ==
  ASSUME PrefetchesBelow, Ample
  PROVE  Spec => []MissIsServed
<1>1. TypeOK /\ Answers /\ [Next]_vars => Answers'
  BY NextAnswers
<1>2. TypeOK /\ Answers => MissIsServed
  BY AnswersCounted
<1>. QED BY <1>1, <1>2, InitAnswers, TypeTheorem, PTL DEF Spec

-----------------------------------------------------------------------------
(* Modified data moves down.                                               *)

\* A dirty way of c holds x in the blocks b; the L1D fetches x for a store in the
\* MSHRs m.
DirtyIn(b, c, x) ==
  \E w \in Ways(c) : b[c][w] # None /\ b[c][w].valid /\ b[c][w].line = x /\ b[c][w].dirty
Fetching(m, x) == m["L1D"][x] # None /\ m["L1D"][x].type = "RFO"

\* What was modified in the blocks b, the write queues q or the MSHRs m of a cache
\* is so still in r, t or k, or went down.
DirtyKept(b, r, t) ==
  \A c \in Cache, x \in Line :
    DirtyIn(b, c, x) => DirtyIn(r, c, x) \/ Queued(t[Lower(c)], x)
WritesKept(q, t, r) ==
  \A c \in Cache, x \in Line :
    c # "L1D" /\ Queued(q[c], x) => Queued(t[c], x) \/ DirtyIn(r, c, x)
FetchesKept(m, k, r) ==
  "L1D" \in Cache =>
    \A x \in Line : Fetching(m, x) => Fetching(k, x) \/ DirtyIn(r, "L1D", x)

MovesDown == \A c \in Cache : \A x \in Modified(c) \ Modified(c)' : Queued(wq'[Lower(c)], x)

\* The three parts of a step that keeps modified data.
LEMMA KeptParts ==
  ASSUME DirtyKept(block, block', wq'), WritesKept(wq, wq', block'),
         FetchesKept(mshr, mshr', block')
  PROVE  MovesDown
<1>1. ASSUME NEW c \in Cache, NEW x \in Modified(c) \ Modified(c)'
      PROVE  Queued(wq'[Lower(c)], x)
  <2>1. x \in Line
    BY DEF Modified, DirtyLines
  <2>2. ~DirtyIn(block', c, x)
    BY <1>1, <2>1 DEF Modified, DirtyLines, DirtyIn, Holds
  <2>3. CASE x \in DirtyLines(c)
    <3>1. DirtyIn(block, c, x)
      BY <2>3 DEF DirtyLines, DirtyIn, Holds
    <3>. QED BY <2>1, <2>2, <3>1 DEF DirtyKept
  <2>4. CASE x \notin DirtyLines(c) /\ c = "L1D"
    <3>1. Fetching(mshr, x)
      BY <2>4 DEF Modified, Fetching, Busy
    <3>2. ~Fetching(mshr', x)
      BY <2>1, <2>4 DEF Modified, Fetching, Busy
    <3>. QED BY <2>1, <2>2, <2>4, <3>1, <3>2 DEF FetchesKept
  <2>5. CASE x \notin DirtyLines(c) /\ c # "L1D"
    <3>1. Queued(wq[c], x) /\ ~Queued(wq'[c], x)
      BY <2>1, <2>5 DEF Modified
    <3>. QED BY <2>1, <2>2, <2>5, <3>1 DEF WritesKept
  <2>. QED BY <2>3, <2>4, <2>5
<1>. QED BY <1>1 DEF MovesDown

\* return_data leaves every entry its type,
LEMMA AnsweredFetches ==
  ASSUME NEW m \in [Cache -> MshrFile], NEW targets, NEW y \in Line, NEW r
  PROVE  FetchesKept(m, ReturnData(m, targets, y), r)
BY ReturnDataKeeps DEF FetchesKept, Fetching

\* and so does the step down.
LEMMA PassedFetches ==
  ASSUME NEW m \in [Cache -> MshrFile], NEW d \in Cache, NEW p \in Packet, NEW r
  PROVE  FetchesKept(m, Forwarded(m, d, p), r)
BY ForwardedKeeps DEF FetchesKept, Fetching

\* A new entry, or one that stays an RFO if it was.
LEMMA SetFetches ==
  ASSUME NEW m \in [Cache -> MshrFile], NEW d \in Cache, NEW y \in Line, NEW v \in Entry,
         m[d][y] # None /\ m[d][y].type = "RFO" => v.type = "RFO", NEW r
  PROVE  /\ [m EXCEPT ![d][y] = v] \in [Cache -> MshrFile]
         /\ FetchesKept(m, [m EXCEPT ![d][y] = v], r)
<1>. DEFINE k == [m EXCEPT ![d][y] = v]
<1>1. /\ k \in [Cache -> MshrFile] /\ k[d][y] = v
      /\ \A c \in Cache, x \in Line : ~(c = d /\ x = y) => k[c][x] = m[c][x]
  BY DEF MshrFile
<1>2. v # None
  BY NoneAssumption
<1>. HIDE DEF k
<1>3. FetchesKept(m, k, r)
  BY <1>1, <1>2 DEF FetchesKept, Fetching
<1>. QED BY <1>1, <1>3 DEF k

\* A step that changes neither the ways nor, but at the L1D, the write queues.
LEMMA QuietMoves ==
  ASSUME block' = block, \A c \in Cache : c # "L1D" => wq'[c] = wq[c],
         FetchesKept(mshr, mshr', block')
  PROVE  MovesDown
<1>1. DirtyKept(block, block', wq') /\ WritesKept(wq, wq', block')
  BY DEF DirtyKept, WritesKept
<1>. QED BY <1>1, KeptParts

-----------------------------------------------------------------------------
(* The write queues.                                                       *)

\* add_wq leaves what is queued, and after it the line is queued.
LEMMA AddWqKeeps ==
  ASSUME NEW q, QueuesOK(q, WqSize), NEW n \in Node, NEW p \in Packet
  PROVE  /\ \A l \in Node : \A x : Queued(q[l], x) => Queued(AddWq(q, n, p)[l], x)
         /\ ~warmup => Queued(AddWq(q, n, p)[n], p.line)
<1>1. q \in [Node -> Seq(Packet)] /\ Len(q[n]) \in Nat /\ DOMAIN q[n] = 1 .. Len(q[n])
  BY LenProperties DEF QueuesOK
<1>2. /\ DOMAIN Append(q[n], p) = 1 .. Len(q[n]) + 1
      /\ \A i \in 1 .. Len(q[n]) : Append(q[n], p)[i] = q[n][i]
      /\ Append(q[n], p)[Len(q[n]) + 1] = p
  BY <1>1, AppendProperties, LenProperties
<1>3. ASSUME NEW x, Queued(q[n], x) PROVE Queued(Append(q[n], p), x)
  <2>1. PICK i \in 1 .. Len(q[n]) : q[n][i].line = x
    BY <1>1, <1>3 DEF Queued
  <2>2. i \in 1 .. Len(q[n]) + 1
    BY <1>1
  <2>. QED BY <1>2, <2>1, <2>2 DEF Queued
<1>4. Queued(Append(q[n], p), p.line)
  <2>1. Len(q[n]) + 1 \in 1 .. Len(q[n]) + 1
    BY <1>1
  <2>. QED BY <1>2, <2>1 DEF Queued
<1>. QED BY <1>1, <1>3, <1>4 DEF AddWq

\* A dirty victim is queued below.
LEMMA EvictKeeps ==
  ASSUME BlocksOK(block), NEW q, QueuesOK(q, WqSize), NEW c \in Cache, NEW w \in Ways(c)
  PROVE  /\ \A l \in Node : \A x : Queued(q[l], x) => Queued(Evict(q, c, w)[l], x)
         /\ ~warmup /\ MustEvict(c, w) => Queued(Evict(q, c, w)[Lower(c)], block[c][w].line)
<1>1. CASE MustEvict(c, w)
  <2>1. block[c][w] \in Block
    BY <1>1 DEF MustEvict, BlocksOK
  <2>2. PICK p \in Packet : p = Writeback(c, block[c][w].line)
    BY <2>1, WritebackType DEF Block
  <2>3. p.line = block[c][w].line
    BY <2>2 DEF Writeback
  <2>4. Evict(q, c, w) = AddWq(q, Lower(c), p) /\ Lower(c) \in Node
    BY <1>1, <2>2, TreeFacts DEF Evict
  <2>. QED BY <2>3, <2>4, AddWqKeeps
<1>2. CASE ~MustEvict(c, w)
  BY <1>2 DEF Evict
<1>. QED BY <1>1, <1>2

\* The head of a write queue leaves it.
LEMMA PopKeeps ==
  ASSUME NEW q, QueuesOK(q, WqSize), NEW c \in Cache, q[c] # << >>
  PROVE  \A l \in Node : \A x :
           Queued(q[l], x) => Queued(Pop(q, c)[l], x) \/ (l = c /\ x = Head(q[c]).line)
<1>1. q \in [Node -> Seq(Packet)] /\ c \in Node
  BY TreeFacts DEF QueuesOK
<1>2. \A l \in Node : Pop(q, c)[l] = IF l = c THEN Tail(q[c]) ELSE q[l]
  BY <1>1 DEF Pop
<1>. QED BY <1>1, <1>2, QueuedTail

-----------------------------------------------------------------------------
(* The ways.                                                               *)

\* A fill of way w takes the place of its victim only.
LEMMA FilledKeeps ==
  ASSUME BlocksOK(block), NEW c \in Cache, NEW w \in Ways(c), NEW x \in Line,
         NEW dirty \in BOOLEAN
  PROVE  /\ \A d \in Cache, y \in Line : DirtyIn(block, d, y) =>
              \/ DirtyIn(Filled(c, w, x, dirty), d, y)
              \/ d = c /\ MustEvict(c, w) /\ y = block[c][w].line
         /\ dirty => DirtyIn(Filled(c, w, x, dirty), c, x)
<1>. DEFINE b == [line |-> x, valid |-> TRUE, dirty |-> dirty]
            r == Filled(c, w, x, dirty)
<1>1. b # None
  <2>1. b \in Block
    BY DEF Block
  <2>. QED BY <2>1, NoneAssumption
<1>2. /\ r[c][w] = b
      /\ \A d \in Cache : \A v \in Ways(d) : ~(d = c /\ v = w) => r[d][v] = block[d][v]
  <2>1. \A d \in Cache : block[d] = [v \in Ways(d) |-> block[d][v]]
    BY DEF BlocksOK
  <2>2. block = [d \in Cache |-> block[d]]
    BY DEF BlocksOK
  <2>. QED BY <2>1, <2>2 DEF Filled
<1>. HIDE DEF r
<1>3. ASSUME NEW d \in Cache, NEW y \in Line, DirtyIn(block, d, y)
      PROVE  DirtyIn(r, d, y) \/ (d = c /\ MustEvict(c, w) /\ y = block[c][w].line)
  <2>1. PICK v \in Ways(d) : /\ block[d][v] # None /\ block[d][v].valid
                             /\ block[d][v].line = y /\ block[d][v].dirty
    BY <1>3 DEF DirtyIn
  <2>2. CASE d = c /\ v = w
    BY <2>1, <2>2 DEF MustEvict
  <2>3. CASE ~(d = c /\ v = w)
    <3>1. r[d][v] = block[d][v]
      BY <1>2, <2>3
    <3>. QED BY <2>1, <3>1 DEF DirtyIn
  <2>. QED BY <2>2, <2>3
<1>4. dirty => DirtyIn(r, c, x)
  <2>1. b.valid /\ b.line = x /\ b.dirty = dirty
    OBVIOUS
  <2>. HIDE DEF b
  <2>. QED BY <1>1, <1>2, <2>1 DEF DirtyIn
<1>. QED BY <1>3, <1>4 DEF r

\* A write hit makes its line dirty and no other clean.
LEMMA DirtiedKeeps ==
  ASSUME BlocksOK(block), NEW c \in Cache, NEW x \in Line, Hit(c, x)
  PROVE  /\ \A d \in Cache, y \in Line :
              DirtyIn(block, d, y) => DirtyIn(Dirtied(c, x), d, y)
         /\ DirtyIn(Dirtied(c, x), c, x)
<1>. DEFINE w == Lowest(HitWays(c, x))
            b == [block[c][w] EXCEPT !.dirty = TRUE]
            r == Dirtied(c, x)
<1>1. w \in Ways(c) /\ block[c][w] \in Block /\ Holds(c, w, x)
  <2>1. HitWays(c, x) \subseteq Ways(c) /\ HitWays(c, x) # {}
    BY DEF HitWays, Hit
  <2>2. w \in HitWays(c, x)
    BY <2>1, LowestWay
  <2>. QED BY <2>2, HitBlock DEF HitWays
<1>2. /\ b.dirty /\ b.valid = block[c][w].valid /\ b.line = block[c][w].line
      /\ b \in Block /\ b # None
  <2>1. /\ b.dirty /\ b.valid = block[c][w].valid /\ b.line = block[c][w].line
        /\ b \in Block
    BY <1>1 DEF Block
  <2>. QED BY <2>1, NoneAssumption
<1>3. /\ r[c][w] = b
      /\ \A d \in Cache : \A v \in Ways(d) : ~(d = c /\ v = w) => r[d][v] = block[d][v]
  <2>1. \A d \in Cache : block[d] = [v \in Ways(d) |-> block[d][v]]
    BY DEF BlocksOK
  <2>2. block = [d \in Cache |-> block[d]]
    BY DEF BlocksOK
  <2>. QED BY <1>1, <2>1, <2>2 DEF Dirtied
<1>. HIDE DEF w, b, r
<1>4. DirtyIn(r, c, x)
  BY <1>1, <1>2, <1>3 DEF DirtyIn, Holds
<1>5. ASSUME NEW d \in Cache, NEW y \in Line, DirtyIn(block, d, y) PROVE DirtyIn(r, d, y)
  <2>1. PICK v \in Ways(d) : /\ block[d][v] # None /\ block[d][v].valid
                             /\ block[d][v].line = y /\ block[d][v].dirty
    BY <1>5 DEF DirtyIn
  <2>2. CASE d = c /\ v = w
    BY <1>2, <1>3, <2>1, <2>2 DEF DirtyIn
  <2>3. CASE ~(d = c /\ v = w)
    <3>1. r[d][v] = block[d][v]
      BY <1>3, <2>3
    <3>. QED BY <2>1, <3>1 DEF DirtyIn
  <2>. QED BY <2>2, <2>3
<1>. QED BY <1>4, <1>5 DEF r

-----------------------------------------------------------------------------
(* The handlers.                                                           *)

\* The write queues t lost nothing of q, or only line y of c, which turns dirty.
LosesOnly(q, t, c, y, dirty) ==
  \A l \in Cache, x \in Line :
    l # "L1D" /\ Queued(q[l], x) => Queued(t[l], x) \/ (l = c /\ x = y /\ dirty)

\* A fill of way w of c with y: its dirty victim goes down.
LEMMA FillMoves ==
  ASSUME TypeOK, ~warmup, NEW c \in Cache, NEW w \in Ways(c), NEW y \in Line,
         NEW dirty \in BOOLEAN, NEW q, QueuesOK(q, WqSize),
         LosesOnly(wq, q, c, y, dirty), wq' = Evict(q, c, w), block' = Filled(c, w, y, dirty)
  PROVE  DirtyKept(block, block', wq') /\ WritesKept(wq, wq', block')
<1>1. BlocksOK(block)
  BY DEF TypeOK
<1>2. \A l \in Cache : l \in Node
  BY TreeFacts
<1>3. /\ \A l \in Node : \A x : Queued(q[l], x) => Queued(wq'[l], x)
      /\ MustEvict(c, w) => Queued(wq'[Lower(c)], block[c][w].line)
  BY <1>1, EvictKeeps
<1>4. /\ \A d \in Cache, x \in Line : DirtyIn(block, d, x) =>
           DirtyIn(block', d, x) \/ (d = c /\ MustEvict(c, w) /\ x = block[c][w].line)
      /\ dirty => DirtyIn(block', c, y)
  BY <1>1, FilledKeeps
<1>5. DirtyKept(block, block', wq')
  BY <1>3, <1>4 DEF DirtyKept
<1>6. WritesKept(wq, wq', block')
  BY <1>2, <1>3, <1>4 DEF LosesOnly, WritesKept
<1>. QED BY <1>5, <1>6

\* handle_fill: a store's line turns dirty, and a dirty victim goes down.
LEMMA HandleFillMoves ==
  ASSUME TypeOK, ~warmup, NEW c \in Cache, NEW x \in Line, HandleFill(c, x)
  PROVE  MovesDown
<1>. DEFINE e == mshr[c][x]
<1>1. PICK m : m = [mshr EXCEPT ![c][x] = None]
  OBVIOUS
<1>2. /\ m \in [Cache -> MshrFile]
      /\ \A d \in Cache, y \in Line : ~(d = c /\ y = x) => m[d][y] = mshr[d][y]
  BY <1>1, MshrIsFile DEF MshrFile
<1>3. mshr' = ReturnData(m, Targets(c, e), x)
  BY <1>1 DEF HandleFill
<1>4. FetchesKept(m, mshr', block')
  BY <1>2, <1>3, AnsweredFetches
<1>5. CASE \E w \in Victims(c) :
             /\ CanFill(c, w)
             /\ wq' = Evict(wq, c, w)
             /\ block' = Filled(c, w, x, c = "L1D" /\ e.type = "RFO")
  <2>1. PICK w \in Ways(c), dirty \in BOOLEAN :
          /\ wq' = Evict(wq, c, w) /\ block' = Filled(c, w, x, dirty)
          /\ dirty <=> c = "L1D" /\ e.type = "RFO"
    BY <1>5, VictimsAreWays
  <2>2. QueuesOK(wq, WqSize)
    BY DEF TypeOK
  <2>3. DirtyKept(block, block', wq') /\ WritesKept(wq, wq', block')
    <3>1. LosesOnly(wq, wq, c, x, dirty)
      BY DEF LosesOnly
    <3>. QED BY <2>1, <2>2, <3>1, FillMoves
  <2>4. dirty => DirtyIn(block', c, x)
    BY <2>1, FilledKeeps DEF TypeOK
  <2>5. FetchesKept(mshr, mshr', block')
    BY <1>2, <1>4, <2>1, <2>4 DEF FetchesKept, Fetching
  <2>. QED BY <2>3, <2>5, KeptParts
<1>6. CASE c = "LLC" /\ UNCHANGED <<wq, block>>
  <2>1. FetchesKept(mshr, mshr', block')
    BY <1>2, <1>4, <1>6 DEF FetchesKept, Fetching
  <2>. QED BY <1>6, <2>1, QuietMoves
<1>. QED BY <1>5, <1>6 DEF HandleFill

\* handle_read and handle_prefetch change no way and no write queue, and an entry
\* that is fetched for a store stays so.
LEMMA HandleReadMoves ==
  ASSUME TypeOK, ~Swap, NEW c \in Cache, HandleRead(c)
  PROVE  MovesDown
<1>1. rq[c] # << >> /\ wq' = wq
  BY DEF HandleRead, ReadHit, ReadMiss, ReadMerge
<1>2. block' = block
  BY DEF HandleRead, ReadHit, ReadMiss, ReadMerge, AfterWalk
<1>3. PICK p \in Packet, y \in Line : p = Head(rq[c]) /\ y = p.line
  BY <1>1, PopType, SizeFacts, TreeFacts DEF TypeOK, Packet
<1>4. FetchesKept(mshr, mshr', block')
  <2>1. CASE ReadHit(c)
    BY <1>3, <2>1, AnsweredFetches, MshrIsFile DEF ReadHit
  <2>2. CASE ReadMiss(c)
    <3>1. PICK k : k = [mshr EXCEPT ![c][y] = NewEntry(p)]
      OBVIOUS
    <3>2. mshr[c][y] = None /\ mshr' = Forwarded(k, c, p)
      BY <1>3, <2>2, <3>1 DEF ReadMiss, NewMiss, Busy
    <3>3. k \in [Cache -> MshrFile] /\ FetchesKept(mshr, k, block')
      BY <3>1, <3>2, NewEntryType, SetFetches, MshrIsFile
    <3>4. FetchesKept(k, mshr', block')
      BY <3>2, <3>3, PassedFetches
    <3>. QED BY <3>3, <3>4 DEF FetchesKept
  <2>3. CASE ReadMerge(c)
    <3>1. PICK e : e = mshr[c][y]
      OBVIOUS
    <3>2. e # None /\ mshr' = [mshr EXCEPT ![c][y] = ReadJoin(e, p)]
      BY <1>3, <2>3, <3>1 DEF ReadMerge, Busy
    <3>3. e \in Entry
      BY <3>1, <3>2 DEF TypeOK, MshrOK
    <3>4. ReadJoin(e, p) \in Entry /\ (e.type = "RFO" => ReadJoin(e, p).type = "RFO")
      BY <3>3, JoinType, JoinKeeps
    <3>. QED BY <3>1, <3>2, <3>4, SetFetches, MshrIsFile
  <2>. QED BY <2>1, <2>2, <2>3 DEF HandleRead
<1>. QED BY <1>1, <1>2, <1>4, QuietMoves

\* and handle_prefetch, too.
LEMMA HandlePrefetchMoves ==
  ASSUME TypeOK, NEW c \in Cache, HandlePrefetch(c)
  PROVE  MovesDown
<1>1. pq[c] # << >> /\ wq' = wq /\ block' = block
  BY DEF HandlePrefetch, PrefetchHit, PrefetchMiss, PrefetchMerge
<1>2. PICK p \in Packet, y \in Line : p = Head(pq[c]) /\ y = p.line
  BY <1>1, PopType, SizeFacts, TreeFacts DEF TypeOK, Packet
<1>3. FetchesKept(mshr, mshr', block')
  <2>1. CASE PrefetchHit(c)
    BY <1>2, <2>1, AnsweredFetches, MshrIsFile DEF PrefetchHit
  <2>2. CASE PrefetchMiss(c)
    <3>1. PICK k : k = IF p.fill <= Level(c) THEN [mshr EXCEPT ![c][y] = NewEntry(p)] ELSE mshr
      OBVIOUS
    <3>2. mshr[c][y] = None /\ mshr' = Forwarded(k, c, p)
      BY <1>2, <2>2, <3>1 DEF PrefetchMiss, Busy
    <3>3. k \in [Cache -> MshrFile] /\ FetchesKept(mshr, k, block')
      <4>1. CASE p.fill <= Level(c)
        BY <3>1, <3>2, <4>1, NewEntryType, SetFetches, MshrIsFile
      <4>2. CASE ~(p.fill <= Level(c))
        BY <3>1, <4>2, MshrIsFile DEF FetchesKept
      <4>. QED BY <4>1, <4>2
    <3>4. FetchesKept(k, mshr', block')
      BY <3>2, <3>3, PassedFetches
    <3>. QED BY <3>3, <3>4 DEF FetchesKept
  <2>3. CASE PrefetchMerge(c)
    <3>1. PICK e : e = mshr[c][y]
      OBVIOUS
    <3>2. PICK g : g = [e EXCEPT !.fill = Min2(@, p.fill), !.dest = @ \cup p.dest]
      OBVIOUS
    <3>3. e # None /\ mshr' = [mshr EXCEPT ![c][y] = g]
      BY <1>2, <2>3, <3>1, <3>2, MshrIsFile DEF PrefetchMerge, Busy, MshrFile
    <3>4. e \in Entry
      BY <3>1, <3>3 DEF TypeOK, MshrOK
    <3>5. g \in Entry /\ g.type = e.type
      <4>1. Min2(e.fill, p.fill) \in {1, 2, 4, 8}
        BY <3>4 DEF Min2, Entry, Packet
      <4>2. e.dest \cup p.dest \in SUBSET Side
        BY <3>4 DEF Entry, Packet
      <4>. QED BY <3>2, <3>4, <4>1, <4>2 DEF Entry
    <3>. QED BY <3>1, <3>3, <3>5, SetFetches, MshrIsFile
  <2>. QED BY <2>1, <2>2, <2>3 DEF HandlePrefetch
<1>. QED BY <1>1, <1>3, QuietMoves

\* handle_writeback: the line of the writeback turns dirty here, in the way it hits
\* or in the one it fills.
LEMMA WriteMoves ==
  ASSUME TypeOK, ~warmup, NEW c \in Cache, WriteHit(c) \/ WriteFill(c)
  PROVE  MovesDown
<1>1. wq[c] # << >> /\ QueuesOK(wq, WqSize) /\ BlocksOK(block) /\ \A l \in Cache : l \in Node
  BY TreeFacts DEF WriteHit, WriteFill, TypeOK
<1>2. PICK p \in Packet, y \in Line : p = Head(wq[c]) /\ y = p.line
  BY <1>1, PopType, SizeFacts, TreeFacts DEF Packet
<1>3. PICK q : q = Pop(wq, c)
  OBVIOUS
<1>4. \A l \in Node : \A x : Queued(wq[l], x) => Queued(q[l], x) \/ (l = c /\ x = y)
  BY <1>1, <1>2, <1>3, PopKeeps
<1>5. mshr' = ReturnData(mshr, Targets(c, p), y)
  BY <1>2 DEF WriteHit, WriteFill
<1>6. FetchesKept(mshr, mshr', block')
  BY <1>5, AnsweredFetches, MshrIsFile
<1>7. CASE WriteHit(c)
  <2>1. wq' = q /\ block' = Dirtied(c, y) /\ Hit(c, y)
    BY <1>2, <1>3, <1>7 DEF WriteHit
  <2>2. /\ \A d \in Cache, x \in Line : DirtyIn(block, d, x) => DirtyIn(block', d, x)
        /\ DirtyIn(block', c, y)
    BY <1>1, <2>1, DirtiedKeeps
  <2>3. DirtyKept(block, block', wq') /\ WritesKept(wq, wq', block')
    BY <1>1, <1>4, <2>1, <2>2 DEF DirtyKept, WritesKept
  <2>. QED BY <1>6, <2>3, KeptParts
<1>8. CASE WriteFill(c)
  <2>1. PICK w \in Ways(c) : wq' = Evict(q, c, w) /\ block' = Filled(c, w, y, TRUE)
    BY <1>2, <1>3, <1>8, VictimsAreWays DEF WriteFill
  <2>2. QueuesOK(q, WqSize)
    BY <1>1, <1>3, PopType, SizeFacts
  <2>3. DirtyKept(block, block', wq') /\ WritesKept(wq, wq', block')
    <3>1. LosesOnly(wq, q, c, y, TRUE)
      BY <1>1, <1>4 DEF LosesOnly
    <3>. QED BY <2>1, <2>2, <3>1, FillMoves
  <2>. QED BY <1>6, <2>3, KeptParts
<1>. QED BY <1>7, <1>8

\* A store leaves the write queue of the L1D, which is not modified data yet.
LEMMA RfoMoves ==
  ASSUME TypeOK, RfoMiss \/ RfoMerge
  PROVE  MovesDown
<1>. DEFINE d == "L1D"
<1>1. d \in Cache /\ wq[d] # << >> /\ wq' = Pop(wq, d) /\ block' = block
  BY DEF RfoMiss, RfoMerge
<1>2. PICK p \in Packet, y \in Line : p = Head(wq[d]) /\ y = p.line
  BY <1>1, PopType, SizeFacts, TreeFacts DEF TypeOK, Packet
<1>3. FetchesKept(mshr, mshr', block')
  <2>1. CASE RfoMiss
    <3>1. PICK k : k = [mshr EXCEPT ![d][y] = NewEntry(p)]
      OBVIOUS
    <3>2. mshr[d][y] = None /\ mshr' = Forwarded(k, d, p)
      BY <1>2, <2>1, <3>1 DEF RfoMiss, NewMiss, Busy
    <3>3. k \in [Cache -> MshrFile] /\ FetchesKept(mshr, k, block')
      BY <1>1, <3>1, <3>2, NewEntryType, SetFetches, MshrIsFile
    <3>4. FetchesKept(k, mshr', block')
      BY <1>1, <3>2, <3>3, PassedFetches
    <3>. QED BY <3>3, <3>4 DEF FetchesKept
  <2>2. CASE RfoMerge
    <3>1. PICK e : e = mshr[d][y]
      OBVIOUS
    <3>2. e # None /\ mshr' = [mshr EXCEPT ![d][y] = RfoJoin(e, p)]
      BY <1>2, <2>2, <3>1 DEF RfoMerge, Busy
    <3>3. e \in Entry
      BY <1>1, <3>1, <3>2 DEF TypeOK, MshrOK
    <3>4. RfoJoin(e, p) \in Entry /\ (e.type = "RFO" => RfoJoin(e, p).type = "RFO")
      BY <3>3, JoinType, JoinKeeps
    <3>. QED BY <1>1, <3>1, <3>2, <3>4, SetFetches, MshrIsFile
  <2>. QED BY <2>1, <2>2
<1>4. \A c \in Cache : c # d => wq'[c] = wq[c]
  BY <1>1, TreeFacts DEF Pop, TypeOK, QueuesOK
<1>. QED BY <1>1, <1>3, <1>4, QuietMoves

\* The DRAM controller, the core and the prefetchers.
LEMMA OtherMoves ==
  ASSUME TypeOK,
         \/ \E x \in Line : DramRead(x) \/ DramWrite(x)
         \/ CoreRead \/ CoreStore \/ FinishWarmup \/ UNCHANGED vars
         \/ \E c \in Cache : IssuePrefetch(c)
  PROVE  MovesDown
<1>1. block' = block
  BY DEF DramRead, DramWrite, CoreRead, Request, CoreStore, FinishWarmup, vars, IssuePrefetch
<1>2. \A c \in Cache : c # "L1D" => wq'[c] = wq[c]
  <2>1. "DRAM" \notin Cache
    BY CacheAssumption
  <2>2. \/ wq' = wq
        \/ \E s : wq' = [wq EXCEPT !["DRAM"] = s]
        \/ \E s : wq' = [wq EXCEPT !["L1D"] = s]
    BY DEF DramRead, DramWrite, CoreRead, Request, CoreStore, FinishWarmup, vars, IssuePrefetch
  <2>. QED BY <2>1, <2>2, TreeFacts DEF TypeOK, QueuesOK
<1>3. FetchesKept(mshr, mshr', block')
  <2>1. mshr' = mshr \/ \E x \in Line : mshr' = ReturnData(mshr, {"LLC"}, x)
    BY DEF DramRead, DramWrite, CoreRead, Request, CoreStore, FinishWarmup, vars, IssuePrefetch
  <2>2. CASE mshr' = mshr
    BY <2>2 DEF FetchesKept
  <2>3. ASSUME NEW x \in Line, mshr' = ReturnData(mshr, {"LLC"}, x)
        PROVE  FetchesKept(mshr, mshr', block')
    BY <2>3, AnsweredFetches, MshrIsFile
  <2>. QED BY <2>1, <2>2, <2>3
<1>. QED BY <1>1, <1>2, <1>3, QuietMoves

-----------------------------------------------------------------------------
\* Unless a page swap invalidates it, no modified line is ever dropped after the
\* warm-up, for both trees and every size: a line that is dirty in a cache, in its
\* write queue or being fetched for a store stays so until the step that puts it in
\* the write queue of the level below.
THEOREM ModifiedTheorem ==
  ASSUME ~Swap
  PROVE  Spec => ModifiedMovesDown
<1>1. ASSUME TypeOK, Next, ~warmup PROVE MovesDown
  <2>1. ASSUME NEW c \in Cache, NEW x \in Line, HandleFill(c, x) PROVE MovesDown
    BY <1>1, <2>1, HandleFillMoves
  <2>2. ASSUME NEW c \in Cache, HandleRead(c) PROVE MovesDown
    BY <1>1, <2>2, HandleReadMoves
  <2>3. ASSUME NEW c \in Cache, HandleWriteback(c) PROVE MovesDown
    BY <1>1, <2>3, WriteMoves, RfoMoves DEF HandleWriteback
  <2>4. ASSUME NEW c \in Cache, HandlePrefetch(c) PROVE MovesDown
    BY <1>1, <2>4, HandlePrefetchMoves
  <2>5. ASSUME NEW x \in Line, SwapOut(x) PROVE MovesDown
    BY <2>5 DEF SwapOut
  <2>. QED BY <1>1, <2>1, <2>2, <2>3, <2>4, <2>5, OtherMoves DEF Next
<1>2. TypeOK /\ [Next]_vars =>
        [~warmup => \A c \in Cache : \A x \in Modified(c) \ Modified(c)' : Queued(wq'[Lower(c)], x)]_vars
  BY <1>1 DEF MovesDown
<1>. QED BY <1>2, TypeTheorem, PTL DEF Spec, ModifiedMovesDown
=============================================================================
