----------------------------- MODULE SlabProofs -----------------------------
(***************************************************************************)
(* Proofs about the kernel heap, for any number of pages, nodes of any     *)
(* length and requests of any size: blocks never share a slab, the bits of *)
(* a node say which slabs were handed out, and a search passes no node     *)
(* that has room.                                                          *)
(***************************************************************************)
EXTENDS Slab, NaturalSets, SequenceTheorems

-----------------------------------------------------------------------------
(* Numbers, runs and lists *)

\* A request that is served from slabs fits a new node, header included.
LEMMA CountFits ==
  ASSUME NEW size \in SmallSizes
  PROVE  CountFor(size) \in 0 .. Slabs
<1>1. /\ size \in Nat /\ size <= Limit /\ Limit \in Nat
      /\ SlabSize \in Nat \ {0} /\ Slabs \in Nat
  BY SlabAssumption DEF SmallSizes
<1> DEFINE a == size + SlabSize - 1
           b == Limit + SlabSize - 1
<1>2. a \in Nat /\ b \in Nat /\ a <= b
  BY <1>1
<1>3. a \div SlabSize \in Nat /\ a \div SlabSize <= b \div SlabSize /\ b \div SlabSize \in Nat
  BY <1>1, <1>2
<1>4. b \div SlabSize + 1 <= Slabs
  BY SlabAssumption
<1> QED
  BY <1>1, <1>3, <1>4 DEF CountFor

\* A run that ends in the node is part of it.
LEMMA RunInside ==
  ASSUME NEW base \in Nat, NEW count \in Nat, base + count <= Slabs
  PROVE  /\ Run(base, count) \subseteq Slab
         /\ IsFiniteSet(Run(base, count)) /\ Cardinality(Run(base, count)) = count
<1>1. base + count - 1 \in Int /\ Slabs \in Nat
  BY SlabAssumption
<1>2. /\ IsFiniteSet(base .. base + count - 1)
      /\ Cardinality(base .. base + count - 1) =
           IF base > base + count - 1 THEN 0 ELSE (base + count - 1) - base + 1
  BY <1>1, FS_Interval
<1> QED
  BY <1>1, <1>2 DEF Run, Slab

\* find_cont_slabs_node returns a run of clear bits that ends in the node.
LEMMA FirstFitFits ==
  ASSUME NEW n \in Node, NEW count \in 0 .. Slabs, HasRoom(n, count)
  PROVE  LET base == FirstFit(n, count) IN
         /\ base \in Nat /\ base + count <= Slabs
         /\ Run(base, count) \cap bitmap[n] = {}
<1>1. Fits(n, count) \in SUBSET Nat /\ Fits(n, count) # {}
  BY SlabAssumption DEF HasRoom, Fits
<1>2. \E b \in Fits(n, count) : \A a \in Fits(n, count) : b <= a
  BY <1>1, LeastNatural
<1>3. FirstFit(n, count) \in Fits(n, count)
  BY <1>2 DEF FirstFit
<1> QED
  BY <1>3, SlabAssumption DEF Fits

\* A set of slabs is finite, and grows with what it holds.
LEMMA SlabsCount ==
  ASSUME NEW S \in SUBSET Slab
  PROVE  /\ IsFiniteSet(S) /\ Cardinality(S) \in 0 .. Slabs
         /\ \A T \in SUBSET S : Cardinality(T) \in Nat /\ Cardinality(T) <= Cardinality(S)
<1>1. IsFiniteSet(Slab) /\ Cardinality(Slab) = Slabs /\ Slabs \in Nat
  <2>1. Slabs \in Nat /\ 0 \in Int /\ Slabs - 1 \in Int
    BY SlabAssumption
  <2>2. IsFiniteSet(0 .. Slabs - 1)
        /\ Cardinality(0 .. Slabs - 1) = IF 0 > Slabs - 1 THEN 0 ELSE Slabs - 1 - 0 + 1
    BY <2>1, FS_Interval
  <2> QED
    BY <2>1, <2>2 DEF Slab
<1>2. IsFiniteSet(S) /\ Cardinality(S) <= Slabs
  BY <1>1, FS_Subset
<1>3. Cardinality(S) \in Nat
  BY <1>2, FS_CardinalityType
<1>4. ASSUME NEW T \in SUBSET S
      PROVE  Cardinality(T) \in Nat /\ Cardinality(T) <= Cardinality(S)
  BY <1>2, <1>4, FS_Subset, FS_CardinalityType
<1> QED
  BY <1>1, <1>2, <1>3, <1>4

\* A node with fewer clear bits than a request needs has no run for it.
LEMMA FullHasNoRun ==
  ASSUME NEW n \in Node, bitmap[n] \in SUBSET Slab, NEW count \in 0 .. Slabs,
         Slabs - Cardinality(bitmap[n]) < count
  PROVE  Fits(n, count) = {}
<1> SUFFICES ASSUME NEW base \in Fits(n, count) PROVE FALSE
  OBVIOUS
<1> DEFINE R == Run(base, count)
           S == bitmap[n]
<1>1. base \in Nat /\ base + count <= Slabs /\ R \cap S = {} /\ Slabs \in Nat /\ count \in Nat
  BY SlabAssumption DEF Fits
<1>2. R \in SUBSET Slab /\ IsFiniteSet(R) /\ Cardinality(R) = count
  BY <1>1, RunInside
<1>3. IsFiniteSet(S) /\ Cardinality(S) \in 0 .. Slabs
  BY SlabsCount
<1>4. Cardinality(R \cup S) = Cardinality(R) + Cardinality(S) - Cardinality(R \cap S)
  BY <1>2, <1>3, FS_Union
<1>5. Cardinality(R \cup S) <= Slabs /\ Cardinality(R \cap S) = 0
  BY <1>1, <1>2, SlabsCount, FS_EmptySet
<1> HIDE DEF R, S
<1> QED
  BY <1>1, <1>2, <1>3, <1>4, <1>5 DEF S

\* What is on a list with one node taken off its head, or put on.
LEMMA Lists ==
  ASSUME NEW s \in Seq(Node)
  PROVE  /\ On(s) \subseteq Node
         /\ s # << >> => /\ Head(s) \in On(s) /\ Tail(s) \in Seq(Node)
                         /\ On(s) = {Head(s)} \cup On(Tail(s))
         /\ \A n \in Node : << n >> \o s \in Seq(Node) /\ On(<< n >> \o s) = {n} \cup On(s)
<1>1. On(s) \subseteq Node
  BY ElementOfSeq DEF On
<1>2. ASSUME s # << >>
      PROVE  /\ Head(s) \in On(s) /\ Tail(s) \in Seq(Node)
             /\ On(s) = {Head(s)} \cup On(Tail(s))
  <2>1. /\ Len(s) \in Nat \ {0} /\ Tail(s) \in Seq(Node) /\ Len(Tail(s)) = Len(s) - 1
        /\ \A i \in 1 .. Len(Tail(s)) : Tail(s)[i] = s[i + 1]
    BY <1>2, HeadTailProperties, EmptySeq
  <2>2. Head(s) = s[1] /\ 1 \in 1 .. Len(s)
    BY <2>1
  <2>3. ASSUME NEW i \in 1 .. Len(s) PROVE s[i] = Head(s) \/ s[i] \in On(Tail(s))
    <3>1. CASE i = 1
      BY <2>2, <3>1
    <3>2. CASE i # 1
      <4>1. i - 1 \in 1 .. Len(Tail(s)) /\ Tail(s)[i - 1] = s[i]
        BY <2>1, <3>2
      <4> QED
        BY <4>1 DEF On
    <3> QED
      BY <3>1, <3>2
  <2>4. ASSUME NEW i \in 1 .. Len(Tail(s)) PROVE Tail(s)[i] \in On(s)
    <3>1. i + 1 \in 1 .. Len(s) /\ Tail(s)[i] = s[i + 1]
      BY <2>1
    <3> QED
      BY <3>1 DEF On
  <2> QED
    BY <2>1, <2>2, <2>3, <2>4 DEF On
<1>3. ASSUME NEW n \in Node
      PROVE  << n >> \o s \in Seq(Node) /\ On(<< n >> \o s) = {n} \cup On(s)
  <2> DEFINE p == << n >> \o s
  <2>1. << n >> \in Seq(Node) /\ Len(<< n >>) = 1 /\ Len(s) \in Nat
    BY LenProperties
  <2>2. /\ p \in Seq(Node) /\ Len(p) = 1 + Len(s)
        /\ \A i \in 1 .. 1 + Len(s) : p[i] = IF i <= 1 THEN << n >>[i] ELSE s[i - 1]
    BY <2>1, ConcatProperties
  <2> HIDE DEF p
  <2>3. ASSUME NEW i \in 1 .. Len(p) PROVE p[i] \in {n} \cup On(s)
    <3>1. CASE i = 1
      BY <2>1, <2>2, <3>1
    <3>2. CASE i # 1
      <4>1. i - 1 \in 1 .. Len(s) /\ p[i] = s[i - 1]
        BY <2>1, <2>2, <3>2
      <4> QED
        BY <4>1 DEF On
    <3> QED
      BY <3>1, <3>2
  <2>4. 1 \in 1 .. Len(p) /\ p[1] = n
    BY <2>1, <2>2
  <2>5. ASSUME NEW i \in 1 .. Len(s) PROVE s[i] \in On(p)
    <3>1. i + 1 \in 1 .. Len(p) /\ p[i + 1] = s[i]
      BY <2>1, <2>2
    <3> QED
      BY <3>1 DEF On
  <2>6. On(p) = {n} \cup On(s)
    BY <2>3, <2>4, <2>5 DEF On
  <2> QED
    BY <2>2, <2>6 DEF p
<1> QED
  BY <1>1, <1>2, <1>3

-----------------------------------------------------------------------------
(* Steps of the kernel *)

\* Giving slabs that nobody has to one more block keeps blocks apart.
LEMMA GiveOut ==
  ASSUME TypeOK, OnPages, NoSharing, NEW n \in Node, NEW base \in Nat, NEW count \in Nat,
         base + count <= Slabs,
         blocks' = blocks \cup {SlabBlock(n, base, count)},
         taken' = taken \cup Taken(n, base, count),
         Calm' => Calm /\ \A i \in Run(base, count) : << n, i >> \notin taken
  PROVE  /\ NoSharing' /\ taken' \in SUBSET (Node \X Slab)
         /\ \A b \in blocks' : ~b.large => Memory(b) \subseteq taken'
         /\ \A m \in Node, i \in Slab :
              << m, i >> \in taken' <=> (<< m, i >> \in taken \/ (m = n /\ i \in Run(base, count)))
<1> DEFINE new == SlabBlock(n, base, count)
<1>1. Run(base, count) \subseteq Slab
  BY RunInside
<1>2. Memory(new) = Taken(n, base, count)
  BY DEF Memory, SlabBlock
<1>3. \A m \in Node, i \in Slab :
        << m, i >> \in Taken(n, base, count) <=> m = n /\ i \in Run(base, count)
  BY <1>1 DEF Taken
<1>4. Taken(n, base, count) \subseteq Node \X Slab
  BY <1>1 DEF Taken
<1>5. \A b \in blocks : ~b.large => Memory(b) \subseteq taken
  BY DEF OnPages
<1>6. Calm' => Calm /\ Taken(n, base, count) \cap taken = {}
  BY <1>1 DEF Taken
<1> HIDE DEF new
<1>7. NoSharing'
  <2> SUFFICES ASSUME Calm', NEW a \in blocks', NEW b \in blocks', ~a.large, ~b.large, a # b
               PROVE  Memory(a) \cap Memory(b) = {}
    BY DEF NoSharing, Memory
  <2>1. CASE a \in blocks /\ b \in blocks
    BY <1>6, <2>1 DEF NoSharing
  <2>2. CASE a = new /\ b \in blocks
    BY <1>2, <1>5, <1>6, <2>2
  <2>3. CASE b = new /\ a \in blocks
    BY <1>2, <1>5, <1>6, <2>3
  <2> QED
    BY <2>1, <2>2, <2>3 DEF new
<1>8. \A b \in blocks' : ~b.large => Memory(b) \subseteq taken'
  BY <1>2, <1>5 DEF new
<1>9. taken' \in SUBSET (Node \X Slab)
  BY <1>4 DEF TypeOK
<1>10. \A m \in Node, i \in Slab :
         << m, i >> \in taken' <=> (<< m, i >> \in taken \/ (m = n /\ i \in Run(base, count)))
  <2> SUFFICES ASSUME NEW m \in Node, NEW i \in Slab, NEW p, p = << m, i >>
               PROVE  p \in taken' <=> p \in taken \/ p \in Taken(n, base, count)
    BY <1>3
  <2> QED
    OBVIOUS
<1> QED
  BY <1>7, <1>8, <1>9, <1>10

\* Steps that hand out nothing keep blocks apart.
LEMMA SameBlocks ==
  ASSUME NoSharing, OnPages, spoilt' = spoilt, taken' = taken,
         \A b \in blocks' : ~b.large => b \in blocks
  PROVE  NoSharing' /\ \A b \in blocks' : ~b.large => Memory(b) \subseteq taken'
<1>1. NoSharing'
  BY DEF NoSharing, Memory, Calm
<1> QED
  BY <1>1 DEF OnPages

\* The locals of a kernel that is in no call.
LEMMA IdleLocals ==
  /\ NoLocals \in [want : 0 .. Slabs, left : Seq(Node), seen : SUBSET Node,
                   node : Node \cup {None}, base : 0 .. Slabs]
  /\ NoLocals.left = << >> /\ NoLocals.seen = {} /\ On(<< >>) = {}
<1>1. 0 \in 0 .. Slabs /\ << >> \in Seq(Node)
  BY SlabAssumption
<1> QED
  BY <1>1 DEF NoLocals, On

\* Setting bits leaves free_slabs high enough.
LEMMA MoreTaken ==
  ASSUME TypeOK, SkipsOnlyFull, nodes' = nodes, free' = free, nodes \ Unready' \subseteq nodes \ Unready,
         bitmap' \in [Node -> SUBSET Slab],
         \A m \in nodes \ Unready' : bitmap[m] \subseteq bitmap'[m]
  PROVE  SkipsOnlyFull'
<1> SUFFICES ASSUME NEW m \in nodes \ Unready'
             PROVE  free[m] >= Slabs - Cardinality(bitmap'[m])
  BY DEF SkipsOnlyFull
<1>1. /\ bitmap[m] \in SUBSET Slab /\ bitmap'[m] \in SUBSET Slab /\ free[m] \in Int
      /\ bitmap[m] \subseteq bitmap'[m] /\ Slabs \in Nat
  BY SlabAssumption DEF TypeOK
<1>2. Cardinality(bitmap[m]) \in Nat /\ Cardinality(bitmap'[m]) \in Nat
      /\ Cardinality(bitmap[m]) <= Cardinality(bitmap'[m])
  BY <1>1, SlabsCount
<1>3. free[m] >= Slabs - Cardinality(bitmap[m])
  BY DEF SkipsOnlyFull
<1> QED
  BY <1>1, <1>2, <1>3

\* Large requests and kmfree touch neither nodes nor bits.
LEMMA BlocksOnly ==
  ASSUME IInv, UNCHANGED << list, bitmap, free, nodes, pc, loc, taken, spoilt >>,
         stopped' \in {"no", "kalloc", "kmfree"},
         \A b \in blocks' : ~b.large => b \in blocks
  PROVE  IInv'
<1>1. NoSharing' /\ \A b \in blocks' : ~b.large => Memory(b) \subseteq taken'
  BY SameBlocks DEF IInv
<1>2. TypeOK'
  BY DEF IInv, TypeOK
<1>4. InHand' /\ Untouched' = Untouched
  BY DEF IInv, InHand, Untouched, On
<1>5. Passed'
  BY DEF IInv, Passed, On, Fits
<1>6. SkipsOnlyFull' /\ BitsExact' /\ Calm' = Calm
  BY DEF IInv, SkipsOnlyFull, BitsExact, Unready, Calm
<1>3. OnPages'
  BY <1>1 DEF IInv, OnPages, On, Memory
<1> QED
  BY <1>1, <1>2, <1>3, <1>4, <1>5, <1>6 DEF IInv

\* kmalloc sets out with the list as it is.
LEMMA KmallocKeeps ==
  ASSUME IInv, NEW size \in SmallSizes, Kmalloc(size)
  PROVE  IInv'
<1>1. CountFor(size) \in 0 .. Slabs
  BY CountFits
<1>2. TypeOK' /\ loc'.want = CountFor(size) /\ loc'.left = list /\ loc'.seen = On(list)
  <2>1. loc' = [want |-> CountFor(size), left |-> list, seen |-> On(list),
                node |-> None, base |-> 0]
    BY DEF Kmalloc, NoLocals
  <2>2. list \in Seq(Node) /\ On(list) \subseteq Node /\ 0 \in 0 .. Slabs
    BY Lists, SlabAssumption DEF IInv, TypeOK
  <2>3. loc' \in [want : 0 .. Slabs, left : Seq(Node), seen : SUBSET Node,
                  node : Node \cup {None}, base : 0 .. Slabs]
    BY <1>1, <2>1, <2>2
  <2> QED
    BY <2>1, <2>3 DEF IInv, TypeOK, Kmalloc
<1>3. NoSharing' /\ OnPages'
  BY <1>2, SameBlocks DEF IInv, OnPages, Kmalloc, Memory, On
<1>4. InHand' /\ Passed' /\ Untouched'
  BY <1>2 DEF Kmalloc, InHand, Passed, Untouched
<1>5. SkipsOnlyFull' /\ BitsExact'
  BY DEF IInv, Kmalloc, SkipsOnlyFull, BitsExact, Unready, Calm, At
<1> QED
  BY <1>2, <1>3, <1>4, <1>5 DEF IInv

\* find_cont_slabs stops at a node with room, or passes one that has none.
LEMMA SearchKeeps ==
  ASSUME IInv, Search
  PROVE  IInv'
<1>0. TypeOK /\ OnPages /\ SkipsOnlyFull
  BY DEF IInv
<1>1. PICK w \in 0 .. Slabs, s \in Seq(Node) : w = loc.want /\ s = loc.left /\ s # << >>
  BY <1>0 DEF TypeOK, Search
<1>2. PICK n \in Node : n = Head(s) /\ n \in On(s) /\ n \in nodes
  BY <1>0, <1>1, Lists DEF OnPages
<1>3. /\ Tail(s) \in Seq(Node) /\ On(s) = {n} \cup On(Tail(s))
  BY <1>1, <1>2, Lists
<1>4. NoSharing' /\ SkipsOnlyFull' /\ BitsExact' /\ pc = "search"
  BY SameBlocks DEF IInv, Search, SkipsOnlyFull, BitsExact, Unready, Calm, At
<1>5. CASE HasRoom(n, w)
  <2> DEFINE base == FirstFit(n, w)
  <2>1. base \in Nat /\ base + w <= Slabs /\ Run(base, w) \cap bitmap[n] = {}
    BY <1>5, FirstFitFits
  <2>2. loc' = [loc EXCEPT !.node = n, !.base = base] /\ pc' = "mark"
    BY <1>1, <1>2, <1>5 DEF Search
  <2> HIDE DEF base
  <2>3. TypeOK'
    <3>1. base \in 0 .. Slabs
      BY <2>1, SlabAssumption
    <3> QED
      BY <1>0, <2>2, <3>1 DEF TypeOK, Search
  <2>4. /\ loc'.want = w /\ loc'.left = s /\ loc'.seen = loc.seen
        /\ loc'.node = n /\ loc'.base = base
    BY <1>0, <1>1, <2>2 DEF TypeOK
  <2>5. OnPages'
    BY <1>0, <1>1, <1>2, <2>2, <2>4 DEF OnPages, Search, Memory, On
  <2>6. InHand' /\ Passed' /\ Untouched'
    BY <2>1, <2>2, <2>4 DEF InHand, Passed, Untouched, Search
  <2> QED
    BY <1>4, <2>3, <2>5, <2>6 DEF IInv
<1>6. CASE ~HasRoom(n, w)
  <2>1. loc' = [loc EXCEPT !.left = Tail(s)] /\ pc' = "search"
    BY <1>1, <1>2, <1>4, <1>6 DEF Search
  <2>2. /\ loc'.want = w /\ loc'.left = Tail(s) /\ loc'.seen = loc.seen
        /\ loc'.node = loc.node /\ loc'.base = loc.base
    BY <1>0, <1>1, <2>1 DEF TypeOK
  <2>3. TypeOK'
    BY <1>0, <1>3, <2>1 DEF TypeOK, Search
  <2>4. OnPages'
    BY <1>0, <1>1, <1>3, <2>1, <2>2 DEF OnPages, Search, Memory, On
  <2>5. Fits(n, w) = {}
    <3>1. CASE free[n] < w
      <4>1. free[n] >= Slabs - Cardinality(bitmap[n]) /\ bitmap[n] \in SUBSET Slab
            /\ free[n] \in Int
        BY <1>0, <1>2, <1>4 DEF SkipsOnlyFull, Unready, TypeOK
      <4>2. Slabs - Cardinality(bitmap[n]) < w
        BY <3>1, <4>1, SlabsCount, SlabAssumption, SMTT(30)
      <4> QED
        BY <4>1, <4>2, FullHasNoRun
    <3>2. CASE free[n] >= w
      BY <1>6, <3>2 DEF HasRoom
    <3> QED
      BY <1>0, <3>1, <3>2 DEF TypeOK
  <2>6. \A m : Fits(m, w)' = Fits(m, w)
    BY DEF Search, Fits
  <2>7. Passed'
    BY <1>1, <1>3, <1>4, <2>2, <2>5, <2>6 DEF IInv, Passed
  <2>8. InHand' /\ Untouched'
    BY <2>1 DEF InHand, Untouched
  <2> QED
    BY <1>4, <2>3, <2>4, <2>7, <2>8 DEF IInv
<1> QED
  BY <1>5, <1>6

\* The run that was found is marked, and still nobody's if the node was left alone.
LEMMA MarkKeeps ==
  ASSUME IInv, Mark
  PROVE  IInv'
<1>0. TypeOK /\ OnPages /\ SkipsOnlyFull /\ InHand /\ BitsExact /\ NoSharing /\ pc = "mark"
  BY DEF IInv, Mark, At
<1>1. PICK n \in Node, w \in 0 .. Slabs, base \in 0 .. Slabs :
        n = loc.node /\ w = loc.want /\ base = loc.base
  BY <1>0 DEF OnPages, TypeOK
<1>2. n \in nodes /\ base + w <= Slabs /\ base \in Nat /\ w \in Nat
  BY <1>0, <1>1, SlabAssumption DEF OnPages, InHand
<1>3. Calm => Run(base, w) \cap bitmap[n] = {}
  BY <1>0, <1>1 DEF IInv, Untouched
<1>4. /\ bitmap' = [bitmap EXCEPT ![n] = @ \cup Run(base, w)]
      /\ blocks' = blocks \cup {SlabBlock(n, base, w)}
      /\ taken' = taken \cup Taken(n, base, w)
      /\ pc' = "idle" /\ loc' = NoLocals
      /\ UNCHANGED << list, free, nodes, stopped, spoilt >>
  BY <1>1 DEF Mark, Return
<1>5. /\ bitmap' \in [Node -> SUBSET Slab]
      /\ \A m \in Node : bitmap'[m] = IF m = n THEN bitmap[n] \cup Run(base, w) ELSE bitmap[m]
      /\ \A m \in Node : bitmap[m] \subseteq bitmap'[m]
  BY <1>0, <1>2, <1>4, RunInside DEF TypeOK
<1>6. Calm => bitmap[n] = {i \in Slab : << n, i >> \in taken}
  BY <1>0, <1>2 DEF BitsExact, Unready
<1>7. Calm' => Calm /\ \A i \in Run(base, w) : << n, i >> \notin taken
  BY <1>2, <1>3, <1>4, <1>6, RunInside DEF Calm
<1>8. /\ NoSharing' /\ taken' \in SUBSET (Node \X Slab)
      /\ \A b \in blocks' : ~b.large => Memory(b) \subseteq taken'
      /\ \A m \in Node, i \in Slab :
           << m, i >> \in taken' <=> (<< m, i >> \in taken \/ (m = n /\ i \in Run(base, w)))
  BY <1>0, <1>2, <1>4, <1>7, GiveOut
<1>9. TypeOK'
  BY <1>0, <1>4, <1>5, <1>8, IdleLocals DEF TypeOK
<1>10. OnPages'
  <2>1. On(list)' = On(list) /\ On(loc.left)' = {} /\ (loc.seen)' = {}
    BY <1>4, IdleLocals DEF On
  <2>2. \A m \in Node \ nodes' : \A i \in Slab : << m, i >> \notin taken'
    BY <1>0, <1>2, <1>4, <1>8 DEF OnPages
  <2>3. \A b \in blocks' : ~b.large => (Memory(b) \subseteq taken)'
    BY <1>8 DEF Memory
  <2> QED
    BY <1>0, <1>4, <2>1, <2>2, <2>3 DEF OnPages
<1>11. InHand' /\ Passed' /\ Untouched'
  BY <1>4 DEF InHand, Passed, Untouched
<1>12. BitsExact'
  BY <1>0, <1>2, <1>4, <1>5, <1>8, RunInside DEF BitsExact, Unready, Calm, TypeOK
<1>13. SkipsOnlyFull'
  BY <1>0, <1>4, <1>5, MoreTaken DEF Unready
<1> QED
  BY <1>8, <1>9, <1>10, <1>11, <1>12, <1>13 DEF IInv

\* A new page holds anything, and nobody has any of it; or there is none.
LEMMA CreateKeeps ==
  ASSUME IInv, Create
  PROVE  IInv'
<1>0. /\ TypeOK /\ OnPages /\ SkipsOnlyFull /\ BitsExact /\ NoSharing
      /\ pc = "search" /\ list' = list /\ blocks' = blocks /\ taken' = taken /\ spoilt' = spoilt
  BY DEF IInv, Create, At
<1>1. CASE nodes = Node
  <2>1. /\ UNCHANGED << list, bitmap, free, nodes, pc, loc, taken, spoilt >>
        /\ stopped' = "kalloc" /\ blocks' = blocks
    BY <1>1 DEF Create
  <2> QED
    BY <2>1, BlocksOnly
<1>2. CASE nodes # Node
  <2>1. PICK n \in Node \ nodes, junk \in SUBSET Slab, count \in {0, Slabs} :
          /\ nodes' = nodes \cup {n}
          /\ bitmap' = [bitmap EXCEPT ![n] = junk]
          /\ free' = [free EXCEPT ![n] = count]
          /\ loc' = [loc EXCEPT !.node = n, !.left = list]
          /\ pc' = "link" /\ stopped' = stopped
    BY <1>2 DEF Create
  <2>2. loc'.node = n /\ loc'.left = list /\ loc'.seen = loc.seen
    BY <1>0, <2>1 DEF TypeOK
  <2>3. TypeOK'
    <3>1. /\ bitmap' \in [Node -> SUBSET Slab] /\ count \in Int
          /\ nodes' \in SUBSET Node
      BY <1>0, <2>1, SlabAssumption DEF TypeOK
    <3>2. free' \in [Node -> Int]
      BY <1>0, <2>1, <3>1 DEF TypeOK
    <3>3. loc' \in [want : 0 .. Slabs, left : Seq(Node), seen : SUBSET Node,
                    node : Node \cup {None}, base : 0 .. Slabs]
      BY <1>0, <2>1 DEF TypeOK
    <3> QED
      BY <1>0, <2>1, <3>1, <3>2, <3>3 DEF TypeOK
  <2>4. \A m \in nodes : m # n /\ bitmap'[m] = bitmap[m] /\ free'[m] = free[m]
    BY <1>0, <2>1 DEF TypeOK
  <2>5. OnPages'
    BY <1>0, <2>1, <2>2 DEF OnPages, On, Memory
  <2>6. InHand' /\ Passed'
    BY <1>0, <2>1, <2>2 DEF OnPages, InHand, Passed, On
  <2>7. Untouched'
    BY <1>0, <2>1, <2>2 DEF OnPages, Untouched
  <2>8. NoSharing'
    BY <1>0, SameBlocks
  <2>9. SkipsOnlyFull' /\ BitsExact'
    BY <1>0, <2>1, <2>2, <2>4 DEF SkipsOnlyFull, BitsExact, Unready, Calm
  <2> QED
    BY <2>3, <2>5, <2>6, <2>7, <2>8, <2>9 DEF IInv
<1> QED
  BY <1>1, <1>2

\* The new node goes on the list before its fields are set.
LEMMA LinkNodeKeeps ==
  ASSUME IInv, LinkNode
  PROVE  IInv'
<1>0. /\ TypeOK /\ OnPages /\ SkipsOnlyFull /\ BitsExact /\ NoSharing
      /\ pc = "link" /\ pc' = "init" /\ list' = << loc.node >> \o loc.left
      /\ UNCHANGED << bitmap, free, nodes, loc, blocks, taken, stopped, spoilt >>
  BY DEF IInv, LinkNode, At
<1>1. loc.node \in Node /\ loc.node \in nodes /\ loc.left \in Seq(Node)
  BY <1>0 DEF OnPages, TypeOK
<1>2. list' \in Seq(Node) /\ On(list') = {loc.node} \cup On(loc.left)
  BY <1>0, <1>1, Lists
<1>3. TypeOK'
  BY <1>0, <1>2 DEF TypeOK
<1>4. OnPages'
  <2>1. On(list)' \subseteq nodes
    BY <1>0, <1>1, <1>2 DEF OnPages, On
  <2> QED
    BY <1>0, <2>1 DEF OnPages, On, Memory
<1>5. InHand' /\ Passed' /\ (Calm' => Untouched')
  BY <1>0 DEF IInv, InHand, Passed, Untouched, Calm
<1>6. NoSharing'
  BY <1>0, SameBlocks
<1>7. SkipsOnlyFull' /\ BitsExact'
  BY <1>0 DEF SkipsOnlyFull, BitsExact, Unready, Calm
<1> QED
  BY <1>3, <1>4, <1>5, <1>6, <1>7 DEF IInv

\* Its bits are cleared, and all its slabs counted as free.
LEMMA InitNodeKeeps ==
  ASSUME IInv, InitNode
  PROVE  IInv'
<1>0. /\ TypeOK /\ OnPages /\ SkipsOnlyFull /\ BitsExact /\ NoSharing
      /\ pc = "init" /\ pc' = "take"
      /\ bitmap' = [bitmap EXCEPT ![loc.node] = {}]
      /\ free' = [free EXCEPT ![loc.node] = Slabs]
      /\ UNCHANGED << list, nodes, loc, blocks, taken, stopped, spoilt >>
  BY DEF IInv, InitNode, At
<1>1. PICK n \in Node : n = loc.node /\ n \in nodes
  BY <1>0 DEF OnPages, TypeOK
<1>2. TypeOK'
  <2>1. {} \in SUBSET Slab /\ Slabs \in Int
    BY SlabAssumption
  <2>2. bitmap' \in [Node -> SUBSET Slab]
    BY <1>0, <2>1 DEF TypeOK
  <2>3. free' \in [Node -> Int]
    BY <1>0, <2>1 DEF TypeOK
  <2> QED
    BY <1>0, <2>2, <2>3 DEF TypeOK
<1>3. /\ bitmap'[n] = {} /\ free'[n] = Slabs
      /\ \A m \in Node \ {n} : bitmap'[m] = bitmap[m] /\ free'[m] = free[m]
  BY <1>0, <1>1 DEF TypeOK
<1>4. OnPages'
  BY <1>0 DEF OnPages, On, Memory
<1>5. InHand' /\ Passed' /\ Untouched'
  BY <1>0, <1>1, <1>3 DEF InHand, Passed, Untouched
<1>6. NoSharing'
  BY <1>0, SameBlocks
<1>7. BitsExact'
  BY <1>0, <1>1, <1>3 DEF IInv, Untouched, BitsExact, Unready, Calm, TypeOK
<1>8. SkipsOnlyFull'
  <2>1. Cardinality({}) = 0 /\ Slabs \in Nat
    BY FS_EmptySet, SlabAssumption
  <2> QED
    BY <1>0, <1>1, <1>3, <2>1 DEF SkipsOnlyFull, Unready, TypeOK
<1> QED
  BY <1>2, <1>4, <1>5, <1>6, <1>7, <1>8 DEF IInv

\* The first slabs of the new node are marked and counted down.
LEMMA TakeFirstKeeps ==
  ASSUME IInv, TakeFirst
  PROVE  IInv'
<1>0. TypeOK /\ OnPages /\ SkipsOnlyFull /\ InHand /\ BitsExact /\ NoSharing /\ pc = "take"
  BY DEF IInv, TakeFirst, At
<1>1. PICK n \in Node, w \in 0 .. Slabs : n = loc.node /\ w = loc.want /\ n \in nodes
  BY <1>0 DEF OnPages, TypeOK
<1>2. 0 + w <= Slabs /\ w \in Nat /\ 0 \in Nat /\ free[n] = Slabs /\ Slabs \in Nat
  BY <1>0, <1>1, SlabAssumption DEF InHand
<1>3. Calm => bitmap[n] = {}
  BY <1>0, <1>1 DEF IInv, Untouched
<1>4. /\ bitmap' = [bitmap EXCEPT ![n] = @ \cup Run(0, w)]
      /\ free' = [free EXCEPT ![n] = @ - w]
      /\ blocks' = blocks \cup {SlabBlock(n, 0, w)}
      /\ taken' = taken \cup Taken(n, 0, w)
      /\ pc' = "idle" /\ loc' = NoLocals
      /\ UNCHANGED << list, nodes, stopped, spoilt >>
  BY <1>1 DEF TakeFirst, Return
<1>5. /\ bitmap' \in [Node -> SUBSET Slab] /\ free' \in [Node -> Int]
      /\ \A m \in Node : bitmap'[m] = IF m = n THEN bitmap[n] \cup Run(0, w) ELSE bitmap[m]
      /\ \A m \in Node : free'[m] = IF m = n THEN Slabs - w ELSE free[m]
  BY <1>0, <1>2, <1>4, RunInside DEF TypeOK
<1>6. Calm => bitmap[n] = {i \in Slab : << n, i >> \in taken}
  BY <1>0, <1>1 DEF BitsExact, Unready
<1>7. Calm' => Calm /\ \A i \in Run(0, w) : << n, i >> \notin taken
  BY <1>2, <1>3, <1>4, <1>6, RunInside DEF Calm
<1>8. /\ NoSharing' /\ taken' \in SUBSET (Node \X Slab)
      /\ \A b \in blocks' : ~b.large => Memory(b) \subseteq taken'
      /\ \A m \in Node, i \in Slab :
           << m, i >> \in taken' <=> (<< m, i >> \in taken \/ (m = n /\ i \in Run(0, w)))
  BY <1>0, <1>2, <1>4, <1>7, GiveOut
<1>9. TypeOK'
  BY <1>0, <1>4, <1>5, <1>8, IdleLocals DEF TypeOK
<1>10. OnPages'
  <2>1. On(list)' = On(list) /\ On(loc.left)' = {} /\ (loc.seen)' = {}
    BY <1>4, IdleLocals DEF On
  <2>2. \A m \in Node \ nodes' : \A i \in Slab : << m, i >> \notin taken'
    BY <1>0, <1>1, <1>4, <1>8 DEF OnPages
  <2>3. \A b \in blocks' : ~b.large => (Memory(b) \subseteq taken)'
    BY <1>8 DEF Memory
  <2> QED
    BY <1>0, <1>4, <2>1, <2>2, <2>3 DEF OnPages
<1>11. InHand' /\ Passed' /\ Untouched'
  BY <1>4 DEF InHand, Passed, Untouched
<1>12. BitsExact'
  BY <1>0, <1>1, <1>2, <1>4, <1>5, <1>8, RunInside DEF BitsExact, Unready, Calm, TypeOK
<1>13. SkipsOnlyFull'
  <2>1. /\ bitmap'[n] \in SUBSET Slab /\ Run(0, w) \in SUBSET bitmap'[n]
        /\ Cardinality(Run(0, w)) = w
    BY <1>2, <1>5, RunInside
  <2>2. Cardinality(bitmap'[n]) \in Nat /\ w <= Cardinality(bitmap'[n])
    BY <2>1, SlabsCount
  <2>3. free'[n] >= Slabs - Cardinality(bitmap'[n])
    BY <1>2, <1>5, <2>2
  <2> QED
    BY <1>0, <1>4, <1>5, <2>3 DEF SkipsOnlyFull, Unready, TypeOK
<1> QED
  BY <1>8, <1>9, <1>10, <1>11, <1>12, <1>13 DEF IInv

-----------------------------------------------------------------------------
(* A handler between two steps of the kernel *)

\* It takes a run of clear bits from a node on the list.
LEMMA IrqFindsKeeps ==
  ASSUME IInv, NEW w \in 0 .. Slabs, NEW n \in On(list), HasRoom(n, w),
         bitmap' = [bitmap EXCEPT ![n] = @ \cup Run(FirstFit(n, w), w)],
         blocks' = blocks \cup {SlabBlock(n, FirstFit(n, w), w)},
         taken' = taken \cup Taken(n, FirstFit(n, w), w),
         spoilt' = (spoilt \/ Relied(n)),
         UNCHANGED << list, free, nodes, stopped, pc, loc >>
  PROVE  IInv'
<1> DEFINE base == FirstFit(n, w)
<1>0. /\ TypeOK /\ OnPages /\ SkipsOnlyFull /\ InHand /\ Passed /\ BitsExact /\ NoSharing
      /\ Calm => Untouched
  BY DEF IInv
<1>1. n \in Node /\ n \in nodes
  BY <1>0, Lists DEF OnPages, TypeOK
<1>2. base \in Nat /\ base + w <= Slabs /\ Run(base, w) \cap bitmap[n] = {} /\ w \in Nat
  BY <1>1, FirstFitFits, SlabAssumption
<1>3. /\ bitmap' = [bitmap EXCEPT ![n] = @ \cup Run(base, w)]
      /\ blocks' = blocks \cup {SlabBlock(n, base, w)}
      /\ taken' = taken \cup Taken(n, base, w)
  OBVIOUS
<1> HIDE DEF base
<1>4. Run(base, w) \subseteq Slab
  BY <1>2, RunInside
<1>5. /\ bitmap' \in [Node -> SUBSET Slab]
      /\ \A m \in Node : bitmap'[m] = IF m = n THEN bitmap[n] \cup Run(base, w) ELSE bitmap[m]
      /\ \A m \in Node : bitmap[m] \subseteq bitmap'[m]
  BY <1>0, <1>1, <1>3, <1>4 DEF TypeOK
<1>6. Calm' => Calm /\ ~Relied(n)
  BY DEF Calm
<1>7. Calm' => n \notin Unready
  BY <1>0, <1>6 DEF Unready, Relied, InHand
<1>8. Calm' => Calm /\ \A i \in Run(base, w) : << n, i >> \notin taken
  BY <1>0, <1>1, <1>2, <1>4, <1>6, <1>7 DEF BitsExact
<1>9. /\ NoSharing' /\ taken' \in SUBSET (Node \X Slab)
      /\ \A b \in blocks' : ~b.large => Memory(b) \subseteq taken'
      /\ \A m \in Node, i \in Slab :
           << m, i >> \in taken' <=> (<< m, i >> \in taken \/ (m = n /\ i \in Run(base, w)))
  BY <1>0, <1>1, <1>2, <1>3, <1>8, GiveOut
<1>10. TypeOK'
  BY <1>0, <1>5, <1>9 DEF TypeOK, Relied
<1>11. OnPages'
  <2>1. On(list)' = On(list) /\ On(loc.left)' = On(loc.left)
    BY DEF On
  <2>2. \A m \in Node \ nodes' : \A i \in Slab : << m, i >> \notin taken'
    BY <1>0, <1>1, <1>9 DEF OnPages
  <2>3. \A b \in blocks' : ~b.large => (Memory(b) \subseteq taken)'
    BY <1>9 DEF Memory
  <2> QED
    BY <1>0, <2>1, <2>2, <2>3 DEF OnPages
<1>12. InHand'
  BY <1>0 DEF InHand, On
<1>13. Passed'
  <2>1. ASSUME NEW m \in Node, Fits(m, loc.want) = {} PROVE Fits(m, loc.want)' = {}
    BY <1>5, <2>1 DEF Fits
  <2>2. loc.seen \subseteq Node /\ On(loc.left)' = On(loc.left)
    BY <1>0 DEF TypeOK, On
  <2> QED
    BY <1>0, <2>1, <2>2 DEF Passed
<1>14. Calm' => Untouched'
  <2> SUFFICES ASSUME Calm' PROVE Untouched'
    OBVIOUS
  <2>1. Untouched /\ ~Relied(n)
    BY <1>0, <1>6
  <2>2. pc \in {"mark", "link", "init", "take"} => loc.node \in Node
    BY <1>0 DEF OnPages, TypeOK
  <2>3. pc \in {"mark", "link", "init", "take"} => loc.node # n
    BY <1>0, <2>1 DEF Relied, InHand
  <2>4. pc = "mark" => (Run(loc.base, loc.want) \cap bitmap[loc.node] = {})'
    BY <1>5, <2>1, <2>2, <2>3 DEF Untouched, Run
  <2>5. pc \in {"link", "init"} => \A i \in Slab : (<< loc.node, i >> \notin taken)'
    BY <1>9, <2>1, <2>2, <2>3 DEF Untouched
  <2>6. pc = "take" => (bitmap[loc.node] = {})'
    BY <1>5, <2>1, <2>2, <2>3 DEF Untouched
  <2> QED
    BY <2>4, <2>5, <2>6 DEF Untouched
<1>15. BitsExact'
  <2> SUFFICES ASSUME Calm', NEW m \in nodes \ Unready
               PROVE  bitmap'[m] = {i \in Slab : << m, i >> \in taken'}
    BY DEF BitsExact, Unready
  <2>1. m \in Node /\ bitmap[m] = {i \in Slab : << m, i >> \in taken}
    BY <1>0, <1>6 DEF BitsExact, TypeOK
  <2> QED
    BY <1>4, <1>5, <1>9, <2>1
<1>16. SkipsOnlyFull'
  <2>1. Unready' = Unready
    BY DEF Unready
  <2> QED
    BY <1>0, <1>5, <2>1, MoreTaken DEF TypeOK
<1> QED
  BY <1>9, <1>10, <1>11, <1>12, <1>13, <1>14, <1>15, <1>16 DEF IInv

\* It makes a node of its own and takes the first slabs of it.
LEMMA IrqCreatesKeeps ==
  ASSUME IInv, NEW w \in 0 .. Slabs, NEW n \in Node \ nodes,
         nodes' = nodes \cup {n},
         list' = << n >> \o list,
         free' = [free EXCEPT ![n] = Slabs - w],
         bitmap' = [bitmap EXCEPT ![n] = Run(0, w)],
         blocks' = blocks \cup {SlabBlock(n, 0, w)},
         taken' = taken \cup Taken(n, 0, w),
         spoilt' = (spoilt \/ pc = "link"),
         UNCHANGED << stopped, pc, loc >>
  PROVE  IInv'
<1>0. /\ TypeOK /\ OnPages /\ SkipsOnlyFull /\ InHand /\ Passed /\ BitsExact /\ NoSharing
      /\ Calm => Untouched
  BY DEF IInv
<1>1. /\ 0 + w <= Slabs /\ w \in Nat /\ 0 \in Nat /\ Slabs \in Nat
      /\ Run(0, w) \subseteq Slab /\ Cardinality(Run(0, w)) = w
  BY RunInside, SlabAssumption
<1>2. list' \in Seq(Node) /\ On(list') = {n} \cup On(list)
  BY <1>0, Lists DEF TypeOK
<1>3. /\ bitmap' \in [Node -> SUBSET Slab] /\ free' \in [Node -> Int]
      /\ bitmap'[n] = Run(0, w) /\ free'[n] = Slabs - w
      /\ \A m \in nodes : m # n /\ bitmap'[m] = bitmap[m] /\ free'[m] = free[m]
  BY <1>0, <1>1 DEF TypeOK
<1>4. \A i \in Run(0, w) : << n, i >> \notin taken
  BY <1>0, <1>1 DEF OnPages
<1>5. Calm' => Calm /\ \A i \in Run(0, w) : << n, i >> \notin taken
  BY <1>4 DEF Calm
<1>6. /\ NoSharing' /\ taken' \in SUBSET (Node \X Slab)
      /\ \A b \in blocks' : ~b.large => Memory(b) \subseteq taken'
      /\ \A m \in Node, i \in Slab :
           << m, i >> \in taken' <=> (<< m, i >> \in taken \/ (m = n /\ i \in Run(0, w)))
  BY <1>0, <1>1, <1>5, GiveOut
<1>7. TypeOK'
  BY <1>0, <1>2, <1>3, <1>6 DEF TypeOK
<1>8. OnPages'
  <2>1. On(list)' = {n} \cup On(list) /\ On(loc.left)' = On(loc.left)
    BY <1>2 DEF On
  <2>2. \A m \in Node \ nodes' : \A i \in Slab : << m, i >> \notin taken'
    BY <1>0, <1>6 DEF OnPages
  <2>3. \A b \in blocks' : ~b.large => (Memory(b) \subseteq taken)'
    BY <1>6 DEF Memory
  <2> QED
    BY <1>0, <2>1, <2>2, <2>3 DEF OnPages
<1>9. pc \in {"mark", "link", "init", "take"} => loc.node \in nodes /\ loc.node # n
  BY <1>0 DEF OnPages
<1>10. InHand'
  <2>1. pc = "link" => (loc.node \notin On(list))'
    BY <1>0, <1>2, <1>9 DEF InHand, On
  <2> QED
    BY <1>0, <1>3, <1>9, <2>1 DEF InHand
<1>11. Passed'
  <2>1. \A m \in loc.seen : Fits(m, loc.want)' = Fits(m, loc.want)
    BY <1>0, <1>3 DEF OnPages, Fits
  <2> QED
    BY <1>0, <2>1 DEF Passed, On
<1>12. Calm' => Untouched'
  <2> SUFFICES ASSUME Calm' PROVE Untouched'
    OBVIOUS
  <2>1. Untouched
    BY <1>0, <1>5
  <2>2. pc \in {"link", "init"} => \A i \in Slab : (<< loc.node, i >> \notin taken)'
    BY <1>0, <1>6, <1>9, <2>1 DEF Untouched, TypeOK
  <2> QED
    BY <1>3, <1>9, <2>1, <2>2 DEF Untouched, Run
<1>13. Unready' = Unready
  BY DEF Unready
<1>14. BitsExact'
  <2> SUFFICES ASSUME Calm', NEW m \in nodes' \ Unready
               PROVE  bitmap'[m] = {i \in Slab : << m, i >> \in taken'}
    BY <1>13 DEF BitsExact
  <2>1. CASE m = n
    <3>1. \A i \in Slab : << n, i >> \notin taken
      BY <1>0 DEF OnPages
    <3> QED
      BY <1>1, <1>3, <1>6, <2>1, <3>1
  <2>2. CASE m \in nodes
    <3>1. m \in Node /\ m # n /\ bitmap[m] = {i \in Slab : << m, i >> \in taken}
      BY <1>0, <1>3, <1>5, <2>2 DEF BitsExact, TypeOK
    <3> QED
      BY <1>3, <1>6, <2>2, <3>1
  <2> QED
    BY <2>1, <2>2
<1>15. SkipsOnlyFull'
  BY <1>0, <1>1, <1>3, <1>13 DEF SkipsOnlyFull
<1> QED
  BY <1>6, <1>7, <1>8, <1>10, <1>11, <1>12, <1>14, <1>15 DEF IInv

\* A handler that allocates takes slabs of the first node with room, or a node of its own.
LEMMA IrqKmallocKeeps ==
  ASSUME IInv, NEW size \in SmallSizes, IrqKmalloc(size)
  PROVE  IInv'
<1>1. PICK w \in 0 .. Slabs : w = CountFor(size)
  BY CountFits
<1>2. CASE \E k \in RoomAt(w) :
             LET n == list[k]
                 base == FirstFit(n, w) IN
             /\ bitmap' = [bitmap EXCEPT ![n] = @ \cup Run(base, w)]
             /\ blocks' = blocks \cup {SlabBlock(n, base, w)}
             /\ taken' = taken \cup Taken(n, base, w)
             /\ spoilt' = (spoilt \/ Relied(n))
             /\ UNCHANGED << list, free, nodes, stopped >>
  <2>1. PICK n \in On(list) :
          /\ HasRoom(n, w)
          /\ bitmap' = [bitmap EXCEPT ![n] = @ \cup Run(FirstFit(n, w), w)]
          /\ blocks' = blocks \cup {SlabBlock(n, FirstFit(n, w), w)}
          /\ taken' = taken \cup Taken(n, FirstFit(n, w), w)
          /\ spoilt' = (spoilt \/ Relied(n))
          /\ UNCHANGED << list, free, nodes, stopped >>
    BY <1>2 DEF RoomAt, On
  <2>2. UNCHANGED << list, free, nodes, stopped, pc, loc >>
    BY <2>1 DEF IrqKmalloc
  <2> QED
    BY <2>1, <2>2, IrqFindsKeeps
<1>3. CASE \E n \in Node \ nodes :
             /\ nodes' = nodes \cup {n}
             /\ list' = << n >> \o list
             /\ free' = [free EXCEPT ![n] = Slabs - w]
             /\ bitmap' = [bitmap EXCEPT ![n] = Run(0, w)]
             /\ blocks' = blocks \cup {SlabBlock(n, 0, w)}
             /\ taken' = taken \cup Taken(n, 0, w)
             /\ spoilt' = (spoilt \/ pc = "link")
             /\ UNCHANGED stopped
  BY <1>3, IrqCreatesKeeps DEF IrqKmalloc
<1>4. CASE stopped' = "kalloc" /\ UNCHANGED << list, bitmap, free, nodes, blocks, taken, spoilt >>
  BY <1>4, BlocksOnly DEF IrqKmalloc
<1> QED
  BY <1>1, <1>2, <1>3, <1>4 DEF IrqKmalloc

-----------------------------------------------------------------------------
(* Theorems *)

\* No node, no slab.
LEMMA SlabInit == Init => IInv
<1> SUFFICES ASSUME Init PROVE IInv
  OBVIOUS
<1>1. TypeOK
  <2>1. << >> \in Seq(Node) /\ bitmap \in [Node -> SUBSET Slab] /\ free \in [Node -> Int]
    BY DEF Init
  <2> QED
    BY <2>1, IdleLocals DEF Init, TypeOK
<1>2. OnPages /\ InHand /\ Passed /\ Untouched
  BY IdleLocals DEF Init, OnPages, InHand, Passed, Untouched
<1>3. SkipsOnlyFull /\ NoSharing /\ BitsExact
  BY DEF Init, SkipsOnlyFull, NoSharing, BitsExact
<1> QED
  BY <1>1, <1>2, <1>3 DEF IInv

\* Every step keeps the invariant, kmfree of any slab included.
LEMMA SlabNext == IInv /\ [NextAnyFree]_vars => IInv'
<1> SUFFICES ASSUME IInv, [NextAnyFree]_vars PROVE IInv'
  OBVIOUS
<1>1. ASSUME NEW size \in LargeSizes, KmallocLarge(size) PROVE IInv'
  <2>1. \A p \in 1 .. Larges : LargeBlock(p, size).large
    BY DEF LargeBlock
  <2>2. \A b \in blocks' : ~b.large => b \in blocks
    BY <1>1, <2>1 DEF KmallocLarge
  <2> QED
    BY <1>1, <2>2, BlocksOnly DEF KmallocLarge, IInv, TypeOK
<1>2. ASSUME NEW b \in blocks, Kmfree(b) PROVE IInv'
  <2>1. stopped' \in {"no", "kalloc", "kmfree"} /\ blocks' \subseteq blocks
    BY <1>2 DEF Kmfree, IInv, TypeOK
  <2> QED
    BY <1>2, <2>1, BlocksOnly DEF Kmfree
<1>3. CASE UNCHANGED vars
  BY <1>3, BlocksOnly DEF vars, IInv, TypeOK
<1>4. CASE Allocate
  BY <1>1, <1>4, KmallocKeeps, IrqKmallocKeeps, SearchKeeps, MarkKeeps, CreateKeeps,
     LinkNodeKeeps, InitNodeKeeps, TakeFirstKeeps DEF Allocate
<1> QED
  BY <1>2, <1>3, <1>4 DEF Next, NextAnyFree

\* The strengthening holds however kmfree is used.
THEOREM SlabInvariance == Spec => []IInv
<1>1. [Next]_vars => [NextAnyFree]_vars
  BY DEF NextAnyFree
<1> QED
  BY SlabInit, SlabNext, <1>1, PTL DEF Spec

\* kmalloc never hands out a slab twice (memory.c:125-209), unless a handler has
\* allocated from the very node the kernel was about to change.
THEOREM SlabsApart == Spec => []NoSharing
<1>1. IInv => NoSharing
  BY DEF IInv
<1> QED
  BY SlabInvariance, <1>1, PTL

\* The bits of a node that is ready say which of its slabs were handed out: kmfree
\* gives none of them back.
THEOREM SlabBitsExact == Spec => []BitsExact
<1>1. IInv => BitsExact
  BY DEF IInv
<1> QED
  BY SlabInvariance, <1>1, PTL

\* free_slabs never understates what is free in a node, so that find_cont_slabs
\* (memory.c:134) passes over no node with room, whatever handlers have taken.
THEOREM FullOnesSkipped == Spec => []SkipsOnlyFull
<1>1. IInv => SkipsOnlyFull
  BY DEF IInv
<1> QED
  BY SlabInvariance, <1>1, PTL

\* The kernel takes a page for a node only when no node on the list it began with has
\* a long enough run of clear bits, whatever handlers have taken meanwhile.
THEOREM PagesForCause == Spec => PageOnlyWhenFull
<1>1. IInv /\ [Next]_vars =>
        [pc = "search" /\ pc' = "link" => \A n \in loc.seen : Fits(n, loc.want) = {}]_nodes
  <2> SUFFICES ASSUME IInv, [Next]_vars, pc = "search", pc' = "link", NEW n \in loc.seen
               PROVE  Fits(n, loc.want) = {}
    OBVIOUS
  <2>1. loc.left = << >>
    BY DEF Next, vars, Allocate, Search, Mark, Create, LinkNode, InitNode, TakeFirst, Kmalloc,
           IrqKmalloc, KmallocLarge, Kmfree, At, Return
  <2>2. n \notin On(loc.left)
    BY <2>1, IdleLocals
  <2> QED
    BY <2>2 DEF IInv, Passed
<1> QED
  BY SlabInvariance, <1>1, PTL DEF Spec, PageOnlyWhenFull

=============================================================================
