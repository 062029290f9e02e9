---------------------------- MODULE BuddyProofs ----------------------------
(***************************************************************************)
(* Proofs about the buddy allocator, for trees of any depth and any number *)
(* of regions.                                                             *)
(*                                                                         *)
(* In three parts: blocks that are out never overlap; no bit is set for    *)
(* nothing, no request is refused that could be met, the stack of the      *)
(* search never outgrows its array, and no block is carved out of a whole  *)
(* one while a split one would do; called from one context at a time, the  *)
(* allocator implements PageAllocator.                                     *)
(***************************************************************************)
EXTENDS Buddy, NaturalSets, SequenceTheorems

-----------------------------------------------------------------------------
(* The shape of a tree *)

\* Numbers of nodes, levels and children fit together.
LEMMA Shape ==
  /\ Slots \in Nat \ {0}
  /\ 0 \in Node
  /\ \A n \in Node : n \in Nat /\ LC(n) \in Nat /\ RC(n) \in Nat
  /\ \A n \in Node \ {0} : P(n) \in Node /\ P(n) # n /\ n \in Children(P(n))
  /\ \A n \in Node : \A x \in Children(n) : x \in Node \ {0} /\ P(x) = n /\ x # n
  /\ \A n, x \in Node \ {0} : P(x) = P(n) => x = n \/ x = B(n)
<1>1. Slots \in Nat \ {0}
  BY BuddyAssumption, PowerAssumption DEF Slots
<1>2. 0 \in Node
  BY <1>1, BuddyAssumption, PowerAssumption DEF Node, Slots
<1> QED
  BY <1>1, <1>2 DEF Node, Children, LC, RC, P, B

\* The nodes of a level are nodes of the tree, and the levels are disjoint.
LEMMA Levels ==
  /\ 0 \in Level(1)
  /\ \A d \in Depth : Level(d) \subseteq Node
  /\ \A d \in Depth : d + 1 \in Depth =>
       \A n \in Level(d) : LC(n) \in Level(d + 1) /\ RC(n) \in Level(d + 1)
  /\ \A d, e \in Depth : d # e => Level(d) \cap Level(e) = {}
<1>0. \A d \in Depth : d - 1 \in 0 .. MaxDepth /\ d \in 0 .. MaxDepth /\ d \in 1 .. MaxDepth
  BY BuddyAssumption DEF Depth
<1>1. \A d \in Depth : /\ 2^(d - 1) \in Nat \ {0}
                       /\ 2^d = 2 * 2^(d - 1)
                       /\ 2^d <= Slots
  BY <1>0, PowerAssumption, BuddyAssumption DEF Slots, Depth
<1>2. \A d, e \in Depth : d < e => 2^d <= 2^(e - 1)
  <2> SUFFICES ASSUME NEW d \in Depth, NEW e \in Depth, d < e
               PROVE  2^d <= 2^(e - 1)
    OBVIOUS
  <2>1. d <= e - 1
    BY BuddyAssumption DEF Depth
  <2> QED
    BY <2>1, <1>0, PowerAssumption
<1>3. 0 \in Level(1)
  BY PowerAssumption DEF Level, FirstAt
<1>4. \A d \in Depth : Level(d) \subseteq Node
  BY <1>1, Shape DEF Level, FirstAt, Node
<1>5. ASSUME NEW d \in Depth, d + 1 \in Depth, NEW n \in Level(d)
      PROVE  LC(n) \in Level(d + 1) /\ RC(n) \in Level(d + 1)
  <2>1. (d + 1) - 1 = d
    BY BuddyAssumption DEF Depth
  <2>2. 2^((d + 1) - 1) = 2 * 2^(d - 1)
    BY <2>1, <1>1
  <2> QED
    BY <2>2, <1>1, <1>5 DEF Level, FirstAt, LC, RC
<1>6. ASSUME NEW d \in Depth, NEW e \in Depth, d < e
      PROVE  Level(d) \cap Level(e) = {}
  BY <1>6, <1>1, <1>2 DEF Level, FirstAt
<1>7. \A d, e \in Depth : d # e => d < e \/ e < d
  BY BuddyAssumption DEF Depth
<1> QED
  BY <1>3, <1>4, <1>5, <1>6, <1>7

-----------------------------------------------------------------------------
(* Subtrees.  Desc[n] is the least set with n and closed under children, so *)
(* every fact about it comes from naming a set of that kind.                *)

\* The subtrees are sets of nodes.
LEMMA DescType == Desc \in [Node -> SUBSET Node]
  BY DEF Desc

\* A set with n that is closed under children has the whole subtree of n.
LEMMA DescLeast ==
  ASSUME NEW n \in Node, NEW S \in SUBSET Node, n \in S, ClosedDown(S)
  PROVE  Desc[n] \subseteq S
  BY DEF Desc

\* A subtree has its root and, with a node, the children of the node.
LEMMA DescClosed ==
  ASSUME NEW n \in Node
  PROVE  n \in Desc[n] /\ ClosedDown(Desc[n])
<1>1. n \in Desc[n]
  BY DEF Desc
<1>2. ASSUME NEW x \in Desc[n], NEW y \in Children(x)
      PROVE  y \in Desc[n]
  BY <1>2 DEF Desc, ClosedDown, Children
<1> QED
  BY <1>1, <1>2 DEF ClosedDown

\* The parent of a node strictly inside a subtree is inside it.
LEMMA ParentInDesc ==
  ASSUME NEW n \in Node, NEW m \in Desc[n], m # n
  PROVE  m # 0 /\ P(m) \in Desc[n]
<1> DEFINE S == {n} \cup {x \in Desc[n] : x # 0 /\ P(x) \in Desc[n]}
<1>1. S \in SUBSET Node /\ S \subseteq Desc[n]
  BY DescType, DescClosed
<1>2. ClosedDown(S)
  BY <1>1, DescClosed, Shape DEF ClosedDown
<1>3. m \in S
  BY <1>1, <1>2, DescLeast
<1> QED
  BY <1>3

\* Two subtrees that meet are nested.
LEMMA DescNested ==
  ASSUME NEW n \in Node, NEW m \in Node, Desc[n] \cap Desc[m] # {}
  PROVE  n \in Desc[m] \/ m \in Desc[n]
<1> SUFFICES ASSUME n \notin Desc[m], m \notin Desc[n]
             PROVE  FALSE
  OBVIOUS
<1> DEFINE S == Desc[n] \ Desc[m]
<1>1. S \in SUBSET Node /\ n \in S
  BY DescType, DescClosed
<1>2. ASSUME NEW x \in S, NEW y \in Children(x)
      PROVE  y \in S
  <2>1. y \in Desc[n]
    BY DescClosed DEF ClosedDown
  <2>2. P(y) = x /\ y # m
    BY <2>1, <1>1, Shape
  <2>3. y \notin Desc[m]
    BY <2>2, ParentInDesc
  <2> QED
    BY <2>1, <2>3
<1>3. Desc[n] \subseteq S
  BY <1>1, <1>2, DescLeast DEF ClosedDown
<1> QED
  BY <1>3

-----------------------------------------------------------------------------
(* Types and levels *)

\* In a tree, the bit of a node is its own.
LEMMA LocNode ==
  ASSUME NEW t, NEW n \in Node
  PROVE  Loc(t, n) = << t, n >>
  BY Shape DEF Loc, Node

\* Popping loses entries, pushing adds those pushed.
LEMMA StackPop ==
  ASSUME NEW S, NEW s \in Seq(S), s # << >>
  PROVE  /\ SubSeq(s, 1, Len(s) - 1) \in Seq(S)
         /\ s[Len(s)] \in {s[i] : i \in 1 .. Len(s)}
         /\ s[Len(s)] \in S
         /\ LET r == SubSeq(s, 1, Len(s) - 1) IN
            {r[i] : i \in 1 .. Len(r)} \subseteq {s[i] : i \in 1 .. Len(s)}
<1> DEFINE n == Len(s) - 1
           r == SubSeq(s, 1, n)
<1>1. Len(s) \in Nat \ {0} /\ s[Len(s)] \in S
  BY EmptySeq, ElementOfSeq
<1>2. n \in Nat /\ 1 \in Int /\ n \in Int /\ \A i \in 1 .. n : s[i] \in S /\ i \in 1 .. Len(s)
  BY <1>1, ElementOfSeq
<1>3. /\ r \in Seq(S)
      /\ Len(r) = IF 1 <= n THEN n - 1 + 1 ELSE 0
      /\ \A i \in 1 .. n - 1 + 1 : r[i] = s[1 + i - 1]
  BY <1>2, SubSeqProperties
<1>4. {r[i] : i \in 1 .. Len(r)} \subseteq {s[i] : i \in 1 .. Len(s)}
  <2> HIDE DEF n
  <2> QED
    BY <1>2, <1>3
<1> QED
  BY <1>1, <1>3, <1>4

\* Pushing one entry or two adds no others.
LEMMA StackPush ==
  ASSUME NEW S, NEW s \in Seq(S), NEW x \in S, NEW y \in S, NEW q,
         q = Append(s, x) \/ q = s \o << x, y >>
  PROVE  /\ q \in Seq(S)
         /\ {q[i] : i \in 1 .. Len(q)} \subseteq {s[i] : i \in 1 .. Len(s)} \cup {x, y}
<1> DEFINE a == Append(s, x)
           p == s \o << x, y >>
<1>1. /\ a \in Seq(S)
      /\ Len(a) = Len(s) + 1
      /\ \A i \in 1 .. Len(s) : a[i] = s[i]
      /\ a[Len(s) + 1] = x
  BY AppendProperties
<1>2. << x, y >> \in Seq(S) /\ Len(<< x, y >>) = 2
  OBVIOUS
<1>3. /\ p \in Seq(S)
      /\ Len(p) = Len(s) + 2
      /\ \A i \in 1 .. Len(s) + 2 : p[i] = IF i <= Len(s) THEN s[i] ELSE << x, y >>[i - Len(s)]
  BY <1>2, ConcatProperties
<1>4. Len(s) \in Nat
  BY LenProperties
<1>5. \A i \in 1 .. Len(p) : i \in 1 .. Len(s) \/ i = Len(s) + 1 \/ i = Len(s) + 2
  BY <1>3, <1>4
<1>6. \A i \in 1 .. Len(p) : p[i] \in {s[j] : j \in 1 .. Len(s)} \cup {x, y}
  BY <1>3, <1>4, <1>5
<1>7. CASE q = a
  BY <1>1, <1>4, <1>7
<1>8. CASE q = p
  BY <1>3, <1>6, <1>8
<1> QED
  BY <1>7, <1>8

\* A block lies on its level and its address in its tree.
LEMMA BlockFacts ==
  ASSUME NEW b \in Block
  PROVE  /\ b.tree \in Tree /\ b.depth \in Depth /\ b.page \in Nat
         /\ b.node \in Level(b.depth) /\ b.node \in Node
         /\ b = BlockAt(b.tree, b.node, b.depth)
<1>1. PICK d \in Depth : \E t \in Tree, n \in Level(d) : b = BlockAt(t, n, d)
  BY DEF Block
<1>6. PICK t \in Tree, n \in Level(d) : b = BlockAt(t, n, d)
  BY <1>1
<1>2. n \in Node /\ n - FirstAt(d) \in Nat
  BY Levels, BuddyAssumption, PowerAssumption DEF Level, FirstAt, Depth
<1>3. MaxDepth - d \in 0 .. MaxDepth
  BY BuddyAssumption DEF Depth
<1>4. 2^(MaxDepth - d) \in Nat
  BY <1>3, PowerAssumption
<1>5. PageOf(n, d) \in Nat
  BY <1>2, <1>4 DEF PageOf
<1> QED
  BY <1>2, <1>5, <1>6 DEF BlockAt

\* What a context takes off its stack is one of the entries it held.
LEMMA PopFacts ==
  ASSUME TypeOK, LevelsRight, NEW c \in Context, stack[c] # << >>
  PROVE  /\ Rest(c) \in Seq(EntryType)
         /\ Top(c) \in Held(c) /\ Top(c) \in EntryType
         /\ {Rest(c)[i] : i \in 1 .. Len(Rest(c))} \subseteq Held(c)
         /\ Top(c).node \in Level(Top(c).depth) /\ Top(c).depth <= want[c]
<1>1. stack[c] \in Seq(EntryType)
  BY DEF TypeOK
<1>2. /\ Rest(c) \in Seq(EntryType)
      /\ Top(c) \in Held(c) /\ Top(c) \in EntryType
      /\ {Rest(c)[i] : i \in 1 .. Len(Rest(c))} \subseteq Held(c)
  BY <1>1, StackPop DEF Rest, Top, Held
<1> QED
  BY <1>2 DEF LevelsRight

\* Types and levels hold whatever handlers do: neither asks for Calm.
LEMMA TypeStep ==
  ASSUME TypeOK, LevelsRight, [Next]_vars
  PROVE  TypeOK' /\ LevelsRight'
<1>0. \A c \in Context : /\ stack[c] \in Seq(EntryType)
                         /\ want[c] \in Depth /\ tree[c] \in Tree
                         /\ cur[c].node \in Nat /\ cur[c].depth \in Depth
  BY DEF TypeOK
<1>1. 1 \in Depth /\ MetaDepth \in Depth /\ 0 \in Tree /\ Root \in EntryType
     /\ << Root >> \in Seq(EntryType) /\ << >> \in Seq(EntryType)
  <2>1. 1 \in Depth /\ MetaDepth \in Depth /\ 0 \in Tree /\ Root \in EntryType
    BY BuddyAssumption, Shape DEF Depth, Tree, Root, EntryType
  <2> QED
    BY <2>1
<1>2. Root.node \in Level(Root.depth) /\ \A d \in Depth : Root.depth <= d
  BY Levels DEF Root, Depth
<1>3. ASSUME NEW c \in Context, NEW d \in Depth, Call(c, d)
      PROVE  TypeOK' /\ LevelsRight'
  <2>1. TypeOK'
    <3>1. stack' \in [Context -> Seq(EntryType)]
      BY <1>0, <1>1, <1>3 DEF Call, TypeOK
    <3>2. preempted' \in BOOLEAN
      BY <1>3 DEF Call, TypeOK
    <3> QED
      BY <3>1, <3>2, <1>0, <1>1, <1>3 DEF Call, TypeOK
  <2>2. Held(c)' = {Root} /\ \A k \in Context \ {c} : Held(k)' = Held(k)
    <3>1. stack'[c] = << Root >> /\ Len(<< Root >>) = 1 /\ << Root >>[1] = Root
      BY <1>0, <1>3 DEF Call, TypeOK
    <3>2. \A k \in Context \ {c} : stack'[k] = stack[k]
      BY <1>0, <1>3 DEF Call, TypeOK
    <3> QED
      BY <3>1, <3>2 DEF Held
  <2>3. LevelsRight'
    BY <2>2, <1>0, <1>2, <1>3 DEF Call, LevelsRight, TypeOK
  <2> QED
    BY <2>1, <2>3
<1>4. ASSUME NEW c \in Context, PopClear(c)
      PROVE  TypeOK' /\ LevelsRight'
  <2>1. stack[c] # << >>
    BY <1>4 DEF PopClear
  <2>2. TypeOK'
    <3>1. stack' \in [Context -> Seq(EntryType)]
      BY <2>1, <1>0, <1>4, PopFacts DEF PopClear, TypeOK
    <3>2. cur' \in [Context -> [node : Nat, depth : Depth]]
      <4>1. Top(c) \in [node : Nat, depth : Depth]
        BY <2>1, PopFacts, Shape DEF EntryType
      <4> QED
        BY <4>1, <1>4 DEF PopClear, TypeOK
    <3> QED
      BY <3>1, <3>2, <1>4 DEF PopClear, TypeOK
  <2>3. Held(c)' \subseteq Held(c) /\ \A k \in Context \ {c} : Held(k)' = Held(k)
    BY <2>1, <1>0, <1>4, PopFacts DEF PopClear, Held, TypeOK
  <2>4. Top(c).depth # want[c] => Top(c).depth < want[c]
    BY <2>1, <1>0, PopFacts, BuddyAssumption DEF Depth, EntryType
  <2>5. LevelsRight'
    BY <2>1, <2>3, <2>4, <1>0, <1>4, PopFacts DEF PopClear, LevelsRight, TypeOK
  <2> QED
    BY <2>2, <2>5
<1>5. ASSUME NEW c \in Context, PopSet(c)
      PROVE  TypeOK' /\ LevelsRight'
  <2> DEFINE n == Top(c).node
             d == Top(c).depth
             l == Entry(LC(n), d + 1)
             r == Entry(RC(n), d + 1)
  <2>1. stack[c] # << >>
    BY <1>5 DEF PopSet
  <2>2. CASE stack' = [stack EXCEPT ![c] = Rest(c)]
    <3>1. TypeOK'
      BY <2>1, <2>2, <1>0, <1>5, PopFacts DEF PopSet, TypeOK
    <3>2. Held(c)' \subseteq Held(c) /\ \A k \in Context \ {c} : Held(k)' = Held(k)
      BY <2>1, <2>2, <1>0, PopFacts DEF Held, TypeOK
    <3> QED
      BY <3>1, <3>2, <1>0, <1>5 DEF PopSet, LevelsRight, TypeOK
  <2>3. CASE /\ d # want[c]
             /\ stack' = [stack EXCEPT ![c] = Rest(c) \o Branches(tree[c], n, d)]
    <3>1. d + 1 \in Depth /\ d + 1 <= want[c]
      BY <2>1, <2>3, <1>0, PopFacts, BuddyAssumption DEF Depth, EntryType
    <3>2. /\ l \in EntryType /\ l.node \in Level(l.depth) /\ l.depth <= want[c]
          /\ r \in EntryType /\ r.node \in Level(r.depth) /\ r.depth <= want[c]
      BY <2>1, <3>1, <1>0, PopFacts, Levels DEF Entry, EntryType
    <3>3. Branches(tree[c], n, d) = << l, r >> \/ Branches(tree[c], n, d) = << r, l >>
      BY DEF Branches
    <3>4. /\ stack'[c] \in Seq(EntryType)
          /\ Held(c)' \subseteq Held(c) \cup {l, r}
      <4> HIDE DEF l, r
      <4>1. stack'[c] = Rest(c) \o << l, r >> \/ stack'[c] = Rest(c) \o << r, l >>
        BY <2>3, <3>3, <1>0 DEF TypeOK
      <4>2. /\ stack'[c] \in Seq(EntryType)
            /\ {stack'[c][i] : i \in 1 .. Len(stack'[c])} \subseteq
                 {Rest(c)[i] : i \in 1 .. Len(Rest(c))} \cup {l, r}
        <5>1. CASE stack'[c] = Rest(c) \o << l, r >>
          BY <5>1, <2>1, <3>2, PopFacts, StackPush
        <5>2. CASE stack'[c] = Rest(c) \o << r, l >>
          BY <5>2, <2>1, <3>2, PopFacts, StackPush
        <5> QED
          BY <4>1, <5>1, <5>2
      <4> QED
        BY <4>2, <2>1, PopFacts DEF Held
    <3>5. TypeOK'
      BY <2>3, <3>4, <1>0, <1>5 DEF PopSet, TypeOK
    <3>6. \A k \in Context \ {c} : Held(k)' = Held(k)
      BY <2>3, <1>0 DEF Held, TypeOK
    <3> QED
      <4> HIDE DEF l, r
      <4>1. want' = want /\ cur' = cur /\ pc' = pc
        BY <1>5 DEF PopSet
      <4>2. LevelsRight'
        BY <3>2, <3>4, <3>6, <4>1 DEF LevelsRight
      <4> QED
        BY <3>5, <4>2
  <2> QED
    BY <2>2, <2>3, <1>5 DEF PopSet
<1>6. ASSUME NEW c \in Context, Descend(c)
      PROVE  TypeOK' /\ LevelsRight'
  <2> DEFINE l == Entry(LC(cur[c].node), cur[c].depth + 1)
  <2>1. cur[c].depth + 1 \in Depth /\ cur[c].depth + 1 <= want[c]
    BY <1>0, <1>6, BuddyAssumption DEF Descend, LevelsRight, Depth
  <2>2. l \in EntryType /\ l.node \in Level(l.depth) /\ l.depth <= want[c]
    BY <2>1, <1>0, <1>6, Levels DEF Descend, LevelsRight, Entry, EntryType
  <2>3. stack'[c] \in Seq(EntryType) /\ Held(c)' \subseteq Held(c) \cup {l}
    <3> HIDE DEF l
    <3>1. stack'[c] = Append(stack[c], l)
      BY <1>0, <1>6 DEF Descend, TypeOK, l
    <3>2. /\ stack'[c] \in Seq(EntryType)
          /\ {stack'[c][i] : i \in 1 .. Len(stack'[c])} \subseteq
               {stack[c][i] : i \in 1 .. Len(stack[c])} \cup {l, l}
      BY <3>1, <2>2, <1>0, StackPush
    <3> QED
      BY <3>2 DEF Held
  <2>4. TypeOK'
    BY <2>3, <1>0, <1>6 DEF Descend, TypeOK
  <2>5. \A k \in Context \ {c} : Held(k)' = Held(k)
    BY <1>0, <1>6 DEF Descend, Held, TypeOK
  <2> HIDE DEF l
  <2>6. LevelsRight'
    BY <2>2, <2>3, <2>5, <1>0, <1>6 DEF Descend, LevelsRight, TypeOK
  <2> QED
    BY <2>4, <2>6
<1>7. ASSUME NEW c \in Context, Claim(c)
      PROVE  TypeOK' /\ LevelsRight'
  <2>1. BlockAt(tree[c], cur[c].node, cur[c].depth) \in Block
    BY <1>0, <1>7 DEF Claim, LevelsRight, Block
  <2>2. TypeOK'
    <3>1. stack' \in [Context -> Seq(EntryType)]
      BY <1>0, <1>1, <1>7 DEF Claim, Return, TypeOK
    <3>2. bits' \in [(0 .. TreeCount) \X (0 .. Slots - 1) -> BOOLEAN]
      BY <1>7 DEF Claim, TypeOK
    <3>3. /\ cur' \in [Context -> [node : Nat, depth : Depth]]
          /\ want' \in [Context -> Depth] /\ tree' \in [Context -> Tree]
      BY <1>1, <1>7, Shape DEF Claim, Return, TypeOK, Root
    <3>4. victim' \in Block \cup {NoBlock}
      BY <1>7 DEF Claim, Return, TypeOK
    <3> QED
      BY <3>1, <3>2, <3>3, <3>4, <2>1, <1>7 DEF Claim, Return, TypeOK
  <2>3. Held(c)' = {} /\ \A k \in Context \ {c} : Held(k)' = Held(k)
    BY <1>0, <1>7 DEF Claim, Return, Held, TypeOK
  <2>4. LevelsRight'
    BY <2>3, <1>0, <1>7 DEF Claim, Return, LevelsRight, TypeOK
  <2> QED
    BY <2>2, <2>4
<1>8. ASSUME NEW c \in Context, NextTree(c)
      PROVE  TypeOK' /\ LevelsRight'
  <2>1. TypeOK'
    <3>1. CASE tree[c] + 1 < TreeCount
      <4>1. tree[c] + 1 \in Tree
        BY <3>1, <1>0, BuddyAssumption DEF Tree
      <4>2. tree' \in [Context -> Tree] /\ stack' \in [Context -> Seq(EntryType)]
        BY <4>1, <3>1, <1>0, <1>1, <1>8 DEF NextTree, TypeOK
      <4> QED
        BY <4>2, <3>1, <1>8 DEF NextTree, TypeOK
    <3>2. CASE ~(tree[c] + 1 < TreeCount)
      BY <3>2, <1>8 DEF NextTree, TypeOK
    <3> QED
      BY <3>1, <3>2
  <2>2. Held(c)' \subseteq Held(c) \cup {Root} /\ \A k \in Context \ {c} : Held(k)' = Held(k)
    <3>1. stack'[c] = stack[c]
          \/ (stack'[c] = << Root >> /\ Len(<< Root >>) = 1 /\ << Root >>[1] = Root)
      BY <1>0, <1>8 DEF NextTree, TypeOK
    <3>2. \A k \in Context \ {c} : stack'[k] = stack[k]
      BY <1>0, <1>8 DEF NextTree, TypeOK
    <3> QED
      BY <3>1, <3>2 DEF Held
  <2>3. want' = want /\ cur' = cur
    BY <1>8 DEF NextTree
  <2>4. \A k \in Context : pc'[k] \in {"claim", "descend"} => pc'[k] = pc[k]
    BY <1>8 DEF NextTree, TypeOK
  <2>5. LevelsRight'
    BY <2>2, <2>3, <2>4, <1>0, <1>2 DEF LevelsRight
  <2> QED
    BY <2>1, <2>5
<1>9. ASSUME NEW b \in blocks, Kfree(b)
      PROVE  TypeOK' /\ LevelsRight'
  <2>1. b \in Block
    BY DEF TypeOK
  <2>2. b.tree \in Tree /\ b.page \in Nat
    BY <2>1, BlockFacts
  <2>3. Entry(FreeStart(b), MaxDepth) \in [node : Nat, depth : Depth]
    BY <2>2, Shape, BuddyAssumption DEF Entry, FreeStart, Depth
  <2>4. TypeOK'
    BY <2>1, <2>2, <2>3, <1>9 DEF Kfree, TypeOK
  <2>5. stack' = stack /\ want' = want /\ \A k \in Context \ {"main"} : cur'[k] = cur[k]
    BY <1>9 DEF Kfree, TypeOK
  <2>6. \A k \in Context : pc'[k] \in {"claim", "descend"} => k # "main" /\ pc'[k] = pc[k]
    BY <1>9 DEF Kfree, TypeOK
  <2>7. LevelsRight'
    BY <2>5, <2>6 DEF LevelsRight, Held
  <2> QED
    BY <2>4, <2>7
<1>10. ASSUME FreeStep
       PROVE  TypeOK' /\ LevelsRight'
  <2>1. \A n \in Nat : n # 0 => P(n) \in Nat
    BY DEF P
  <2>2. "main" \in Context
    BY DEF Context
  <2>3. CASE Return("main")
    <3>1. /\ stack' \in [Context -> Seq(EntryType)]
          /\ want' \in [Context -> Depth] /\ tree' \in [Context -> Tree]
          /\ cur' \in [Context -> [node : Nat, depth : Depth]]
      BY <2>3, <1>0, <1>1, Shape DEF Return, TypeOK, Root
    <3>2. bits' \in [(0 .. TreeCount) \X (0 .. Slots - 1) -> BOOLEAN]
      BY <1>10, <2>3 DEF FreeStep, Walk, Unset, Merge, TypeOK
    <3>3. blocks' \subseteq Block /\ preempted' = preempted
      BY <1>10 DEF FreeStep, Walk, Unset, Merge, TypeOK
    <3>4. TypeOK'
      BY <3>1, <3>2, <3>3, <2>3 DEF Return, TypeOK
    <3>5. Held("main")' = {} /\ \A k \in Context \ {"main"} : Held(k)' = Held(k)
      BY <1>0, <2>2, <2>3 DEF Return, Held, TypeOK
    <3>6. LevelsRight'
      BY <3>5, <2>3 DEF Return, LevelsRight, TypeOK
    <3> QED
      BY <3>4, <3>6
  <2>4. CASE UNCHANGED << want, tree, stack >> /\ pc'["main"] \in {"walk", "unset", "merge"}
    <3>1. cur' \in [Context -> [node : Nat, depth : Depth]]
      <4> DEFINE n == cur["main"].node
      <4>1. \/ cur' = cur
            \/ n # 0 /\ cur' = [cur EXCEPT !["main"].node = P(n)]
        BY <1>10, <2>4, <2>2 DEF FreeStep, Walk, Unset, Merge, Return, TypeOK
      <4>2. ASSUME n # 0 PROVE P(n) \in Nat
        BY <4>2, <2>1, <1>0, <2>2
      <4> HIDE DEF n
      <4> QED
        BY <4>1, <4>2, ZenonT(40) DEF TypeOK
    <3>2. bits' \in [(0 .. TreeCount) \X (0 .. Slots - 1) -> BOOLEAN]
      BY <1>10 DEF FreeStep, Walk, Unset, Merge, TypeOK
    <3>3. /\ blocks' \subseteq Block /\ preempted' = preempted
          /\ victim' \in Block \cup {NoBlock}
      BY <1>10 DEF FreeStep, Walk, Unset, Merge, Return, TypeOK
    <3>4. \A k \in Context \ {"main"} : pc'[k] = pc[k] /\ cur'[k] = cur[k]
      BY <1>10 DEF FreeStep, Walk, Unset, Merge, Return, TypeOK
    <3>5. pc' \in [Context -> {"idle", "loop", "claim", "descend", "walk", "unset", "merge", "halt"}]
      BY <1>10 DEF FreeStep, Walk, Unset, Merge, Return, TypeOK
    <3>6. TypeOK'
      BY <3>1, <3>2, <3>3, <3>5, <2>4 DEF TypeOK
    <3>7. LevelsRight'
      BY <3>4, <2>4 DEF LevelsRight, Held
    <3> QED
      BY <3>6, <3>7
  <2> QED
    BY <2>2, <2>3, <2>4, <1>10 DEF FreeStep, Walk, Unset, Merge, TypeOK
<1>11. CASE UNCHANGED vars
  BY <1>11 DEF vars, TypeOK, LevelsRight, Held
<1> QED
  BY <1>3, <1>4, <1>5, <1>6, <1>7, <1>8, <1>9, <1>10, <1>11 DEF Next, AllocStep

-----------------------------------------------------------------------------
(* What one write of a bit does to the trees *)

\* get_bit, at a node of a tree.
LEMMA BitRead ==
  ASSUME TypeOK, NEW t \in Tree, NEW n \in Node
  PROVE  IsSet(t, n) = bits[<< t, n >>] /\ IsSet(t, n) \in BOOLEAN
<1>1. << t, n >> \in (0 .. TreeCount) \X (0 .. Slots - 1)
  BY Shape, BuddyAssumption DEF Tree, Node
<1> QED
  BY <1>1, LocNode DEF IsSet, TypeOK

\* SET and CLEAR of a node change its bit and no other.
LEMMA BitWrite ==
  ASSUME TypeOK, NEW t \in Tree, NEW n \in Node, NEW v \in BOOLEAN,
         bits' = [bits EXCEPT ![Loc(t, n)] = v]
  PROVE  \A s \in Tree, x \in Node :
           IsSet(s, x)' = IF s = t /\ x = n THEN v ELSE IsSet(s, x)
<1> SUFFICES ASSUME NEW s \in Tree, NEW x \in Node
             PROVE  IsSet(s, x)' = IF s = t /\ x = n THEN v ELSE IsSet(s, x)
  OBVIOUS
<1>1. << s, x >> \in DOMAIN bits /\ << t, n >> \in DOMAIN bits
  BY Shape, BuddyAssumption DEF Tree, Node, TypeOK
<1>2. IsSet(s, x)' = bits'[<< s, x >>]
  BY LocNode DEF IsSet, Loc
<1>3. IsSet(s, x) = bits[<< s, x >>]
  BY LocNode DEF IsSet
<1>4. bits' = [bits EXCEPT ![<< t, n >>] = v]
  BY LocNode
<1> QED
  BY <1>1, <1>2, <1>3, <1>4

\* Setting a node that the search has reached keeps the trees in order.
LEMMA SetSafe ==
  ASSUME TypeOK, Calm, ParentsSet, BlocksAreLeaves,
         NEW t \in Tree, NEW n \in Node, Ready(t, n),
         bits' = [bits EXCEPT ![Loc(t, n)] = TRUE]
  PROVE  /\ \A s \in Tree, x \in Node : IsSet(s, x) => IsSet(s, x)'
         /\ IsSet(t, n)'
         /\ \A s \in Tree : \A x \in Node \ {0} : IsSet(s, x)' => IsSet(s, P(x))'
         /\ \A b \in blocks : IsSet(b.tree, b.node)' /\ \A x \in Children(b.node) : ~IsSet(b.tree, x)'
<1>1. \A s \in Tree, x \in Node :
        IsSet(s, x)' = IF s = t /\ x = n THEN TRUE ELSE IsSet(s, x)
  BY BitWrite
<1>2. \A x \in Node \ {0} : P(x) \in Node
  BY Shape
<1>3. \A s \in Tree : \A x \in Node \ {0} : IsSet(s, x)' => IsSet(s, P(x))'
  BY <1>1, <1>2 DEF ParentsSet, Ready
<1>4. ASSUME NEW b \in blocks
      PROVE  IsSet(b.tree, b.node)' /\ \A x \in Children(b.node) : ~IsSet(b.tree, x)'
  <2>1. b.tree \in Tree /\ b.node \in Node
    BY BlockFacts DEF TypeOK
  <2>2. \A x \in Children(b.node) : x \in Node /\ x # 0 /\ P(x) = b.node
    BY <2>1, Shape
  <2>3. \A x \in Children(b.node) : ~(b.tree = t /\ x = n)
    BY <2>2 DEF Ready, NoBlockAt
  <2> QED
    BY <1>1, <2>1, <2>2, <2>3 DEF BlocksAreLeaves
<1> QED
  BY <1>1, <1>3, <1>4

\* Clearing a node that has no set child and is no block keeps them in order too.
LEMMA ClearSafe ==
  ASSUME TypeOK, Calm, ParentsSet, BlocksAreLeaves,
         NEW t \in Tree, NEW n \in Node,
         \A x \in Children(n) : ~IsSet(t, x),
         bits' = [bits EXCEPT ![Loc(t, n)] = FALSE],
         NEW keep \in SUBSET blocks,
         \A b \in keep : b.tree = t => b.node # n
  PROVE  /\ ~IsSet(t, n)'
         /\ \A s \in Tree, x \in Node : s # t \/ x # n => IsSet(s, x)' = IsSet(s, x)
         /\ \A s \in Tree : \A x \in Node \ {0} : IsSet(s, x)' => IsSet(s, P(x))'
         /\ \A b \in keep : IsSet(b.tree, b.node)' /\ \A x \in Children(b.node) : ~IsSet(b.tree, x)'
<1>1. \A s \in Tree, x \in Node :
        IsSet(s, x)' = IF s = t /\ x = n THEN FALSE ELSE IsSet(s, x)
  BY BitWrite
<1>2. \A x \in Node \ {0} : P(x) \in Node /\ x \in Children(P(x))
  BY Shape
<1>3. \A s \in Tree : \A x \in Node \ {0} : IsSet(s, x)' => IsSet(s, P(x))'
  BY <1>1, <1>2 DEF ParentsSet
<1>4. ASSUME NEW b \in keep
      PROVE  IsSet(b.tree, b.node)' /\ \A x \in Children(b.node) : ~IsSet(b.tree, x)'
  <2>1. b \in blocks /\ b.tree \in Tree /\ b.node \in Node
    BY BlockFacts DEF TypeOK
  <2>2. \A x \in Children(b.node) : x \in Node
    BY <2>1, Shape
  <2> QED
    BY <1>1, <2>1, <2>2 DEF BlocksAreLeaves
<1> QED
  BY <1>1, <1>3, <1>4

\* Everything strictly below a block is clear.
LEMMA ClearBelow ==
  ASSUME TypeOK, Calm, ParentsSet, BlocksAreLeaves,
         NEW b \in blocks, NEW m \in Desc[b.node], m # b.node
  PROVE  ~IsSet(b.tree, m)
<1> DEFINE S == {b.node} \cup {x \in Node : ~IsSet(b.tree, x)}
<1>1. b.tree \in Tree /\ b.node \in Node
  BY BlockFacts DEF TypeOK
<1>2. ASSUME NEW x \in S, NEW y \in Children(x)
      PROVE  y \in S
  <2>1. x \in Node /\ y \in Node \ {0} /\ P(y) = x
    BY <1>1, Shape
  <2> QED
    BY <1>1, <2>1 DEF ParentsSet, BlocksAreLeaves
<1>3. S \in SUBSET Node /\ b.node \in S /\ ClosedDown(S)
  BY <1>1, <1>2 DEF ClosedDown
<1>4. Desc[b.node] \subseteq S
  <2> HIDE DEF S
  <2> QED
    BY <1>1, <1>3, DescLeast
<1> QED
  BY <1>4

\* A node of one tree is at most one block.
LEMMA OneBlockPerNode ==
  ASSUME TypeOK, NEW a \in blocks, NEW b \in blocks, a.tree = b.tree, a.node = b.node
  PROVE  a = b
<1>1. a \in Block /\ b \in Block
  BY DEF TypeOK
<1>2. a.depth = b.depth
  BY <1>1, BlockFacts, Levels
<1> QED
  BY <1>1, <1>2, BlockFacts

\* Blocks are leaves among the set nodes, so none is inside another.
LEMMA InvNoOverlap == IInv => NoOverlap
<1> SUFFICES ASSUME IInv, Calm, NEW a \in blocks, NEW b \in blocks, a # b, Overlaps(a, b)
             PROVE  FALSE
  BY DEF NoOverlap
<1>1. /\ a.tree \in Tree /\ a.node \in Node
      /\ b.tree \in Tree /\ b.node \in Node
  BY BlockFacts DEF IInv, TypeOK
<1>2. a.tree = b.tree /\ a.node # b.node
  BY OneBlockPerNode DEF Overlaps, IInv
<1>3. a.node \in Desc[b.node] \/ b.node \in Desc[a.node]
  BY <1>1, DescNested DEF Overlaps
<1>4. IsSet(a.tree, a.node) /\ IsSet(b.tree, b.node)
  BY DEF IInv, BlocksAreLeaves
<1> QED
  BY <1>2, <1>3, <1>4, ClearBelow DEF IInv

-----------------------------------------------------------------------------
(* The invariant *)

\* The state after the trees are cleared.
LEMMA InvInit == Init => IInv
<1> SUFFICES ASSUME Init PROVE IInv
  OBVIOUS
<1>1. 1 \in Depth /\ MetaDepth \in Depth /\ 0 \in Tree /\ Root \in EntryType
  BY BuddyAssumption, Shape DEF Depth, Tree, Root, EntryType
<1>2. << Root >> \in Seq(EntryType) /\ << >> \in Seq(EntryType)
  BY <1>1
<1>3. TypeOK
  BY <1>1, <1>2, Shape DEF Init, TypeOK, Context, Root
<1>4. \A c \in Context : Held(c) \subseteq {Root}
  BY DEF Init, Held
<1>5. Root.node = 0 /\ Root.depth = 1 /\ 0 \in Level(1) /\ 1 <= MetaDepth
  BY Levels, BuddyAssumption DEF Root
<1>6. LevelsRight
  BY <1>4, <1>5 DEF Init, LevelsRight, Context
<1>7. OneCall
  BY DEF Init, OneCall, Context
<1>8. \A t \in Tree, n \in Node : ~IsSet(t, n)
  <2> SUFFICES ASSUME NEW t \in Tree, NEW n \in Node PROVE ~IsSet(t, n)
    OBVIOUS
  <2>1. << t, n >> \in (0 .. TreeCount) \X (0 .. Slots - 1)
    BY Shape, BuddyAssumption DEF Tree, Node
  <2> QED
    BY <2>1, <1>3, BitRead DEF Init
<1>9. ParentsSet /\ BlocksAreLeaves
  BY <1>8 DEF Init, ParentsSet, BlocksAreLeaves
<1>10. FreeFrame /\ \A c \in Context : SearchFrame(c)
  <2>1. pc["main"] = "loop" /\ pc["irq"] = "idle"
    BY DEF Init, Context
  <2>2. \A c \in Context : \A e \in Held(c) : Ready(tree[c], e.node)
    BY <1>4, <1>5 DEF Ready
  <2> QED
    BY <2>1, <2>2 DEF FreeFrame, SearchFrame, Context
<1> QED
  BY <1>3, <1>6, <1>7, <1>9, <1>10 DEF IInv

\* A step that writes no bit and moves no block changes nothing that is said of them.
Same ==
  /\ \A t, n : IsSet(t, n)' = IsSet(t, n) /\ NoBlockAt(t, n)' = NoBlockAt(t, n)
               /\ Ready(t, n)' = Ready(t, n)
  /\ Calm => (Calm' => (ParentsSet => ParentsSet') /\ (BlocksAreLeaves => BlocksAreLeaves'))

\* What is said of bits and blocks stays true while neither changes.
LEMMA SameBits == ASSUME bits' = bits, blocks' = blocks PROVE Same
<1>1. \A t, n : IsSet(t, n)' = IsSet(t, n) /\ NoBlockAt(t, n)' = NoBlockAt(t, n)
  BY DEF IsSet, Loc, NoBlockAt
<1>2. \A t, n : Ready(t, n)' = Ready(t, n)
  BY <1>1 DEF Ready
<1>3. Calm => (Calm' => (ParentsSet => ParentsSet') /\ (BlocksAreLeaves => BlocksAreLeaves'))
  BY <1>1 DEF ParentsSet, BlocksAreLeaves
<1> QED
  BY <1>1, <1>2, <1>3 DEF Same

\* The steps of the search.  While it runs the other context is idle.
LEMMA InvAlloc ==
  ASSUME IInv, NEW c \in Context, AllocStep(c), TypeOK', LevelsRight'
  PROVE  IInv'
<1> SUFFICES ASSUME Calm'
             PROVE  OneCall' /\ ParentsSet' /\ BlocksAreLeaves' /\ FreeFrame'
                    /\ \A k \in Context : SearchFrame(k)'
  BY DEF IInv, OneCall, ParentsSet, BlocksAreLeaves, Calm
<1>0. /\ Calm /\ TypeOK /\ LevelsRight /\ OneCall /\ ParentsSet /\ BlocksAreLeaves
      /\ FreeFrame /\ SearchFrame(c)
  BY DEF IInv, AllocStep, PopClear, PopSet, Descend, Claim, NextTree, Calm
<1>1. pc[c] \in {"loop", "claim", "descend"} /\ tree[c] \in Tree
  BY <1>0 DEF AllocStep, PopClear, PopSet, Descend, Claim, NextTree, TypeOK
<1>2. \A k \in Context \ {c} : pc[k] = "idle" /\ pc'[k] = "idle"
  BY <1>0, <1>1 DEF OneCall, AllocStep, PopClear, PopSet, Descend, Claim, NextTree, Return, TypeOK, Context
<1>3. pc'[c] \notin {"walk", "unset", "merge"}
  BY <1>0 DEF AllocStep, PopClear, PopSet, Descend, Claim, NextTree, Return, TypeOK
<1>4. FreeFrame' /\ OneCall' /\ \A k \in Context \ {c} : SearchFrame(k)'
  BY <1>2, <1>3 DEF FreeFrame, OneCall, SearchFrame, Context
<1>5. CASE PopClear(c)
  <2>1. stack[c] # << >> /\ pc[c] = "loop" /\ bits' = bits /\ blocks' = blocks /\ tree' = tree
    BY <1>5 DEF PopClear
  <2>2. Same
    BY <2>1, SameBits
  <2>3. cur'[c] = Top(c) /\ Held(c)' \subseteq Held(c) /\ Top(c) \in Held(c)
    <3>1. cur'[c] = Top(c) /\ stack'[c] = Rest(c)
      BY <1>0, <1>5 DEF PopClear, TypeOK
    <3> QED
      BY <1>0, <2>1, <3>1, PopFacts DEF Held
  <2>4. \A e \in Held(c) : Ready(tree[c], e.node)
    BY <1>0, <2>1 DEF SearchFrame
  <2>5. ~IsSet(tree[c], Top(c).node)
    BY <1>5 DEF PopClear
  <2>6. SearchFrame(c)'
    BY <2>1, <2>2, <2>3, <2>4, <2>5 DEF SearchFrame, Same
  <2> QED
    BY <1>0, <1>4, <2>2, <2>6 DEF Same
<1>6. CASE PopSet(c)
  <2> DEFINE n == Top(c).node
             l == Entry(LC(n), Top(c).depth + 1)
             r == Entry(RC(n), Top(c).depth + 1)
  <2>1. /\ stack[c] # << >> /\ pc[c] = "loop"
        /\ bits' = bits /\ blocks' = blocks /\ tree' = tree /\ pc' = pc
    BY <1>6 DEF PopSet
  <2>2. Same
    BY <2>1, SameBits
  <2>3. \A e \in Held(c) : Ready(tree[c], e.node)
    BY <1>0, <2>1 DEF SearchFrame
  <2>4. CASE stack'[c] = Rest(c)
    <3>1. Held(c)' \subseteq Held(c)
      BY <1>0, <2>1, <2>4, PopFacts DEF Held
    <3> QED
      BY <1>0, <1>4, <2>1, <2>2, <2>3, <3>1 DEF SearchFrame, Same
  <2>5. CASE stack'[c] # Rest(c)
    <3>1. /\ Top(c).depth # want[c] /\ ~Leafless(tree[c], n)
          /\ stack'[c] = Rest(c) \o Branches(tree[c], n, Top(c).depth)
      BY <1>0, <1>6, <2>5 DEF PopSet, TypeOK
    <3>2. n \in Node /\ LC(n) \in Node /\ RC(n) \in Node /\ Top(c).depth + 1 \in Depth
      <4>1. /\ Top(c).depth \in Depth /\ n \in Level(Top(c).depth)
            /\ Top(c).depth <= want[c] /\ want[c] \in Depth
        BY <1>0, <2>1, PopFacts DEF EntryType, TypeOK
      <4>2. Top(c).depth + 1 \in Depth
        BY <3>1, <4>1, BuddyAssumption DEF Depth
      <4> QED
        BY <4>1, <4>2, Levels
    <3>3. /\ P(LC(n)) = n /\ P(RC(n)) = n
          /\ LC(n) \in Children(n) /\ RC(n) \in Children(n)
      BY <3>2, Shape DEF Children
    <3>4. IsSet(tree[c], n) /\ NoBlockAt(tree[c], n)
      BY <1>0, <1>6, <3>1, <3>3 DEF PopSet, Leafless, NoBlockAt, BlocksAreLeaves
    <3>5. Ready(tree[c], LC(n)) /\ Ready(tree[c], RC(n))
      BY <3>3, <3>4 DEF Ready
    <3>6. Held(c)' \subseteq Held(c) \cup {l, r}
      <4>1. l \in EntryType /\ r \in EntryType
        BY <3>2 DEF Entry, EntryType
      <4>2. stack'[c] = Rest(c) \o << l, r >> \/ stack'[c] = Rest(c) \o << r, l >>
        BY <3>1 DEF Branches
      <4> HIDE DEF l, r
      <4>3. {stack'[c][i] : i \in 1 .. Len(stack'[c])} \subseteq
              {Rest(c)[i] : i \in 1 .. Len(Rest(c))} \cup {l, r}
        <5>1. CASE stack'[c] = Rest(c) \o << l, r >>
          BY <5>1, <1>0, <2>1, <4>1, PopFacts, StackPush
        <5>2. CASE stack'[c] = Rest(c) \o << r, l >>
          BY <5>2, <1>0, <2>1, <4>1, PopFacts, StackPush
        <5> QED
          BY <4>2, <5>1, <5>2
      <4> QED
        BY <4>3, <1>0, <2>1, PopFacts DEF Held
    <3>7. \A e \in Held(c)' : Ready(tree[c], e.node)
      BY <2>3, <3>5, <3>6 DEF Entry
    <3> QED
      BY <1>0, <1>4, <2>1, <2>2, <3>7 DEF SearchFrame, Same
  <2> QED
    BY <2>4, <2>5
<1>7. CASE Descend(c)
  <2> DEFINE n == cur[c].node
             l == Entry(LC(n), cur[c].depth + 1)
  <2>1. /\ bits' = [bits EXCEPT ![Loc(tree[c], n)] = TRUE]
        /\ blocks' = blocks /\ tree' = tree /\ cur' = cur /\ pc[c] = "descend"
        /\ pc'[c] = "loop" /\ stack'[c] = Append(stack[c], l)
    BY <1>0, <1>7 DEF Descend, TypeOK
  <2>2. n \in Node /\ LC(n) \in Node /\ cur[c].depth + 1 \in Depth
    <3>1. /\ n \in Level(cur[c].depth) /\ cur[c].depth \in Depth /\ cur[c].depth < want[c]
          /\ want[c] \in Depth
      BY <1>0, <2>1 DEF LevelsRight, TypeOK
    <3>2. cur[c].depth + 1 \in Depth
      BY <3>1, BuddyAssumption DEF Depth
    <3> QED
      BY <3>1, <3>2, Levels
  <2>3. Ready(tree[c], n) /\ ~IsSet(tree[c], n)
        /\ \A e \in Held(c) : Ready(tree[c], e.node)
    BY <1>0, <2>1 DEF SearchFrame
  <2>4. /\ \A s \in Tree, x \in Node : IsSet(s, x) => IsSet(s, x)'
        /\ IsSet(tree[c], n)'
        /\ \A s \in Tree : \A x \in Node \ {0} : IsSet(s, x)' => IsSet(s, P(x))'
        /\ \A b \in blocks : IsSet(b.tree, b.node)' /\ \A x \in Children(b.node) : ~IsSet(b.tree, x)'
    BY <1>0, <1>1, <2>1, <2>2, <2>3, SetSafe
  <2>5. ParentsSet' /\ BlocksAreLeaves'
    BY <2>1, <2>4 DEF ParentsSet, BlocksAreLeaves
  <2>6. Held(c)' \subseteq Held(c) \cup {l}
    <3>1. l \in EntryType /\ stack[c] \in Seq(EntryType)
      BY <1>0, <2>2 DEF Entry, EntryType, TypeOK
    <3> HIDE DEF l
    <3>2. {stack'[c][i] : i \in 1 .. Len(stack'[c])} \subseteq
            {stack[c][i] : i \in 1 .. Len(stack[c])} \cup {l, l}
      BY <2>1, <3>1, StackPush
    <3> QED
      BY <3>2 DEF Held
  <2>7. NoBlockAt(tree[c], n) /\ P(LC(n)) = n
    BY <1>0, <2>2, <2>3, Shape DEF NoBlockAt, BlocksAreLeaves, Children
  <2>8. \A e \in Held(c) : e.node \in Node
    <3>1. stack[c] \in Seq(EntryType)
      BY <1>0 DEF TypeOK
    <3>2. \A e \in Held(c) : e \in EntryType
      BY <3>1, ElementOfSeq DEF Held
    <3> QED
      BY <3>2 DEF EntryType
  <2>9. \A e \in Held(c) : Ready(tree[c], e.node)'
    <3>1. \A e \in Held(c) : e.node # 0 => P(e.node) \in Node
      BY <2>8, Shape
    <3> QED
      BY <1>1, <2>1, <2>3, <2>4, <3>1 DEF Ready, NoBlockAt
  <2>10. Ready(tree[c], LC(n))'
    BY <2>1, <2>4, <2>7 DEF Ready, NoBlockAt
  <2>11. SearchFrame(c)'
    BY <2>1, <2>6, <2>9, <2>10 DEF SearchFrame, Entry
  <2> QED
    BY <1>4, <2>5, <2>11
<1>8. CASE Claim(c)
  <2>1. PICK t \in Tree, n \in Node : t = tree[c] /\ n = cur[c].node
    BY <1>0, <1>1, <1>8, Levels DEF Claim, LevelsRight, TypeOK
  <2>2. PICK new : new = BlockAt(t, n, cur[c].depth)
    OBVIOUS
  <2>3. /\ bits' = [bits EXCEPT ![Loc(t, n)] = TRUE]
        /\ blocks' = blocks \cup {new} /\ pc[c] = "claim" /\ pc'[c] = "idle"
    BY <1>0, <1>8, <2>1, <2>2 DEF Claim, Return, TypeOK
  <2>4. Ready(t, n) /\ ~IsSet(t, n)
    BY <1>0, <2>1, <2>3 DEF SearchFrame
  <2>5. /\ IsSet(t, n)'
        /\ \A s \in Tree : \A x \in Node \ {0} : IsSet(s, x)' => IsSet(s, P(x))'
        /\ \A b \in blocks : IsSet(b.tree, b.node)' /\ \A x \in Children(b.node) : ~IsSet(b.tree, x)'
    BY <1>0, <2>3, <2>4, SetSafe
  <2>6. \A x \in Children(n) : ~IsSet(t, x)'
    <3>1. \A x \in Children(n) : x \in Node \ {0} /\ P(x) = n /\ x # n
      BY Shape
    <3>2. \A x \in Children(n) : ~IsSet(t, x)
      BY <1>0, <2>4, <3>1 DEF ParentsSet
    <3>3. \A s \in Tree, x \in Node :
            IsSet(s, x)' = IF s = t /\ x = n THEN TRUE ELSE IsSet(s, x)
      BY <1>0, <2>3, BitWrite
    <3> QED
      BY <3>1, <3>2, <3>3
  <2>7. new.tree = t /\ new.node = n
    BY <2>2 DEF BlockAt
  <2>8. ParentsSet' /\ BlocksAreLeaves'
    BY <2>3, <2>5, <2>6, <2>7 DEF ParentsSet, BlocksAreLeaves
  <2> QED
    BY <1>4, <2>3, <2>8 DEF SearchFrame
<1>9. CASE NextTree(c)
  <2>1. bits' = bits /\ blocks' = blocks
    BY <1>9 DEF NextTree
  <2>2. Same
    BY <2>1, SameBits
  <2>3. pc'[c] = "halt" \/ (pc'[c] = "loop" /\ stack'[c] = << Root >>)
    BY <1>0, <1>9 DEF NextTree, TypeOK
  <2>4. stack'[c] = << Root >> => Held(c)' = {Root}
    BY DEF Held
  <2>5. SearchFrame(c)'
    BY <2>3, <2>4 DEF SearchFrame, Ready, Root
  <2> QED
    BY <1>0, <1>4, <2>2, <2>5 DEF Same
<1> QED
  BY <1>4, <1>5, <1>6, <1>7, <1>8, <1>9 DEF AllocStep

\* A new request: the call of a handler inside one of the kernel ends the calm.
LEMMA InvCall ==
  ASSUME IInv, NEW c \in Context, NEW d \in Depth, Call(c, d), TypeOK', LevelsRight'
  PROVE  IInv'
<1> SUFFICES ASSUME Calm'
             PROVE  OneCall' /\ ParentsSet' /\ BlocksAreLeaves' /\ FreeFrame'
                    /\ \A k \in Context : SearchFrame(k)'
  BY DEF IInv, OneCall, ParentsSet, BlocksAreLeaves, Calm
<1>1. Calm /\ \A k \in Context \ {c} : pc[k] = "idle" /\ pc'[k] = "idle"
  BY DEF Call, Calm, Runs, Context, IInv, TypeOK
<1>2. /\ pc'[c] = "loop" /\ bits' = bits /\ blocks' = blocks
      /\ stack'[c] = << Root >>
  BY DEF Call, IInv, TypeOK
<1>3. Same
  BY <1>2, SameBits
<1>4. Held(c)' = {Root}
  BY <1>2 DEF Held
<1>5. \A k \in Context : SearchFrame(k)'
  BY <1>1, <1>2, <1>4 DEF SearchFrame, Ready, Root
<1>6. FreeFrame' /\ OneCall'
  BY <1>1, <1>2 DEF FreeFrame, OneCall, Context
<1> QED
  BY <1>1, <1>3, <1>5, <1>6 DEF Same, IInv

\* kfree starts its walk beside or inside the block.
LEMMA InvKfree ==
  ASSUME IInv, NEW b \in blocks, KfreeFinds(b), Kfree(b), TypeOK', LevelsRight'
  PROVE  IInv'
<1> SUFFICES ASSUME Calm'
             PROVE  OneCall' /\ ParentsSet' /\ BlocksAreLeaves' /\ FreeFrame'
                    /\ \A k \in Context : SearchFrame(k)'
  BY DEF IInv, OneCall, ParentsSet, BlocksAreLeaves, Calm
<1>1. Calm /\ \A k \in Context : k # "main" => pc[k] = "idle" /\ pc'[k] = "idle"
  BY DEF Kfree, Calm, Runs, Context, IInv, TypeOK
<1>2. "main" \in Context
  BY DEF Context
<1>3. /\ pc'["main"] = "walk" /\ bits' = bits /\ blocks' = blocks /\ victim' = b
      /\ b # MetaBlock /\ tree'["main"] = b.tree /\ cur'["main"].node = FreeStart(b)
  BY <1>2 DEF Kfree, IInv, TypeOK, Entry
<1>4. Same
  BY <1>3, SameBits
<1>5. FreeStart(b) # 0
  <2>1. b.page \in Nat
    BY BlockFacts DEF IInv, TypeOK
  <2> QED
    BY <2>1, Shape DEF FreeStart
<1>6. FreeFrame'
  BY <1>3, <1>4, <1>5 DEF FreeFrame, KfreeFinds, Landing, Same
<1>7. OneCall' /\ \A k \in Context : SearchFrame(k)'
  BY <1>1, <1>3 DEF OneCall, SearchFrame, Context
<1> QED
  BY <1>1, <1>4, <1>6, <1>7 DEF Same, IInv

\* The steps of kfree: the walk finds the block, and clearing it, then every
\* ancestor that is left without a set child, keeps the tree in order.
LEMMA InvFree ==
  ASSUME IInv, FreeStep, TypeOK', LevelsRight'
  PROVE  IInv'
<1> SUFFICES ASSUME Calm'
             PROVE  OneCall' /\ ParentsSet' /\ BlocksAreLeaves' /\ FreeFrame'
                    /\ \A k \in Context : SearchFrame(k)'
  BY DEF IInv, OneCall, ParentsSet, BlocksAreLeaves, Calm
<1>0. /\ Calm /\ TypeOK /\ OneCall /\ ParentsSet /\ BlocksAreLeaves /\ FreeFrame
      /\ preempted' = preempted
  BY DEF IInv, FreeStep, Walk, Unset, Merge, Calm
<1>1. "main" \in Context /\ pc["main"] \in {"walk", "unset", "merge"} /\ pc["irq"] = "idle"
  BY <1>0 DEF FreeStep, Walk, Unset, Merge, Context, Runs
<1>2. /\ pc'["main"] \in {"walk", "unset", "merge", "idle"} /\ pc'["irq"] = "idle"
  BY <1>0, <1>1 DEF FreeStep, Walk, Unset, Merge, Return, TypeOK, Context
<1>3. OneCall' /\ \A k \in Context : SearchFrame(k)'
  BY <1>2 DEF OneCall, SearchFrame, Context
<1>4. PICK t \in Tree, n \in Nat : t = tree["main"] /\ n = cur["main"].node
  BY <1>0, <1>1 DEF TypeOK
<1>5. CASE Walk
  <2>1. pc["main"] = "walk" /\ bits' = bits /\ preempted' = preempted
    BY <1>5 DEF Walk
  <2>2. PICK v \in blocks : /\ v = victim /\ v # MetaBlock /\ v.tree = t /\ v.node # 0
                           /\ \/ n \in Desc[v.node]
                              \/ n # 0 /\ ~IsSet(t, n) /\ P(n) \in Desc[v.node]
    BY <1>0, <1>4, <2>1 DEF FreeFrame
  <2>3. v.node \in Node
    BY <1>0, BlockFacts DEF TypeOK
  <2>4. CASE n # 0 /\ IsSet(t, n)
    <3>1. pc'["main"] = "unset" /\ UNCHANGED << tree, cur, victim, blocks >>
      BY <1>0, <1>1, <1>4, <1>5, <2>4 DEF Walk, TypeOK
    <3>2. n = v.node
      BY <1>0, <2>2, <2>4, ClearBelow
    <3>3. Same
      BY <2>1, <3>1, SameBits
    <3>4. FreeFrame'
      BY <1>4, <2>2, <3>1, <3>2 DEF FreeFrame
    <3> QED
      BY <1>0, <1>3, <3>3, <3>4 DEF Same
  <2>5. CASE n # 0 /\ ~IsSet(t, n)
    <3>1. /\ pc' = pc /\ UNCHANGED << tree, victim, blocks >>
          /\ cur'["main"].node = P(n)
      BY <1>0, <1>1, <1>4, <1>5, <2>5 DEF Walk, TypeOK
    <3>2. IsSet(t, v.node)
      BY <1>0, <2>2 DEF BlocksAreLeaves
    <3>3. P(n) \in Desc[v.node]
      BY <2>2, <2>3, <2>5, <3>2, ParentInDesc
    <3>4. Same
      BY <2>1, <3>1, SameBits
    <3>5. FreeFrame'
      BY <1>4, <2>1, <2>2, <3>1, <3>3 DEF FreeFrame
    <3> QED
      BY <1>0, <1>3, <3>4, <3>5 DEF Same
  <2>6. CASE n = 0
    <3>1. pc'["main"] = "idle" /\ blocks' \subseteq blocks
      BY <1>0, <1>1, <1>4, <1>5, <2>6 DEF Walk, Return, TypeOK
    <3>2. \A s, x : IsSet(s, x)' = IsSet(s, x)
      BY <2>1 DEF IsSet, Loc
    <3>3. ParentsSet' /\ BlocksAreLeaves' /\ FreeFrame'
      BY <1>0, <3>1, <3>2 DEF ParentsSet, BlocksAreLeaves, FreeFrame
    <3> QED
      BY <1>3, <3>3
  <2> QED
    BY <2>4, <2>5, <2>6
<1>6. CASE Unset
  <2>1. PICK v \in blocks : v = victim /\ v.tree = t /\ v.node # 0 /\ n = v.node
    BY <1>0, <1>4, <1>6 DEF Unset, FreeFrame
  <2>2. /\ bits' = [bits EXCEPT ![Loc(t, n)] = FALSE] /\ blocks' = blocks \ {v}
        /\ pc'["main"] = "merge" /\ tree' = tree /\ cur' = cur
    BY <1>0, <1>1, <1>4, <1>6, <2>1 DEF Unset, TypeOK
  <2>3. n \in Node
    BY <1>0, <2>1, BlockFacts DEF TypeOK
  <2>4. \A x \in Children(n) : ~IsSet(t, x)
    BY <1>0, <2>1 DEF BlocksAreLeaves
  <2>5. \A b \in blocks' : b.tree = t => b.node # n
    BY <1>0, <2>1, <2>2, OneBlockPerNode
  <2>6. /\ ~IsSet(t, n)'
        /\ \A s \in Tree, x \in Node : s # t \/ x # n => IsSet(s, x)' = IsSet(s, x)
        /\ \A s \in Tree : \A x \in Node \ {0} : IsSet(s, x)' => IsSet(s, P(x))'
        /\ \A b \in blocks' : IsSet(b.tree, b.node)' /\ \A x \in Children(b.node) : ~IsSet(b.tree, x)'
    <3>1. PICK keep \in SUBSET blocks : keep = blocks'
      BY <2>2
    <3>2. \A b \in keep : b.tree = t => b.node # n
      BY <2>5, <3>1
    <3>3. /\ ~IsSet(t, n)'
          /\ \A s \in Tree, x \in Node : s # t \/ x # n => IsSet(s, x)' = IsSet(s, x)
          /\ \A s \in Tree : \A x \in Node \ {0} : IsSet(s, x)' => IsSet(s, P(x))'
          /\ \A b \in keep : IsSet(b.tree, b.node)' /\ \A x \in Children(b.node) : ~IsSet(b.tree, x)'
      BY <1>0, <2>2, <2>3, <2>4, <3>2, ClearSafe
    <3> QED
      BY <3>1, <3>3
  <2>7. P(n) \in Node /\ P(n) # n /\ n \in Children(P(n))
    BY <2>1, <2>3, Shape
  <2>8. Ready(t, n)'
    <3>1. IsSet(t, P(n))'
      BY <1>0, <2>1, <2>3, <2>6, <2>7 DEF ParentsSet, BlocksAreLeaves
    <3>2. NoBlockAt(t, P(n))'
      BY <1>0, <2>1, <2>2, <2>7 DEF NoBlockAt, BlocksAreLeaves
    <3> QED
      BY <3>1, <3>2 DEF Ready
  <2>9. FreeFrame'
    BY <1>4, <2>2, <2>3, <2>6, <2>8 DEF FreeFrame
  <2> QED
    BY <1>3, <2>6, <2>9 DEF ParentsSet, BlocksAreLeaves
<1>7. CASE Merge
  <2>1. n \in Node /\ ~IsSet(t, n) /\ Ready(t, n) /\ pc["main"] = "merge" /\ blocks' = blocks
    BY <1>0, <1>4, <1>7 DEF Merge, FreeFrame
  <2>2. CASE n # 0 /\ ~IsSet(t, B(n))
    <3>1. PICK p \in Node : p = P(n)
      BY <2>1, <2>2, Shape
    <3>2. /\ bits' = [bits EXCEPT ![Loc(t, p)] = FALSE] /\ tree' = tree
          /\ pc'["main"] = "merge" /\ cur'["main"].node = p
      BY <1>0, <1>1, <1>4, <1>7, <2>1, <2>2, <3>1 DEF Merge, TypeOK
    <3>3. \A x \in Children(p) : ~IsSet(t, x)
      BY <2>1, <2>2, <3>1, Shape
    <3>4. IsSet(t, p) /\ \A b \in blocks : b.tree = t => b.node # p
      BY <2>1, <2>2, <3>1 DEF Ready, NoBlockAt
    <3>5. /\ ~IsSet(t, p)'
          /\ \A s \in Tree, x \in Node : s # t \/ x # p => IsSet(s, x)' = IsSet(s, x)
          /\ \A s \in Tree : \A x \in Node \ {0} : IsSet(s, x)' => IsSet(s, P(x))'
          /\ \A b \in blocks : IsSet(b.tree, b.node)' /\ \A x \in Children(b.node) : ~IsSet(b.tree, x)'
      <4>1. PICK keep \in SUBSET blocks : keep = blocks
        OBVIOUS
      <4>2. /\ ~IsSet(t, p)'
            /\ \A s \in Tree, x \in Node : s # t \/ x # p => IsSet(s, x)' = IsSet(s, x)
            /\ \A s \in Tree : \A x \in Node \ {0} : IsSet(s, x)' => IsSet(s, P(x))'
            /\ \A b \in keep : IsSet(b.tree, b.node)' /\ \A x \in Children(b.node) : ~IsSet(b.tree, x)'
        <5>1. \A b \in keep : b.tree = t => b.node # p
          BY <3>4, <4>1
        <5>2. bits' = [bits EXCEPT ![Loc(t, p)] = FALSE]
          BY <3>2
        <5> QED
          BY <1>0, <3>3, <5>1, <5>2, ClearSafe
      <4> QED
        BY <4>1, <4>2
    <3>6. Ready(t, p)'
      <4> SUFFICES ASSUME p # 0 PROVE IsSet(t, P(p))' /\ NoBlockAt(t, P(p))'
        BY DEF Ready
      <4>1. P(p) \in Node /\ P(p) # p /\ p \in Children(P(p))
        BY Shape
      <4>2. IsSet(t, P(p)) /\ NoBlockAt(t, P(p))
        BY <1>0, <3>4, <4>1 DEF ParentsSet, BlocksAreLeaves, NoBlockAt
      <4> QED
        BY <2>1, <3>5, <4>1, <4>2 DEF NoBlockAt
    <3>7. FreeFrame'
      BY <1>4, <3>2, <3>5, <3>6 DEF FreeFrame
    <3> QED
      BY <1>3, <2>1, <3>5, <3>7 DEF ParentsSet, BlocksAreLeaves
  <2>3. CASE ~(n # 0 /\ ~IsSet(t, B(n)))
    <3>1. bits' = bits /\ pc'["main"] = "idle"
      BY <1>0, <1>1, <1>4, <1>7, <2>3 DEF Merge, Return, TypeOK
    <3>2. Same
      BY <2>1, <3>1, SameBits
    <3> QED
      BY <1>0, <1>3, <3>1, <3>2 DEF Same, FreeFrame
  <2> QED
    BY <2>2, <2>3
<1> QED
  BY <1>5, <1>6, <1>7 DEF FreeStep

\* Every step keeps the invariant.
LEMMA InvNext == IInv /\ [Next]_vars => IInv'
<1> SUFFICES ASSUME IInv, [Next]_vars PROVE IInv'
  OBVIOUS
<1>1. TypeOK' /\ LevelsRight'
  BY TypeStep DEF IInv
<1>2. ASSUME NEW c \in Context, NEW d \in Depth, Call(c, d) PROVE IInv'
  BY <1>1, <1>2, InvCall
<1>3. ASSUME NEW c \in Context, AllocStep(c) PROVE IInv'
  BY <1>1, <1>3, InvAlloc
<1>4. ASSUME NEW b \in blocks, KfreeFinds(b), Kfree(b) PROVE IInv'
  BY <1>1, <1>4, InvKfree
<1>5. ASSUME FreeStep PROVE IInv'
  BY <1>1, <1>5, InvFree
<1>6. CASE UNCHANGED vars
  <2>1. Same
    BY <1>6, SameBits DEF vars
  <2> QED
    BY <1>1, <1>6, <2>1 DEF vars, Same, IInv, OneCall, Calm, FreeFrame, SearchFrame, Held,
                            ParentsSet, BlocksAreLeaves
<1> QED
  BY <1>2, <1>3, <1>4, <1>5, <1>6 DEF Next

\* The strengthening of NoOverlap is an invariant of the allocator.
THEOREM Invariance == Spec => []IInv
  BY InvInit, InvNext, PTL DEF Spec

\* Every variable keeps its type, whatever handlers do.
THEOREM TypeCorrect == Spec => []TypeOK
<1>1. IInv => TypeOK
  BY DEF IInv
<1> QED
  BY Invariance, <1>1, PTL

\* Blocks that are out never share memory (buddy_tree_try_alloc_depth,
\* buddy_tree_unset_merge_nodes), unless a handler has allocated inside a call.
THEOREM BlocksDisjoint == Spec => []NoOverlap
  BY Invariance, InvNoOverlap, PTL

\* A set node has a set parent, at every step of every call.
THEOREM TreeInOrder == Spec => []ParentsSet
<1>1. IInv => ParentsSet
  BY DEF IInv
<1> QED
  BY Invariance, <1>1, PTL

-----------------------------------------------------------------------------
(* Subtrees and levels *)

\* What lies in a subtree of a subtree lies in the subtree.
LEMMA DescTrans ==
  ASSUME NEW n \in Node, NEW m \in Desc[n], NEW x \in Desc[m]
  PROVE  x \in Desc[n]
<1>1. m \in Node /\ Desc[n] \in SUBSET Node /\ ClosedDown(Desc[n])
  BY DescType, DescClosed
<1> QED
  BY <1>1, DescLeast

\* Children have more than twice the number of their parent.
LEMMA ChildrenHigher ==
  ASSUME NEW n \in Node, NEW x \in Children(n)
  PROVE  x \in Node /\ x > 2 * n
<1>1. n \in Nat /\ x \in Node
  BY Shape
<1>2. x = 2 * n + 1 \/ x = 2 * n + 2
  BY DEF Children, LC, RC
<1> QED
  BY <1>1, <1>2

\* A subtree lies at its root and at higher numbers.
LEMMA DescHigher ==
  ASSUME NEW n \in Node, NEW m \in Desc[n]
  PROVE  m \in Node /\ n <= m
<1> DEFINE S == {x \in Node : n <= x}
<1>1. ASSUME NEW x \in S, NEW y \in Children(x)
      PROVE  y \in S
  BY ChildrenHigher, Shape
<1>2. S \in SUBSET Node /\ n \in S /\ ClosedDown(S)
  BY <1>1, Shape DEF ClosedDown
<1>3. m \in S
  <2> HIDE DEF S
  <2> QED
    BY <1>2, DescLeast
<1> QED
  BY <1>3

\* The subtree of the root is the tree: climbing from any node ends there.
LEMMA DescRoot == Desc[0] = Node
<1> SUFFICES ASSUME Node \ Desc[0] # {} PROVE FALSE
  BY DescType, Shape
<1>1. Node \ Desc[0] \in SUBSET Nat
  BY Shape
<1>2. PICK m \in Node \ Desc[0] : \A k \in Node \ Desc[0] : m <= k
  BY <1>1, LeastNatural
<1>3. m \in Node \ {0} /\ 0 \in Node
  BY Shape, DescClosed
<1>4. P(m) \in Node /\ m \in Children(P(m)) /\ P(m) < m
  BY <1>3, Shape DEF P
<1>5. P(m) \in Desc[0]
  BY <1>1, <1>2, <1>4, Shape
<1> QED
  BY <1>2, <1>3, <1>4, <1>5, DescClosed DEF ClosedDown

\* No other subtree has the root.
LEMMA RootOnTop ==
  ASSUME NEW n \in Node, 0 \in Desc[n]
  PROVE  n = 0
  BY ParentInDesc

\* A subtree is its root and the subtrees of the root's children.
LEMMA DescSplit ==
  ASSUME NEW n \in Node, NEW m \in Desc[n], m # n
  PROVE  \E x \in Children(n) : m \in Desc[x]
<1> DEFINE S == {n} \cup {y \in Node : \E x \in Children(n) : y \in Desc[x]}
<1>1. \A x \in Children(n) : x \in Node /\ x \in Desc[x] /\ ClosedDown(Desc[x])
  BY DescClosed DEF Children
<1>2. S \in SUBSET Node /\ n \in S /\ ClosedDown(S)
  BY <1>1 DEF ClosedDown, Children
<1>3. m \in S
  <2> HIDE DEF S
  <2> QED
    BY <1>2, DescLeast
<1> QED
  BY <1>3

\* A subtree has one node of the level of its root.
LEMMA SameLevel ==
  ASSUME NEW d \in Depth, NEW n \in Level(d), NEW m \in Level(d), m \in Desc[n]
  PROVE  m = n
<1> DEFINE F == FirstAt(d)
           S == {n} \cup {x \in Node : x > 2 * F}
<1>1. d - 1 \in 0 .. MaxDepth
  BY BuddyAssumption DEF Depth
<1>2. F \in Nat
  BY <1>1, PowerAssumption DEF FirstAt
<1>3. n \in Node /\ n >= F /\ m <= 2 * F
  BY Levels DEF Level
<1>4. ClosedDown(S)
  <2> SUFFICES ASSUME NEW x \in S, NEW y \in Children(x) PROVE y \in S
    BY DEF ClosedDown
  <2>1. x \in Nat /\ x >= F /\ y \in Node /\ y > 2 * x
    <3> HIDE DEF F
    <3> QED
      BY <1>2, <1>3, ChildrenHigher, Shape
  <2> HIDE DEF F
  <2> QED
    BY <2>1, <1>2, Shape
<1>5. m \in S
  <2>1. S \in SUBSET Node /\ n \in S
    BY <1>3
  <2> HIDE DEF S
  <2> QED
    BY <2>1, <1>3, <1>4, DescLeast
<1> HIDE DEF F
<1> QED
  BY <1>2, <1>3, <1>5, Shape

\* Every node but the root has a sibling, and neither is in the other's subtree.
LEMMA Siblings ==
  ASSUME NEW n \in Node \ {0}
  PROVE  /\ B(n) \in Node \ {0} /\ B(n) # n /\ P(B(n)) = P(n) /\ B(n) \in Children(P(n))
         /\ n \notin Desc[B(n)]
<1>1. PICK h \in Nat : Slots = 2 * h
  BY BuddyAssumption, PowerAssumption DEF Slots
<1>2. n \in Nat /\ n # 0 /\ n <= 2 * h - 2
  BY <1>1, Shape DEF Node
<1>3. PICK k \in Nat : n = 2 * k + 1 \/ n = 2 * k + 2
  <2>1. \E k \in Nat : n = 2 * k + 1 \/ n = 2 * k + 2
    <3>1. (n - 1) \div 2 \in Nat /\ (n = 2 * ((n - 1) \div 2) + 1 \/ n = 2 * ((n - 1) \div 2) + 2)
      BY <1>2
    <3> QED
      BY <3>1
  <2> QED
    BY <2>1
<1>4. B(n) \in Node \ {0} /\ B(n) # n /\ P(B(n)) = P(n)
  <2>1. CASE n = 2 * k + 1
    <3>1. n % 2 = 1 /\ B(n) = n + 1 /\ P(n) = k /\ P(n + 1) = k
      BY <2>1 DEF B, P
    <3> QED
      BY <3>1, <2>1, <1>1, <1>2 DEF Node
  <2>2. CASE n = 2 * k + 2
    <3>1. n % 2 = 0 /\ B(n) = n - 1 /\ P(n) = k /\ P(n - 1) = k
      BY <2>2 DEF B, P
    <3> QED
      BY <3>1, <2>2, <1>1, <1>2 DEF Node
  <2> QED
    BY <1>3, <2>1, <2>2
<1>5. B(n) \in Children(P(n))
  BY <1>4, Shape
<1>6. n \notin Desc[B(n)]
  <2> SUFFICES ASSUME n \in Desc[B(n)] PROVE FALSE
    OBVIOUS
  <2>1. P(B(n)) \in Desc[B(n)]
    BY <1>4, ParentInDesc
  <2>2. B(n) <= P(B(n))
    BY <1>4, <2>1, DescHigher
  <2> QED
    BY <1>4, <2>2, Shape DEF P
<1> QED
  BY <1>4, <1>5, <1>6

\* What holds of a node below holds of the nodes above it.
LEMMA CoveredAbove ==
  ASSUME NEW t, NEW n \in Node, NEW m \in Desc[n], Covered(t, m)
  PROVE  Covered(t, n)
  BY DescTrans DEF Covered

\* A set node is set all the way up.
LEMMA SetAbove ==
  ASSUME TypeOK, Calm, ParentsSet, NEW t \in Tree, NEW n \in Node, NEW m \in Desc[n], IsSet(t, m)
  PROVE  IsSet(t, n)
<1> DEFINE S == {x \in Node : IsSet(t, x) => IsSet(t, n)}
<1>1. ASSUME NEW x \in S, NEW y \in Children(x)
      PROVE  y \in S
  <2>1. x \in Node /\ y \in Node \ {0} /\ P(y) = x
    BY Shape
  <2> QED
    BY <2>1 DEF ParentsSet
<1>2. S \in SUBSET Node /\ n \in S /\ ClosedDown(S)
  BY <1>1 DEF ClosedDown
<1>3. m \in S
  <2> HIDE DEF S
  <2> QED
    BY <1>2, DescLeast
<1> QED
  BY <1>3

-----------------------------------------------------------------------------
(* Who is inside a call *)

\* While a search runs in a calm system, the other context is idle.
LEMMA SearchAlone ==
  ASSUME IInv, Calm', NEW c \in Context, AllocStep(c)
  PROVE  /\ Calm /\ pc[c] \in {"loop", "claim", "descend"}
         /\ tree[c] \in Tree /\ want[c] \in Depth
         /\ \A k \in Context \ {c} : pc[k] = "idle" /\ pc'[k] = "idle"
<1>1. Calm /\ pc[c] \in {"loop", "claim", "descend"}
  BY DEF AllocStep, PopClear, PopSet, Descend, Claim, NextTree, Calm
<1>2. tree[c] \in Tree /\ want[c] \in Depth
  BY DEF IInv, TypeOK
<1>3. \A k \in Context \ {c} : pc[k] = "idle"
  BY <1>1 DEF IInv, OneCall, Context
<1>4. \A k \in Context \ {c} : pc'[k] = pc[k]
  BY DEF AllocStep, PopClear, PopSet, Descend, Claim, NextTree, Return, IInv, TypeOK
<1> QED
  BY <1>1, <1>2, <1>3, <1>4

\* While kfree runs in a calm system, no handler is inside a call.
LEMMA FreeAlone ==
  ASSUME IInv, Calm', FreeStep
  PROVE  /\ Calm /\ pc["main"] \in {"walk", "unset", "merge"} /\ pc["irq"] = "idle"
         /\ pc'["main"] \in {"walk", "unset", "merge", "idle"} /\ pc'["irq"] = "idle"
         /\ tree["main"] \in Tree
<1>1. Calm /\ pc["main"] \in {"walk", "unset", "merge"} /\ pc["irq"] = "idle"
  BY DEF FreeStep, Walk, Unset, Merge, Runs, Context, Calm
<1>2. pc'["main"] \in {"walk", "unset", "merge", "idle"} /\ pc'["irq"] = pc["irq"]
  BY <1>1 DEF FreeStep, Walk, Unset, Merge, Return, IInv, TypeOK, Context
<1>3. tree["main"] \in Tree
  BY DEF IInv, TypeOK, Context
<1> QED
  BY <1>1, <1>2, <1>3

\* A call that begins in a calm system is the only one.
LEMMA CallAlone ==
  ASSUME IInv, Calm', NEW c \in Context, NEW d \in Depth, Call(c, d)
  PROVE  /\ Calm /\ \A k \in Context : pc[k] = "idle" /\ (k # c => pc'[k] = "idle")
         /\ pc'[c] = "loop" /\ want'[c] = d /\ tree'[c] = 0 /\ stack'[c] = << Root >>
         /\ Held(c)' = {Root} /\ bits' = bits /\ blocks' = blocks
<1>1. Calm /\ \A k \in Context : pc[k] = "idle" /\ (k # c => pc'[k] = "idle")
  BY DEF Call, Calm, Runs, Context, IInv, TypeOK
<1>2. /\ pc'[c] = "loop" /\ want'[c] = d /\ tree'[c] = 0 /\ stack'[c] = << Root >>
      /\ bits' = bits /\ blocks' = blocks
  BY DEF Call, IInv, TypeOK
<1>3. Held(c)' = {Root}
  BY <1>2 DEF Held
<1> QED
  BY <1>1, <1>2, <1>3

\* kfree begins while nothing else runs, and changes nothing in the trees yet.
LEMMA KfreeAlone ==
  ASSUME IInv, Calm', NEW b \in blocks, Kfree(b)
  PROVE  /\ Calm /\ \A k \in Context : pc[k] = "idle" /\ (k # "main" => pc'[k] = "idle")
         /\ pc'["main"] = "walk" /\ bits' = bits /\ blocks' = blocks
  BY DEF Kfree, Calm, Runs, Context, IInv, TypeOK

-----------------------------------------------------------------------------
(* Every set node is accounted for *)

\* While a search runs, what is set is covered or on the way to its aim.
LEMMA SearchOwes ==
  ASSUME IInv, Calm, Accounted, NEW c \in Context, pc[c] \in {"loop", "claim", "descend"},
         \A k \in Context \ {c} : pc[k] = "idle",
         NEW t \in Tree, NEW n \in Node, IsSet(t, n), ~Covered(t, n)
  PROVE  Falling(c) /\ tree[c] = t /\ Aim(c) \in Desc[n]
<1>1. ~Emptied(t, n)
  BY DEF Emptied, Context
<1>2. \A k \in Context \ {c} : ~Falling(k)
  BY DEF Falling
<1>3. Promised(t, n)
  BY <1>1 DEF Accounted
<1> QED
  BY <1>2, <1>3 DEF Promised

\* A search that splits a clear node goes on to the node's clear left child.
LEMMA DescendFalls ==
  ASSUME IInv, Calm, NEW c \in Context, Descend(c)
  PROVE  LET m == cur[c].node IN
         /\ m \in Node /\ LC(m) \in Children(m)
         /\ \A r \in Tree, x \in Node :
              IsSet(r, x)' = IF r = tree[c] /\ x = m THEN TRUE ELSE IsSet(r, x)
         /\ blocks' = blocks /\ want' = want /\ tree' = tree /\ pc'[c] = "loop"
         /\ Falling(c)' /\ Aim(c)' = LC(m)
<1>0. TypeOK /\ LevelsRight /\ tree[c] \in Tree /\ pc[c] = "descend"
  BY DEF IInv, Descend, TypeOK
<1>1. PICK m \in Node, s \in Tree : m = cur[c].node /\ s = tree[c]
  BY <1>0, Levels DEF Descend, LevelsRight, TypeOK
<1>2. LC(m) \in Node /\ LC(m) \in Children(m) /\ cur[c].depth + 1 \in Depth
  <2>1. /\ m \in Level(cur[c].depth) /\ cur[c].depth \in Depth /\ cur[c].depth < want[c]
        /\ want[c] \in Depth
    BY <1>0, <1>1 DEF Descend, LevelsRight, TypeOK
  <2>2. cur[c].depth + 1 \in Depth
    BY <2>1, BuddyAssumption DEF Depth
  <2> QED
    BY <2>1, <2>2, Levels DEF Children
<1>3. PICK l \in EntryType : l = Entry(LC(m), cur[c].depth + 1)
  BY <1>2 DEF Entry, EntryType
<1>4. /\ bits' = [bits EXCEPT ![Loc(s, m)] = TRUE]
      /\ blocks' = blocks /\ tree' = tree /\ pc[c] = "descend"
      /\ pc'[c] = "loop" /\ stack'[c] = Append(stack[c], l)
  BY <1>0, <1>1, <1>3 DEF Descend, TypeOK
<1>5. \A r \in Tree, x \in Node :
        IsSet(r, x)' = IF r = s /\ x = m THEN TRUE ELSE IsSet(r, x)
  BY <1>0, <1>4, BitWrite
<1>6. stack'[c] # << >> /\ Top(c)' = l
  <2>1. stack[c] \in Seq(EntryType)
    BY <1>0 DEF TypeOK
  <2>2. /\ Len(stack'[c]) = Len(stack[c]) + 1 /\ Len(stack[c]) \in Nat
        /\ stack'[c][Len(stack[c]) + 1] = l
    BY <1>4, <2>1, AppendProperties, LenProperties
  <2> QED
    BY <2>2 DEF Top
<1>7. ~IsSet(s, LC(m))'
  <2>1. ~IsSet(s, m)
    BY <1>0, <1>1, <1>4 DEF IInv, SearchFrame
  <2>2. LC(m) # 0 /\ P(LC(m)) = m /\ LC(m) # m
    BY <1>2, Shape
  <2>3. ~IsSet(s, LC(m))
    BY <1>0, <1>2, <2>1, <2>2 DEF IInv, ParentsSet
  <2> QED
    BY <1>2, <1>5, <2>2, <2>3
<1>8. Falling(c)' /\ Aim(c)' = LC(m) /\ tree'[c] = s
  BY <1>1, <1>3, <1>4, <1>6, <1>7 DEF Falling, Aim, Entry
<1> QED
  BY <1>1, <1>2, <1>4, <1>5, <1>8 DEF Descend

\* A step of kalloc sets a node only where its own stack has the rest of the subtree.
LEMMA AccountedAlloc ==
  ASSUME IInv, IInv', Accounted, NEW c \in Context, AllocStep(c)
  PROVE  Accounted'
<1> SUFFICES ASSUME Calm', NEW t \in Tree, NEW n \in Node, IsSet(t, n)', ~Covered(t, n)'
             PROVE  Promised(t, n)'
  BY DEF Accounted
<1>1. /\ Calm /\ pc[c] \in {"loop", "claim", "descend"} /\ tree[c] \in Tree
      /\ \A k \in Context \ {c} : pc[k] = "idle" /\ pc'[k] = "idle"
      /\ TypeOK /\ LevelsRight
  BY SearchAlone DEF IInv
<1>2. CASE PopClear(c)
  <2>1. /\ pc[c] = "loop" /\ stack[c] # << >> /\ pc'[c] \in {"claim", "descend"}
        /\ cur'[c] = Top(c) /\ bits' = bits /\ blocks' = blocks /\ tree' = tree
    BY <1>1, <1>2 DEF PopClear, TypeOK
  <2>2. IsSet(t, n) /\ ~Covered(t, n)
    BY <2>1 DEF IsSet, Loc, Covered
  <2>3. tree[c] = t /\ Aim(c) \in Desc[n]
    BY <1>1, <2>2, SearchOwes
  <2> QED
    BY <2>1, <2>3 DEF Promised, Falling, Aim
<1>3. CASE PopSet(c) \/ NextTree(c)
  <2>1. ~Falling(c) /\ bits' = bits /\ blocks' = blocks
    BY <1>3 DEF PopSet, NextTree, Falling
  <2>2. IsSet(t, n) /\ ~Covered(t, n)
    BY <2>1 DEF IsSet, Loc, Covered
  <2> QED
    BY <1>1, <2>1, <2>2, SearchOwes
<1>4. CASE Descend(c)
  <2>1. PICK m \in Node : m = cur[c].node
    BY <1>1, <1>4, DescendFalls
  <2>2. /\ LC(m) \in Children(m)
        /\ \A r \in Tree, x \in Node :
             IsSet(r, x)' = IF r = tree[c] /\ x = m THEN TRUE ELSE IsSet(r, x)
        /\ blocks' = blocks /\ tree' = tree /\ pc[c] = "descend"
        /\ Falling(c)' /\ Aim(c)' = LC(m)
    BY <1>1, <1>4, <2>1, DescendFalls, ZenonT(40) DEF Descend
  <2>3. t = tree[c] /\ m \in Desc[n]
    <3>1. CASE t = tree[c] /\ n = m
      BY <3>1, DescClosed
    <3>2. CASE ~(t = tree[c] /\ n = m)
      <4>1. IsSet(t, n) /\ ~Covered(t, n)
        BY <2>2, <3>2 DEF Covered
      <4>2. tree[c] = t /\ Aim(c) \in Desc[n]
        BY <1>1, <4>1, SearchOwes
      <4> QED
        BY <2>1, <2>2, <4>2 DEF Aim
    <3> QED
      BY <3>1, <3>2
  <2>4. LC(m) \in Desc[n]
    BY <2>2, <2>3, DescClosed DEF ClosedDown
  <2> QED
    BY <2>2, <2>3, <2>4 DEF Promised
<1>5. CASE Claim(c)
  <2>1. PICK m \in Node : m = cur[c].node
    BY <1>1, <1>5, Levels DEF Claim, LevelsRight, TypeOK
  <2>2. PICK new : new = BlockAt(tree[c], m, cur[c].depth)
    OBVIOUS
  <2>3. /\ bits' = [bits EXCEPT ![Loc(tree[c], m)] = TRUE]
        /\ blocks' = blocks \cup {new} /\ pc[c] = "claim"
    BY <1>5, <2>1, <2>2 DEF Claim
  <2>4. new.tree = tree[c] /\ new.node = m
    BY <2>2 DEF BlockAt
  <2>5. ~(tree[c] = t /\ m \in Desc[n])
    BY <2>3, <2>4 DEF Covered
  <2>6. ~(tree[c] = t /\ m = n)
    BY <2>5, DescClosed
  <2>7. IsSet(t, n)
    <3>1. \A s \in Tree, x \in Node :
            IsSet(s, x)' = IF s = tree[c] /\ x = m THEN TRUE ELSE IsSet(s, x)
      BY <1>1, <2>3, BitWrite
    <3> QED
      BY <2>6, <3>1
  <2>8. ~Covered(t, n)
    BY <2>3 DEF Covered
  <2>9. tree[c] = t /\ Aim(c) \in Desc[n]
    BY <1>1, <2>7, <2>8, SearchOwes
  <2> QED
    BY <2>1, <2>3, <2>5, <2>9 DEF Aim
<1> QED
  BY <1>2, <1>3, <1>4, <1>5 DEF AllocStep

\* While kfree runs, what is set is covered or has just been emptied.
LEMMA FreeOwes ==
  ASSUME Calm, Accounted, pc["main"] \in {"walk", "unset", "merge"}, pc["irq"] = "idle",
         NEW t \in Tree, NEW n \in Node, IsSet(t, n), ~Covered(t, n)
  PROVE  Emptied(t, n)
<1>1. ~Promised(t, n)
  BY DEF Promised, Falling, Context
<1> QED
  BY <1>1 DEF Accounted

\* The walk of kfree never falls off the root without having found the block.
LEMMA WalkFinds ==
  ASSUME IInv, Calm, pc["main"] = "walk"
  PROVE  cur["main"].node # 0
<1>1. PICK v \in blocks : /\ v = victim /\ v.node # 0
                         /\ \/ cur["main"].node \in Desc[v.node]
                            \/ cur["main"].node # 0
  BY DEF IInv, FreeFrame
<1>2. v.node \in Node
  BY BlockFacts DEF IInv, TypeOK
<1> QED
  BY <1>1, <1>2, RootOnTop

\* A step of kfree leaves a node without a block set only while it has still to go there.
LEMMA AccountedFree ==
  ASSUME IInv, IInv', Accounted, FreeStep
  PROVE  Accounted'
<1> SUFFICES ASSUME Calm', NEW t \in Tree, NEW n \in Node, IsSet(t, n)', ~Covered(t, n)'
             PROVE  Emptied(t, n)'
  BY DEF Accounted
<1>1. /\ Calm /\ pc["main"] \in {"walk", "unset", "merge"} /\ pc["irq"] = "idle"
      /\ "main" \in Context /\ TypeOK /\ FreeFrame /\ BlocksAreLeaves
  BY FreeAlone DEF IInv, Context
<1>2. PICK s \in Tree, m \in Nat : s = tree["main"] /\ m = cur["main"].node
  BY <1>1 DEF TypeOK
<1>3. CASE Walk
  <2>1. pc["main"] = "walk" /\ m # 0 /\ bits' = bits /\ blocks' = blocks
    BY <1>1, <1>2, <1>3, WalkFinds DEF Walk
  <2>2. IsSet(t, n) /\ ~Covered(t, n)
    BY <2>1 DEF IsSet, Loc, Covered
  <2> QED
    BY <1>1, <2>1, <2>2, FreeOwes DEF Emptied
<1>4. CASE Unset
  <2>1. PICK v \in blocks : v = victim /\ v.tree = s /\ m = v.node
    BY <1>1, <1>2, <1>4 DEF Unset, FreeFrame
  <2>2. /\ bits' = [bits EXCEPT ![Loc(s, m)] = FALSE] /\ blocks' = blocks \ {v}
        /\ pc["main"] = "unset" /\ pc'["main"] = "merge" /\ tree' = tree /\ cur' = cur
    BY <1>1, <1>2, <1>4, <2>1 DEF Unset, TypeOK
  <2>3. m \in Node
    BY <1>1, <2>1, BlockFacts DEF TypeOK
  <2>4. \A r \in Tree, x \in Node :
          IsSet(r, x)' = IF r = s /\ x = m THEN FALSE ELSE IsSet(r, x)
    BY <1>1, <2>2, <2>3, BitWrite
  <2>5. IsSet(t, n) /\ ~(t = s /\ n = m)
    BY <2>4
  <2>6. Covered(t, n)
    BY <1>1, <2>2, <2>5, FreeOwes DEF Emptied
  <2>7. t = s /\ m \in Desc[n]
    BY <2>1, <2>2, <2>6 DEF Covered
  <2> QED
    BY <1>2, <2>2, <2>5, <2>7 DEF Emptied
<1>5. CASE Merge
  <2>1. /\ pc["main"] = "merge" /\ blocks' = blocks /\ m \in Node /\ ~IsSet(s, m)
        /\ ~Covered(t, n)
    BY <1>1, <1>2, <1>5 DEF Merge, FreeFrame, Covered
  <2>2. CASE m # 0 /\ ~IsSet(s, B(m))
    <3>1. PICK p \in Node : p = P(m)
      BY <2>1, <2>2, Shape
    <3>2. /\ bits' = [bits EXCEPT ![Loc(s, p)] = FALSE] /\ tree' = tree
          /\ pc'["main"] = "merge" /\ cur'["main"].node = p
      BY <1>1, <1>2, <1>5, <2>1, <2>2, <3>1 DEF Merge, TypeOK
    <3>3. \A r \in Tree, x \in Node :
            IsSet(r, x)' = IF r = s /\ x = p THEN FALSE ELSE IsSet(r, x)
      <4>1. bits' = [bits EXCEPT ![Loc(s, p)] = FALSE]
        BY <3>2
      <4> QED
        BY <1>1, <4>1, BitWrite
    <3>4. IsSet(t, n) /\ ~(t = s /\ n = p)
      BY <3>3
    <3>5. t = s /\ m \in Desc[n] /\ n # m
      BY <1>1, <1>2, <2>1, <3>4, FreeOwes DEF Emptied
    <3>6. p \in Desc[n]
      BY <3>1, <3>5, ParentInDesc
    <3> QED
      BY <1>2, <3>2, <3>4, <3>5, <3>6 DEF Emptied
  <2>3. CASE ~(m # 0 /\ ~IsSet(s, B(m)))
    <3>1. bits' = bits
      BY <1>1, <1>2, <1>5, <2>3 DEF Merge
    <3>2. IsSet(t, n)
      BY <3>1 DEF IsSet, Loc
    <3>3. t = s /\ m \in Desc[n] /\ n # m
      BY <1>1, <1>2, <2>1, <3>2, FreeOwes DEF Emptied
    <3>4. m # 0 /\ P(m) \in Desc[n]
      BY <3>3, ParentInDesc
    <3>5. /\ B(m) \in Node /\ m \notin Desc[B(m)] /\ B(m) \in Desc[n]
      <4>1. B(m) \in Node /\ m \notin Desc[B(m)] /\ B(m) \in Children(P(m))
        BY <2>1, <3>4, Siblings
      <4> QED
        BY <3>4, <4>1, DescClosed DEF ClosedDown
    <3>6. Covered(s, B(m))
      BY <1>1, <1>2, <2>3, <3>4, <3>5, FreeOwes DEF Emptied
    <3> QED
      BY <2>1, <3>3, <3>5, <3>6, CoveredAbove
  <2> QED
    BY <2>2, <2>3
<1> QED
  BY <1>3, <1>4, <1>5 DEF FreeStep

\* Every step accounts for the nodes that are set without a block.
LEMMA AccountedNext == IInv /\ Accounted /\ [Next]_vars => Accounted'
<1> SUFFICES ASSUME IInv, Accounted, [Next]_vars PROVE Accounted'
  OBVIOUS
<1>1. IInv'
  BY InvNext
<1>2. ASSUME Calm', Calm, \A k \in Context : pc[k] = "idle", bits' = bits, blocks' = blocks
      PROVE  Accounted'
  <2> SUFFICES ASSUME NEW t \in Tree, NEW n \in Node, IsSet(t, n)', ~Covered(t, n)'
               PROVE  FALSE
    BY DEF Accounted
  <2>1. IsSet(t, n) /\ ~Covered(t, n)
    BY <1>2 DEF IsSet, Loc, Covered
  <2>2. ~Promised(t, n) /\ ~Emptied(t, n)
    BY <1>2 DEF Promised, Falling, Emptied, Context
  <2> QED
    BY <1>2, <2>1, <2>2 DEF Accounted
<1>3. ASSUME NEW c \in Context, NEW d \in Depth, Call(c, d) PROVE Accounted'
  <2>1. CASE Calm'
    BY <1>2, <1>3, <2>1, CallAlone
  <2> QED
    BY <2>1 DEF Accounted
<1>4. ASSUME NEW c \in Context, AllocStep(c) PROVE Accounted'
  BY <1>1, <1>4, AccountedAlloc
<1>5. ASSUME NEW b \in blocks, Kfree(b) PROVE Accounted'
  <2>1. CASE Calm'
    BY <1>2, <1>5, <2>1, KfreeAlone
  <2> QED
    BY <2>1 DEF Accounted
<1>6. ASSUME FreeStep PROVE Accounted'
  BY <1>1, <1>6, AccountedFree
<1>7. CASE UNCHANGED vars
  BY <1>7 DEF vars, Accounted, Calm, IsSet, Loc, Covered, Promised, Falling, Aim, Top, Emptied
<1> QED
  BY <1>3, <1>4, <1>5, <1>6, <1>7 DEF Next

\* Between calls a node is set exactly if it is a block or above one.
LEMMA AccountedExact == IInv /\ Accounted => BitsExact
<1> SUFFICES ASSUME IInv, Accounted, Calm, Idle, NEW t \in Tree, NEW n \in Node
             PROVE  IsSet(t, n) <=> Covered(t, n)
  BY DEF BitsExact
<1>1. ASSUME IsSet(t, n) PROVE Covered(t, n)
  <2>1. ~Promised(t, n) /\ ~Emptied(t, n)
    BY DEF Promised, Falling, Emptied, Idle, Context
  <2> QED
    BY <1>1, <2>1 DEF Accounted
<1>2. ASSUME Covered(t, n) PROVE IsSet(t, n)
  <2>1. PICK b \in blocks : b.tree = t /\ b.node \in Desc[n]
    BY <1>2 DEF Covered
  <2>2. IsSet(t, b.node)
    BY <2>1 DEF IInv, BlocksAreLeaves
  <2> QED
    BY <2>1, <2>2, SetAbove DEF IInv
<1> QED
  BY <1>1, <1>2

-----------------------------------------------------------------------------
(* The stack, entry by entry *)

\* Popping leaves the entries below the top where they are.
LEMMA PopAt ==
  ASSUME NEW S, NEW s \in Seq(S), s # << >>
  PROVE  LET r == SubSeq(s, 1, Len(s) - 1) IN
         /\ Len(s) \in Nat \ {0} /\ Len(r) = Len(s) - 1
         /\ \A i \in 1 .. Len(r) : r[i] = s[i]
<1> DEFINE n == Len(s) - 1
           r == SubSeq(s, 1, n)
<1>1. Len(s) \in Nat \ {0}
  BY EmptySeq, LenProperties
<1>2. n \in Nat /\ 1 \in Int /\ n \in Int /\ \A i \in 1 .. n : s[i] \in S
  BY <1>1, ElementOfSeq
<1>3. /\ Len(r) = IF 1 <= n THEN n - 1 + 1 ELSE 0
      /\ \A i \in 1 .. n - 1 + 1 : r[i] = s[1 + i - 1]
  BY <1>2, SubSeqProperties
<1> HIDE DEF r
<1>4. Len(r) = n /\ \A i \in 1 .. n : r[i] = s[i]
  <2> HIDE DEF n
  <2> QED
    BY <1>2, <1>3
<1> QED
  BY <1>1, <1>4 DEF r

\* Pushing leaves the entries where they are.
LEMMA PushAt ==
  ASSUME NEW S, NEW s \in Seq(S), NEW x \in S, NEW y \in S
  PROVE  /\ LET a == Append(s, x) IN
            /\ Len(s) \in Nat /\ Len(a) = Len(s) + 1
            /\ a[Len(s) + 1] = x /\ \A i \in 1 .. Len(s) : a[i] = s[i]
         /\ LET p == s \o << x, y >> IN
            /\ Len(p) = Len(s) + 2
            /\ p[Len(s) + 1] = x /\ p[Len(s) + 2] = y
            /\ \A i \in 1 .. Len(s) : p[i] = s[i]
<1> DEFINE a == Append(s, x)
           p == s \o << x, y >>
<1>1. /\ Len(a) = Len(s) + 1
      /\ \A i \in 1 .. Len(s) : a[i] = s[i]
      /\ a[Len(s) + 1] = x
  BY AppendProperties
<1>2. << x, y >> \in Seq(S) /\ Len(<< x, y >>) = 2
  OBVIOUS
<1>3. /\ Len(p) = Len(s) + 2
      /\ \A i \in 1 .. Len(s) + 2 : p[i] = IF i <= Len(s) THEN s[i] ELSE << x, y >>[i - Len(s)]
  BY <1>2, ConcatProperties
<1>4. Len(s) \in Nat
  BY LenProperties
<1>5. \A i \in 1 .. Len(s) : p[i] = s[i]
  BY <1>3, <1>4
<1>6. p[Len(s) + 1] = x /\ p[Len(s) + 2] = y
  <2> HIDE DEF p
  <2>1. Len(s) + 1 \in 1 .. Len(s) + 2 /\ Len(s) + 2 \in 1 .. Len(s) + 2
        /\ ~(Len(s) + 1 <= Len(s)) /\ ~(Len(s) + 2 <= Len(s))
        /\ (Len(s) + 1) - Len(s) = 1 /\ (Len(s) + 2) - Len(s) = 2
    BY <1>4
  <2> QED
    BY <1>3, <2>1
<1> QED
  BY <1>1, <1>3, <1>4, <1>5, <1>6

\* The entries of a stack are its top and those below.
LEMMA HeldSplit ==
  ASSUME TypeOK, NEW c \in Context, stack[c] # << >>
  PROVE  \A e \in Held(c) : e = Top(c) \/ e \in {Rest(c)[i] : i \in 1 .. Len(Rest(c))}
<1>1. stack[c] \in Seq(EntryType)
  BY DEF TypeOK
<1>2. /\ Len(stack[c]) \in Nat \ {0} /\ Len(Rest(c)) = Len(stack[c]) - 1
      /\ \A i \in 1 .. Len(Rest(c)) : Rest(c)[i] = stack[c][i]
  BY <1>1, PopAt DEF Rest
<1> SUFFICES ASSUME NEW i \in 1 .. Len(stack[c]), i # Len(stack[c])
             PROVE  i \in 1 .. Len(Rest(c))
  BY <1>2 DEF Held, Top
<1> QED
  BY <1>2

-----------------------------------------------------------------------------
(* The search leaves out nothing *)

\* A set node at which the search turns back is full of blocks: it is one, or has one
\* somewhere below and is of the depth asked for.
LEMMA TurnsBack ==
  ASSUME IInv, NEW t \in Tree, NEW m \in Node, NEW n \in Desc[m], Calm,
         Covered(t, m), n = m \/ Leafless(t, m)
  PROVE  Full(t, n)
<1>1. PICK b \in blocks : b.tree = t /\ b.node \in Desc[m]
  BY DEF Covered
<1>2. n \in Node /\ b.node \in Node /\ n \in Desc[n] /\ b.node \in Desc[b.node]
  BY <1>1, DescHigher, DescClosed
<1>3. CASE n = m
  BY <1>1, <1>2, <1>3 DEF Full
<1>4. CASE Leafless(t, m)
  <2>1. b.node = m
    <3> SUFFICES ASSUME b.node # m PROVE FALSE
      OBVIOUS
    <3>1. PICK x \in Children(m) : b.node \in Desc[x]
      BY <1>1, DescSplit
    <3>2. x \in Node
      BY DEF Children
    <3>3. IsSet(t, b.node)
      BY <1>1 DEF IInv, BlocksAreLeaves
    <3>4. IsSet(t, x)
      BY <3>1, <3>2, <3>3, SetAbove DEF IInv
    <3> QED
      BY <1>4, <3>4 DEF Leafless, Children
  <2> QED
    BY <1>1, <1>2, <2>1 DEF Full
<1> QED
  BY <1>3, <1>4

\* What a pop of a set node leaves to be searched.
LEMMA SearchedPop ==
  ASSUME IInv, Calm, Accounted, Searched, NEW c \in Context, PopSet(c),
         \A k \in Context \ {c} : pc[k] = "idle",
         NEW n \in Level(want[c]), ~Full(tree[c], n)
  PROVE  \E e \in Held(c)' : n \in Desc[e.node]
<1> DEFINE l == Entry(LC(Top(c).node), Top(c).depth + 1)
           r == Entry(RC(Top(c).node), Top(c).depth + 1)
<1>0. /\ TypeOK /\ LevelsRight /\ stack[c] # << >> /\ pc[c] = "loop" /\ ~Falling(c)
      /\ want[c] \in Depth /\ tree[c] \in Tree
  BY DEF PopSet, Falling, IInv, TypeOK
<1>1. PICK s \in Tree, m \in Node, d \in Depth : s = tree[c] /\ m = Top(c).node /\ d = Top(c).depth
  BY <1>0, PopFacts DEF EntryType
<1>2. m \in Level(d) /\ d <= want[c] /\ IsSet(s, m) /\ n \in Node
  BY <1>0, <1>1, PopFacts, Levels DEF PopSet
<1>3. Covered(s, m)
  BY <1>0, <1>1, <1>2, SearchOwes
<1>4. PICK e \in Held(c) : n \in Desc[e.node]
  BY <1>0 DEF Searched
<1>5. CASE d = want[c] \/ Leafless(s, m)
  <2>1. stack'[c] = Rest(c)
    BY <1>0, <1>1, <1>5 DEF PopSet, TypeOK
  <2>2. ~(m = e.node)
    <3> SUFFICES ASSUME m = e.node PROVE FALSE
      OBVIOUS
    <3>1. n = m \/ Leafless(s, m)
      BY <1>1, <1>2, <1>4, <1>5, SameLevel
    <3> QED
      BY <1>1, <1>3, <1>4, <3>1, TurnsBack
  <2>3. e \in Held(c)'
    BY <1>0, <1>1, <2>1, <2>2, HeldSplit DEF Held
  <2> QED
    BY <1>4, <2>3
<1>6. CASE ~(d = want[c] \/ Leafless(s, m))
  <2>1. /\ d # want[c] /\ stack'[c] = Rest(c) \o Branches(s, m, d)
    BY <1>0, <1>1, <1>6 DEF PopSet, TypeOK
  <2>2. l \in EntryType /\ r \in EntryType
    <3>1. d + 1 \in Depth
      BY <1>0, <1>2, <2>1, BuddyAssumption DEF Depth
    <3> QED
      BY <1>1, <1>2, <3>1, Levels DEF Entry, EntryType
  <2>3. stack'[c] = Rest(c) \o << l, r >> \/ stack'[c] = Rest(c) \o << r, l >>
    BY <1>1, <2>1 DEF Branches
  <2> HIDE DEF l, r
  <2>4. /\ l \in Held(c)' /\ r \in Held(c)'
        /\ {Rest(c)[i] : i \in 1 .. Len(Rest(c))} \subseteq Held(c)'
    <3>1. ASSUME NEW x \in EntryType, NEW y \in EntryType, stack'[c] = Rest(c) \o << x, y >>
          PROVE  /\ x \in Held(c)' /\ y \in Held(c)'
                 /\ {Rest(c)[i] : i \in 1 .. Len(Rest(c))} \subseteq Held(c)'
      <4>1. /\ Len(Rest(c)) \in Nat /\ Len(stack'[c]) = Len(Rest(c)) + 2
            /\ stack'[c][Len(Rest(c)) + 1] = x /\ stack'[c][Len(Rest(c)) + 2] = y
            /\ \A i \in 1 .. Len(Rest(c)) : stack'[c][i] = Rest(c)[i]
        BY <1>0, <3>1, PopFacts, PushAt
      <4>2. x \in Held(c)' /\ y \in Held(c)'
        BY <4>1 DEF Held
      <4>3. {Rest(c)[i] : i \in 1 .. Len(Rest(c))} \subseteq Held(c)'
        BY <4>1 DEF Held
      <4> QED
        BY <4>2, <4>3
    <3> QED
      BY <2>2, <2>3, <3>1
  <2>5. CASE e = Top(c)
    <3>1. n # m
      BY <1>0, <1>2, <2>1, Levels
    <3>2. PICK x \in Children(m) : n \in Desc[x]
      BY <1>1, <1>4, <2>5, <3>1, DescSplit
    <3>3. x = l.node \/ x = r.node
      BY <1>1, <3>2 DEF Children, l, r, Entry
    <3> QED
      BY <2>4, <3>2, <3>3
  <2>6. CASE e # Top(c)
    BY <1>0, <1>4, <2>4, <2>6, HeldSplit
  <2> QED
    BY <2>5, <2>6
<1> QED
  BY <1>5, <1>6

\* What the search has left behind stays full, and it gives up only when all is left behind.
LEMMA SearchedNext ==
  ASSUME IInv, Accounted, Searched, HaltOnlyWhenFull, [Next]_vars
  PROVE  Searched' /\ HaltOnlyWhenFull'
<1>1. ASSUME NEW c \in Context, AllocStep(c), Calm'
      PROVE  Searched' /\ HaltOnlyWhenFull'
  <2>1. /\ Calm /\ pc[c] \in {"loop", "claim", "descend"} /\ tree[c] \in Tree /\ want[c] \in Depth
        /\ \A k \in Context \ {c} : pc[k] = "idle" /\ pc'[k] = "idle"
    BY <1>1, SearchAlone
  <2>2. \A n \in Level(want[c]), t \in Tree : t < tree[c] => Full(t, n)
    BY <2>1 DEF Searched
  <2>3. ASSUME blocks' = blocks PROVE \A t, n : Full(t, n) => Full(t, n)'
    BY <2>3 DEF Full
  <2>4. SUFFICES ASSUME NEW n \in Level(want[c])', NEW t \in Tree
                 PROVE  /\ pc'[c] \in {"loop", "claim", "descend"} => (t < tree'[c] => Full(t, n)')
                        /\ pc'[c] = "loop" /\ ~Falling(c)' =>
                             Full(tree[c], n)' \/ \E e \in Held(c)' : n \in Desc[e.node]
                        /\ pc'[c] = "halt" => Full(t, n)'
    BY <2>1 DEF Searched, HaltOnlyWhenFull
  <2>5. CASE PopClear(c)
    <3>1. /\ want' = want /\ tree' = tree /\ blocks' = blocks /\ pc'[c] \in {"claim", "descend"}
      BY <2>5 DEF PopClear, IInv, TypeOK
    <3> QED
      BY <2>2, <2>3, <3>1
  <2>6. CASE PopSet(c)
    <3>1. /\ want' = want /\ tree' = tree /\ blocks' = blocks /\ pc' = pc /\ pc[c] = "loop"
      BY <2>6 DEF PopSet
    <3>2. CASE Full(tree[c], n)
      BY <2>2, <2>3, <3>1, <3>2
    <3>3. CASE ~Full(tree[c], n)
      BY <2>1, <2>2, <2>3, <2>6, <3>1, <3>3, SearchedPop
    <3> QED
      BY <3>2, <3>3
  <2>7. CASE Descend(c)
    <3>1. /\ want' = want /\ tree' = tree /\ blocks' = blocks /\ pc'[c] = "loop" /\ Falling(c)'
      BY <2>1, <2>7, DescendFalls
    <3> QED
      BY <2>2, <2>3, <3>1
  <2>8. CASE Claim(c)
    BY <2>8 DEF Claim, Return, IInv, TypeOK
  <2>9. CASE NextTree(c)
    <3>1. /\ want' = want /\ blocks' = blocks /\ pc[c] = "loop" /\ ~Falling(c)
          /\ stack[c] = << >>
      BY <2>9 DEF NextTree, Falling
    <3>2. Held(c) = {}
      BY <3>1 DEF Held
    <3>3. Full(tree[c], n)
      BY <2>1, <3>1, <3>2 DEF Searched
    <3>4. CASE tree[c] + 1 < TreeCount
      <4>1. tree'[c] = tree[c] + 1 /\ stack'[c] = << Root >> /\ pc' = pc
        BY <2>9, <3>4 DEF NextTree, IInv, TypeOK
      <4>2. Root \in Held(c)' /\ n \in Desc[Root.node]
        <5>1. n \in Node
          BY <2>1, <3>1, Levels
        <5>2. Held(c)' = {Root}
          BY <4>1 DEF Held
        <5> QED
          BY <5>1, <5>2, DescRoot DEF Root
      <4>3. t < tree[c] + 1 => t < tree[c] \/ t = tree[c]
        BY <2>1, BuddyAssumption DEF Tree
      <4> QED
        BY <2>2, <2>3, <3>1, <3>3, <4>1, <4>2, <4>3
    <3>5. CASE ~(tree[c] + 1 < TreeCount)
      <4>1. pc'[c] = "halt"
        BY <2>9, <3>5 DEF NextTree, IInv, TypeOK
      <4>2. t < tree[c] \/ t = tree[c]
        BY <2>1, <3>5, BuddyAssumption DEF Tree
      <4> QED
        BY <2>2, <2>3, <3>1, <3>3, <4>1, <4>2
    <3> QED
      BY <3>4, <3>5
  <2> QED
    BY <1>1, <2>5, <2>6, <2>7, <2>8, <2>9 DEF AllocStep
<1>2. ASSUME NEW c \in Context, NEW d \in Depth, Call(c, d), Calm'
      PROVE  Searched' /\ HaltOnlyWhenFull'
  <2>1. /\ \A k \in Context \ {c} : pc'[k] = "idle"
        /\ pc'[c] = "loop" /\ want'[c] = d /\ tree'[c] = 0 /\ Held(c)' = {Root}
    BY <1>2, CallAlone
  <2>2. \A t \in Tree : ~(t < 0)
    BY BuddyAssumption DEF Tree
  <2>3. \A n \in Level(d) : n \in Desc[Root.node]
    BY DescRoot, Levels DEF Root
  <2> QED
    BY <2>1, <2>2, <2>3 DEF Searched, HaltOnlyWhenFull
<1>3. ASSUME \A k \in Context : pc'[k] \in {"walk", "unset", "merge", "idle"}
      PROVE  Searched' /\ HaltOnlyWhenFull'
  BY <1>3 DEF Searched, HaltOnlyWhenFull
<1>4. ASSUME NEW b \in blocks, Kfree(b), Calm'
      PROVE  Searched' /\ HaltOnlyWhenFull'
  BY <1>3, <1>4, KfreeAlone
<1>5. ASSUME FreeStep, Calm'
      PROVE  Searched' /\ HaltOnlyWhenFull'
  BY <1>3, <1>5, FreeAlone DEF Context
<1>6. CASE UNCHANGED vars
  <2>1. pc' = pc /\ want' = want /\ tree' = tree /\ Calm' = Calm
    BY <1>6 DEF vars, Calm
  <2>2. \A c \in Context : Falling(c)' = Falling(c) /\ Held(c)' = Held(c)
    BY <1>6 DEF vars, Falling, Held, Top, IsSet, Loc
  <2>3. \A t, n : Full(t, n)' = Full(t, n)
    BY <1>6 DEF vars, Full
  <2>4. \A c \in Context : \A n : Full(tree[c], n)' = Full(tree[c], n)
    BY <1>6 DEF vars, Full
  <2> QED
    BY <2>1, <2>2, <2>3, <2>4 DEF Searched, HaltOnlyWhenFull
<1>7. CASE ~Calm'
  BY <1>7 DEF Searched, HaltOnlyWhenFull
<1> QED
  BY <1>1, <1>2, <1>4, <1>5, <1>6, <1>7 DEF Next

-----------------------------------------------------------------------------
(* The stack never outgrows its array *)

\* Steps that leave the stack alone, or empty it, or begin a tree.
LEMMA TapersEasily ==
  ASSUME NEW c \in Context, Tapers(c), pc'[c] = "descend" => pc[c] = "descend",
         \/ stack'[c] = stack[c] /\ cur'[c] = cur[c]
         \/ stack'[c] \in {<< >>, << Root >>} /\ pc'[c] # "descend"
  PROVE  Tapers(c)'
<1>1. CASE stack'[c] = stack[c] /\ cur'[c] = cur[c]
  BY <1>1 DEF Tapers
<1>2. CASE stack'[c] = << >> /\ pc'[c] # "descend"
  BY <1>2 DEF Tapers
<1>3. CASE stack'[c] = << Root >> /\ pc'[c] # "descend"
  <2>1. Len(stack'[c]) = 1 /\ stack'[c][1].depth = 1
    BY <1>3 DEF Root
  <2> QED
    BY <1>3, <2>1 DEF Tapers
<1> QED
  BY <1>1, <1>2, <1>3

\* A step of the search pushes entries that are deeper than those below them.
LEMMA TapersAlloc ==
  ASSUME TypeOK, LevelsRight, NEW c \in Context, Tapers(c), AllocStep(c)
  PROVE  Tapers(c)'
<1>1. PICK s \in Seq(EntryType) : s = stack[c]
  BY DEF TypeOK
<1>2. \A i \in 1 .. Len(s) : s[i].depth \in Nat
  <2>1. \A i \in 1 .. Len(s) : s[i] \in EntryType
    BY ElementOfSeq
  <2> QED
    BY <2>1 DEF EntryType, Depth
<1>3. /\ \A i \in 1 .. Len(s) : i <= s[i].depth /\ (i < Len(s) => i < s[i].depth)
      /\ pc[c] = "descend" => /\ \A i \in 1 .. Len(s) : i < s[i].depth
                              /\ Len(s) < cur[c].depth
  BY <1>1 DEF Tapers
<1>4. s # << >> => /\ Len(s) \in Nat \ {0} /\ Len(Rest(c)) = Len(s) - 1
                   /\ Rest(c) \in Seq(EntryType)
                   /\ \A i \in 1 .. Len(Rest(c)) : Rest(c)[i] = s[i] /\ i < s[i].depth
                   /\ Len(s) <= Top(c).depth /\ Top(c) = s[Len(s)]
  <2> HAVE s # << >>
  <2>1. /\ Len(s) \in Nat \ {0} /\ Len(Rest(c)) = Len(s) - 1
        /\ \A i \in 1 .. Len(Rest(c)) : Rest(c)[i] = s[i]
    BY <1>1, PopAt DEF Rest
  <2>2. Rest(c) \in Seq(EntryType) /\ Top(c) = s[Len(s)]
    BY <1>1, PopFacts DEF Top
  <2> QED
    BY <1>3, <2>1, <2>2
<1>5. CASE PopClear(c)
  <2>1. stack'[c] = Rest(c) /\ cur'[c] = Top(c) /\ s # << >>
    BY <1>1, <1>5 DEF PopClear, TypeOK
  <2>2. Top(c).depth \in Nat
    BY <1>2, <1>4, <2>1
  <2> QED
    BY <1>4, <2>1, <2>2, <1>2 DEF Tapers
<1>6. CASE PopSet(c)
  <2>1. s # << >> /\ pc[c] = "loop" /\ pc' = pc
    BY <1>1, <1>6 DEF PopSet
  <2>2. PICK d \in Depth : d = Top(c).depth /\ d \in Nat /\ Len(s) <= d
    BY <1>1, <1>4, <2>1, PopFacts DEF EntryType, Depth
  <2>3. CASE stack'[c] = Rest(c)
    BY <1>2, <1>4, <2>1, <2>3 DEF Tapers
  <2>4. CASE d # want[c] /\ stack'[c] = Rest(c) \o Branches(tree[c], Top(c).node, d)
    <3>1. PICK x, y \in EntryType : /\ stack'[c] = Rest(c) \o << x, y >>
                                    /\ x.depth = d + 1 /\ y.depth = d + 1
      <4>1. d + 1 \in Depth /\ Top(c).node \in Level(d)
        <5>1. d <= want[c] /\ want[c] \in Depth /\ Top(c).node \in Level(d)
          BY <1>1, <2>1, <2>2, PopFacts DEF TypeOK
        <5> QED
          BY <5>1, <2>4, BuddyAssumption DEF Depth
      <4>2. LC(Top(c).node) \in Node /\ RC(Top(c).node) \in Node
        BY <4>1, Levels
      <4>3. /\ Entry(LC(Top(c).node), d + 1) \in EntryType
            /\ Entry(RC(Top(c).node), d + 1) \in EntryType
            /\ Entry(LC(Top(c).node), d + 1).depth = d + 1
            /\ Entry(RC(Top(c).node), d + 1).depth = d + 1
        BY <4>1, <4>2 DEF Entry, EntryType
      <4> QED
        BY <2>4, <4>3 DEF Branches
    <3>2. /\ Len(stack'[c]) = Len(Rest(c)) + 2
          /\ stack'[c][Len(Rest(c)) + 1] = x /\ stack'[c][Len(Rest(c)) + 2] = y
          /\ \A i \in 1 .. Len(Rest(c)) : stack'[c][i] = Rest(c)[i]
      BY <1>4, <2>1, <3>1, PushAt
    <3>3. \A i \in 1 .. Len(s) + 1 :
            \/ i \in 1 .. Len(Rest(c)) /\ stack'[c][i] = s[i] /\ i < s[i].depth
            \/ i = Len(s) /\ stack'[c][i] = x
            \/ i = Len(s) + 1 /\ stack'[c][i] = y
      <4>1. Len(Rest(c)) + 1 = Len(s) /\ Len(Rest(c)) + 2 = Len(s) + 1
        BY <1>4, <2>1
      <4> QED
        BY <1>4, <2>1, <3>2, <4>1
    <3>4. Len(stack'[c]) = Len(s) + 1 /\ Len(s) \in Nat
      BY <1>4, <2>1, <3>2
    <3>5. \A i \in 1 .. Len(stack'[c]) :
            i <= stack'[c][i].depth /\ (i < Len(stack'[c]) => i < stack'[c][i].depth)
      BY <1>2, <1>4, <2>1, <2>2, <3>1, <3>3, <3>4
    <3> QED
      BY <2>1, <3>5 DEF Tapers
  <2> QED
    BY <2>2, <2>3, <2>4, <1>6 DEF PopSet, TypeOK
<1>7. CASE Descend(c)
  <2> DEFINE l == Entry(LC(cur[c].node), cur[c].depth + 1)
  <2>1. l \in EntryType /\ l.depth = cur[c].depth + 1 /\ cur[c].depth \in Nat
    <3>1. cur[c].depth + 1 \in Depth /\ cur[c].node \in Level(cur[c].depth) /\ cur[c].depth \in Depth
      BY <1>7, BuddyAssumption DEF Descend, LevelsRight, Depth, TypeOK
    <3> QED
      <4>1. LC(cur[c].node) \in Node
        BY <3>1, Levels
      <4> QED
        BY <3>1, <4>1 DEF Entry, EntryType, Depth
  <2>2. stack'[c] = Append(s, l) /\ pc[c] = "descend" /\ pc'[c] = "loop"
    BY <1>1, <1>7, <2>1 DEF Descend, TypeOK
  <2>3. /\ Len(s) \in Nat /\ Len(stack'[c]) = Len(s) + 1
        /\ stack'[c][Len(s) + 1] = l /\ \A i \in 1 .. Len(s) : stack'[c][i] = s[i]
    BY <2>2, PushAt
  <2>4. \A i \in 1 .. Len(stack'[c]) : i < stack'[c][i].depth
    BY <1>2, <1>3, <2>1, <2>2, <2>3
  <2>5. \A i \in 1 .. Len(stack'[c]) : stack'[c][i].depth \in Int
    BY <1>2, <2>1, <2>3
  <2> QED
    BY <2>2, <2>3, <2>4, <2>5 DEF Tapers
<1>8. CASE Claim(c)
  BY <1>8, TapersEasily DEF Claim, Return, TypeOK
<1>9. CASE NextTree(c)
  <2>1. /\ pc'[c] # "descend"
        /\ (stack'[c] = stack[c] /\ cur'[c] = cur[c]) \/ stack'[c] = << Root >>
    BY <1>9 DEF NextTree, TypeOK
  <2> QED
    BY <2>1, TapersEasily
<1> QED
  BY <1>5, <1>6, <1>7, <1>8, <1>9 DEF AllocStep

\* No step of another context touches the stack of a search.
LEMMA TaperNext ==
  ASSUME TypeOK, LevelsRight, StacksTaper, [Next]_vars
  PROVE  StacksTaper'
<1>1. ASSUME NEW c \in Context, AllocStep(c)
      PROVE  StacksTaper'
  <2> SUFFICES ASSUME NEW k \in Context \ {c} PROVE Tapers(k)'
    BY <1>1, TapersAlloc DEF StacksTaper
  <2>1. stack'[k] = stack[k] /\ cur'[k] = cur[k] /\ pc'[k] = pc[k]
    BY <1>1 DEF AllocStep, PopClear, PopSet, Descend, Claim, NextTree, Return, TypeOK
  <2> QED
    BY <2>1, TapersEasily DEF StacksTaper
<1>2. ASSUME NEW c \in Context, NEW d \in Depth, Call(c, d)
      PROVE  StacksTaper'
  <2> SUFFICES ASSUME NEW k \in Context PROVE Tapers(k)'
    BY DEF StacksTaper
  <2>1. /\ pc'[k] = "descend" => pc[k] = "descend"
        /\ \/ stack'[k] = stack[k] /\ cur'[k] = cur[k]
           \/ stack'[k] = << Root >> /\ pc'[k] # "descend"
    BY <1>2 DEF Call, TypeOK
  <2> QED
    BY <2>1, TapersEasily DEF StacksTaper
<1>3. ASSUME (\E b \in blocks : Kfree(b)) \/ FreeStep
      PROVE  StacksTaper'
  <2> SUFFICES ASSUME NEW k \in Context PROVE Tapers(k)'
    BY DEF StacksTaper
  <2>1. CASE k = "main"
    <3>1. /\ pc'[k] # "descend" /\ pc[k] # "descend"
          /\ stack'[k] = stack[k] \/ stack'[k] = << >>
      BY <1>3, <2>1 DEF Kfree, FreeStep, Walk, Unset, Merge, Return, TypeOK, Context
    <3>2. Tapers(k)
      BY DEF StacksTaper
    <3>3. CASE stack'[k] = stack[k]
      BY <3>1, <3>2, <3>3 DEF Tapers
    <3>4. CASE stack'[k] = << >>
      BY <3>1, <3>2, <3>4, TapersEasily
    <3> QED
      BY <3>1, <3>3, <3>4
  <2>2. CASE k # "main"
    <3>1. stack'[k] = stack[k] /\ cur'[k] = cur[k] /\ pc'[k] = pc[k]
      BY <1>3, <2>2 DEF Kfree, FreeStep, Walk, Unset, Merge, Return, TypeOK, Context
    <3> QED
      BY <3>1, TapersEasily DEF StacksTaper
  <2> QED
    BY <2>1, <2>2
<1>4. CASE UNCHANGED vars
  BY <1>4 DEF vars, StacksTaper, Tapers
<1> QED
  BY <1>1, <1>2, <1>3, <1>4 DEF Next

-----------------------------------------------------------------------------
(* The search packs tight *)

\* A node with a block below it is set.
LEMMA CoveredSet ==
  ASSUME IInv, Calm, NEW t \in Tree, NEW n \in Node, Covered(t, n)
  PROVE  IsSet(t, n)
<1>1. PICK b \in blocks : b.tree = t /\ b.node \in Desc[n]
  BY DEF Covered
<1>2. IsSet(t, b.node)
  BY <1>1 DEF IInv, BlocksAreLeaves
<1> QED
  BY <1>1, <1>2, SetAbove DEF IInv

\* What is asked of the siblings depends on the blocks only.
LEMMA ClearStays ==
  ASSUME blocks' = blocks, NEW t, NEW n, NEW d, NEW S, ClearBut(t, n, d, S)
  PROVE  ClearBut(t, n, d, S)'
  BY DEF ClearBut, Covered, Full

\* Entries may be replaced by others that leave nothing out but what is full.
LEMMA ClearReplaced ==
  ASSUME NEW t, NEW n, NEW d, NEW S, NEW T, ClearBut(t, n, d, S),
         \A e \in S : \A m \in Level(d) \cap Desc[e.node] :
           Full(t, m) \/ \E f \in T : m \in Desc[f.node]
  PROVE  ClearBut(t, n, d, T)
  BY DEF ClearBut

\* The root has no sibling.
LEMMA ClearRoot ==
  ASSUME NEW t, NEW d, NEW S
  PROVE  ClearBut(t, 0, d, S) /\ ClearBut(t, 0, d, S)'
  BY RootOnTop DEF ClearBut

\* What a child has to mind beyond its parent is its own sibling.
LEMMA ClearChild ==
  ASSUME NEW t, NEW d, NEW S, NEW m \in Node, NEW x \in Children(m),
         ClearBut(t, m, d, S),
         \/ Covered(t, x) \/ ~Covered(t, B(x)) \/ \E e \in S : e.node = B(x)
  PROVE  ClearBut(t, x, d, S)
<1> SUFFICES ASSUME NEW a \in Node \ {0}, x \in Desc[a], ~Covered(t, a), Covered(t, B(a)),
                    NEW k \in Level(d) \cap Desc[B(a)]
             PROVE  Full(t, k) \/ \E e \in S : k \in Desc[e.node]
  BY DEF ClearBut
<1>1. CASE a = x
  BY <1>1
<1>2. CASE a # x
  <2>1. P(x) = m /\ P(x) \in Desc[a]
    BY <1>2, ParentInDesc, Shape
  <2> QED
    BY <2>1 DEF ClearBut
<1> QED
  BY <1>1, <1>2

\* A pop of a set node leaves every entry's siblings full, but for what lies under the
\* entries above it.  The pushed pair depends on the order in which it is pushed.
LEMMA TightPop ==
  ASSUME IInv, Calm, Accounted, NEW c \in Context, PopSet(c), Tight(c),
         \A k \in Context \ {c} : pc[k] = "idle"
  PROVE  \A i \in 1 .. Len(stack'[c]) :
           ClearBut(tree[c], stack'[c][i].node, want[c], Above(c, i)')
<1>0. /\ TypeOK /\ LevelsRight /\ stack[c] # << >> /\ pc[c] = "loop" /\ ~Falling(c)
      /\ want[c] \in Depth /\ tree[c] \in Tree
  BY DEF PopSet, Falling, IInv, TypeOK
<1>1. PICK s \in Tree, m \in Node, d \in Depth, w \in Depth, st \in Seq(EntryType) :
        /\ s = tree[c] /\ m = Top(c).node /\ d = Top(c).depth /\ w = want[c] /\ st = stack[c]
  BY <1>0, PopFacts DEF EntryType, TypeOK
<1>2. m \in Level(d) /\ d <= w /\ IsSet(s, m)
  BY <1>0, <1>1, PopFacts DEF PopSet
<1>3. Covered(s, m)
  BY <1>0, <1>1, <1>2, SearchOwes
<1>4. PICK r \in Seq(EntryType) :
        /\ r = Rest(c) /\ Len(r) \in Nat /\ Len(st) = Len(r) + 1 /\ Top(c) = st[Len(st)]
        /\ \A i \in 1 .. Len(r) : r[i] = st[i]
  <2>1. Rest(c) \in Seq(EntryType)
    BY <1>0, PopFacts
  <2>2. /\ Len(st) \in Nat \ {0} /\ Len(Rest(c)) = Len(st) - 1
        /\ \A i \in 1 .. Len(Rest(c)) : Rest(c)[i] = st[i]
    BY <1>0, <1>1, PopAt DEF Rest
  <2>3. Top(c) = st[Len(st)]
    BY <1>1 DEF Top
  <2> QED
    BY <2>1, <2>2, <2>3
<1>5. ASSUME NEW i \in 1 .. Len(r), NEW T,
             \A j \in i + 1 .. Len(r) : st[j] \in T,
             \A k \in Level(w) \cap Desc[m] : Full(s, k) \/ \E f \in T : k \in Desc[f.node]
      PROVE  ClearBut(s, st[i].node, w, T)
  <2>1. PICK S : S = Above(c, i)
    OBVIOUS
  <2>2. i \in 1 .. Len(st)
    BY <1>4
  <2>3. ClearBut(s, st[i].node, w, S)
    BY <1>0, <1>1, <2>1, <2>2 DEF Tight
  <2>4. \A e \in S : e \in T \/ e.node = m
    <3> SUFFICES ASSUME NEW j \in i + 1 .. Len(st) PROVE st[j] \in T \/ st[j].node = m
      BY <1>1, <2>1 DEF Above
    <3>1. j \in i + 1 .. Len(r) \/ j = Len(st)
      BY <1>4
    <3> QED
      BY <1>1, <1>4, <1>5, <3>1
  <2>5. \A e \in S : \A k \in Level(w) \cap Desc[e.node] :
          Full(s, k) \/ \E f \in T : k \in Desc[f.node]
    BY <1>5, <2>4
  <2> QED
    BY <2>3, <2>5, ClearReplaced
<1>6. CASE d = w \/ Leafless(s, m)
  <2>1. stack'[c] = r
    BY <1>0, <1>1, <1>4, <1>6 DEF PopSet, TypeOK
  <2>2. ASSUME NEW k \in Level(w) \cap Desc[m] PROVE Full(s, k)
    <3>1. k = m \/ Leafless(s, m)
      BY <1>2, <1>6, SameLevel
    <3> QED
      BY <1>3, <3>1, TurnsBack
  <2>3. ASSUME NEW i \in 1 .. Len(r)
        PROVE  ClearBut(s, r[i].node, w, Above(c, i)')
    <3>1. PICK T : T = Above(c, i)'
      OBVIOUS
    <3>2. \A j \in i + 1 .. Len(r) : st[j] \in T
      <4> SUFFICES ASSUME NEW j \in i + 1 .. Len(r) PROVE st[j] \in T
        OBVIOUS
      <4>1. j \in 1 .. Len(r)
        BY <1>4
      <4>2. r[j] \in T
        BY <2>1, <3>1 DEF Above
      <4> QED
        BY <1>4, <4>1, <4>2
    <3> QED
      BY <1>4, <1>5, <2>2, <3>1, <3>2
  <2> QED
    BY <1>1, <2>1, <2>3
<1>7. CASE ~(d = w \/ Leafless(s, m))
  <2>1. d # w /\ stack'[c] = r \o Branches(s, m, d)
    BY <1>0, <1>1, <1>4, <1>7 DEF PopSet, TypeOK
  <2>2. LC(m) \in Node /\ RC(m) \in Node /\ d + 1 \in Depth
    <3>1. d + 1 \in Depth
      BY <1>2, <2>1, BuddyAssumption DEF Depth
    <3> QED
      BY <1>2, <3>1, Levels
  <2>3. PICK x \in EntryType, y \in EntryType :
          /\ stack'[c] = r \o << x, y >>
          /\ \/ x.node = LC(m) /\ y.node = RC(m) /\ IsSet(s, RC(m))
             \/ x.node = RC(m) /\ y.node = LC(m) /\ ~IsSet(s, RC(m))
    <3>1. PICK u \in EntryType, v \in EntryType :
            /\ u = Entry(LC(m), d + 1) /\ v = Entry(RC(m), d + 1)
            /\ u.node = LC(m) /\ v.node = RC(m)
      <4>1. /\ Entry(LC(m), d + 1) \in EntryType /\ Entry(LC(m), d + 1).node = LC(m)
            /\ Entry(RC(m), d + 1) \in EntryType /\ Entry(RC(m), d + 1).node = RC(m)
        BY <2>2 DEF Entry, EntryType
      <4> QED
        BY <4>1
    <3>2. CASE IsSet(s, RC(m))
      <4>1. stack'[c] = r \o << u, v >>
        BY <2>1, <3>1, <3>2 DEF Branches
      <4> QED
        BY <3>1, <3>2, <4>1
    <3>3. CASE ~IsSet(s, RC(m))
      <4>1. stack'[c] = r \o << v, u >>
        BY <2>1, <3>1, <3>3 DEF Branches
      <4> QED
        BY <3>1, <3>3, <4>1
    <3> QED
      BY <3>2, <3>3
  <2>4. PICK n \in Nat, q \in Seq(EntryType) :
          /\ n = Len(r) /\ q = stack'[c] /\ Len(q) = n + 2
          /\ q[n + 1] = x /\ q[n + 2] = y /\ \A i \in 1 .. n : q[i] = r[i]
    <3>1. stack'[c] \in Seq(EntryType)
      BY <2>3, StackPush
    <3>2. /\ Len(stack'[c]) = Len(r) + 2
          /\ stack'[c][Len(r) + 1] = x /\ stack'[c][Len(r) + 2] = y
          /\ \A i \in 1 .. Len(r) : stack'[c][i] = r[i]
      BY <2>3, PushAt
    <3> QED
      BY <1>4, <3>1, <3>2
  <2>5. /\ x.node \in Children(m) /\ y.node \in Children(m) /\ Children(m) = {x.node, y.node}
        /\ x.node # y.node
    <3>1. Children(m) = {LC(m), RC(m)}
      BY <2>2 DEF Children
    <3>2. LC(m) # RC(m)
      <4>1. m \in Nat
        BY Shape
      <4> QED
        BY <4>1 DEF LC, RC
    <3> QED
      BY <2>3, <3>1, <3>2
  <2>6. B(x.node) = y.node /\ B(y.node) = x.node
    <3>1. ASSUME NEW z \in Children(m) PROVE z \in Node \ {0} /\ P(z) = m
      BY Shape
    <3>2. /\ x.node \in Node \ {0} /\ P(x.node) = m
          /\ y.node \in Node \ {0} /\ P(y.node) = m
      BY <2>5, <3>1
    <3> QED
      BY <2>5, <3>2, Shape
  <2>7. \A i \in 1 .. n + 2 : Above(c, i)' = {q[j] : j \in i + 1 .. n + 2}
    BY <2>4 DEF Above
  <2>8. Covered(s, y.node) \/ ~Covered(s, x.node)
    <3>1. CASE y.node = RC(m) /\ IsSet(s, RC(m))
      BY <1>0, <1>1, <2>2, <3>1, SearchOwes
    <3>2. CASE x.node = RC(m) /\ ~IsSet(s, RC(m))
      BY <2>2, <3>2, CoveredSet
    <3> QED
      BY <2>3, <3>1, <3>2
  <2>9. \A S : ClearBut(s, m, w, S)
    <3>1. \A a \in Node : m \in Desc[a] => Covered(s, a)
      BY <1>3, CoveredAbove
    <3> QED
      BY <3>1 DEF ClearBut
  <2>10. ASSUME NEW i \in 1 .. n
         PROVE  ClearBut(s, q[i].node, w, Above(c, i)')
    <3>1. PICK T : T = Above(c, i)'
      OBVIOUS
    <3>2. x \in T /\ y \in T /\ \A j \in i + 1 .. n : q[j] \in T
      <4>1. n + 1 \in i + 1 .. n + 2 /\ n + 2 \in i + 1 .. n + 2 /\ i \in 1 .. n + 2
            /\ \A j \in i + 1 .. n : j \in i + 1 .. n + 2
        OBVIOUS
      <4> QED
        BY <2>4, <2>7, <3>1, <4>1
    <3>3. \A j \in i + 1 .. n : st[j] \in T
      <4> SUFFICES ASSUME NEW j \in i + 1 .. n PROVE st[j] \in T
        OBVIOUS
      <4>1. j \in 1 .. n
        OBVIOUS
      <4> QED
        BY <1>4, <2>4, <3>2, <4>1
    <3>4. \A k \in Level(w) \cap Desc[m] : \E f \in T : k \in Desc[f.node]
      <4> SUFFICES ASSUME NEW k \in Level(w) \cap Desc[m] PROVE \E f \in T : k \in Desc[f.node]
        OBVIOUS
      <4>1. k # m
        BY <1>2, <2>1, Levels
      <4>2. PICK z \in Children(m) : k \in Desc[z]
        BY <4>1, DescSplit
      <4> QED
        BY <2>5, <3>2, <4>2
    <3> QED
      BY <1>4, <1>5, <2>4, <3>1, <3>3, <3>4
  <2>11. ClearBut(s, q[n + 1].node, w, Above(c, n + 1)')
    <3>1. PICK T : T = Above(c, n + 1)'
      OBVIOUS
    <3>2. y \in T
      BY <2>4, <2>7, <3>1
    <3>3. ClearBut(s, x.node, w, T)
      BY <2>5, <2>6, <2>9, <3>2, ClearChild
    <3> QED
      BY <2>4, <3>1, <3>3
  <2>12. ClearBut(s, q[n + 2].node, w, Above(c, n + 2)')
    <3>1. PICK T : T = Above(c, n + 2)'
      OBVIOUS
    <3>2. ClearBut(s, y.node, w, T)
      BY <2>5, <2>6, <2>8, <2>9, ClearChild
    <3> QED
      BY <2>4, <3>1, <3>2
  <2>13. \A i \in 1 .. n + 2 : i \in 1 .. n \/ i = n + 1 \/ i = n + 2
    OBVIOUS
  <2>14. \A i \in 1 .. n + 2 : ClearBut(s, q[i].node, w, Above(c, i)')
    BY <2>10, <2>11, <2>12, <2>13
  <2> QED
    BY <1>1, <2>4, <2>14
<1> QED
  BY <1>6, <1>7

\* A search that begins a tree has only the root in hand, and an ended one nothing.
LEMMA TightStart ==
  ASSUME NEW c \in Context,
         \/ pc'[c] \notin {"loop", "claim", "descend"}
         \/ pc'[c] = "loop" /\ stack'[c] = << Root >>
  PROVE  Tight(c)'
<1>1. CASE pc'[c] \notin {"loop", "claim", "descend"}
  BY <1>1 DEF Tight, Falling
<1>2. CASE pc'[c] = "loop" /\ stack'[c] = << Root >>
  <2>1. \A i \in 1 .. Len(stack'[c]) : stack'[c][i].node = 0
    BY <1>2 DEF Root
  <2>2. Aim(c)' = 0
    BY <1>2 DEF Aim, Top, Root
  <2>3. ClearBut(tree[c], Aim(c), want[c], {})'
    <3>1. PICK t, d : t = tree'[c] /\ d = want'[c]
      OBVIOUS
    <3>2. ClearBut(t, 0, d, {})'
      BY ClearRoot
    <3> QED
      BY <2>2, <3>1, <3>2
  <2>4. ASSUME NEW i \in 1 .. Len(stack'[c])
        PROVE  ClearBut(tree[c], stack[c][i].node, want[c], Above(c, i))'
    <3>1. PICK t, d, T : t = tree'[c] /\ d = want'[c] /\ T = Above(c, i)'
      OBVIOUS
    <3>2. ClearBut(t, 0, d, T)'
      BY ClearRoot
    <3> QED
      BY <2>1, <3>1, <3>2
  <2> QED
    BY <2>3, <2>4 DEF Tight
<1> QED
  BY <1>1, <1>2

\* A step of the search keeps the siblings full, and claims only where they are.
LEMMA TightAlloc ==
  ASSUME IInv, Accounted, Calm', NEW c \in Context, AllocStep(c), Tight(c)
  PROVE  /\ Tight(c)'
         /\ \A b \in blocks' \ blocks : ClearSibling(b.tree, b.node, b.depth)
<1>1. /\ Calm /\ pc[c] \in {"loop", "claim", "descend"} /\ tree[c] \in Tree /\ want[c] \in Depth
      /\ \A k \in Context \ {c} : pc[k] = "idle" /\ pc'[k] = "idle"
      /\ TypeOK /\ LevelsRight
  BY SearchAlone DEF IInv
<1>2. PICK s \in Tree, w \in Depth : s = tree[c] /\ w = want[c]
  BY <1>1
<1>3. CASE PopClear(c)
  <2>1. PICK x : x = Top(c).node
    OBVIOUS
  <2>2. /\ pc[c] = "loop" /\ pc'[c] \in {"claim", "descend"} /\ cur'[c] = Top(c)
        /\ tree'[c] = s /\ want'[c] = w /\ blocks' = blocks /\ Falling(c)
    BY <1>1, <1>2, <1>3 DEF PopClear, TypeOK, Falling
  <2>3. Aim(c) = x /\ Aim(c)' = x /\ pc'[c] # "loop"
    BY <2>1, <2>2 DEF Aim
  <2>4. ClearBut(s, x, w, {})
    BY <1>2, <2>2, <2>3 DEF Tight
  <2>5. ClearBut(s, x, w, {})'
    BY <2>2, <2>4, ClearStays
  <2> QED
    BY <2>2, <2>3, <2>5 DEF Tight
<1>4. CASE PopSet(c)
  <2>1. /\ pc' = pc /\ pc[c] = "loop" /\ tree'[c] = s /\ want'[c] = w /\ blocks' = blocks
        /\ stack'[c] \in Seq(EntryType)
    <3>1. TypeOK'
      BY TypeStep, <1>1, <1>4 DEF Next, AllocStep
    <3> QED
      BY <1>2, <1>4, <3>1 DEF PopSet, TypeOK
  <2>2. \A i \in 1 .. Len(stack'[c]) : ClearBut(s, stack'[c][i].node, w, Above(c, i)')
    BY <1>1, <1>2, <1>4, TightPop
  <2>3. ASSUME NEW i \in 1 .. Len(stack'[c])
        PROVE  ClearBut(tree[c], stack[c][i].node, want[c], Above(c, i))'
    <3>1. PICK x, T : x = stack'[c][i].node /\ T = Above(c, i)'
      OBVIOUS
    <3>2. ClearBut(s, x, w, T)'
      BY <2>1, <2>2, <3>1, ClearStays
    <3> QED
      BY <2>1, <3>1, <3>2
  <2>4. ASSUME Falling(c)'
        PROVE  ClearBut(tree[c], Aim(c), want[c], {})'
    <3>1. PICK q \in Seq(EntryType), n \in Nat : q = stack'[c] /\ q # << >> /\ n = Len(q)
      BY <2>1, <2>4, LenProperties DEF Falling
    <3>2. n \in 1 .. n /\ Aim(c)' = q[n].node
      <4>1. n # 0
        BY <3>1, EmptySeq
      <4> QED
        BY <2>1, <3>1, <4>1 DEF Aim, Top
    <3>3. Above(c, n)' = {}
      BY <3>1 DEF Above
    <3> QED
      BY <2>1, <2>3, <3>1, <3>2, <3>3
  <2> QED
    BY <2>1, <2>3, <2>4 DEF Tight
<1>5. CASE Descend(c)
  <2>1. PICK m \in Node : m = cur[c].node
    BY <1>1, <1>5, DescendFalls
  <2>2. /\ LC(m) \in Children(m) /\ blocks' = blocks /\ tree'[c] = s /\ want'[c] = w
        /\ pc[c] = "descend" /\ pc'[c] = "loop" /\ Falling(c)' /\ Aim(c)' = LC(m)
    BY <1>1, <1>2, <1>5, <2>1, DescendFalls, ZenonT(40) DEF Descend
  <2>3. ClearBut(s, m, w, {})
    BY <1>2, <2>1, <2>2 DEF Tight, Falling, Aim
  <2>4. ~Covered(s, B(LC(m)))
    <3>1. LC(m) \in Node \ {0} /\ P(LC(m)) = m
      BY <2>2, Shape
    <3>2. B(LC(m)) \in Node \ {0} /\ P(B(LC(m))) = m
      BY <3>1, Siblings
    <3>3. ~IsSet(s, m)
      BY <1>1, <1>2, <2>1, <2>2 DEF IInv, SearchFrame
    <3>4. ~IsSet(s, B(LC(m)))
      BY <1>1, <3>2, <3>3 DEF IInv, ParentsSet
    <3> QED
      BY <1>1, <3>2, <3>4, CoveredSet
  <2>5. ClearBut(s, LC(m), w, {})
    BY <2>2, <2>3, <2>4, ClearChild
  <2>6. ClearBut(s, LC(m), w, {})'
    BY <2>2, <2>5, ClearStays
  <2> QED
    BY <2>2, <2>6 DEF Tight
<1>6. CASE Claim(c)
  <2>1. PICK m, d : m = cur[c].node /\ d = cur[c].depth
    OBVIOUS
  <2>2. /\ pc[c] = "claim" /\ pc'[c] = "idle" /\ d = w
        /\ blocks' = blocks \cup {BlockAt(s, m, d)}
    BY <1>1, <1>2, <1>6, <2>1 DEF Claim, Return, TypeOK, LevelsRight
  <2>3. ClearBut(s, m, w, {})
    BY <1>2, <2>1, <2>2 DEF Tight, Falling, Aim
  <2>4. ClearSibling(s, m, w)
    BY <2>3 DEF ClearBut, ClearSibling
  <2>5. \A b \in blocks' \ blocks : b.tree = s /\ b.node = m /\ b.depth = w
    BY <2>2 DEF BlockAt
  <2>6. Tight(c)'
    BY <2>2 DEF Tight, Falling
  <2> QED
    BY <2>4, <2>5, <2>6
<1>7. CASE NextTree(c)
  <2>1. /\ blocks' = blocks
        /\ pc'[c] = "halt" \/ (pc'[c] = "loop" /\ stack'[c] = << Root >>)
    BY <1>1, <1>7 DEF NextTree, TypeOK
  <2> QED
    BY <2>1, TightStart
<1> QED
  BY <1>3, <1>4, <1>5, <1>6, <1>7 DEF AllocStep

\* Every step keeps the siblings full, and only a claim adds a block.
LEMMA TightNext ==
  ASSUME TightInv, [Next]_vars, Calm'
  PROVE  /\ \A c \in Context : Tight(c)'
         /\ \A b \in blocks' \ blocks : ClearSibling(b.tree, b.node, b.depth)
<1>1. ExactInv /\ IInv /\ Accounted /\ TypeOK
  BY DEF TightInv, ExactInv, IInv
<1>2. ASSUME NEW c \in Context, AllocStep(c)
      PROVE  /\ \A k \in Context : Tight(k)'
             /\ \A b \in blocks' \ blocks : ClearSibling(b.tree, b.node, b.depth)
  <2>1. Calm /\ \A k \in Context \ {c} : pc'[k] = "idle"
    BY <1>1, <1>2, SearchAlone
  <2>2. Tight(c)
    BY <2>1 DEF TightInv
  <2>3. \A k \in Context \ {c} : Tight(k)'
    BY <2>1, TightStart
  <2> QED
    BY <1>1, <1>2, <2>2, <2>3, TightAlloc
<1>3. ASSUME NEW c \in Context, NEW d \in Depth, Call(c, d)
      PROVE  (\A k \in Context : Tight(k)') /\ blocks' = blocks
  <2>1. /\ \A k \in Context : k # c => pc'[k] = "idle"
        /\ pc'[c] = "loop" /\ stack'[c] = << Root >> /\ blocks' = blocks
    BY <1>1, <1>3, CallAlone
  <2> QED
    BY <2>1, TightStart
<1>4. ASSUME NEW b \in blocks, Kfree(b)
      PROVE  (\A k \in Context : Tight(k)') /\ blocks' = blocks
  <2>1. /\ \A k \in Context : k # "main" => pc'[k] = "idle"
        /\ pc'["main"] = "walk" /\ blocks' = blocks
    BY <1>1, <1>4, KfreeAlone
  <2> QED
    BY <2>1, TightStart
<1>5. ASSUME FreeStep
      PROVE  (\A k \in Context : Tight(k)') /\ blocks' \subseteq blocks
  <2>1. pc'["main"] \in {"walk", "unset", "merge", "idle"} /\ pc'["irq"] = "idle"
    BY <1>1, <1>5, FreeAlone
  <2>2. blocks' \subseteq blocks
    BY <1>5 DEF FreeStep, Walk, Unset, Merge
  <2> QED
    BY <2>1, <2>2, TightStart DEF Context
<1>6. CASE UNCHANGED vars
  <2>1. Calm /\ blocks' = blocks
    BY <1>6 DEF vars, Calm
  <2>2. \A c \in Context : Tight(c)
    BY <2>1 DEF TightInv
  <2> QED
    BY <1>6, <2>1, <2>2
      DEF vars, Tight, Falling, Aim, Top, Above, ClearBut, Covered, Full, IsSet, Loc
<1> QED
  BY <1>2, <1>3, <1>4, <1>5, <1>6 DEF Next

-----------------------------------------------------------------------------
(* Theorems *)

\* At first nothing is out and every node is clear.
LEMMA ExactInit == Init => ExactInv
<1> SUFFICES ASSUME Init PROVE ExactInv
  OBVIOUS
<1>1. IInv
  BY InvInit
<1>2. \A t \in Tree, n \in Node : ~IsSet(t, n)
  <2> SUFFICES ASSUME NEW t \in Tree, NEW n \in Node PROVE ~IsSet(t, n)
    OBVIOUS
  <2>1. << t, n >> \in (0 .. TreeCount) \X (0 .. Slots - 1)
    BY Shape, BuddyAssumption DEF Tree, Node
  <2> QED
    BY <1>1, <2>1, BitRead DEF Init, IInv
<1>3. Accounted
  BY <1>2 DEF Accounted
<1>4. /\ pc["main"] = "loop" /\ pc["irq"] = "idle" /\ tree["main"] = 0
      /\ stack["main"] = << Root >>
  BY DEF Init, Context
<1>5. Falling("main")
  <2>1. 0 \in Tree /\ 0 \in Node /\ Top("main").node = 0 /\ stack["main"] # << >>
    BY <1>4, Shape, BuddyAssumption DEF Tree, Top, Root
  <2> QED
    BY <1>2, <1>4, <2>1 DEF Falling
<1>6. Searched /\ HaltOnlyWhenFull
  BY <1>4, <1>5, BuddyAssumption DEF Searched, HaltOnlyWhenFull, Context, Tree
<1>7. StacksTaper
  <2> SUFFICES ASSUME NEW c \in Context PROVE Tapers(c)
    BY DEF StacksTaper
  <2>1. pc[c] # "descend" /\ (stack[c] = << >> \/ stack[c] = << Root >>)
    BY DEF Init
  <2>2. CASE stack[c] = << >>
    BY <2>1, <2>2 DEF Tapers
  <2>3. CASE stack[c] = << Root >>
    BY <2>1, <2>3 DEF Tapers, Root
  <2> QED
    BY <2>1, <2>2, <2>3
<1> QED
  BY <1>1, <1>3, <1>6, <1>7 DEF ExactInv

\* The strengthening of BitsExact, HaltOnlyWhenFull and StackFits is an invariant.
THEOREM ExactInvariance == Spec => []ExactInv
<1>1. ExactInv /\ [Next]_vars => ExactInv'
  BY InvNext, AccountedNext, SearchedNext, TaperNext DEF ExactInv, IInv
<1> QED
  BY ExactInit, <1>1, PTL DEF Spec

\* Between calls the bits say exactly which blocks are out: kalloc leaks nothing when it
\* splits, and kfree's merge stops neither too early nor too late.
THEOREM NothingLost == Spec => []BitsExact
<1>1. ExactInv => BitsExact
  BY AccountedExact DEF ExactInv
<1> QED
  BY ExactInvariance, <1>1, PTL

\* The assertion in buddy_alloc_depth fails only if every block of the depth asked for
\* overlaps one that is out.
THEOREM RefusesOnlyWhenFull == Spec => []HaltOnlyWhenFull
<1>1. ExactInv => HaltOnlyWhenFull
  BY DEF ExactInv
<1> QED
  BY ExactInvariance, <1>1, PTL

\* The search stays within half of stack[2 * BUDDY_MAX_DEPTH], whatever handlers do.
THEOREM StackBounded == Spec => []StackFits
<1>1. ExactInv => StackFits
  <2> SUFFICES ASSUME ExactInv, NEW c \in Context PROVE Len(stack[c]) <= MaxDepth
    BY DEF StackFits
  <2>1. PICK s \in Seq(EntryType) : s = stack[c]
    BY DEF ExactInv, IInv, TypeOK
  <2>2. Len(s) \in Nat
    BY LenProperties
  <2>3. CASE Len(s) = 0
    BY <2>1, <2>3, BuddyAssumption
  <2>4. CASE Len(s) # 0
    <3>1. Len(s) \in 1 .. Len(s) /\ s[Len(s)] \in EntryType
      BY <2>2, <2>4, ElementOfSeq
    <3>2. Len(s) <= s[Len(s)].depth /\ s[Len(s)].depth \in Depth
      BY <2>1, <3>1 DEF ExactInv, StacksTaper, Tapers, EntryType
    <3> QED
      BY <2>1, <2>2, <3>2, BuddyAssumption DEF Depth
  <2> QED
    BY <2>3, <2>4
<1> QED
  BY ExactInvariance, <1>1, PTL

\* The strengthening of PacksTight is an invariant.
THEOREM TightInvariance == Spec => []TightInv
<1>1. Init => TightInv
  <2> SUFFICES ASSUME Init, NEW c \in Context PROVE Tight(c)
    BY ExactInit DEF TightInv
  <2>1. pc[c] = "idle" \/ (pc[c] = "loop" /\ stack[c] = << Root >>)
    BY DEF Init
  <2>2. CASE pc[c] = "idle"
    BY <2>2 DEF Tight, Falling
  <2>3. CASE pc[c] = "loop" /\ stack[c] = << Root >>
    <3>1. Aim(c) = 0 /\ \A i \in 1 .. Len(stack[c]) : stack[c][i].node = 0
      BY <2>3 DEF Aim, Top, Root
    <3> QED
      BY <2>3, <3>1, ClearRoot DEF Tight
  <2> QED
    BY <2>1, <2>2, <2>3
<1>2. TightInv /\ [Next]_vars => TightInv'
  <2> SUFFICES ASSUME TightInv, [Next]_vars PROVE TightInv'
    OBVIOUS
  <2>1. ExactInv'
    BY InvNext, AccountedNext, SearchedNext, TaperNext DEF TightInv, ExactInv, IInv
  <2> QED
    BY <2>1, TightNext DEF TightInv
<1> QED
  BY <1>1, <1>2, PTL DEF Spec

\* kalloc carves a block out of an untouched subtree only if the sibling subtree, when it
\* is in use already, has no room for it: large blocks stay whole as long as they can.
THEOREM CarvesLast == Spec => PacksTight
<1>1. TightInv /\ [Next]_vars =>
        [Calm' => \A b \in blocks' \ blocks : ClearSibling(b.tree, b.node, b.depth)]_blocks
  BY TightNext
<1> QED
  BY TightInvariance, <1>1, PTL DEF Spec, PacksTight

-----------------------------------------------------------------------------
(* The promise *)

\* A handler that never allocates preempts nothing.
LEMMA StaysCalm ==
  ASSUME ~Preemption, Calm, [Next]_vars
  PROVE  Calm'
<1>1. ASSUME NEW c \in Context, NEW d \in Depth, Call(c, d) PROVE Calm'
  BY <1>1 DEF Call, Calm
<1>2. ASSUME NEW c \in Context, AllocStep(c) PROVE Calm'
  BY <1>2 DEF AllocStep, PopClear, PopSet, Descend, Claim, NextTree, Calm
<1>3. ASSUME (\E b \in blocks : Kfree(b)) \/ FreeStep PROVE Calm'
  BY <1>3 DEF Kfree, FreeStep, Walk, Unset, Merge, Calm
<1> QED
  BY <1>1, <1>2, <1>3 DEF Next, vars, Calm

\* Nobody has stopped the kernel while a call goes on.
LEMMA RunsOn ==
  ASSUME TypeOK, NEW c \in Context, Runs(c), pc'[c] # "halt",
         \A k \in Context \ {c} : pc'[k] = pc[k]
  PROVE  ~Halted /\ ~Halted' /\ Halted' = Halted
<1>1. ~Halted
  BY DEF Runs
<1>2. ~Halted'
  <2> SUFFICES ASSUME NEW k \in Context PROVE pc'[k] # "halt"
    BY DEF Halted
  <2> QED
    BY <1>1 DEF Halted
<1> QED
  BY <1>1, <1>2 DEF Halted

\* SET at the end of a search hands out a block that was free.
LEMMA ClaimHandsOut ==
  ASSUME ExactInv, ExactInv', Calm, Calm', NEW c \in Context, Claim(c)
  PROVE  \E b \in Block : Promise!HandOut(b)
<1>0. /\ TypeOK /\ LevelsRight /\ BlocksAreLeaves /\ SearchFrame(c)
      /\ TypeOK' /\ NoOverlap'
  <2>1. IInv /\ IInv'
    BY DEF ExactInv
  <2>2. NoOverlap'
    BY <2>1, InvNoOverlap, PTL
  <2> QED
    BY <2>1, <2>2 DEF IInv
<1>1. PICK t \in Tree, d \in Depth, n \in Nat :
        n \in Level(d) /\ t = tree[c] /\ d = cur[c].depth /\ n = cur[c].node
  <2>1. tree[c] \in Tree /\ cur[c].depth \in Depth /\ cur[c].node \in Nat
    BY <1>0 DEF TypeOK
  <2>2. cur[c].node \in Level(cur[c].depth)
    BY <1>0 DEF Claim, LevelsRight
  <2> QED
    BY <2>1, <2>2
<1> DEFINE b == BlockAt(t, n, d)
<1>2. b \in Block /\ b.tree = t /\ b.node = n
  BY <1>1 DEF Block, BlockAt
<1>3. blocks' = blocks \cup {b} /\ pc'[c] = "idle" /\ \A k \in Context \ {c} : pc'[k] = pc[k]
  BY <1>0, <1>1 DEF Claim, Return, TypeOK
<1>4. b \notin blocks
  BY <1>0, <1>1, <1>2 DEF Claim, SearchFrame, BlocksAreLeaves
<1> HIDE DEF b
<1>5. \A x \in blocks : ~Overlaps(b, x)
  BY <1>0, <1>3, <1>4 DEF NoOverlap, Calm, Overlaps
<1>6. ~Halted /\ ~Halted' /\ Halted' = Halted
  BY <1>0, <1>3, RunsOn DEF Claim
<1> QED
  <2>1. Promise!Free(b)
    BY <1>5 DEF Promise!Free
  <2>2. Promise!HandOut(b)
    BY <1>3, <1>6, <2>1 DEF Promise!HandOut
  <2> QED
    BY <1>2, <2>2
\* The first CLEAR of kfree takes the block back.
LEMMA UnsetTakesBack ==
  ASSUME ExactInv, Calm, Unset
  PROVE  \E b \in Block : Promise!TakeBack(b)
<1>0. TypeOK /\ FreeFrame
  BY DEF ExactInv, IInv
<1>1. victim \in blocks /\ victim \in Block
  BY <1>0 DEF Unset, FreeFrame, TypeOK
<1>2. ~Halted /\ ~Halted' /\ Halted' = Halted
  BY <1>0, RunsOn DEF Unset, TypeOK, Context
<1> QED
  <2>1. Promise!TakeBack(victim)
    BY <1>1, <1>2 DEF Unset, Promise!TakeBack
  <2> QED
    BY <1>1, <2>1

\* assert1(0) refuses a depth that no free block has.
LEMMA HaltGivesUp ==
  ASSUME ExactInv, ExactInv', Calm', NEW c \in Context, NextTree(c), pc'[c] = "halt"
  PROVE  \E k \in Depth : Promise!GiveUp(k)
<1>1. PICK d \in Depth : d = want'[c]
  BY DEF ExactInv, IInv, TypeOK
<1>2. \A t \in Tree, n \in Level(d) : Full(t, n)'
  BY <1>1 DEF ExactInv, HaltOnlyWhenFull
<1>3. blocks' = blocks
  BY DEF NextTree
<1>4. ASSUME NEW b \in Block, b.depth = d
      PROVE  \E x \in blocks : Overlaps(b, x)
  <2>1. Full(b.tree, b.node)'
    BY <1>2, <1>4, BlockFacts
  <2>2. Full(b.tree, b.node)
    BY <1>3, <2>1 DEF Full
  <2> QED
    BY <2>2 DEF Full, Overlaps
<1>5. Halted'
  BY DEF Halted
<1> QED
  BY <1>3, <1>4, <1>5 DEF Promise!GiveUp, Promise!Free, ClassOf

\* Every step of the trees is a step of the promise, or one it does not see.
LEMMA StepKept ==
  ASSUME ExactInv, ExactInv', Calm, Calm', [Next]_vars
  PROVE  [Promise!Next]_(Promise!vars)
<1>0. TypeOK /\ FreeFrame
  BY DEF ExactInv, IInv
<1>1. ASSUME blocks' = blocks, Halted' = Halted PROVE UNCHANGED Promise!vars
  BY <1>1 DEF Promise!vars
<1>2. ASSUME NEW c \in Context, NEW d \in Depth, Call(c, d)
      PROVE  UNCHANGED Promise!vars
  <2>1. pc'[c] = "loop" /\ (\A k \in Context \ {c} : pc'[k] = pc[k]) /\ blocks' = blocks
    BY <1>0, <1>2 DEF Call, TypeOK
  <2> QED
    BY <1>0, <1>1, <1>2, <2>1, RunsOn DEF Call
<1>3. ASSUME NEW c \in Context, PopClear(c) \/ PopSet(c) \/ Descend(c)
      PROVE  UNCHANGED Promise!vars
  <2>1. /\ pc'[c] # "halt" /\ (\A k \in Context \ {c} : pc'[k] = pc[k]) /\ blocks' = blocks
        /\ Runs(c)
    BY <1>0, <1>3 DEF PopClear, PopSet, Descend, TypeOK
  <2> QED
    BY <1>0, <1>1, <2>1, RunsOn
<1>4. ASSUME NEW c \in Context, NextTree(c), pc'[c] # "halt"
      PROVE  UNCHANGED Promise!vars
  <2>1. (\A k \in Context \ {c} : pc'[k] = pc[k]) /\ blocks' = blocks /\ Runs(c)
    BY <1>0, <1>4 DEF NextTree, TypeOK
  <2> QED
    BY <1>0, <1>1, <1>4, <2>1, RunsOn
<1>5. ASSUME NEW b \in blocks, Kfree(b)
      PROVE  UNCHANGED Promise!vars
  <2>1. /\ pc'["main"] = "walk" /\ \A k \in Context \ {"main"} : pc'[k] = pc[k]
        /\ blocks' = blocks /\ Runs("main") /\ "main" \in Context
    BY <1>0, <1>5 DEF Kfree, TypeOK, Context
  <2> QED
    BY <1>0, <1>1, <2>1, RunsOn
<1>6. ASSUME Walk \/ Merge
      PROVE  UNCHANGED Promise!vars
  <2>1. /\ pc'["main"] # "halt" /\ \A k \in Context \ {"main"} : pc'[k] = pc[k]
        /\ Runs("main") /\ "main" \in Context
    BY <1>0, <1>6 DEF Walk, Merge, Return, TypeOK, Context
  <2>2. blocks' = blocks
    BY <1>6, WalkFinds DEF Walk, Merge, ExactInv
  <2> QED
    BY <1>0, <1>1, <2>1, <2>2, RunsOn
<1>7. ASSUME UNCHANGED vars
      PROVE  UNCHANGED Promise!vars
  BY <1>1, <1>7 DEF vars, Halted
<1>8. ASSUME NEW c \in Context, AllocStep(c)
      PROVE  [Promise!Next]_(Promise!vars)
  BY <1>3, <1>4, <1>8, ClaimHandsOut, HaltGivesUp DEF AllocStep, Promise!Next
<1>9. ASSUME FreeStep
      PROVE  [Promise!Next]_(Promise!vars)
  BY <1>6, <1>9, UnsetTakesBack DEF FreeStep, Promise!Next
<1> QED
  BY <1>2, <1>5, <1>7, <1>8, <1>9 DEF Next

\* kalloc and kfree called from one context at a time keep the promise of PageAllocator:
\* memory that is out is never handed out again, kfree gives back the one block it was
\* given, and a request is refused only when no block of its size is free.
THEOREM PromiseKept ==
  ASSUME ~Preemption
  PROVE  Spec => KeepsPromise
<1>1. Init => Calm /\ Promise!Init
  BY DEF Init, Calm, Promise!Init, Halted
<1>2. Calm /\ [Next]_vars => Calm'
  BY StaysCalm
<1>3. ExactInv /\ ExactInv' /\ Calm /\ Calm' /\ [Next]_vars => [Promise!Next]_(Promise!vars)
  BY StepKept
<1> QED
  BY <1>1, <1>2, <1>3, ExactInvariance, PTL DEF Spec, KeepsPromise, Promise!Spec

=============================================================================
