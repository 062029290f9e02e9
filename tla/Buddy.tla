------------------------------- MODULE Buddy -------------------------------
(***************************************************************************)
(* The buddy allocator of kernel/arch/x86/page.c: TreeCount trees of bits, *)
(* one per 8 MB region, each tree in heap order (root 0, children 2n+1 and *)
(* 2n+2).  A set node both of whose children are clear is a block that is  *)
(* out; a set node with a set child has been split.                        *)
(*                                                                         *)
(* One action is one iteration of the depth-first search in                *)
(* buddy_tree_try_alloc_depth or of the loops of kfree, with the test of a *)
(* bit and the SET that relies on it as two actions: interrupt handlers    *)
(* allocate too (virtio_queue_dequeue calls kzmalloc), and such a handler  *)
(* may run between the two.                                                *)
(***************************************************************************)
EXTENDS Integers, Sequences

CONSTANTS
  MaxDepth,    \* BUDDY_MAX_DEPTH: levels of a tree (12 in the code)
  TreeCount,   \* buddy_count: 8 MB regions (16 in the code)
  MetaDepth,   \* depth of the block that holds the trees themselves
  Preemption   \* TRUE: an interrupt handler may allocate at any time

ASSUME BuddyAssumption ==
  /\ MaxDepth \in Nat \ {0}
  /\ TreeCount \in Nat \ {0}
  /\ MetaDepth \in 1 .. MaxDepth
  /\ Preemption \in BOOLEAN

\* Arithmetic of powers of two, for provers that know nothing of x^y.
ASSUME PowerAssumption ==
  /\ 2^0 = 1
  /\ \A k \in 0 .. MaxDepth : 2^k \in Nat \ {0}
  /\ \A k \in 1 .. MaxDepth : 2^k = 2 * 2^(k - 1)
  /\ \A j, k \in 0 .. MaxDepth : j <= k => 2^j <= 2^k

VARIABLES
  bits,        \* buddy_system.array, and one zeroed tree of padding after it
  pc,          \* per context: what the running call does next
  want,        \* per context: the depth asked for
  tree,        \* per context: the tree being searched or freed into
  stack,       \* per context: the explicit stack of the search, top last
  cur,         \* per context: the node in hand
  victim,      \* the block that the running kfree was given
  blocks,      \* history: the blocks that are out
  preempted    \* history: a handler has allocated inside a call of the kernel

vars == << bits, pc, want, tree, stack, cur, victim, blocks, preempted >>

-----------------------------------------------------------------------------
(* Trees and blocks *)

Context == {"main", "irq"}
Tree    == 0 .. TreeCount - 1
Depth   == 1 .. MaxDepth
Slots   == 2^MaxDepth                 \* bits in a buddy_tree, one of them spare
Node    == 0 .. Slots - 2             \* BUDDY_NODES_COUNT of them

LC(n) == 2 * n + 1
RC(n) == 2 * n + 2
P(n)  == (n - 1) \div 2
B(n)  == IF n % 2 = 1 THEN n + 1 ELSE n - 1

FirstAt(d) == 2^(d - 1) - 1
Level(d)   == FirstAt(d) .. 2 * FirstAt(d)

\* get_tree_node_addr, in pages from the base of the node's own tree.
PageOf(n, d) == 2^(MaxDepth - d) * (n - FirstAt(d))
BlockAt(t, n, d) == [tree |-> t, node |-> n, depth |-> d, page |-> PageOf(n, d)]

Block     == UNION {{BlockAt(t, n, d) : t \in Tree, n \in Level(d)} : d \in Depth}
NoBlock   == [tree |-> -1, node |-> -1, depth |-> 0, page |-> 0]
MetaBlock == BlockAt(0, FirstAt(MetaDepth), MetaDepth)

\* tree->tree[idx / 8] with no bound on idx: past the spare bit lies the next tree.
Loc(t, i)    == IF i < Slots THEN << t, i >> ELSE << t + 1, i - Slots >>
IsSet(t, i)  == bits[Loc(t, i)]
Leafless(t, i) == ~IsSet(t, LC(i)) /\ ~IsSet(t, RC(i))

\* The nodes of the subtree under n: the least set with n and the children of
\* its members.
Children(n) == {LC(n), RC(n)} \cap Node
ClosedDown(S) == \A x \in S : Children(x) \subseteq S
Desc == [n \in Node |-> {m \in Node : \A S \in SUBSET Node :
                                         n \in S /\ ClosedDown(S) => m \in S}]

-----------------------------------------------------------------------------
(* Control *)

Halted == \E c \in Context : pc[c] = "halt"
Booted == MetaBlock \in blocks

\* A handler runs with interrupts disabled, so the kernel waits until it returns.
Runs(c) == ~Halted /\ (c = "main" => pc["irq"] = "idle")

\* A stack entry.
EntryType == [node : Node, depth : Depth]

TypeOK ==
  /\ bits \in [(0 .. TreeCount) \X (0 .. Slots - 1) -> BOOLEAN]
  /\ pc \in [Context -> {"idle", "loop", "claim", "descend", "walk", "unset", "merge", "halt"}]
  /\ want \in [Context -> Depth]
  /\ tree \in [Context -> Tree]
  /\ stack \in [Context -> Seq(EntryType)]
  /\ cur \in [Context -> [node : Nat, depth : Depth]]
  /\ victim \in Block \cup {NoBlock}
  /\ blocks \subseteq Block
  /\ preempted \in BOOLEAN

Root == [node |-> 0, depth |-> 1]

\* The call of context c is over: its locals are gone.
Return(c) ==
  /\ pc' = [pc EXCEPT ![c] = "idle"]
  /\ want' = [want EXCEPT ![c] = MetaDepth]
  /\ tree' = [tree EXCEPT ![c] = 0]
  /\ stack' = [stack EXCEPT ![c] = << >>]
  /\ cur' = [cur EXCEPT ![c] = Root]
  /\ victim' = IF c = "main" THEN NoBlock ELSE victim

\* init_buddy_system has cleared the trees and is inside its own buddy_alloc.
Init ==
  /\ bits = [l \in (0 .. TreeCount) \X (0 .. Slots - 1) |-> FALSE]
  /\ pc = [c \in Context |-> IF c = "main" THEN "loop" ELSE "idle"]
  /\ want = [c \in Context |-> MetaDepth]
  /\ tree = [c \in Context |-> 0]
  /\ stack = [c \in Context |-> IF c = "main" THEN << Root >> ELSE << >>]
  /\ cur = [c \in Context |-> Root]
  /\ victim = NoBlock
  /\ blocks = {}
  /\ preempted = FALSE

-----------------------------------------------------------------------------
(* buddy_alloc *)

Call(c, d) ==
  /\ Booted /\ Runs(c) /\ pc[c] = "idle"
  /\ c = "irq" => Preemption
  /\ pc' = [pc EXCEPT ![c] = "loop"]
  /\ want' = [want EXCEPT ![c] = d]
  /\ tree' = [tree EXCEPT ![c] = 0]
  /\ stack' = [stack EXCEPT ![c] = << Root >>]
  /\ preempted' = (preempted \/ (c = "irq" /\ pc["main"] # "idle"))
  /\ UNCHANGED << bits, cur, victim, blocks >>

\* A mistake StackFits notices: the top is read and not popped.
RestPeeked(c) == stack[c]

Top(c)  == stack[c][Len(stack[c])]
Rest(c) == SubSeq(stack[c], 1, Len(stack[c]) - 1)
Entry(n, d) == [node |-> n, depth |-> d]

\* A mistake PacksTight notices: the untouched side first.
BranchesSwapped(t, n, d) ==
  IF IsSet(t, RC(n)) THEN << Entry(RC(n), d + 1), Entry(LC(n), d + 1) >>
                     ELSE << Entry(LC(n), d + 1), Entry(RC(n), d + 1) >>

\* The side with a set right child is searched right first, so it is pushed last.
Branches(t, n, d) ==
  IF IsSet(t, RC(n)) THEN << Entry(LC(n), d + 1), Entry(RC(n), d + 1) >>
                     ELSE << Entry(RC(n), d + 1), Entry(LC(n), d + 1) >>

\* Pop a node that is clear: it will be claimed, or split on the way down.
PopClear(c) ==
  /\ Runs(c) /\ pc[c] = "loop" /\ stack[c] # << >>
  /\ ~IsSet(tree[c], Top(c).node)
  /\ pc' = [pc EXCEPT ![c] = IF Top(c).depth = want[c] THEN "claim" ELSE "descend"]
  /\ cur' = [cur EXCEPT ![c] = Top(c)]
  /\ stack' = [stack EXCEPT ![c] = Rest(c)]
  /\ UNCHANGED << bits, want, tree, victim, blocks, preempted >>

\* A mistake NoOverlap and KeepsPromise notice: the search goes on below a block.
PopSetBelow(c) ==
  /\ Runs(c) /\ pc[c] = "loop" /\ stack[c] # << >>
  /\ IsSet(tree[c], Top(c).node)
  /\ stack' = [stack EXCEPT ![c] =
       IF Top(c).depth = want[c]
         THEN Rest(c)
         ELSE Rest(c) \o Branches(tree[c], Top(c).node, Top(c).depth)]
  /\ UNCHANGED << bits, pc, want, tree, cur, victim, blocks, preempted >>

\* A mistake TypeOK notices: the search goes on below the depth asked for.
PopSetDeeper(c) ==
  /\ Runs(c) /\ pc[c] = "loop" /\ stack[c] # << >>
  /\ IsSet(tree[c], Top(c).node)
  /\ stack' = [stack EXCEPT ![c] =
       IF Leafless(tree[c], Top(c).node)
         THEN Rest(c)
         ELSE Rest(c) \o Branches(tree[c], Top(c).node, Top(c).depth)]
  /\ UNCHANGED << bits, pc, want, tree, cur, victim, blocks, preempted >>

\* Pop a node that is set: too deep or a block that is out, or split already.
PopSet(c) ==
  /\ Runs(c) /\ pc[c] = "loop" /\ stack[c] # << >>
  /\ IsSet(tree[c], Top(c).node)
  /\ stack' = [stack EXCEPT ![c] =
       IF Top(c).depth = want[c] \/ Leafless(tree[c], Top(c).node)
         THEN Rest(c)
         ELSE Rest(c) \o Branches(tree[c], Top(c).node, Top(c).depth)]
  /\ UNCHANGED << bits, pc, want, tree, cur, victim, blocks, preempted >>

\* A mistake ParentsSet and TightInv notice: a node is split and its bit left clear.
DescendClear(c) ==
  /\ Runs(c) /\ pc[c] = "descend"
  /\ stack' = [stack EXCEPT ![c] = Append(@, Entry(LC(cur[c].node), cur[c].depth + 1))]
  /\ pc' = [pc EXCEPT ![c] = "loop"]
  /\ UNCHANGED << bits, want, tree, cur, victim, blocks, preempted >>

Descend(c) ==
  /\ Runs(c) /\ pc[c] = "descend"
  /\ bits' = [bits EXCEPT ![Loc(tree[c], cur[c].node)] = TRUE]
  /\ stack' = [stack EXCEPT ![c] = Append(@, Entry(LC(cur[c].node), cur[c].depth + 1))]
  /\ pc' = [pc EXCEPT ![c] = "loop"]
  /\ UNCHANGED << want, tree, cur, victim, blocks, preempted >>

Claim(c) ==
  /\ Runs(c) /\ pc[c] = "claim"
  /\ bits' = [bits EXCEPT ![Loc(tree[c], cur[c].node)] = TRUE]
  /\ blocks' = blocks \cup {BlockAt(tree[c], cur[c].node, cur[c].depth)}
  /\ Return(c)
  /\ UNCHANGED preempted

\* A mistake HaltOnlyWhenFull notices: the last region is never searched.
NextTreeButLast(c) ==
  /\ Runs(c) /\ pc[c] = "loop" /\ stack[c] = << >>
  /\ IF tree[c] + 2 < TreeCount
       THEN /\ tree' = [tree EXCEPT ![c] = @ + 1]
            /\ stack' = [stack EXCEPT ![c] = << Root >>]
            /\ UNCHANGED pc
       ELSE /\ pc' = [pc EXCEPT ![c] = "halt"]
            /\ UNCHANGED << tree, stack >>
  /\ UNCHANGED << bits, want, cur, victim, blocks, preempted >>

\* buddy_alloc_depth: the next region, or assert1(0).
NextTree(c) ==
  /\ Runs(c) /\ pc[c] = "loop" /\ stack[c] = << >>
  /\ IF tree[c] + 1 < TreeCount
       THEN /\ tree' = [tree EXCEPT ![c] = @ + 1]
            /\ stack' = [stack EXCEPT ![c] = << Root >>]
            /\ UNCHANGED pc
       ELSE /\ pc' = [pc EXCEPT ![c] = "halt"]
            /\ UNCHANGED << tree, stack >>
  /\ UNCHANGED << bits, want, cur, victim, blocks, preempted >>

-----------------------------------------------------------------------------
(* kfree *)

\* buddy_tree_free_addr takes DYNAMIC_MEMORY_BASE, 2^MaxDepth pages, for part of
\* the offset in the tree, so the walk starts that many nodes too far.
FreeStart(b) == Slots + b.page

Kfree(b) ==
  /\ Booted /\ Runs("main") /\ pc["main"] = "idle"
  /\ b \in blocks \ {MetaBlock}
  /\ pc' = [pc EXCEPT !["main"] = "walk"]
  /\ tree' = [tree EXCEPT !["main"] = b.tree]
  /\ cur' = [cur EXCEPT !["main"] = Entry(FreeStart(b), MaxDepth)]
  /\ victim' = b
  /\ UNCHANGED << bits, want, stack, blocks, preempted >>

\* A mistake CallsReturn notices: the walk does not move to the parent.
WalkStays ==
  LET n == cur["main"].node IN
  /\ Runs("main") /\ pc["main"] = "walk"
  /\ n # 0 /\ IsSet(tree["main"], n)
  /\ pc' = [pc EXCEPT !["main"] = "unset"]
  /\ UNCHANGED << bits, want, tree, stack, cur, victim, blocks, preempted >>

Walk ==
  LET n == cur["main"].node IN
  /\ Runs("main") /\ pc["main"] = "walk"
  /\ \/ /\ n # 0 /\ IsSet(tree["main"], n)
        /\ pc' = [pc EXCEPT !["main"] = "unset"]
        /\ UNCHANGED << want, tree, stack, cur, victim, blocks >>
     \/ /\ n # 0 /\ ~IsSet(tree["main"], n)
        /\ cur' = [cur EXCEPT !["main"].node = P(n)]
        /\ UNCHANGED << pc, want, tree, stack, victim, blocks >>
     \/ /\ n = 0
        /\ Return("main")
        /\ blocks' = blocks \ {victim}
  /\ UNCHANGED << bits, preempted >>

\* buddy_tree_unset_merge_nodes: clear the node, then every ancestor whose other
\* child is clear as well.
Unset ==
  /\ Runs("main") /\ pc["main"] = "unset"
  /\ bits' = [bits EXCEPT ![Loc(tree["main"], cur["main"].node)] = FALSE]
  /\ blocks' = blocks \ {victim}
  /\ pc' = [pc EXCEPT !["main"] = "merge"]
  /\ UNCHANGED << want, tree, stack, cur, victim, preempted >>

\* A mistake BitsExact notices: the ancestors of a free node stay split.
MergeNothing ==
  /\ Runs("main") /\ pc["main"] = "merge"
  /\ Return("main")
  /\ UNCHANGED << bits, blocks, preempted >>

Merge ==
  LET n == cur["main"].node
      t == tree["main"] IN
  /\ Runs("main") /\ pc["main"] = "merge"
  /\ \/ /\ n # 0 /\ ~IsSet(t, B(n))
        /\ bits' = [bits EXCEPT ![Loc(t, P(n))] = FALSE]
        /\ cur' = [cur EXCEPT !["main"].node = P(n)]
        /\ UNCHANGED << pc, want, tree, stack, victim >>
     \/ /\ ~(n # 0 /\ ~IsSet(t, B(n)))
        /\ Return("main")
        /\ UNCHANGED bits
  /\ UNCHANGED << blocks, preempted >>

-----------------------------------------------------------------------------

\* Where the walk of kfree enters the tree proper, if the first bit it reads is clear.
Landing(b) == P(FreeStart(b))

\* The blocks that kfree's arithmetic finds: the bit past the tree is clear, the
\* walk enters the tree under the block, and the block is not the root, which the
\* loop never tests.
KfreeFinds(b) ==
  /\ ~IsSet(b.tree, FreeStart(b))
  /\ Landing(b) \in Desc[b.node]
  /\ b.node # 0

AllocStep(c) == PopClear(c) \/ PopSet(c) \/ Descend(c) \/ Claim(c) \/ NextTree(c)
FreeStep     == Walk \/ Unset \/ Merge

Next ==
  \/ \E c \in Context, d \in Depth : Call(c, d)
  \/ \E c \in Context : AllocStep(c)
  \/ \E b \in blocks : KfreeFinds(b) /\ Kfree(b)
  \/ FreeStep

\* The same with kfree called on any block kalloc returned.
NextAnyFree == Next \/ \E b \in blocks : Kfree(b)

\* Each context goes on with its call whenever it may run.
Fairness == WF_vars(AllocStep("main") \/ FreeStep) /\ WF_vars(AllocStep("irq"))

Spec        == Init /\ [][Next]_vars
FairSpec    == Spec /\ Fairness
SpecAnyFree == Init /\ [][NextAnyFree]_vars

-----------------------------------------------------------------------------
(* Properties *)

Calm == ~preempted
Idle == \A c \in Context : pc[c] = "idle"

Overlaps(a, b) == a.tree = b.tree /\ Desc[a.node] \cap Desc[b.node] # {}
Covered(t, n)  == \E b \in blocks : b.tree = t /\ b.node \in Desc[n]

\* Two blocks that are out never share memory, as long as no handler allocates
\* in the middle of a call (page.c:291-361, 396-418).
NoOverlap == Calm => \A a, b \in blocks : a # b => ~Overlaps(a, b)

\* A node is set only under set ancestors, in the middle of a call too: the
\* search relies on it when it descends below a clear node without a test.
ParentsSet ==
  Calm => \A t \in Tree : \A n \in Node \ {0} : IsSet(t, n) => IsSet(t, P(n))

\* A block that is out is set and both its children are clear.
BlocksAreLeaves ==
  Calm => \A b \in blocks :
    IsSet(b.tree, b.node) /\ \A x \in Children(b.node) : ~IsSet(b.tree, x)

\* Without preemption only one context is ever inside a call.
OneCall == Calm => \E c \in Context : pc[c] = "idle"

\* No block of tree t is at node n.
NoBlockAt(t, n) == \A b \in blocks : b.tree = t => b.node # n

\* The search may set node n of tree t: its parent is set and is not a block.
Ready(t, n) == n # 0 => IsSet(t, P(n)) /\ NoBlockAt(t, P(n))

\* The entries on the stack of the search.
Held(c) == {stack[c][i] : i \in 1 .. Len(stack[c])}

\* The search knows the depth of every node it holds, and never goes below the
\* depth it was asked for, whatever a handler does meanwhile.
LevelsRight ==
  \A c \in Context :
    /\ \A e \in Held(c) : e.node \in Level(e.depth) /\ e.depth <= want[c]
    /\ pc[c] \in {"claim", "descend"} => cur[c].node \in Level(cur[c].depth)
    /\ pc[c] = "claim" => cur[c].depth = want[c]
    /\ pc[c] = "descend" => cur[c].depth < want[c]

\* What the search knows of the nodes it holds.
SearchFrame(c) ==
  /\ pc[c] \in {"loop", "claim", "descend"} => \A e \in Held(c) : Ready(tree[c], e.node)
  /\ pc[c] \in {"claim", "descend"} =>
       Ready(tree[c], cur[c].node) /\ ~IsSet(tree[c], cur[c].node)

\* What kfree knows: its walk is inside the block, or about to enter it, and the
\* merge stands on a clear node whose parent has been split.
FreeFrame ==
  LET t == tree["main"]
      n == cur["main"].node IN
  /\ pc["main"] \in {"walk", "unset"} =>
       victim \in blocks \ {MetaBlock} /\ victim.tree = t /\ victim.node # 0
  /\ pc["main"] = "walk" =>
       \/ n \in Desc[victim.node]
       \/ n # 0 /\ ~IsSet(t, n) /\ P(n) \in Desc[victim.node]
  /\ pc["main"] = "unset" => n = victim.node
  /\ pc["main"] = "merge" =>
       /\ n \in Node
       /\ ~IsSet(t, n)
       /\ Ready(t, n)

\* What makes NoOverlap inductive.
IInv ==
  /\ TypeOK
  /\ LevelsRight
  /\ OneCall
  /\ ParentsSet
  /\ BlocksAreLeaves
  /\ Calm => FreeFrame /\ \A c \in Context : SearchFrame(c)

\* The search of context c has come to a clear subtree and will claim a node in it:
\* the node it stands on, or has on top of its stack.
Falling(c) ==
  \/ pc[c] \in {"claim", "descend"}
  \/ pc[c] = "loop" /\ stack[c] # << >> /\ ~IsSet(tree[c], Top(c).node)
Aim(c) == IF pc[c] = "loop" THEN Top(c).node ELSE cur[c].node

\* Node n is on the way to the block that a search is about to claim.
Promised(t, n) == \E c \in Context : Falling(c) /\ tree[c] = t /\ Aim(c) \in Desc[n]

\* Node n has lost its last block to kfree, and the merge is on its way to it.
Emptied(t, n) ==
  /\ pc["main"] = "merge" /\ tree["main"] = t
  /\ cur["main"].node \in Desc[n] /\ n # cur["main"].node

\* A node that is set has a block below it, or is about to get one, or has just lost it.
Accounted ==
  Calm => \A t \in Tree, n \in Node :
    IsSet(t, n) => Covered(t, n) \/ Promised(t, n) \/ Emptied(t, n)

\* Some block of tree t that is out overlaps node n.
Full(t, n) == \E b \in blocks : b.tree = t /\ Desc[n] \cap Desc[b.node] # {}

\* The search leaves out nothing: the trees it has passed are full, and what is not
\* full in the tree at hand lies under an entry of the stack, unless it is about to
\* find a block anyway.
Searched ==
  Calm => \A c \in Context : \A n \in Level(want[c]) :
    /\ pc[c] \in {"loop", "claim", "descend"} => \A t \in Tree : t < tree[c] => Full(t, n)
    /\ pc[c] = "loop" /\ ~Falling(c) =>
         Full(tree[c], n) \/ \E e \in Held(c) : n \in Desc[e.node]

\* The depths on the stack grow from the bottom up, but for the two on top.
Tapers(c) ==
  /\ \A i \in 1 .. Len(stack[c]) :
       /\ i <= stack[c][i].depth
       /\ i < Len(stack[c]) \/ pc[c] = "descend" => i < stack[c][i].depth
  /\ pc[c] = "descend" => Len(stack[c]) < cur[c].depth
StacksTaper == \A c \in Context : Tapers(c)

\* Between calls the bits say exactly which blocks are out: a node is set iff it
\* is a block that is out or has one below it.  Nothing leaks and nothing is lost.
BitsExact ==
  Calm /\ Idle => \A t \in Tree, n \in Node : IsSet(t, n) <=> Covered(t, n)

\* assert1(0) in buddy_alloc_depth (page.c:377) fires only if every block of the
\* requested depth overlaps one that is out.
HaltOnlyWhenFull ==
  Calm => \A c \in Context : pc[c] = "halt" =>
    \A t \in Tree, n \in Level(want[c]) : Full(t, n)

\* What makes BitsExact, HaltOnlyWhenFull and StackFits inductive.
ExactInv == IInv /\ Accounted /\ Searched /\ HaltOnlyWhenFull /\ StacksTaper

\* The search never needs more of its array stack[2 * BUDDY_MAX_DEPTH] than one
\* entry per level, whatever a handler does meanwhile (page.c:298).
StackFits == \A c \in Context : Len(stack[c]) <= MaxDepth

\* A block is carved out of an untouched subtree only if the sibling subtree, when
\* it is in use already, has no room for it (the push order at page.c:348-357).
ClearSibling(t, n, d) ==
  \A a \in Node \ {0} :
    n \in Desc[a] /\ ~Covered(t, a) /\ Covered(t, B(a)) =>
      \A m \in Level(d) \cap Desc[B(a)] : Full(t, m)
PacksTight ==
  [][Calm' => \A b \in blocks' \ blocks : ClearSibling(b.tree, b.node, b.depth)]_blocks

\* ClearSibling but for what lies under the entries in S, still to be searched.
ClearBut(t, n, d, S) ==
  \A a \in Node \ {0} :
    n \in Desc[a] /\ ~Covered(t, a) /\ Covered(t, B(a)) =>
      \A m \in Level(d) \cap Desc[B(a)] : Full(t, m) \/ \E e \in S : m \in Desc[e.node]

\* The entries that the search pops before it comes to the i-th.
Above(c, i) == {stack[c][j] : j \in i + 1 .. Len(stack[c])}

\* By the time the search comes to a node, the used siblings on the way are full.
Tight(c) ==
  /\ Falling(c) => ClearBut(tree[c], Aim(c), want[c], {})
  /\ pc[c] = "loop" /\ ~Falling(c) =>
       \A i \in 1 .. Len(stack[c]) :
         ClearBut(tree[c], stack[c][i].node, want[c], Above(c, i))

\* What PacksTight follows from, step by step.
TightInv == ExactInv /\ (Calm => \A c \in Context : Tight(c))

\* kfree gives the memory back: between calls every page that is in no block is
\* clear (page.h:43, "must be used on pointer returned by kalloc").
FreedPagesAreFree ==
  Calm /\ Idle => \A t \in Tree, n \in Level(MaxDepth) : IsSet(t, n) => Covered(t, n)

\* Every call returns or stops the kernel (page.c:317, 363, 427).
CallsReturn == \A c \in Context : pc[c] # "idle" ~> (pc[c] = "idle" \/ Halted)

\* The allocator does what PageAllocator promises.
ClassOf(b) == b.depth
Promise == INSTANCE PageAllocator
             WITH live <- blocks, gaveUp <- Halted, Class <- Depth
KeepsPromise == Promise!Spec

=============================================================================
