-------------------------------- MODULE Slab --------------------------------
(***************************************************************************)
(* kmalloc, kzmalloc and kmfree of kernel/memory.c.  Requests of up to     *)
(* 2 KB take runs of 8-byte slabs from pages on free_list; larger ones go  *)
(* to kballoc.  Both put a header before, or into, the memory they return. *)
(*                                                                         *)
(* The kernel allocates with interrupts enabled, and virtio_queue_dequeue  *)
(* allocates in an interrupt handler, where nothing interrupts it: the     *)
(* handler's call is one action, the kernel's several.                     *)
(*                                                                         *)
(* kalloc is one step here and gives every caller a page of its own.  That *)
(* a handler may be given the page which the kernel has found, and not yet *)
(* marked, belongs to Buddy.                                               *)
(***************************************************************************)
EXTENDS Integers, Sequences, FiniteSets

CONSTANTS
  Pages,       \* bound: pages that kalloc has for nodes
  Slabs,       \* SLABS_PER_BLOCK
  SlabSize,    \* SLAB_SIZE, which ALLOC_HEADER_SIZE counts in
  Sizes,       \* sizes asked for
  Limit,       \* kb(2): the largest request served from slabs
  Larges       \* bound: large blocks that kballoc has

ASSUME SlabAssumption ==
  /\ {Pages, Slabs, SlabSize, Limit, Larges} \subseteq Nat
  /\ SlabSize > 0
  /\ Sizes \subseteq Nat
  /\ (Limit + SlabSize - 1) \div SlabSize + 1 <= Slabs   \* a new node has room

VARIABLES
  list,        \* free_list, newest node first
  bitmap,      \* per node: the slabs whose bit is set
  free,        \* per node: free_slabs
  nodes,       \* the pages that kalloc has handed out for nodes
  pc, loc,     \* the kernel: where it is in allocate_slabs, and its locals
  blocks,      \* history: what was allocated and not given to kmfree
  taken,       \* history: the slabs that were ever handed out
  stopped,     \* assert1 has failed: "kalloc" in buddy_alloc_depth, "kmfree" in kmfree
  spoilt       \* history: a handler has allocated from what the kernel is about to change

vars == << list, bitmap, free, nodes, pc, loc, blocks, taken, stopped, spoilt >>

-----------------------------------------------------------------------------

Node == 1 .. Pages
Slab == 0 .. Slabs - 1
None == 0

\* Slabs for a request, its header included.
CountFor(size) == (size + SlabSize - 1) \div SlabSize + 1
SmallSizes == {s \in Sizes : s <= Limit}
LargeSizes == Sizes \ SmallSizes

Run(base, count)   == base .. base + count - 1
Taken(n, base, count) == {<< n, i >> : i \in Run(base, count)}

\* find_cont_slabs_node: the first run of clear bits, SLAB_NO_MEM if there is none.
Fits(n, count)     == {b \in 0 .. Slabs - count : Run(b, count) \cap bitmap[n] = {}}
\* A mistake PageOnlyWhenFull notices: a node with just enough free slabs is passed.
HasMoreRoom(n, count) == free[n] > count /\ Fits(n, count) # {}

HasRoom(n, count)  == free[n] >= count /\ Fits(n, count) # {}
FirstFit(n, count) == CHOOSE b \in Fits(n, count) : \A a \in Fits(n, count) : b <= a

\* A block: the header is at "at", its magic is (address, count) where the code
\* has their XOR; "user" is what the caller gets.  A unit of an address is a slab,
\* and slabs of a node are its addresses 0, 1, ...
SlabBlock(n, base, count) ==
  [page |-> n, at |-> base, count |-> count, magic |-> << base, count >>,
   user |-> base + 1, size |-> count, large |-> FALSE]
LargeBlock(p, size) ==
  [page |-> p, at |-> 0, count |-> size + SlabSize, magic |-> << 0, size >>,
   user |-> 0, size |-> size, large |-> TRUE]

\* The nodes on a list.
On(s) == {s[k] : k \in 1 .. Len(s)}

\* seen is history: the nodes that were on the list when the search began.
NoLocals == [want |-> 0, left |-> << >>, seen |-> {}, node |-> None, base |-> 0]

Init ==
  /\ list = << >>
  /\ bitmap = [n \in Node |-> {}] /\ free = [n \in Node |-> 0]
  /\ nodes = {}
  /\ pc = "idle" /\ loc = NoLocals
  /\ blocks = {} /\ taken = {}
  /\ stopped = "no" /\ spoilt = FALSE

-----------------------------------------------------------------------------
(* allocate_slabs, in the kernel *)

At(a) == stopped = "no" /\ pc = a

\* allocate_slabs returns the block at the base of node n.
Return(n, base) ==
  /\ blocks' = blocks \cup {SlabBlock(n, base, loc.want)}
  /\ taken' = taken \cup Taken(n, base, loc.want)
  /\ pc' = "idle"
  /\ loc' = NoLocals

Kmalloc(size) ==
  /\ At("idle")
  /\ pc' = "search"
  /\ loc' = [NoLocals EXCEPT !.want = CountFor(size), !.left = list, !.seen = On(list)]
  /\ UNCHANGED << list, bitmap, free, nodes, blocks, taken, stopped, spoilt >>

\* find_cont_slabs: one node of the list.
Search ==
  /\ At("search") /\ loc.left # << >>
  /\ LET n == Head(loc.left) IN
     IF HasRoom(n, loc.want)
       THEN /\ loc' = [loc EXCEPT !.node = n, !.base = FirstFit(n, loc.want)]
            /\ pc' = "mark"
       ELSE /\ loc' = [loc EXCEPT !.left = Tail(@)]
            /\ UNCHANGED pc
  /\ UNCHANGED << list, bitmap, free, nodes, blocks, taken, stopped, spoilt >>

\* A mistake NoSharing notices: the last slab of the run is not marked.
MarkButLast ==
  /\ At("mark")
  /\ bitmap' = [bitmap EXCEPT ![loc.node] = @ \cup Run(loc.base, loc.want - 1)]
  /\ Return(loc.node, loc.base)
  /\ UNCHANGED << list, free, nodes, stopped, spoilt >>

Mark ==
  /\ At("mark")
  /\ bitmap' = [bitmap EXCEPT ![loc.node] = @ \cup Run(loc.base, loc.want)]
  /\ Return(loc.node, loc.base)
  /\ UNCHANGED << list, free, nodes, stopped, spoilt >>

\* The page kalloc returns holds anything, the bitmap and free_slabs of the new
\* node included.  Its link is set to the head of the list as it is now.
Create ==
  /\ At("search") /\ loc.left = << >>
  /\ IF nodes = Node
       THEN stopped' = "kalloc" /\ UNCHANGED << bitmap, free, nodes, pc, loc >>
       ELSE \E n \in Node \ nodes, junk \in SUBSET Slab, count \in {0, Slabs} :
              /\ \A m \in Node \ nodes : n <= m
              /\ nodes' = nodes \cup {n}
              /\ bitmap' = [bitmap EXCEPT ![n] = junk]
              /\ free' = [free EXCEPT ![n] = count]
              /\ loc' = [loc EXCEPT !.node = n, !.left = list]
              /\ pc' = "link"
              /\ UNCHANGED stopped
  /\ UNCHANGED << list, blocks, taken, spoilt >>

\* The node is on the list before its fields are initialised.
LinkNode ==
  /\ At("link")
  /\ list' = << loc.node >> \o loc.left
  /\ pc' = "init"
  /\ UNCHANGED << bitmap, free, nodes, loc, blocks, taken, stopped, spoilt >>

\* A mistake IInv notices: a new node is counted one slab short.
InitNodeShort ==
  /\ At("init")
  /\ bitmap' = [bitmap EXCEPT ![loc.node] = {}]
  /\ free' = [free EXCEPT ![loc.node] = Slabs - 1]
  /\ pc' = "take"
  /\ UNCHANGED << list, nodes, loc, blocks, taken, stopped, spoilt >>

InitNode ==
  /\ At("init")
  /\ bitmap' = [bitmap EXCEPT ![loc.node] = {}]
  /\ free' = [free EXCEPT ![loc.node] = Slabs]
  /\ pc' = "take"
  /\ UNCHANGED << list, nodes, loc, blocks, taken, stopped, spoilt >>

\* A mistake BitsExact notices: the first run of a new node is not marked.
TakeFirstUnmarked ==
  /\ At("take")
  /\ free' = [free EXCEPT ![loc.node] = @ - loc.want]
  /\ Return(loc.node, 0)
  /\ UNCHANGED << list, bitmap, nodes, stopped, spoilt >>

\* The first slabs of the new node: the one place where free_slabs is counted down.
TakeFirst ==
  /\ At("take")
  /\ free' = [free EXCEPT ![loc.node] = @ - loc.want]
  /\ bitmap' = [bitmap EXCEPT ![loc.node] = @ \cup Run(0, loc.want)]
  /\ Return(loc.node, 0)
  /\ UNCHANGED << list, nodes, stopped, spoilt >>

\* A large request: kballoc(size + 1), the header inside the caller's memory.
KmallocLarge(size) ==
  /\ At("idle")
  /\ \E p \in 1 .. Larges :
       /\ \A b \in blocks : b.large => b.page # p
       /\ blocks' = blocks \cup {LargeBlock(p, size)}
  /\ UNCHANGED << list, bitmap, free, nodes, pc, loc, taken, stopped, spoilt >>

-----------------------------------------------------------------------------
(* kmfree *)

\* internal_free looks for the header one slab before the address it is given;
\* before a large block lies memory that is not its own.
HeaderFound(b) == b.at = b.user - 1 /\ b.magic = << b.at, b.count >>

\* No bit is cleared: bitmap_unset sets bits, and free_slabs computes the node's
\* address and the slab's number so that it sets them inside the block or 64 MB on.
Kmfree(b) ==
  /\ At("idle")
  /\ IF HeaderFound(b)
       THEN blocks' = blocks \ {b} /\ UNCHANGED stopped
       ELSE stopped' = "kmfree" /\ UNCHANGED blocks
  /\ UNCHANGED << list, bitmap, free, nodes, pc, loc, taken, spoilt >>

-----------------------------------------------------------------------------
(* kzmalloc in an interrupt handler *)

\* The nodes the handler passes before it finds room, if it does.
RoomAt(count) == {k \in 1 .. Len(list) : HasRoom(list[k], count)}

\* The kernel relies on what it has read of node n.
Relied(n) == n = loc.node /\ pc \in {"mark", "init", "take"}

IrqKmalloc(size) ==
  LET count == CountFor(size) IN
  /\ stopped = "no"
  /\ \/ \E k \in RoomAt(count) :
          LET n == list[k]
              base == FirstFit(n, count) IN
          /\ \A j \in RoomAt(count) : k <= j
          /\ bitmap' = [bitmap EXCEPT ![n] = @ \cup Run(base, count)]
          /\ blocks' = blocks \cup {SlabBlock(n, base, count)}
          /\ taken' = taken \cup Taken(n, base, count)
          /\ spoilt' = (spoilt \/ Relied(n))
          /\ UNCHANGED << list, free, nodes, stopped >>
     \/ /\ RoomAt(count) = {} /\ nodes # Node
        /\ \E n \in Node \ nodes :
             /\ \A m \in Node \ nodes : n <= m
             /\ nodes' = nodes \cup {n}
             /\ list' = << n >> \o list
             /\ free' = [free EXCEPT ![n] = Slabs - count]
             /\ bitmap' = [bitmap EXCEPT ![n] = Run(0, count)]
             /\ blocks' = blocks \cup {SlabBlock(n, 0, count)}
             /\ taken' = taken \cup Taken(n, 0, count)
        /\ spoilt' = (spoilt \/ pc = "link")
        /\ UNCHANGED stopped
     \/ /\ RoomAt(count) = {} /\ nodes = Node
        /\ stopped' = "kalloc"
        /\ UNCHANGED << list, bitmap, free, nodes, blocks, taken, spoilt >>
  /\ UNCHANGED << pc, loc >>

-----------------------------------------------------------------------------

Allocate ==
  \/ Search \/ Mark \/ Create \/ LinkNode \/ InitNode \/ TakeFirst
  \/ \E size \in SmallSizes : Kmalloc(size) \/ IrqKmalloc(size)
  \/ \E size \in LargeSizes : KmallocLarge(size)

Next == Allocate \/ \E b \in blocks : ~b.large /\ Kmfree(b)

\* The same with kmfree called on any block kmalloc returned.
NextAnyFree == Next \/ \E b \in blocks : Kmfree(b)

Spec        == Init /\ [][Next]_vars
SpecAnyFree == Init /\ [][NextAnyFree]_vars

-----------------------------------------------------------------------------
(* Properties *)

Calm == ~spoilt

\* The node that the kernel is making, until InitNode.
Unready == IF pc \in {"link", "init"} THEN {loc.node} ELSE {}

Memory(b) == Taken(b.page, b.at, b.count)

\* Two blocks that are out never share a slab, whatever a handler allocates between
\* two steps of the kernel, as long as it stays off the node the kernel relies on.
NoSharing ==
  Calm => \A a, b \in {x \in blocks : ~x.large} :
            a # b => Memory(a) \cap Memory(b) = {}

\* The bits of a node say which of its slabs were ever handed out: nothing else is
\* lost, and nothing that kmfree gave back is found again (memory.c:201-209).
BitsExact ==
  Calm => \A n \in nodes \ Unready : bitmap[n] = {i \in Slab : << n, i >> \in taken}

\* free_slabs never understates, so that the test in find_cont_slabs (memory.c:134)
\* passes over no node that has room.
SkipsOnlyFull == \A n \in nodes \ Unready : free[n] >= Slabs - Cardinality(bitmap[n])

TypeOK ==
  /\ list \in Seq(Node)
  /\ bitmap \in [Node -> SUBSET Slab]
  /\ free \in [Node -> Int]
  /\ nodes \in SUBSET Node
  /\ pc \in {"idle", "search", "mark", "link", "init", "take"}
  /\ loc \in [want : 0 .. Slabs, left : Seq(Node), seen : SUBSET Node,
              node : Node \cup {None}, base : 0 .. Slabs]
  /\ taken \in SUBSET (Node \X Slab)
  /\ stopped \in {"no", "kalloc", "kmfree"}
  /\ spoilt \in BOOLEAN

\* What is on a list, in hand or handed out has been given a page.
OnPages ==
  /\ On(list) \cup On(loc.left) \cup loc.seen \subseteq nodes
  /\ pc \in {"mark", "link", "init", "take"} => loc.node \in nodes
  /\ \A n \in Node \ nodes : \A i \in Slab : << n, i >> \notin taken
  /\ \A b \in blocks : ~b.large => Memory(b) \subseteq taken

\* What the kernel knows of the node it has found or made, whatever handlers do.
InHand ==
  /\ pc = "mark" => loc.base + loc.want <= Slabs
  /\ pc = "link" => loc.node \notin On(list)
  /\ pc = "take" => free[loc.node] = Slabs

\* The nodes the search has passed have no room.
Passed == pc = "search" => \A n \in loc.seen : n \in On(loc.left) \/ Fits(n, loc.want) = {}

\* What it knows as long as no handler has allocated from that node.
Untouched ==
  /\ pc = "mark" => Run(loc.base, loc.want) \cap bitmap[loc.node] = {}
  /\ pc \in {"link", "init"} => \A i \in Slab : << loc.node, i >> \notin taken
  /\ pc = "take" => bitmap[loc.node] = {}

\* What makes NoSharing, BitsExact and PageOnlyWhenFull inductive.
IInv ==
  /\ TypeOK /\ OnPages /\ InHand /\ Passed /\ SkipsOnlyFull
  /\ NoSharing /\ BitsExact /\ (Calm => Untouched)

\* The kernel takes a page for a new node only when no node that was on the list as
\* its search began has a run of clear bits that is long enough (memory.c:125-160).
PageOnlyWhenFull ==
  [][pc = "search" /\ pc' = "link" => \A n \in loc.seen : Fits(n, loc.want) = {}]_nodes

\* assert1 in internal_free (memory.c:216): kmfree finds the header of the block.
FreeAssertHolds == stopped # "kmfree"

=============================================================================
