--------------------------- MODULE PageAllocator ---------------------------
(***************************************************************************)
(* What the page allocator (kalloc, kballoc, kfree) promises its callers,  *)
(* with no word about the tree of bits that keeps the promise.             *)
(*                                                                         *)
(* The allocator owns a fixed set of blocks.  A block may be handed out    *)
(* only while it overlaps no block that is out, and the allocator gives up *)
(* on a request (assert1(0) in buddy_alloc_depth) only if every block of   *)
(* the requested size overlaps one that is out.                            *)
(***************************************************************************)
CONSTANTS
  Block,           \* every block the allocator could ever hand out
  Class,           \* the size classes of requests
  ClassOf(_),      \* the size class of a block
  Overlaps(_, _)   \* the two blocks share a page

VARIABLES
  live,            \* the blocks that are out
  gaveUp           \* a request was refused: the kernel has stopped

vars == << live, gaveUp >>

Free(b) == \A x \in live : ~Overlaps(b, x)

TypeOK == live \subseteq Block /\ gaveUp \in BOOLEAN

Init == live = {} /\ gaveUp = FALSE

HandOut(b) ==
  /\ ~gaveUp
  /\ Free(b)
  /\ live' = live \cup {b}
  /\ UNCHANGED gaveUp

TakeBack(b) ==
  /\ ~gaveUp
  /\ b \in live
  /\ live' = live \ {b}
  /\ UNCHANGED gaveUp

GiveUp(k) ==
  /\ \A b \in Block : ClassOf(b) = k => ~Free(b)
  /\ gaveUp' = TRUE
  /\ UNCHANGED live

Next ==
  \/ \E b \in Block : HandOut(b) \/ TakeBack(b)
  \/ \E k \in Class : GiveUp(k)

Spec == Init /\ [][Next]_vars

=============================================================================
