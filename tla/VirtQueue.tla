----------------------------- MODULE VirtQueue -----------------------------
(***************************************************************************)
(* One split virtqueue as kernel/drivers/virtio/virtio_queue.c drives it.  *)
(* A queue is a record: the descriptors, the available and the used ring   *)
(* that driver and device share, the driver's own indices, and the index   *)
(* up to which the device has taken what was made available.               *)
(*                                                                         *)
(* The driver hands descriptors out round robin (next_buffer), asks no one *)
(* whether a descriptor is still in use, and takes completions in the      *)
(* order of the descriptors, whatever the used ring says.                  *)
(***************************************************************************)
EXTENDS Integers, Sequences

CONSTANTS
  Size,    \* descriptors of a queue
  Mod      \* 2^16: the indices of the rings are u16

ASSUME QueueAssumption ==
  /\ Size \in Nat \ {0}
  /\ Mod \in Nat /\ Size < Mod      \* virtio allows 2^15 descriptors
  /\ Mod % Size = 0

Slot  == 0 .. Size - 1
Index == 0 .. Mod - 1

\* A buffer is what the caller binds to a segment of its scatterlist.
Descriptor(Buffer) == [buf : Buffer, more : BOOLEAN]

Queue(Buffer) ==
  [desc : [Slot -> Descriptor(Buffer)], ring : [Slot -> Slot], avail : Index,
   used : [Slot -> [id : Slot, len : Nat]], usedIdx : Index,
   next : Slot, added : Index, seen : Index, taken : Index]

\* virtio_create_queue.
NewQueue(buffer) ==
  [desc |-> [i \in Slot |-> [buf |-> buffer, more |-> FALSE]],
   ring |-> [i \in Slot |-> 0], avail |-> 0,
   used |-> [i \in Slot |-> [id |-> 0, len |-> 0]], usedIdx |-> 0,
   next |-> 0, added |-> 0, seen |-> 0, taken |-> 0]

-----------------------------------------------------------------------------
(* The driver *)

\* The loop of virtio_queue_enqueue: a chain of descriptors for the segments of a
\* list, the last of which has no successor.  A list longer than the queue goes round.
Chained(q, segs) ==
  LET at(i) == (q.next + i - 1) % Size
      of(s) == {i \in 1 .. Len(segs) : at(i) = s}
      last(s) == CHOOSE i \in of(s) : \A j \in of(s) : j <= i
  IN  [q EXCEPT
         !.desc = [s \in Slot |->
                     IF of(s) = {} THEN @[s]
                     ELSE [buf |-> segs[last(s)], more |-> last(s) < Len(segs)]],
         !.next = (@ + Len(segs)) % Size,
         !.added = (@ + Len(segs)) % Mod]

\* Mutant: every descriptor gets an entry of the ring, each of them the chain's.
EnqueueEach(q, segs) ==
  Chained([q EXCEPT !.ring = [i \in Slot |-> IF (i - q.avail) % Size < Len(segs) THEN q.next ELSE @[i]]],
          segs)

\* virtio_queue_enqueue.
Enqueue(q, segs) == Chained([q EXCEPT !.ring[q.avail % Size] = q.next], segs)

\* Mutant: num_added is not reset.
KickAgain(q) == [q EXCEPT !.avail = (@ + q.added) % Mod]

\* Mutant: the index moves by one chain.
KickOne(q) == [q EXCEPT !.avail = (@ + 1) % Mod, !.added = 0]

\* virtio_queue_kick: avail.idx moves by descriptors, not by chains.
Kick(q) == [q EXCEPT !.avail = (@ + q.added) % Mod, !.added = 0]

Post(q, buffer) == Kick(Enqueue(q, << buffer >>))

\* Mutant: one completion is seen before it is there.
NumHeadsEarly(q) == IF q.seen <= q.usedIdx THEN q.usedIdx - q.seen + 1 ELSE 0

\* virtio_queue_num_heads: no account of the wrap of used.idx.
NumHeads(q) == IF q.seen < q.usedIdx THEN q.usedIdx - q.seen ELSE 0

\* virtio_queue_dequeue: the descriptors from last_buffer_seen on, to the end of
\* their chain, each with the length from the used ring's entry of the same index.
ChainLength(q) ==
  CHOOSE n \in 1 .. Size :
    /\ ~q.desc[(q.seen + n - 1) % Size].more
    /\ \A m \in 1 .. n - 1 : q.desc[(q.seen + m - 1) % Size].more

Dequeued(q) ==
  [i \in 1 .. ChainLength(q) |->
     [buf |-> q.desc[(q.seen + i - 1) % Size].buf, len |-> q.used[(q.seen + i - 1) % Size].len]]

\* Mutant: the driver moves on by one descriptor, not by a chain.
DequeueOne(q) == [q EXCEPT !.seen = (@ + 1) % Mod]

\* The entry of the used ring is forgotten: for a chain of one, it is written before it
\* is read again (nothing depends on the lengths of a longer chain).
Dequeue(q) ==
  [q EXCEPT !.seen = (@ + ChainLength(q)) % Mod,
            !.used[q.seen % Size] = [id |-> 0, len |-> 0]]

-----------------------------------------------------------------------------
(* The device *)

Offered(q) == (q.avail - q.taken) % Mod
Offer(q, i) == q.ring[(q.taken + i) % Size]

Take(q) == [q EXCEPT !.taken = (@ + 1) % Mod]

Complete(q, id, len) ==
  [q EXCEPT !.used[q.usedIdx % Size] = [id |-> id, len |-> len],
            !.usedIdx = (@ + 1) % Mod]

=============================================================================
