--------------------------- MODULE ConsoleProofs ---------------------------
(***************************************************************************)
(* Proofs about Console, for any ports of the host, any size of the queues *)
(* and of the page, any lengths of messages, and any width of the indices  *)
(* of the rings that the size divides.                                     *)
(***************************************************************************)
EXTENDS Console, NaturalSets, SequenceTheorems

-----------------------------------------------------------------------------
(* Lists of ports *)

\* A finite set can be listed.
LEMMA ListsAll ==
  ASSUME NEW S, IsFiniteSet(S)
  PROVE  SetToSeq(S) \in Seq(S)
<1>1. Cardinality(S) \in Nat /\ ExistsBijection(1 .. Cardinality(S), S)
  BY FS_CardinalityType
<1>2. \E f \in [1 .. Cardinality(S) -> S] : IsInjective(f)
  BY <1>1 DEF ExistsBijection, Bijection, Injection, IsInjective
<1>3. SetToSeq(S) \in [1 .. Cardinality(S) -> S]
  BY <1>2 DEF SetToSeq
<1> QED
  BY <1>1, <1>3

-----------------------------------------------------------------------------
(* The queue *)

\* What is assumed of the sizes of the rings.
LEMMA Sizes ==
  Size \in Nat \ {0} /\ Mod \in Nat \ {0} /\ Size < Mod /\ Mod % Size = 0
BY QueueAssumption

\* Remainders are places in the rings.
LEMMA Residue ==
  ASSUME NEW x \in Int
  PROVE  /\ x % Size \in Slot /\ x % Mod \in Index
         /\ x % Size \in Int /\ x % Mod \in Int
<1>1. x % Size \in 0 .. Size - 1 /\ x % Mod \in 0 .. Mod - 1 /\ Size \in Int /\ Mod \in Int
  BY Sizes, DivMod
<1> QED
  BY <1>1 DEF Slot, Index

\* A chain of one descriptor takes the next one, and no more.
LEMMA ChainOfOne ==
  ASSUME NEW B, NEW q \in Queue(B), NEW b, q.added = 0
  PROVE  Chained(q, << b >>) = [q EXCEPT !.desc[q.next] = [buf |-> b, more |-> FALSE],
                                         !.next = (@ + 1) % Size, !.added = 1]
<1> DEFINE segs == << b >>
           at(i) == (q.next + i - 1) % Size
           of(s) == {i \in 1 .. Len(segs) : at(i) = s}
           last(s) == CHOOSE i \in of(s) : \A j \in of(s) : j <= i
<1>1. q.next \in Slot /\ q.desc \in [Slot -> Descriptor(B)]
  BY DEF Queue
<1>2. Len(segs) = 1 /\ segs[1] = b
  OBVIOUS
<1>3. at(1) = q.next
  <2>1. q.next \in 0 .. Size - 1 /\ q.next + 1 - 1 = q.next /\ Size \in Nat \ {0}
    BY <1>1, Sizes DEF Slot
  <2> QED
    BY <2>1, ModSmall
<1>4. 1 % Mod = 1 /\ (q.added + 1) % Mod = 1
  BY Sizes, ModSmall
<1>5. Chained(q, segs) =
        [q EXCEPT !.desc = [s \in Slot |-> IF of(s) = {} THEN q.desc[s]
                                           ELSE [buf |-> segs[last(s)], more |-> last(s) < Len(segs)]],
                  !.next = (q.next + Len(segs)) % Size, !.added = (q.added + Len(segs)) % Mod]
  BY DEF Chained
<1>6. \A s \in Slot : of(s) = IF s = q.next THEN {1} ELSE {}
  BY <1>2, <1>3
<1>7. last(q.next) = 1
  BY <1>1, <1>6
<1> HIDE DEF at, of, last, segs
<1>8. [s \in Slot |-> IF of(s) = {} THEN q.desc[s]
                     ELSE [buf |-> segs[last(s)], more |-> last(s) < Len(segs)]]
        = [q.desc EXCEPT ![q.next] = [buf |-> b, more |-> FALSE]]
  <2>1. segs[last(q.next)] = b /\ (last(q.next) < Len(segs)) = FALSE
    BY <1>2, <1>7
  <2>2. \A s \in Slot : (of(s) = {}) = (s # q.next)
    BY <1>6
  <2> QED
    BY <1>1, <2>1, <2>2
<1>9. Chained(q, segs) =
        [q EXCEPT !.desc = [q.desc EXCEPT ![q.next] = [buf |-> b, more |-> FALSE]],
                  !.next = (q.next + 1) % Size, !.added = 1]
  BY <1>2, <1>4, <1>5, <1>8
<1> QED
  BY <1>9 DEF segs

\* What a queue is after a buffer has been enqueued and kicked.
LEMMA PostIs ==
  ASSUME NEW B, NEW q \in Queue(B), NEW b \in B, q.added = 0
  PROVE  /\ Post(q, b) \in Queue(B)
         /\ Post(q, b) = [q EXCEPT !.desc[q.next] = [buf |-> b, more |-> FALSE],
                                   !.ring[q.avail % Size] = q.next,
                                   !.avail = (@ + 1) % Mod,
                                   !.next = (@ + 1) % Size]
<1>1. q.next \in Slot /\ q.avail \in Index /\ Slot \subseteq Int /\ Index \subseteq Int
  BY DEF Queue, Slot, Index
<1>2. q.avail % Size \in Slot /\ (q.next + 1) % Size \in Slot /\ (q.avail + 1) % Mod \in Index
  <2>1. q.avail \in Int /\ q.next + 1 \in Int /\ q.avail + 1 \in Int
    BY <1>1, Sizes DEF Slot, Index
  <2> QED
    BY <2>1, Residue, Zenon
<1>3. q.desc \in [Slot -> Descriptor(B)] /\ q.ring \in [Slot -> Slot]
  BY DEF Queue
<1>4. PICK r : r = [q EXCEPT !.ring[q.avail % Size] = q.next]
  OBVIOUS
<1>5. r \in Queue(B) /\ r.next = q.next /\ r.added = 0 /\ r.desc = q.desc
  BY <1>1, <1>2, <1>3, <1>4 DEF Queue
<1>6. Chained(r, << b >>) = [r EXCEPT !.desc[r.next] = [buf |-> b, more |-> FALSE],
                                      !.next = (@ + 1) % Size, !.added = 1]
  BY <1>5, ChainOfOne
<1>7. Post(q, b) = [q EXCEPT !.desc[q.next] = [buf |-> b, more |-> FALSE],
                             !.ring[q.avail % Size] = q.next,
                             !.avail = (@ + 1) % Mod,
                             !.next = (@ + 1) % Size]
  BY <1>4, <1>5, <1>6 DEF Post, Kick, Enqueue, Queue
<1>8. [q.desc EXCEPT ![q.next] = [buf |-> b, more |-> FALSE]] \in [Slot -> Descriptor(B)]
  BY <1>3 DEF Descriptor
<1>9. [q.ring EXCEPT ![q.avail % Size] = q.next] \in [Slot -> Slot]
  BY <1>1, <1>3
<1> QED
  BY <1>2, <1>7, <1>8, <1>9 DEF Queue

-----------------------------------------------------------------------------
(* Input queues *)

\* The next index is another, one ahead, also when it wraps, and so is its place in a ring.
LEMMA OneOn ==
  ASSUME NEW x \in Index
  PROVE  /\ (x + 1) % Mod \in Index /\ (x + 1) % Mod # x
         /\ (((x + 1) % Mod) - x) % Mod = 1
         /\ ((x + 1) % Mod) % Size = ((x % Size) + 1) % Size
         /\ x % Size \in Slot
<1>1. /\ 0 \in Int /\ 1 \in Int /\ x \in Int /\ x + 1 \in Int /\ -x \in Int
      /\ x + 1 - x = 1 /\ x + 1 + 0 = x + 1 /\ x \in 0 .. Mod - 1
  BY Sizes DEF Index
<1>2. (x + 1) % Mod \in Index /\ x % Size \in Slot
  BY <1>1, Residue, Zenon
<1>3. PICK y \in Index : y = (x + 1) % Mod
  BY <1>2
<1>4. y # x /\ (y - x) % Mod = 1
  <2>1. CASE x + 1 < Mod
    <3>1. (x + 1) % Mod = x + 1
      BY <1>1, <2>1, Sizes, ModSmall
    <3>2. y - x = 1 /\ 1 \in 0 .. Mod - 1
      BY <1>1, <1>3, <3>1, <2>1, Sizes
    <3>3. 1 % Mod = 1
      BY <3>2, Sizes, ModSmall
    <3> QED
      BY <3>1, <3>2, <3>3, <1>1, <1>3
  <2>2. CASE x + 1 = Mod
    <3>1. Mod % Mod = 0 /\ Mod > 1
      BY Sizes
    <3>2. y = 0 /\ y - x = 1 - Mod
      BY <1>1, <1>3, <2>2, <3>1
    <3>3. (1 - Mod) % Mod = 1
      <4>1. PICK k \in Int : k = -1
        BY SMT
      <4>2. (Mod * k + 1) % Mod = 1 % Mod
        BY <1>1, Shift, Sizes, Zenon
      <4>3. Mod * k + 1 = 1 - Mod
        BY <4>1, Sizes
      <4>4. 1 % Mod = 1
        BY <3>1, Sizes, ModSmall
      <4> QED
        BY <4>2, <4>3, <4>4
    <3> QED
      BY <3>1, <3>2, <3>3, <1>1, <2>2
  <2> QED
    BY <1>1, <2>1, <2>2, Sizes
<1>5. y % Size = ((x % Size) + 1) % Size
  <2>1. PICK z \in Int, o \in Int : z = x + 1 /\ o = 0
    BY <1>1, Zenon
  <2>2. ((z % Mod) + o) % Size = (z + o) % Size
    BY Sizes, ModOf, Zenon
  <2>3. ((x % Size) + 1) % Size = (x + 1) % Size
    BY <1>1, Sizes, ModSum, Zenon
  <2>4. y + o = y /\ z + o = z
    BY <2>1 DEF Index
  <2> QED
    BY <1>1, <1>3, <2>1, <2>2, <2>3, <2>4
<1> QED
  BY <1>2, <1>3, <1>4, <1>5

\* What is assumed of the page of a port, and the buffers in it.
LEMMA Lengths ==
  /\ BufLen \in Nat \ {0} /\ HostPorts \subseteq Slot /\ Lens \subseteq 1 .. BufLen
  /\ \A off \in 0 .. BufLen - 1 : InBuf(off) \in Buffer /\ BufLen - off \in 1 .. BufLen
  /\ NoBuf \in Buffer /\ Buf(0, 1, NoMessage) \in Buffer
<1>1. BufLen \in Nat \ {0} /\ HostPorts \subseteq Slot /\ Lens \subseteq 1 .. BufLen
  BY ConsoleAssumption
<1>2. \A off \in 0 .. BufLen - 1 : BufLen - off \in 1 .. BufLen /\ BufLen - off \in 0 .. BufLen
  BY <1>1
<1>3. NoMessage \in Letter
  BY DEF Letter
<1>4. 0 \in 0 .. BufLen - 1 /\ 0 \in 0 .. BufLen /\ 1 \in 0 .. BufLen
  BY <1>1
<1> QED
  BY <1>1, <1>2, <1>3, <1>4 DEF InBuf, Buf, NoBuf, Buffer

\* virtio_create_queue makes a queue.
LEMMA NewIsQueue ==
  ASSUME NEW B, NEW b \in B
  PROVE  NewQueue(b) \in Queue(B)
BY Sizes DEF NewQueue, Queue, Slot, Index, Descriptor

\* The queue of a port that has just been set up is in step.
LEMMA FreshInStep ==
  /\ FreshIn \in Queue(Buffer) /\ InStep(FreshIn, 0)
  /\ FreshIn.usedIdx = FreshIn.seen
  /\ \A d \in Slot : FreshIn.desc[d].buf.m = NoMessage
<1>1. PICK q \in Queue(Buffer) : q = NewQueue(NoBuf)
  BY NewIsQueue, Lengths, Zenon
<1>2. /\ q.added = 0 /\ q.next = 0 /\ q.avail = 0 /\ q.seen = 0 /\ q.usedIdx = 0 /\ q.taken = 0
      /\ \A d \in Slot : q.desc[d] = [buf |-> NoBuf, more |-> FALSE]
      /\ q.ring \in [Slot -> Slot] /\ q.desc \in [Slot -> Descriptor(Buffer)]
  BY <1>1 DEF NewQueue, Queue
<1>3. 0 \in 0 .. BufLen - 1
  BY Lengths
<1>4. InBuf(0) \in Buffer
  BY <1>3, Lengths, Zenon
<1>5. FreshIn = Post(q, InBuf(0))
  BY <1>1 DEF FreshIn, PostIn
<1> DEFINE posted == [q EXCEPT !.desc[q.next] = [buf |-> InBuf(0), more |-> FALSE],
                               !.ring[q.avail % Size] = q.next,
                               !.avail = (@ + 1) % Mod,
                               !.next = (@ + 1) % Size]
<1>6. FreshIn \in Queue(Buffer) /\ FreshIn = posted
  <2>1. q.added = 0
    BY <1>2
  <2>2. Post(q, InBuf(0)) \in Queue(Buffer) /\ Post(q, InBuf(0)) = posted
    BY <1>4, <2>1, PostIs
  <2> QED
    BY <1>5, <2>2
<1>7. 0 \in Slot /\ 0 \in Index /\ 0 % Size = 0
  BY Sizes, ModSmall DEF Slot, Index
<1>8. /\ FreshIn.desc = [q.desc EXCEPT ![0] = [buf |-> InBuf(0), more |-> FALSE]]
      /\ FreshIn.ring = [q.ring EXCEPT ![0] = 0]
      /\ FreshIn.avail = (0 + 1) % Mod /\ FreshIn.next = (0 + 1) % Size
      /\ FreshIn.seen = 0 /\ FreshIn.usedIdx = 0 /\ FreshIn.taken = 0 /\ FreshIn.added = 0
  BY <1>2, <1>6, <1>7 DEF Queue
<1>9. ((0 + 1) % Mod) % Size = (0 + 1) % Size
  BY <1>7, OneOn, Zenon
<1>10. /\ \A d \in Slot : FreshIn.desc[d] = IF d = 0 THEN [buf |-> InBuf(0), more |-> FALSE]
                                                  ELSE [buf |-> NoBuf, more |-> FALSE]
       /\ FreshIn.ring[0] = 0
  BY <1>2, <1>7, <1>8
<1>11. /\ \A d \in Slot : ~FreshIn.desc[d].more /\ FreshIn.desc[d].buf.m = NoMessage
       /\ FreshIn.desc[0].buf.off = 0 /\ FreshIn.desc[0].buf.len = BufLen - 0
  BY <1>10, <1>7 DEF InBuf, NoBuf, Buf
<1> QED
  BY <1>6, <1>7, <1>8, <1>9, <1>10, <1>11 DEF InStep

\* What virtio_queue_num_heads makes of a queue that is in step: it sees its completion,
\* unless used.idx has wrapped to 0.
LEMMA Heads ==
  ASSUME NEW q \in Queue(Buffer), NEW off, InStep(q, off)
  PROVE  /\ NumHeads(q) > 0 => q.usedIdx # q.seen
         /\ NumHeads(q) = 0 /\ q.usedIdx # q.seen => q.usedIdx = 0
         /\ q.usedIdx # q.seen => q.usedIdx = q.avail /\ q.avail = (q.seen + 1) % Mod
<1>1. q.seen \in 0 .. Mod - 1 /\ q.usedIdx \in 0 .. Mod - 1 /\ Mod \in Nat \ {0}
  BY Sizes DEF Queue, Index
<1>2. q.usedIdx # q.seen => q.usedIdx = (q.seen + 1) % Mod
  BY DEF InStep
<1>3. q.seen + 1 < Mod => (q.seen + 1) % Mod = q.seen + 1
  <2>1. q.seen + 1 < Mod => q.seen + 1 \in 0 .. Mod - 1
    BY <1>1
  <2> QED
    BY <1>1, <2>1, ModSmall
<1>4. q.seen + 1 = Mod => (q.seen + 1) % Mod = 0
  BY <1>1
<1> QED
  BY <1>1, <1>2, <1>3, <1>4 DEF NumHeads, InStep

\* Without a successor anywhere, a chain is one descriptor long.
LEMMA ChainIsOne ==
  ASSUME NEW q \in Queue(Buffer), \A d \in Slot : ~q.desc[d].more
  PROVE  ChainLength(q) = 1
<1> DEFINE P(n) == /\ ~q.desc[(q.seen + n - 1) % Size].more
                   /\ \A m \in 1 .. n - 1 : q.desc[(q.seen + m - 1) % Size].more
<1>1. \A n \in 1 .. Size : ~q.desc[(q.seen + n - 1) % Size].more
  <2> SUFFICES ASSUME NEW n \in 1 .. Size PROVE ~q.desc[(q.seen + n - 1) % Size].more
    OBVIOUS
  <2>1. PICK x \in Int : x = q.seen + n - 1
    BY Sizes DEF Queue, Index
  <2>2. x % Size \in Slot
    BY Residue
  <2> QED
    BY <2>1, <2>2
<1>2. P(1) /\ 1 \in 1 .. Size
  BY <1>1, Sizes
<1>3. \A n \in 1 .. Size : P(n) => n = 1
  <2> SUFFICES ASSUME NEW n \in 1 .. Size, P(n), n # 1 PROVE FALSE
    OBVIOUS
  <2>1. 1 \in 1 .. n - 1 /\ 1 \in 1 .. Size
    BY Sizes
  <2> QED
    BY <1>1, <2>1
<1>4. ChainLength(q) = CHOOSE n \in 1 .. Size : P(n)
  BY DEF ChainLength
<1> HIDE DEF P
<1> QED
  BY <1>2, <1>3, <1>4

\* port_get_in_head, then port_update_inbuf, on a queue.
Received(q, new) == PostIn(Dequeue(q), new)

\* What the queue is then: in step, with its buffer at new.
Renewed(q, off, new, r) ==
  /\ r \in Queue(Buffer) /\ InStep(r, new) /\ r.usedIdx = r.seen
  /\ \A d \in Slot : r.desc[d].buf.m \in {q.desc[d].buf.m, NoMessage}
  /\ q.seen % Size \in Slot
  /\ Dequeued(q)[1] = [buf |-> q.desc[q.seen % Size].buf, len |-> q.used[q.seen % Size].len]
  /\ q.used[q.seen % Size].len \in 0 .. BufLen - off
  /\ q.desc[q.seen % Size].buf \in Buffer /\ q.desc[q.seen % Size].buf.off = off

\* A queue that was in step is so after its completion has been dequeued and a buffer posted
\* at new, and the message dequeued is the one the device put there.
LEMMA ReceiveInStep ==
  ASSUME NEW q \in Queue(Buffer), NEW off \in 0 .. BufLen - 1, InStep(q, off), NumHeads(q) > 0,
         NEW new \in 0 .. BufLen - 1, NEW r, r = Received(q, new)
  PROVE  Renewed(q, off, new, r)
<1>1. /\ q.desc \in [Slot -> Descriptor(Buffer)] /\ q.ring \in [Slot -> Slot]
      /\ q.used \in [Slot -> [id : Slot, len : Nat]]
      /\ q.seen \in Index /\ q.avail \in Index /\ q.seen \in Int /\ q.seen + 1 - 1 = q.seen
  BY Sizes DEF Queue, Index
<1>2. ChainLength(q) = 1
  BY ChainIsOne DEF InStep
<1>3. q.usedIdx # q.seen /\ q.usedIdx = q.avail /\ q.avail = (q.seen + 1) % Mod
  BY Heads
<1>4. PICK s \in Slot : s = q.seen % Size
  BY <1>1, Residue
<1>5. Dequeued(q)[1] = [buf |-> q.desc[s].buf, len |-> q.used[s].len]
  <2>1. 1 \in 1 .. 1
    OBVIOUS
  <2> QED
    BY <1>1, <1>2, <1>4, <2>1 DEF Dequeued
<1>6. q.used[s].len \in 0 .. BufLen - off /\ q.desc[s].buf \in Buffer /\ q.desc[s].buf.off = off
  <2>1. q.used[s].len \in Nat /\ q.desc[s].buf \in Buffer
    BY <1>1 DEF Descriptor
  <2>2. q.used[s].len <= BufLen - off /\ q.desc[s].buf.off = off
    BY <1>3, <1>4 DEF InStep
  <2> QED
    BY <2>1, <2>2, Lengths
<1>7. PICK p : p = Dequeue(q)
  OBVIOUS
<1>8. /\ p \in Queue(Buffer) /\ p.desc = q.desc /\ p.ring = q.ring /\ p.avail = q.avail
      /\ p.usedIdx = q.usedIdx /\ p.next = q.next /\ p.added = 0 /\ p.taken = q.taken
      /\ p.seen = q.avail
  <2>1. p = [q EXCEPT !.seen = q.avail, !.used[s] = [id |-> 0, len |-> 0]]
    BY <1>2, <1>3, <1>4, <1>7 DEF Dequeue, Queue
  <2>2. [id |-> 0, len |-> 0] \in [id : Slot, len : Nat]
    BY Sizes DEF Slot
  <2>3. [q.used EXCEPT ![s] = [id |-> 0, len |-> 0]] \in [Slot -> [id : Slot, len : Nat]]
    BY <1>1, <2>2
  <2> QED
    BY <1>1, <2>1, <2>3 DEF Queue, InStep
<1>9. PICK t \in Slot : t = q.avail % Size /\ t = q.next
  <2>1. q.next \in Slot /\ q.next = q.avail % Size
    BY DEF InStep, Queue
  <2> QED
    BY <2>1
<1>10. InBuf(new) \in Buffer /\ InBuf(new).off = new /\ InBuf(new).len = BufLen - new
       /\ InBuf(new).m = NoMessage
  BY Lengths DEF InBuf, Buf
<1> DEFINE posted == [p EXCEPT !.desc[p.next] = [buf |-> InBuf(new), more |-> FALSE],
                               !.ring[p.avail % Size] = p.next,
                               !.avail = (@ + 1) % Mod,
                               !.next = (@ + 1) % Size]
<1>11. r \in Queue(Buffer) /\ r = posted
  <2>1. p \in Queue(Buffer) /\ p.added = 0
    BY <1>8
  <2>2. InBuf(new) \in Buffer
    BY <1>10
  <2>3. Post(p, InBuf(new)) \in Queue(Buffer) /\ Post(p, InBuf(new)) = posted
    BY <2>1, <2>2, PostIs
  <2> QED
    BY <1>7, <2>3 DEF PostIn, Received
<1>12. /\ r.desc = [q.desc EXCEPT ![t] = [buf |-> InBuf(new), more |-> FALSE]]
       /\ r.ring = [q.ring EXCEPT ![t] = t]
       /\ r.avail = (q.avail + 1) % Mod /\ r.next = (t + 1) % Size
       /\ r.seen = q.avail /\ r.usedIdx = q.usedIdx /\ r.taken = q.taken /\ r.added = 0
  <2>1. p \in Queue(Buffer) /\ r = posted
    BY <1>8, <1>11
  <2>2. /\ r.desc = [p.desc EXCEPT ![p.next] = [buf |-> InBuf(new), more |-> FALSE]]
        /\ r.ring = [p.ring EXCEPT ![p.avail % Size] = p.next]
        /\ r.avail = (p.avail + 1) % Mod /\ r.next = (p.next + 1) % Size
        /\ r.seen = p.seen /\ r.usedIdx = p.usedIdx /\ r.taken = p.taken /\ r.added = p.added
    BY <2>1 DEF Queue
  <2> QED
    BY <2>2, <1>8, <1>9
<1>13. r.avail % Size = r.next
  <2>1. ((q.avail + 1) % Mod) % Size = ((q.avail % Size) + 1) % Size
    BY <1>1, OneOn
  <2> QED
    BY <1>9, <1>12, <2>1
<1>14. /\ r.ring[t] = t /\ r.desc[t] = [buf |-> InBuf(new), more |-> FALSE]
       /\ \A d \in Slot : r.desc[d] \in {q.desc[d], [buf |-> InBuf(new), more |-> FALSE]}
  BY <1>1, <1>12
<1>15. \A d \in Slot : ~r.desc[d].more /\ r.desc[d].buf.m \in {q.desc[d].buf.m, NoMessage}
  BY <1>10, <1>14 DEF InStep
<1>16. InStep(r, new)
  <2>1. q.taken = q.usedIdx
    BY DEF InStep
  <2>2. /\ r.seen % Size = t /\ r.usedIdx = r.seen /\ r.taken = r.usedIdx /\ r.added = 0
        /\ r.avail = (r.seen + 1) % Mod /\ r.next = r.avail % Size
    BY <1>3, <1>9, <1>12, <1>13, <2>1
  <2>3. r.desc[t].buf = InBuf(new) /\ r.ring[t] = t
    BY <1>14
  <2>4. \A d \in Slot : ~r.desc[d].more
    BY <1>15
  <2> QED
    BY <1>10, <1>15, <2>2, <2>3, <2>4 DEF InStep
<1> QED
  BY <1>3, <1>4, <1>5, <1>6, <1>11, <1>12, <1>15, <1>16 DEF Renewed

\* What fits of a message.
Fitting(len, room) == IF len < room THEN len ELSE room
\* A queue of which the device has used the descriptor id.
Filled(q, id, m, n) == Complete(Take([q EXCEPT !.desc[id].buf.m = m]), id, n)

\* What the queue is then: in step, with a completion of length n.
Used(q, off, len, m, id, n, r) ==
  /\ r \in Queue(Buffer) /\ InStep(r, off) /\ q.usedIdx = q.seen
  /\ id \in Slot /\ q.desc[id].buf.off = off /\ n \in 0 .. BufLen - off /\ n <= len
  /\ r.seen = q.seen /\ r.seen % Size = id /\ r.used[id].len = n
  /\ \A d \in Slot : r.desc[d].buf.m \in {m, q.desc[d].buf.m}

\* A queue that was in step is so after the device has used the buffer that it has.
LEMMA DeliverInStep ==
  ASSUME NEW q \in Queue(Buffer), NEW off \in 0 .. BufLen - 1, InStep(q, off), Offered(q) > 0,
         NEW m \in Letter, NEW len \in Nat, NEW id, id = Offer(q, 0),
         NEW n, n = Fitting(len, q.desc[id].buf.len),
         NEW r, r = Filled(q, id, m, n)
  PROVE  Used(q, off, len, m, id, n, r)
<1>1. /\ q.desc \in [Slot -> Descriptor(Buffer)] /\ q.ring \in [Slot -> Slot]
      /\ q.used \in [Slot -> [id : Slot, len : Nat]]
      /\ q.seen \in Index /\ q.avail \in Index /\ q.seen \in Int
  BY Sizes DEF Queue, Index
<1>2. q.usedIdx = q.seen /\ q.taken = q.seen
  <2>1. q.taken = q.usedIdx /\ (q.usedIdx = q.seen \/ q.usedIdx = q.avail)
    BY DEF InStep
  <2>2. q.avail - q.avail = 0 /\ 0 % Mod = 0
    BY <1>1, Sizes, ModSmall DEF Index
  <2> QED
    BY <2>1, <2>2 DEF Offered
<1>3. PICK s \in Slot : s = q.seen % Size
  BY <1>1, Residue
<1>4. id = s
  <2>1. q.taken + 0 = q.seen /\ q.ring[s] = s
    BY <1>1, <1>2, <1>3 DEF InStep
  <2> QED
    BY <1>3, <2>1 DEF Offer
<1>5. q.desc[s].buf.off = off /\ q.desc[s].buf.len = BufLen - off /\ ~q.desc[s].more
  BY <1>3 DEF InStep
<1>6. n \in 0 .. BufLen - off /\ n <= len /\ n \in Nat
  BY <1>4, <1>5, Lengths DEF Fitting
<1>7. PICK b \in Buffer : b = [q.desc[s].buf EXCEPT !.m = m]
  BY <1>1 DEF Descriptor, Buffer
<1>8. b.off = off /\ b.len = BufLen - off /\ b.m = m
  BY <1>1, <1>5, <1>7 DEF Descriptor, Buffer
<1>9. [q.desc EXCEPT ![s].buf.m = m] = [q.desc EXCEPT ![s] = [buf |-> b, more |-> FALSE]]
  <2>1. PICK e \in Descriptor(Buffer) : e = q.desc[s]
    BY <1>1
  <2>2. e.buf = q.desc[s].buf /\ e.more = FALSE /\ e.buf \in Buffer
    BY <1>5, <2>1 DEF Descriptor
  <2>3. PICK f : f = [e EXCEPT !.buf.m = m]
    OBVIOUS
  <2>4. f \in Descriptor(Buffer) /\ f.buf = b /\ f.more = FALSE
    BY <1>7, <2>2, <2>3 DEF Descriptor
  <2>5. f = [buf |-> b, more |-> FALSE]
    BY <2>4 DEF Descriptor
  <2> QED
    BY <1>1, <2>1, <2>3, <2>5
<1>10. PICK p : p = [q EXCEPT !.desc[id].buf.m = m]
  OBVIOUS
<1>11. /\ p = [q EXCEPT !.desc = [q.desc EXCEPT ![s] = [buf |-> b, more |-> FALSE]]]
       /\ [q.desc EXCEPT ![s] = [buf |-> b, more |-> FALSE]] \in [Slot -> Descriptor(Buffer)]
  <2>1. [buf |-> b, more |-> FALSE] \in Descriptor(Buffer)
    BY DEF Descriptor
  <2> QED
    BY <1>1, <1>4, <1>9, <1>10, <2>1
<1>12. PICK u : u = [q.used EXCEPT ![s] = [id |-> s, len |-> n]]
  OBVIOUS
<1>13. u \in [Slot -> [id : Slot, len : Nat]] /\ u[s].id = s /\ u[s].len = n
  <2>1. [id |-> s, len |-> n] \in [id : Slot, len : Nat]
    BY <1>6
  <2> QED
    BY <1>1, <1>12, <2>1
<1>14. (q.seen + 1) % Mod = q.avail /\ q.added = 0 /\ q.next = q.avail % Size
  BY DEF InStep
<1>15. /\ r = [p EXCEPT !.taken = q.avail, !.used = u, !.usedIdx = q.avail]
       /\ p.desc = [q.desc EXCEPT ![s] = [buf |-> b, more |-> FALSE]]
  <2>1. /\ p.usedIdx = q.seen /\ p.taken = q.seen /\ p.used = q.used
        /\ p.desc = [q.desc EXCEPT ![s] = [buf |-> b, more |-> FALSE]]
    BY <1>2, <1>11 DEF Queue
  <2>2. Take(p) = [p EXCEPT !.taken = q.avail]
    BY <2>1, <1>14 DEF Take
  <2>3. PICK t : t = Take(p)
    OBVIOUS
  <2>4. t.used = q.used /\ t.usedIdx = q.seen
    BY <1>11, <2>1, <2>2, <2>3 DEF Queue
  <2>5. r = [t EXCEPT !.used[s] = [id |-> s, len |-> n], !.usedIdx = q.avail]
    BY <1>3, <1>4, <1>10, <1>14, <2>3, <2>4 DEF Complete, Filled
  <2> QED
    BY <1>11, <1>12, <2>1, <2>2, <2>3, <2>4, <2>5 DEF Queue
<1>16. /\ r \in Queue(Buffer)
       /\ r.desc = [q.desc EXCEPT ![s] = [buf |-> b, more |-> FALSE]]
       /\ r.ring = q.ring /\ r.avail = q.avail /\ r.next = q.next /\ r.added = 0
       /\ r.seen = q.seen /\ r.usedIdx = q.avail /\ r.taken = q.avail /\ r.used = u
  BY <1>1, <1>11, <1>13, <1>14, <1>15 DEF Queue
<1>17. /\ \A d \in Slot : ~r.desc[d].more /\ r.desc[d].buf.m \in {m, q.desc[d].buf.m}
       /\ r.desc[s].buf.off = off /\ r.desc[s].buf.len = BufLen - off /\ r.ring[s] = s
  <2>1. \A d \in Slot : r.desc[d] = IF d = s THEN [buf |-> b, more |-> FALSE] ELSE q.desc[d]
    BY <1>1, <1>16
  <2>2. (\A d \in Slot : ~q.desc[d].more) /\ q.ring[s] = s
    BY <1>3 DEF InStep
  <2>3. \A d \in Slot : ~r.desc[d].more /\ r.desc[d].buf.m \in {m, q.desc[d].buf.m}
    <3>1. SUFFICES ASSUME NEW d \in Slot
                   PROVE  ~r.desc[d].more /\ r.desc[d].buf.m \in {m, q.desc[d].buf.m}
      OBVIOUS
    <3>2. CASE d = s
      <4>1. r.desc[d] = [buf |-> b, more |-> FALSE]
        BY <2>1, <3>2
      <4>2. r.desc[d].buf = b /\ ~r.desc[d].more
        BY <4>1
      <4> QED
        BY <1>8, <4>2
    <3>3. CASE d # s
      BY <2>1, <2>2, <3>3
    <3> QED
      BY <3>2, <3>3
  <2>4. r.desc[s].buf = b /\ r.ring[s] = s
    <3>1. r.desc[s] = [buf |-> b, more |-> FALSE]
      BY <2>1
    <3>2. r.desc[s].buf = b
      BY <3>1
    <3> QED
      BY <1>16, <2>2, <3>2
  <2> QED
    BY <1>8, <2>3, <2>4
<1>18. InStep(r, off)
  <2>1. n <= BufLen - off /\ r.seen % Size = s
    BY <1>3, <1>6, <1>16, Lengths
  <2>2. /\ r.avail = (r.seen + 1) % Mod /\ r.next = r.avail % Size
        /\ r.taken = r.usedIdx /\ r.usedIdx = r.avail
    BY <1>14, <1>16
  <2>3. r.used[s].id = s /\ r.used[s].len = n /\ r.added = 0
    BY <1>13, <1>16
  <2> QED
    BY <1>17, <2>1, <2>2, <2>3 DEF InStep
<1> QED
  BY <1>2, <1>3, <1>4, <1>5, <1>6, <1>13, <1>16, <1>17, <1>18 DEF Used

-----------------------------------------------------------------------------
(* What the steps do *)

\* The ports, and the pairs of queues that the device has for them.
LEMMA PortsAre ==
  /\ IsFiniteSet(HostPorts) /\ Cardinality(HostPorts) \in Nat
  /\ Ctl \in Port /\ 1 \in Port /\ Port \subseteq Nat /\ HostPorts \subseteq Nat
  /\ \A id \in HostPorts : Pair(id) \in Pairs
<1>1. HostPorts \subseteq 0 .. Size - 1 /\ Size \in Nat
  BY Lengths, Sizes DEF Slot
<1>2. IsFiniteSet(0 .. Size - 1)
  BY <1>1, FS_Interval
<1>3. IsFiniteSet(HostPorts) /\ Cardinality(HostPorts) \in Nat
  BY <1>1, <1>2, FS_Subset, FS_CardinalityType
<1> QED
  BY <1>1, <1>3 DEF Port, Ctl, Pair, Pairs

\* The ports that are set up are known to be such.
LEMMA PortsUp ==
  ASSUME TypeOK
  PROVE  /\ InPorts \subseteq Port /\ Ctl \in InPorts /\ it \in InPorts /\ it # Ctl
         /\ Len(ports) \in Nat \ {0} /\ msg.port \in InPorts
         /\ \A p \in InPorts : /\ p \in Port /\ inq[p] \in Queue(Buffer)
                               /\ inUsed[p] \in 0 .. BufLen - 1
<1>1. Len(ports) \in Nat \ {0} /\ Len(ports) \in Port /\ it \in 1 .. Len(ports)
  BY PortsAre DEF TypeOK, Ctl
<1>2. InPorts \subseteq Port
  BY <1>1, PortsAre DEF InPorts, Port, Ctl
<1>3. msg.port \in InPorts
  BY DEF TypeOK
<1> QED
  BY <1>1, <1>2, <1>3, SMTT(30) DEF TypeOK, InPorts, Ctl

\* What port_get_in_head and port_update_inbuf leave behind.
Drawn(p, r, new, s) ==
  /\ inq[p].usedIdx # inq[p].seen /\ s = inq[p].seen % Size
  /\ inq[p].used[s].len \in 0 .. BufLen - inUsed[p]
  /\ new = Advance(inUsed[p], inq[p].used[s].len)
  /\ inq' = [inq EXCEPT ![p] = r] /\ inUsed' = [inUsed EXCEPT ![p] = new]
  /\ InStep(r, new) /\ r.usedIdx = r.seen
  /\ \A d \in Slot : r.desc[d].buf.m \in {inq[p].desc[d].buf.m, NoMessage}
  /\ inq[p].desc[s].buf.m \in Letter
  /\ msg' = InHand(p, inUsed[p], inq[p].used[s].len, inq[p].desc[s].buf.m)

\* What a step of the handler takes from the queue of p.
LEMMA ReceiveOne ==
  ASSUME TypeOK, InputInStep, NEW p \in InPorts, Receive(p)
  PROVE  \E r \in Queue(Buffer), new \in 0 .. BufLen - 1, s \in Slot : Drawn(p, r, new, s)
<1>1. PICK q \in Queue(Buffer), off \in 0 .. BufLen - 1 :
        q = inq[p] /\ off = inUsed[p] /\ InStep(q, off) /\ NumHeads(q) > 0
  BY PortsUp DEF InputInStep, Receive
<1>2. PICK got : got = Dequeued(q)[1]
  OBVIOUS
<1>3. PICK new : new = Advance(off, got.len)
  OBVIOUS
<1>4. /\ msg' = InHand(p, got.buf.off, got.len, got.buf.m)
      /\ inUsed' = [inUsed EXCEPT ![p] = new]
      /\ inq' = [inq EXCEPT ![p] = Received(q, new)]
  BY <1>1, <1>2, <1>3 DEF Receive, Received
<1>5. PICK r0 : r0 = Received(q, 0)
  OBVIOUS
<1>6. 0 \in 0 .. BufLen - 1
  BY Lengths
<1>7. InStep(q, off) /\ NumHeads(q) > 0
  BY <1>1
<1>8. Renewed(q, off, 0, r0)
  BY <1>5, <1>6, <1>7, ReceiveInStep
<1>9. q.seen % Size \in Slot
  BY <1>8 DEF Renewed
<1>10. PICK s \in Slot : s = q.seen % Size
  BY <1>9, Zenon
<1>11. /\ got.buf = q.desc[s].buf /\ got.len = q.used[s].len /\ got.len \in 0 .. BufLen - off
      /\ q.desc[s].buf \in Buffer /\ q.desc[s].buf.off = off
  <2>1. /\ Dequeued(q)[1] = [buf |-> q.desc[q.seen % Size].buf, len |-> q.used[q.seen % Size].len]
        /\ q.used[q.seen % Size].len \in 0 .. BufLen - off
        /\ q.desc[q.seen % Size].buf \in Buffer /\ q.desc[q.seen % Size].buf.off = off
    BY <1>8 DEF Renewed
  <2> QED
    BY <1>2, <1>10, <2>1
<1>12. new \in 0 .. BufLen - 1
  BY <1>3, <1>11, Lengths DEF Advance
<1>13. PICK r : r = Received(q, new)
  OBVIOUS
<1>14. /\ r \in Queue(Buffer) /\ InStep(r, new) /\ r.usedIdx = r.seen
       /\ \A d \in Slot : r.desc[d].buf.m \in {q.desc[d].buf.m, NoMessage}
  <2>1. Renewed(q, off, new, r)
    BY <1>12, <1>13, <1>7, ReceiveInStep
  <2> QED
    BY <2>1 DEF Renewed
<1>15. q.usedIdx # q.seen /\ q.desc[s].buf.m \in Letter
  BY <1>1, <1>11, Heads DEF Buffer
<1>16. Drawn(p, r, new, s)
  BY <1>1, <1>3, <1>4, <1>10, <1>11, <1>13, <1>14, <1>15 DEF Drawn
<1> QED
  BY <1>10, <1>12, <1>14, <1>16, Zenon

\* What the device leaves behind when it has filled a buffer.
Filling(p, len, m, r, n) ==
  /\ inq' = [inq EXCEPT ![p] = r] /\ InStep(r, inUsed[p])
  /\ r.seen = inq[p].seen /\ inq[p].usedIdx = inq[p].seen
  /\ n <= len /\ r.used[r.seen % Size].len = n
  /\ \A d \in Slot : r.desc[d].buf.m \in {m, inq[p].desc[d].buf.m}
  /\ torn' = (torn \/ (/\ msg.port = p
                       /\ Region(msg.off, msg.len) \cap Region(inUsed[p], n) # {}))

\* What the device does to the queue of p.
LEMMA DeliverOne ==
  ASSUME TypeOK, InputInStep, NEW p \in InPorts, NEW len \in Nat, NEW m \in Letter,
         Deliver(p, len, m)
  PROVE  \E r \in Queue(Buffer), n \in 0 .. BufLen - inUsed[p] : Filling(p, len, m, r, n)
<1>1. PICK q \in Queue(Buffer), off \in 0 .. BufLen - 1 :
        q = inq[p] /\ off = inUsed[p] /\ InStep(q, off) /\ Offered(q) > 0
  BY PortsUp DEF InputInStep, Deliver
<1>2. PICK id : id = Offer(q, 0)
  OBVIOUS
<1>3. PICK n : n = Fitting(len, q.desc[id].buf.len)
  OBVIOUS
<1>4. PICK r : r = Filled(q, id, m, n)
  OBVIOUS
<1>5. /\ inq' = [inq EXCEPT ![p] = r]
      /\ torn' = (torn \/ (/\ msg.port = p
                           /\ Region(msg.off, msg.len) \cap Region(q.desc[id].buf.off, n) # {}))
  BY <1>1, <1>2, <1>3, <1>4 DEF Deliver, Fitting, Filled
<1>6. /\ r \in Queue(Buffer) /\ InStep(r, off) /\ q.usedIdx = q.seen
      /\ q.desc[id].buf.off = off /\ n \in 0 .. BufLen - off /\ n <= len
      /\ r.seen = q.seen /\ r.seen % Size = id /\ r.used[id].len = n
      /\ \A d \in Slot : r.desc[d].buf.m \in {m, q.desc[d].buf.m}
  <2>1. InStep(q, off) /\ Offered(q) > 0
    BY <1>1
  <2>2. Used(q, off, len, m, id, n, r)
    BY <1>2, <1>3, <1>4, <2>1, DeliverInStep
  <2> QED
    BY <2>2 DEF Used
<1>7. n \in 0 .. BufLen - inUsed[p] /\ Filling(p, len, m, r, n)
  BY <1>1, <1>5, <1>6 DEF Filling
<1> QED
  BY <1>6, <1>7, Zenon

-----------------------------------------------------------------------------
(* The messages on their way to the device *)

\* A message that is said overwrites the oldest of those that fit, and leaves the others.
LEMMA TellOne ==
  ASSUME NEW q \in Queue(Buffer), NEW used \in 0 .. BufLen, NEW page \in [0 .. BufLen - 1 -> Letter],
         NEW said \in Seq(Letter), NEW m \in Letter, Told(q, used, page, said),
         NEW off, off = OutOffset(used), NEW r, r = Post(q, Buf(off, 1, NoMessage))
  PROVE  /\ off \in 0 .. BufLen - 1 /\ r \in Queue(Buffer)
         /\ \A d \in Slot : r.desc[d].buf.m \in {q.desc[d].buf.m, NoMessage}
         /\ Told(r, off + 1, [page EXCEPT ![off] = m], Append(said, m))
<1>1. /\ q.desc \in [Slot -> Descriptor(Buffer)] /\ q.ring \in [Slot -> Slot]
      /\ q.avail \in Index /\ q.avail \in Int /\ q.taken \in Int /\ q.next \in Slot
      /\ q.added = 0 /\ q.next = q.avail % Size /\ used # 0
  BY Sizes DEF Queue, Index, Told
<1>2. off \in 0 .. BufLen - 1 /\ off = used % BufLen
  <2>1. BufLen \in Nat \ {0} /\ BufLen % BufLen = 0
    BY Lengths, SMT
  <2>2. CASE used + 1 > BufLen
    <3>1. used = BufLen /\ off = 0
      BY <2>1, <2>2 DEF OutOffset
    <3> QED
      BY <2>1, <3>1
  <2>3. CASE ~(used + 1 > BufLen)
    <3>1. used \in 0 .. BufLen - 1 /\ off = used
      BY <2>1, <2>3 DEF OutOffset
    <3> QED
      BY <2>1, <3>1, ModSmall
  <2> QED
    BY <2>2, <2>3
<1>3. PICK b \in Buffer : b = Buf(off, 1, NoMessage) /\ b.off = off /\ b.m = NoMessage
  <2>1. 1 \in 0 .. BufLen /\ NoMessage \in Letter
    BY Lengths DEF Letter
  <2> QED
    BY <1>2, <2>1 DEF Buf, Buffer
<1> DEFINE posted == [q EXCEPT !.desc[q.next] = [buf |-> b, more |-> FALSE],
                               !.ring[q.avail % Size] = q.next,
                               !.avail = (@ + 1) % Mod,
                               !.next = (@ + 1) % Size]
<1>4. r \in Queue(Buffer) /\ r = posted
  <2>1. Post(q, b) \in Queue(Buffer) /\ Post(q, b) = posted
    BY <1>1, PostIs
  <2> QED
    BY <1>3, <2>1
<1>5. PICK t \in Slot : t = q.next
  BY <1>1
<1>6. /\ r.desc = [q.desc EXCEPT ![t] = [buf |-> b, more |-> FALSE]]
      /\ r.ring = [q.ring EXCEPT ![t] = t]
      /\ r.avail = (q.avail + 1) % Mod /\ r.next = (t + 1) % Size
      /\ r.added = 0 /\ r.taken = q.taken
  BY <1>1, <1>4, <1>5 DEF Queue
<1>7. /\ \A d \in Slot : r.desc[d] = IF d = t THEN [buf |-> b, more |-> FALSE] ELSE q.desc[d]
      /\ \A d \in Slot : r.ring[d] = IF d = t THEN t ELSE q.ring[d]
  BY <1>1, <1>5, <1>6
<1>8. r.next = r.avail % Size
  BY <1>1, <1>5, <1>6, OneOn
<1>9. \A d \in Slot : r.desc[d].buf.m \in {q.desc[d].buf.m, NoMessage}
  <2> SUFFICES ASSUME NEW d \in Slot PROVE r.desc[d].buf.m \in {q.desc[d].buf.m, NoMessage}
    OBVIOUS
  <2>1. CASE d = t
    <3>1. r.desc[d] = [buf |-> b, more |-> FALSE]
      BY <1>7, <2>1
    <3>2. r.desc[d].buf = b
      BY <3>1
    <3> QED
      BY <1>3, <3>2
  <2>2. CASE d # t
    BY <1>7, <2>2
  <2> QED
    BY <2>1, <2>2
<1>10. PICK n \in Nat : n = Len(said)
  OBVIOUS
<1>11. PICK told : told = Append(said, m)
  OBVIOUS
<1>12. /\ Len(told) = n + 1 /\ told[n + 1] = m
       /\ \A i \in 1 .. n : told[i] = said[i]
  BY <1>10, <1>11
<1>13. (r.avail - r.taken) % Mod = (n + 1) % Mod
  <2>1. PICK y \in Int, z \in Int, w \in Int, v \in Int : /\ y = q.avail + 1 /\ z = -q.taken
                                             /\ w = q.avail - q.taken /\ v = 1
    BY <1>1, SMT
  <2>2. ((y % Mod) + z) % Mod = (y + z) % Mod
    BY Sizes, ModSum
  <2>3. ((w % Mod) + v) % Mod = (w + v) % Mod
    BY Sizes, ModSum
  <2>4. ((n % Mod) + v) % Mod = (n + v) % Mod
    <3>1. n \in Int
      OBVIOUS
    <3> QED
      BY <3>1, Sizes, ModSum, Zenon
  <2>5. w % Mod = n % Mod
    BY <1>10, <2>1 DEF Told
  <2>6. y + z = w + v
    BY <1>1, <2>1
  <2>7. r.avail - r.taken = (y % Mod) + z
    <3>1. PICK k \in Int : k = y % Mod
      BY Residue
    <3>2. r.avail = k
      BY <1>6, <2>1, <3>1
    <3> QED
      BY <1>1, <1>6, <2>1, <3>1, <3>2
  <2> QED
    BY <2>1, <2>2, <2>3, <2>4, <2>5, <2>6, <2>7
<1>14. PICK pg : pg = [page EXCEPT ![off] = m]
  OBVIOUS
<1>15. ASSUME NEW a \in 0 .. n, a < Size, a < BufLen, NEW s, s = (r.avail - 1 - a) % Size,
              NEW o, o = (off + 1 - 1 - a) % BufLen
       PROVE  r.ring[s] = s /\ r.desc[s].buf.off = o /\ pg[o] = told[n + 1 - a]
  <2>1. PICK y \in Int, z \in Int : y = q.avail + 1 /\ z = -1 - a
    BY <1>1, SMT
  <2>2. ((y % Mod) + z) % Size = (y + z) % Size
    BY Sizes, ModOf, ZenonT(40)
  <2>3. s = (q.avail - a) % Size
    <3>1. PICK k \in Int : k = y % Mod
      BY Residue
    <3>2. r.avail = k
      BY <1>6, <2>1, <3>1
    <3>3. PICK e \in Int : e = q.avail
      BY <1>1
    <3>4. k - 1 - a = k + z /\ y + z = e - a
      BY <2>1, <3>3, SMTT(30)
    <3> QED
      BY <1>15, <2>2, <3>1, <3>2, <3>3, <3>4
  <2>4. off + 1 - 1 - a = off - a
    BY <1>2, Lengths
  <2>5. o = (used - a) % BufLen
    <3>1. PICK x \in Int : x = -a
      BY SMT
    <3>2. ((used % BufLen) + x) % BufLen = (used + x) % BufLen
      <4>1. used \in Int /\ BufLen \in Nat \ {0}
        BY Lengths
      <4> QED
        BY <4>1, ModSum
    <3>3. (used % BufLen) + x = off - a /\ used + x = used - a
      BY <1>2, <3>1, Lengths
    <3> QED
      BY <1>15, <2>4, <3>2, <3>3
  <2>6. CASE a = 0
    <3>1. s = t /\ o = off
      <4>1. q.avail - a = q.avail /\ used - a = used
        BY <1>1, <2>6
      <4> QED
        BY <1>1, <1>2, <1>5, <2>3, <2>5, <4>1
    <3>2. r.desc[t] = [buf |-> b, more |-> FALSE] /\ r.ring[t] = t
      BY <1>7
    <3>3. r.desc[t].buf.off = off
      BY <1>3, <3>2
    <3>4. pg[off] = m /\ n + 1 - a = n + 1
      BY <1>2, <1>14, <2>6
    <3> QED
      BY <1>12, <3>1, <3>2, <3>3, <3>4
  <2>7. CASE a # 0
    <3>1. /\ a - 1 \in 0 .. Len(said) - 1 /\ a - 1 < Size /\ a - 1 < BufLen
          /\ a \in 1 .. Size - 1 /\ a \in 1 .. BufLen - 1
      BY <1>10, <1>15, <2>7, Sizes, Lengths
    <3>2. q.avail - 1 - (a - 1) = q.avail - a /\ used - 1 - (a - 1) = used - a
      BY <1>1
    <3>3. q.ring[s] = s /\ q.desc[s].buf.off = o /\ page[o] = said[Len(said) - (a - 1)]
      BY <2>3, <2>5, <3>1, <3>2 DEF Told
    <3>4. s # t
      BY <1>1, <1>5, <2>3, <3>1, Sizes, ModApart
    <3>5. o # off
      <4>1. used \in Int /\ BufLen \in Nat \ {0}
        BY Lengths
      <4>2. (used - a) % BufLen # used % BufLen
        BY <3>1, <4>1, ModApart
      <4> QED
        BY <1>2, <2>5, <4>2
    <3>6. s \in Slot
      <4>1. q.avail - a \in Int
        BY <1>1
      <4> QED
        BY <2>3, <4>1, Residue
    <3>7. r.ring[s] = q.ring[s] /\ r.desc[s] = q.desc[s]
      BY <1>7, <3>4, <3>6
    <3>8. o \in 0 .. BufLen - 1
      <4>1. used - a \in Int
        OBVIOUS
      <4> QED
        BY <2>5, <4>1, Lengths, DivMod
    <3>9. pg[o] = page[o]
      BY <1>14, <3>5, <3>8
    <3>10. told[n + 1 - a] = said[Len(said) - (a - 1)]
      BY <1>10, <1>12, <3>1
    <3> QED
      BY <3>3, <3>7, <3>9, <3>10
  <2> QED
    BY <2>6, <2>7
<1>16. off + 1 # 0
  BY <1>2
<1>17. Told(r, off + 1, pg, told)
  <2>1. 0 .. Len(told) - 1 = 0 .. n /\ Len(told) = n + 1
    BY <1>12
  <2>2. PICK next : next = off + 1
    OBVIOUS
  <2>3. ASSUME NEW a \in 0 .. Len(told) - 1, a < Size, a < BufLen
        PROVE  LET s == (r.avail - 1 - a) % Size
                   o == (next - 1 - a) % BufLen
               IN  r.ring[s] = s /\ r.desc[s].buf.off = o /\ pg[o] = told[Len(told) - a]
    <3>1. a \in 0 .. n /\ Len(told) - a = n + 1 - a
      BY <2>1
    <3>2. PICK s : s = (r.avail - 1 - a) % Size
      OBVIOUS
    <3>3. PICK o : o = (next - 1 - a) % BufLen
      OBVIOUS
    <3>4. r.ring[s] = s /\ r.desc[s].buf.off = o /\ pg[o] = told[n + 1 - a]
      <4>1. o = (off + 1 - 1 - a) % BufLen
        BY <1>2, <2>2, <3>3
      <4> QED
        BY <1>15, <2>3, <3>1, <3>2, <4>1
    <3> QED
      BY <3>1, <3>2, <3>3, <3>4
  <2>4. (r.avail - r.taken) % Mod = Len(told) % Mod
    BY <1>13, <2>1
  <2>5. r.added = 0 /\ r.next = r.avail % Size /\ next # 0
    BY <1>6, <1>8, <1>16, <2>2
  <2>6. Told(r, next, pg, told)
    BY <2>3, <2>4, <2>5 DEF Told
  <2> QED
    BY <2>2, <2>6
<1> QED
  BY <1>2, <1>4, <1>9, <1>11, <1>14, <1>17

\* The device reads the oldest message.
LEMMA TakeOne ==
  ASSUME NEW q \in Queue(Buffer), NEW used, NEW page, NEW said \in Seq(Letter),
         Told(q, used, page, said), Offered(q) > 0, NEW r, r = Take(q)
  PROVE  said # << >> /\ r \in Queue(Buffer) /\ r.desc = q.desc /\ Told(r, used, page, Tail(said))
<1>1. PICK n \in Nat : n = Len(said)
  OBVIOUS
<1>2. q.avail \in Int /\ q.taken \in Int /\ q.added = 0 /\ q.next = q.avail % Size /\ used # 0
  BY Sizes DEF Queue, Index, Told
<1>3. PICK w \in Int : w = q.avail - q.taken
  BY <1>2
<1>4. w % Mod = n % Mod
  BY <1>1, <1>3 DEF Told
<1>5. n > 0 /\ said # << >>
  <2>1. 0 % Mod = 0
    BY Sizes
  <2>2. n # 0
    BY <1>3, <1>4, <2>1 DEF Offered
  <2> QED
    BY <1>1, <2>2
<1>6. PICK told : told = Tail(said)
  OBVIOUS
<1>7. Len(told) = n - 1 /\ \A i \in 1 .. n - 1 : told[i] = said[i + 1]
  BY <1>1, <1>5, <1>6
<1>8. /\ r \in Queue(Buffer) /\ r.taken = (q.taken + 1) % Mod /\ r.avail = q.avail
      /\ r.added = 0 /\ r.next = q.next /\ r.ring = q.ring /\ r.desc = q.desc
  <2>1. PICK x \in Int : x = q.taken + 1
    BY <1>2
  <2>2. x % Mod \in Index
    BY Residue
  <2>3. r = [q EXCEPT !.taken = x % Mod]
    BY <2>1 DEF Take
  <2> QED
    BY <1>2, <2>1, <2>2, <2>3 DEF Queue
<1>9. (r.avail - r.taken) % Mod = (n - 1) % Mod
  <2>1. PICK x \in Int, y \in Int, z \in Int, k \in Int :
          x = q.taken + 1 /\ y = q.avail /\ z = -1 /\ k = n
    BY <1>2, SMT
  <2>2. (y - (x % Mod)) % Mod = (y - x) % Mod
    BY Sizes, ModMinus
  <2>3. ((w % Mod) + z) % Mod = (w + z) % Mod
    BY Sizes, ModSum
  <2>4. ((k % Mod) + z) % Mod = (k + z) % Mod
    BY Sizes, ModSum
  <2>5. y - x = w + z /\ k + z = n - 1
    BY <1>2, <1>3, <2>1
  <2>6. r.avail = y /\ r.taken = x % Mod
    BY <1>8, <2>1
  <2> QED
    BY <1>4, <2>1, <2>2, <2>3, <2>4, <2>5, <2>6
<1>10. ASSUME NEW a \in 0 .. Len(told) - 1, a < Size, a < BufLen
       PROVE  LET s == (r.avail - 1 - a) % Size
                  o == (used - 1 - a) % BufLen
              IN  r.ring[s] = s /\ r.desc[s].buf.off = o /\ page[o] = told[Len(told) - a]
  <2>1. a \in 0 .. Len(said) - 1
    BY <1>1, <1>7
  <2>2. told[Len(told) - a] = said[Len(said) - a]
    <3>1. n - 1 - a \in 1 .. n - 1 /\ n - 1 - a + 1 = n - a
      BY <1>7
    <3> QED
      BY <1>1, <1>7, <3>1
  <2>3. LET s == (q.avail - 1 - a) % Size
            o == (used - 1 - a) % BufLen
        IN  q.ring[s] = s /\ q.desc[s].buf.off = o /\ page[o] = said[Len(said) - a]
    BY <1>10, <2>1 DEF Told
  <2> QED
    BY <1>8, <2>2, <2>3
<1>11. (r.avail - r.taken) % Mod = Len(told) % Mod
  BY <1>7, <1>9
<1>12. r.added = 0 /\ r.next = r.avail % Size
  BY <1>2, <1>8
<1>13. Told(r, used, page, told)
  BY <1>2, <1>10, <1>11, <1>12 DEF Told
<1> QED
  BY <1>5, <1>6, <1>8, <1>13

\* If all that was said fits, the device finds all of it, oldest first.
LEMMA HearAll ==
  ASSUME NEW q \in Queue(Buffer), NEW used, NEW page, NEW said \in Seq(Letter),
         Told(q, used, page, said), Len(said) <= Size, Len(said) <= BufLen
  PROVE  /\ Offered(q) = Len(said)
         /\ \A i \in 1 .. Len(said) : page[q.desc[Offer(q, i - 1)].buf.off] = said[i]
<1>1. PICK n \in Nat : n = Len(said)
  OBVIOUS
<1>2. q.avail \in Int /\ q.taken \in Int
  BY Sizes DEF Queue, Index
<1>3. PICK w \in Int : w = q.avail - q.taken
  BY <1>2
<1>4. w % Mod = n
  <2>1. w % Mod = n % Mod
    BY <1>1, <1>3 DEF Told
  <2>2. n \in 0 .. Mod - 1
    BY <1>1, Sizes
  <2> QED
    BY <2>1, <2>2, Sizes, ModSmall
<1>5. ASSUME NEW i \in 1 .. Len(said)
      PROVE  page[q.desc[Offer(q, i - 1)].buf.off] = said[i]
  <2>1. PICK a \in Int : a = n - i
    OBVIOUS
  <2>2. a \in 0 .. Len(said) - 1 /\ a < Size /\ a < BufLen /\ Len(said) - a = i
    BY <1>1, <2>1, Sizes, Lengths
  <2>3. PICK s : s = (q.avail - 1 - a) % Size
    OBVIOUS
  <2>4. PICK o : o = (used - 1 - a) % BufLen
    OBVIOUS
  <2>5. q.ring[s] = s /\ q.desc[s].buf.off = o /\ page[o] = said[i]
    BY <2>2, <2>3, <2>4 DEF Told
  <2>6. (q.taken + (i - 1)) % Size = s
    <3>1. PICK z \in Int : z = q.taken - 1 - a
      BY <1>2
    <3>2. ((w % Mod) + z) % Size = (w + z) % Size
      BY Sizes, ModOf
    <3>3. w + z = q.avail - 1 - a
      BY <1>2, <1>3, <3>1, SMTT(30)
    <3>4. n + z = q.taken + (i - 1)
      BY <1>2, <2>1, <3>1
    <3> QED
      BY <1>4, <2>3, <3>2, <3>3, <3>4
  <2>7. Offer(q, i - 1) = s
    BY <2>5, <2>6 DEF Offer
  <2> QED
    BY <2>5, <2>7
<1> QED
  BY <1>1, <1>3, <1>4, <1>5 DEF Offered

-----------------------------------------------------------------------------
(* Types *)

\* What may be said.
LEMMA Letters ==
  /\ \A id \in HostPorts, open \in BOOLEAN :
       {PortReady(id), PortOpen(id, open), PortAdd(id), PortName(id)} \subseteq Letter
  /\ NoMessage \in Letter /\ DeviceReady \in Letter
  /\ \A m \in Letter : m.ev \in Events => m.id \in HostPorts /\ m.val \in BOOLEAN
<1>1. \A id \in HostPorts, open \in BOOLEAN :
        /\ PortReady(id) \in [ev : Events, id : HostPorts, val : BOOLEAN]
        /\ PortOpen(id, open) \in [ev : Events, id : HostPorts, val : BOOLEAN]
        /\ PortAdd(id) \in [ev : Events, id : HostPorts, val : BOOLEAN]
        /\ PortName(id) \in [ev : Events, id : HostPorts, val : BOOLEAN]
  BY DEF PortReady, PortOpen, PortAdd, PortName, Message, Events
<1>2. \A m \in Letter : m.ev \in Events => m \in [ev : Events, id : HostPorts, val : BOOLEAN]
  BY DEF Letter, Events, NoMessage, DeviceReady, Message
<1> QED
  BY <1>1, <1>2 DEF Letter

\* The device answers with ports that are to be added, or about the port that is ready.
LEMMA Answers ==
  ASSUME NEW m \in Letter, NEW reply, reply = Answer(m)
  PROVE  /\ reply \in Seq(Letter)
         /\ \A i \in 1 .. Len(reply) :
              reply[i].ev = "DEVICE_ADD" \/ (m.ev = "PORT_READY" /\ reply[i].id = m.id)
<1>1. CASE m.ev = "DEVICE_READY"
  <2>1. PICK S : S = {PortAdd(id) : id \in HostPorts}
    OBVIOUS
  <2>2. S \subseteq Letter /\ \A x \in S : x.ev = "DEVICE_ADD"
    <3> SUFFICES ASSUME NEW x \in S PROVE x \in Letter /\ x.ev = "DEVICE_ADD"
      OBVIOUS
    <3>1. PICK id \in HostPorts : x = PortAdd(id)
      BY <2>1
    <3>2. PortAdd(id) \in Letter
      BY Letters
    <3> QED
      BY <3>1, <3>2 DEF PortAdd, Message
  <2>3. IsFiniteSet(S)
    <3>1. [id \in HostPorts |-> PortAdd(id)] \in Surjection(HostPorts, S)
      BY <2>1 DEF Surjection
    <3> QED
      BY <3>1, PortsAre, FS_Surjection
  <2>4. reply = SetToSeq(S) /\ reply \in Seq(S)
    BY <1>1, <2>1, <2>3, ListsAll DEF Answer
  <2>5. Len(reply) \in Nat /\ reply \in [1 .. Len(reply) -> S]
    BY <2>4, LenProperties
  <2>6. reply \in [1 .. Len(reply) -> Letter] /\ \A i \in 1 .. Len(reply) : reply[i].ev = "DEVICE_ADD"
    BY <2>2, <2>5
  <2>7. reply \in Seq(Letter)
    BY <2>2, <2>4, SeqMonotonic
  <2> QED
    BY <2>6, <2>7
<1>2. CASE m.ev = "PORT_READY"
  <2>1. m.id \in HostPorts
    BY <1>2, Letters DEF Events
  <2>2. reply = << PortName(m.id), PortOpen(m.id, TRUE) >>
    BY <1>2 DEF Answer
  <2>3. PortName(m.id) \in Letter /\ PortOpen(m.id, TRUE) \in Letter
    BY <2>1, Letters
  <2>4. PortName(m.id).id = m.id /\ PortOpen(m.id, TRUE).id = m.id
    BY DEF PortName, PortOpen, Message
  <2>5. PICK a \in Letter, b \in Letter : a = PortName(m.id) /\ b = PortOpen(m.id, TRUE)
    BY <2>3
  <2>6. reply = << a, b >> /\ a.id = m.id /\ b.id = m.id
    BY <2>2, <2>4, <2>5
  <2>7. << a, b >> \in Seq(Letter) /\ Len(<< a, b >>) = 2
    OBVIOUS
  <2>8. << a, b >>[1] = a /\ << a, b >>[2] = b
    OBVIOUS
  <2>9. \A i \in 1 .. 2 : << a, b >>[i] = a \/ << a, b >>[i] = b
    BY <2>8
  <2> QED
    BY <1>2, <2>6, <2>7, <2>9
<1>3. CASE m.ev # "DEVICE_READY" /\ m.ev # "PORT_READY"
  BY <1>3 DEF Answer
<1> QED
  BY <1>1, <1>2, <1>3

\* console_send_control_message writes one message, and keeps the last ones in their places.
LEMMA SayKeeps ==
  ASSUME TypeOK, Saying, NEW m \in Letter, Say(m)
  PROVE  /\ outq' \in [Port -> Queue(Buffer)] /\ outUsed' \in [Port -> 0 .. BufLen]
         /\ outPage' \in [0 .. BufLen - 1 -> Letter] /\ sent' \in Seq(Letter)
         /\ Saying'
         /\ \A i \in 0 .. BufLen - 1 : outPage'[i] \in {outPage[i], m}
<1>1. PICK q \in Queue(Buffer) : q = outq[Ctl]
  BY PortsAre DEF TypeOK
<1>2. PICK used \in 0 .. BufLen : used = outUsed[Ctl]
  BY PortsAre DEF TypeOK
<1>3. PICK off : off = OutOffset(used)
  OBVIOUS
<1>4. PICK r : r = Post(q, Buf(off, 1, NoMessage))
  OBVIOUS
<1>5. outPage \in [0 .. BufLen - 1 -> Letter] /\ sent \in Seq(Letter)
      /\ outq \in [Port -> Queue(Buffer)] /\ outUsed \in [Port -> 0 .. BufLen] /\ Ctl \in Port
  BY PortsAre DEF TypeOK
<1>6. Told(q, used, outPage, sent)
  BY <1>1, <1>2 DEF Saying
<1>7. /\ off \in 0 .. BufLen - 1 /\ r \in Queue(Buffer)
      /\ Told(r, off + 1, [outPage EXCEPT ![off] = m], Append(sent, m))
  BY <1>3, <1>4, <1>5, <1>6, TellOne
<1>8. /\ outq' = [outq EXCEPT ![Ctl] = r] /\ outUsed' = [outUsed EXCEPT ![Ctl] = off + 1]
      /\ outPage' = [outPage EXCEPT ![off] = m] /\ sent' = Append(sent, m)
  BY <1>1, <1>2, <1>3, <1>4 DEF Say
<1>9. off + 1 \in 0 .. BufLen
  BY <1>7, Lengths
<1>10. outq'[Ctl] = r /\ outUsed'[Ctl] = off + 1
  BY <1>5, <1>8
<1>11. Saying'
  BY <1>7, <1>8, <1>10 DEF Saying
<1>12. /\ outq' \in [Port -> Queue(Buffer)] /\ outUsed' \in [Port -> 0 .. BufLen]
       /\ outPage' \in [0 .. BufLen - 1 -> Letter] /\ sent' \in Seq(Letter)
       /\ \A i \in 0 .. BufLen - 1 : outPage'[i] \in {outPage[i], m}
  BY <1>5, <1>7, <1>8, <1>9
<1> QED
  BY <1>11, <1>12

\* The handler takes a message: types, and the input queues in step.
LEMMA TypeReceive ==
  ASSUME TypeOK, InputInStep, NEW p \in InPorts, Receive(p),
         pc' \in {"off", "ports", "data", "control", "act"}
  PROVE  TypeOK' /\ InputInStep'
<1>1. PICK r \in Queue(Buffer), new \in 0 .. BufLen - 1, s \in Slot, len \in Nat :
        /\ len \in 0 .. BufLen - inUsed[p]
        /\ inq' = [inq EXCEPT ![p] = r] /\ inUsed' = [inUsed EXCEPT ![p] = new]
        /\ InStep(r, new) /\ inq[p].desc[s].buf.m \in Letter
        /\ msg' = InHand(p, inUsed[p], len, inq[p].desc[s].buf.m)
  <2>1. PICK r \in Queue(Buffer), new \in 0 .. BufLen - 1, s \in Slot : Drawn(p, r, new, s)
    BY ReceiveOne
  <2>2. PICK len : len = inq[p].used[s].len
    OBVIOUS
  <2>3. len \in 0 .. BufLen - inUsed[p]
    BY <2>1, <2>2, Zenon DEF Drawn
  <2>4. len \in Nat
    BY <2>3, Lengths, PortsUp
  <2> QED
    BY <2>1, <2>2, <2>3, <2>4, Zenon DEF Drawn
<1>2. /\ outq' = outq /\ outUsed' = outUsed /\ outPage' = outPage /\ ports' = ports /\ regs' = regs
      /\ isr' = isr /\ raised' = raised /\ it' = it /\ toSend' = toSend /\ closes' = closes
      /\ sent' = sent /\ halted' = halted /\ surprised' = surprised /\ torn' = torn
  BY DEF Receive
<1>3. InPorts' = InPorts
  BY <1>2 DEF InPorts
<1>4. /\ p \in Port /\ inq \in [Port -> Queue(Buffer)] /\ inUsed \in [Port -> 0 .. BufLen - 1]
      /\ inUsed[p] \in 0 .. BufLen - 1
  BY PortsUp DEF TypeOK
<1>5. inq' \in [Port -> Queue(Buffer)] /\ inUsed' \in [Port -> 0 .. BufLen - 1]
  BY <1>1, <1>4
<1>6. len \in 0 .. BufLen
  BY <1>1, <1>4, Lengths
<1>7. msg' \in [port : InPorts, off : 0 .. BufLen - 1, len : 0 .. BufLen, m : Letter]
  BY <1>1, <1>4, <1>6 DEF InHand
<1>8. TypeOK'
  BY <1>2, <1>3, <1>5, <1>7 DEF TypeOK
<1>9. ASSUME NEW k \in InPorts PROVE InStep(inq'[k], inUsed'[k])
  <2>1. k \in Port
    BY PortsUp
  <2>2. CASE k = p
    BY <1>1, <1>4, <2>2
  <2>3. CASE k # p
    BY <1>1, <1>4, <2>1, <2>3 DEF InputInStep
  <2> QED
    BY <2>2, <2>3
<1>10. \A k \in Port \ InPorts : inUsed'[k] = 0
  BY <1>1, <1>4 DEF InputInStep
<1> QED
  BY <1>3, <1>8, <1>9, <1>10 DEF InputInStep

\* The device delivers one.
LEMMA TypeDeliver ==
  ASSUME TypeOK, InputInStep, NEW p \in InPorts, NEW len \in Nat, NEW m \in Letter,
         Deliver(p, len, m), toSend' \in Seq(Letter), UNCHANGED << closes, surprised >>
  PROVE  TypeOK' /\ InputInStep'
<1>1. PICK r \in Queue(Buffer) :
        /\ inq' = [inq EXCEPT ![p] = r] /\ InStep(r, inUsed[p])
        /\ torn' = TRUE \/ torn' = torn
  <2>1. PICK r \in Queue(Buffer), n \in 0 .. BufLen - inUsed[p] : Filling(p, len, m, r, n)
    BY DeliverOne
  <2>2. torn \in BOOLEAN
    BY DEF TypeOK
  <2>3. torn' = TRUE \/ torn' = torn
    BY <2>1, <2>2 DEF Filling
  <2> QED
    BY <2>1, <2>3 DEF Filling
<1>2. /\ outq' = outq /\ outUsed' = outUsed /\ outPage' = outPage /\ ports' = ports /\ regs' = regs
      /\ isr' = TRUE /\ raised' = TRUE /\ it' = it /\ closes' = closes /\ inUsed' = inUsed /\ pc' = pc
      /\ sent' = sent /\ halted' = halted /\ surprised' = surprised /\ msg' = msg
  BY DEF Deliver, Interrupts
<1>3. InPorts' = InPorts
  BY <1>2 DEF InPorts
<1>4. p \in Port /\ inq \in [Port -> Queue(Buffer)] /\ inUsed \in [Port -> 0 .. BufLen - 1]
  BY PortsUp DEF TypeOK
<1>5. inq' \in [Port -> Queue(Buffer)]
  BY <1>1, <1>4
<1>6. torn' \in BOOLEAN
  BY <1>1 DEF TypeOK
<1>7. TypeOK'
  BY <1>2, <1>3, <1>5, <1>6 DEF TypeOK
<1>8. ASSUME NEW k \in InPorts PROVE InStep(inq'[k], inUsed'[k])
  <2>1. k \in Port
    BY PortsUp
  <2>2. CASE k = p
    BY <1>1, <1>2, <1>4, <2>2
  <2>3. CASE k # p
    BY <1>1, <1>2, <1>4, <2>1, <2>3 DEF InputInStep
  <2> QED
    BY <2>2, <2>3
<1>9. \A k \in Port \ InPorts : inUsed'[k] = 0
  BY <1>2 DEF InputInStep
<1> QED
  BY <1>3, <1>7, <1>8, <1>9 DEF InputInStep

\* A port is added.
LEMMA TypeAddPort ==
  ASSUME TypeOK, InputInStep, Saying, AddPort
  PROVE  TypeOK' /\ InputInStep'
<1>1. PICK p \in Port : p = Len(ports) + 1
  BY DEF AddPort
<1>2. PICK id \in HostPorts : id = msg.m.id
  <2>1. msg.m \in Letter /\ msg.m.ev = "DEVICE_ADD"
    BY DEF TypeOK, AddPort
  <2>2. msg.m.id \in HostPorts
    BY <2>1, Letters DEF Events
  <2> QED
    BY <2>2
<1>3. /\ ports' = Append(ports, [id |-> id, open |-> FALSE])
      /\ inq' = [inq EXCEPT ![p] = FreshIn] /\ regs' = [regs EXCEPT ![Pair(id)] = p]
      /\ Say(PortReady(id)) /\ pc' = "control" /\ msg' = Nothing
      /\ isr' = isr /\ raised' = raised /\ it' = it /\ toSend' = toSend /\ closes' = closes
      /\ inUsed' = inUsed /\ halted' = halted /\ surprised' = surprised /\ torn' = torn
  BY <1>1, <1>2 DEF AddPort, Handled
<1>4. /\ outq' \in [Port -> Queue(Buffer)] /\ outUsed' \in [Port -> 0 .. BufLen]
      /\ outPage' \in [0 .. BufLen - 1 -> Letter] /\ sent' \in Seq(Letter)
  <2>1. PortReady(id) \in Letter
    BY Letters
  <2> QED
    BY <1>3, <2>1, SayKeeps
<1>5. /\ ports' \in Seq([id : HostPorts \cup {0}, open : BOOLEAN]) /\ Len(ports') = p
      /\ Len(ports) \in Nat \ {0} /\ p \in Nat \ {0}
  BY <1>1, <1>3, PortsUp, SMTT(30) DEF TypeOK
<1>6. InPorts' = InPorts \cup {p} /\ p \in Port \ InPorts /\ Ctl \in InPorts
  BY <1>1, <1>5 DEF InPorts, Ctl
<1>7. inq' \in [Port -> Queue(Buffer)]
  BY <1>3, FreshInStep DEF TypeOK
<1>8. regs' \in [Pairs -> InPorts' \cup {NoPort}] /\ regs'[1] # NoPort
  BY <1>1, <1>3, <1>5, <1>6, PortsAre, SMTT(30) DEF TypeOK, NoPort
<1>9. Len(ports') \in Port \ {Ctl} /\ it' \in 1 .. Len(ports')
  BY <1>1, <1>3, <1>5 DEF TypeOK, Ctl
<1>10. msg' \in [port : InPorts', off : 0 .. BufLen - 1, len : 0 .. BufLen, m : Letter]
  BY <1>3, <1>6, Letters, Lengths DEF Nothing, InHand
<1>11. TypeOK'
  BY <1>3, <1>4, <1>5, <1>7, <1>8, <1>9, <1>10 DEF TypeOK
<1>12. ASSUME NEW k \in InPorts' PROVE InStep(inq'[k], inUsed'[k])
  <2>1. CASE k = p
    <3>1. inUsed[p] = 0
      BY <1>6 DEF InputInStep
    <3>2. inq'[p] = FreshIn
      BY <1>3 DEF TypeOK
    <3> QED
      BY <1>3, <2>1, <3>1, <3>2, FreshInStep
  <2>2. CASE k # p
    <3>1. k \in InPorts /\ k \in Port
      BY <1>6, <1>12, <2>2, PortsUp
    <3>2. inq'[k] = inq[k]
      BY <1>3, <2>2, <3>1 DEF TypeOK
    <3> QED
      BY <1>3, <3>1, <3>2 DEF InputInStep
  <2> QED
    BY <2>1, <2>2
<1>13. \A k \in Port \ InPorts' : inUsed'[k] = 0
  BY <1>3, <1>6 DEF InputInStep
<1> QED
  BY <1>11, <1>12, <1>13 DEF InputInStep

\* The other steps leave the input queues and the ids of the ports alone.
LEMMA TypeOthers ==
  ASSUME TypeOK, InputInStep, Saying,
         \/ Enter \/ DataDone \/ PortDrained \/ ControlDrained \/ NamePort \/ OpenPort
         \/ DeviceReads \/ HostCloses
  PROVE  /\ TypeOK' /\ inq' = inq /\ inUsed' = inUsed /\ InPorts' = InPorts /\ Len(ports') = Len(ports)
         /\ \A k \in 1 .. Len(ports) : ports'[k].id = ports[k].id
<1> DEFINE Kept == inq' = inq /\ inUsed' = inUsed /\ InPorts' = InPorts /\ Len(ports') = Len(ports)
                   /\ \A k \in 1 .. Len(ports) : ports'[k].id = ports[k].id
<1>1. /\ Len(ports) \in Nat \ {0} /\ 1 \in 1 .. Len(ports) /\ Nothing.port = Ctl /\ Ctl \in InPorts
      /\ Nothing \in [port : InPorts, off : 0 .. BufLen - 1, len : 0 .. BufLen, m : Letter]
  BY PortsUp, Letters, Lengths DEF Nothing, InHand
<1>2. CASE Enter
  BY <1>1, <1>2 DEF Enter, driver, TypeOK, InPorts
<1>3. CASE DataDone
  BY <1>1, <1>3 DEF DataDone, driver, TypeOK, InPorts
<1>4. CASE PortDrained
  BY <1>1, <1>4 DEF PortDrained, driver, TypeOK, InPorts
<1>5. CASE ControlDrained
  <2>1. it' \in 1 .. Len(ports) /\ pc' \in {"off", "ports", "data", "control", "act"}
    BY <1>1, <1>5 DEF ControlDrained, TypeOK
  <2> QED
    BY <1>1, <1>5, <2>1 DEF ControlDrained, driver, TypeOK, InPorts
<1>6. CASE NamePort
  <2>1. halted' \in BOOLEAN
    BY <1>6 DEF NamePort, Known
  <2> QED
    BY <1>1, <1>6, <2>1 DEF NamePort, Handled, driver, TypeOK, InPorts
<1>7. CASE OpenPort
  <2>1. CASE Known(msg.m.id)
    <3>1. PICK m \in Letter : m = msg.m /\ m.ev = "PORT_OPEN"
      BY <1>7 DEF OpenPort, TypeOK
    <3>2. m.id \in HostPorts /\ m.val \in BOOLEAN
      BY <3>1, Letters DEF Events
    <3>3. PICK f : f = Find(m.id)
      OBVIOUS
    <3>4. /\ ports' = [ports EXCEPT ![f].open = m.val] /\ Say(PortOpen(m.id, TRUE))
          /\ inq' = inq /\ inUsed' = inUsed /\ regs' = regs /\ halted' = halted
          /\ pc' = "control" /\ msg' = Nothing /\ isr' = isr /\ raised' = raised /\ it' = it
          /\ toSend' = toSend /\ closes' = closes /\ surprised' = surprised /\ torn' = torn
      BY <1>7, <2>1, <3>1, <3>3 DEF OpenPort, Handled, driver
    <3>5. PortOpen(m.id, TRUE) \in Letter
      BY <3>2, Letters
    <3>6. /\ outq' \in [Port -> Queue(Buffer)] /\ outUsed' \in [Port -> 0 .. BufLen]
          /\ outPage' \in [0 .. BufLen - 1 -> Letter] /\ sent' \in Seq(Letter)
      BY <3>4, <3>5, SayKeeps
    <3>7. /\ ports' \in Seq([id : HostPorts \cup {0}, open : BOOLEAN]) /\ Len(ports') = Len(ports)
          /\ \A k \in 1 .. Len(ports) : ports'[k].id = ports[k].id
      <4>1. PICK R : R = [id : HostPorts \cup {0}, open : BOOLEAN]
        OBVIOUS
      <4>2. PICK n \in Nat : n = Len(ports)
        BY <1>1
      <4>3. ports \in Seq(R) /\ ports \in [1 .. n -> R]
        BY <4>1, <4>2, LenProperties DEF TypeOK
      <4>4. \A k \in 1 .. n : /\ [ports[k] EXCEPT !.open = m.val] \in R
                              /\ [ports[k] EXCEPT !.open = m.val].id = ports[k].id
        BY <3>2, <4>1, <4>3
      <4>5. ports' \in [1 .. n -> R] /\ \A k \in 1 .. n : ports'[k].id = ports[k].id
        BY <3>4, <4>3, <4>4
      <4>6. ports' \in Seq(R)
        BY <4>5, SeqDef
      <4>7. Len(ports') \in Nat /\ 1 .. Len(ports') = 1 .. n
        BY <4>5, <4>6, LenProperties
      <4>8. Len(ports') = n
        BY <4>7
      <4> QED
        BY <4>1, <4>2, <4>5, <4>6, <4>8
    <3>8. InPorts' = InPorts
      BY <3>7 DEF InPorts
    <3> QED
      BY <1>1, <3>4, <3>6, <3>7, <3>8 DEF TypeOK
  <2>2. CASE ~Known(msg.m.id)
    <3>1. halted' = TRUE /\ Handled /\ UNCHANGED << driver, sent >>
      BY <1>7, <2>2 DEF OpenPort
    <3> QED
      BY <1>1, <3>1 DEF Handled, driver, TypeOK, InPorts
  <2> QED
    BY <2>1, <2>2
<1>8. CASE DeviceReads
  <2>1. PICK q \in Queue(Buffer) : q = outq[Ctl]
    BY PortsAre DEF TypeOK
  <2>2. PICK m \in Letter : m = Heard(0)
    <3>1. Offer(q, 0) \in Slot
      <4>1. q.taken + 0 \in Int /\ q.ring \in [Slot -> Slot]
        BY Sizes DEF Queue, Index
      <4> QED
        BY <4>1, Residue DEF Offer
    <3>2. q.desc[Offer(q, 0)].buf.off \in 0 .. BufLen - 1
      BY <3>1 DEF Queue, Descriptor, Buffer
    <3> QED
      BY <2>1, <3>2 DEF Heard, TypeOK
  <2>3. PICK reply : reply = Answer(m)
    OBVIOUS
  <2>4. reply \in Seq(Letter)
    BY <2>3, Answers
  <2>5. toSend' = toSend \o reply
    BY <1>8, <2>2, <2>3 DEF DeviceReads
  <2>6. toSend' \in Seq(Letter)
    BY <2>4, <2>5 DEF TypeOK
  <2>7. Take(q) \in Queue(Buffer) /\ sent' \in Seq(Letter)
    <3>1. /\ Told(q, outUsed[Ctl], outPage, sent) /\ Offered(q) > 0
          /\ sent \in Seq(Letter) /\ sent' = Tail(sent)
      BY <1>8, <2>1 DEF Saying, DeviceReads, TypeOK
    <3>2. sent # << >> /\ Take(q) \in Queue(Buffer)
      BY <3>1, TakeOne
    <3> QED
      BY <3>1, <3>2
  <2>8. outq' \in [Port -> Queue(Buffer)]
    BY <1>8, <2>1, <2>7 DEF DeviceReads, TypeOK
  <2> QED
    BY <1>1, <1>8, <2>6, <2>7, <2>8 DEF DeviceReads, TypeOK, InPorts
<1>9. CASE HostCloses
  <2>1. PICK id \in HostPorts : /\ toSend' = Append(toSend, PortOpen(id, FALSE))
                                /\ surprised' = (surprised \/ ~Known(id))
    BY <1>9 DEF HostCloses
  <2>2. PICK m \in Letter : m = PortOpen(id, FALSE)
    BY Letters
  <2>3. toSend' \in Seq(Letter) /\ surprised' \in BOOLEAN /\ closes' \in Nat
    <3>1. toSend' \in Seq(Letter)
      <4>1. toSend \in Seq(Letter) /\ toSend' = Append(toSend, m)
        BY <2>1, <2>2 DEF TypeOK
      <4> QED
        BY <4>1, AppendProperties
    <3>2. surprised' \in BOOLEAN
      BY <2>1 DEF TypeOK, Known
    <3>3. closes' \in Nat
      BY <1>9 DEF TypeOK, HostCloses
    <3> QED
      BY <3>1, <3>2, <3>3
  <2> QED
    BY <1>1, <1>9, <2>3 DEF HostCloses, driver, TypeOK, InPorts
<1> QED
  BY <1>2, <1>3, <1>4, <1>5, <1>6, <1>7, <1>8, <1>9

\* The device delivers data, or the first of the control messages it has to send.
LEMMA DeliverCases ==
  ASSUME TypeOK, DeviceData \/ (DeviceControl /\ inq' # inq)
  PROVE  \E p \in InPorts, len \in Nat, m \in Letter :
           /\ Deliver(p, len, m) /\ toSend' \in Seq(Letter) /\ UNCHANGED << closes, surprised >>
           /\ len \in Lens \/ len \in {1, 2}
           /\ \/ toSend' = toSend /\ m = NoMessage
              \/ toSend # << >> /\ m = Head(toSend) /\ toSend' = Tail(toSend)
<1>1. CASE DeviceData
  <2>1. PICK id \in HostPorts, len \in Lens :
          /\ regs[Pair(id)] # NoPort /\ Deliver(regs[Pair(id)], len, NoMessage)
    BY <1>1 DEF DeviceData
  <2>2. PICK p \in InPorts : p = regs[Pair(id)]
    BY <2>1, PortsAre DEF TypeOK
  <2>3. len \in Nat /\ NoMessage \in Letter
    BY Lengths, Letters
  <2>4. toSend' = toSend /\ toSend' \in Seq(Letter) /\ UNCHANGED << closes, surprised >>
    BY <1>1 DEF DeviceData, TypeOK
  <2> QED
    BY <2>1, <2>2, <2>3, <2>4, Zenon
<1>2. CASE DeviceControl /\ inq' # inq
  <2>1. PICK m \in Letter : m = Head(toSend)
    BY <1>2 DEF DeviceControl, TypeOK
  <2>2. Deliver(regs[1], UnitsOf(m), m) /\ toSend # << >> /\ toSend' = Tail(toSend)
    BY <1>2, <2>1 DEF DeviceControl, driver
  <2>3. PICK p \in InPorts : p = regs[1]
    BY PortsAre DEF TypeOK, Pairs
  <2>4. PICK len \in Nat : len = UnitsOf(m) /\ len \in {1, 2}
    BY DEF UnitsOf
  <2>5. toSend' \in Seq(Letter) /\ UNCHANGED << closes, surprised >>
    BY <1>2, <2>2 DEF DeviceControl, TypeOK
  <2> QED
    BY <2>1, <2>2, <2>3, <2>4, <2>5, Zenon
<1> QED
  BY <1>1, <1>2

\* A message that nobody has a buffer for.
LEMMA DropIs ==
  ASSUME TypeOK, DeviceControl, inq' = inq
  PROVE  /\ UNCHANGED << driver, isr, raised, pc, it, msg, sent, halted, torn, closes, surprised >>
         /\ toSend # << >> /\ toSend' = Tail(toSend) /\ toSend' \in Seq(Letter)
<1>1. /\ toSend # << >> /\ toSend' = Tail(toSend) /\ toSend' \in Seq(Letter)
      /\ UNCHANGED << closes, surprised >>
  BY DEF DeviceControl, TypeOK
<1>2. ~Deliver(regs[1], UnitsOf(Head(toSend)), Head(toSend))
  <2> SUFFICES ASSUME Deliver(regs[1], UnitsOf(Head(toSend)), Head(toSend)) PROVE FALSE
    OBVIOUS
  <2>1. PICK q \in Queue(Buffer) : q = inq[regs[1]] /\ regs[1] \in Port
    BY PortsUp, PortsAre DEF TypeOK, Pairs
  <2>2. inq'[regs[1]].usedIdx = (q.usedIdx + 1) % Mod
    <3>1. PICK m : m = Head(toSend)
      OBVIOUS
    <3>2. PICK id : id = Offer(q, 0)
      OBVIOUS
    <3>3. PICK n :
            inq' = [inq EXCEPT ![regs[1]] = Complete(Take([q EXCEPT !.desc[id].buf.m = m]), id, n)]
      BY <2>1, <3>1, <3>2 DEF Deliver
    <3>4. PICK d : d = [q.desc EXCEPT ![id].buf.m = m]
      OBVIOUS
    <3>5. [q EXCEPT !.desc[id].buf.m = m] = [q EXCEPT !.desc = d]
      BY <3>4 DEF Queue
    <3>6. PICK t : t = Take([q EXCEPT !.desc = d])
      OBVIOUS
    <3>7. t.usedIdx = q.usedIdx /\ t = [q EXCEPT !.desc = d, !.taken = (q.taken + 1) % Mod]
      BY <3>6 DEF Take, Queue
    <3>8. Complete(t, id, n).usedIdx = (q.usedIdx + 1) % Mod
      BY <3>7 DEF Complete, Queue
    <3> QED
      BY <2>1, <3>3, <3>5, <3>6, <3>8 DEF TypeOK
  <2>3. (q.usedIdx + 1) % Mod # q.usedIdx
    BY OneOn DEF Queue
  <2> QED
    BY <2>1, <2>2, <2>3
<1> QED
  BY <1>1, <1>2 DEF DeviceControl

\* No step disturbs the messages on their way to the device.
LEMMA SayingNext ==
  ASSUME TypeOK, Saying, [Next]_vars
  PROVE  Saying'
<1>1. CASE UNCHANGED << outq, outUsed, outPage, sent >>
  BY <1>1 DEF Saying
<1>2. CASE AddPort \/ OpenPort
  <2>1. CASE UNCHANGED << outq, outUsed, outPage, sent >>
    BY <2>1, <1>1
  <2>2. CASE ~UNCHANGED << outq, outUsed, outPage, sent >>
    <3>1. PICK m : Say(m) /\ (m = PortReady(msg.m.id) \/ m = PortOpen(msg.m.id, TRUE))
      BY <1>2, <2>2 DEF AddPort, OpenPort, driver
    <3>2. msg.m.id \in HostPorts
      BY <1>2, Letters DEF AddPort, OpenPort, TypeOK, Events
    <3>3. m \in Letter
      BY <3>1, <3>2, Letters
    <3> QED
      BY <3>1, <3>3, SayKeeps
  <2> QED
    BY <2>1, <2>2
<1>3. CASE DeviceReads
  <2>1. PICK q \in Queue(Buffer) : q = outq[Ctl]
    BY PortsAre DEF TypeOK
  <2>2. Told(q, outUsed[Ctl], outPage, sent) /\ Offered(q) > 0 /\ sent \in Seq(Letter)
    BY <1>3, <2>1 DEF Saying, DeviceReads, TypeOK
  <2>3. Told(Take(q), outUsed[Ctl], outPage, Tail(sent))
    BY <2>2, TakeOne
  <2>4. outq'[Ctl] = Take(q) /\ outUsed' = outUsed /\ outPage' = outPage /\ sent' = Tail(sent)
    BY <1>3, <2>1, PortsAre DEF DeviceReads, TypeOK
  <2> QED
    BY <2>3, <2>4 DEF Saying
<1>4. CASE \/ Enter \/ ReceiveData \/ ReceiveControl \/ DataDone \/ PortDrained \/ ControlDrained
           \/ NamePort \/ DeviceData \/ DeviceControl \/ HostCloses \/ UNCHANGED vars
  BY <1>1, <1>4 DEF Enter, ReceiveData, ReceiveControl, Receive, DataDone, PortDrained, ControlDrained,
     NamePort, DeviceData, DeviceControl, Deliver, HostCloses, vars, driver
<1> QED
  BY <1>2, <1>3, <1>4 DEF Next, Handler, Device

\* Every step keeps the types, and the input queues in step.
LEMMA TypeNext ==
  ASSUME TypeOK, InputInStep, Saying, [Next]_vars
  PROVE  TypeOK' /\ InputInStep'
<1>1. CASE ReceiveData \/ ReceiveControl
  <2>1. CASE ReceiveData
    BY <2>1, TypeReceive, PortsUp DEF ReceiveData
  <2>2. CASE ReceiveControl
    BY <2>2, TypeReceive, PortsUp DEF ReceiveControl
  <2> QED
    BY <1>1, <2>1, <2>2
<1>2. CASE AddPort
  BY <1>2, TypeAddPort
<1>3. CASE DeviceData \/ (DeviceControl /\ inq' # inq)
  BY <1>3, DeliverCases, TypeDeliver
<1>4. CASE DeviceControl /\ inq' = inq
  BY <1>4, DropIs DEF TypeOK, InputInStep, InPorts, driver
<1>5. CASE \/ Enter \/ DataDone \/ PortDrained \/ ControlDrained \/ NamePort \/ OpenPort
           \/ DeviceReads \/ HostCloses
  BY <1>5, TypeOthers DEF InputInStep
<1>6. CASE UNCHANGED vars
  BY <1>6 DEF vars, TypeOK, InputInStep, InPorts
<1> QED
  BY <1>1, <1>2, <1>3, <1>4, <1>5, <1>6 DEF Next, Handler, Device

-----------------------------------------------------------------------------
(* What the handler has yet to see *)

\* Every step keeps what is delivered from being forgotten: the device interrupts, Enter
\* begins with the first port, and the handler leaves a queue only when there is nothing in it.
LEMMA ForgottenNext ==
  ASSUME TypeOK, InputInStep, Saying, raised = isr, NothingForgotten, [Next]_vars
  PROVE  NothingForgotten' /\ raised' = isr'
<1>1. /\ Len(ports) \in Nat \ {0} /\ it \in 1 .. Len(ports) /\ Ctl = 0
      /\ InPorts = {0} \cup 1 .. Len(ports)
  BY PortsUp DEF TypeOK, Ctl, InPorts
<1>2. CASE Enter
  <2>1. raised' = FALSE /\ isr' = FALSE /\ pc' = "ports" /\ it' = 1 /\ InPorts' = InPorts
    BY <1>2 DEF Enter, driver, InPorts
  <2>2. \A p \in InPorts : WillDrain(p)'
    BY <1>1, <2>1 DEF WillDrain, Ctl
  <2> QED
    BY <2>1, <2>2 DEF NothingForgotten
<1>3. CASE ReceiveData \/ ReceiveControl
  <2>1. PICK q \in InPorts : /\ Receive(q)
                             /\ \/ q = it /\ pc = "ports" /\ pc' = "data"
                                \/ q = Ctl /\ pc = "control" /\ pc' = "act"
    BY <1>1, <1>3 DEF ReceiveData, ReceiveControl, At, Ctl
  <2>2. PICK r \in Queue(Buffer), new \in 0 .. BufLen - 1, s \in Slot : Drawn(q, r, new, s)
    BY <2>1, ReceiveOne
  <2>3. /\ inq' = [inq EXCEPT ![q] = r] /\ r.usedIdx = r.seen
        /\ it' = it /\ halted' = halted /\ raised' = raised /\ isr' = isr /\ InPorts' = InPorts
    BY <2>1, <2>2 DEF Drawn, Receive, InPorts
  <2>4. ASSUME NEW p \in InPorts, inq'[p].usedIdx # inq'[p].seen
        PROVE  halted' \/ (raised' /\ isr') \/ WillDrain(p)' \/ inq'[p].usedIdx = 0
    <3>1. p # q /\ inq'[p] = inq[p]
      BY <2>3, <2>4, PortsUp DEF TypeOK
    <3>2. halted \/ (raised /\ isr) \/ WillDrain(p) \/ inq[p].usedIdx = 0
      BY <2>4, <3>1 DEF NothingForgotten
    <3>3. WillDrain(p) => WillDrain(p)'
      BY <2>1, <2>3, <3>1 DEF WillDrain
    <3> QED
      BY <2>3, <3>1, <3>2, <3>3
  <2> QED
    BY <2>3, <2>4 DEF NothingForgotten
<1>4. CASE DataDone
  <2>1. /\ pc = "data" /\ pc' = "ports" /\ it' = it /\ inq' = inq /\ InPorts' = InPorts
        /\ halted' = halted /\ raised' = raised /\ isr' = isr
    BY <1>4 DEF DataDone, At, driver, InPorts
  <2>2. \A p \in InPorts : WillDrain(p) => WillDrain(p)'
    BY <2>1 DEF WillDrain
  <2> QED
    BY <2>1, <2>2 DEF NothingForgotten
<1>5. CASE PortDrained \/ ControlDrained
  <2>1. PICK q \in InPorts : /\ NumHeads(inq[q]) = 0
                             /\ \/ q = it /\ PortDrained
                                \/ q = Ctl /\ ControlDrained
    BY <1>1, <1>5 DEF PortDrained, ControlDrained, Ctl
  <2>2. /\ inq' = inq /\ InPorts' = InPorts
        /\ halted' = halted /\ raised' = raised /\ isr' = isr
    BY <1>5 DEF PortDrained, ControlDrained, driver, InPorts
  <2>3. inq[q].usedIdx # inq[q].seen => inq[q].usedIdx = 0
    BY <2>1, Heads, PortsUp DEF InputInStep
  <2>4. ASSUME NEW p \in InPorts, p # q, WillDrain(p) PROVE WillDrain(p)'
    <3>1. CASE PortDrained
      BY <1>1, <2>1, <2>4, <3>1 DEF PortDrained, At, WillDrain, ControlDrained, Ctl
    <3>2. CASE ControlDrained
      <4>1. p # 0 /\ it < p /\ p \in 1 .. Len(ports)
        BY <1>1, <2>1, <2>4, <3>2 DEF PortDrained, ControlDrained, At, WillDrain, Ctl
      <4>2. it < Len(ports)
        BY <1>1, <4>1
      <4>3. it' = it + 1 /\ pc' = "ports"
        BY <3>2, <4>2 DEF ControlDrained
      <4> QED
        BY <1>1, <4>1, <4>3 DEF WillDrain
    <3> QED
      BY <1>5, <3>1, <3>2
  <2> QED
    BY <2>2, <2>3, <2>4 DEF NothingForgotten
<1>6. CASE AddPort
  <2>1. PICK q \in Nat : q = Len(ports) + 1 /\ q \in Port
    BY <1>1, <1>6 DEF AddPort
  <2>2. /\ inq' = [inq EXCEPT ![q] = FreshIn] /\ Len(ports') = q /\ pc = "act" /\ pc' = "control"
        /\ it' = it /\ halted' = halted /\ raised' = raised /\ isr' = isr
    BY <1>1, <1>6, <2>1 DEF AddPort, Handled, At, TypeOK
  <2>3. InPorts' = InPorts \cup {q}
    BY <1>1, <2>1, <2>2 DEF InPorts, Ctl
  <2>4. ASSUME NEW p \in InPorts', inq'[p].usedIdx # inq'[p].seen
        PROVE  halted' \/ (raised' /\ isr') \/ WillDrain(p)' \/ inq'[p].usedIdx = 0
    <3>1. p # q
      BY <2>1, <2>2, <2>4, FreshInStep DEF TypeOK
    <3>2. p \in InPorts /\ inq'[p] = inq[p]
      BY <2>2, <2>3, <3>1, PortsUp DEF TypeOK
    <3>3. halted \/ (raised /\ isr) \/ WillDrain(p) \/ inq[p].usedIdx = 0
      BY <2>4, <3>2 DEF NothingForgotten
    <3>4. WillDrain(p) => WillDrain(p)'
      BY <2>2 DEF WillDrain
    <3> QED
      BY <2>2, <3>2, <3>3, <3>4
  <2> QED
    BY <2>2, <2>4 DEF NothingForgotten
<1>7. CASE NamePort \/ OpenPort
  <2>1. /\ pc = "act" /\ pc' = "control" /\ it' = it /\ ~halted /\ raised' = raised /\ isr' = isr
    BY <1>7 DEF NamePort, OpenPort, Handled, At
  <2>2. inq' = inq /\ InPorts' = InPorts
    BY <1>7, TypeOthers
  <2>3. \A p \in InPorts : WillDrain(p) => WillDrain(p)'
    BY <2>1 DEF WillDrain
  <2> QED
    BY <2>1, <2>2, <2>3 DEF NothingForgotten
<1>8. CASE DeviceData \/ (DeviceControl /\ inq' # inq)
  <2>1. raised' = TRUE /\ isr' = TRUE
    BY <1>8, DeliverCases DEF Deliver, Interrupts
  <2> QED
    BY <2>1 DEF NothingForgotten
<1>9. CASE (DeviceControl /\ inq' = inq) \/ DeviceReads \/ HostCloses \/ UNCHANGED vars
  <2>1. /\ inq' = inq /\ InPorts' = InPorts /\ pc' = pc /\ it' = it
        /\ halted' = halted /\ raised' = raised /\ isr' = isr
    BY <1>9, DropIs DEF DeviceReads, HostCloses, vars, driver, InPorts
  <2>2. \A p \in InPorts : WillDrain(p) => WillDrain(p)'
    BY <2>1 DEF WillDrain
  <2> QED
    BY <2>1, <2>2 DEF NothingForgotten
<1> QED
  BY <1>2, <1>3, <1>4, <1>5, <1>6, <1>7, <1>8, <1>9 DEF Next, Handler, Device

-----------------------------------------------------------------------------
(* Who is spoken of *)

\* A port once known stays known.
LEMMA KnownStays ==
  ASSUME TypeOK, InputInStep, Saying, [Next]_vars, NEW id, Known(id)
  PROVE  Known(id)'
<1>1. PICK k \in 1 .. Len(ports) : ports[k].id = id
  BY DEF Known
<1>2. CASE AddPort
  <2>1. PICK x : ports' = Append(ports, x)
    BY <1>2 DEF AddPort
  <2>2. ports \in Seq([id : HostPorts \cup {0}, open : BOOLEAN]) /\ Len(ports) \in Nat
    BY PortsUp DEF TypeOK
  <2>3. Len(ports') = Len(ports) + 1 /\ ports'[k] = ports[k]
    BY <2>1, <2>2
  <2>4. k \in 1 .. Len(ports')
    BY <2>2, <2>3
  <2> QED
    BY <1>1, <2>3, <2>4 DEF Known
<1>3. CASE ports' = ports
  BY <1>1, <1>3 DEF Known
<1>4. CASE OpenPort
  BY <1>1, <1>4, TypeOthers DEF Known
<1>5. CASE \/ Enter \/ ReceiveData \/ ReceiveControl \/ DataDone \/ PortDrained \/ ControlDrained
           \/ NamePort \/ DeviceData \/ DeviceControl \/ DeviceReads \/ HostCloses \/ UNCHANGED vars
  <2>1. ports' = ports
    BY <1>5 DEF Enter, ReceiveData, ReceiveControl, Receive, DataDone, PortDrained, ControlDrained,
     NamePort, DeviceData, DeviceControl, Deliver, DeviceReads, HostCloses, vars, driver
  <2> QED
    BY <2>1, <1>3
<1> QED
  BY <1>2, <1>4, <1>5 DEF Next, Handler, Device

\* Messages that speak of no port.
LEMMA SilentWords ==
  Spoken(NoMessage) /\ (\A m : m.ev = "DEVICE_ADD" => Spoken(m)) /\ Nothing.m = NoMessage
BY DEF Spoken, NoMessage, Message, Nothing, InHand

\* The messages that may be spoken after a step.
SpokenNext(m) == m.ev \in {"PORT_READY", "PORT_OPEN", "PORT_NAME"} =>
                   \E k \in 1 .. Len(ports') : ports'[k].id = m.id

\* Nobody comes to speak of a port that the driver does not know, but the host by surprise.
LEMMA PoliteNext ==
  ASSUME TypeOK, InputInStep, Saying, Polite, [Next]_vars
  PROVE  Polite'
<1> SUFFICES ASSUME ~surprised' PROVE Polite'
  BY DEF Polite
<1>1. ~surprised /\ (surprised' = surprised \/ HostCloses)
  BY DEF TypeOK, Next, Handler, Device, Enter, ReceiveData, ReceiveControl, Receive, DataDone,
         PortDrained, ControlDrained, AddPort, NamePort, OpenPort, Handled, DeviceData,
         DeviceControl, Deliver, DeviceReads, HostCloses, vars
<1>2. /\ \A i \in 1 .. Len(toSend) : Spoken(toSend[i])
      /\ \A p \in Port, d \in Slot : Spoken(inq[p].desc[d].buf.m)
      /\ \A i \in 0 .. BufLen - 1 : Spoken(outPage[i])
      /\ Spoken(msg.m)
  BY <1>1 DEF Polite
<1>3. ASSUME NEW m, Spoken(m) PROVE SpokenNext(m)
  BY <1>3, KnownStays DEF Spoken, SpokenNext, Known
<1> DEFINE Sent   == \A i \in 1 .. Len(toSend') : SpokenNext(toSend'[i])
           Inq    == \A p \in Port, d \in Slot : SpokenNext(inq'[p].desc[d].buf.m)
           Page   == \A i \in 0 .. BufLen - 1 : SpokenNext(outPage'[i])
<1>4. SUFFICES Sent /\ Inq /\ Page /\ SpokenNext(msg'.m)
  BY DEF Polite, Spoken, Known, SpokenNext
<1>5. /\ toSend' = toSend => Sent
      /\ inq' = inq => Inq
      /\ outPage' = outPage => Page
      /\ msg' = msg \/ msg' = Nothing => SpokenNext(msg'.m)
  BY <1>2, <1>3, SilentWords
<1>6. /\ inq \in [Port -> Queue(Buffer)] /\ toSend \in Seq(Letter) /\ Len(toSend) \in Nat
      /\ outPage \in [0 .. BufLen - 1 -> Letter] /\ SpokenNext(NoMessage)
  BY <1>3, SilentWords DEF TypeOK
<1>7. toSend # << >> /\ toSend' = Tail(toSend) => Sent
  <2> SUFFICES ASSUME toSend # << >>, toSend' = Tail(toSend), NEW i \in 1 .. Len(toSend')
               PROVE  SpokenNext(toSend'[i])
    OBVIOUS
  <2>1. i + 1 \in 1 .. Len(toSend) /\ toSend'[i] = toSend[i + 1]
    BY <1>6
  <2> QED
    BY <1>2, <1>3, <2>1
<1> HIDE DEF Sent, Inq, Page
<1>8. CASE ReceiveData \/ ReceiveControl
  <2>1. PICK q \in InPorts : Receive(q)
    BY <1>8, PortsUp DEF ReceiveData, ReceiveControl
  <2>2. PICK r \in Queue(Buffer), new \in 0 .. BufLen - 1, s \in Slot : Drawn(q, r, new, s)
    BY <2>1, ReceiveOne
  <2>3. q \in Port
    BY PortsUp
  <2>4. msg'.m = inq[q].desc[s].buf.m
    BY <2>2 DEF Drawn, InHand
  <2>5. SpokenNext(msg'.m)
    BY <1>2, <1>3, <2>3, <2>4
  <2>6. Inq
    <3> SUFFICES ASSUME NEW p \in Port, NEW d \in Slot PROVE SpokenNext(inq'[p].desc[d].buf.m)
      BY DEF Inq
    <3>1. inq'[p].desc[d].buf.m \in {inq[p].desc[d].buf.m, NoMessage}
      BY <1>6, <2>2, <2>3 DEF Drawn
    <3> QED
      BY <1>2, <1>3, <1>6, <3>1
  <2> QED
    BY <1>5, <2>1, <2>5, <2>6 DEF Receive
<1>9. CASE AddPort
  <2>1. PICK id \in HostPorts : id = msg.m.id
    BY <1>9, Letters DEF AddPort, TypeOK, Events
  <2>2. PICK k : k = Len(ports) + 1 /\ k \in Port
    BY <1>9 DEF AddPort
  <2>3. /\ ports' = Append(ports, [id |-> id, open |-> FALSE])
        /\ inq' = [inq EXCEPT ![k] = FreshIn] /\ Say(PortReady(id)) /\ msg' = Nothing /\ toSend' = toSend
    BY <1>9, <2>1, <2>2 DEF AddPort, Handled
  <2>4. PICK m \in Letter : m = PortReady(id)
    BY Letters
  <2>5. SpokenNext(m)
    <3>1. ports \in Seq([id : HostPorts \cup {0}, open : BOOLEAN]) /\ Len(ports) \in Nat
      BY PortsUp DEF TypeOK
    <3>2. Len(ports') = Len(ports) + 1 /\ ports'[Len(ports) + 1].id = id
      BY <2>3, <3>1
    <3>3. Len(ports) + 1 \in 1 .. Len(ports') /\ m.id = id
      BY <2>4, <3>1, <3>2 DEF PortReady, Message
    <3> QED
      BY <3>2, <3>3 DEF SpokenNext
  <2>6. Page
    <3>1. \A i \in 0 .. BufLen - 1 : outPage'[i] \in {outPage[i], m}
      BY <2>3, <2>4, SayKeeps
    <3> QED
      BY <1>2, <1>3, <2>5, <3>1 DEF Page
  <2>7. Inq
    <3> SUFFICES ASSUME NEW p \in Port, NEW d \in Slot PROVE SpokenNext(inq'[p].desc[d].buf.m)
      BY DEF Inq
    <3>1. inq'[p].desc[d].buf.m \in {inq[p].desc[d].buf.m, NoMessage}
      BY <1>6, <2>2, <2>3, FreshInStep
    <3> QED
      BY <1>2, <1>3, <1>6, <3>1
  <2> QED
    BY <1>5, <2>3, <2>6, <2>7
<1>10. CASE OpenPort
  <2>1. inq' = inq /\ msg' = Nothing /\ toSend' = toSend
    BY <1>10, TypeOthers DEF OpenPort, Handled
  <2>2. CASE Known(msg.m.id)
    <3>1. msg.m.id \in HostPorts /\ Say(PortOpen(msg.m.id, TRUE))
      BY <1>10, <2>2, Letters DEF OpenPort, TypeOK, Events
    <3>2. PICK m \in Letter : m = PortOpen(msg.m.id, TRUE)
      BY <3>1, Letters
    <3>3. SpokenNext(m)
      <4>1. Spoken(m)
        BY <2>2, <3>2 DEF Spoken, PortOpen, Message
      <4> QED
        BY <4>1, <1>3
    <3>4. \A i \in 0 .. BufLen - 1 : outPage'[i] \in {outPage[i], m}
      BY <3>1, <3>2, SayKeeps
    <3>5. Page
      BY <1>2, <1>3, <3>3, <3>4 DEF Page
    <3> QED
      BY <1>5, <2>1, <3>5
  <2>3. CASE ~Known(msg.m.id)
    BY <1>5, <1>10, <2>1, <2>3 DEF OpenPort, driver
  <2> QED
    BY <2>2, <2>3
<1>11. CASE DeviceData \/ (DeviceControl /\ inq' # inq)
  <2>1. PICK q \in InPorts, len \in Nat, m \in Letter :
          /\ Deliver(q, len, m)
          /\ \/ toSend' = toSend /\ m = NoMessage
             \/ toSend # << >> /\ m = Head(toSend) /\ toSend' = Tail(toSend)
    BY <1>11, DeliverCases
  <2>2. PICK r \in Queue(Buffer), n \in 0 .. BufLen - inUsed[q] : Filling(q, len, m, r, n)
    BY <2>1, DeliverOne
  <2>3. q \in Port
    BY PortsUp
  <2>4. SpokenNext(m)
    <3>1. CASE m = NoMessage
      BY <1>6, <3>1
    <3>2. CASE toSend # << >> /\ m = Head(toSend)
      <4>1. 1 \in 1 .. Len(toSend) /\ m = toSend[1]
        BY <1>6, <3>2
      <4> QED
        BY <1>2, <1>3, <4>1
    <3> QED
      BY <2>1, <3>1, <3>2
  <2>5. Inq
    <3> SUFFICES ASSUME NEW p \in Port, NEW d \in Slot PROVE SpokenNext(inq'[p].desc[d].buf.m)
      BY DEF Inq
    <3>1. inq'[p].desc[d].buf.m \in {inq[p].desc[d].buf.m, m}
      BY <1>6, <2>2, <2>3 DEF Filling
    <3> QED
      BY <1>2, <1>3, <2>4, <3>1
  <2>6. msg' = msg /\ outPage' = outPage
    BY <2>1 DEF Deliver
  <2> QED
    BY <1>5, <1>7, <2>1, <2>5, <2>6
<1>12. CASE DeviceControl /\ inq' = inq
  BY <1>5, <1>7, <1>12, DropIs DEF driver
<1>13. CASE DeviceReads
  <2>1. PICK q \in Queue(Buffer) : q = outq[Ctl]
    BY PortsAre DEF TypeOK
  <2>2. PICK i \in 0 .. BufLen - 1 : Heard(0) = outPage[i]
    <3>1. Offer(q, 0) \in Slot
      <4>1. q.taken + 0 \in Int /\ q.ring \in [Slot -> Slot]
        BY Sizes DEF Queue, Index
      <4> QED
        BY <4>1, Residue DEF Offer
    <3>2. q.desc[Offer(q, 0)].buf.off \in 0 .. BufLen - 1
      BY <3>1 DEF Queue, Descriptor, Buffer
    <3> QED
      BY <2>1, <3>2 DEF Heard
  <2>3. PICK m \in Letter : m = Heard(0) /\ Spoken(m)
    BY <1>2, <1>6, <2>2
  <2>4. PICK reply : reply = Answer(m)
    OBVIOUS
  <2>5. /\ reply \in Seq(Letter)
        /\ \A j \in 1 .. Len(reply) :
              reply[j].ev = "DEVICE_ADD" \/ (m.ev = "PORT_READY" /\ reply[j].id = m.id)
    BY <2>4, Answers
  <2>6. toSend' = toSend \o reply
    BY <1>13, <2>3, <2>4 DEF DeviceReads
  <2>7. \A j \in 1 .. Len(reply) : Spoken(reply[j])
    BY <2>3, <2>5 DEF Spoken
  <2>8. ASSUME NEW j \in 1 .. Len(toSend') PROVE SpokenNext(toSend'[j])
    <3>1. \/ j \in 1 .. Len(toSend) /\ toSend'[j] = toSend[j]
          \/ \E l \in 1 .. Len(reply) : toSend'[j] = reply[l]
      BY <1>6, <2>5, <2>6, ConcatProperties
    <3> QED
      BY <1>2, <1>3, <2>7, <3>1
  <2>9. Sent
    BY <2>8 DEF Sent
  <2> QED
    BY <1>5, <1>13, <2>9 DEF DeviceReads
<1>14. CASE HostCloses
  <2>1. PICK id \in HostPorts : toSend' = Append(toSend, PortOpen(id, FALSE)) /\ Known(id)
    BY <1>14 DEF HostCloses
  <2>2. PICK m \in Letter : m = PortOpen(id, FALSE)
    BY Letters
  <2>3. Spoken(m)
    BY <2>1, <2>2 DEF Spoken, PortOpen, Message
  <2>4. ASSUME NEW j \in 1 .. Len(toSend') PROVE SpokenNext(toSend'[j])
    <3>1. toSend' = Append(toSend, m) /\ j \in 1 .. Len(toSend) + 1
      BY <1>6, <2>1, <2>2, <2>4, AppendProperties
    <3>2. \/ j \in 1 .. Len(toSend) /\ toSend'[j] = toSend[j]
          \/ toSend'[j] = m
      BY <1>6, <3>1
    <3> QED
      BY <1>2, <1>3, <2>3, <3>2
  <2>5. Sent
    BY <2>4 DEF Sent
  <2> QED
    BY <1>5, <1>14, <2>5 DEF HostCloses, driver
<1>15. CASE \/ Enter \/ DataDone \/ PortDrained \/ ControlDrained \/ NamePort \/ UNCHANGED vars
  BY <1>5, <1>15 DEF Enter, DataDone, PortDrained, ControlDrained, NamePort, Handled, vars, driver
<1> QED
  BY <1>8, <1>9, <1>10, <1>11, <1>12, <1>13, <1>14, <1>15 DEF Next, Handler, Device

\* The kernel stops only in NamePort and OpenPort, for a port that is not known.
LEMMA HaltsNext ==
  ASSUME TypeOK, Polite, HaltsOnlySurprised, [Next]_vars
  PROVE  HaltsOnlySurprised'
<1>1. CASE NamePort
  <2>1. halted' = ~Known(msg.m.id) /\ surprised' = surprised /\ msg.m.ev = "PORT_NAME"
    BY <1>1 DEF NamePort, Handled
  <2> QED
    BY <2>1 DEF HaltsOnlySurprised, Polite, Spoken
<1>2. CASE OpenPort
  <2>1. ~halted /\ surprised' = surprised /\ msg.m.ev = "PORT_OPEN"
    BY <1>2 DEF OpenPort, Handled, At
  <2>2. halted' = halted \/ ~Known(msg.m.id)
    BY <1>2 DEF OpenPort
  <2> QED
    BY <2>1, <2>2 DEF HaltsOnlySurprised, Polite, Spoken
<1>3. CASE HostCloses
  <2>1. halted' = halted /\ (surprised => surprised')
    BY <1>3 DEF HostCloses
  <2> QED
    BY <2>1 DEF HaltsOnlySurprised
<1>4. CASE \/ Enter \/ ReceiveData \/ ReceiveControl \/ DataDone \/ PortDrained \/ ControlDrained
           \/ AddPort \/ DeviceData \/ DeviceControl \/ DeviceReads \/ UNCHANGED vars
  <2>1. halted' = halted /\ surprised' = surprised
    BY <1>4 DEF Enter, ReceiveData, ReceiveControl, Receive, DataDone, PortDrained,
     ControlDrained, AddPort, Handled, DeviceData, DeviceControl, Deliver, DeviceReads, vars
  <2> QED
    BY <2>1 DEF HaltsOnlySurprised
<1> QED
  BY <1>1, <1>2, <1>3, <1>4 DEF Next, Handler, Device

-----------------------------------------------------------------------------
(* The message in hand *)

\* Two messages of at most half a page, the second behind the first or, if the first ends at
\* the end of the page, at its beginning, have nothing in common.
LEMMA BehindIsApart ==
  ASSUME NEW off \in Nat, NEW len \in Nat, NEW n \in Nat,
         off + len <= BufLen, 2 * len <= BufLen, 2 * n <= BufLen
  PROVE  Region(off, len) \cap Region(Advance(off, len), n) = {}
<1> SUFFICES ASSUME NEW x, x \in Region(off, len), x \in Region(Advance(off, len), n) PROVE FALSE
  OBVIOUS
<1>1. BufLen \in Nat \ {0}
  BY Lengths
<1>2. x \in off .. off + len - 1
  BY DEF Region
<1>3. CASE off + len > BufLen - 1
  <2>1. off + len = BufLen /\ Advance(off, len) = 0
    BY <1>1, <1>3 DEF Advance
  <2>2. x \in 0 .. 0 + n - 1
    BY <2>1 DEF Region
  <2> QED
    BY <1>1, <1>2, <2>1, <2>2
<1>4. CASE ~(off + len > BufLen - 1)
  <2>1. Advance(off, len) = off + len
    BY <1>4 DEF Advance
  <2>2. x \in off + len .. off + len + n - 1
    BY <2>1 DEF Region
  <2> QED
    BY <1>1, <1>2, <2>2
<1> QED
  BY <1>3, <1>4

\* If no message takes more than half of a page, the message in hand stays before the buffer
\* that is posted, and the device does not write over it.
LEMMA BehindNext ==
  ASSUME HalfPage, TypeOK, InputInStep, Saying, Behind, NeverTorn, [Next]_vars
  PROVE  Behind' /\ NeverTorn'
<1>1. /\ Nothing.off + Nothing.len <= BufLen /\ 2 * Nothing.len <= BufLen
      /\ BufLen \in Nat \ {0}
      /\ msg.off \in Nat /\ msg.len \in Nat /\ msg.port \in InPorts
  BY Lengths DEF Nothing, InHand, TypeOK
<1>2. CASE /\ inq' = inq /\ inUsed' = inUsed /\ InPorts' = InPorts /\ torn' = torn
           /\ msg' = msg \/ msg' = Nothing
  <2>1. \A p \in InPorts :
          inq'[p].usedIdx # inq'[p].seen => 2 * inq'[p].used[inq'[p].seen % Size].len <= BufLen
    BY <1>2 DEF Behind
  <2>2. CASE msg' = msg
    <3>1. msg' # Nothing => inUsed'[msg'.port] = Advance(msg'.off, msg'.len)
      BY <1>2, <2>2 DEF Behind
    <3>2. msg'.off + msg'.len <= BufLen /\ 2 * msg'.len <= BufLen
      BY <2>2 DEF Behind
    <3> QED
      BY <1>2, <2>1, <3>1, <3>2 DEF Behind, NeverTorn
  <2>3. CASE msg' = Nothing
    BY <1>1, <1>2, <2>1, <2>3 DEF Behind, NeverTorn, Nothing
  <2> QED
    BY <1>2, <2>2, <2>3
<1>3. CASE ReceiveData \/ ReceiveControl
  <2>1. PICK q \in InPorts : Receive(q)
    BY <1>3, PortsUp DEF ReceiveData, ReceiveControl
  <2>2. PICK r \in Queue(Buffer), new \in 0 .. BufLen - 1, s \in Slot : Drawn(q, r, new, s)
    BY <2>1, ReceiveOne
  <2>3. PICK off : off = inUsed[q]
    OBVIOUS
  <2>4. PICK len : len = inq[q].used[s].len
    OBVIOUS
  <2>5. off \in 0 .. BufLen - 1 /\ len \in 0 .. BufLen - off
    BY <2>2, <2>3, <2>4, PortsUp, Zenon DEF Drawn
  <2>6. off + len <= BufLen
    BY <1>1, <2>5
  <2>7. 2 * len <= BufLen
    BY <2>2, <2>4 DEF Behind, Drawn
  <2>8. /\ msg'.port = q /\ msg'.off = off /\ msg'.len = len /\ new = Advance(off, len)
        /\ inUsed' = [inUsed EXCEPT ![q] = new]
    BY <2>2, <2>3, <2>4 DEF Drawn, InHand
  <2>9. inUsed'[msg'.port] = Advance(msg'.off, msg'.len)
    BY <2>8, PortsUp DEF TypeOK
  <2>10. InPorts' = InPorts /\ torn' = torn
    BY <2>1 DEF Receive, InPorts
  <2>11. inq' = [inq EXCEPT ![q] = r] /\ r.usedIdx = r.seen
    BY <2>2 DEF Drawn
  <2>12. ASSUME NEW p \in InPorts, inq'[p].usedIdx # inq'[p].seen
         PROVE  2 * inq'[p].used[inq'[p].seen % Size].len <= BufLen
    <3>1. p # q
      BY <2>11, <2>12, PortsUp DEF TypeOK
    <3>2. inq'[p] = inq[p]
      BY <2>11, <3>1
    <3> QED
      BY <2>12, <3>2 DEF Behind
  <2> QED
    BY <2>6, <2>7, <2>8, <2>9, <2>10, <2>12 DEF Behind, NeverTorn
<1>4. CASE DeviceData \/ (DeviceControl /\ inq' # inq)
  <2>1. PICK q \in InPorts, len \in Nat, m \in Letter :
          Deliver(q, len, m) /\ (len \in Lens \/ len \in {1, 2})
    BY <1>4, DeliverCases
  <2>2. PICK r \in Queue(Buffer), n \in 0 .. BufLen - inUsed[q] : Filling(q, len, m, r, n)
    BY <2>1, DeliverOne
  <2>3. PICK off \in 0 .. BufLen - 1 : off = inUsed[q]
    BY PortsUp
  <2>4. n \in Nat /\ n <= len /\ 2 * len <= BufLen
    <3>1. n <= len
      BY <2>2 DEF Filling
    <3>2. 2 * len <= BufLen
      BY <1>1, <2>1 DEF HalfPage
    <3>3. n \in Nat
      BY <1>1, <2>3
    <3> QED
      BY <3>1, <3>2, <3>3
  <2>5. 2 * n <= BufLen
    BY <1>1, <2>4
  <2>6. inq' = [inq EXCEPT ![q] = r] /\ r.used[r.seen % Size].len = n
    BY <2>2 DEF Filling
  <2>7. msg' = msg /\ inUsed' = inUsed /\ InPorts' = InPorts
    BY <2>1 DEF Deliver, InPorts
  <2>8. ASSUME NEW p \in InPorts, inq'[p].usedIdx # inq'[p].seen
        PROVE  2 * inq'[p].used[inq'[p].seen % Size].len <= BufLen
    <3>1. CASE p = q
      <4>1. inq'[p] = r
        BY <2>6, <3>1, PortsUp DEF TypeOK
      <4> QED
        BY <2>5, <2>6, <4>1
    <3>2. CASE p # q
      <4>1. inq'[p] = inq[p]
        BY <2>6, <3>2
      <4> QED
        BY <2>8, <4>1 DEF Behind
    <3> QED
      BY <3>1, <3>2
  <2>9. Behind'
    <3>1. msg' # Nothing => inUsed'[msg'.port] = Advance(msg'.off, msg'.len)
      BY <2>7 DEF Behind
    <3>2. msg'.off + msg'.len <= BufLen /\ 2 * msg'.len <= BufLen
      BY <2>7 DEF Behind
    <3> QED
      BY <2>7, <2>8, <3>1, <3>2 DEF Behind
  <2>10. ASSUME msg.port = q PROVE Region(msg.off, msg.len) \cap Region(off, n) = {}
    <3>1. CASE msg # Nothing
      <4>1. off = Advance(msg.off, msg.len) /\ msg.off + msg.len <= BufLen /\ 2 * msg.len <= BufLen
        BY <2>3, <2>10, <3>1 DEF Behind
      <4>2. PICK a \in Nat, l \in Nat : a = msg.off /\ l = msg.len
        BY <1>1
      <4> QED
        BY <2>4, <2>5, <4>1, <4>2, BehindIsApart
    <3>2. CASE msg = Nothing
      <4>1. msg.off = 0 /\ msg.len = 0
        BY <3>2 DEF Nothing, InHand
      <4>2. Region(0, 0) = {}
        BY DEF Region
      <4> QED
        BY <4>1, <4>2
    <3> QED
      BY <3>1, <3>2
  <2>11. NeverTorn'
    BY <2>2, <2>3, <2>10 DEF Filling, NeverTorn
  <2> QED
    BY <2>9, <2>11
<1>5. CASE AddPort
  <2>1. PICK q \in Port : q = Len(ports) + 1
    BY <1>5 DEF AddPort
  <2>2. /\ inq' = [inq EXCEPT ![q] = FreshIn] /\ inUsed' = inUsed /\ msg' = Nothing /\ torn' = torn
        /\ Len(ports') = q
    BY <1>5, <2>1, PortsUp DEF AddPort, Handled, TypeOK
  <2>3. InPorts' = InPorts \cup {q}
    BY <2>1, <2>2, PortsUp DEF InPorts, Ctl
  <2>4. ASSUME NEW p \in InPorts', inq'[p].usedIdx # inq'[p].seen
        PROVE  2 * inq'[p].used[inq'[p].seen % Size].len <= BufLen
    <3>1. p # q
      BY <2>2, <2>4, FreshInStep DEF TypeOK
    <3>2. p \in InPorts /\ inq'[p] = inq[p]
      BY <2>2, <2>3, <3>1
    <3> QED
      BY <2>4, <3>2 DEF Behind
  <2> QED
    BY <1>1, <2>2, <2>4 DEF Behind, NeverTorn
<1>6. CASE DeviceControl /\ inq' = inq
  BY <1>2, <1>6, DropIs DEF driver, InPorts
<1>7. CASE \/ Enter \/ DataDone \/ PortDrained \/ ControlDrained \/ NamePort \/ OpenPort
           \/ DeviceReads \/ HostCloses
  <2>1. inq' = inq /\ inUsed' = inUsed /\ InPorts' = InPorts
    BY <1>7, TypeOthers
  <2>2. torn' = torn /\ (msg' = msg \/ msg' = Nothing)
    BY <1>7 DEF Enter, DataDone, PortDrained, ControlDrained, NamePort, OpenPort, Handled,
                DeviceReads, HostCloses
  <2> QED
    BY <1>2, <2>1, <2>2
<1>8. CASE UNCHANGED vars
  BY <1>2, <1>8 DEF vars, InPorts
<1> QED
  BY <1>3, <1>4, <1>5, <1>6, <1>7, <1>8 DEF Next, Handler, Device
-----------------------------------------------------------------------------
(* The invariant *)

\* console_setup has said DEVICE_READY, and nothing else.
LEMMA SaidAtFirst ==
  ASSUME NEW q, q = Post(NewQueue(NoBuf), Buf(0, 1, NoMessage)),
         NEW page, page = [i \in 0 .. BufLen - 1 |-> IF i = 0 THEN DeviceReady ELSE NoMessage]
  PROVE  /\ q \in Queue(Buffer) /\ page \in [0 .. BufLen - 1 -> Letter]
         /\ Told(q, 1, page, << DeviceReady >>)
<1>1. BufLen \in Nat \ {0} /\ DeviceReady \in Letter /\ NoMessage \in Letter
  BY Lengths, Letters
<1>2. PICK new \in Queue(Buffer) : new = NewQueue(NoBuf)
  BY NewIsQueue, Lengths, Zenon
<1>3. PICK blank \in [0 .. BufLen - 1 -> Letter] : blank = [i \in 0 .. BufLen - 1 |-> NoMessage]
  BY <1>1
<1>4. PICK none \in Seq(Letter) : none = << >>
  <2>1. << >> \in Seq(Letter)
    BY EmptySeq
  <2> QED
    BY <2>1, Zenon
<1>5. Told(new, BufLen, blank, none)
  <2>1. new.added = 0 /\ new.next = 0 /\ new.avail = 0 /\ new.taken = 0
    BY <1>2 DEF NewQueue
  <2>2. 0 % Size = 0 /\ 0 - 0 = 0 /\ Len(none) = 0
    BY <1>4, Sizes, ModSmall
  <2> QED
    BY <1>1, <2>1, <2>2 DEF Told
<1>6. 0 = OutOffset(BufLen) /\ BufLen \in 0 .. BufLen
  BY <1>1 DEF OutOffset
<1>7. /\ q \in Queue(Buffer)
      /\ Told(q, 0 + 1, [blank EXCEPT ![0] = DeviceReady], Append(none, DeviceReady))
  <2>1. PICK m \in Letter : m = DeviceReady
    BY <1>1
  <2>2. PICK used \in 0 .. BufLen : used = BufLen
    BY <1>6
  <2>3. PICK off : off = 0
    OBVIOUS
  <2>4. q = Post(new, Buf(off, 1, NoMessage)) /\ off = OutOffset(used) /\ Told(new, used, blank, none)
    BY <1>2, <1>5, <1>6, <2>2, <2>3
  <2>5. q \in Queue(Buffer) /\ Told(q, off + 1, [blank EXCEPT ![off] = m], Append(none, m))
    BY <2>4, TellOne
  <2> QED
    BY <2>1, <2>3, <2>5
<1>8. 0 + 1 = 1 /\ Append(none, DeviceReady) = << DeviceReady >>
  BY <1>4
<1>9. [blank EXCEPT ![0] = DeviceReady] = page
  BY <1>3
<1>10. page \in [0 .. BufLen - 1 -> Letter]
  BY <1>1
<1> QED
  BY <1>7, <1>8, <1>9, <1>10

\* console_setup establishes the invariant.
LEMMA InitIs ==
  ASSUME Init
  PROVE  IInv
<1>1. PICK new \in Queue(Buffer) : new = NewQueue(NoBuf)
  BY NewIsQueue, Lengths, Zenon
<1>2. \A d \in Slot : new.desc[d].buf.m = NoMessage
  BY <1>1 DEF NewQueue, NoBuf, Buf
<1>3. PICK fresh \in Queue(Buffer) : /\ fresh = FreshIn /\ InStep(fresh, 0) /\ fresh.usedIdx = fresh.seen
                                     /\ \A d \in Slot : fresh.desc[d].buf.m = NoMessage
  BY FreshInStep
<1>4. PICK out \in Queue(Buffer), page \in [0 .. BufLen - 1 -> Letter] :
        /\ out = Post(NewQueue(NoBuf), Buf(0, 1, NoMessage))
        /\ page = [i \in 0 .. BufLen - 1 |-> IF i = 0 THEN DeviceReady ELSE NoMessage]
        /\ Told(out, 1, page, << DeviceReady >>)
  BY SaidAtFirst
<1>5. /\ inq = [p \in Port |-> IF p \in {Ctl, 1} THEN fresh ELSE new]
      /\ outq = [p \in Port |-> IF p = Ctl THEN out ELSE new]
      /\ inUsed = [p \in Port |-> 0] /\ outUsed = [p \in Port |-> IF p = Ctl THEN 1 ELSE 0]
      /\ outPage = page /\ sent = << DeviceReady >> /\ toSend = << >> /\ closes = 0
      /\ ports = << [id |-> 0, open |-> FALSE] >> /\ msg = Nothing
      /\ regs = [k \in Pairs |-> IF k = 0 THEN 1 ELSE IF k = 1 THEN Ctl ELSE NoPort]
      /\ isr = FALSE /\ raised = FALSE /\ pc = "off" /\ it = 1
      /\ halted = FALSE /\ surprised = FALSE /\ torn = FALSE
  BY <1>1, <1>3, <1>4 DEF Init
<1>6. Len(ports) = 1 /\ InPorts = {Ctl, 1} /\ InPorts \subseteq Port /\ 1 \in Port \ {Ctl}
  <2>1. Len(ports) = 1
    BY <1>5
  <2> QED
    BY <2>1, PortsAre DEF InPorts, Ctl
<1>7. BufLen \in Nat \ {0} /\ NoMessage \in Letter /\ DeviceReady \in Letter
  BY Lengths, Letters
<1>8. TypeOK
  <2>1. inq \in [Port -> Queue(Buffer)] /\ outq \in [Port -> Queue(Buffer)]
    BY <1>5
  <2>2. inUsed \in [Port -> 0 .. BufLen - 1] /\ outUsed \in [Port -> 0 .. BufLen]
    BY <1>5, <1>7
  <2>3. ports \in Seq([id : HostPorts \cup {0}, open : BOOLEAN])
    <3>1. PICK x \in [id : HostPorts \cup {0}, open : BOOLEAN] : x = [id |-> 0, open |-> FALSE]
      OBVIOUS
    <3> QED
      BY <1>5, <3>1
  <2>4. regs \in [Pairs -> InPorts \cup {NoPort}] /\ regs[1] # NoPort
    BY <1>5, <1>6 DEF Pairs, Ctl, NoPort
  <2>5. msg \in [port : InPorts, off : 0 .. BufLen - 1, len : 0 .. BufLen, m : Letter]
    BY <1>5, <1>6, <1>7 DEF Nothing, InHand
  <2>6. toSend \in Seq(Letter) /\ sent \in Seq(Letter)
    BY <1>5, <1>7
  <2>7. outPage \in [0 .. BufLen - 1 -> Letter] /\ Len(ports) \in Port \ {Ctl} /\ it \in 1 .. Len(ports)
    BY <1>5, <1>6
  <2> QED
    BY <1>5, <2>1, <2>2, <2>3, <2>4, <2>5, <2>6, <2>7 DEF TypeOK
<1>9. \A p \in InPorts : inq[p] = fresh /\ inUsed[p] = 0
  BY <1>5, <1>6
<1>10. InputInStep
  BY <1>3, <1>5, <1>9 DEF InputInStep
<1>11. Polite
  <2>1. Spoken(NoMessage) /\ Spoken(DeviceReady) /\ Spoken(msg.m)
    BY <1>5, SilentWords DEF Spoken, DeviceReady, Message
  <2>2. \A i \in 0 .. BufLen - 1 : Spoken(outPage[i])
    BY <1>4, <1>5, <2>1
  <2>3. \A p \in Port, d \in Slot : Spoken(inq[p].desc[d].buf.m)
    BY <1>2, <1>3, <1>5, <2>1
  <2>4. \A i \in 1 .. Len(toSend) : Spoken(toSend[i])
    BY <1>5
  <2> QED
    BY <2>1, <2>2, <2>3, <2>4 DEF Polite
<1>12. Saying
  BY <1>4, <1>5, PortsAre DEF Saying
<1>13. NothingForgotten /\ HaltsOnlySurprised /\ raised = isr /\ NeverTorn
  BY <1>3, <1>5, <1>9 DEF NothingForgotten, HaltsOnlySurprised, NeverTorn
<1>14. Behind
  <2>1. msg.off + msg.len <= BufLen /\ 2 * msg.len <= BufLen
    BY <1>5, <1>7 DEF Nothing, InHand
  <2> QED
    BY <1>3, <1>5, <1>9, <2>1 DEF Behind
<1> QED
  BY <1>8, <1>10, <1>11, <1>12, <1>13, <1>14 DEF IInv

\* Every step keeps it.
LEMMA NextKeeps ==
  ASSUME IInv, [Next]_vars
  PROVE  IInv'
<1>1. /\ TypeOK /\ InputInStep /\ raised = isr /\ Polite /\ Saying
      /\ NothingForgotten /\ HaltsOnlySurprised
  BY DEF IInv
<1>2. TypeOK' /\ InputInStep'
  BY <1>1, TypeNext
<1>3. NothingForgotten' /\ raised' = isr'
  BY <1>1, ForgottenNext
<1>4. Polite'
  BY <1>1, PoliteNext
<1>5. Saying'
  BY <1>1, SayingNext
<1>6. HaltsOnlySurprised'
  BY <1>1, HaltsNext
<1>7. HalfPage => Behind' /\ NeverTorn'
  BY <1>1, BehindNext DEF IInv
<1>8. HalfPage' = HalfPage
  BY DEF HalfPage
<1> QED
  BY <1>2, <1>3, <1>4, <1>5, <1>6, <1>7, <1>8 DEF IInv

\* An input queue that is in step has one buffer out, and dequeue takes that.
LEMMA InStepIsRight ==
  ASSUME NEW q \in Queue(Buffer), NEW off, InStep(q, off)
  PROVE  /\ (q.avail - q.seen) % Mod = 1
         /\ NumHeads(q) > 0 => q.used[q.seen % Size].id = q.seen % Size
<1>1. (q.avail - q.seen) % Mod = 1
  BY OneOn DEF InStep, Queue
<1>2. NumHeads(q) > 0 => q.usedIdx # q.seen
  BY Heads
<1> QED
  BY <1>1, <1>2 DEF InStep

\* IInv holds in every reachable state, whatever the ports of the host, the size of the
\* queues and the lengths of the messages.
THEOREM ConsoleInvariance == Spec => []IInv
<1>1. Init => IInv
  BY InitIs
<1>2. IInv /\ [Next]_vars => IInv'
  BY NextKeeps
<1> QED
  BY <1>1, <1>2, PTL DEF Spec

\* On each input queue the driver has one buffer out, and what dequeue takes for a
\* completion is what the device used (virtio_queue.c:112-126).
THEOREM BufferIsRight == Spec => []RightBuffer
<1>1. IInv => RightBuffer
  <2> SUFFICES ASSUME IInv PROVE RightBuffer
    OBVIOUS
  <2>1. TypeOK /\ InputInStep
    BY DEF IInv
  <2>2. ASSUME NEW p \in InPorts
        PROVE  /\ (inq[p].avail - inq[p].seen) % Mod = 1
               /\ NumHeads(inq[p]) > 0 => inq[p].used[inq[p].seen % Size].id = inq[p].seen % Size
    <3>1. PICK q \in Queue(Buffer), off \in 0 .. BufLen - 1 : q = inq[p] /\ off = inUsed[p] /\ InStep(q, off)
      BY <2>1, PortsUp DEF InputInStep
    <3> QED
      BY <3>1, InStepIsRight
  <2> QED
    BY <2>2 DEF RightBuffer
<1> QED
  BY <1>1, ConsoleInvariance, PTL

\* As long as the device is behind by no more messages than there are descriptors and
\* places in the page, it reads the control messages that were sent, in their order.
THEOREM SaysWhatItSaid == Spec => []SaidIntact
<1>1. IInv => SaidIntact
  <2> SUFFICES ASSUME IInv, Len(sent) <= Size, Len(sent) <= BufLen
               PROVE  /\ Offered(outq[Ctl]) = Len(sent)
                      /\ \A i \in 1 .. Len(sent) : Heard(i - 1) = sent[i]
    BY DEF SaidIntact
  <2>1. PICK q \in Queue(Buffer) : q = outq[Ctl]
    BY PortsAre DEF IInv, TypeOK
  <2>2. sent \in Seq(Letter) /\ Told(q, outUsed[Ctl], outPage, sent)
    BY <2>1 DEF IInv, TypeOK, Saying
  <2>3. /\ Offered(q) = Len(sent)
        /\ \A i \in 1 .. Len(sent) : outPage[q.desc[Offer(q, i - 1)].buf.off] = sent[i]
    BY <2>2, HearAll
  <2> QED
    BY <2>1, <2>3 DEF Heard
<1> QED
  BY <1>1, ConsoleInvariance, PTL

\* The kernel stops on a control message only if the host has closed a port before the
\* driver had added it (virtio_console.c:174-177, 190-191).
THEOREM HaltsForCause == Spec => []HaltsOnlySurprised
<1>1. IInv => HaltsOnlySurprised
  BY DEF IInv
<1> QED
  BY <1>1, ConsoleInvariance, PTL

\* What the device delivers is seen by this run of the handler or by one that is due,
\* unless used.idx has wrapped (virtio_queue.c:154).
THEOREM ForgetsNothing == Spec => []NothingForgotten
<1>1. IInv => NothingForgotten
  BY DEF IInv
<1> QED
  BY <1>1, ConsoleInvariance, PTL

\* If no message takes more than half of a page, the device does not write over the
\* message the driver has in hand (virtio_console.c:157, 210).
THEOREM HalfPagesStayWhole == HalfPage => (Spec => []NeverTorn)
<1>1. HalfPage /\ IInv => NeverTorn
  BY DEF IInv
<1>2. ASSUME HalfPage PROVE IInv => NeverTorn
  BY <1>1, <1>2
<1>3. ASSUME HalfPage PROVE Spec => []NeverTorn
  BY <1>2, <1>3, ConsoleInvariance, PTL
<1> QED
  BY <1>3
=============================================================================
