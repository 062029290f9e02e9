------------------------------- MODULE Block -------------------------------
(***************************************************************************)
(* The virtio block driver of drivers/virtio/virtio_block.c: requests of   *)
(* two and more descriptors on one virtqueue.                              *)
(*                                                                         *)
(* The index that tells the device what is available moves by descriptors, *)
(* not by requests, so the device finds as many entries in the ring for a  *)
(* request as it has descriptors.  Only the first of them is the           *)
(* request's; the others hold 0, or what an earlier round of the ring left *)
(* there.                                                                  *)
(*                                                                         *)
(* Callers are external: nothing in the kernel makes requests yet.  They   *)
(* ask whenever they like, and no one tells them when a request is done.   *)
(* The device is external: it performs the chains it is offered one after  *)
(* the other, or several at a time and in any order.                       *)
(***************************************************************************)
EXTENDS VirtQueue, FiniteSets, SequencesExt

CONSTANTS
  MaxRequests,   \* bound: requests made
  MaxSectors,    \* bound: sectors of one request
  Depth          \* bound: chains the device works on at a time

ASSUME BlockAssumption ==
  /\ MaxRequests \in Nat \ {0} /\ MaxSectors \in Nat
  /\ Depth \in Nat \ {0}
  /\ MaxRequests * (MaxSectors + 2) < Mod

VARIABLES
  q,          \* rport.reqq
  busy,       \* the device: the chains it has taken and not completed, oldest first
  isr,        \* isr_status: the interrupt is requested
  handler,    \* bdev_interrupt has read isr_status
  made,       \* history: requests, each with the end of its descriptors, counted from the first
  done,       \* history: per request, how many times the device has performed it
  taken,      \* history: requests that bdev_interrupt has taken from the queue
  broken,     \* the device was given a chain that is no request, and has stopped
  reordered,  \* history: a chain was completed before an older one
  shared      \* history: one interrupt found completions of two requests

vars == << q, busy, isr, handler, made, done, taken, broken, reordered, shared >>

Request == 1 .. MaxRequests

-----------------------------------------------------------------------------
(* Scatter lists *)

\* What sl_bind_buffer and sl_bind_attribute put into an entry of a list: a part of a
\* request, and whether the device writes to it (VQ_IN).
Bind(request, part, in) == [req |-> request, part |-> part, in |-> in]

None == Bind(0, "none", FALSE)

\* sl_list_init, and the entries of vdev_flush_request.
FlushList(r) == << Bind(r, "header", FALSE), Bind(r, "status", TRUE) >>

\* Of vdev_read_request.
ReadList(r, sectors) ==
  << Bind(r, "header", FALSE) >>
    \o [i \in 1 .. sectors |-> Bind(r, "sector", TRUE)] \o << Bind(r, "status", TRUE) >>

\* Of vdev_write_request.
WriteList(r, sectors) ==
  << Bind(r, "header", FALSE) >>
    \o [i \in 1 .. sectors |-> Bind(r, "sector", FALSE)] \o << Bind(r, "status", TRUE) >>

-----------------------------------------------------------------------------

Init ==
  /\ q = NewQueue(None)
  /\ busy = << >>
  /\ isr = FALSE /\ handler = FALSE
  /\ made = << >>
  /\ done = [r \in Request |-> 0]
  /\ taken = {}
  /\ broken = FALSE /\ reordered = FALSE /\ shared = FALSE

\* The number of descriptors of the first r requests.
End(r) == IF r = 0 THEN 0 ELSE made[r]

\* The end of all three: the list is enqueued and the device is told.
Ask(list) ==
  /\ Len(made) < MaxRequests
  /\ q' = Kick(Enqueue(q, list))
  /\ made' = Append(made, End(Len(made)) + Len(list))
  /\ UNCHANGED << busy, isr, handler, done, taken, broken, reordered, shared >>

Flush == Ask(FlushList(Len(made) + 1))
Read  == \E sectors \in 1 .. MaxSectors : Ask(ReadList(Len(made) + 1, sectors))
Write == \E sectors \in 1 .. MaxSectors : Ask(WriteList(Len(made) + 1, sectors))

-----------------------------------------------------------------------------
(* The device *)

\* The descriptors of the chain that starts at h: the chain goes on while `more' is set.
ChainAt(h) ==
  LET n == CHOOSE n \in 1 .. Size : /\ n = Size \/ ~q.desc[(h + n - 1) % Size].more
                                    /\ \A m \in 1 .. n - 1 : q.desc[(h + m - 1) % Size].more
  IN  [i \in 1 .. n |-> q.desc[(h + i - 1) % Size].buf]

\* A request is a header, sectors, and a status to be written.
IsRequest(chain) ==
  /\ chain[1].part = "header"
  /\ chain[Len(chain)].part = "status"
  /\ \A i \in 2 .. Len(chain) - 1 : chain[i].part = "sector"

DeviceTakes ==
  /\ Offered(q) > 0 /\ ~broken /\ Len(busy) < Depth
  /\ LET h == Offer(q, 0) IN
       IF IsRequest(ChainAt(h))
         THEN /\ q' = Take(q)
              /\ busy' = Append(busy, [head |-> h, req |-> ChainAt(h)[1].req])
              /\ UNCHANGED broken
         ELSE broken' = TRUE /\ UNCHANGED << q, busy >>
  /\ UNCHANGED << isr, handler, made, done, taken, reordered, shared >>

DeviceCompletes ==
  /\ ~broken
  /\ \E i \in DOMAIN busy :
       /\ q' = Complete(q, busy[i].head, 0)
       /\ done' = [done EXCEPT ![busy[i].req] = @ + 1]
       /\ busy' = RemoveAt(busy, i)
       /\ reordered' = (reordered \/ i > 1)
  /\ isr' = TRUE
  /\ UNCHANGED << handler, made, taken, broken, shared >>

-----------------------------------------------------------------------------
(* bdev_interrupt.  Reading isr_status clears it; the device goes on meanwhile. *)

ReadIsr ==
  /\ isr /\ ~handler
  /\ isr' = FALSE /\ handler' = TRUE
  /\ UNCHANGED << q, busy, made, done, taken, broken, reordered, shared >>

\* One chain is taken, not all there are.
TakeChain ==
  /\ handler
  /\ handler' = FALSE
  /\ IF NumHeads(q) > 0
       THEN /\ q' = Dequeue(q)
            /\ taken' = taken \cup {b.buf.req : b \in ToSet(Dequeued(q))}
            /\ shared' = (shared \/ NumHeads(Dequeue(q)) > 0)
       ELSE UNCHANGED << q, taken, shared >>
  /\ UNCHANGED << busy, isr, made, done, broken, reordered >>

Next == Flush \/ Read \/ Write \/ DeviceTakes \/ DeviceCompletes \/ ReadIsr \/ TakeChain

Spec == Init /\ [][Next]_vars

\* The device performs what it is offered, and its interrupts are taken.
Fairness == WF_vars(DeviceTakes) /\ WF_vars(DeviceCompletes) /\ WF_vars(ReadIsr) /\ WF_vars(TakeChain)

FairSpec == Spec /\ Fairness

-----------------------------------------------------------------------------
(* Properties *)

\* Descriptors, and entries of the available ring, have been used a second time.
Wrapped == q.avail > Size

\* A request is taken from the queue only when the device has performed it: though the
\* driver counts descriptors and the device chains, and nobody looks at the ids, the
\* entries of the ring that are nobody's make up for the difference.
TakenIsDone == ~reordered /\ ~Wrapped => \A r \in taken : r \in Request /\ done[r] > 0

\* The entries that are nobody's name descriptor 0: the first request is performed over
\* and over, as often as there are such entries; no other is performed twice.
OnceEach ==
  ~Wrapped =>
    /\ \A r \in Request \ {1} : done[r] <= 1
    /\ done[1] <= q.avail - (Len(made) - 1)

\* The driver stands at the first descriptor of a request, and has never taken one
\* before it was made: an interrupt never takes half a request.
WholeRequests ==
  ~Wrapped =>
    /\ taken = 1 .. Cardinality(taken)
    /\ q.seen = End(Cardinality(taken))

\* Every request is taken in the end, by an interrupt of its own or of the entries that
\* are nobody's, if no interrupt had to do for two requests.
AllTaken == \A r \in Request : r <= Len(made) ~> r \in taken \/ shared \/ reordered \/ Wrapped

-----------------------------------------------------------------------------
(* The inductive invariant *)

Buffer == [req : 0 .. MaxRequests, part : {"none", "header", "sector", "status"}, in : BOOLEAN]

TypeOK ==
  /\ q \in Queue(Buffer)
  /\ \E s \in Slot : ~q.desc[s].more                \* every chain ends
  /\ busy \in Seq([head : Slot, req : 0 .. MaxRequests])
  /\ isr \in BOOLEAN /\ handler \in BOOLEAN
  /\ made \in Seq(Nat) /\ Len(made) <= MaxRequests
  /\ done \in [Request -> Nat]
  /\ taken \subseteq 0 .. MaxRequests
  /\ broken \in BOOLEAN /\ reordered \in BOOLEAN /\ shared \in BOOLEAN

\* The indices of the rings, none of which ever wraps.
Counted ==
  /\ q.avail = End(Len(made)) /\ q.added = 0
  /\ \A r, s \in 0 .. Len(made) : r < s => End(r) < End(s)
  /\ \A r \in 0 .. Len(made) : End(r) <= r * (MaxSectors + 2)
  /\ q.taken = q.usedIdx + Len(busy) /\ q.taken <= q.avail

\* The descriptors of request r are those from End(r - 1) to End(r), one chain; entry
\* End(r - 1) of the available ring names the first of them, and the entries in between
\* name descriptor 0.
Laid ==
  /\ q.next = q.avail % Size
  /\ \A r \in 1 .. Len(made), k \in Slot : End(r - 1) <= k /\ k < End(r) =>
       q.desc[k].buf.req = r /\ (q.desc[k].more <=> k + 1 < End(r))
  /\ \A k \in Slot :
       q.ring[k] = IF \E r \in 1 .. Len(made) : End(r - 1) = k THEN k ELSE 0

\* Of the requests other than the first, the device has work with one only while it has
\* taken the entry that names it and not performed it.
InWork(r) == {i \in DOMAIN busy : busy[i].req = r}

Waits(r)    == (r > Len(made) \/ End(r - 1) >= q.taken) /\ done[r] = 0 /\ InWork(r) = {}
Proceeds(r) == End(r - 1) < q.taken /\ done[r] = 0 /\ \E i \in DOMAIN busy : InWork(r) = {i}
Finished(r) == End(r - 1) < q.taken /\ done[r] = 1 /\ InWork(r) = {}

Performed == {r \in Request \ {1} : done[r] = 1}

Once ==
  /\ \A i \in DOMAIN busy : busy[i].req \in 1 .. Len(made)
  /\ \A r \in Request \ {1} : Waits(r) \/ (r <= Len(made) /\ (Proceeds(r) \/ Finished(r)))
  /\ q.usedIdx = done[1] + Cardinality(Performed)

\* Entry k of the available ring makes the device perform r.
Names(k, r) ==
  /\ r \in 1 .. Len(made)
  /\ End(r - 1) = k \/ (r = 1 /\ \A s \in 1 .. Len(made) : End(s - 1) # k)

\* What is completed in order is completed in the order of the ring.
InOrder ==
  ~reordered =>
    /\ \A r \in 1 .. Len(made) : End(r - 1) < q.usedIdx => done[r] > 0
    /\ \A i \in DOMAIN busy : Names(q.usedIdx + i - 1, busy[i].req)

IInv ==
  /\ TypeOK /\ Counted
  /\ ~Wrapped => Laid /\ Once /\ InOrder /\ Cardinality(taken) <= Len(made)
  /\ WholeRequests /\ TakenIsDone

=============================================================================
