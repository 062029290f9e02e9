------------------------------ MODULE Console ------------------------------
(***************************************************************************)
(* The virtio console driver, kernel/drivers/virtio/virtio_console.c, with *)
(* a device that answers it.  Every port has a queue for input, on which   *)
(* the driver keeps one buffer posted, and one for output, whose           *)
(* completions it never looks at.  All of the driver after console_setup   *)
(* runs in console_interrupt, while the device goes on by itself.          *)
(*                                                                         *)
(* Buffers are measured in control messages (8 bytes).                     *)
(***************************************************************************)
EXTENDS VirtQueue, SequencesExt

CONSTANTS
  HostPorts,   \* ids of the ports the host has configured, but for port 0
  BufLen,      \* length of a port_buffer: a page
  Lens,        \* lengths of the data the host sends to a port
  MaxCloses,   \* bound: how often the host closes a port
  MaxData      \* bound: how far data moves the used index of a port; Mod is no bound

ASSUME ConsoleAssumption ==
  /\ HostPorts \subseteq Slot       \* asserted for every message, virtio_console.c:155
  /\ 0 \notin HostPorts             \* its DEVICE_ADD would take the control port's queues, 361
  /\ {MaxCloses, MaxData} \subseteq Nat
  /\ BufLen \in Nat \ {0}
  /\ Lens \subseteq 1 .. BufLen

VARIABLES
  inq, outq,   \* per port: vq_in, vq_out
  inUsed,      \* per port: inbuf.used
  outUsed,     \* per port: outbuf.used
  outPage,     \* what is in the page of the control port's outbuf
  ports,       \* the list of ports: << id, open >>, port 0 first
  regs,        \* per pair of queue numbers: the port whose queues the device was told
  isr,         \* isr_status of the device
  raised,      \* its interrupt is pending
  pc, it,      \* console_interrupt: what is next, and the port of the outer loop
  msg,         \* the message in hand
  toSend,      \* device: control messages it still has to send
  closes,      \* host: how often it has closed a port
  sent,        \* history: control messages the device has not yet read, oldest first
  halted,      \* the kernel has followed a NULL pointer
  surprised,   \* history: the host has closed a port that the driver had not added
  torn         \* history: the device has written over the message in hand

driver == << inq, outq, inUsed, outUsed, outPage, ports, regs >>
vars   == << inq, outq, inUsed, outUsed, outPage, ports, regs, isr, raised, pc, it, msg,
             toSend, closes, sent, halted, surprised, torn >>

-----------------------------------------------------------------------------

Ctl  == 0                               \* cmsg_port; ports[k] has the queues k
Port == 0 .. Cardinality(HostPorts) + 1
NoPort == -1

\* RN(id) / 2, which is what the device has for a port too.  console_setup gives port 0
\* the queues 0 and 1 and the control port 2 and 3.
Pair(id) == id + 1
Pairs    == {0, 1} \cup {Pair(id) : id \in HostPorts}

Region(off, len) == off .. off + len - 1

Message(ev, id, val) == [ev |-> ev, id |-> id, val |-> val]
DeviceReady   == Message("DEVICE_READY", NoPort, TRUE)
PortReady(id) == Message("PORT_READY", id, TRUE)
PortOpen(id, open) == Message("PORT_OPEN", id, open)
PortAdd(id)   == Message("DEVICE_ADD", id, TRUE)
PortName(id)  == Message("PORT_NAME", id, TRUE)
NoMessage     == Message("none", NoPort, FALSE)

\* A buffer: where it is in the port's page, how long, and what was written there.
Buf(off, len, m) == [off |-> off, len |-> len, m |-> m]
NoBuf   == Buf(0, 0, NoMessage)

\* Mutant: the loop stops before the last port.
KnownButLast(id) == \E k \in 1 .. Len(ports) - 1 : ports[k].id = id

\* find_port_by_id: the first port of the list with the id.
Known(id) == \E k \in 1 .. Len(ports) : ports[k].id = id
Find(id)  == CHOOSE k \in 1 .. Len(ports) :
               ports[k].id = id /\ \A j \in 1 .. k - 1 : ports[j].id # id

\* port_add_inbuf, on a queue.
InBuf(off)    == Buf(off, BufLen - off, NoMessage)
PostIn(q, off) == Post(q, InBuf(off))
FreshIn       == PostIn(NewQueue(NoBuf), 0)

\* Mutant: every buffer begins where the first did.
AdvanceNowhere(used, len) == used

\* port_update_inbuf: where the next buffer begins.
Advance(used, len) == IF used + len > BufLen - 1 THEN 0 ELSE used + len

\* Mutant: every message goes to the beginning.
OutOffsetZero(used) == 0

\* port_get_outbuff: where the next message of one unit goes.
OutOffset(used) == IF used + 1 > BufLen THEN 0 ELSE used

\* console_send_control_message; nobody waits for the device to have read the
\* message that was there before.
Say(m) ==
  LET off == OutOffset(outUsed[Ctl]) IN
  /\ outq' = [outq EXCEPT ![Ctl] = Post(@, Buf(off, 1, NoMessage))]
  /\ outUsed' = [outUsed EXCEPT ![Ctl] = off + 1]
  /\ outPage' = [outPage EXCEPT ![off] = m]
  /\ sent' = Append(sent, m)

InHand(p, off, len, m) == [port |-> p, off |-> off, len |-> len, m |-> m]
Nothing == InHand(Ctl, 0, 0, NoMessage)

\* console_setup has run.
Init ==
  /\ inq = [p \in Port |-> IF p \in {Ctl, 1} THEN FreshIn ELSE NewQueue(NoBuf)]
  /\ outq = [p \in Port |-> IF p = Ctl THEN Post(NewQueue(NoBuf), Buf(0, 1, NoMessage))
                                       ELSE NewQueue(NoBuf)]
  /\ inUsed = [p \in Port |-> 0]
  /\ outUsed = [p \in Port |-> IF p = Ctl THEN 1 ELSE 0]
  /\ outPage = [i \in 0 .. BufLen - 1 |-> IF i = 0 THEN DeviceReady ELSE NoMessage]
  /\ ports = << [id |-> 0, open |-> FALSE] >>
  /\ regs = [k \in Pairs |-> IF k = 0 THEN 1 ELSE IF k = 1 THEN Ctl ELSE NoPort]
  /\ isr = FALSE /\ raised = FALSE
  /\ pc = "off" /\ it = 1 /\ msg = Nothing
  /\ toSend = << >> /\ closes = 0 /\ sent = << DeviceReady >>
  /\ halted = FALSE /\ surprised = FALSE /\ torn = FALSE

-----------------------------------------------------------------------------
(* console_interrupt *)

At(a) == ~halted /\ pc = a

\* Reading isr_status clears it.
Enter ==
  /\ At("off") /\ raised
  /\ raised' = FALSE
  /\ isr' = FALSE
  /\ pc' = IF isr THEN "ports" ELSE "off"
  /\ it' = 1
  /\ UNCHANGED << driver, msg, toSend, closes, sent, halted, surprised, torn >>

\* port_get_in_head and port_update_inbuf: the next buffer is posted before the
\* message in the last one has been looked at.
Receive(p) ==
  LET got == Dequeued(inq[p])[1]
      off == Advance(inUsed[p], got.len) IN
  /\ NumHeads(inq[p]) > 0
  /\ msg' = InHand(p, got.buf.off, got.len, got.buf.m)
  /\ inUsed' = [inUsed EXCEPT ![p] = off]
  /\ inq' = [inq EXCEPT ![p] = PostIn(Dequeue(@), off)]
  /\ UNCHANGED << outq, outUsed, outPage, ports, regs, isr, raised, it, toSend, closes, sent,
                  halted, surprised, torn >>

ReceiveData    == At("ports") /\ Receive(it) /\ pc' = "data"
ReceiveControl == At("control") /\ Receive(Ctl) /\ pc' = "act"

\* port_handle_input copies the data of an open port and drops that of a closed one.
DataDone ==
  /\ At("data")
  /\ pc' = "ports" /\ msg' = Nothing
  /\ UNCHANGED << driver, isr, raised, it, toSend, closes, sent, halted, surprised, torn >>

PortDrained ==
  /\ At("ports") /\ NumHeads(inq[it]) = 0
  /\ pc' = "control"
  /\ UNCHANGED << driver, isr, raised, it, msg, toSend, closes, sent, halted, surprised, torn >>

\* Mutant: the interrupt is acknowledged at the end too.
ControlDrainedAcks ==
  /\ At("control") /\ NumHeads(inq[Ctl]) = 0
  /\ IF it < Len(ports) THEN it' = it + 1 /\ pc' = "ports" ELSE it' = 1 /\ pc' = "off"
  /\ isr' = FALSE
  /\ UNCHANGED << driver, raised, msg, toSend, closes, sent, halted, surprised, torn >>

\* The next port of the list, those added meanwhile included.
ControlDrained ==
  /\ At("control") /\ NumHeads(inq[Ctl]) = 0
  /\ IF it < Len(ports) THEN it' = it + 1 /\ pc' = "ports" ELSE it' = 1 /\ pc' = "off"
  /\ UNCHANGED << driver, isr, raised, msg, toSend, closes, sent, halted, surprised, torn >>

\* console_handle_control_message.
Handled ==
  /\ pc' = "control" /\ msg' = Nothing
  /\ UNCHANGED << isr, raised, it, toSend, closes, surprised, torn >>

AddPort ==
  LET p == Len(ports) + 1 IN
  /\ At("act") /\ msg.m.ev = "DEVICE_ADD"
  /\ p \in Port
  /\ ports' = Append(ports, [id |-> msg.m.id, open |-> FALSE])
  /\ inq' = [inq EXCEPT ![p] = FreshIn]
  /\ regs' = [regs EXCEPT ![Pair(msg.m.id)] = p]
  /\ Say(PortReady(msg.m.id))
  /\ Handled
  /\ UNCHANGED << inUsed, halted >>

\* assert1(0) for a port that is not known.
NamePort ==
  /\ At("act") /\ msg.m.ev = "PORT_NAME"
  /\ halted' = ~Known(msg.m.id)
  /\ Handled
  /\ UNCHANGED << driver, sent >>

\* The log line reads the name of the port before the test for NULL.
OpenPort ==
  /\ At("act") /\ msg.m.ev = "PORT_OPEN"
  /\ \/ /\ Known(msg.m.id)
        /\ ports' = [ports EXCEPT ![Find(msg.m.id)].open = msg.m.val]
        /\ Say(PortOpen(msg.m.id, TRUE))
        /\ UNCHANGED << inq, inUsed, regs, halted >>
     \/ /\ ~Known(msg.m.id)
        /\ halted' = TRUE
        /\ UNCHANGED << driver, sent >>
  /\ Handled

-----------------------------------------------------------------------------
(* The device, as much of it as the driver meets *)

Interrupts == isr' = TRUE /\ raised' = TRUE

\* The device fills the buffer offered on an input queue.
Deliver(p, len, m) ==
  LET id == Offer(inq[p], 0)
      b  == inq[p].desc[id].buf
      n  == IF len < b.len THEN len ELSE b.len IN
  /\ Offered(inq[p]) > 0
  /\ inq' = [inq EXCEPT ![p] = Complete(Take([@ EXCEPT !.desc[id].buf.m = m]), id, n)]
  /\ torn' = (torn \/ (msg.port = p /\ Region(msg.off, msg.len) \cap Region(b.off, n) # {}))
  /\ Interrupts
  /\ UNCHANGED << outq, inUsed, outUsed, outPage, ports, regs, pc, it, msg, sent, halted >>

\* Input for a port whose queues the device has been told.
DeviceData ==
  /\ ~halted
  /\ \E id \in HostPorts, len \in Lens :
       LET p == regs[Pair(id)] IN
       p # NoPort /\ inq[p].usedIdx < MaxData /\ Deliver(p, len, NoMessage)
  /\ UNCHANGED << toSend, closes, surprised >>

\* A control message takes one unit, and a name another; without a buffer the message
\* is dropped.
UnitsOf(m) == IF m.ev = "PORT_NAME" THEN 2 ELSE 1

DeviceControl ==
  /\ ~halted /\ toSend # << >>
  /\ \/ Deliver(regs[1], UnitsOf(Head(toSend)), Head(toSend))
     \/ /\ Offered(inq[regs[1]]) = 0
        /\ UNCHANGED << driver, isr, raised, pc, it, msg, sent, halted, torn >>
  /\ toSend' = Tail(toSend)
  /\ UNCHANGED << closes, surprised >>

\* What the device finds where the i-th descriptor it is offered points.
Heard(i) == outPage[outq[Ctl].desc[Offer(outq[Ctl], i)].buf.off]

\* What the device says to a message of the driver.
Answer(m) ==
  CASE m.ev = "DEVICE_READY" -> SetToSeq({PortAdd(id) : id \in HostPorts})
    [] m.ev = "PORT_READY"   -> << PortName(m.id), PortOpen(m.id, TRUE) >>
    [] OTHER -> << >>

\* The device reads a message of the driver, and answers.
DeviceReads ==
  LET m == Heard(0) IN
  /\ ~halted /\ Offered(outq[Ctl]) > 0
  /\ outq' = [outq EXCEPT ![Ctl] = Take(@)]
  /\ sent' = Tail(sent)
  /\ toSend' = toSend \o Answer(m)
  /\ UNCHANGED << inq, inUsed, outUsed, outPage, ports, regs, isr, raised, pc, it, msg, closes,
                  halted, surprised, torn >>

\* The host closes a port, whether or not the driver has added it.
HostCloses ==
  /\ ~halted /\ closes < MaxCloses
  /\ closes' = closes + 1
  /\ \E id \in HostPorts :
       /\ toSend' = Append(toSend, PortOpen(id, FALSE))
       /\ surprised' = (surprised \/ ~Known(id))
  /\ UNCHANGED << driver, isr, raised, pc, it, msg, sent, halted, torn >>

-----------------------------------------------------------------------------

Handler ==
  \/ Enter \/ ReceiveData \/ ReceiveControl \/ DataDone \/ PortDrained \/ ControlDrained
  \/ AddPort \/ NamePort \/ OpenPort

Device == DeviceData \/ DeviceControl \/ DeviceReads \/ HostCloses

Next == Handler \/ Device

Spec == Init /\ [][Next]_vars

-----------------------------------------------------------------------------
(* Properties *)

InPorts == {Ctl} \cup 1 .. Len(ports)

\* Each input queue has one buffer that the driver has posted and not taken back,
\* and what dequeue will take for the next completion is what the device used,
\* though it does not look at the id (virtio_queue.c:112-126).
RightBuffer ==
  \A p \in InPorts :
    /\ (inq[p].avail - inq[p].seen) % Mod = 1
    /\ NumHeads(inq[p]) > 0 => inq[p].used[inq[p].seen % Size].id = inq[p].seen % Size

\* The device does not write over the message that the driver is looking at, although
\* the next buffer is posted first (virtio_console.c:157, 210), as long as no message
\* takes more than half of the page.
NeverTorn == ~torn

\* The device reads the control messages that were sent, in order, though nobody waits
\* for it before a descriptor or a place in the page is used again
\* (virtio_console.c:281-316), as long as it is not further behind than both last.
SaidIntact ==
  Len(sent) <= Size /\ Len(sent) <= BufLen =>
    /\ Offered(outq[Ctl]) = Len(sent)
    /\ \A i \in 1 .. Len(sent) : Heard(i - 1) = sent[i]

\* The kernel stops on a control message only if the host has closed a port before the
\* driver had added it, announced or not (virtio_console.c:174-177, 190-191): the names and
\* the openings that the device itself answers with come after the port they speak of, and
\* find it, whichever messages are dropped for want of a buffer.
HaltsOnlySurprised == halted => surprised

\* console_interrupt has yet to look at the input queue of p.
WillDrain(p) ==
  /\ pc # "off"
  /\ p = Ctl \/ it < p \/ (it = p /\ pc \in {"ports", "data"})

\* What the device delivers is not forgotten, though the handler clears isr_status
\* before it drains the queues, ports are added to its list while it goes through it,
\* and the control queue is drained once for each of them: what has not been seen is
\* seen by this run of the handler or by one that is due, until the used index wraps
\* (virtio_queue.c:154).
NothingForgotten ==
  \A p \in InPorts :
    inq[p].usedIdx # inq[p].seen =>
      halted \/ (raised /\ isr) \/ WillDrain(p) \/ inq[p].usedIdx = 0

-----------------------------------------------------------------------------
(* The inductive invariant *)

Events  == {"PORT_READY", "PORT_OPEN", "DEVICE_ADD", "PORT_NAME"}
Letter  == {NoMessage, DeviceReady} \cup [ev : Events, id : HostPorts, val : BOOLEAN]
Buffer  == [off : 0 .. BufLen - 1, len : 0 .. BufLen, m : Letter]

TypeOK ==
  /\ inq \in [Port -> Queue(Buffer)] /\ outq \in [Port -> Queue(Buffer)]
  /\ inUsed \in [Port -> 0 .. BufLen - 1] /\ outUsed \in [Port -> 0 .. BufLen]
  /\ outPage \in [0 .. BufLen - 1 -> Letter]
  /\ ports \in Seq([id : HostPorts \cup {0}, open : BOOLEAN]) /\ Len(ports) \in Port \ {Ctl}
  /\ regs \in [Pairs -> InPorts \cup {NoPort}] /\ regs[1] # NoPort
  /\ isr \in BOOLEAN /\ raised \in BOOLEAN /\ halted \in BOOLEAN
  /\ surprised \in BOOLEAN /\ torn \in BOOLEAN
  /\ pc \in {"off", "ports", "data", "control", "act"} /\ it \in 1 .. Len(ports)
  /\ msg \in [port : InPorts, off : 0 .. BufLen - 1, len : 0 .. BufLen, m : Letter]
  /\ toSend \in Seq(Letter) /\ sent \in Seq(Letter) /\ closes \in Nat

\* An input queue whose next buffer begins at off: one descriptor is with the device, the
\* one the driver will look at next, or comes back from it with no more than fits.
InStep(q, off) ==
  LET s == q.seen % Size IN
  /\ q.added = 0 /\ q.taken = q.usedIdx
  /\ q.avail = (q.seen + 1) % Mod /\ q.next = q.avail % Size
  /\ \A d \in Slot : ~q.desc[d].more
  /\ q.ring[s] = s /\ q.desc[s].buf.off = off /\ q.desc[s].buf.len = BufLen - off
  /\ \/ q.usedIdx = q.seen
     \/ q.usedIdx = q.avail /\ q.used[s].id = s /\ q.used[s].len <= BufLen - off

InputInStep ==
  /\ \A p \in InPorts : InStep(inq[p], inUsed[p])
  /\ \A p \in Port \ InPorts : inUsed[p] = 0

\* Whoever names or opens a port has heard of it before, unless the host has surprised us.
Spoken(m) == m.ev \in {"PORT_READY", "PORT_OPEN", "PORT_NAME"} => Known(m.id)

Polite ==
  ~surprised =>
    /\ \A i \in 1 .. Len(toSend) : Spoken(toSend[i])
    /\ \A p \in Port, d \in Slot : Spoken(inq[p].desc[d].buf.m)
    /\ \A i \in 0 .. BufLen - 1 : Spoken(outPage[i])
    /\ Spoken(msg.m)

\* The messages said last, at most as many as there are descriptors and places in the
\* page, are where the device will look for them.
Told(q, used, page, said) ==
  /\ q.added = 0 /\ q.next = q.avail % Size /\ used # 0
  /\ (q.avail - q.taken) % Mod = Len(said) % Mod
  /\ \A a \in 0 .. Len(said) - 1 : a < Size /\ a < BufLen =>
       LET s == (q.avail - 1 - a) % Size
           o == (used - 1 - a) % BufLen
       IN  q.ring[s] = s /\ q.desc[s].buf.off = o /\ page[o] = said[Len(said) - a]

Saying == Told(outq[Ctl], outUsed[Ctl], outPage, sent)

\* No message takes more than half of a page.
HalfPage == 4 <= BufLen /\ \A len \in Lens : 2 * len <= BufLen

\* The message in hand is just before the buffer that is posted.
Behind ==
  /\ msg # Nothing => inUsed[msg.port] = Advance(msg.off, msg.len)
  /\ msg.off + msg.len <= BufLen /\ 2 * msg.len <= BufLen
  /\ \A p \in InPorts :
       inq[p].usedIdx # inq[p].seen => 2 * inq[p].used[inq[p].seen % Size].len <= BufLen

\* What makes the properties above inductive.
IInv ==
  /\ TypeOK /\ InputInStep /\ raised = isr /\ Polite /\ Saying
  /\ NothingForgotten /\ HaltsOnlySurprised
  /\ HalfPage => Behind /\ NeverTorn

=============================================================================
