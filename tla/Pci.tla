-------------------------------- MODULE Pci --------------------------------
(***************************************************************************)
(* Enumeration of the PCI bus at boot, drivers/pci/pci.c, and what a       *)
(* virtio device goes through in it: virtio.c, pci_msi.c, and the free     *)
(* interrupt lines of idt.c.  The kernel goes from function to function;   *)
(* interrupts are enabled all the time, those of the devices that it has   *)
(* already set up included.                                                *)
(*                                                                         *)
(* Device 0 of bus 0, the host bridge, exists and has a header for one     *)
(* function, so pci_enum walks bus 0 and no other.                         *)
(***************************************************************************)
EXTENDS Integers, Sequences, FiniteSets

CONSTANTS
  Slots,       \* device numbers on a bus: 32
  Fns,         \* function numbers of a device: 8
  Lines,       \* the interrupts that get_next_irq gives out: 64 to 255
  Positions,   \* places in configuration space that may hold a capability
  TTL,         \* PCI_FIND_CAP_TTL
  LastWindow,  \* the last of the pages that one page table maps: 1023
  Machines     \* what the firmware may leave in the configuration spaces

Function   == (0 .. Slots - 1) \X (0 .. Fns - 1)
NoFunction == << Slots, 0 >>

\* What the kernel reads of a function.  A vendor "none" reads as 0xffff: there is no
\* such function.  bars says which registers check_function overwrites when it looks for
\* the sizes of the address ranges, because it takes an address for a register's number.
\* first is 0 without capabilities.  window is the page that its MSI-X table is in, the
\* table of pending bits too.
Config ==
  [vendor    : {"virtio", "other", "none"},
   subsystem : {"console", "block", "other"},
   offers    : BOOLEAN,                        \* the features that its driver insists on
   bars      : SUBSET {"cache line", "message control"},
   first     : Positions \cup {0},
   caps      : [Positions -> [msix : BOOLEAN, next : Positions \cup {0}]],
   entries   : 1 .. 2,                         \* size of the MSI-X table
   window    : 0 .. LastWindow]

ASSUME PciAssumption ==
  /\ {Slots, Fns} \subseteq Nat \ {0}
  /\ Lines \subseteq Nat \ {0} /\ IsFiniteSet(Lines)
  /\ IsFiniteSet(Positions) /\ 0 \notin Positions
  /\ LastWindow \in Nat
  /\ TTL \in Nat /\ TTL >= Cardinality(Positions)   \* 48, for the dwords from 0x40 on
  /\ \A m \in Machines :
       /\ m \in [Function -> Config]
       /\ m[<< 0, 0 >>].vendor # "none"
       /\ \A p, q \in Function : m[p].window = m[q].window =>
            p = q \/ m[p].vendor = "none" \/ m[q].vendor = "none"
       /\ 2 * Cardinality({p \in Function : m[p].vendor = "virtio"}) <= Cardinality(Lines)

VARIABLES
  machine,     \* the configuration spaces
  cache,       \* functions whose cache line size has bit 7 set
  control,     \* per function: bits of message control that are set
  table,       \* per function: the interrupt of each entry of its MSI-X table, 0 if none
  status,      \* per function: device_status of virtio
  queues,      \* per function: the queues the device has been told
  mapped,      \* the page table: the windows that have an entry
  handler,     \* irq_handlers and idt: the function whose interrupt a line is
  devices,     \* the list of the bus
  pc, at,      \* the kernel: what is next, and for which function
  dev,         \* ldevice of check_device, or the copy that the driver has made of it
  pos, ttl,    \* the walk of the capabilities
  entry,       \* the loop over MSI-X entries
  stopped,     \* the kernel has met a page fault
  eager        \* history: a device has interrupted before it was told DRIVER_OK

space == << cache, control, table, status, queues, mapped, handler >>
walk  == << pos, ttl, entry >>
vars  == << machine, space, devices, pc, at, dev, walk, stopped, eager >>

-----------------------------------------------------------------------------

Here == machine[at]
At(a) == ~stopped /\ pc = a

NewDevice == [msix |-> FALSE, enabled |-> FALSE, entries |-> 0]

Init ==
  /\ machine \in Machines
  /\ cache = {}
  /\ control = [p \in Function |-> {}]
  /\ table = [p \in Function |-> [e \in 0 .. 1 |-> 0]]
  /\ status = [p \in Function |-> {}]
  /\ queues = [p \in Function |-> {}]
  /\ mapped = {}
  /\ handler = [l \in Lines |-> NoFunction]
  /\ devices = << >>
  /\ pc = "device" /\ at = << 0, 0 >> /\ dev = NewDevice
  /\ pos = 0 /\ ttl = 0 /\ entry = 0
  /\ stopped = FALSE /\ eager = FALSE

-----------------------------------------------------------------------------
(* The devices and functions of the bus *)

NextSlot == at' = << at[1] + 1, 0 >> /\ pc' = "device"

NoDevice ==
  /\ At("device") /\ at[1] < Slots /\ Here.vendor = "none"
  /\ NextSlot
  /\ UNCHANGED << machine, space, devices, dev, walk, stopped, eager >>

\* Mutant: ldevice is not cleared.
CheckDeviceStale ==
  /\ At("device") /\ at[1] < Slots /\ Here.vendor # "none"
  /\ pc' = "function"
  /\ UNCHANGED << machine, space, devices, at, dev, walk, stopped, eager >>

CheckDevice ==
  /\ At("device") /\ at[1] < Slots /\ Here.vendor # "none"
  /\ pc' = "function" /\ dev' = NewDevice
  /\ UNCHANGED << machine, space, devices, at, walk, stopped, eager >>

Finish ==
  /\ At("device") /\ at[1] = Slots
  /\ pc' = "done"
  /\ UNCHANGED << machine, space, devices, at, dev, walk, stopped, eager >>

\* check_device asks for the header type at 0x0d and so sees the cache line size; bit 7
\* of it makes it go through all functions.
AfterFunction ==
  IF at[2] > 0 \/ at \in cache THEN at' = << at[1], at[2] + 1 >> /\ pc' = "functions"
                               ELSE NextSlot

\* No vendor has the id 0x80, so every function number counts.
OneMoreFunction ==
  /\ At("functions") /\ at[2] < Fns
  /\ pc' = "halt"
  /\ UNCHANGED << machine, space, devices, at, dev, walk, stopped, eager >>

LastFunction ==
  /\ At("functions") /\ at[2] = Fns
  /\ NextSlot
  /\ UNCHANGED << machine, space, devices, dev, walk, stopped, eager >>

\* halt() is one hlt: the next tick of the PIT ends it.
Tick ==
  /\ At("halt")
  /\ pc' = "function"
  /\ UNCHANGED << machine, space, devices, at, dev, walk, stopped, eager >>

\* check_function up to the search for MSI-X; all ones are written to the registers in
\* bars and stay there.
CheckFunction ==
  /\ At("function")
  /\ cache' = IF "cache line" \in Here.bars THEN cache \cup {at} ELSE cache
  /\ control' = [control EXCEPT ![at] =
                   IF "message control" \in Here.bars THEN {"enable", "mask"} ELSE @]
  /\ pos' = Here.first /\ ttl' = TTL /\ pc' = "capability"
  /\ UNCHANGED << machine, table, status, queues, mapped, handler, devices, at, dev, entry, stopped,
                  eager >>

-----------------------------------------------------------------------------
(* Capabilities and MSI-X *)

\* Mutant: the walk is not counted.
NextCapabilityForever ==
  /\ At("capability") /\ ttl > 0 /\ pos # 0 /\ ~Here.caps[pos].msix
  /\ pos' = Here.caps[pos].next
  /\ UNCHANGED << machine, space, devices, pc, at, dev, ttl, entry, stopped, eager >>

NextCapability ==
  /\ At("capability") /\ ttl > 0 /\ pos # 0 /\ ~Here.caps[pos].msix
  /\ pos' = Here.caps[pos].next /\ ttl' = ttl - 1
  /\ UNCHANGED << machine, space, devices, pc, at, dev, entry, stopped, eager >>

\* What msix.enabled was is not looked at.
NoMsix ==
  /\ At("capability") /\ (ttl = 0 \/ pos = 0)
  /\ dev' = [dev EXCEPT !.msix = FALSE]
  /\ pc' = "match"
  /\ UNCHANGED << machine, space, devices, at, walk, stopped, eager >>

\* pci_dev_setup_msix: max_entries is (mctrl && 0x7ff) + 1.  The low bits of mctrl are
\* the size of the table, less one.
MaxEntries == IF Here.entries = 1 /\ control[at] = {} THEN 1 ELSE 2

\* mmap of one page: what may be mapped then.  The first call allocates the page table
\* and clears it.  The entry that must be 0 is not the one that is written but the next;
\* behind the last is the page that follows the table, with anything in it.
Mmap(w) ==
  CASE w = LastWindow   -> {mapped, mapped \cup {w}}
    [] w + 1 \in mapped -> {mapped}
    [] OTHER            -> {mapped \cup {w}}

SetupMsix ==
  /\ At("capability") /\ ttl > 0 /\ pos # 0 /\ Here.caps[pos].msix
  /\ dev' = [msix |-> TRUE, enabled |-> TRUE, entries |-> MaxEntries]
  /\ control' = [control EXCEPT ![at] = {"enable"}]
  /\ mapped' \in Mmap(Here.window)
  /\ pc' = "match"
  /\ UNCHANGED << machine, cache, table, status, queues, handler, devices, at, walk, stopped,
                  eager >>

\* Mutant: the first line, whatever it is used for.
FirstIrq == CHOOSE l \in Lines : \A k \in Lines : l <= k

\* get_next_irq.
GetNextIrq ==
  CHOOSE l \in Lines :
    /\ handler[l] = NoFunction
    /\ \A k \in Lines : k < l => handler[k] # NoFunction

\* msi_set_vector: the first entry without an interrupt, if there is one.  What is
\* written behind the table of the device is lost.
SetVector(tab, l) ==
  LET free == {e \in 0 .. dev.entries - 1 : e < Here.entries /\ tab[e] = 0} IN
  [e \in DOMAIN tab |-> IF e \in free /\ \A f \in free : e <= f THEN l ELSE tab[e]]

-----------------------------------------------------------------------------
(* Drivers *)

\* match_dri_dev on the id_list of the one driver there is, and virtio_init.
HasDriver == Here.vendor = "virtio" /\ Here.subsystem # "other"

Register(driven) ==
  /\ devices' = Append(devices, [fn |-> at, msix |-> dev.msix, enabled |-> dev.enabled,
                                 driven |-> driven])
  /\ AfterFunction

RegisterPlain ==
  /\ At("match") /\ ~HasDriver
  /\ Register(FALSE)
  /\ UNCHANGED << machine, space, dev, walk, stopped, eager >>

\* Mutant: the driver is said to be ready before it has set up anything.
AcceptReady ==
  /\ At("match") /\ HasDriver /\ Here.offers
  /\ status' = [status EXCEPT ![at] = @ \cup {"ACK", "DRIVER", "DRIVER_OK"}]
  /\ pc' = IF dev.msix /\ dev.enabled THEN "lines" ELSE "setup"
  /\ entry' = 0
  /\ UNCHANGED << machine, cache, control, table, queues, mapped, handler, devices, at, dev, pos, ttl,
                  stopped, eager >>

\* virtio_probe.  console_setup and bdev_setup, later, never fail.
Accept ==
  /\ At("match") /\ HasDriver /\ Here.offers
  /\ status' = [status EXCEPT ![at] = @ \cup {"ACK", "DRIVER"}]
  /\ pc' = IF dev.msix /\ dev.enabled THEN "lines" ELSE "setup"
  /\ entry' = 0
  /\ UNCHANGED << machine, cache, control, table, queues, mapped, handler, devices, at, dev, pos, ttl,
                  stopped, eager >>

\* After a failed probe driver_try_setup calls virtio_remove, which calls the remove of
\* the virtio driver: neither the console nor the block driver has one.
Refuse ==
  /\ At("match") /\ HasDriver /\ ~Here.offers
  /\ status' = [status EXCEPT ![at] = @ \cup {"ACK", "DRIVER", "FAILED"}]
  /\ stopped' = TRUE
  /\ UNCHANGED << machine, cache, control, table, queues, mapped, handler, devices, pc, at, dev, walk,
                  eager >>

\* pci_setup_msix, once round its loop.
SetupLine ==
  LET l == GetNextIrq IN
  /\ At("lines") /\ entry < dev.entries /\ Here.window \in mapped
  /\ handler' = [handler EXCEPT ![l] = at]
  /\ table' = [table EXCEPT ![at] = SetVector(@, l)]
  /\ entry' = entry + 1
  /\ UNCHANGED << machine, cache, control, status, queues, mapped, devices, pc, at, dev, pos, ttl,
                  stopped, eager >>

\* The table is not mapped: msi_set_vector meets a page fault.
TableFaults ==
  /\ At("lines") /\ entry < dev.entries /\ Here.window \notin mapped
  /\ handler' = [handler EXCEPT ![GetNextIrq] = at]
  /\ stopped' = TRUE
  /\ UNCHANGED << machine, cache, control, table, status, queues, mapped, devices, pc, at, dev,
                  walk, eager >>

LinesDone ==
  /\ At("lines") /\ entry = dev.entries
  /\ pc' = "setup"
  /\ UNCHANGED << machine, space, devices, at, dev, walk, stopped, eager >>

\* console_setup gives the device the queues of the control port, then those of port 0;
\* bdev_setup its one queue.
Wanted == IF Here.subsystem = "console" THEN << "control", "port" >> ELSE << "request" >>

SetupQueue ==
  LET told == Cardinality(queues[at]) IN
  /\ At("setup") /\ told < Len(Wanted)
  /\ queues' = [queues EXCEPT ![at] = @ \cup {Wanted[told + 1]}]
  /\ UNCHANGED << machine, cache, control, table, status, mapped, handler, devices, pc, at, dev, walk,
                  stopped, eager >>

\* virtio_setup says so to the device; check_function registers it.
RegisterDriven ==
  /\ At("setup") /\ Cardinality(queues[at]) = Len(Wanted)
  /\ status' = [status EXCEPT ![at] = @ \cup {"DRIVER_OK"}]
  /\ Register(TRUE)
  /\ UNCHANGED << machine, cache, control, table, queues, mapped, handler, dev, walk, stopped, eager >>

-----------------------------------------------------------------------------
(* Interrupts of a console, which has something to say as soon as it knows the queues  *)
(* of its control port.  The queues use entry 1 of the table.                          *)

Signals(p) ==
  /\ machine[p].subsystem = "console" /\ queues[p] # {}
  /\ control[p] = {"enable"} /\ table[p][1] # 0

\* pci_irq_handler, virtio_interrupt and console_interrupt, which looks into port 0's
\* queue first; bdev_interrupt looks into the only one.
Interrupt ==
  \E p \in Function :
    /\ ~stopped /\ Signals(p)
    /\ stopped' = (queues[handler[table[p][1]]] \cap {"port", "request"} = {})
    /\ eager' = (eager \/ "DRIVER_OK" \notin status[p])
    /\ pc' = IF pc = "halt" THEN "function" ELSE pc
    /\ UNCHANGED << machine, space, devices, at, dev, walk >>

-----------------------------------------------------------------------------

Enumerate ==
  \/ NoDevice \/ CheckDevice \/ Finish \/ OneMoreFunction \/ LastFunction \/ CheckFunction
  \/ NextCapability \/ NoMsix \/ SetupMsix \/ RegisterPlain \/ Accept \/ Refuse
  \/ SetupLine \/ TableFaults \/ LinesDone \/ SetupQueue \/ RegisterDriven

Next == Enumerate \/ Tick \/ Interrupt

Spec     == Init /\ [][Next]_vars
FairSpec == Spec /\ WF_vars(Enumerate) /\ WF_vars(Tick)

-----------------------------------------------------------------------------
(* Properties *)

Registered == {devices[i] : i \in 1 .. Len(devices)}

\* Set S has the first position of a list of capabilities and, with each, the next one.
Closed(p, S) ==
  \A x \in Positions :
    (x = machine[p].first \/ \E y \in S : x = machine[p].caps[y].next) => x \in S

\* The walk must find a capability that is in the list, and no other, however the list
\* is linked: every closed set of positions contains MSI-X.
HasMsix(p) ==
  \A S \in SUBSET Positions : Closed(p, S) => \E x \in S : machine[p].caps[x].msix

\* What a registered device says of MSI-X is true of that device, though the walk ends
\* after 48 steps (pci.c:635-661) and one structure serves for all functions of a device
\* (pci.c:137, 153).  For functions other than the first, enabled may be another's.
Described ==
  \A d \in Registered :
    /\ d.msix = HasMsix(d.fn)
    /\ d.fn[2] = 0 => d.enabled = d.msix

\* An interrupt of a device reaches the driver of that device and no other, and a
\* device with MSI-X that its driver has set up can interrupt, although max_entries is
\* 1 or 2 whatever the size of the table (pci.c:205, 320-330; pci_msi.c:81-95).
LinesLeadHome ==
  /\ \A p \in Function, e \in 0 .. 1 : table[p][e] # 0 =>
       /\ handler[table[p][e]] = p
       /\ \A q \in Function, f \in 0 .. 1 : table[q][f] = table[p][e] => q = p /\ f = e
  /\ \A d \in Registered :
       d.driven /\ d.msix /\ machine[d.fn].entries = 2 =>
         table[d.fn][1] # 0 /\ control[d.fn] = {"enable"}

\* The kernel survives the enumeration, interrupts of half set up devices included,
\* unless a device lacks a feature (pci.c:350-353, virtio.c:284-289), interrupts before
\* it was told that its driver is ready (virtio_console.c:398-403), or has its MSI-X
\* table in the page before one that is mapped already, or in the last of a page table
\* (page.c:203): mmap then leaves it out.
StopsForCause ==
  stopped =>
    \/ eager
    \/ \E p \in Function : "FAILED" \in status[p]
    \/ \E p \in Function : /\ p = at /\ machine[p].window \notin mapped
                           /\ machine[p].window \in {LastWindow} \cup {w - 1 : w \in mapped}

\* Enumeration ends, whatever the capabilities look like and in spite of the hlt in its
\* middle (pci.c:150, 642).
Finishes == <>(stopped \/ pc = "done")

\* Only what exists is registered (pci.c:135, 147).
DevicesExist == \A d \in Registered : machine[d.fn].vendor # "none"

-----------------------------------------------------------------------------
(* The inductive invariant *)

Places  == {"device", "functions", "halt", "function", "capability", "match", "lines", "setup", "done"}
Probing == {"match", "lines", "setup"}     \* check_function has looked for MSI-X

Device == [fn : Function, msix : BOOLEAN, enabled : BOOLEAN, driven : BOOLEAN]

TypeOK ==
  /\ machine \in Machines
  /\ cache \subseteq Function
  /\ control \in [Function -> SUBSET {"enable", "mask"}]
  /\ table \in [Function -> [0 .. 1 -> Lines \cup {0}]]
  /\ status \in [Function -> SUBSET {"ACK", "DRIVER", "DRIVER_OK", "FAILED"}]
  /\ queues \in [Function -> SUBSET {"control", "port", "request"}]
  /\ mapped \subseteq 0 .. LastWindow
  /\ handler \in [Lines -> Function \cup {NoFunction}]
  /\ devices \in Seq(Device)
  /\ pc \in Places
  /\ at \in (0 .. Slots) \X (0 .. Fns)
  /\ dev \in [msix : BOOLEAN, enabled : BOOLEAN, entries : 0 .. 2]
  /\ pos \in Positions \cup {0} /\ ttl \in 0 .. TTL /\ entry \in 0 .. 2
  /\ stopped \in BOOLEAN /\ eager \in BOOLEAN

\* Where the kernel can be in each part of the loops.
AtRight ==
  /\ pc \in {"device", "done"} => at[2] = 0
  /\ pc \in {"functions", "halt"} => at[1] < Slots /\ at[2] > 0
  /\ pc = "halt" => at[2] < Fns
  /\ pc \in Probing \cup {"function", "capability"} => at \in Function
  /\ pc \in {"lines", "setup"} => HasDriver

\* Function p has been dealt with.
Before(p) == p[1] < at[1] \/ (p[1] = at[1] /\ p[2] < at[2])

\* The device is told its queues in the order of the driver, and all of them before it
\* is told that the driver is ready.
QueuesRight ==
  \A p \in Function :
    /\ queues[p] \in IF machine[p].subsystem = "console"
                       THEN {{}, {"control"}, {"control", "port"}} ELSE {{}, {"request"}}
    /\ "DRIVER_OK" \in status[p] => queues[p] \cap {"port", "request"} # {}

\* An entry of a table that is used names a line of its function, of its own.
LinesRight ==
  \A p \in Function, e \in 0 .. 1 : table[p][e] # 0 =>
    /\ handler[table[p][e]] = p
    /\ \A q \in Function, f \in 0 .. 1 : table[q][f] = table[p][e] => q = p /\ f = e

\* No function has more than two lines, and only those of virtio devices that the
\* kernel has come to have any.
UsedLines == {l \in Lines : handler[l] # NoFunction}
VirtioBefore == {p \in Function : machine[p].vendor = "virtio" /\ Before(p)}
Counted ==
  ~stopped =>
    Cardinality(UsedLines) <= 2 * Cardinality(VirtioBefore)
      + CASE pc = "lines" -> entry [] pc = "setup" -> 2 [] OTHER -> 0

\* The walk of the capabilities: it has passed the positions in W, and none of them is
\* MSI-X; it is at the only place of the list that may be outside W.  It has taken a step
\* for each of W, unless it goes round.
Walks ==
  pc = "capability" =>
    \E W \in SUBSET Positions :
      /\ \A x \in W : ~Here.caps[x].msix
      /\ \A x \in Positions : (x = Here.first \/ \E y \in W : x = Here.caps[y].next)
                               => x \in W \cup {pos}
      /\ pos \in W \cup {0} \/ Cardinality(W) = TTL - ttl
      /\ \A S \in SUBSET Positions : Closed(at, S) => pos \in S \cup {0}

\* What the kernel knows of the device in hand.
DevRight ==
  /\ at[2] = 0 /\ pc \in {"function", "capability"} => ~dev.enabled
  /\ pc \in Probing =>
       /\ dev.msix = HasMsix(at)
       /\ at[2] = 0 => dev.enabled = dev.msix
       /\ dev.msix => /\ dev.enabled
                      /\ Here.entries = 2 => dev.entries = 2
                      /\ control[at] = {"enable"}
                      /\ \/ Here.window \in mapped \cup {LastWindow}
                         \/ \E w \in mapped : Here.window = w - 1
  /\ pc = "lines" => dev.msix /\ entry <= dev.entries

\* The entries of the table are filled from below, of the function in hand alone; the
\* tables of those that follow are empty.
TableRight ==
  /\ \A p \in Function, e \in 0 .. 1 :
       ~Before(p) /\ (p # at \/ pc \notin {"lines", "setup"}) => table[p][e] = 0
  /\ pc = "lines" =>
       \A e \in 0 .. 1 : table[at][e] = 0 <=> ~(e < entry /\ e < Here.entries)
  /\ pc = "setup" /\ dev.msix /\ Here.entries = 2 => table[at][1] # 0

\* What is registered has been dealt with.
RegisteredBefore == \A d \in Registered : Before(d.fn)

IInv ==
  /\ TypeOK /\ AtRight /\ QueuesRight /\ LinesRight /\ Counted /\ Walks /\ DevRight
  /\ TableRight /\ RegisteredBefore
  /\ Described /\ LinesLeadHome /\ StopsForCause

=============================================================================
