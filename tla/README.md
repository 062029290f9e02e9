# GiOS in TLA+

GiOS is a small kernel for one 32-bit x86 processor, run in QEMU.  These modules
specify the parts of it that keep state over time and are entered from more than one
place: the page allocator, the kernel heap, the software timers, the text terminal with
`printk` and the keyboard, the virtio console and block drivers with their virtqueues, and
the enumeration of the PCI bus that sets these up.  TLC checks them on small instances;
TLAPS proves every invariant of the runs that pass, in all of these parts, and that the allocator
and the timers keep their promises, for every size.

## The system

Control: `kmain` boots, step by step, with interrupts enabled from `irq_install` on.
After that everything happens in interrupt handlers and in whatever `kmain` still does.
Handlers run with interrupts disabled, one at a time, with one exception: the timer
handler enables interrupts itself (`apic_timer_interrupt_in` ends in `sti`).  There are
no threads and no locks.  A failed `assert1`, or an access through `NULL`, raises a page
fault, whose handler halts the machine.

| Component | State | Operations | Met by |
|---|---|---|---|
| Page allocator, `arch/x86/page.c` | one tree of bits per 8 MB | `kalloc`, `kballoc`, `kfree`, `init_buddy_system` | the heap, queues, buffers, the timers |
| Paging, `page.c` | page directory and tables | `page_init`, `mmap` | drivers that map registers |
| Heap, `memory.c` | list of pages of 8-byte slabs, a bitmap and a count each | `kmalloc`, `kzmalloc`, `kmfree` | everything, interrupt handlers too |
| Timers, `timer.c` | sorted list of entries, a bitmap of entries, `wakeup_flag` | `new_timer`, `sleep`, `timer_handler` | the APIC timer, the kernel |
| APIC, PIC, PIT, `apic.c`, `irq.c`, `pit.c` | registers, masks, in-service bits | one-shot timer, EOI, the 1 kHz tick | every handler |
| Virtqueue, `virtio_queue.c` | descriptors, available and used ring, indices | `enqueue`, `kick`, `dequeue`, `num_heads` | console, block, the device |
| Virtio console, `virtio_console.c` | ports with a queue and a page each way, a control port | `console_interrupt`, `console_setup`, `vdev_console_write` | the device, its host |
| Virtio block, `virtio_block.c` | one queue, requests of a header, sectors and a status | `read`, `write`, `flush`, `bdev_interrupt` | the device; no caller yet |
| PCI, `pci.c`, `pci_msi.c` | list of devices, drivers, capabilities | `pci_enum`, driver matching, MSI-X set-up | virtio |
| Terminal, `framebuffer.c` | cursor, screen, a list of pages that have scrolled off, the page shown | `printk`, `terminal_move_cursor`, `terminal_load_prev` and `_next` | everyone who prints, the keyboard |
| Keyboard, `keyboard.c` | `shift_make` | `keyboard_handler` | the terminal |
| libc: lists, red-black tree, scatter lists, strings | - | pure data structures | all of the above |
| ACPI, GDT, CPUID, MSR, COM1 | tables and registers | boot | `kmain` |

What is hard here is not any one function but the moments between two of them:

* `timer_handler` may run between any two instructions of `new_timer`, and both change
  the same list and the same words of `bit_map`;
* `virtio_queue_dequeue` calls `kzmalloc` in a handler, while the kernel may be in the
  middle of `kzmalloc` itself, down to the bits of the page allocator;
* `irq_eoi` of one handler acknowledges the local APIC whatever is in service, and so
  lets a second timer interrupt into a timer handler that has not finished;
* handlers print, and the keyboard moves the cursor or turns pages, in the middle of a
  character that the kernel is printing, down to the store of `++terminal_column`;
* the device reads and writes queues while the driver works on them, and the block driver
  counts descriptors where the device counts chains;
* a device whose set-up is half done interrupts, and its handler follows a queue that is
  not there yet;
* the enumeration writes to configuration space, and later decides by what it reads there;
* the allocator's trees are the outcome of all calls so far.

`PROJECT.json` lists these places as hazards, line by line, with the properties that
cover them.

What makes each component correct: the page allocator and the heap never give the same
memory to two callers, lose none, and refuse only when there is none; the timers fire
each callback once, not early and not never, and `sleep` returns; a queue hands back the
buffers the device used, in order; the console handles whatever arrives, reads no buffer
that is being written, and does not stop the kernel for what a device may say; the
enumeration registers every device and no other, and gives each interrupt a line of its
own that leads to its driver; a block request is taken as done only when the device has
performed it, and once; the terminal keeps its cursor on the screen, writes to no other
memory, and gives back the text that a look at older pages has replaced.

## Modules

| Module | What it is |
|---|---|
| `PageAllocator` | what `kalloc` and `kfree` promise: blocks that are out never overlap, a request is refused only when nothing of its size is free |
| `Buddy` | `page.c`: the trees, the depth-first search, `kfree`'s walk and merge |
| `BuddyProofs` | theorems about `Buddy`: the tree is in order, blocks are disjoint, no memory is lost, refusal only when full, the stack is bounded, whole blocks are split last; `Buddy` implements `PageAllocator` |
| `NaturalSets` | lemmas: induction over sets of naturals, the least, the greatest, how many in an interval; remainders of sums and differences |
| `TimerService` | what `new_timer` promises: each timer fires once and not early |
| `Timer` | `timer.c` and the one-shot timer of `apic.c`, the tick of `pit.c`, the EOI of `irq.c` |
| `TimerProofs` | theorems about `Timer`, and that it implements `TimerService` |
| `Slab` | `memory.c` |
| `SlabProofs` | theorems about `Slab` |
| `VirtQueue` | `virtio_queue.c`, operators on one queue |
| `Console` | `virtio_console.c` on `VirtQueue`, with the device |
| `ConsoleProofs` | theorems about `Console`, and what the operators of `VirtQueue` do |
| `Block` | `virtio_block.c` and the lists of `scatterlist.c` on `VirtQueue`, with the device |
| `BlockProofs` | theorems about `Block` up to the wrap of an index |
| `Terminal` | `framebuffer.c` with `printk`, `keyboard.c`, the numbers of `string.c` |
| `TerminalProofs` | theorems about `Terminal` |
| `MCTerminal` | what is printed and typed on a small `Terminal`; the numerals against what they mean |
| `Pci` | `pci.c`, `pci_msi.c` and `virtio.c` at boot, the free lines of `idt.c`, `mmap` of `page.c` |
| `PciProofs` | theorems about `Pci` |
| `MCPci` | machines for `Pci` |

### Buddy

`bits` is `buddy_system.array`, with one tree of zeroes behind the last, because
`get_tree_node` has no bound on its index and `kfree` runs into the next tree.  A call
is in progress per context: `main`, the kernel, and `irq`, an interrupt handler, which
may allocate at any moment when `Preemption` is TRUE.  One action is one iteration of the loop in
`buddy_tree_try_alloc_depth`, except that the test of a bit (`PopClear`) and the `SET`
that relies on it (`Claim`, `Descend`) are two.  `NextTree` is the loop over regions and
the `assert1(0)` after it.  `Kfree`, `Walk`, `Unset` and `Merge` are the free path.
A request is its depth; rounding sizes up to a depth is the caller's constant.

`blocks` is history: what was returned and not freed.  `preempted` is history: a handler
has allocated inside a call of the kernel.  The code does nothing against that, so the
properties of the tree are stated under `Calm == ~preempted`; those of the search itself
(its stack, the depths it reaches, its addresses) hold regardless.

`kfree` subtracts the wrong base, so its walk begins one tree too far.  It does find the
block for some arguments, those of `KfreeFinds`, and `Next` frees only these.
`NextAnyFree` frees anything and shows what goes wrong.

### Timer

An action of the kernel is one access to the list or to `bit_map`: the search for a clear
bit is `Allocate`, an `Occupied` for each bit that is set, and `Clear` or `Exhausted`.  A
timer that fires during the search may free an entry it has already passed; the search then
fails although an entry is free, so `HaltOnlyWhenFull` compares with `loc.before`, a history
of what was in use when it began.  `TimerInterrupt` is the handler up to its first `sti`,
`Store` and `EoiIret` the rest; `frames` are the handlers that have not returned.  The
hardware is a counter, a pending bit, an in-service bit and the interrupt flag.  `due` is
history: for how many ticks each timer must still wait.  `spoilt` is history: an interrupt
came while the list was half updated, a pending interrupt of the old count met the new one,
or a product overflowed. The definition `Spoils` names these windows.  Again the code
neither masks the interrupt there nor checks afterwards; properties are stated under `Calm
== ~spoilt`.  They say that these windows are all there is: everywhere else, interrupts may
come.

### Slab

The kernel's call takes several actions, one per node searched, then marking, or making
a node and linking, initialising and using it.  `IrqKmalloc` is a whole call in a handler, which
nothing interrupts.  What the page of a new node holds before it is initialised is
arbitrary.  `Relied` names the one thing a handler must stay off: the node whose
bits the kernel has just read.  `kmfree` releases nothing, and `BitsExact` states that.
`kalloc` is one step and gives each caller a page of its own; the race inside it
(`page.c:325`) is `Buddy`'s, under `preempted`.

### VirtQueue and Console

A queue is a record, and the driver's operations are operators on it: `Enqueue`, `Kick`,
`NumHeads`, `Dequeue`.  `Console` has one queue per port and direction; `regs` is which port's
queues the device has been told for which numbers.  Buffers are measured in units of a
control message.  One action of the driver is one step of `console_interrupt` between
which the device may act: taking a message (which posts the next buffer before anyone has
looked at this one), handling it, finding a queue empty.  The device answers
`DEVICE_READY` with ports and `PORT_READY` with a name and an open message, sends data of
one or two units, closes ports, and drops control messages when no buffer is posted.

### Block

A request is one call of `Enqueue` with a list of segments, then `Kick`.  `Kick` adds the
number of descriptors to the available index, not one, so the device finds an entry of the
ring for each descriptor.  Only the first of them is the request's; the others hold 0,
which is a valid chain: the first request's.  `DeviceTakes` follows whatever chain an entry
names, and `DeviceCompletes` finishes the chains in hand in any order.  `TakeChain` is
`bdev_interrupt` after the read of `isr_status`: one chain, by the number of the next
descriptor, not by the id in the used ring.  History: `made` (requests and their lengths),
`done` (how often each was performed), `taken`, `reordered`, `shared` (one interrupt stood
for two completions).

### Terminal

The record `t` is `state` with the screen and the pages of the list; `k` is where the
kernel is inside `terminal_put_char`, with its registers and locals.  A step of the kernel
is one access to the shared fields; `++terminal_column` is two.  The same functions as
whole calls (`PutChar`, `NextLine`, `Save`, `LoadPrev`, ...) are what handlers do in
`Remark`, a string printed by some handler, and in `Keyboard`.  `PutString` gives the
terminal after each character of such a string, of which the last is what the handler
leaves and the others are what it has met.  What a page holds before it is
written is blank; the pointer `next` of the first page, which `dlist_insert_head` does not
write, is `NULL`, `Wild` (it leads to memory that reads as a page) or `Unmapped` (it leads to
none, and Page Up ends in a page fault).  What is copied through a `Wild` pointer is recorded
as `Anywhere` and ends the behaviour.  A write behind a page is recorded in `strayed` and ends the
behaviour, because what it hits is not in the model; one behind the screen is recorded and
goes on.  History: `mixed` (a handler used the terminal inside a character), `rewound` (after some
character, of the kernel or of a handler, the cursor stood before the end of the text that
the head page has already), `behind` (Page Up while the
page shown is no longer the head), `shadow` (the text that Page Up replaced).

`printk` is the function `Printed` from an item of a format to characters.

### Pci

The variable `at` is the function that the kernel has got to, `pc` what it does with it:
the identity and the address ranges (`CheckFunction`), the walk of the capabilities, one
action per capability, MSI-X, the search for a driver, `virtio_probe`, one interrupt line
after the other, one queue after the other, registration.  A machine is chosen in `Init`
from `Machines`; of an address range it says only which register its value is mistaken
for, and only the two registers that anything depends on later.  `dev` is the structure
that all functions of a device share, stale fields included.  Each function has the page
that its MSI-X table is in, `window`; `mapped` is the page table that `mmap` fills, and
`TableFaults` the page fault of a driver whose table it left out.

`Tick` ends the `hlt` in the loop over functions.  `Interrupt` is a console that has
something to say as soon as it knows the queues of its control port, which are the first
it is told.  `eager` is history: this happened before `DRIVER_OK`, when a device should
not.  `Console` begins where a console's part of this module ends.

## Runs

| Run | Instance | Shows |
|---|---|---|
| `buddy_preempt` | 2 trees of 3 levels, preemption | no overlap, exact bits, refusal only when full, tight packing, bounded stack |
| `buddy_serial` | 2 trees of 4 levels, no preemption | the inductive invariants (`TightInv`), the refinement of `PageAllocator`, termination |
| `buddy_kfree` | 2 trees of 3 levels, `kfree` on anything | fails: pages stay taken after `kfree` |
| `timer_race` | 2 timers, times 0, 1, 2 and one that overflows | interrupts anywhere: the inductive invariant; timers fire, `sleep` returns, and not early |
| `timer_calm` | 3 timers, times 1 to 3 | the list is sorted, armed and complete; the refinement of `TimerService` |
| `slab_alloc` | 2 pages of 4 slabs, requests of 1 to 4 slabs with headers | the inductive invariant: no slab twice, exact bits, no node with room skipped; no page wasted |
| `slab_free` | 1 page and a large block, `kmfree` on anything | fails: the assertion in `internal_free` |
| `console_ports` | queues of 3, indices modulo 6, 2 ports, data of 1 and 2 units | queues in step, messages intact, nothing torn, nothing forgotten, no stop without cause |
| `block_requests` | a queue of 8, 3 requests of 2 or 3 descriptors, 2 chains at a time | taken when done, performed once, never half of one, taken in the end |
| `terminal_shared` | 3 by 2 cells, 2 pages, 3 items, 2 interrupts, 9 keys | cursor on the screen and only one, nothing written elsewhere, text given back |
| `pci_boot` | 3 slots of 2 functions, ten kinds of device, two layouts of their windows | MSI-X found and described, lines lead home, no stop without cause, termination |
| `pci_phantoms` | the same | fails: functions that do not exist are registered |

Why the bounds are enough.  Three levels of a tree have a root, inner nodes and leaves,
so that every branch of the search and of the merge is taken; the two trees are a first
and a last region, and the one that the walk of `kfree` runs into.  Three timers are the
least with a first, a middle and a last; a microsecond of two ticks is the least that
rounds; the wrap of 8 lets both the product and the difference wrap.  A page of
four slabs has room for two blocks and not always for a third.  Two ports make the device
drop a control message for want of a buffer, and a queue of 3 wraps within a few messages.
The used index wraps at 6 instead of 65536.  On the block queue three requests, with 9 descriptors
at most, go round a ring of 8, so that what the properties exclude is reached as well.  A
screen of 3 by 2 is filled, wrapped and scrolled by a newline with its prompt and one
number; two pages are the least that can be turned, and two interrupts the least that can
leave a page and come back to it, or meet one character twice.  The same properties hold with two
sectors to a request.
On the bus, two devices are the least that can share a line or a stale structure, and
two functions the least that share one device; three places for capabilities make a list
that uses all, a circle, and one that MSI-X is not on, and `TTL` is as large as the number
of places, as 48 is.  Other bounds:
`MaxNest` (handlers nested in one another), `Larges`, `MaxCloses`, `MaxData`,
`MaxRequests`, `MaxSectors`, `Depth` (chains the device has in hand), `Pages`, `MaxPrints`
and `MaxInterrupts`.

`MCTerminal` also assumes, and TLC evaluates, that the numerals of `itoa`, `uitoa` and
`to_upper` read back as the number they were made from, in all bases, and that a width in
a format is kept.

Deadlock is not checked: in every module the kernel stops where it really does, at a
failed assertion or an access through NULL.

Fairness.  `Buddy`: each context goes on with its call when it may run (there is one
processor, handlers return).  `Timer`: the processor executes, the count goes down, the
PIT ticks, and the timer interrupt, which is taken whenever it is pending and interrupts
are enabled, is not passed over for ever; the last needs strong fairness, because other
handlers disable it again and again.  `Block`: the device performs the chains it is
offered, and an interrupt that is raised is taken.  `Pci`: the kernel goes on, and the PIT,
which no one masks, ticks.  `Console` and `Terminal` state safety only; that nothing is
forgotten is the invariant `NothingForgotten`, which names who will still look.  Nothing is
assumed of callers or of the host.

## Where the code departs from what it says

* `kfree` (`page.c:425`) does not free the block it is given, for most blocks, against
  `page.h:43`.  Run `buddy_kfree`.
* `kmfree` of more than 2 KB fails its own assertion (`memory.c:216`).  Run `slab_free`.
* The search for the size of an address range writes to the wrong register (`pci.c:427`);
  for some ranges this makes a device look as if it had eight functions, and `pci.c:147`
  then takes the missing ones for real, against `pci.h:149` and `pci.c:135`.  Run
  `pci_phantoms`.

Things the modules state as the code has them, though they are hardly meant:

* Slabs are never released.
* `allocate_new_entry` may miss an entry that a handler frees behind its search, and
  `new_timer` then writes through `NULL` (`HaltOnlyWhenFull` of `Timer`).
* `num_heads` stops at the wrap of the index, so that a queue stalls after 65536 buffers
  (`NothingForgotten` excludes it).
* A control message about a port that the driver does not know, or not yet, stops the
  kernel (`HaltsOnlySurprised`: the host may close a port at any time); host port 0 takes
  the control port's queues, which is why `ConsoleAssumption` excludes it.
* A virtio device that lacks a feature stops the kernel, since `virtio_remove` calls a
  `remove` that no driver has, and so does a console that speaks before its port 0 is set
  up (`StopsForCause`).
* `mmap` looks at the entry behind the one it writes, so that an MSI-X table in the page
  before one that is mapped already is not mapped, and the kernel faults when it sets up
  its first vector (`StopsForCause`).
* Of the functions of one device, all but the first may be described by what the first
  left behind (`Described`).  A device without MSI-X gets no interrupt at all.
* `virtio_queue_kick` adds descriptors to the available index: the first block request is
  performed again for every such entry (`OnceEach`), and once the ring has gone round, the
  left-over entries name chains that are no requests (the device stops; the properties end
  at `Wrapped`).
* `bdev_interrupt` takes one chain per interrupt: of two completions that meet one
  interrupt, one waits for the next (`AllTaken`).
* `virtio_queue_dequeue` allocates a list as long as the number of completions and fills it with
  the descriptors of a chain, which may be more.
* Page Up with the screen live saves the screen only when the page shown before is the
  head; when lines have scrolled off meanwhile, the text is lost (`Recoverable` excludes it
  by `behind`), and a page is skipped.
* Page Up at the first page follows a pointer that nobody has written, reads there how many
  cells to copy, up to 2^15, and copies them over the screen and what is behind it.  This is
  one of the causes that `StraysForCause` names, and `OneCursor` ends at it; the model
  takes the worst number of cells and goes no further.
* A screen that fills up without a newline is not saved: the cursor is back at 0 when
  `terminal_save_state` looks at it.
* Backspace at the first cell clears the cell before the screen (`StraysForCause`).
* A handler that prints a newline inside a character of the kernel may make the kernel copy
  behind a page (`StraysForCause` ends at `mixed`, `InGrid` does not).

## What is proved

Every theorem below holds for all values of the constants that the assumptions admit, and
every proof is checked by `tlapm` to its last step.  The invariants that carry them are
parts of the component's module, next to the properties; the proofs are in modules of their
own.

### The page allocator

For every `MaxDepth`, `TreeCount`, `MetaDepth`, with or without preemption, unless said
otherwise:

| Theorem | States |
|---|---|
| `Invariance`, `ExactInvariance`, `TightInvariance` | `IInv`, `ExactInv`, `TightInv` |
| `TypeCorrect`, `BlocksDisjoint`, `TreeInOrder` | `TypeOK`, `NoOverlap`, `ParentsSet` |
| `NothingLost` | `BitsExact` |
| `RefusesOnlyWhenFull` | `HaltOnlyWhenFull` |
| `StackBounded` | `StackFits` |
| `CarvesLast` | `PacksTight` |
| `PromiseKept` | without preemption, `KeepsPromise`: every step is one of `PageAllocator` or a stutter |

`NoOverlap` is not inductive.  Two blocks overlap only if one lies below the other.  That
cannot happen as long as nodes are set only below set nodes (`ParentsSet`), and the two
nodes below a block are clear (`BlocksAreLeaves`): the chain from the inner block up to the
outer would run through one of those two.  To keep that, the search must only ever set a
node whose parent is set and is no block: `SearchFrame` says it of the node in hand and of
every entry on the stack.  It must go no deeper than asked (`LevelsRight`), and nothing may
change the tree meanwhile (`OneCall`).  `FreeFrame` says of `kfree` that its walk stays
inside the block it was given, or is about to enter it, and that a merge stands on a clear
node whose parent is split.  `IInv` is the conjunction.

`ExactInv` adds, per set node, why it is set: it is on the way to a block, or the search
that is under way has set it and will find a block below it, or the merge will clear it
(`Accounted`); per node that the search has left out, that it has no room (`Searched`);
and that the entries of the stack are at different depths, the deepest on top
(`StacksTaper`), from which its length follows by counting.  In the search for a block the
one thing to show is that a descent is never in vain: a node with a clear child at the
depth asked for, or a split one, is where the code goes.  `HaltOnlyWhenFull` then says that
when the search has left out everything there is nothing.

`TightInv` adds the order of the search (`Tight`): for every entry of the stack, a sibling
on the way down to it that is in use while the entry's own side is not has no room left
but what lies under the entries above, which are popped first.  When two children are
pushed, the upper is the one in use if only one is: their parent is set, and the code
tests the bit of the right child, of which the search knows that it is set just if a block
lies below.  From the moment the search meets a clear node nothing is above it, and a
descent stays inside a clear subtree; so the block that is claimed has no sibling with
room, which is `PacksTight`.

`PromiseKept` puts these together: `blocks` is the state of `PageAllocator`, `Claim` is its
allocation, a halt its refusal, `Kfree` up to the last `Merge` its release.

Assumed: the ranges of the constants (`BuddyAssumption`), and four facts about powers of
two (`PowerAssumption`), because no back end knows exponentiation; TLC evaluates both.

### The heap

For any number of pages, slabs per page and sizes, with handlers allocating between any two
steps (`SlabAssumption`):

| Theorem | States |
|---|---|
| `SlabInvariance` | `IInv` |
| `SlabsApart`, `SlabBitsExact` | `NoSharing`, `BitsExact` |
| `FullOnesSkipped` | `SkipsOnlyFull` |
| `PagesForCause` | `PageOnlyWhenFull` |

`IInv` says where every block that is out lies (`OnPages`), what the kernel's call has in
hand (`InHand`: slabs it has found clear, a page that is not yet on the list), which nodes
it has passed and that these had no room (`Passed`), and that what is on neither is
untouched (`Untouched`).  The count of a node is never below the number of its clear bits,
which is what lets the search skip a node.  This part needs no restriction on handlers;
`NoSharing` and `BitsExact` are stated as long as no handler has allocated from the node
the kernel relied on.

### The timers

For any number of timers, any tick, any width of the numbers (`TimerAssumption`):

| Theorem | States |
|---|---|
| `TimerInvariance` | `IInv` |
| `TimersInOrder`, `HardwareArmed`, `NoTimerLost` | `QueueSorted`, `Armed`, `NoneLost` |
| `HaltsOnlyWhenFull` | `HaltOnlyWhenFull` |
| `SleepIsLongEnough` | `SleepsLongEnough` |
| `PromiseOfTimer` | `KeepsPromise` under `CalmSpec`: every step is one of `TimerService` or a stutter |

The invariant reads the linked list as a sequence without repetition whose links are the
list's, and says where in it the walk of `new_timer` and that of the handler stand
(`Position`), so that an insertion and a removal are changes of the sequence.  `Left`
gives for each place the sum of the times up to it; `OnTime` bounds with it how long each
timer must still wait, and the counter of the hardware how long the first does: rounding
loses less than a microsecond, once per timer.  `Scanning` bounds the entries in use while
`new_timer` searches by those in use when it began.  `InterruptTakes` is the lemma on what the
handler removes.

### The console

For any ports of the host, any number of descriptors, any length of the page and of the
messages, any width of the indices that the number of descriptors divides
(`ConsoleAssumption`, `QueueAssumption`):

| Theorem | States |
|---|---|
| `ConsoleInvariance` | `IInv` |
| `BufferIsRight` | `RightBuffer` |
| `SaysWhatItSaid` | `SaidIntact` |
| `HaltsForCause` | `HaltsOnlySurprised` |
| `ForgetsNothing` | `NothingForgotten` |
| `HalfPagesStayWhole` | `NeverTorn`, if no message takes more than half of the page (`HalfPage`) |

`InStep` is the state of an input queue: all indices but one determine each other, and the
descriptor that the driver will look at is the one the device has.  `Told` is that of the
output queue: the `a`-th message before the last lies `a` places before the next one in the
page, and `a` descriptors before the next one in the ring, whether or not the device has read
it; so a new message overwrites only the oldest, and what has been sent is intact as long
as there are no more than fit.  `Polite` follows the word from the device's answers to the
driver's page: whoever opens or names a port has heard of it.  `Behind` keeps the message
in hand just before the buffer that is posted, so that two messages of half a page have no
room to meet.  The lemmas on remainders in `NaturalSets` carry all this across the wraps
of the two rings, of the indices and of the page; the only wrap that breaks something is
that of `used.idx` in `virtio_queue_num_heads`, which `NothingForgotten` names.

### The block driver

For any number of requests, sectors and descriptors, any width of the indices that the
number of descriptors divides (`BlockAssumption`, `QueueAssumption`), with the device
taking and completing chains at any moment:

| Theorem | States |
|---|---|
| `BlockInvariance` | `IInv` |
| `TakenWasDone` | `TakenIsDone` |
| `TakesWholeRequests` | `WholeRequests` |
| `PerformedOnce` | `OnceEach` |

All three properties are about the queue up to the wrap (`Wrapped` names its end: a
descriptor or an entry of the ring is used for the second time).  Until then, `Laid` says,
request `r` has the descriptors from the end of request `r - 1`, `End(r - 1)`, up to
`End(r)`, in one chain; the entry `End(r - 1)` of the ring names the first of them and the
others that its `Kick` publishes name 0.  No index has wrapped either, because of the bound
on requests (`Counted`).  `Once` says of each request whether the device has yet to meet it,
has it in hand or has performed it, and how often; every completion beyond the first
performance of a request other than the first is one more performance of the first, so that
`used.idx` is `done[1]` and the number of the other requests that were performed (`Once`
counts them).  If completions keep their order, the used ring lists the requests in their order
(`Names`, `InOrder`).

The step that matters is `TakeChain`: the driver takes a chain from where its own counter
stands, not from what the used ring says.  The counter stands at the end of a request
(`WholeRequests`), and `used.idx` is beyond it; so there is a further request, it is the one
that is taken, and `InOrder` says that the device has performed it.  `OnceEach` follows by
counting: a request that was not performed has as many entries of the ring before it as it
needs (lemma `EachOnce`, a pigeonhole).

### The enumeration

For any machine: any devices, functions, classes, capabilities, registers and interrupts, any
number of free lines (`PciAssumption`):

| Theorem | States |
|---|---|
| `PciInvariance` | `IInv` |
| `DevicesDescribed` | `Described` |
| `InterruptsLeadHome` | `LinesLeadHome` |
| `EnumerationStopsForCause` | `StopsForCause` |

The conditions on machines are those of the model: a host bridge, no two tables of MSI-X in
the same page, two lines for each virtio device, and no more capabilities than the walk may
take steps.

`Described` is about a walk over a list that the firmware linked.  That a device has MSI-X is
stated without a walk: every closed set of positions contains it.  `Walks` says of the walk
which set of positions it has passed, that none of them is MSI-X, and that the one it looks
at is the only one that may lie just outside; so the set is closed when the walk meets 0 or a
position it knows (`WalkFinds`), and it cannot run out of steps before, for it has spent one
on each position of the set (`WalkEnds`).  `LinesLeadHome` needs that an entry of a table
names a line of its own, and that there always is a free one (`Counted`): every virtio device
that the enumeration has been at has taken two at most.  `TableRight` says how far the table
of the device in hand is filled, and that those to come are empty.  `StopsForCause` rests
on `QueuesRight`, the order in which a device learns its queues, and on `DevRight`, what is
known of the device in hand, its window among that.

### The terminal

For any screen of at least three columns, any number of pages, any text to print, any
strings of handlers and any keys, with a handler between any two accesses of the kernel
(`TerminalAssumption`; `PrintsAssumption`: nothing that is printed looks like the cursor,
and the kernel prints no backspace, which in this code only the keyboard does):

| Theorem | States |
|---|---|
| `TerminalInvariance` | `IInv` |
| `CursorOnScreen` | `InGrid` |
| `StraysHaveCause` | `StraysForCause` |
| `OneCursorShown` | `OneCursor` |
| `PageUpLosesNothing` | `Recoverable` |

The invariant has layers, each with a condition of its own.

* Whatever handlers do, `Placed` says where the cursor may be: outside of the screen only
  between an increment and its test, or below it in a new line that has yet to save the
  screen.  A handler keeps it because whatever it does leaves the cursor where it was, or
  on the screen (`Handles`).  It rests on `TodoRight`, what there is left to print, and on
  `Listed`, that there is a page when pages are shown.  This is all that `InGrid` needs.
* Unless a handler has come inside a character (`mixed`), `Sound` says that the list holds
  the pages in the order of their numbers, that no page and not the cell under the cursor
  holds a cursor, and that nothing has strayed; `Outside` and `Inside` say, for each place
  of the kernel, where on the screen the cursor is drawn, and that the locals of
  `terminal_advance_one` and `terminal_move_` are what the fields are or were.  A whole call
  keeps a terminal `Clean`: on the screen, sound, and with one cursor, where it should be
  (`PutClean`, `PressedTends`).  While a page is shown, its copy on the screen has no
  cursor, but the end of a prompt may still draw one: hence `Promptless`.  Page Up at the
  first page may end all of this: `FollowedWild` says that then page 1 was shown, that its
  pointer led to other memory, and that nothing goes on.  `OneCursor` and
  `StraysForCause` follow.
* Unless, moreover, the cursor has gone back (`rewound`), `Safe` says that the text that the
  head page has is still on the screen, up to the cursor or where the character goes, so
  that the next save, which copies only what the page does not have, completes the page
  to the text of the screen.  That is what Page Up leaves (`DepartKeeps`), and until a
  character ends the look at the pages no step touches the head (`StepKeeps`,
  `PressedKeeps`): `Recoverable`.

### The runs and the proofs

The inductive invariants of `Pci`, `Block` and `Terminal` were also model-checked, on the
machines of `PciBoot` and the constants of `Block` and of `Terminal`.

### Model-checked only

* All liveness (`CallsReturn`, `TimersFire`, `SleepReturns`, `AllTaken`, `Finishes`): it
  rests on fairness and ENABLED, of which the provers know nothing.
* The numerals of `string.c`: what a recursive definition computes for every input needs an
  induction that the provers cannot do.

## What is not modelled, and the plan

In this order:

1. Interrupts: in-service bits of PIC and APIC, nested acknowledgement of lines other than
   the timer's.  The keyboard's line is masked once the APIC is on; `Terminal` is the
   kernel before that, and every handler that prints after it.
2. An abstract specification of a request queue, of which `Block` up to the wrap and the
   control queue of `Console` are implementations.

Not modelled, and why:

* The red-black tree, and of the libc scatter-list chaining, skipping and copying, the
  string functions other than the numbers, and removal from lists: nothing in the kernel
  calls them.
* `vdev_console_write`, and the configuration of both virtio devices, which is only logged.
* `page_init`, the calibration of the APIC timer and the tables of firmware and processor
  (ACPI, GDT, CPUID, MSR): written or read once at boot, before anything else runs.
* Of the terminal: colours, the copy of the output to the serial port, and the limit on the
  number of pages, whose flag nothing sets.  Of the keyboard: all keys that print but a
  few.
* Of the PCI bus: the ends of address ranges, which nothing reads, `print_pci`, and buses
  other than the first, which `pci_enum` reaches only if there is no host bridge.
* The sizes of two structures that overrun their page (`timer.c:14`, `memory.c:25`): the
  models have no addresses across pages.
* Port I/O without state, the boot loader, and the device tree, which is not part of the
  build.
