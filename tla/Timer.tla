------------------------------- MODULE Timer -------------------------------
(***************************************************************************)
(* The software timers of kernel/timer.c over the one-shot timer of the    *)
(* local APIC (apic.c).  The queue is a list sorted by expiry; the first   *)
(* entry is the one the hardware counts down for, and every entry holds    *)
(* its time as of the moment the list was last brought up to date.         *)
(*                                                                         *)
(* The kernel inserts into the list with interrupts enabled, so that       *)
(* timer_handler may find it, and leave it, in any state: an action of the *)
(* kernel is one access to the shared list or one test of bit_map, the     *)
(* last test merged with the read of the word that is then written back    *)
(* (handlers only clear bits: the bit is clear at both).  The handler runs *)
(* with interrupts disabled until apic_timer_interrupt_in executes sti;    *)
(* another handler's EOI may then let a second timer interrupt in.         *)
(***************************************************************************)
EXTENDS Integers, Sequences

CONSTANTS
  Entries,     \* timers that bit_map can name
  Times,       \* waiting times asked for, in microseconds
  Tick,        \* apic_tick_count: ticks of the hardware per microsecond
  Wrap,        \* 2^32: one more than the largest u32
  MaxNest      \* bound: timer handlers nested in one another

ASSUME TimerAssumption ==
  /\ Entries \in Nat \ {0}
  /\ Times \subseteq 0 .. Wrap - 1
  /\ Tick \in Nat \ {0}
  /\ Wrap \in Nat \ {0}
  /\ MaxNest \in Nat \ {0}

VARIABLES
  timer, next, wakes,  \* per entry: its time, its link, its callback is wakeup_callback
  used,        \* bit_map, as the set of the entries whose bit is set
  head,        \* main_queue.head
  flag,        \* wakeup_flag
  counter,     \* APIC current count register
  pending,     \* the timer interrupt is requested and not yet taken
  inService,   \* the local APIC still waits for the EOI of the timer interrupt
  enabled,     \* the interrupt flag of the CPU
  pc, loc,     \* the kernel: where it is in new_timer and sleep, and its locals; history,
               \* in loc.before: the entries in use when its scan of bit_map began
  frames,      \* the timer handlers that have not returned, innermost last
  halted,      \* an access through NULL has stopped the kernel
  due,         \* history: timer not yet fired |-> ticks before which it must not
  spoilt       \* history: see Spoils and Overflows

hw   == << counter, pending, inService, enabled >>
list == << timer, next, head >>
vars == << timer, next, wakes, used, head, flag, counter, pending, inService,
           enabled, pc, loc, frames, halted, due, spoilt >>

-----------------------------------------------------------------------------

Entry == 1 .. Entries      \* in the order of their bits
NULL  == 0
Link  == Entry \cup {NULL}
U32   == 0 .. Wrap - 1

Less(n, k) == IF n > k THEN n - k ELSE 0

\* The nodes reached from h, in order: chain[0] is h.  A list that ends does so
\* within Entries links; one that does not runs in a circle.
Chain(h) ==
  LET c[k \in 0 .. Entries] ==
        IF k = 0 THEN h ELSE IF c[k - 1] = NULL THEN NULL ELSE next[c[k - 1]]
  IN  c
Circular(h) == Chain(h)[Entries] # NULL
OnChain(h)  == {Chain(h)[k] : k \in 0 .. Entries} \ {NULL}

\* The kernel is between reading something of the list and relying on it.
InWindow == pc \in {"timer", "count", "sub", "scan", "link", "arm", "cli", "mark"}

\* A timer interrupt taken now finds the list half updated.  The code neither
\* masks the interrupt in these places nor checks afterwards.
Spoils == InWindow \/ \E i \in 1 .. Len(frames) : frames[i].at = "store"

\* apic_timer_interrupt_in multiplies in 32 bits.
Overflows(us) == us * Tick >= Wrap
Count(us)     == (us * Tick) % Wrap

NoLocals == [e |-> NULL, time |-> 0, wake |-> FALSE, snap |-> {},
             it |-> NULL, prev |-> NULL, num |-> 0, before |-> {}]

TypeOK ==
  /\ timer \in [Entry -> U32] /\ next \in [Entry -> Link] /\ wakes \in [Entry -> BOOLEAN]
  /\ used \subseteq Entry /\ head \in Link /\ flag \in BOOLEAN
  /\ counter \in U32
  /\ pending \in BOOLEAN /\ inService \in BOOLEAN /\ enabled \in BOOLEAN
  /\ halted \in BOOLEAN /\ spoilt \in BOOLEAN
  /\ pc \in {"idle", "test", "mark", "head", "timer", "count", "sub", "find", "scan", "link",
             "arm", "cli", "write", "check", "hlt", "asleep"}
  /\ loc \in [e : Link, time : U32, wake : BOOLEAN, snap : SUBSET Entry,
              it : Link, prev : Link, num : U32, before : SUBSET Entry]
  /\ frames \in Seq([at : {"store", "eoi"}, rest : Link]) /\ Len(frames) <= MaxNest
  /\ DOMAIN due \subseteq Entry /\ due \in [DOMAIN due -> Nat]

\* timer_init has run; the tick of the PIT is on.
Init ==
  /\ timer = [e \in Entry |-> 0]
  /\ next = [e \in Entry |-> NULL]
  /\ wakes = [e \in Entry |-> FALSE]
  /\ used = {} /\ head = NULL /\ flag = FALSE
  /\ counter = 0 /\ pending = FALSE /\ inService = FALSE /\ enabled = TRUE
  /\ pc = "idle" /\ loc = NoLocals /\ frames = << >>
  /\ halted = FALSE /\ due = [e \in {} |-> 0] /\ spoilt = FALSE

-----------------------------------------------------------------------------
(* new_timer, and sleep (wake is TRUE: the callback is wakeup_callback) *)

\* The kernel executes, from a to b.
At(a)     == ~halted /\ frames = << >> /\ pc = a
Goto(b)   == pc' = b
Step(a, b) == At(a) /\ Goto(b)

\* new_timer returns; sleep goes on to its loop.
Return == /\ pc' = IF loc.wake THEN "check" ELSE "idle"
          /\ loc' = NoLocals

\* A time of 0 runs the callback at once.
NewTimerNow(wake) ==
  /\ At("idle")
  /\ flag' = (flag \/ wake)
  /\ pc' = IF wake THEN "check" ELSE "idle"
  /\ UNCHANGED << list, hw, wakes, used, loc, frames, halted, due, spoilt >>

\* allocate_new_entry tests the bits one after the other ...
Allocate(t, wake) ==
  /\ At("idle") /\ t # 0
  /\ Goto("test")
  /\ loc' = [NoLocals EXCEPT !.it = 1, !.time = t, !.wake = wake, !.before = used]
  /\ UNCHANGED << list, hw, wakes, used, flag, frames, halted, due, spoilt >>

Occupied ==
  /\ At("test") /\ loc.it \in used /\ loc.it < Entries
  /\ loc' = [loc EXCEPT !.it = @ + 1]
  /\ UNCHANGED << list, hw, wakes, used, flag, pc, frames, halted, due, spoilt >>

\* ... until one is clear; its word is read, to be written back with the bit set.
Clear ==
  /\ Step("test", "mark") /\ loc.it \notin used
  /\ loc' = [loc EXCEPT !.e = loc.it, !.it = NULL, !.snap = used, !.before = {}]
  /\ UNCHANGED << list, hw, wakes, used, flag, frames, halted, due, spoilt >>

\* The last is set too: the NULL returned is written through.
Exhausted ==
  /\ At("test") /\ loc.it \in used /\ loc.it = Entries
  /\ halted' = TRUE
  /\ UNCHANGED << list, hw, wakes, used, flag, pc, loc, frames, due, spoilt >>

\* A mistake HaltOnlyWhenFull notices: the bit of the new entry stays clear.
MarkNothing ==
  /\ Step("mark", "head")
  /\ timer' = [timer EXCEPT ![loc.e] = loc.time]
  /\ wakes' = [wakes EXCEPT ![loc.e] = loc.wake]
  /\ due' = [d \in DOMAIN due \cup {loc.e} |-> IF d = loc.e THEN loc.time * Tick ELSE due[d]]
  /\ UNCHANGED << next, head, hw, used, flag, loc, frames, halted, spoilt >>

\* The word of bits read before is written back, and the entry filled in.
Mark ==
  /\ Step("mark", "head")
  /\ used' = loc.snap \cup {loc.e}
  /\ timer' = [timer EXCEPT ![loc.e] = loc.time]
  /\ wakes' = [wakes EXCEPT ![loc.e] = loc.wake]
  /\ due' = [d \in DOMAIN due \cup {loc.e} |-> IF d = loc.e THEN loc.time * Tick ELSE due[d]]
  /\ UNCHANGED << next, head, hw, flag, loc, frames, halted, spoilt >>

\* queue_sub_head_time: the first entry ...
ReadHead ==
  /\ At("head")
  /\ Goto(IF head = NULL THEN "find" ELSE "timer")
  /\ loc' = [loc EXCEPT !.it = head]
  /\ UNCHANGED << list, hw, wakes, used, flag, frames, halted, due, spoilt >>

\* ... its time ...
ReadTimer ==
  /\ Step("timer", "count")
  /\ loc' = [loc EXCEPT !.num = timer[loc.it]]
  /\ UNCHANGED << list, hw, wakes, used, flag, frames, halted, due, spoilt >>

\* A mistake KeepsPromise notices: the count is in ticks (apic_timer_get_count).
ReadCountTicks ==
  /\ Step("count", "sub")
  /\ loc' = [loc EXCEPT !.num = (@ - counter) % Wrap, !.it = head]
  /\ UNCHANGED << list, hw, wakes, used, flag, frames, halted, due, spoilt >>

\* A mistake IInv notices: the difference does not wrap.
ReadCountSigned ==
  /\ Step("count", "sub")
  /\ loc' = [loc EXCEPT !.num = @ - counter \div Tick, !.it = head]
  /\ UNCHANGED << list, hw, wakes, used, flag, frames, halted, due, spoilt >>

\* ... less what the hardware has still to count, in whole microseconds: the time
\* passed, for queue_sub_timer to take from every entry.
ReadCount ==
  /\ Step("count", "sub")
  /\ loc' = [loc EXCEPT !.num = (@ - counter \div Tick) % Wrap, !.it = head]
  /\ UNCHANGED << list, hw, wakes, used, flag, frames, halted, due, spoilt >>

Sub ==
  /\ At("sub") /\ loc.it # NULL
  /\ timer' = [timer EXCEPT ![loc.it] = Less(@, loc.num)]
  /\ loc' = [loc EXCEPT !.it = next[@]]
  /\ UNCHANGED << next, head, hw, wakes, used, flag, pc, frames, halted, due, spoilt >>

SubDone ==
  /\ Step("sub", "find") /\ loc.it = NULL
  /\ UNCHANGED << list, hw, wakes, used, flag, loc, frames, halted, due, spoilt >>

\* queue_find_loc: the last entry before the first that is later than the new one.
Find ==
  /\ Step("find", "scan")
  /\ loc' = [loc EXCEPT !.it = head, !.prev = NULL]
  /\ UNCHANGED << list, hw, wakes, used, flag, frames, halted, due, spoilt >>

\* A mistake QueueSorted notices: the list is searched the wrong way round.
Sooner(it) == timer[it] < timer[loc.e]

Later(it) == timer[loc.e] < timer[it]

Scan ==
  /\ At("scan") /\ loc.it # NULL /\ ~Later(loc.it)
  /\ loc' = [loc EXCEPT !.prev = loc.it, !.it = next[loc.it]]
  /\ UNCHANGED << list, hw, wakes, used, flag, pc, frames, halted, due, spoilt >>

ScanDone ==
  /\ Step("scan", "link")
  /\ loc.it = NULL \/ (loc.it # NULL /\ Later(loc.it))
  /\ UNCHANGED << list, hw, wakes, used, flag, loc, frames, halted, due, spoilt >>

\* A mistake Armed notices: the hardware goes on counting for the entry before.
LinkFirstUnarmed ==
  /\ At("link") /\ loc.prev = NULL
  /\ next' = [next EXCEPT ![loc.e] = head]
  /\ head' = loc.e
  /\ Return
  /\ UNCHANGED << timer, hw, wakes, used, flag, frames, halted, due, spoilt >>

\* slist_insert_head; the hardware is to count for the new entry.
LinkFirst ==
  /\ Step("link", "arm") /\ loc.prev = NULL
  /\ next' = [next EXCEPT ![loc.e] = head]
  /\ head' = loc.e
  /\ UNCHANGED << timer, hw, wakes, used, flag, loc, frames, halted, due, spoilt >>

\* slist_insert_after.
LinkAfter ==
  /\ At("link") /\ loc.prev # NULL
  /\ next' = [next EXCEPT ![loc.e] = next[loc.prev], ![loc.prev] = loc.e]
  /\ Return
  /\ UNCHANGED << timer, head, hw, wakes, used, flag, frames, halted, due, spoilt >>

\* The argument of interrupt_in.
Arm ==
  /\ Step("arm", "cli")
  /\ loc' = [loc EXCEPT !.num = timer[loc.e]]
  /\ UNCHANGED << list, hw, wakes, used, flag, frames, halted, due, spoilt >>

Cli ==
  /\ Step("cli", "write")
  /\ enabled' = FALSE
  /\ UNCHANGED << list, counter, pending, inService, wakes, used, flag, loc, frames,
                  halted, due, spoilt >>

\* The initial count is written, then sti.  An interrupt of the old count that is
\* still pending will be taken for the new one.
Write ==
  /\ At("write")
  /\ counter' = Count(loc.num)
  /\ enabled' = TRUE
  /\ due' = [d \in DOMAIN due |-> IF d = loc.e THEN due[d] ELSE Less(due[d], Tick - 1)]
  /\ spoilt' = (spoilt \/ pending \/ Overflows(loc.num))
  /\ Return
  /\ UNCHANGED << list, pending, inService, wakes, used, flag, frames, halted >>

\* A mistake SleepsLongEnough notices: the flag is left set for the next sleep.
WokenFlagLeft ==
  /\ Step("check", "idle") /\ flag
  /\ UNCHANGED << list, hw, wakes, used, flag, loc, frames, halted, due, spoilt >>

\* The loop of sleep.
Woken ==
  /\ Step("check", "idle") /\ flag
  /\ flag' = FALSE
  /\ UNCHANGED << list, hw, wakes, used, loc, frames, halted, due, spoilt >>

NotWoken ==
  /\ Step("check", "hlt") /\ ~flag
  /\ UNCHANGED << list, hw, wakes, used, flag, loc, frames, halted, due, spoilt >>

Hlt ==
  /\ Step("hlt", "asleep")
  /\ UNCHANGED << list, hw, wakes, used, flag, loc, frames, halted, due, spoilt >>

\* An interrupt ends hlt.
Wakes == pc' = IF pc = "asleep" THEN "check" ELSE pc

-----------------------------------------------------------------------------
(* The hardware *)

CountDown ==
  /\ ~halted /\ counter > 0
  /\ counter' = counter - 1
  /\ pending' = (pending \/ counter = 1)
  /\ due' = [e \in DOMAIN due |-> Less(due[e], 1)]
  /\ UNCHANGED << list, inService, enabled, wakes, used, flag, pc, loc, frames, halted, spoilt >>

\* A mistake SleepReturns notices: the PIT is masked with the rest of the PIC.
PitMasked == FALSE

\* The 1 kHz tick of the PIT, the one PIC line left unmasked: its handler ends in
\* irq_eoi(1, 32), which is an EOI to the local APIC too, whatever is in service.
PitTick ==
  /\ ~halted /\ enabled
  /\ inService \/ pc = "asleep"
  /\ inService' = FALSE
  /\ Wakes
  /\ UNCHANGED << list, counter, pending, enabled, wakes, used, flag, loc, frames,
                  halted, due, spoilt >>

-----------------------------------------------------------------------------
(* timer_handler *)

\* queue_sub_timer with the time of the first entry.
Expired == [e \in Entry |-> IF e \in OnChain(head) THEN Less(timer[e], timer[head])
                                                   ELSE timer[e]]

\* A mistake TimersFire notices: only the first entry fires, whatever is due.
FiringFirst == 1

\* How many entries fire: the first, and those after it that are due as well.
Firing ==
  CHOOSE k \in 1 .. Entries :
    /\ \A j \in 1 .. k - 1 : Chain(head)[j] # NULL /\ Expired[Chain(head)[j]] = 0
    /\ Chain(head)[k] = NULL \/ (Chain(head)[k] # NULL /\ Expired[Chain(head)[k]] # 0)

Fired == {Chain(head)[k] : k \in 0 .. Firing - 1}
Rest  == Chain(head)[Firing]

\* A mistake NoneLost notices: the entry of a timer that fired is not freed.
FlipNothing(S, T) == S

\* queue_free flips the bit.
Flip(S, T) == (S \ T) \cup (T \ S)

\* The interrupt is taken and the handler runs, interrupts disabled, to its first
\* sti or to the end of its loop.
TimerInterrupt ==
  /\ ~halted /\ enabled /\ pending /\ ~inService
  /\ Len(frames) < MaxNest
  /\ pending' = FALSE
  /\ inService' = TRUE
  /\ Wakes
  /\ spoilt' = (spoilt \/ Spoils \/ (head # NULL /\ ~Circular(head) /\ Rest # NULL
                                       /\ Overflows(Expired[Rest])))
  /\ IF head = NULL \/ Circular(head)
       THEN /\ halted' = TRUE     \* a wild call, or an endless loop
            /\ enabled' = FALSE
            /\ UNCHANGED << timer, used, flag, counter, frames, due >>
       ELSE /\ timer' = Expired
            /\ used' = Flip(used, Fired)
            /\ flag' = (flag \/ \E e \in Fired : wakes[e])
            /\ due' = [e \in DOMAIN due \ Fired |-> due[e]]
            /\ counter' = IF Rest = NULL THEN counter ELSE Count(Expired[Rest])
            /\ enabled' = (Rest # NULL)
            /\ frames' = Append(frames, [at |-> "store", rest |-> Rest])
            /\ UNCHANGED halted
  /\ UNCHANGED << next, head, wakes, loc >>

Innermost == frames[Len(frames)]

Store ==
  /\ ~halted /\ frames # << >> /\ Innermost.at = "store"
  /\ head' = Innermost.rest
  /\ frames' = [frames EXCEPT ![Len(frames)].at = "eoi"]
  /\ UNCHANGED << timer, next, hw, wakes, used, flag, pc, loc, halted, due, spoilt >>

\* irq_eoi, and the iret that restores the interrupt flag.
EoiIret ==
  /\ ~halted /\ frames # << >> /\ Innermost.at = "eoi"
  /\ inService' = FALSE
  /\ enabled' = TRUE
  /\ frames' = SubSeq(frames, 1, Len(frames) - 1)
  /\ UNCHANGED << list, counter, pending, wakes, used, flag, pc, loc, halted, due, spoilt >>

-----------------------------------------------------------------------------

KernelStep ==
  \/ Occupied \/ Clear \/ Exhausted
  \/ Mark \/ ReadHead \/ ReadTimer \/ ReadCount \/ Sub \/ SubDone \/ Find \/ Scan
  \/ ScanDone \/ LinkFirst \/ LinkAfter \/ Arm \/ Cli \/ Write \/ Woken \/ NotWoken \/ Hlt

Ask ==
  \/ 0 \in Times /\ \E wake \in BOOLEAN : NewTimerNow(wake)
  \/ \E t \in Times, wake \in BOOLEAN : Allocate(t, wake)

HandlerStep == Store \/ EoiIret

Next == Ask \/ KernelStep \/ CountDown \/ PitTick \/ TimerInterrupt \/ HandlerStep

\* The same, as long as nothing meets a half-updated list and nothing overflows.
NextCalm == Next /\ ~spoilt'

\* The processor runs on, takes an interrupt as soon as it may, and time passes.
Fairness ==
  /\ WF_vars(KernelStep) /\ WF_vars(HandlerStep)
  /\ WF_vars(CountDown) /\ WF_vars(PitTick)
  /\ SF_vars(TimerInterrupt)

Spec     == Init /\ [][Next]_vars
FairSpec == Spec /\ Fairness
CalmSpec == Init /\ [][NextCalm]_vars

-----------------------------------------------------------------------------
(* Properties *)

Calm == ~spoilt

\* The queue as it is, or as the running handler is about to leave it.
First == IF frames # << >> /\ Innermost.at = "store" THEN Innermost.rest ELSE head
Queue == OnChain(First)

\* The list ends, and is sorted by time, at every step of an insertion and of the
\* handler (queue_sub_timer keeps the order, clamping at 0).
QueueSorted ==
  Calm => LET c == Chain(First) IN
    /\ ~Circular(First)
    /\ \A k \in 1 .. Entries : c[k] # NULL => timer[c[k - 1]] <= timer[c[k]]

\* The hardware counts, or its interrupt is on its way, exactly while a timer waits,
\* and it comes no later than one microsecond after the time of the first entry.
Armed ==
  Calm /\ ~halted /\ pc \notin {"arm", "cli", "write"} =>
    /\ First # NULL <=> counter > 0 \/ pending
    /\ First # NULL => counter < (timer[First] + 1) * Tick

\* A timer that was asked for is in the queue until it fires, and only then is its
\* bit clear again: none is lost, none fires twice, no entry leaks.
NoneLost ==
  Calm => /\ DOMAIN due = used
          /\ Queue = IF pc \in {"head", "timer", "count", "sub", "find", "scan", "link"}
                       THEN used \ {loc.e} ELSE used

\* The kernel stops only in a call of new_timer (timer.c:258-260) that found every entry
\* in use when it was made; one that the handler frees behind the scan does not help it.
\* The handler never finds the queue empty (timer.c:214-218).
HaltOnlyWhenFull == Calm /\ halted => pc = "test" /\ loc.before = Entry

\* sleep ends only after its own timer has fired: the flag is never left over from
\* an earlier call.
SleepsLongEnough ==
  [][Calm /\ pc = "check" /\ pc' = "idle" => \A e \in DOMAIN due : ~wakes[e]]_vars

\* Every timer fires.
TimersFire == \A e \in Entry : e \in DOMAIN due ~> e \notin DOMAIN due \/ spoilt \/ halted

\* sleep returns, though its test of wakeup_flag and its hlt are two steps.
SleepReturns == pc \in {"check", "hlt", "asleep"} ~> pc = "idle" \/ spoilt \/ halted

-----------------------------------------------------------------------------
(* The inductive invariant *)

\* Where the new entry is marked and not yet in the list, where it is in the list
\* and the hardware does not count for it, and where the kernel is in sleep.
Unlinked == {"head", "timer", "count", "sub", "find", "scan", "link"}
Arming   == {"arm", "cli", "write"}
Sleeping == {"check", "hlt", "asleep"}

\* The locals of new_timer are set before they are used.
InHand ==
  /\ pc = "test" => loc.it # NULL /\ loc.time \in Times \ {0}
  /\ pc \in {"mark"} \cup Unlinked \cup Arming => loc.e # NULL /\ loc.time \in Times \ {0}
  /\ pc \in {"timer", "count"} => loc.it # NULL

\* Only the innermost handler may still have to store the new head; no handler runs
\* while the kernel is inside the list; an interrupt on its way is that of a count
\* that has run out.
Settled ==
  /\ \A i \in 1 .. Len(frames) - 1 : frames[i].at = "eoi"
  /\ frames # << >> => ~InWindow /\ pc # "write"
  /\ pc = "write" => ~enabled
  /\ pending => counter = 0

\* The timers that a sleep waits for: at most one, and none once the flag is set.
Wakers == {e \in DOMAIN due : wakes[e]}

OneSleep ==
  /\ pc \in {"idle", "test", "mark"} => ~flag /\ Wakers = {}
  /\ pc \in Unlinked \cup Arming => ~flag /\ \A e \in Wakers : e = loc.e /\ loc.wake
  /\ pc \in Sleeping => /\ flag => Wakers = {}
                        /\ \A d, e \in Wakers : d = e

\* While the scan runs, entries are only freed; those it has passed were in use.
Scanning ==
  pc = "test" => used \cup (1 .. loc.it - 1) \subseteq loc.before

\* The entries from First on, in order: the list, as the sequence q.
Queues == UNION {[1 .. n -> Entry] : n \in 0 .. Entries}

Listed(q) ==
  /\ \A i, j \in DOMAIN q : q[i] = q[j] => i = j
  /\ First = IF q = << >> THEN NULL ELSE q[1]
  /\ \A i \in DOMAIN q : next[q[i]] = IF i = Len(q) THEN NULL ELSE q[i + 1]

Members(q) == {q[i] : i \in DOMAIN q}

\* The list has the entries whose bits are set, but for the one in hand.
Complete(q) ==
  /\ DOMAIN due = used
  /\ pc = "mark" => loc.snap = used /\ loc.e \notin used
  /\ pc \in Unlinked \cup Arming => loc.e \in used /\ timer[loc.e] # 0
  /\ Members(q) = IF pc \in Unlinked THEN used \ {loc.e} ELSE used

\* Where the walks over the list have got to: before q[m].
Position(q, m) ==
  /\ pc \in {"timer", "count"} => q # << >> /\ loc.it = q[1]
  /\ pc = "count" => loc.num = timer[q[1]]
  /\ pc \in {"sub", "scan", "link"} => loc.it = IF m > Len(q) THEN NULL ELSE q[m]
  /\ pc \in {"scan", "link"} => loc.prev = IF m = 1 THEN NULL ELSE q[m - 1]
  /\ pc \in Arming => q # << >> /\ q[1] = loc.e
  /\ pc \in {"cli", "write"} => loc.num = timer[loc.e]

\* The time that an entry has, or will have when queue_sub_timer has passed it.
Left(q, m, i) == IF pc = "sub" /\ i >= m THEN timer[q[i]] - loc.num ELSE timer[q[i]]

\* Times grow along the list, and the new entry belongs before q[m].
Ordered(q, m) ==
  /\ \A i, j \in DOMAIN q : i <= j => Left(q, m, i) <= Left(q, m, j)
  /\ pc = "sub" => \A i \in DOMAIN q : i >= m => loc.num <= timer[q[i]]
  /\ pc \in {"scan", "link"} => \A i \in DOMAIN q : i < m => timer[q[i]] <= timer[loc.e]
  /\ pc = "link" => \A i \in DOMAIN q : i >= m => timer[loc.e] < timer[q[i]]

\* The hardware counts for the first entry ...
Counting(q, m) ==
  /\ pc \notin Arming => (q = << >> <=> counter = 0 /\ ~pending)
  /\ pc \notin Arming /\ q # << >> => counter < (Left(q, m, 1) + 1) * Tick
  /\ pc \in {"timer", "count", "sub"} => q # << >>

\* ... and no timer has longer to wait than the list and the hardware say.
OnTime(q, m) ==
  /\ pc \notin Arming =>
       \A i \in DOMAIN q : due[q[i]] <= (Left(q, m, i) - Left(q, m, 1)) * Tick + counter
  /\ pc \in Arming =>
       \A i \in DOMAIN q : due[q[i]] <= timer[q[i]] * Tick + (IF i = 1 THEN 0 ELSE Tick - 1)
  /\ pc \in Unlinked => due[loc.e] <= timer[loc.e] * Tick
  /\ pc \in {"sub", "find", "scan", "link"} /\ q # << >> =>
       \/ due[loc.e] = 0
       \/ due[loc.e] + Left(q, m, 1) * Tick <= timer[loc.e] * Tick + counter

InOrder(q, m) ==
  Listed(q) /\ Complete(q) /\ Position(q, m) /\ Ordered(q, m) /\ Counting(q, m) /\ OnTime(q, m)

Consistent ==
  /\ Settled /\ OneSleep /\ Scanning
  /\ halted => pc = "test" /\ loc.before = Entry
  /\ \E q \in Queues : \E m \in 1 .. Len(q) + 1 : InOrder(q, m)

\* What makes the properties above inductive.
IInv == TypeOK /\ InHand /\ (Calm => Consistent)

-----------------------------------------------------------------------------

\* The queue does what TimerService promises.
Promise == INSTANCE TimerService
             WITH Span <- {t * Tick : t \in Times}, Rounding <- Tick - 1
KeepsPromise == Promise!Spec

=============================================================================
